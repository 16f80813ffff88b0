----------------------------- MODULE SlotChoice -----------------------------
(***************************************************************************)
(* What resolve_slot promises (README.md:47, signer.rs:246): as if it saw  *)
(* all slots at one instant, it takes the slot asked for, if it has a      *)
(* token, or the only one that has, if none is asked for; or it refuses.   *)
(***************************************************************************)
EXTENDS Naturals

CONSTANTS
  SlotIds,  \* the slots of the module
  NoSlot    \* no --slot

VARIABLES
  tokens,  \* the slots with a token present
  wanted,  \* --slot
  outcome, \* "pending", "refused", "taken"
  taken    \* the slot, or NoSlot

choice == <<tokens, wanted, outcome, taken>>

Init ==
  /\ tokens \in SUBSET SlotIds
  /\ wanted \in SlotIds \cup {NoSlot}
  /\ outcome = "pending" /\ taken = NoSlot

Insert(s) == tokens' = tokens \cup {s} /\ UNCHANGED <<wanted, outcome, taken>>
Remove(s) == tokens' = tokens \ {s} /\ UNCHANGED <<wanted, outcome, taken>>

Take(s) ==
  /\ outcome = "pending"
  /\ s \in tokens
  /\ IF wanted = NoSlot THEN tokens = {s} ELSE wanted = s
  /\ outcome' = "taken" /\ taken' = s
  /\ UNCHANGED <<tokens, wanted>>

Refuse ==
  /\ outcome = "pending"
  /\ outcome' = "refused"
  /\ UNCHANGED <<tokens, wanted, taken>>

Next == Refuse \/ \E s \in SlotIds : Insert(s) \/ Remove(s) \/ Take(s)

Spec == Init /\ [][Next]_choice
=============================================================================
