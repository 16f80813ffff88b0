-------------------------------- MODULE Slots -------------------------------
(***************************************************************************)
(* resolve_slot of src/src/signer.rs on top of Module::slots of            *)
(* src/src/pkcs11.rs, call by call: the slots are counted by one call and  *)
(* listed by the next, and tokens come and go between any two of them.     *)
(* Module Signer has all of it as one step.                                *)
(***************************************************************************)
EXTENDS Naturals, FiniteSets

CONSTANTS
  SlotIds,    \* the slots of the module
  NoSlot,     \* no --slot
  MaxChanges  \* bound on the tokens inserted and removed

ASSUME SlotsAssumption ==
  /\ SlotIds \subseteq Nat /\ IsFiniteSet(SlotIds) /\ 0 \in SlotIds
  /\ NoSlot \notin SlotIds
  /\ MaxChanges \in Nat

VARIABLES
  present,    \* the slots with a token
  changes,    \* how many have been inserted or removed
  requested,  \* --slot
  pc,         \* "count", "list", "choose", "chosen", "refused"
  count,      \* the length of the vector ids
  ids,        \* its elements
  seen,       \* history: present, at the call that answered last
  slot        \* the slot to open a session on

token == <<present, changes>>
vars  == <<token, requested, pc, count, ids, seen, slot>>

Init ==
  /\ present \in SUBSET SlotIds
  /\ changes = 0
  /\ requested \in SlotIds \cup {NoSlot}
  /\ pc = "count"
  /\ count = 0
  /\ ids = {}
  /\ seen = {}
  /\ slot = NoSlot

Refuse == pc' = "refused" /\ UNCHANGED <<count, ids>>

(* C_GetSlotList for the number only. Without slots nothing more is asked. *)
CountSlots ==
  /\ pc = "count"
  /\ \/ /\ count' = Cardinality(present)
        /\ ids' = {id \in {0} : present # {}}
        /\ pc' = IF present = {} THEN "choose" ELSE "list"
     \/ Refuse
  /\ seen' = present
  /\ UNCHANGED <<token, requested, slot>>

(* Mutant: the zeros left of the vector stay in it.                        *)
ListSlotsKeepsLength ==
  /\ pc = "list"
  /\ \/ /\ Cardinality(present) <= count
        /\ ids' = present \cup {id \in ids : Cardinality(present) < count}
        /\ pc' = "choose"
        /\ UNCHANGED count
     \/ Refuse
  /\ seen' = present
  /\ UNCHANGED <<token, requested, slot>>

(* C_GetSlotList into a vector of that many zeros, cut to what was         *)
(* written; more slots by now are refused (CKR_BUFFER_TOO_SMALL).          *)
ListSlots ==
  /\ pc = "list"
  /\ \/ /\ Cardinality(present) <= count
        /\ ids' = present
        /\ count' = Cardinality(present)
        /\ pc' = "choose"
     \/ Refuse
  /\ seen' = present
  /\ UNCHANGED <<token, requested, slot>>

(* The slot resolve_slot answers with, if there is one.                    *)
Fit(s) == IF requested = NoSlot THEN ids = {s} ELSE s = requested /\ s \in ids

Choose ==
  /\ pc = "choose"
  /\ \/ \E s \in SlotIds : Fit(s) /\ slot' = s /\ pc' = "chosen"
     \/ ~(\E s \in SlotIds : Fit(s)) /\ pc' = "refused" /\ UNCHANGED slot
  /\ UNCHANGED <<token, requested, count, ids, seen>>

(* Tokens come and go.                                                     *)
Change(s) ==
  /\ pc \notin {"chosen", "refused"} /\ changes < MaxChanges
  /\ present' = IF s \in present THEN present \ {s} ELSE present \cup {s}
  /\ changes' = changes + 1
  /\ UNCHANGED <<requested, pc, count, ids, seen, slot>>

Terminated == pc \in {"chosen", "refused"} /\ UNCHANGED vars

Next ==
  CountSlots \/ ListSlots \/ Choose \/ (\E s \in SlotIds : Change(s)) \/ Terminated

Spec == Init /\ [][Next]_vars

-----------------------------------------------------------------------------
(* Every variable stays in its range.                                      *)
TypeOK ==
  /\ present \subseteq SlotIds /\ seen \subseteq SlotIds /\ ids \subseteq SlotIds
  /\ changes \in 0 .. MaxChanges
  /\ requested \in SlotIds \cup {NoSlot}
  /\ slot \in SlotIds \cup {NoSlot}
  /\ pc \in {"count", "list", "choose", "chosen", "refused"}
  /\ count \in Nat

(* What is chosen from is the token's last answer, all of it: with the     *)
(* types, the inductive invariant of the proofs.                           *)
Inv ==
  /\ TypeOK
  /\ pc \in {"choose", "chosen"} => ids = seen
  /\ pc = "chosen" => slot \in SlotIds /\ Fit(slot)
  /\ pc # "chosen" => slot = NoSlot

(* No choice is made of a mixture of the two answers: the slot had a token *)
(* when the slots were listed; it is the one asked for, or it was the only *)
(* one then (signer.rs:252-268).                                           *)
ChoiceIsSound ==
  pc = "chosen" =>
    /\ slot \in seen
    /\ IF requested = NoSlot THEN seen = {slot} ELSE slot = requested

(* The two calls and the choice are as good as one look at all slots, the  *)
(* choice being settled by the answer that lists them.                     *)
Settled == pc \in {"choose", "chosen"} /\ \E s \in SlotIds : Fit(s)

Outcome == IF Settled THEN "taken"
           ELSE IF pc \in {"choose", "refused"} THEN "refused" ELSE "pending"

Taken == IF Settled THEN CHOOSE s \in SlotIds : Fit(s) ELSE NoSlot

Atomic == INSTANCE SlotChoice WITH
  tokens <- present, wanted <- requested, outcome <- Outcome, taken <- Taken

ChoosesAtomically == Atomic!Spec
=============================================================================
