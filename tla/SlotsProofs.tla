----------------------------- MODULE SlotsProofs ----------------------------
(***************************************************************************)
(* The choice of the slot is sound, and as good as one look at the slots,  *)
(* for any slots and any number of tokens that come and go.                *)
(***************************************************************************)
EXTENDS Slots, FiniteSetTheorems, TLAPS

(* The slots that have a token can be counted (C_GetSlotList).             *)
LEMMA CountIsNat ==
  ASSUME NEW S, S \subseteq SlotIds
  PROVE  Cardinality(S) \in Nat
BY SlotsAssumption, FS_Subset, FS_CardinalityType

(* The vector ids holds the last answer when a slot is chosen from it, and *)
(* the chosen slot fits it.                                                *)
THEOREM Invariance == Spec => []Inv
<1>1. Init => Inv
  BY SlotsAssumption DEF Init, Inv, TypeOK
<1>2. Inv /\ [Next]_vars => Inv'
  <2> SUFFICES ASSUME Inv, [Next]_vars PROVE Inv'
    OBVIOUS
  <2>1. CASE CountSlots
    <3>1. Cardinality(present) \in Nat
      BY CountIsNat DEF Inv, TypeOK
    <3> QED
      BY <2>1, <3>1, SlotsAssumption
      DEF CountSlots, Refuse, Inv, TypeOK, token, Fit
  <2>2. CASE ListSlots
    <3>1. Cardinality(present) \in Nat
      BY CountIsNat DEF Inv, TypeOK
    <3> QED
      BY <2>2, <3>1 DEF ListSlots, Refuse, Inv, TypeOK, token, Fit
  <2>3. CASE Choose
    BY <2>3 DEF Choose, Inv, TypeOK, token, Fit
  <2>4. ASSUME NEW s \in SlotIds, Change(s) PROVE Inv'
    BY <2>4, SlotsAssumption DEF Change, Inv, TypeOK, token, Fit
  <2>5. CASE UNCHANGED vars
    BY <2>5 DEF vars, token, Inv, TypeOK, Fit
  <2> QED
    BY <2>1, <2>2, <2>3, <2>4, <2>5 DEF Next, Terminated
<1> QED
  BY <1>1, <1>2, PTL DEF Spec

(* resolve_slot answers with a slot that had a token when the slots were   *)
(* listed: the one asked for, or the only one.                             *)
THEOREM SoundChoice == Spec => []ChoiceIsSound
<1>1. Inv => ChoiceIsSound
  BY DEF Inv, ChoiceIsSound, Fit
<1> QED
  BY <1>1, Invariance, PTL

-----------------------------------------------------------------------------
(* At most one slot fits, so the mapping's CHOOSE is the one Choose takes. *)
LEMMA OneFits ==
  ASSUME NEW s \in SlotIds, Fit(s)
  PROVE  (CHOOSE t \in SlotIds : Fit(t)) = s
BY DEF Fit

(* The steps of resolve_slot up to the choice, seen from SlotChoice: an    *)
(* answer that is all of the present slots is a Take or a Refuse.          *)
LEMMA AnswerRefines ==
  ASSUME Inv, ~Settled, pc \in {"count", "list"},
         ids' = present, pc' = "choose", UNCHANGED <<present, requested>>
  PROVE  Atomic!Next
<1> DEFINE fits == \E s \in SlotIds : Fit(s)'
<1>1. CASE fits
  <2>1. PICK s \in SlotIds : Fit(s)'
    BY <1>1
  <2>2. (CHOOSE t \in SlotIds : Fit(t)')  = s
    BY <2>1 DEF Fit
  <2>3. Settled' /\ s \in present /\ (IF requested = NoSlot THEN present = {s} ELSE requested = s)
    BY <2>1 DEF Settled, Fit
  <2>4. Atomic!Take(s)
    BY <2>2, <2>3 DEF Atomic!Take, Settled, Outcome, Taken
  <2> QED
    BY <2>4 DEF Atomic!Next
<1>2. CASE ~fits
  <2>1. ~Settled'
    BY <1>2 DEF Settled
  <2> QED
    BY <2>1 DEF Atomic!Next, Atomic!Refuse, Settled, Outcome, Taken
<1> QED
  BY <1>1, <1>2

(* A refusal, and a choice from what was answered before.                  *)
LEMMA RefuseRefines ==
  ASSUME Inv, pc \in {"count", "list"}, pc' = "refused",
         UNCHANGED <<present, requested>>
  PROVE  Atomic!Next
BY DEF Atomic!Next, Atomic!Refuse, Settled, Outcome, Taken

(* resolve_slot implements SlotChoice.                                     *)
THEOREM AtomicChoice == Spec => ChoosesAtomically
<1>1. Init => Atomic!Init
  BY DEF Init, Atomic!Init, Settled, Outcome, Taken
<1>2. Inv /\ Inv' /\ [Next]_vars => [Atomic!Next]_(Atomic!choice)
  <2> SUFFICES ASSUME Inv, Inv', [Next]_vars
               PROVE  [Atomic!Next]_(Atomic!choice)
    OBVIOUS
  <2>1. CASE CountSlots
    <3>1. CASE pc' = "refused"
      BY <2>1, <3>1, RefuseRefines DEF CountSlots, token
    <3>2. CASE pc' = "list"
      BY <2>1, <3>2 DEF CountSlots, token, Settled, Outcome, Taken, Atomic!choice
    <3>3. CASE pc' = "choose"
      <4>1. ids' = present /\ ~Settled
        BY <2>1, <3>3 DEF CountSlots, Refuse, Settled
      <4> QED
        BY <2>1, <3>3, <4>1, AnswerRefines DEF CountSlots, token
    <3> QED
      BY <2>1, <3>1, <3>2, <3>3 DEF CountSlots, Refuse
  <2>2. CASE ListSlots
    <3>1. CASE pc' = "refused"
      BY <2>2, <3>1, RefuseRefines DEF ListSlots, token
    <3>2. CASE pc' = "choose"
      <4>1. ids' = present /\ ~Settled
        BY <2>2, <3>2 DEF ListSlots, Refuse, Settled
      <4> QED
        BY <2>2, <3>2, <4>1, AnswerRefines DEF ListSlots, token
    <3> QED
      BY <2>2, <3>1, <3>2 DEF ListSlots, Refuse
  <2>3. CASE Choose
    BY <2>3 DEF Choose, token, Settled, Outcome, Taken, Fit, Atomic!choice, Inv
  <2>4. ASSUME NEW s \in SlotIds, Change(s) PROVE [Atomic!Next]_(Atomic!choice)
    <3>1. UNCHANGED <<requested, Outcome, Taken>>
      BY <2>4 DEF Change, Outcome, Taken, Settled, Fit
    <3>2. CASE s \in present
      <4>1. present' = present \ {s}
        BY <2>4, <3>2 DEF Change
      <4> QED
        BY <3>1, <4>1 DEF Atomic!Remove, Atomic!Next
    <3>3. CASE s \notin present
      <4>1. present' = present \cup {s}
        BY <2>4, <3>3 DEF Change
      <4> QED
        BY <3>1, <4>1 DEF Atomic!Insert, Atomic!Next
    <3> QED
      BY <3>2, <3>3
  <2>5. CASE UNCHANGED vars
    BY <2>5 DEF vars, token, Settled, Outcome, Taken, Fit, Atomic!choice
  <2> QED
    BY <2>1, <2>2, <2>3, <2>4, <2>5 DEF Next, Terminated
<1> QED
  BY <1>1, <1>2, Invariance, PTL DEF Spec, ChoosesAtomically, Atomic!Spec
=============================================================================
