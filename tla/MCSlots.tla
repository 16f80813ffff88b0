------------------------------- MODULE MCSlots ------------------------------
(* Three slots, 0 among them, and as many changes as there are steps.      *)
EXTENDS Slots

ThreeSlots == {0, 1, 2}
=============================================================================
