----------------------------- MODULE KeyCustody -----------------------------
(***************************************************************************)
(* What a run of sign-tx promises about the key objects of the token       *)
(* (README.md, "Key lifecycle"; signer.rs:44-45 and 222-244): it adds at   *)
(* most one pair, it takes away only objects it added, and it ends with    *)
(* none of them left but those it was refused. A process that is killed    *)
(* promises nothing of the kind; what it leaves then stays as it is.       *)
(***************************************************************************)
EXTENDS Naturals

CONSTANTS
  Fresh,    \* the objects a run may add
  Foreign   \* the objects that were there

VARIABLES
  mine,      \* the objects this run has added and not destroyed
  others,    \* the other objects of the token
  disowned,  \* objects of this run it will not be able to destroy
  state      \* "running", "exited" or "killed"

custody == <<mine, others, disowned, state>>

Init ==
  /\ mine = {} /\ disowned = {}
  /\ others = Foreign
  /\ state = "running"

(* The pair is created, and known to the run or lost to it.                *)
Create ==
  /\ mine = {}
  /\ mine' = Fresh
  /\ disowned' \in {{}, Fresh}
  /\ UNCHANGED <<others, state>>

(* Without a public key to check it with, the run gives its pair up.       *)
GiveUp ==
  /\ mine = Fresh
  /\ disowned' = Fresh
  /\ UNCHANGED <<mine, others, state>>

Destroy(o) ==
  /\ o \in mine \ disowned
  /\ mine' = mine \ {o}
  /\ UNCHANGED <<others, disowned, state>>

Refused(o) ==
  /\ o \in mine
  /\ disowned' = disowned \cup {o}
  /\ UNCHANGED <<mine, others, state>>

Exit ==
  /\ mine \subseteq disowned
  /\ state' = "exited"
  /\ UNCHANGED <<mine, others, disowned>>

Kill == state' = "killed" /\ UNCHANGED <<mine, others, disowned>>

Next ==
  /\ state = "running"
  /\ \/ Create \/ GiveUp \/ Exit \/ Kill
     \/ \E o \in Fresh : Destroy(o) \/ Refused(o)

Spec == Init /\ [][Next]_custody
=============================================================================
