------------------------------ MODULE Provision -----------------------------
(***************************************************************************)
(* src/docker/provision.sh, the entry point of the bench container: wait   *)
(* for the KMS, create the key or reuse it, export its public half, and    *)
(* become sign-tx. Several containers may run it against one KMS, which    *)
(* keeps the keys of earlier runs (docker-compose.yml's pgdata), with work *)
(* directories of their own or not (it mounts ./results for all), and each *)
(* may be killed and started again at any time. A key pair is named by its *)
(* key id; the KMS keeps its curve.                                        *)
(***************************************************************************)
EXTENDS Naturals, FiniteSets

CONSTANTS
  Containers,   \* those that run the script
  KeyId,        \* of each, the KEY_ID
  Curve,        \* of each, the CURVE
  WorkDir,      \* of each, the WORK_DIR
  Formats,      \* what ckms can export the key as
  Installed,    \* the programs of the image
  MaxTries,     \* how often the wait loop asks
  MaxRestarts,  \* bound on the restarts of the containers
  MayFail,      \* the commands that may fail
  NoCurve,      \* of a key the KMS does not have
  Missing, Empty

KeyIds == {KeyId[c] : c \in Containers}
Dirs   == {WorkDir[c] : c \in Containers}
Curves == {Curve[c] : c \in Containers}

ASSUME ProvisionAssumption ==
  /\ MaxTries \in Nat /\ MaxRestarts \in Nat
  /\ NoCurve \notin Curves
  /\ {Missing, Empty} \cap KeyIds = {} /\ Missing # Empty
  /\ Formats \subseteq {"pkcs8-der", "raw", "json-ttlv"}

VARIABLES
  pc,         \* the next command of each container
  tries,      \* of each wait loop
  restarts,   \* of all containers
  reachable,  \* does the KMS answer?
  mayFail,    \* the commands that may fail: all of MayFail, or none
  stored,     \* of each key id, the curve of its pair, or NoCurve
  file        \* public_key.der of each work directory

vars == <<pc, tries, restarts, reachable, mayFail, stored, file>>

Ended == {"measured", "failed"}

Init ==
  /\ pc = [c \in Containers |-> "wait"]
  /\ tries = [c \in Containers |-> 0]
  /\ restarts = 0
  /\ reachable \in BOOLEAN
  /\ mayFail \in {MayFail, {}}
  /\ stored \in [KeyIds -> Curves \cup {NoCurve}]
  /\ file \in [Dirs -> KeyIds \cup {Missing}]

Goto(c, next) == pc' = [pc EXCEPT ![c] = next]

(* Mutant: until the KMS answers.                                          *)
WaitForever(c) ==
  /\ pc[c] = "wait"
  /\ Goto(c, IF reachable THEN "create" ELSE "wait")
  /\ UNCHANGED <<tries, restarts, reachable, mayFail, stored, file>>

(* MaxTries tries, and a last one.                                         *)
Wait(c) ==
  /\ pc[c] = "wait"
  /\ \/ reachable /\ Goto(c, "create") /\ UNCHANGED tries
     \/ /\ ~reachable
        /\ IF tries[c] < MaxTries
           THEN tries' = [tries EXCEPT ![c] = @ + 1] /\ UNCHANGED pc
           ELSE Goto(c, "failed") /\ UNCHANGED tries
  /\ UNCHANGED <<restarts, reachable, mayFail, stored, file>>

Created(c) ==
  /\ stored[KeyId[c]] = NoCurve
  /\ stored' = [stored EXCEPT ![KeyId[c]] = Curve[c]]

(* The KMS refuses an id that is taken.                                    *)
CreateRefused(c) ==
  /\ stored[KeyId[c]] # NoCurve \/ "create" \in mayFail
  /\ UNCHANGED stored

(* Mutant: under set -e, without the if.                                   *)
CreateOrFail(c) ==
  /\ pc[c] = "create"
  /\ \/ Created(c) /\ Goto(c, "export")
     \/ CreateRefused(c) /\ Goto(c, "failed")
  /\ UNCHANGED <<tries, restarts, reachable, mayFail, file>>

(* Whatever the refusal was, the key is taken to exist.                    *)
CreateKey(c) ==
  /\ pc[c] = "create"
  /\ Goto(c, "export")
  /\ Created(c) \/ CreateRefused(c)
  /\ UNCHANGED <<tries, restarts, reachable, mayFail, file>>

(* Mutant: a file that is there is good enough.                            *)
ExportUnlessThere(c) ==
  /\ pc[c] = "export"
  /\ Goto(c, IF file[WorkDir[c]] = Missing THEN "write" ELSE "check")
  /\ UNCHANGED <<tries, restarts, reachable, mayFail, stored, file>>

(* ckms fetches the key, and then writes the file: pkcs8-der or else raw.  *)
Export(c) ==
  /\ pc[c] = "export"
  /\ \/ /\ stored[KeyId[c]] # NoCurve /\ {"pkcs8-der", "raw"} \cap Formats # {}
        /\ Goto(c, "write")
        /\ file' = [file EXCEPT ![WorkDir[c]] = Empty]
     \/ /\ \/ stored[KeyId[c]] = NoCurve \/ "export" \in mayFail
           \/ {"pkcs8-der", "raw"} \cap Formats = {}
        /\ Goto(c, "fallback") /\ UNCHANGED file
  /\ UNCHANGED <<tries, restarts, reachable, mayFail, stored>>

Write(c) ==
  /\ pc[c] = "write"
  /\ file' = [file EXCEPT ![WorkDir[c]] = KeyId[c]]
  /\ Goto(c, "check")
  /\ UNCHANGED <<tries, restarts, reachable, mayFail, stored>>

(* The redirection empties the file, and xxd fills it, if it is there.     *)
Fallback(c) ==
  /\ pc[c] = "fallback"
  /\ IF stored[KeyId[c]] = NoCurve \/ "json-ttlv" \notin Formats
     THEN Goto(c, "failed") /\ UNCHANGED file
     ELSE /\ Goto(c, IF {"jq", "xxd"} \subseteq Installed
                     THEN "write" ELSE "failed")
          /\ file' = [file EXCEPT ![WorkDir[c]] = Empty]
  /\ UNCHANGED <<tries, restarts, reachable, mayFail, stored>>

(* [ -s public_key.der ]                                                   *)
Check(c) ==
  /\ pc[c] = "check"
  /\ Goto(c, IF file[WorkDir[c]] \in {Missing, Empty}
             THEN "failed" ELSE "exec")
  /\ UNCHANGED <<tries, restarts, reachable, mayFail, stored, file>>

(* sign-tx reads the file. Its self-test fails unless the public key is    *)
(* that of KEY_ID, and it is of the curve (SignTx!SignerAgrees).           *)
Exec(c) ==
  /\ pc[c] = "exec"
  /\ \/ /\ file[WorkDir[c]] = KeyId[c] /\ stored[KeyId[c]] = Curve[c]
        /\ Goto(c, "measured")
     \/ /\ \/ file[WorkDir[c]] # KeyId[c] \/ stored[KeyId[c]] # Curve[c]
           \/ "sign-tx" \in mayFail
        /\ Goto(c, "failed")
  /\ UNCHANGED <<tries, restarts, reachable, mayFail, stored, file>>

(* A container is killed and started again.                                *)
Restart(c) ==
  /\ restarts < MaxRestarts
  /\ Goto(c, "wait")
  /\ tries' = [tries EXCEPT ![c] = 0]
  /\ restarts' = restarts + 1
  /\ UNCHANGED <<reachable, mayFail, stored, file>>

KmsAnswers ==
  /\ ~reachable /\ reachable' = TRUE
  /\ UNCHANGED <<pc, tries, restarts, mayFail, stored, file>>

Script(c) ==
  \/ Wait(c) \/ CreateKey(c) \/ Export(c) \/ Write(c)
  \/ Fallback(c) \/ Check(c) \/ Exec(c)

Terminated == (\A c \in Containers : pc[c] \in Ended) /\ UNCHANGED vars

Next ==
  \/ \E c \in Containers : Script(c) \/ Restart(c)
  \/ KmsAnswers \/ Terminated

(* The commands of a container end. Nothing makes the KMS answer, and      *)
(* nothing makes anybody restart.                                          *)
Spec ==
  /\ Init /\ [][Next]_vars
  /\ \A c \in Containers : WF_vars(Script(c))

-----------------------------------------------------------------------------
Steps == {"wait", "create", "export", "write", "fallback", "check",
          "exec"} \cup Ended

(* Every variable stays in its range.                                      *)
TypeOK ==
  /\ pc \in [Containers -> Steps]
  /\ tries \in [Containers -> 0 .. MaxTries]
  /\ restarts \in 0 .. MaxRestarts
  /\ reachable \in BOOLEAN /\ mayFail \in {MayFail, {}}
  /\ stored \in [KeyIds -> Curves \cup {NoCurve}]
  /\ file \in [Dirs -> KeyIds \cup {Missing, Empty}]

(* Nobody else writes the file a container exports to.                     *)
Alone(c) == \A d \in Containers \ {c} : WorkDir[d] # WorkDir[c]

(* A container that has its work directory for itself becomes sign-tx with *)
(* the public half of a key that is in the KMS, whatever an earlier start, *)
(* cut off anywhere, left in the directory, and whoever created the key.   *)
ExecsWithItsKey ==
  \A c \in Containers : Alone(c) /\ pc[c] = "exec" =>
    file[WorkDir[c]] = KeyId[c] /\ stored[KeyId[c]] # NoCurve

(* provision.sh:56: "Re-running the stack must not be a hard error". A     *)
(* container that has its work directory for itself measures, if the KMS   *)
(* answered before it began, no command fails and its key id stands for    *)
(* the curve it wants, in the KMS and with the others: the one that        *)
(* creates the key, those that lose that race, those that find the key of  *)
(* an earlier run, and those that are killed and started again.            *)
Agreed(c) ==
  /\ stored[KeyId[c]] \in {Curve[c], NoCurve}
  /\ \A d \in Containers : KeyId[d] = KeyId[c] => Curve[d] = Curve[c]

EveryContainerMeasures ==
  [](reachable /\ mayFail = {} =>
       \A c \in Containers :
         Alone(c) /\ Agreed(c) /\ pc[c] = "wait" => <>(pc[c] = "measured"))

(* Every container ends, whether or not the KMS ever answers.              *)
EveryContainerEnds == \A c \in Containers : []<>(pc[c] \in Ended)
=============================================================================
