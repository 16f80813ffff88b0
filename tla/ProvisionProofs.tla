--------------------------- MODULE ProvisionProofs --------------------------
(***************************************************************************)
(* That a container alone in its work directory becomes sign-tx with its   *)
(* own key, for any number of containers, key ids, curves, tries and       *)
(* restarts. A key, once created, stays; a file that an earlier start left *)
(* is overwritten before it is looked at. And that a container ends soon,  *)
(* and none that may rely on its key and its file fails.                   *)
(***************************************************************************)
EXTENDS Provision, TLAPS

(* How far a container is says what it may rely on.                        *)
Relies(c) ==
  /\ pc[c] \in {"write", "check", "exec"} => stored[KeyId[c]] # NoCurve
  /\ Alone(c) /\ pc[c] \in {"check", "exec"} => file[WorkDir[c]] = KeyId[c]

IInv == TypeOK /\ \A c \in Containers : Relies(c)

LEMMA Constants ==
  ASSUME NEW c \in Containers
  PROVE  /\ KeyId[c] \in KeyIds /\ WorkDir[c] \in Dirs /\ Curve[c] \in Curves
         /\ Curve[c] # NoCurve /\ KeyId[c] \notin {Missing, Empty}
BY ProvisionAssumption DEF KeyIds, Dirs, Curves

(* A container that writes only its own file, creates only keys there are  *)
(* not, and relies on nothing it should not, spoils nothing for anybody.   *)
LEMMA OthersUndisturbed ==
  ASSUME IInv, TypeOK', NEW c \in Containers, NEW d \in Containers, c # d,
         pc'[d] = pc[d],
         \A k \in KeyIds : stored[k] # NoCurve => stored'[k] # NoCurve,
         \A w \in Dirs : w # WorkDir[c] => file'[w] = file[w]
  PROVE  Relies(d)'
<1>1. Relies(d)
  BY DEF IInv
<1>2. KeyId[d] \in KeyIds /\ WorkDir[d] \in Dirs
  BY Constants
<1>3. Alone(d) => WorkDir[d] # WorkDir[c]
  BY DEF Alone
<1>4. Alone(d)' <=> Alone(d)
  BY DEF Alone
<1> QED BY <1>1, <1>2, <1>3, <1>4 DEF Relies

(* Invariance of IInv. *)
THEOREM Invariance == Spec => []IInv
<1>1. Init => IInv
  BY ProvisionAssumption
  DEF Init, IInv, TypeOK, Relies, Steps, KeyIds, Dirs, Curves
<1>2. IInv /\ [Next]_vars => IInv'
  <2> SUFFICES ASSUME IInv, [Next]_vars PROVE IInv'
    OBVIOUS
  <2> USE DEF Goto
  <2>0. TypeOK
    BY DEF IInv
  <2>1. ASSUME NEW c \in Containers, Script(c) \/ Restart(c) PROVE IInv'
    <3> USE <2>0, Constants, ProvisionAssumption DEF TypeOK, Steps, Ended
    <3>1. CASE Wait(c)
      <4>1. TypeOK'
        BY <3>1 DEF Wait
      <4>2. \A d \in Containers : Relies(d)'
        BY <3>1 DEF Wait, IInv, Relies, Alone
      <4> QED BY <4>1, <4>2 DEF IInv
    <3>2. CASE CreateKey(c)
      <4>1. TypeOK'
        BY <3>2 DEF CreateKey, Created, CreateRefused
      <4>2. \A k \in KeyIds : stored[k] # NoCurve => stored'[k] # NoCurve
        BY <3>2 DEF CreateKey, Created, CreateRefused
      <4>3. Relies(c)'
        BY <3>2 DEF CreateKey, Relies
      <4>4. ASSUME NEW d \in Containers, c # d PROVE Relies(d)'
        BY <3>2, <4>1, <4>2, <4>4, OthersUndisturbed DEF CreateKey
      <4> QED BY <4>1, <4>3, <4>4 DEF IInv
    <3>3. CASE Export(c)
      <4>1. TypeOK'
        BY <3>3 DEF Export
      <4>2. Relies(c)'
        BY <3>3 DEF Export, Relies
      <4>3. ASSUME NEW d \in Containers, c # d PROVE Relies(d)'
        BY <3>3, <4>1, <4>3, OthersUndisturbed DEF Export
      <4> QED BY <4>1, <4>2, <4>3 DEF IInv
    <3>4. CASE Write(c)
      <4>1. TypeOK'
        BY <3>4 DEF Write
      <4>2. Relies(c)'
        BY <3>4 DEF Write, IInv, Relies
      <4>3. ASSUME NEW d \in Containers, c # d PROVE Relies(d)'
        BY <3>4, <4>1, <4>3, OthersUndisturbed DEF Write
      <4> QED BY <4>1, <4>2, <4>3 DEF IInv
    <3>5. CASE Fallback(c)
      <4>1. TypeOK'
        BY <3>5 DEF Fallback
      <4>2. Relies(c)'
        BY <3>5 DEF Fallback, Relies
      <4>3. ASSUME NEW d \in Containers, c # d PROVE Relies(d)'
        BY <3>5, <4>1, <4>3, OthersUndisturbed DEF Fallback
      <4> QED BY <4>1, <4>2, <4>3 DEF IInv
    <3>6. CASE Check(c)
      BY <3>6 DEF Check, IInv, Relies, Alone
    <3>7. CASE Exec(c)
      BY <3>7 DEF Exec, IInv, Relies, Alone
    <3>8. CASE Restart(c)
      BY <3>8 DEF Restart, IInv, Relies, Alone
    <3> QED
      BY <2>1, <3>1, <3>2, <3>3, <3>4, <3>5, <3>6, <3>7, <3>8
      DEF Script
  <2>2. CASE KmsAnswers
    BY <2>2 DEF KmsAnswers, IInv, TypeOK, Relies, Alone
  <2>3. CASE UNCHANGED vars
    BY <2>3 DEF vars, IInv, TypeOK, Relies, Alone
  <2> QED BY <2>1, <2>2, <2>3 DEF Next, Terminated
<1> QED BY <1>1, <1>2, PTL DEF Spec

(* Every variable stays in its range. *)
THEOREM TypeCorrect == Spec => []TypeOK
<1>1. IInv => TypeOK
  BY DEF IInv
<1> QED BY <1>1, Invariance, PTL

(* sign-tx gets the public half of a key that is in the KMS. *)
THEOREM ExecIsSafe == Spec => []ExecsWithItsKey
<1>1. IInv => ExecsWithItsKey
  BY DEF IInv, Relies, ExecsWithItsKey
<1> QED BY <1>1, Invariance, PTL

-----------------------------------------------------------------------------
(* Where no command fails.                                                 *)

(* Then a container has a key to export, and needs no fallback for that.   *)
Calm(c) ==
  mayFail = {} =>
    /\ pc[c] = "export" => stored[KeyId[c]] # NoCurve
    /\ {"pkcs8-der", "raw"} \cap Formats # {} => pc[c] # "fallback"

CInv == \A c \in Containers : Calm(c)

(* A step of one container leaves another's keys where they are.           *)
LEMMA OthersCalm ==
  ASSUME CInv, NEW c \in Containers, NEW d \in Containers, c # d,
         pc'[d] = pc[d], mayFail' = mayFail,
         \A k \in KeyIds : stored[k] # NoCurve => stored'[k] # NoCurve
  PROVE  Calm(d)'
BY Constants DEF CInv, Calm

(* Invariance of CInv.                                                     *)
LEMMA Calmness == Spec => []CInv
<1>1. Init => CInv
  BY DEF Init, CInv, Calm
<1>2. IInv /\ CInv /\ [Next]_vars => CInv'
  <2> SUFFICES ASSUME IInv, CInv, [Next]_vars PROVE CInv'
    OBVIOUS
  <2> USE DEF Goto
  <2>1. ASSUME NEW c \in Containers, Script(c) \/ Restart(c) PROVE CInv'
    <3>1. /\ pc \in [Containers -> Steps] /\ KeyId[c] \in KeyIds
          /\ stored \in [KeyIds -> Curves \cup {NoCurve}]
          /\ Curve[c] # NoCurve
      BY Constants DEF IInv, TypeOK
    <3> USE <3>1
    <3>2. /\ mayFail' = mayFail
          /\ \A d \in Containers : d # c => pc'[d] = pc[d]
      BY <2>1
      DEF Script, Wait, CreateKey, Export, Write, Fallback, Check, Exec,
          Restart
    <3>3. \A k \in KeyIds : stored[k] # NoCurve => stored'[k] # NoCurve
      BY <2>1
      DEF Script, Wait, CreateKey, Created, CreateRefused, Export, Write,
          Fallback, Check, Exec, Restart
    <3>4. Calm(c)'
      <4>1. CASE Wait(c)
        BY <4>1 DEF Wait, Calm, CInv
      <4>2. CASE CreateKey(c)
        BY <4>2 DEF CreateKey, Created, CreateRefused, Calm
      <4>3. CASE Export(c)
        BY <4>3 DEF Export, Calm, CInv
      <4>4. CASE Write(c) \/ Fallback(c) \/ Check(c) \/ Exec(c) \/ Restart(c)
        BY <4>4 DEF Write, Fallback, Check, Exec, Restart, Calm
      <4> QED BY <2>1, <4>1, <4>2, <4>3, <4>4 DEF Script
    <3>5. ASSUME NEW d \in Containers, d # c PROVE Calm(d)'
      BY <3>2, <3>3, <3>5, OthersCalm
    <3> QED BY <3>4, <3>5 DEF CInv
  <2>2. CASE KmsAnswers
    BY <2>2 DEF KmsAnswers, CInv, Calm
  <2>3. CASE UNCHANGED vars
    BY <2>3 DEF vars, CInv, Calm
  <2> QED BY <2>1, <2>2, <2>3 DEF Next, Terminated
<1> QED BY <1>1, <1>2, Invariance, PTL DEF Spec

(* "Re-running the stack must not be a hard error" (provision.sh:56): once *)
(* the KMS answers, a container with its work directory for itself, whose  *)
(* key id stands for the curve it wants, never fails of itself, whoever    *)
(* else creates, exports, is killed and starts again, as long as ckms has  *)
(* one of the two formats and no command fails. With ContainerIsFinite,    *)
(* what EveryContainerMeasures adds is that its commands end.              *)
THEOREM NoContainerFails ==
  ASSUME {"pkcs8-der", "raw"} \cap Formats # {}
  PROVE  Spec =>
           [][\A c \in Containers :
                /\ mayFail = {} /\ reachable /\ Alone(c) /\ Agreed(c)
                /\ pc[c] # "failed"
                => pc'[c] # "failed"]_vars
<1> DEFINE Safe(c) == /\ mayFail = {} /\ reachable /\ Alone(c) /\ Agreed(c)
                      /\ pc[c] # "failed"
           Goes(c) == Safe(c) => pc'[c] # "failed"
<1>1. IInv /\ CInv /\ [Next]_vars => [\A c \in Containers : Goes(c)]_vars
  <2> SUFFICES ASSUME IInv, CInv, [Next]_vars, NEW c \in Containers, Safe(c)
               PROVE  pc'[c] # "failed"
    OBVIOUS
  <2> USE DEF Goto
  <2>1. pc \in [Containers -> Steps] /\ Relies(c) /\ Calm(c)
    BY DEF IInv, TypeOK, CInv
  <2>2. /\ KeyId[c] \in KeyIds /\ WorkDir[c] \in Dirs
        /\ KeyId[c] \notin {Missing, Empty} /\ Curve[c] # NoCurve
    BY Constants
  <2>3. ASSUME NEW d \in Containers, Script(d) \/ Restart(d), d # c
        PROVE  pc'[c] = pc[c]
    BY <2>1, <2>3
    DEF Script, Wait, CreateKey, Export, Write, Fallback, Check, Exec, Restart
  <2>4. CASE Wait(c) \/ CreateKey(c) \/ Write(c) \/ Restart(c)
    BY <2>1, <2>4 DEF Wait, CreateKey, Write, Restart
  <2>5. CASE Export(c)
    BY <2>1, <2>5 DEF Export
  <2>6. CASE Fallback(c)
    BY <2>1, <2>6 DEF Fallback, Calm
  <2>7. CASE Check(c)
    BY <2>1, <2>2, <2>7 DEF Check, Relies
  <2>8. CASE Exec(c)
    <3>1. /\ pc[c] = "exec" /\ file[WorkDir[c]] = KeyId[c]
          /\ stored[KeyId[c]] = Curve[c]
      BY <2>1, <2>8 DEF Exec, Relies, Agreed
    <3> QED BY <2>1, <2>8, <3>1 DEF Exec
  <2>9. CASE KmsAnswers \/ UNCHANGED vars
    BY <2>9 DEF KmsAnswers, vars
  <2> QED
    BY <2>3, <2>4, <2>5, <2>6, <2>7, <2>8, <2>9 DEF Next, Script, Terminated
<1> QED BY <1>1, Invariance, Calmness, PTL DEF Spec

-----------------------------------------------------------------------------
(* How much is ahead.                                                      *)

(* The commands of a container up to its end, if each ends at once.        *)
Left(c) ==
  CASE pc[c] = "wait" -> 7
    [] pc[c] = "create" -> 6
    [] pc[c] = "export" -> 5
    [] pc[c] = "fallback" -> 4
    [] pc[c] = "write" -> 3
    [] pc[c] = "check" -> 2
    [] pc[c] = "exec" -> 1
    [] pc[c] \in Ended -> 0

(* The wait loop asks again and again.                                     *)
Ahead(c) == Left(c) + (MaxTries - tries[c])

(* A container that is not started again ends within MaxTries and seven    *)
(* commands, whatever the KMS and the other containers do: each of its     *)
(* commands takes it nearer to its end, and nothing else takes it away     *)
(* from there. What EveryContainerEnds adds is that its commands end.      *)
THEOREM ContainerIsFinite ==
  Spec => /\ [](\A c \in Containers : Ahead(c) \in 0 .. MaxTries + 7)
          /\ [][\A c \in Containers :
                  /\ Script(c) => Ahead(c)' < Ahead(c)
                  /\ ~Restart(c) => Ahead(c)' <= Ahead(c)]_vars
<1> DEFINE Nears(c) == /\ Script(c) => Ahead(c)' < Ahead(c)
                       /\ ~Restart(c) => Ahead(c)' <= Ahead(c)
<1>1. IInv => \A c \in Containers : Ahead(c) \in 0 .. MaxTries + 7
  <2> SUFFICES ASSUME IInv, NEW c \in Containers
               PROVE  Ahead(c) \in 0 .. MaxTries + 7
    OBVIOUS
  <2>1. /\ pc[c] \in Steps /\ tries[c] \in 0 .. MaxTries
        /\ MaxTries \in Nat
    BY ProvisionAssumption DEF IInv, TypeOK
  <2>2. Left(c) \in 0 .. 7
    BY <2>1 DEF Steps, Ended, Left
  <2> QED BY <2>1, <2>2 DEF Ahead
<1>2. IInv /\ [Next]_vars => [\A c \in Containers : Nears(c)]_vars
  <2> SUFFICES ASSUME IInv, [Next]_vars, NEW c \in Containers
               PROVE  Nears(c)
    OBVIOUS
  <2> USE DEF Goto
  <2>1. /\ pc \in [Containers -> Steps] /\ MaxTries \in Nat
        /\ tries \in [Containers -> 0 .. MaxTries]
    BY ProvisionAssumption DEF IInv, TypeOK
  <2>2. ASSUME Script(c)
        PROVE  Ahead(c)' < Ahead(c) /\ Ahead(c)' <= Ahead(c)
    <3> USE <2>1 DEF Left, Ahead, Ended
    <3>1. CASE Wait(c)
      BY <3>1 DEF Wait
    <3>2. CASE CreateKey(c)
      BY <3>2 DEF CreateKey
    <3>3. CASE Export(c)
      BY <3>3 DEF Export
    <3>4. CASE Write(c)
      BY <3>4 DEF Write
    <3>5. CASE Fallback(c)
      BY <3>5 DEF Fallback
    <3>6. CASE Check(c)
      BY <3>6 DEF Check
    <3>7. CASE Exec(c)
      BY <3>7 DEF Exec
    <3> QED BY <2>2, <3>1, <3>2, <3>3, <3>4, <3>5, <3>6, <3>7 DEF Script
  <2>3. Ahead(c) \in Nat
    BY <1>1, <2>1
  <2>4. ASSUME pc'[c] = pc[c], tries'[c] = tries[c]
        PROVE  Ahead(c)' <= Ahead(c)
    <3>1. Ahead(c)' = Ahead(c)
      BY <2>4 DEF Left, Ahead
    <3> QED BY <2>3, <3>1
  <2>5. ASSUME NEW d \in Containers, Script(d) \/ Restart(d), d # c
        PROVE  Ahead(c)' <= Ahead(c)
    <3>1. pc'[c] = pc[c] /\ tries'[c] = tries[c]
      BY <2>1, <2>5
      DEF Script, Wait, CreateKey, Export, Write, Fallback, Check, Exec,
          Restart
    <3> QED BY <2>4, <3>1
  <2>6. ASSUME KmsAnswers \/ UNCHANGED vars PROVE Ahead(c)' <= Ahead(c)
    BY <2>4, <2>6 DEF KmsAnswers, vars
  <2> HIDE DEF Ahead
  <2>7. ~Restart(c) => Ahead(c)' <= Ahead(c)
    BY <2>2, <2>5, <2>6, Zenon DEF Next, Terminated
  <2> QED BY <2>2, <2>7
<1> QED BY <1>1, <1>2, Invariance, PTL DEF Spec
=============================================================================
