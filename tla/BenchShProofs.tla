----------------------------- MODULE BenchShProofs ---------------------------
(***************************************************************************)
(* The safety of bench.sh, for any number of invocations, trials, tries    *)
(* and iterations, whichever commands fail and whoever is interrupted.     *)
(* Three parts carry it: the trap is set before there is a server to stop, *)
(* a server that outlives its invocation is one that a signal kept it from *)
(* storing or from waiting for, and the report is written when everything  *)
(* it is about has been copied. And the middle line of the table is a      *)
(* median: of the trials before it none is slower, of the others none is   *)
(* faster, and each is about half. At the end is a variant: an invocation  *)
(* has only so many commands.                                              *)
(***************************************************************************)
EXTENDS BenchSh, SequenceTheorems, FiniteSetTheorems, TLAPS

Leaving == CleanupSteps \cup {"exited"}

(* What cleanup finds, and what it leaves.                                 *)
Trapped ==
  /\ kms_pid # NoServer => trap
  /\ pc \in {"start", "trap"} => ~trap
  /\ pc \notin {"start", "trap", "exited"} => trap
  /\ pc # "exited" => cut = "no"
  /\ pc = "exited" /\ trap /\ cut = "no" => invocation \notin workdirs
  /\ pc \in {"rm", "exited"} /\ cut \in {"no", "rm"} /\ kms_pid # NoServer =>
       ~Alive(invocation)

(* Which servers there are.                                                *)
Accounted ==
  /\ pc \in {"start", "trap", "build", "start_kms"} =>
       kms[invocation] = "none" /\ kms_pid = NoServer
  /\ \A i \in Invocation : i > invocation => kms[i] = "none"
  /\ kms_pid = NoServer /\ pc # "pid" /\ Alive(invocation) =>
       invocation \in negligent
  /\ cut \in {"kill", "reap"} => invocation \in negligent
  /\ \A i \in Invocation : i < invocation /\ Alive(i) => i \in negligent
  /\ \A i \in Invocation : listener = i => kms[i] \in {"up", "stopping"}
  /\ listener # Foreign => der \in {invocation, NoServer} \cup negligent

(* Which files there are.                                                  *)
Copied ==
  /\ \A f \in {"samples", "chart", "key", "report"} :
       results["report"][1] <= results[f][1] /\ results[f][1] <= invocation
  /\ pc \notin Leaving => results["report"][1] < invocation
  /\ \A r \in 1 .. copied : trials[r] = <<invocation, r>>
  /\ results["report"][1] = invocation => copied = runs
  /\ pc \in {"copy_samples", "copy_chart", "copy_trials", "copy_key",
             "report"} => Len(p50) = runs
  /\ pc \in {"copy_chart", "copy_trials", "copy_key", "report"} =>
       results["samples"] = Chosen
  /\ pc \in {"copy_trials", "copy_key", "report"} => results["chart"] = Chosen
  /\ pc \in {"copy_key", "report"} => copied = runs
  /\ pc = "report" => results["key"][1] = invocation
  /\ status = "ok" =>
       /\ pc \in Leaving /\ Len(p50) = runs
       /\ \A f \in {"samples", "chart", "report"} : results[f] = Chosen

IInv == TypeOK /\ Trapped /\ Accounted /\ Copied

(* Nobody, and a foreign server, are no invocation. *)
LEMMA Constants ==
  /\ MaxInvocations \in Nat \ {0} /\ MaxRuns \in Nat \ {0}
  /\ MaxTries \in Nat /\ Iterations \in Nat \ {0}
  /\ Invocation \subseteq Nat \ {0} /\ Run \subseteq Nat \ {0}
  /\ \A i \in Invocation : i # Foreign /\ i # NoServer
  /\ Foreign # NoServer
BY BenchAssumption DEF Invocation, Run

(* Who writes a file, and that nobody wrote it, fit a stamp. *)
LEMMA Stamps ==
  /\ <<0, 0>> \in Stamp
  /\ TypeOK => /\ Chosen \in Stamp /\ <<invocation, 0>> \in Stamp
               /\ \A r \in 1 .. runs : <<invocation, r>> \in Stamp
<1>1. <<0, 0>> \in Stamp
  BY Constants DEF Stamp
<1>2. ASSUME TypeOK, NEW r \in 0 .. runs PROVE <<invocation, r>> \in Stamp
  <2>1. invocation \in 0 .. MaxInvocations /\ r \in 0 .. MaxRuns
    BY <1>2, Constants DEF TypeOK, Invocation, Run
  <2> QED BY <2>1 DEF Stamp
<1>3. TypeOK => runs \in Nat /\ representative \in 0 .. runs
  BY Constants DEF TypeOK
<1> QED BY <1>1, <1>2, <1>3 DEF Chosen

(* The port is the invocation's own, a foreign server's, nobody's, or that *)
(* of an invocation which a signal kept from stopping its server.          *)
LEMMA OwnPort ==
  ASSUME TypeOK, Accounted
  PROVE  listener \in {invocation, Foreign, NoServer} \cup negligent
<1>1. ASSUME NEW i \in Invocation, listener = i
      PROVE  i = invocation \/ i \in negligent
  <2>1. Alive(i) /\ i \in Nat /\ invocation \in Nat
    BY <1>1, Constants DEF TypeOK, Accounted, Alive
  <2>2. ~(i > invocation) /\ (i < invocation => i \in negligent)
    BY <2>1 DEF Accounted, Alive
  <2> QED BY <2>1, <2>2
<1> QED BY <1>1 DEF TypeOK, Accounted, Server

(* Invariance of IInv. *)
THEOREM Invariance == Spec => []IInv
<1>1. Init => IInv
  <2> SUFFICES ASSUME Init PROVE IInv
    OBVIOUS
  <2>1. TypeOK
    <3>1. /\ invocation \in Invocation /\ listener \in Server \cup {NoServer}
          /\ runs \in Run /\ runs \in Nat
      BY Constants, BenchAssumption DEF Init, ScriptInit, Invocation, Server
    <3>2. /\ results \in [{"samples", "chart", "key", "report"} -> Stamp]
          /\ trials \in [Run -> Stamp]
      BY Stamps DEF Init
    <3>3. p50 \in Seq(Times) /\ counts = {} /\ Len(p50) = 0
      BY DEF Init, ScriptInit
    <3>4. /\ pc \in Steps /\ trap \in BOOLEAN
          /\ status = "pending" /\ kms_pid = NoServer /\ der = NoServer
          /\ workdirs = {} /\ keys = {} /\ cut = "no" /\ negligent = {}
      BY DEF Init, ScriptInit, Steps
    <3>7. /\ tries \in 0 .. MaxTries
          /\ representative \in 0 .. runs /\ copied \in 0 .. runs
      BY <3>1, Constants DEF Init, ScriptInit
    <3>5. kms \in [Invocation ->
                      {"none", "starting", "up", "stopping", "gone"}]
      BY DEF Init
    <3>6. Len(p50) <= runs
      BY <3>1, <3>3
    <3> QED BY <3>1, <3>2, <3>3, <3>4, <3>5, <3>6, <3>7 DEF TypeOK
  <2>2. Trapped
    BY Constants DEF Init, ScriptInit, Trapped
  <2>3. Accounted
    <3>1. \A i \in Invocation : kms[i] = "none" /\ ~Alive(i)
      BY DEF Init, Alive
    <3>2. listener \notin Invocation /\ invocation \in Invocation
      BY Constants, BenchAssumption DEF Init, Invocation
    <3> QED
      BY <3>1, <3>2, Constants, BenchAssumption DEF Init, ScriptInit, Accounted
  <2>4. Copied
    BY Constants DEF Init, ScriptInit, Copied, Leaving, CleanupSteps
  <2> QED BY <2>1, <2>2, <2>3, <2>4 DEF IInv
<1>2. IInv /\ [Next]_vars => IInv'
  <2> SUFFICES ASSUME IInv, [Next]_vars PROVE IInv'
    OBVIOUS
  <2>0. TypeOK /\ Trapped /\ Accounted /\ Copied
    BY DEF IInv
  <2> USE DEF Goto, Leave, Fails, CleanupSteps,
              setup, trial, machine, server, files, rest
  <2>1. CASE MakeWorkDir
    <3>1. TypeOK'
      BY <2>0, <2>1, Constants, BenchAssumption
      DEF MakeWorkDir, TypeOK, Steps, CleanupSteps
    <3>2. Trapped'
      BY <2>0, <2>1, Constants DEF MakeWorkDir, Trapped, TypeOK, Alive
    <3>3. Accounted'
      BY <2>0, <2>1, Constants
      DEF MakeWorkDir, Accounted, Trapped, TypeOK, Alive
    <3>4. Copied'
      BY <2>0, <2>1, Constants
      DEF MakeWorkDir, Copied, TypeOK, Leaving, CleanupSteps, Chosen
    <3> QED BY <3>1, <3>2, <3>3, <3>4 DEF IInv
  <2>2. CASE SetTrap
    <3>1. TypeOK'
      BY <2>0, <2>2, Constants, BenchAssumption
      DEF SetTrap, TypeOK, Steps, CleanupSteps
    <3>2. Trapped'
      BY <2>0, <2>2, Constants DEF SetTrap, Trapped, TypeOK, Alive
    <3>3. Accounted'
      BY <2>0, <2>2, Constants
      DEF SetTrap, Accounted, Trapped, TypeOK, Alive
    <3>4. Copied'
      BY <2>0, <2>2, Constants
      DEF SetTrap, Copied, TypeOK, Leaving, CleanupSteps, Chosen
    <3> QED BY <3>1, <3>2, <3>3, <3>4 DEF IInv
  <2>3. CASE Build
    <3>1. TypeOK'
      BY <2>0, <2>3, Constants, BenchAssumption
      DEF Build, TypeOK, Steps, CleanupSteps
    <3>2. Trapped'
      BY <2>0, <2>3, Constants DEF Build, Trapped, TypeOK, Alive
    <3>3. Accounted'
      BY <2>0, <2>3, Constants
      DEF Build, Accounted, Trapped, TypeOK, Alive
    <3>4. Copied'
      BY <2>0, <2>3, Constants
      DEF Build, Copied, TypeOK, Leaving, CleanupSteps, Chosen
    <3> QED BY <3>1, <3>2, <3>3, <3>4 DEF IInv
  <2>4. CASE StartKms
    <3>1. TypeOK'
      BY <2>0, <2>4, Constants, BenchAssumption
      DEF StartKms, TypeOK, Steps, CleanupSteps
    <3>2. Trapped'
      BY <2>0, <2>4, Constants DEF StartKms, Trapped, TypeOK, Alive
    <3>3. Accounted'
      BY <2>0, <2>4, Constants
      DEF StartKms, Accounted, Trapped, TypeOK, Alive
    <3>4. Copied'
      BY <2>0, <2>4, Constants
      DEF StartKms, Copied, TypeOK, Leaving, CleanupSteps, Chosen
    <3> QED BY <3>1, <3>2, <3>3, <3>4 DEF IInv
  <2>5. CASE RecordPid
    <3>1. TypeOK'
      BY <2>0, <2>5, Constants, BenchAssumption
      DEF RecordPid, TypeOK, Steps, CleanupSteps
    <3>2. Trapped'
      BY <2>0, <2>5, Constants DEF RecordPid, Trapped, TypeOK, Alive
    <3>3. Accounted'
      BY <2>0, <2>5, Constants
      DEF RecordPid, Accounted, Trapped, TypeOK, Alive
    <3>4. Copied'
      BY <2>0, <2>5, Constants
      DEF RecordPid, Copied, TypeOK, Leaving, CleanupSteps, Chosen
    <3> QED BY <3>1, <3>2, <3>3, <3>4 DEF IInv
  <2>6. CASE Wait
    <3>1. TypeOK'
      BY <2>0, <2>6, Constants, BenchAssumption
      DEF Wait, TypeOK, Steps, CleanupSteps
    <3>2. Trapped'
      BY <2>0, <2>6, Constants DEF Wait, Trapped, TypeOK, Alive
    <3>3. Accounted'
      BY <2>0, <2>6, Constants
      DEF Wait, Accounted, Trapped, TypeOK, Alive
    <3>4. Copied'
      BY <2>0, <2>6, Constants
      DEF Wait, Copied, TypeOK, Leaving, CleanupSteps, Chosen
    <3> QED BY <3>1, <3>2, <3>3, <3>4 DEF IInv
  <2>7. CASE CreateKey
    <3>1. TypeOK'
      BY <2>0, <2>7, Constants, BenchAssumption
      DEF CreateKey, TypeOK, Steps, CleanupSteps
    <3>2. Trapped'
      BY <2>0, <2>7, Constants DEF CreateKey, Trapped, TypeOK, Alive
    <3>3. Accounted'
      BY <2>0, <2>7, Constants
      DEF CreateKey, Accounted, Trapped, TypeOK, Alive
    <3>4. Copied'
      BY <2>0, <2>7, Constants
      DEF CreateKey, Copied, TypeOK, Leaving, CleanupSteps, Chosen
    <3> QED BY <3>1, <3>2, <3>3, <3>4 DEF IInv
  <2>8. CASE ExportKey
    <3>1. TypeOK'
      BY <2>0, <2>8, Constants, BenchAssumption
      DEF ExportKey, TypeOK, Steps, CleanupSteps
    <3>2. Trapped'
      BY <2>0, <2>8, Constants DEF ExportKey, Trapped, TypeOK, Alive
    <3>3. Accounted'
      BY <2>0, <2>8, Constants, OwnPort
      DEF ExportKey, Accounted, Trapped, TypeOK, Alive
    <3>4. Copied'
      BY <2>0, <2>8, Constants
      DEF ExportKey, Copied, TypeOK, Leaving, CleanupSteps, Chosen
    <3> QED BY <3>1, <3>2, <3>3, <3>4 DEF IInv
  <2>9. CASE SanityCheck
    <3>1. TypeOK'
      BY <2>0, <2>9, Constants, BenchAssumption
      DEF SanityCheck, TypeOK, Steps, CleanupSteps
    <3>2. Trapped'
      BY <2>0, <2>9, Constants DEF SanityCheck, Trapped, TypeOK, Alive
    <3>3. Accounted'
      BY <2>0, <2>9, Constants
      DEF SanityCheck, Accounted, Trapped, TypeOK, Alive
    <3>4. Copied'
      BY <2>0, <2>9, Constants
      DEF SanityCheck, Copied, TypeOK, Leaving, CleanupSteps, Chosen
    <3> QED BY <3>1, <3>2, <3>3, <3>4 DEF IInv
  <2>10. CASE Trial
    <3>1. TypeOK'
      <4>1. /\ p50' \in Seq(Times) /\ Len(p50') <= runs
            /\ counts' \subseteq 1 .. Iterations
        <5>1. CASE UNCHANGED <<p50, counts>>
          BY <2>0, <5>1 DEF TypeOK
        <5>2. ASSUME NEW t \in Times, NEW n \in 1 .. Iterations,
                     p50' = Append(p50, t), counts' = counts \cup {n}
              PROVE  /\ p50' \in Seq(Times) /\ Len(p50') <= runs
                     /\ counts' \subseteq 1 .. Iterations
          BY <2>0, <2>10, <5>2, Constants DEF Trial, TypeOK
        <5>3. Completed \subseteq 1 .. Iterations
          BY Constants DEF Completed
        <5> QED BY <2>10, <5>1, <5>2, <5>3 DEF Trial
      <4> QED
        BY <2>0, <2>10, <4>1, Constants DEF Trial, TypeOK, Steps, CleanupSteps
    <3>2. Trapped'
      BY <2>0, <2>10, Constants DEF Trial, Trapped, TypeOK, Alive
    <3>3. Accounted'
      BY <2>0, <2>10, Constants
      DEF Trial, Accounted, Trapped, TypeOK, Alive
    <3>4. Copied'
      BY <2>0, <2>10, Constants
      DEF Trial, Copied, TypeOK, Leaving, CleanupSteps, Chosen
    <3> QED BY <3>1, <3>2, <3>3, <3>4 DEF IInv
  <2>11. CASE SelectTrial
    <3>1. TypeOK'
      <4>1. representative' \in 0 .. runs
        BY <2>0, <2>11, Constants DEF SelectTrial, TypeOK
      <4> QED BY <2>0, <2>11, <4>1 DEF SelectTrial, TypeOK, Steps
    <3>2. Trapped'
      BY <2>0, <2>11, Constants DEF SelectTrial, Trapped, TypeOK, Alive
    <3>3. Accounted'
      BY <2>0, <2>11, Constants
      DEF SelectTrial, Accounted, Trapped, TypeOK, Alive
    <3>4. Copied'
      BY <2>0, <2>11, Constants
      DEF SelectTrial, Copied, TypeOK, Leaving, CleanupSteps, Chosen
    <3> QED BY <3>1, <3>2, <3>3, <3>4 DEF IInv
  <2>12. CASE CopySamples
    <3>1. TypeOK'
      BY <2>0, <2>12, Stamps
      DEF CopySamples, CopyFile, TypeOK, Steps, CleanupSteps
    <3>2. Trapped'
      BY <2>0, <2>12, Constants
      DEF CopySamples, CopyFile, Trapped, TypeOK, Alive
    <3>3. Accounted'
      BY <2>0, <2>12, Constants
      DEF CopySamples, CopyFile, Accounted, Trapped, TypeOK, Alive
    <3>4. Copied'
      BY <2>0, <2>12, Constants
      DEF CopySamples, CopyFile, Copied, TypeOK, Leaving, CleanupSteps, Chosen
    <3> QED BY <3>1, <3>2, <3>3, <3>4 DEF IInv
  <2>13. CASE CopyChart
    <3>1. TypeOK'
      BY <2>0, <2>13, Stamps
      DEF CopyChart, CopyFile, TypeOK, Steps, CleanupSteps
    <3>2. Trapped'
      BY <2>0, <2>13, Constants DEF CopyChart, CopyFile, Trapped, TypeOK, Alive
    <3>3. Accounted'
      BY <2>0, <2>13, Constants
      DEF CopyChart, CopyFile, Accounted, Trapped, TypeOK, Alive
    <3>4. Copied'
      BY <2>0, <2>13, Constants
      DEF CopyChart, CopyFile, Copied, TypeOK, Leaving, CleanupSteps, Chosen
    <3> QED BY <3>1, <3>2, <3>3, <3>4 DEF IInv
  <2>14. CASE CopyTrial
    <3>1. TypeOK'
      <4>1. /\ copied + 1 \in 1 .. runs /\ copied + 1 \in Run
        BY <2>0, <2>14, Constants DEF CopyTrial, TypeOK, Run
      <4>2. <<invocation, copied + 1>> \in Stamp
        BY <2>0, <4>1, Stamps
      <4>3. trials' \in [Run -> Stamp] /\ copied' \in 0 .. runs
        BY <2>0, <2>14, <4>1, <4>2, Constants DEF CopyTrial, TypeOK
      <4> QED
        BY <2>0, <2>14, <4>3 DEF CopyTrial, TypeOK, Steps, CleanupSteps
    <3>2. Trapped'
      BY <2>0, <2>14, Constants DEF CopyTrial, Trapped, TypeOK, Alive
    <3>3. Accounted'
      BY <2>0, <2>14, Constants
      DEF CopyTrial, Accounted, Trapped, TypeOK, Alive
    <3>4. Copied'
      <4>1. /\ copied + 1 \in Run /\ copied \in Nat
            /\ trials \in [Run -> Stamp] /\ 1 .. copied \subseteq Run
        BY <2>0, <2>14, Constants DEF CopyTrial, TypeOK, Run
      <4>2. \A q \in 1 .. copied' : trials'[q] = <<invocation, q>>
        BY <2>0, <2>14, <4>1 DEF CopyTrial, Copied
      <4> QED
        BY <2>0, <2>14, <4>2
        DEF CopyTrial, Copied, TypeOK, Leaving, CleanupSteps, Chosen
    <3> QED BY <3>1, <3>2, <3>3, <3>4 DEF IInv
  <2>15. CASE TrialsCopied
    <3>1. TypeOK'
      BY <2>0, <2>15, Constants, BenchAssumption
      DEF TrialsCopied, TypeOK, Steps, CleanupSteps
    <3>2. Trapped'
      BY <2>0, <2>15, Constants DEF TrialsCopied, Trapped, TypeOK, Alive
    <3>3. Accounted'
      BY <2>0, <2>15, Constants
      DEF TrialsCopied, Accounted, Trapped, TypeOK, Alive
    <3>4. Copied'
      BY <2>0, <2>15, Constants
      DEF TrialsCopied, Copied, TypeOK, Leaving, CleanupSteps, Chosen
    <3> QED BY <3>1, <3>2, <3>3, <3>4 DEF IInv
  <2>16. CASE CopyKey
    <3>1. TypeOK'
      BY <2>0, <2>16, Stamps DEF CopyKey, CopyFile, TypeOK, Steps, CleanupSteps
    <3>2. Trapped'
      BY <2>0, <2>16, Constants DEF CopyKey, CopyFile, Trapped, TypeOK, Alive
    <3>3. Accounted'
      BY <2>0, <2>16, Constants
      DEF CopyKey, CopyFile, Accounted, Trapped, TypeOK, Alive
    <3>4. Copied'
      BY <2>0, <2>16, Constants
      DEF CopyKey, CopyFile, Copied, TypeOK, Leaving, CleanupSteps, Chosen
    <3> QED BY <3>1, <3>2, <3>3, <3>4 DEF IInv
  <2>17. CASE WriteReport
    <3>1. TypeOK'
      BY <2>0, <2>17, Stamps DEF WriteReport, TypeOK, Steps, CleanupSteps
    <3>2. Trapped'
      BY <2>0, <2>17, Constants DEF WriteReport, Trapped, TypeOK, Alive
    <3>3. Accounted'
      BY <2>0, <2>17, Constants
      DEF WriteReport, Accounted, Trapped, TypeOK, Alive
    <3>4. Copied'
      BY <2>0, <2>17, Constants
      DEF WriteReport, Copied, TypeOK, Leaving, CleanupSteps, Chosen
    <3> QED BY <3>1, <3>2, <3>3, <3>4 DEF IInv
  <2>18. CASE KillServer
    <3>1. TypeOK'
      BY <2>0, <2>18, Constants, BenchAssumption
      DEF KillServer, TypeOK, Steps, CleanupSteps
    <3>2. Trapped'
      BY <2>0, <2>18, Constants DEF KillServer, Trapped, TypeOK, Alive
    <3>3. Accounted'
      BY <2>0, <2>18, Constants
      DEF KillServer, Accounted, Trapped, TypeOK, Alive
    <3>4. Copied'
      BY <2>0, <2>18, Constants
      DEF KillServer, Copied, TypeOK, Leaving, CleanupSteps, Chosen
    <3> QED BY <3>1, <3>2, <3>3, <3>4 DEF IInv
  <2>19. CASE Reap
    <3>1. TypeOK'
      BY <2>0, <2>19, Constants, BenchAssumption
      DEF Reap, TypeOK, Steps, CleanupSteps
    <3>2. Trapped'
      BY <2>0, <2>19, Constants DEF Reap, Trapped, TypeOK, Alive
    <3>3. Accounted'
      BY <2>0, <2>19, Constants
      DEF Reap, Accounted, Trapped, TypeOK, Alive
    <3>4. Copied'
      BY <2>0, <2>19, Constants
      DEF Reap, Copied, TypeOK, Leaving, CleanupSteps, Chosen
    <3> QED BY <3>1, <3>2, <3>3, <3>4 DEF IInv
  <2>20. CASE RemoveWorkDir
    <3>1. TypeOK'
      BY <2>0, <2>20, Constants, BenchAssumption
      DEF RemoveWorkDir, TypeOK, Steps, CleanupSteps
    <3>2. Trapped'
      BY <2>0, <2>20, Constants DEF RemoveWorkDir, Trapped, TypeOK, Alive
    <3>3. Accounted'
      BY <2>0, <2>20, Constants
      DEF RemoveWorkDir, Accounted, Trapped, TypeOK, Alive
    <3>4. Copied'
      BY <2>0, <2>20, Constants
      DEF RemoveWorkDir, Copied, TypeOK, Leaving, CleanupSteps, Chosen
    <3> QED BY <3>1, <3>2, <3>3, <3>4 DEF IInv
  <2>21. CASE Interrupt
    <3>1. TypeOK'
      BY <2>0, <2>21, Constants, BenchAssumption
      DEF Interrupt, TypeOK, Steps, CleanupSteps
    <3>2. Trapped'
      BY <2>0, <2>21, Constants DEF Interrupt, Trapped, TypeOK, Alive
    <3>3. Accounted'
      BY <2>0, <2>21, Constants
      DEF Interrupt, Accounted, Trapped, TypeOK, Alive
    <3>4. Copied'
      BY <2>0, <2>21, Constants
      DEF Interrupt, Copied, TypeOK, Leaving, CleanupSteps, Chosen
    <3> QED BY <3>1, <3>2, <3>3, <3>4 DEF IInv
  <2>22. ASSUME NEW i \in Invocation, KmsComesUp(i) PROVE IInv'
    <3>1. TypeOK'
      BY <2>0, <2>22, Constants DEF KmsComesUp, TypeOK, Server
    <3>2. Trapped'
      BY <2>0, <2>22, Constants DEF KmsComesUp, Trapped, TypeOK, Alive
    <3>3. Accounted'
      <4>1. \A j \in Invocation :
              /\ Alive(j)' => Alive(j)
              /\ kms[j] = "none" => kms'[j] = "none"
              /\ listener' = j => kms'[j] \in {"up", "stopping"}
        BY <2>0, <2>22, Constants DEF KmsComesUp, Accounted, TypeOK, Alive
      <4>2. /\ listener' # Foreign => listener # Foreign
            /\ UNCHANGED <<pc, invocation, kms_pid, cut, negligent, der>>
            /\ invocation \in Invocation
        BY <2>0, <2>22, Constants DEF KmsComesUp, Accounted, TypeOK
      <4> QED BY <2>0, <4>1, <4>2 DEF Accounted
    <3>4. Copied'
      BY <2>0, <2>22 DEF KmsComesUp, Copied, Chosen
    <3> QED BY <3>1, <3>2, <3>3, <3>4 DEF IInv
  <2>23. ASSUME NEW i \in Invocation, KmsStops(i) PROVE IInv'
    <3>1. TypeOK'
      BY <2>0, <2>23, Constants DEF KmsStops, KmsEnds, TypeOK, Server
    <3>2. Trapped'
      BY <2>0, <2>23, Constants DEF KmsStops, KmsEnds, Trapped, TypeOK, Alive
    <3>3. Accounted'
      <4>1. \A j \in Invocation :
              /\ Alive(j)' => Alive(j)
              /\ kms[j] = "none" => kms'[j] = "none"
              /\ listener' = j => kms'[j] \in {"up", "stopping"}
        BY <2>0, <2>23, Constants
        DEF KmsStops, KmsEnds, Accounted, TypeOK, Alive
      <4>2. /\ listener' # Foreign => listener # Foreign
            /\ UNCHANGED <<pc, invocation, kms_pid, cut, negligent, der>>
            /\ invocation \in Invocation
        BY <2>0, <2>23, Constants DEF KmsStops, KmsEnds, Accounted, TypeOK
      <4> QED BY <2>0, <4>1, <4>2 DEF Accounted
    <3>4. Copied'
      BY <2>0, <2>23 DEF KmsStops, KmsEnds, Copied, Chosen
    <3> QED BY <3>1, <3>2, <3>3, <3>4 DEF IInv
  <2>24. ASSUME NEW i \in Invocation, KmsCrashes(i) PROVE IInv'
    <3>1. TypeOK'
      BY <2>0, <2>24, Constants DEF KmsCrashes, KmsEnds, TypeOK, Server
    <3>2. Trapped'
      BY <2>0, <2>24, Constants DEF KmsCrashes, KmsEnds, Trapped, TypeOK, Alive
    <3>3. Accounted'
      <4>1. \A j \in Invocation :
              /\ Alive(j)' => Alive(j)
              /\ kms[j] = "none" => kms'[j] = "none"
              /\ listener' = j => kms'[j] \in {"up", "stopping"}
        BY <2>0, <2>24, Constants
        DEF KmsCrashes, KmsEnds, Accounted, TypeOK, Alive
      <4>2. /\ listener' # Foreign => listener # Foreign
            /\ UNCHANGED <<pc, invocation, kms_pid, cut, negligent, der>>
            /\ invocation \in Invocation
        BY <2>0, <2>24, Constants DEF KmsCrashes, KmsEnds, Accounted, TypeOK
      <4> QED BY <2>0, <4>1, <4>2 DEF Accounted
    <3>4. Copied'
      BY <2>0, <2>24 DEF KmsCrashes, KmsEnds, Copied, Chosen
    <3> QED BY <3>1, <3>2, <3>3, <3>4 DEF IInv
  <2>25. CASE Rerun
    <3>1. TypeOK'
      <4>1. /\ invocation' \in Invocation /\ runs' \in Run /\ runs' \in Nat
        BY <2>0, <2>25, Constants DEF Rerun, TypeOK, Invocation
      <4>2. p50' \in Seq(Times) /\ counts' = {} /\ Len(p50') = 0
        BY <2>25 DEF Rerun
      <4>3. /\ pc' \in Steps /\ trap' \in BOOLEAN /\ cut' = "no"
            /\ status' = "pending" /\ kms_pid' = NoServer /\ der' = NoServer
        BY <2>25 DEF Rerun, Steps
      <4>6. /\ tries' \in 0 .. MaxTries
            /\ representative' \in 0 .. runs' /\ copied' \in 0 .. runs'
        BY <2>25, <4>1, Constants DEF Rerun
      <4>4. UNCHANGED <<workdirs, kms, listener, keys, results, trials,
                        negligent>>
        BY <2>25 DEF Rerun
      <4>5. Len(p50') <= runs'
        BY <4>1, <4>2
      <4> QED BY <2>0, <4>1, <4>2, <4>3, <4>4, <4>5, <4>6 DEF TypeOK
    <3>2. Trapped'
      BY <2>0, <2>25, Constants DEF Rerun, Trapped, TypeOK, Alive
    <3>3. Accounted'
      BY <2>0, <2>25, Constants
      DEF Rerun, Accounted, Trapped, TypeOK, Alive, Invocation
    <3>4. Copied'
      <4>1. /\ invocation' = invocation + 1 /\ invocation \in Nat
            /\ pc' = "start" /\ status' = "pending" /\ copied' = 0
            /\ UNCHANGED results
            /\ \A f \in {"samples", "chart", "key", "report"} :
                 results[f][1] \in Nat
        <5>1. invocation \in Nat /\ results["samples"][1] \in Nat
          BY <2>0, Constants DEF TypeOK, Stamp
        <5>2. /\ results["chart"][1] \in Nat /\ results["key"][1] \in Nat
              /\ results["report"][1] \in Nat
          BY <2>0, Constants DEF TypeOK, Stamp
        <5>3. /\ invocation' = invocation + 1
              /\ pc' = "start" /\ status' = "pending" /\ copied' = 0
              /\ UNCHANGED results
          BY <2>25 DEF Rerun
        <5> QED BY <5>1, <5>2, <5>3
      <4>2. /\ \A f \in {"samples", "chart", "key", "report"} :
                 /\ results["report"][1] <= results[f][1]
                 /\ results[f][1] <= invocation
        BY <2>0 DEF Copied
      <4>3. 1 .. copied' = {} /\ results'["report"][1] < invocation'
        BY <4>1, <4>2
      <4> QED BY <4>1, <4>2, <4>3 DEF Copied, Leaving, CleanupSteps
    <3> QED BY <3>1, <3>2, <3>3, <3>4 DEF IInv
  <2>26. CASE UNCHANGED vars
    BY <2>0, <2>26
    DEF vars, IInv, TypeOK, Trapped, Accounted, Copied, Alive, Chosen
  <2> QED
    BY <2>1, <2>2, <2>3, <2>4, <2>5, <2>6, <2>7, <2>8, <2>9, <2>10, <2>11,
       <2>12, <2>13,
       <2>14, <2>15, <2>16, <2>17, <2>18, <2>19, <2>20, <2>21, <2>22, <2>23,
       <2>24, <2>25, <2>26
    DEF Next, Script, SetUp, Publish, Cleanup, Kms, Terminated
<1> QED BY <1>1, <1>2, PTL DEF Spec

(* Every variable stays in its range. *)
THEOREM TypeCorrect == Spec => []TypeOK
<1>1. IInv => TypeOK
  BY DEF IInv
<1> QED BY <1>1, Invariance, PTL

(* An invocation that set its trap leaves no directory, and no server it   *)
(* has recorded, unless a signal cuts its clean-up short; and no server    *)
(* even then if the clean-up had waited for its end.                       *)
THEOREM CleansUp == Spec => []NothingLeftBehind
<1>1. IInv => NothingLeftBehind
  BY DEF IInv, Trapped, NothingLeftBehind
<1> QED BY <1>1, Invariance, PTL

(* No invocation meets the server of an earlier one, or measures its key,  *)
(* but of one that a signal kept from storing its pid or waiting for it.   *)
THEOREM TalksToItsOwn == Spec => []OneServer
<1>1. IInv => OneServer
  BY OwnPort DEF IInv, Accounted, OneServer
<1> QED BY <1>1, Invariance, PTL

(* The report is never ahead of the files it describes. *)
THEOREM ReportIsLast == Spec => []ReportNeverAhead
<1>1. IInv => ReportNeverAhead
  BY DEF IInv, TypeOK, Copied, ReportNeverAhead
<1> QED BY <1>1, Invariance, PTL

(* A success is the publication of one trial, and of all their samples. *)
THEOREM SuccessPublishes == Spec => []PublishesOneTrial
<1>1. IInv => PublishesOneTrial
  <2> SUFFICES ASSUME IInv, status = "ok" PROVE PublishesOneTrial
    BY DEF PublishesOneTrial
  <2>1. Len(p50) = runs /\ counts \subseteq 1 .. Iterations
    BY DEF IInv, TypeOK, Copied
  <2>2. 0 \notin 1 .. Iterations
    BY Constants
  <2> QED BY <2>1, <2>2 DEF IInv, Copied, PublishesOneTrial
<1> QED BY <1>1, Invariance, PTL

-----------------------------------------------------------------------------
(* The representative trial.                                               *)

(* The trials that a trial has before it.                                  *)
Faster(r) == {q \in 1 .. runs : Before(q, r)}

(* They are finitely many, and fewer than all.                             *)
LEMMA FasterFinite ==
  ASSUME TypeOK, Len(p50) = runs, NEW r \in 1 .. runs
  PROVE  /\ IsFiniteSet(1 .. runs) /\ Cardinality(1 .. runs) = runs
         /\ runs \in Nat /\ \A q \in 1 .. runs : p50[q] \in Nat
         /\ Faster(r) \subseteq 1 .. runs /\ r \notin Faster(r)
         /\ IsFiniteSet(Faster(r)) /\ Cardinality(Faster(r)) \in Nat
<1>1. runs \in Nat
  BY Constants DEF TypeOK
<1>2. IsFiniteSet(1 .. runs) /\ Cardinality(1 .. runs) = runs
  <2>1. /\ IsFiniteSet(1 .. runs)
        /\ Cardinality(1 .. runs) = IF 1 > runs THEN 0 ELSE runs - 1 + 1
    BY <1>1, FS_Interval
  <2> QED BY <1>1, <2>1
<1>3. \A q \in 1 .. runs : p50[q] \in Nat
  <2>1. Times \subseteq Nat /\ p50 \in Seq(Times)
    BY BenchAssumption DEF TypeOK
  <2>2. \A q \in 1 .. Len(p50) : p50[q] \in Times
    BY <2>1, ElementOfSeq
  <2> QED BY <2>1, <2>2
<1>4. Faster(r) \subseteq 1 .. runs /\ r \notin Faster(r)
  BY <1>3 DEF Faster, Before
<1>5. IsFiniteSet(Faster(r))
  BY <1>2, <1>4, FS_Subset
<1> QED BY <1>1, <1>2, <1>3, <1>4, <1>5, FS_CardinalityType

(* Of two trials the one that is before the other has a smaller position.  *)
LEMMA FasterGrows ==
  ASSUME TypeOK, Len(p50) = runs,
         NEW q \in 1 .. runs, NEW r \in 1 .. runs, Before(q, r)
  PROVE  Position(q) < Position(r)
<1>1. Faster(q) \subseteq Faster(r) /\ q \in Faster(r) /\ q \notin Faster(q)
  <2>1. runs \in Nat /\ \A p \in 1 .. runs : p50[p] \in Nat
    BY FasterFinite
  <2> QED BY <2>1 DEF Faster, Before
<1>2. /\ IsFiniteSet(Faster(r))
      /\ Cardinality(Faster(q)) \in Nat /\ Cardinality(Faster(r)) \in Nat
  BY FasterFinite
<1>3. Cardinality(Faster(q)) < Cardinality(Faster(r))
  BY <1>1, <1>2, FS_Subset
<1> QED BY <1>2, <1>3 DEF Position, Faster

(* Every position is that of a trial: sort -n and the middle line of the   *)
(* table find a representative one, however the times are tied.            *)
LEMMA SomeTrialIsMiddle ==
  ASSUME TypeOK, Len(p50) = runs
  PROVE  \E r \in 1 .. runs : Position(r) = Middle
<1> DEFINE D == 1 .. runs
           place == [r \in D |-> Position(r)]
<1>1. runs \in Nat \ {0}
  BY Constants DEF TypeOK
<1>2. ASSUME NEW r \in D PROVE Position(r) \in D
  <2>1. /\ IsFiniteSet(D) /\ Cardinality(D) = runs
        /\ Faster(r) \subseteq D /\ r \in D /\ r \notin Faster(r)
        /\ Cardinality(Faster(r)) \in Nat
    BY FasterFinite
  <2>2. Cardinality(Faster(r)) < Cardinality(D)
    BY <2>1, FS_Subset
  <2> QED BY <1>1, <2>1, <2>2 DEF Position, Faster
<1>3. ASSUME NEW q \in D, NEW r \in D, place[q] = place[r] PROVE q = r
  <2>1. Position(q) = Position(r) /\ Position(q) \in D
    BY <1>2, <1>3
  <2>2. ~Before(q, r) /\ ~Before(r, q)
    BY <2>1, FasterGrows
  <2>3. p50[q] \in Nat /\ p50[r] \in Nat
    BY FasterFinite
  <2> QED BY <2>2, <2>3 DEF Before
<1>4. place \in [D -> D]
  BY <1>2
<1>5. place \in Injection(D, D)
  BY <1>3, <1>4 DEF Injection, IsInjective
<1>6. IsFiniteSet(D)
  BY <1>1, FS_Interval
<1>7. place \in Surjection(D, D)
  BY <1>5, <1>6, FS_Injection
<1>8. Middle \in D
  BY <1>1 DEF Middle
<1> QED BY <1>7, <1>8 DEF Surjection

(* The table of an invocation always has a middle line: the script is      *)
(* never left without a representative trial.                              *)
THEOREM NeverWithoutMiddle ==
  Spec => [](Len(p50) = runs => \E r \in 1 .. runs : Position(r) = Middle)
<1>1. TypeOK => (Len(p50) = runs => \E r \in 1 .. runs : Position(r) = Middle)
  BY SomeTrialIsMiddle
<1> QED BY <1>1, TypeCorrect, PTL

(* What is half-way in the table is half-way among the times: the trials   *)
(* before it are no slower, the others no faster.                          *)
LEMMA MiddleIsMedian ==
  ASSUME TypeOK, Len(p50) = runs,
         NEW r \in 1 .. runs, Position(r) = Middle
  PROVE  /\ 2 * Cardinality({q \in 1 .. runs : p50[q] <= p50[r]}) >= runs
         /\ 2 * Cardinality({q \in 1 .. runs : p50[q] >= p50[r]}) >= runs
<1> DEFINE D == 1 .. runs
           below == {q \in D : p50[q] <= p50[r]}
           above == {q \in D : p50[q] >= p50[r]}
<1>1. /\ IsFiniteSet(D) /\ Cardinality(D) = runs /\ runs \in Nat
      /\ \A q \in D : p50[q] \in Nat
      /\ Faster(r) \subseteq D /\ r \notin Faster(r)
      /\ IsFiniteSet(Faster(r)) /\ Cardinality(Faster(r)) \in Nat
  BY FasterFinite
<1>2. PICK b \in Nat : b = Cardinality(Faster(r))
  BY <1>1
<1>3. 1 + b = (runs + 1) \div 2
  BY <1>2 DEF Position, Middle, Faster
<1>4. runs = 2 * b + 1 \/ runs = 2 * b + 2
  BY <1>1, <1>3
<1>5. Cardinality(below) >= b + 1 /\ Cardinality(below) \in Nat
  <2>1. Faster(r) \cup {r} \subseteq below
    BY <1>1 DEF Faster, Before
  <2>2. IsFiniteSet(below)
    BY <1>1, FS_Subset
  <2>3. Cardinality(Faster(r) \cup {r}) = b + 1
    BY <1>1, <1>2, FS_AddElement
  <2>4. Cardinality(Faster(r) \cup {r}) <= Cardinality(below)
    BY <2>1, <2>2, FS_Subset
  <2>5. Cardinality(below) \in Nat
    BY <2>2, FS_CardinalityType
  <2> QED BY <2>3, <2>4, <2>5
<1>6. Cardinality(above) >= runs - b /\ Cardinality(above) \in Nat
  <2>1. D \ Faster(r) \subseteq above
    BY <1>1 DEF Faster, Before
  <2>2. IsFiniteSet(above)
    BY <1>1, FS_Subset
  <2>3. Cardinality(D \ Faster(r)) = runs - b
    <3>1. Cardinality(D \ Faster(r)) =
            Cardinality(D) - Cardinality(D \cap Faster(r))
      BY <1>1, FS_Difference
    <3>2. D \cap Faster(r) = Faster(r)
      BY <1>1
    <3> QED BY <1>1, <1>2, <3>1, <3>2
  <2>4. Cardinality(D \ Faster(r)) <= Cardinality(above)
    BY <2>1, <2>2, FS_Subset
  <2>5. Cardinality(above) \in Nat
    BY <2>2, FS_CardinalityType
  <2> QED BY <2>3, <2>4, <2>5
<1> HIDE DEF below, above
<1>7. PICK l \in Nat : l = Cardinality(below)
  BY <1>5
<1>8. PICK m \in Nat : m = Cardinality(above)
  BY <1>6
<1>9. l >= b + 1 /\ m >= runs - b
  BY <1>5, <1>6, <1>7, <1>8
<1>10. 2 * l >= runs /\ 2 * m >= runs
  BY <1>4, <1>9
<1> QED BY <1>7, <1>8, <1>10 DEF below, above

(* A trial that is selected is the middle one of all that were asked for.  *)
Selected ==
  representative # 0 =>
    /\ representative \in 1 .. runs /\ Len(p50) = runs
    /\ Position(representative) = Middle

(* It stays what it is until the script is run again.                      *)
LEMMA StaysSelected ==
  ASSUME Selected, UNCHANGED <<runs, p50, representative>>
  PROVE  Selected'
BY DEF Selected, Position, Before, Middle

(* The representative trial is the median of the trials, whatever they     *)
(* measured.                                                               *)
THEOREM MedianPublished == Spec => []RepresentativeIsMedian
<1>1. Init => Selected
  BY DEF Init, ScriptInit, Selected
<1>2. TypeOK /\ Selected /\ [Next]_vars => Selected'
  <2> SUFFICES ASSUME TypeOK, Selected, [Next]_vars PROVE Selected'
    OBVIOUS
  <2>1. CASE Trial
    <3>1. Len(p50) < runs /\ UNCHANGED <<runs, representative>>
      BY <2>1 DEF Trial, setup
    <3>2. Len(p50) # runs
      BY <3>1, Constants DEF TypeOK
    <3> QED BY <3>1, <3>2 DEF Selected
  <2>2. CASE SelectTrial
    <3>1. /\ Len(p50) = runs /\ UNCHANGED <<runs, p50>>
          /\ representative' \in {r \in 1 .. runs : Position(r) = Middle}
      BY <2>2 DEF SelectTrial, setup
    <3>2. representative' \in 1 .. runs /\ Position(representative') = Middle
      BY <3>1
    <3> QED BY <3>1, <3>2 DEF Selected, Position, Before, Middle
  <2>3. CASE Rerun
    BY <2>3 DEF Rerun, Selected
  <2>4. CASE SetUp
    <3>1. UNCHANGED <<runs, p50, representative>>
      BY <2>4 DEF SetUp, MakeWorkDir, SetTrap, Build, StartKms, RecordPid, Wait,
                  CreateKey, ExportKey, SanityCheck, setup, trial
    <3> QED BY <3>1, StaysSelected
  <2>5. CASE Publish
    <3>1. UNCHANGED <<runs, p50, representative>>
      BY <2>5 DEF Publish, CopySamples, CopyChart, CopyFile, CopyTrial,
                  TrialsCopied, CopyKey, WriteReport, setup, trial
    <3> QED BY <3>1, StaysSelected
  <2>6. CASE Cleanup \/ Kms \/ Interrupt \/ UNCHANGED vars
    <3>1. UNCHANGED <<runs, p50, representative>>
      BY <2>6 DEF Cleanup, KillServer, Reap, RemoveWorkDir, Kms, KmsComesUp,
                  KmsStops, KmsCrashes, KmsEnds, Interrupt, vars, setup, trial
    <3> QED BY <3>1, StaysSelected
  <2> QED
    BY <2>1, <2>2, <2>3, <2>4, <2>5, <2>6 DEF Next, Script, Terminated
<1>3. TypeOK /\ Selected => RepresentativeIsMedian
  BY MiddleIsMedian DEF Selected, RepresentativeIsMedian
<1> QED BY <1>1, <1>2, <1>3, TypeCorrect, PTL DEF Spec
-----------------------------------------------------------------------------
(* How much is ahead.                                                      *)

(* The commands of the script up to its end, if no loop goes round again.  *)
Left ==
  CASE pc = "exited" -> 0
    [] pc = "rm" -> 1
    [] pc = "reap" -> 2
    [] pc = "kill" -> 3
    [] pc = "report" -> 4
    [] pc = "copy_key" -> 5
    [] pc = "copy_trials" -> 6
    [] pc = "copy_chart" -> 7
    [] pc = "copy_samples" -> 8
    [] pc = "trial" -> 9
    [] pc = "sanity" -> 10
    [] pc = "export" -> 11
    [] pc = "create" -> 12
    [] pc = "wait" -> 13
    [] pc = "pid" -> 14
    [] pc = "start_kms" -> 15
    [] pc = "build" -> 16
    [] pc = "trap" -> 17
    [] pc = "start" -> 18

(* The loops ask for the server, run the trials and copy their files.      *)
Ahead == Left + (MaxTries - tries) + (runs - Len(p50)) + (runs - copied)

Bound == MaxTries + 2 * MaxRuns + 18

(* An invocation ends within a number of commands known beforehand,        *)
(* whether or not a server answers: each command takes it nearer to its    *)
(* end, and neither a server nor an interrupt takes it away from there.    *)
(* What Ends adds is that each command ends: a trial, and the wait for a   *)
(* server that was told to terminate.                                      *)
THEOREM InvocationIsFinite ==
  Spec => /\ [](Ahead \in 0 .. Bound)
          /\ [][invocation' = invocation =>
                  /\ Script => Ahead' < Ahead
                  /\ Ahead' <= Ahead]_vars
<1> DEFINE Nears == /\ Script => Ahead' < Ahead
                    /\ Ahead' <= Ahead
<1>1. IInv => /\ tries \in Nat /\ tries <= MaxTries
              /\ runs \in Nat /\ runs <= MaxRuns
              /\ Len(p50) \in Nat /\ Len(p50) <= runs
              /\ copied \in Nat /\ copied <= runs
              /\ MaxTries \in Nat /\ MaxRuns \in Nat
              /\ Left \in 0 .. 18
  BY Constants DEF IInv, TypeOK, Run, Left, Steps, CleanupSteps
<1>2. IInv => Ahead \in 0 .. Bound
  <2>1. ASSUME NEW l \in 0 .. 18, NEW r \in Nat, NEW m \in Nat, r <= m,
               NEW n \in Nat, NEW t \in Nat, t <= n,
               NEW p \in Nat, p <= r, NEW c \in Nat, c <= r
        PROVE  l + (n - t) + (r - p) + (r - c) \in 0 .. n + 2 * m + 18
    BY <2>1
  <2> QED BY <1>1, <2>1 DEF Ahead, Bound
<1>3. IInv /\ [Next]_vars => [invocation' = invocation => Nears]_vars
  <2> SUFFICES ASSUME IInv, [Next]_vars, invocation' = invocation
               PROVE  Nears
    OBVIOUS
  <2> USE DEF Goto
  <2>1. /\ tries \in Nat /\ runs \in Nat /\ Len(p50) \in Nat
        /\ copied \in Nat /\ MaxTries \in Nat
        /\ p50 \in Seq(Times) /\ Left \in 0 .. 18
    BY <1>1 DEF IInv, TypeOK
  <2> DEFINE Same  == tries' = tries /\ p50' = p50 /\ copied' = copied
             On    == Left' < Left /\ Same
             Again == /\ Left' = Left
                      /\ \/ /\ tries' = tries + 1
                            /\ p50' = p50 /\ copied' = copied
                         \/ /\ Len(p50') = Len(p50) + 1
                            /\ tries' = tries /\ copied' = copied
                         \/ /\ copied' = copied + 1
                            /\ tries' = tries /\ p50' = p50
  <2>a. ASSUME NEW how, Leave(how) PROVE pc' \in {"kill", "exited"}
    BY <2>a DEF Leave
  <2>2. ASSUME Script
        PROVE  (On \/ Again) /\ runs' = runs /\ Left' \in 0 .. 18
    <3>1. CASE MakeWorkDir
      <4>1. /\ pc = "start" /\ pc' \in {"trap", "kill", "exited"}
            /\ Same /\ runs' = runs
        BY <3>1, <2>a
        DEF MakeWorkDir, Fails, setup, trial
      <4> QED BY <4>1 DEF Left
    <3>2. CASE SetTrap
      <4>1. /\ pc = "trap" /\ pc' = "build"
            /\ Same /\ runs' = runs
        BY <3>2
        DEF SetTrap, trial
      <4> QED BY <4>1 DEF Left
    <3>3. CASE Build
      <4>1. /\ pc = "build" /\ pc' \in {"start_kms", "kill", "exited"}
            /\ Same /\ runs' = runs
        BY <3>3, <2>a
        DEF Build, Fails, setup, trial
      <4> QED BY <4>1 DEF Left
    <3>4. CASE StartKms
      <4>1. /\ pc = "start_kms" /\ pc' = "pid"
            /\ Same /\ runs' = runs
        BY <3>4
        DEF StartKms, setup, trial
      <4> QED BY <4>1 DEF Left
    <3>5. CASE RecordPid
      <4>1. /\ pc = "pid" /\ pc' = "wait"
            /\ Same /\ runs' = runs
        BY <3>5
        DEF RecordPid, trial
      <4> QED BY <4>1 DEF Left
    <3>6. CASE Wait
      <4>1. /\ pc = "wait" /\ runs' = runs
            /\ \/ pc' \in {"create", "kill", "exited"} /\ Same
               \/ /\ pc' = "wait" /\ tries' = tries + 1
                  /\ p50' = p50 /\ copied' = copied
        BY <3>6, <2>a DEF Wait, trial
      <4> QED BY <4>1 DEF Left
    <3>7. CASE CreateKey
      <4>1. /\ pc = "create" /\ pc' \in {"export", "kill", "exited"}
            /\ Same /\ runs' = runs
        BY <3>7, <2>a
        DEF CreateKey, setup, trial
      <4> QED BY <4>1 DEF Left
    <3>8. CASE ExportKey
      <4>1. /\ pc = "export" /\ pc' \in {"sanity", "kill", "exited"}
            /\ Same /\ runs' = runs
        BY <3>8, <2>a
        DEF ExportKey, trial
      <4> QED BY <4>1 DEF Left
    <3>9. CASE SanityCheck
      <4>1. /\ pc = "sanity" /\ pc' \in {"trial", "kill", "exited"}
            /\ Same /\ runs' = runs
        BY <3>9, <2>a
        DEF SanityCheck, setup, trial
      <4> QED BY <4>1 DEF Left
    <3>10. CASE Trial
      <4>1. /\ pc = "trial" /\ runs' = runs
            /\ \/ pc' \in {"kill", "exited"} /\ Same
               \/ /\ pc' = "trial" /\ tries' = tries /\ copied' = copied
                  /\ \E t \in Times : p50' = Append(p50, t)
        BY <3>10, <2>a DEF Trial, setup
      <4>2. \A t \in Times : Len(Append(p50, t)) = Len(p50) + 1
        BY <2>1
      <4> QED BY <4>1, <4>2 DEF Left
    <3>11. CASE SelectTrial
      <4>1. /\ pc = "trial" /\ pc' = "copy_samples"
            /\ Same /\ runs' = runs
        BY <3>11
        DEF SelectTrial, setup
      <4> QED BY <4>1 DEF Left
    <3>12. CASE CopySamples
      <4>1. /\ pc = "copy_samples" /\ pc' \in {"copy_chart", "kill", "exited"}
            /\ Same /\ runs' = runs
        BY <3>12, <2>a
        DEF CopySamples, CopyFile, Fails, setup, trial
      <4> QED BY <4>1 DEF Left
    <3>13. CASE CopyChart
      <4>1. /\ pc = "copy_chart" /\ pc' \in {"copy_trials", "kill", "exited"}
            /\ Same /\ runs' = runs
        BY <3>13, <2>a
        DEF CopyChart, CopyFile, Fails, setup, trial
      <4> QED BY <4>1 DEF Left
    <3>14. CASE CopyTrial
      <4>1. /\ pc = "copy_trials" /\ runs' = runs
            /\ \/ pc' \in {"kill", "exited"} /\ Same
               \/ /\ pc' = "copy_trials" /\ copied' = copied + 1
                  /\ tries' = tries /\ p50' = p50
        BY <3>14, <2>a DEF CopyTrial, Fails, setup
      <4> QED BY <4>1 DEF Left
    <3>15. CASE TrialsCopied
      <4>1. /\ pc = "copy_trials" /\ pc' = "copy_key"
            /\ Same /\ runs' = runs
        BY <3>15
        DEF TrialsCopied, setup, trial
      <4> QED BY <4>1 DEF Left
    <3>16. CASE CopyKey
      <4>1. /\ pc = "copy_key" /\ pc' \in {"report", "kill", "exited"}
            /\ Same /\ runs' = runs
        BY <3>16, <2>a
        DEF CopyKey, CopyFile, Fails, setup, trial
      <4> QED BY <4>1 DEF Left
    <3>17. CASE WriteReport
      <4>1. /\ pc = "report" /\ pc' \in {"kill", "exited"}
            /\ Same /\ runs' = runs
        BY <3>17, <2>a
        DEF WriteReport, Fails, setup, trial
      <4> QED BY <4>1 DEF Left
    <3>18. CASE KillServer
      <4>1. /\ pc = "kill" /\ pc' \in {"reap", "rm"}
            /\ Same /\ runs' = runs
        BY <3>18
        DEF KillServer, setup, trial
      <4> QED BY <4>1 DEF Left
    <3>19. CASE Reap
      <4>1. /\ pc = "reap" /\ pc' = "rm"
            /\ Same /\ runs' = runs
        BY <3>19
        DEF Reap, setup, trial
      <4> QED BY <4>1 DEF Left
    <3>20. CASE RemoveWorkDir
      <4>1. /\ pc = "rm" /\ pc' = "exited"
            /\ Same /\ runs' = runs
        BY <3>20
        DEF RemoveWorkDir, setup, trial
      <4> QED BY <4>1 DEF Left
    <3> QED
      BY <2>2, <3>1, <3>2, <3>3, <3>4, <3>5, <3>6, <3>7, <3>8, <3>9, <3>10,
         <3>11, <3>12, <3>13, <3>14, <3>15, <3>16, <3>17, <3>18, <3>19, <3>20
      DEF Script, SetUp, Publish, Cleanup
  <2>3. ASSUME Script PROVE Ahead' < Ahead /\ Ahead' <= Ahead
    <3>1. CASE On
      <4>1. /\ runs' = runs /\ Left' \in 0 .. 18 /\ Left' < Left
            /\ tries' = tries /\ p50' = p50 /\ copied' = copied
        BY <2>2, <2>3, <3>1
      <4> QED BY <2>1, <4>1 DEF Ahead
    <3>2. CASE Again
      <4>1. runs' = runs /\ Left \in Nat
        BY <2>1, <2>2, <2>3
      <4>2. CASE /\ tries' = tries + 1
                 /\ p50' = p50 /\ copied' = copied
        BY <2>1, <3>2, <4>1, <4>2 DEF Ahead
      <4>3. CASE /\ Len(p50') = Len(p50) + 1
                 /\ tries' = tries /\ copied' = copied
        <5>1. PICK p \in Nat : p = Len(p50)
          BY <2>1
        <5>2. Len(p50') = p + 1
          BY <4>3, <5>1
        <5>3. Left' = Left
          BY <3>2
        <5> QED BY <2>1, <4>1, <4>3, <5>1, <5>2, <5>3 DEF Ahead
      <4>4. CASE /\ copied' = copied + 1
                 /\ tries' = tries /\ p50' = p50
        BY <2>1, <3>2, <4>1, <4>4 DEF Ahead
      <4> QED BY <3>2, <4>2, <4>3, <4>4
    <3> QED BY <2>2, <2>3, <3>1, <3>2
  <2>4. ASSUME UNCHANGED <<pc, setup, trial>> PROVE Ahead' <= Ahead
    <3>1. Ahead' = Ahead
      BY <2>4 DEF Left, Ahead, setup, trial
    <3>2. Ahead \in Nat
      BY <1>2, <2>1 DEF Bound
    <3> QED BY <3>1, <3>2
  <2>5. ASSUME Kms \/ UNCHANGED vars PROVE Ahead' <= Ahead
    <3>1. UNCHANGED <<pc, setup, trial>>
      BY <2>5 DEF Kms, KmsComesUp, KmsStops, KmsCrashes, KmsEnds, vars
    <3> QED BY <2>4, <3>1
  <2>6. ASSUME Interrupt PROVE Ahead' <= Ahead
    <3>0. /\ pc \in Steps \ {"exited"} /\ pc' \in {"kill", "exited"}
          /\ pc \in CleanupSteps => pc' = "exited"
      BY <2>6 DEF Interrupt, Leave, IInv, TypeOK
    <3>1. Left' <= Left /\ Left' \in Nat /\ Left \in Nat
      BY <3>0 DEF Left, CleanupSteps, Steps
    <3>2. UNCHANGED <<tries, runs, p50, copied>>
      BY <2>6 DEF Interrupt, setup, trial
    <3> QED BY <2>1, <3>1, <3>2 DEF Ahead
  <2>7. ~Rerun
    BY Constants DEF Rerun, IInv, TypeOK
  <2> HIDE DEF Ahead
  <2>8. Ahead' <= Ahead
    BY <2>3, <2>5, <2>6, <2>7, Zenon DEF Next, Terminated
  <2> QED BY <2>3, <2>8
<1> QED BY <1>2, <1>3, Invariance, PTL DEF Spec
=============================================================================
