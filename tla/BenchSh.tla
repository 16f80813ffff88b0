------------------------------- MODULE BenchSh ------------------------------
(***************************************************************************)
(* src/bench.sh: one invocation after the other, each with a temporary     *)
(* directory and a KMS server of its own, on a port that others may have   *)
(* taken, and one results directory for all of them. The script runs under *)
(* set -euo pipefail, so the first command that fails ends it, and the     *)
(* EXIT trap cleans up. A trial is a run of sign-tx: it measures all its   *)
(* iterations, or is interrupted and publishes those it has                *)
(* (SignTx!PublishedRunIsComplete), or exits with an error.                *)
(***************************************************************************)
EXTENDS Naturals, Sequences, FiniteSets

CONSTANTS
  MaxInvocations,  \* bound on the invocations of the script
  MaxRuns,         \* bound on --runs
  MaxTries,        \* how often the wait loop asks
  Iterations,      \* --iterations
  Times,           \* the p50 a trial may have
  Foreign,         \* a server that none of the invocations started
  NoServer,        \* nobody
  MayListen,       \* who may have the port before the first invocation
  Interrupts,      \* who may be sent a signal: "script", "sign-tx"
  MayFail          \* the commands that may fail

ASSUME BenchAssumption ==
  /\ {MaxInvocations, MaxRuns, Iterations} \subseteq Nat \ {0}
  /\ MaxTries \in Nat
  /\ Times \subseteq Nat
  /\ MayListen \subseteq {Foreign, NoServer}
  /\ {Foreign, NoServer} \cap Nat = {} /\ Foreign # NoServer

Invocation == 1 .. MaxInvocations
Run        == 1 .. MaxRuns
Server     == Invocation \cup {Foreign}

(* Who wrote a file of the results directory; <<0, 0>>: nobody.            *)
Stamp == (0 .. MaxInvocations) \X (0 .. MaxRuns)

VARIABLES
  invocation,      \* the invocation that runs, or ran last
  pc,              \* its next command
  runs,            \* its --runs
  status,          \* its exit status: "pending", "ok", "error", "interrupted"
  trap,            \* is the EXIT trap set?
  kms_pid,         \* KMS_PID, as the invocation that started it
  tries,           \* of the wait loop
  der,             \* the server whose public key was exported
  p50,             \* run-summary.tsv, in the order of the trials
  counts,          \* how many samples the trials had, as a set
  representative,  \* REPRESENTATIVE_RUN, 0 before it is known
  copied,          \* the trial files copied so far
  workdirs,        \* the temporary directories there are, by invocation
  kms,             \* the servers started, by invocation
  listener,        \* who has the port
  keys,            \* the servers that have a key KEY_ID
  results,         \* the results directory but for the trial files
  trials,          \* samples-run-N.csv
  cut,             \* history: where a signal cut its clean-up short, or "no"
  negligent        \* history: invocations a signal kept from storing the pid
                   \* of their server or from waiting for its end

setup   == <<runs, trap, kms_pid, tries, der>>
trial   == <<p50, counts, representative, copied>>
server  == <<kms, listener>>
machine == <<workdirs, server, keys>>
files   == <<results, trials>>
rest    == <<invocation, cut, negligent>>
vars    == <<pc, status, setup, trial, machine, files, rest>>

ScriptInit ==
  /\ pc = "start" /\ status = "pending" /\ trap = FALSE
  /\ runs \in Run
  /\ kms_pid = NoServer /\ tries = 0 /\ der = NoServer
  /\ p50 = << >> /\ counts = {} /\ representative = 0 /\ copied = 0

Init ==
  /\ invocation = 1
  /\ ScriptInit
  /\ workdirs = {}
  /\ kms = [i \in Invocation |-> "none"]
  /\ listener \in MayListen
  /\ keys = {}
  /\ results = [f \in {"samples", "chart", "key", "report"} |-> <<0, 0>>]
  /\ trials = [r \in Run |-> <<0, 0>>]
  /\ cut = "no" /\ negligent = {}

CleanupSteps == {"kill", "reap", "rm"}

Goto(next) == pc' = next /\ UNCHANGED status

(* The script ends: the EXIT trap runs if it is set, and not once more if  *)
(* it is running already.                                                  *)
Leave(how) ==
  /\ status' = how
  /\ pc' = IF trap /\ pc \notin CleanupSteps THEN "kill" ELSE "exited"

Fails(command) == command \in MayFail /\ Leave("error")

-----------------------------------------------------------------------------
(* The set-up.                                                             *)

MakeWorkDir ==
  /\ pc = "start"
  /\ \/ Goto("trap") /\ workdirs' = workdirs \cup {invocation}
     \/ Fails("arguments") /\ UNCHANGED workdirs
  /\ UNCHANGED <<setup, trial, keys, server, files, rest>>

SetTrap ==
  /\ pc = "trap"
  /\ Goto("build")
  /\ trap' = TRUE
  /\ UNCHANGED <<runs, kms_pid, tries, der, trial, machine, files, rest>>

Build ==
  /\ pc = "build"
  /\ Goto("start_kms") \/ Fails("build")
  /\ UNCHANGED <<setup, trial, machine, files, rest>>

StartKms ==
  /\ pc = "start_kms"
  /\ Goto("pid")
  /\ kms' = [kms EXCEPT ![invocation] = "starting"]
  /\ UNCHANGED <<setup, trial, workdirs, keys, listener, files, rest>>

(* KMS_PID=$!                                                              *)
RecordPid ==
  /\ pc = "pid"
  /\ Goto("wait")
  /\ kms_pid' = invocation
  /\ UNCHANGED <<runs, trap, tries, der, trial, machine, files, rest>>

(* Mutant: it waits for as long as it takes.                               *)
WaitForever ==
  /\ pc = "wait"
  /\ IF listener # NoServer THEN Goto("create") ELSE Goto("wait")
  /\ UNCHANGED <<setup, trial, machine, files, rest>>

(* Any server will do, and there are MaxTries tries.                       *)
Wait ==
  /\ pc = "wait"
  /\ \/ listener # NoServer /\ Goto("create") /\ UNCHANGED tries
     \/ /\ listener = NoServer \/ "curl" \in MayFail
        /\ IF tries < MaxTries
           THEN Goto("wait") /\ tries' = tries + 1
           ELSE Leave("error") /\ UNCHANGED tries
  /\ UNCHANGED <<runs, trap, kms_pid, der, trial, machine, files, rest>>

(* ckms and sign-tx talk to whoever has the port by then. A key id that is *)
(* taken is an error.                                                      *)
CreateKey ==
  /\ pc = "create"
  /\ \/ /\ listener \notin keys \cup {NoServer}
        /\ keys' = keys \cup {listener}
        /\ Goto("export")
     \/ /\ listener \in keys \cup {NoServer} \/ "ckms" \in MayFail
        /\ Leave("error") /\ UNCHANGED keys
  /\ UNCHANGED <<setup, trial, workdirs, server, files, rest>>

ExportKey ==
  /\ pc = "export"
  /\ \/ listener \in keys /\ der' = listener /\ Goto("sanity")
     \/ /\ listener \notin keys \/ "ckms" \in MayFail
        /\ Leave("error") /\ UNCHANGED der
  /\ UNCHANGED <<runs, trap, kms_pid, tries, trial, machine, files, rest>>

(* sign-tx finds the key, and its signatures verify with the exported one. *)
CanSign == listener = der /\ listener \in keys

SanityCheck ==
  /\ pc = "sanity"
  /\ \/ CanSign /\ Goto("trial")
     \/ (~CanSign \/ "sign-tx" \in MayFail) /\ Leave("error")
  /\ UNCHANGED <<setup, trial, machine, files, rest>>

-----------------------------------------------------------------------------
(* The trials.                                                             *)

(* The samples of a run of sign-tx that exits with 0.                      *)
Completed == IF "sign-tx" \in Interrupts THEN 1 .. Iterations ELSE {Iterations}

(* Mutant: without pipefail, tee's status is the pipeline's.               *)
TrialUnderTee ==
  /\ pc = "trial" /\ Len(p50) < runs
  /\ \/ \E t \in Times, n \in Completed :
          CanSign /\ p50' = Append(p50, t) /\ counts' = counts \cup {n}
     \/ /\ ~CanSign \/ "sign-tx" \in MayFail
        /\ p50' = Append(p50, 0) /\ counts' = counts \cup {0}
  /\ Goto("trial")
  /\ UNCHANGED <<setup, representative, copied, machine, files, rest>>

Trial ==
  /\ pc = "trial" /\ Len(p50) < runs
  /\ \/ /\ CanSign
        /\ \E t \in Times, n \in Completed :
             p50' = Append(p50, t) /\ counts' = counts \cup {n}
        /\ Goto("trial")
     \/ /\ ~CanSign \/ "sign-tx" \in MayFail
        /\ Leave("error") /\ UNCHANGED <<p50, counts>>
  /\ UNCHANGED <<setup, representative, copied, machine, files, rest>>

(* sort -n: by p50, then by trial.                                         *)
Before(q, r) == p50[q] < p50[r] \/ (p50[q] = p50[r] /\ q < r)
Position(r) == 1 + Cardinality({q \in 1 .. runs : Before(q, r)})

(* Mutant: the first trial.                                                *)
FirstPosition == 1

Middle == (runs + 1) \div 2

SelectTrial ==
  /\ pc = "trial" /\ Len(p50) = runs
  /\ representative' \in {r \in 1 .. runs : Position(r) = Middle}
  /\ Goto("copy_samples")
  /\ UNCHANGED <<setup, p50, counts, copied, machine, files, rest>>

-----------------------------------------------------------------------------
(* The results.                                                            *)

Chosen == <<invocation, representative>>

CopyFile(at, file, stamp, next) ==
  /\ pc = at
  /\ \/ results' = [results EXCEPT ![file] = stamp] /\ Goto(next)
     \/ Fails("cp") /\ UNCHANGED results
  /\ UNCHANGED <<setup, trial, machine, trials, rest>>

CopySamples == CopyFile("copy_samples", "samples", Chosen, "copy_chart")
CopyChart   == CopyFile("copy_chart", "chart", Chosen, "copy_trials")

CopyTrial ==
  /\ pc = "copy_trials" /\ copied < runs
  /\ \/ /\ trials' = [trials EXCEPT ![copied + 1] = <<invocation, copied + 1>>]
        /\ copied' = copied + 1
        /\ Goto("copy_trials")
     \/ Fails("cp") /\ UNCHANGED <<trials, copied>>
  /\ UNCHANGED <<setup, p50, counts, representative, machine, results, rest>>

(* Mutant: the report is written before the trial files are copied.        *)
ReportEarly ==
  /\ pc = "copy_trials"
  /\ results' = [results EXCEPT !["report"] = Chosen]
  /\ IF copied = runs THEN Goto("copy_key") ELSE Goto("copy_trials")
  /\ UNCHANGED <<setup, trial, machine, trials, rest>>

TrialsCopied ==
  /\ pc = "copy_trials" /\ copied = runs
  /\ Goto("copy_key")
  /\ UNCHANGED <<setup, trial, machine, files, rest>>

CopyKey == CopyFile("copy_key", "key", <<invocation, 0>>, "report")

(* The figures are taken from the log of the representative trial; a line  *)
(* that is not found ends the script.                                      *)
WriteReport ==
  /\ pc = "report"
  /\ \/ /\ results' = [results EXCEPT !["report"] = Chosen]
        /\ Leave("ok")
     \/ Fails("extract") /\ UNCHANGED results
  /\ UNCHANGED <<setup, trial, machine, trials, rest>>

-----------------------------------------------------------------------------
(* cleanup, the EXIT trap.                                                 *)

Alive(i) == kms[i] \in {"starting", "up", "stopping"}

(* Mutant: kill without wait.                                              *)
KillOnly ==
  /\ pc = "kill"
  /\ IF kms_pid # NoServer /\ Alive(kms_pid)
     THEN kms' = [kms EXCEPT ![kms_pid] = "stopping"]
     ELSE UNCHANGED kms
  /\ Goto("rm")
  /\ UNCHANGED <<setup, trial, workdirs, keys, listener, files, rest>>

KillServer ==
  /\ pc = "kill"
  /\ IF kms_pid # NoServer /\ Alive(kms_pid)
     THEN kms' = [kms EXCEPT ![kms_pid] = "stopping"] /\ Goto("reap")
     ELSE Goto("rm") /\ UNCHANGED kms
  /\ UNCHANGED <<setup, trial, workdirs, keys, listener, files, rest>>

Reap ==
  /\ pc = "reap" /\ ~Alive(kms_pid)
  /\ Goto("rm")
  /\ UNCHANGED <<setup, trial, machine, files, rest>>

RemoveWorkDir ==
  /\ pc = "rm"
  /\ workdirs' = workdirs \ {invocation}
  /\ Goto("exited")
  /\ UNCHANGED <<setup, trial, keys, server, files, rest>>

-----------------------------------------------------------------------------
(* The environment.                                                        *)

(* SIGINT or SIGTERM to the script, at any command. One that comes during  *)
(* the clean-up ends it before the command it is at has done its work.     *)
Interrupt ==
  /\ "script" \in Interrupts
  /\ pc # "exited"
  /\ Leave("interrupted")
  /\ cut' = IF pc \in CleanupSteps THEN pc ELSE cut
  /\ negligent' = IF pc \in {"pid", "kill", "reap"}
                  THEN negligent \cup {invocation} ELSE negligent
  /\ UNCHANGED <<setup, trial, machine, files, invocation>>

(* A server binds the port, or gives up.                                   *)
KmsComesUp(i) ==
  /\ kms[i] = "starting"
  /\ IF listener = NoServer
     THEN kms' = [kms EXCEPT ![i] = "up"] /\ listener' = i
     ELSE kms' = [kms EXCEPT ![i] = "gone"] /\ UNCHANGED listener
  /\ UNCHANGED <<pc, status, setup, trial, workdirs, keys, files, rest>>

KmsEnds(i) ==
  /\ kms' = [kms EXCEPT ![i] = "gone"]
  /\ listener' = IF listener = i THEN NoServer ELSE listener
  /\ UNCHANGED <<pc, status, setup, trial, workdirs, keys, files, rest>>

KmsStops(i)   == kms[i] = "stopping" /\ KmsEnds(i)
KmsCrashes(i) ==
  "kms" \in MayFail /\ kms[i] \in {"starting", "up"} /\ KmsEnds(i)

(* The script is run again, on what the last invocation left.              *)
Rerun ==
  /\ pc = "exited" /\ invocation < MaxInvocations
  /\ invocation' = invocation + 1
  /\ pc' = "start" /\ status' = "pending" /\ trap' = FALSE
  /\ runs' \in Run
  /\ kms_pid' = NoServer /\ tries' = 0 /\ der' = NoServer
  /\ p50' = << >> /\ counts' = {} /\ representative' = 0 /\ copied' = 0
  /\ cut' = "no"
  /\ UNCHANGED <<machine, files, negligent>>

Terminated == pc = "exited" /\ invocation = MaxInvocations /\ UNCHANGED vars

SetUp ==
  \/ MakeWorkDir \/ SetTrap \/ Build \/ StartKms \/ RecordPid \/ Wait
  \/ CreateKey \/ ExportKey \/ SanityCheck

Publish ==
  \/ CopySamples \/ CopyChart \/ CopyTrial \/ TrialsCopied
  \/ CopyKey \/ WriteReport

Cleanup == KillServer \/ Reap \/ RemoveWorkDir

Script == SetUp \/ Trial \/ SelectTrial \/ Publish \/ Cleanup

Kms == \E i \in Invocation : KmsComesUp(i) \/ KmsStops(i) \/ KmsCrashes(i)

Next == Script \/ Kms \/ Interrupt \/ Rerun \/ Terminated

(* Every command of the script ends, and a server that is told to          *)
(* terminate does.                                                         *)
Spec ==
  /\ Init /\ [][Next]_vars
  /\ WF_vars(Script)
  /\ \A i \in Invocation : WF_vars(KmsStops(i))

-----------------------------------------------------------------------------
Steps ==
  {"start", "trap", "build", "start_kms", "pid", "wait", "create", "export",
   "sanity", "trial", "copy_samples", "copy_chart", "copy_trials", "copy_key",
   "report", "exited"} \cup CleanupSteps

(* Every variable stays in its range.                                      *)
TypeOK ==
  /\ invocation \in Invocation /\ pc \in Steps /\ runs \in Run
  /\ status \in {"pending", "ok", "error", "interrupted"}
  /\ trap \in BOOLEAN
  /\ kms_pid \in {invocation, NoServer}
  /\ tries \in 0 .. MaxTries
  /\ der \in Server \cup {NoServer} /\ listener \in Server \cup {NoServer}
  /\ p50 \in Seq(Times) /\ Len(p50) <= runs /\ counts \subseteq 1 .. Iterations
  /\ representative \in 0 .. runs /\ copied \in 0 .. runs
  /\ workdirs \subseteq Invocation /\ keys \subseteq Server
  /\ kms \in [Invocation -> {"none", "starting", "up", "stopping", "gone"}]
  /\ results \in [{"samples", "chart", "key", "report"} -> Stamp]
  /\ trials \in [Run -> Stamp]
  /\ cut \in CleanupSteps \cup {"no"} /\ negligent \subseteq Invocation

(* Whichever command fails, and wherever a signal ends the script after    *)
(* the trap is set, the temporary directory is gone when it has exited,    *)
(* and so is the server it has recorded, not merely signalled. Only a      *)
(* signal to the clean-up itself undoes this: then the directory is left,  *)
(* but the server is not if the clean-up had waited for it.                *)
NothingLeftBehind ==
  pc = "exited" =>
    /\ trap /\ cut = "no" => invocation \notin workdirs
    /\ kms_pid # NoServer /\ cut \in {"no", "rm"} => ~Alive(invocation)

(* An invocation meets the server of an earlier one only if a signal kept  *)
(* that one from storing its pid or from waiting for its end: one that was *)
(* stopped by a whole clean-up, or failed to start, or crashed, is never   *)
(* in its way. And unless a server nobody here started has the port all    *)
(* along, the key measured is on the invocation's own or on such a one.    *)
OneServer ==
  /\ listener \in {invocation, Foreign, NoServer} \cup negligent
  /\ listener # Foreign => der \in {invocation, NoServer} \cup negligent

(* Half of the trials are no faster than the representative one, half are  *)
(* no slower, for an even number of them, and with ties, too.              *)
RepresentativeIsMedian ==
  representative # 0 =>
    LET median == p50[representative]
    IN  /\ 2 * Cardinality({r \in 1 .. runs : p50[r] <= median}) >= runs
        /\ 2 * Cardinality({r \in 1 .. runs : p50[r] >= median}) >= runs

(* The report is the last thing written: it never describes a later        *)
(* invocation than the data beside it comes from. (A failure between the   *)
(* two leaves an old report with new data.)                                *)
ReportNeverAhead ==
  LET reported == results["report"][1]
  IN  /\ \A f \in DOMAIN results : reported <= results[f][1]
      /\ reported = invocation =>
           \A r \in 1 .. runs : trials[r] = <<invocation, r>>

(* A script that succeeds has published one trial: table, samples and      *)
(* chart are those of the representative one, and every trial had samples. *)
PublishesOneTrial ==
  status = "ok" =>
    /\ \A f \in {"samples", "chart", "report"} : results[f] = Chosen
    /\ Len(p50) = runs /\ 0 \notin counts

(* The script ends, whether or not a server ever answers.                  *)
Ends == \A i \in Invocation : invocation = i ~> pc = "exited"

=============================================================================
