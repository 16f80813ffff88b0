-------------------------------- MODULE Counts ------------------------------
(***************************************************************************)
(* The counts of run_benchmark in src/src/run.rs, which SignTx takes for   *)
(* unbounded: --iterations and --warmup are words of a machine whose       *)
(* addition wraps in a release build and panics in a debug one, and a      *)
(* buffer of more than half the words is a panic, too.                     *)
(***************************************************************************)
EXTENDS Integers

CONSTANTS
  Words,      \* 2^64, the values of a usize
  SampleSize, \* the bytes of a sample
  MaxWarmup   \* bound on the warmup iterations of a warmup_time

ASSUME CountsAssumption ==
  Words \in Nat \ {0, 1} /\ SampleSize \in Nat \ {0} /\ MaxWarmup \in Nat

usize == 0 .. Words - 1

VARIABLES
  pc,           \* the next step
  iterations,   \* --iterations
  warmup,       \* --warmup
  timed,        \* is --warmup-time above zero?
  total,        \* the messages to generate
  warmup_index

options   == <<iterations, warmup, timed>>
countVars == <<pc, options, total, warmup_index>>

CountsInit ==
  /\ pc = "start"
  /\ iterations \in usize /\ warmup \in usize /\ timed \in BOOLEAN
  /\ total = 0 /\ warmup_index = 0

Goto(next) == pc' = next /\ UNCHANGED <<options, total, warmup_index>>

CheckIterations ==
  pc = "start" /\ Goto(IF iterations = 0 THEN "error" ELSE "generate")

(* options.warmup.max(usize::from(!options.warmup_time.is_zero()))         *)
warmup_message_count == IF warmup = 0 /\ timed THEN 1 ELSE warmup

(* Mutant: the message of a timed warmup is forgotten.                     *)
SumOfOptions == warmup + iterations

Sum == warmup_message_count + iterations

(* Memory may run out, which ends the process.                             *)
Generate ==
  /\ pc = "generate"
  /\ \/ /\ total' = Sum % Words /\ pc' = "payload"
        /\ UNCHANGED <<options, warmup_index>>
     \/ Sum \notin usize /\ Goto("panic")
     \/ Goto("aborted")

(* messages[0]                                                             *)
PayloadLength ==
  pc = "payload" /\ Goto(IF total = 0 THEN "panic" ELSE "warmup_buffer")

Fits(n) == 2 * n * SampleSize < Words

WarmupBuffer ==
  pc = "warmup_buffer" /\ Goto(IF Fits(warmup) THEN "warmup" ELSE "panic")

GoesOn == warmup_index < warmup

Index == warmup_index % warmup_message_count

(* messages.get(..).context("warmup message index is invalid")?            *)
WarmupSign ==
  /\ pc = "warmup"
  /\ GoesOn \/ (timed /\ warmup_index < MaxWarmup)
  /\ IF Index < total
     THEN /\ warmup_index' = warmup_index + 1
          /\ UNCHANGED <<pc, options, total>>
     ELSE Goto("error")

WarmupInterrupted == pc = "warmup" /\ (GoesOn \/ timed) /\ Goto("error")

WarmupDone == pc = "warmup" /\ ~GoesOn /\ Goto("buffers")

Buffers ==
  pc = "buffers" /\ Goto(IF Fits(iterations) THEN "measure" ELSE "panic")

Ends == {"measure", "error", "panic", "aborted"}

CountsEnd == pc \in Ends /\ UNCHANGED countVars

CountsNext ==
  \/ CheckIterations \/ Generate \/ PayloadLength \/ WarmupBuffer
  \/ WarmupSign \/ WarmupInterrupted \/ WarmupDone \/ Buffers \/ CountsEnd

CountsSpec == CountsInit /\ [][CountsNext]_countVars

-----------------------------------------------------------------------------
(* Every variable stays in its range; a wrapped index cannot be reached.   *)
CountsTypeOK ==
  /\ pc \in Ends \cup {"start", "generate", "payload", "warmup_buffer",
                       "warmup", "buffers"}
  /\ iterations \in usize /\ warmup \in usize /\ timed \in BOOLEAN
  /\ total \in usize /\ warmup_index \in Nat

(* A sum that wrapped never reaches the measured loop, where it would be a *)
(* benchmark of fewer iterations than were asked for that reports success: *)
(* there, a message is left for every iteration.                           *)
NothingWrapped ==
  pc = "measure" => total = warmup_message_count + iterations
=============================================================================
