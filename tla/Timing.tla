------------------------------- MODULE Timing -------------------------------
(***************************************************************************)
(* The figures of a benchmark: the clock readings of sign_once, the        *)
(* samples run_benchmark pushes per phase, the shares of the report and of *)
(* the chart's composition bar, and the file write_samples leaves behind   *)
(* (src/src/run.rs, chart.rs). SignTx says which messages are signed; here *)
(* a call succeeds or fails, and takes some time.                          *)
(***************************************************************************)
EXTENDS Integers, Sequences, SequencesExt

CONSTANTS
  Curves,      \* of --curve
  Formats,     \* of --output: "csv" or "json"
  Iterations,  \* --iterations
  Warmup,      \* --warmup
  WarmupTime,  \* --warmup-time
  MaxWarmup,   \* bound on the warmup iterations
  Ticks,       \* how far the clock may move between two readings
  MayFail,     \* the calls that may fail
  Old,         \* what the output file held before
  None,        \* not drawn
  NaN          \* not a number

ASSUME TimingAssumption ==
  /\ Curves \subseteq {"ed25519", "p256"} /\ Formats \subseteq {"csv", "json"}
  /\ Iterations \in Nat \ {0}
  /\ {Warmup, WarmupTime, MaxWarmup} \subseteq Nat
  /\ Ticks \subseteq Nat
  /\ NaN \notin Int \X Int

VARIABLES
  pc, curve, format,
  clock,           \* Instant::now(), when it was last read
  marks,           \* the readings of the iteration under way
  caller,          \* "warmup" or "measure"
  warmup_start,
  warmup_samples,
  phases,          \* of each phase, its samples
  run_start, wall,
  interrupted,
  report,          \* what was printed
  file,            \* the output file: its columns and its rows, or Old
  ran              \* history: the readings of the iterations that verified

setting  == <<curve, format>>
readings == <<clock, marks, caller>>
run      == <<warmup_start, warmup_samples, phases, run_start, wall>>
output   == <<report, file>>
vars     == <<pc, setting, readings, run, interrupted, output, ran>>

PhaseOrder == <<"sign_init", "sign", "verify", "total">>
ALL == Range(PhaseOrder)

(* The phases of a benchmark: Ed25519 has no sign_init, the first of them. *)
Columns(c) == IF c = "ed25519" THEN Tail(PhaseOrder) ELSE PhaseOrder

NoMarks ==
  [start |-> 0, after_init |-> 0, after_sign |-> 0, after_verify |-> 0]

Init ==
  /\ pc = "begin"
  /\ curve \in Curves /\ format \in Formats
  /\ clock = 0 /\ marks = NoMarks /\ caller = "warmup"
  /\ warmup_start = 0 /\ warmup_samples = << >>
  /\ phases = [p \in Range(Columns(curve)) |-> << >>]
  /\ run_start = 0 /\ wall = 0
  /\ interrupted = FALSE
  /\ report = [printed |-> FALSE, bar |-> None]
  /\ file = Old
  /\ ran = << >>

-----------------------------------------------------------------------------
(* sign_once                                                               *)

Read(now) == \E d \in Ticks : now = clock + d

(* One clock reading after a call, which may fail.                         *)
Mark(at, mark, call, next) ==
  /\ pc = at
  /\ \/ /\ \E d \in Ticks :
             clock' = clock + d /\ marks' = [marks EXCEPT ![mark] = clock + d]
        /\ pc' = next
     \/ call \in MayFail /\ pc' = "failed" /\ UNCHANGED <<clock, marks>>
  /\ UNCHANGED <<setting, caller, run, interrupted, output, ran>>

(* Mutant: a clock that is started once.                                   *)
StartOnce ==
  IF ran = << >> THEN Mark("start", "start", "none", "init")
  ELSE /\ pc = "start" /\ pc' = "init"
       /\ UNCHANGED <<setting, readings, run, interrupted, output, ran>>

Start == Mark("start", "start", "none", "init")

(* Ed25519 makes no call before this reading.                              *)
AfterInit ==
  Mark("init", "after_init", IF curve = "ed25519" THEN "none" ELSE "init",
       "sign")

AfterSign   == Mark("sign", "after_sign", "sign", "verify")
AfterVerify == Mark("verify", "after_verify", "verify", "return")

(* Mutant: verify is measured from the end of C_SignInit.                  *)
OverlappingTimes(m) ==
  [sign_init |-> m.after_init - m.start,
   sign      |-> m.after_sign - m.after_init,
   verify    |-> m.after_verify - m.after_init,
   total     |-> m.after_verify - m.start]

Iteration(m) ==
  [sign_init |-> m.after_init - m.start,
   sign      |-> m.after_sign - m.after_init,
   verify    |-> m.after_verify - m.after_sign,
   total     |-> m.after_verify - m.start]

(* Mutant: the warmup is pushed, too.                                      *)
ReturnAlways ==
  /\ pc = "return"
  /\ phases' = [p \in DOMAIN phases |-> Append(phases[p], Iteration(marks)[p])]
  /\ ran' = IF caller = "warmup" THEN ran ELSE Append(ran, marks)
  /\ warmup_samples' =
       IF caller = "warmup" THEN Append(warmup_samples, Iteration(marks).total)
                            ELSE warmup_samples
  /\ pc' = caller
  /\ UNCHANGED <<setting, readings, warmup_start, run_start, wall,
                 interrupted, output>>

(* The warmup keeps the total, the measurement every phase.                *)
Return ==
  /\ pc = "return"
  /\ IF caller = "warmup"
     THEN /\ warmup_samples' = Append(warmup_samples, Iteration(marks).total)
          /\ UNCHANGED <<phases, ran>>
     ELSE /\ phases' = [p \in DOMAIN phases |->
                          Append(phases[p], Iteration(marks)[p])]
          /\ ran' = Append(ran, marks)
          /\ UNCHANGED warmup_samples
  /\ pc' = caller
  /\ UNCHANGED <<setting, readings, warmup_start, run_start, wall,
                 interrupted, output>>

-----------------------------------------------------------------------------
(* run_benchmark                                                           *)

Begin ==
  /\ pc = "begin"
  /\ Read(clock') /\ warmup_start' = clock'
  /\ pc' = IF Warmup > 0 \/ WarmupTime > 0 THEN "warmup" ELSE "begin_run"
  /\ UNCHANGED <<setting, marks, caller, warmup_samples, phases, run_start,
                 wall, interrupted, output, ran>>

(* The clock is read once the minimum is reached.                          *)
WarmupHead ==
  /\ pc = "warmup"
  /\ Read(clock')
  /\ LET goes_on == \/ Len(warmup_samples) < Warmup
                    \/ clock' - warmup_start < WarmupTime
     IN  pc' = IF ~goes_on THEN "begin_run"
               ELSE IF interrupted THEN "failed" ELSE "start"
  /\ pc' = "start" => Len(warmup_samples) < MaxWarmup
  /\ UNCHANGED <<setting, marks, caller, run, interrupted, output, ran>>

BeginRun ==
  /\ pc = "begin_run"
  /\ Read(clock') /\ run_start' = clock'
  /\ caller' = "measure" /\ pc' = "measure"
  /\ UNCHANGED <<setting, marks, warmup_start, warmup_samples, phases, wall,
                 interrupted, output, ran>>

completed == Len(phases["total"])

MeasureHead ==
  /\ pc = "measure" /\ completed < Iterations /\ ~interrupted
  /\ pc' = "start"
  /\ UNCHANGED <<setting, readings, run, interrupted, output, ran>>

MeasureDone ==
  /\ pc = "measure" /\ (completed = Iterations \/ interrupted)
  /\ Read(clock') /\ wall' = clock' - run_start
  /\ pc' = IF completed = 0 THEN "failed" ELSE "report"
  /\ UNCHANGED <<setting, marks, caller, warmup_start, warmup_samples,
                 phases, run_start, interrupted, output, ran>>

Sum(s) ==
  LET sum[k \in 0 .. Len(s)] == IF k = 0 THEN 0 ELSE sum[k - 1] + s[k]
  IN  sum[Len(s)]

(* A quotient of sums of nanoseconds, which nothing guards: 0 / 0 is NaN,  *)
(* and printed as such.                                                    *)
Quotient(part, whole) == IF part = 0 /\ whole = 0 THEN NaN ELSE <<part, whole>>

Report ==
  /\ pc = "report"
  /\ report' = [printed    |-> TRUE,
                completed  |-> completed,
                sign_share |-> Quotient(Sum(phases["sign"]),
                                        Sum(phases["total"])),
                wall       |-> wall,
                bar        |-> None]
  /\ pc' = "create"
  /\ UNCHANGED <<setting, readings, run, interrupted, file, ran>>

-----------------------------------------------------------------------------
(* write_samples                                                           *)

CreateFile ==
  /\ pc = "create"
  /\ \/ /\ file' = [columns |-> IF format = "csv" THEN Columns(curve)
                                                  ELSE << >>,
                    rows |-> << >>, map |-> << >>]
        /\ pc' = format
     \/ "create" \in MayFail /\ pc' = "failed" /\ UNCHANGED file
  /\ UNCHANGED <<setting, readings, run, interrupted, report, ran>>

Row(i) == [j \in 1 .. Len(file.columns) |-> phases[file.columns[j]][i]]

(* There are as many rows as the first column has samples.                 *)
WriteRow ==
  /\ pc = "csv"
  /\ IF Len(file.rows) < Len(phases[Head(Columns(curve))])
     THEN \/ /\ file' = [file EXCEPT !.rows = Append(@, Row(Len(@) + 1))]
             /\ UNCHANGED pc
          \/ "write" \in MayFail /\ pc' = "failed" /\ UNCHANGED file
     ELSE pc' = "chart" /\ UNCHANGED file
  /\ UNCHANGED <<setting, readings, run, interrupted, report, ran>>

WriteMap ==
  /\ pc = "json"
  /\ \/ file' = [file EXCEPT !.map = phases] /\ pc' = "chart"
     \/ "write" \in MayFail /\ pc' = "failed" /\ UNCHANGED file
  /\ UNCHANGED <<setting, readings, run, interrupted, report, ran>>

-----------------------------------------------------------------------------
(* render and composition_bar                                              *)

Components == DOMAIN phases \ {"total"}

(* The columns but the last are the components.                            *)
Together ==
  Sum([j \in 1 .. Len(Columns(curve)) - 1 |-> Sum(phases[Columns(curve)[j]])])

(* Of each component its share, and what none of them accounts for.        *)
composition_bar ==
  LET total == Sum(phases["total"])
  IN  [share       |-> [p \in Components |->
                         Quotient(Sum(phases[p]), Together)],
       unaccounted |-> Quotient(total - Together, total)]

Chart ==
  /\ pc = "chart"
  /\ report' = IF Together > 0 THEN [report EXCEPT !.bar = composition_bar]
                               ELSE report
  /\ pc' = "ended"
  /\ UNCHANGED <<setting, readings, run, interrupted, file, ran>>

Interrupt ==
  /\ "interrupt" \in MayFail /\ ~interrupted
  /\ pc \notin {"ended", "failed"}
  /\ interrupted' = TRUE
  /\ UNCHANGED <<pc, setting, readings, run, output, ran>>

Terminated == pc \in {"ended", "failed"} /\ UNCHANGED vars

SignOnce == Start \/ AfterInit \/ AfterSign \/ AfterVerify \/ Return

Next ==
  \/ SignOnce \/ Begin \/ WarmupHead \/ BeginRun \/ MeasureHead
  \/ MeasureDone \/ Report \/ CreateFile \/ WriteRow \/ WriteMap \/ Chart
  \/ Interrupt \/ Terminated

Spec == Init /\ [][Next]_vars

-----------------------------------------------------------------------------
(* Every variable stays in its range, and no phase has a sample more than  *)
(* another: write_samples indexes them all by the number of the first.     *)
TypeOK ==
  /\ pc \in {"begin", "warmup", "begin_run", "measure", "start", "init",
            "sign", "verify", "return", "report", "create", "csv", "json",
            "chart", "ended", "failed"}
  /\ curve \in Curves /\ format \in Formats
  /\ clock \in Nat /\ {warmup_start, run_start, wall} \subseteq Nat
  /\ marks \in [DOMAIN NoMarks -> Nat]
  /\ caller \in {"warmup", "measure"}
  /\ warmup_samples \in Seq(Nat)
  /\ phases \in [Range(Columns(curve)) -> Seq(Nat)]
  /\ \A p \in DOMAIN phases : Len(phases[p]) = completed
  /\ completed <= Iterations
  /\ interrupted \in BOOLEAN

(* The phases of an iteration are its total: no time is counted twice, and *)
(* none is missing but what Ed25519 spends where C_SignInit is not called. *)
PhasesAddUp ==
  \A i \in 1 .. completed :
    LET rest == phases["total"][i] - phases["sign"][i] - phases["verify"][i]
    IN  IF curve = "p256" THEN rest = phases["sign_init"][i] ELSE rest >= 0

(* The share of signing is printed as a number if time passed in any       *)
(* iteration, and as NaN if it passed in none. A number is a share: of     *)
(* nothing more than the whole, and the iterations took no longer than the *)
(* wall clock says. The bar is drawn of numbers only, and for P-256 it     *)
(* leaves no time unattributed.                                            *)
SharesAreShares ==
  report.printed =>
    LET share == report.sign_share
        rest  == report.bar.unaccounted
        timeless == \A i \in 1 .. Len(ran) :
                      ran[i].start = ran[i].after_verify
    IN  /\ report.completed > 0
        /\ IF timeless THEN share = NaN
           ELSE /\ share # NaN /\ 0 < share[2]
                /\ share[1] <= share[2] /\ share[2] <= report.wall
        /\ report.bar # None =>
             /\ rest # NaN /\ 0 < rest[2]
             /\ 0 <= rest[1] /\ (curve = "p256" => rest[1] = 0)

(* An earlier output file is touched only once there is a report; then it  *)
(* holds the measured iterations that verified, each with its own times,   *)
(* in order, and all of them unless a write failed.                        *)
FileHoldsRun ==
  file # Old =>
    /\ report.printed
    /\ Len(file.rows) <= Len(ran)
    /\ \A i \in 1 .. Len(file.rows) :
         LET times == Iteration(ran[i])
         IN  file.rows[i] =
               [j \in 1 .. Len(file.columns) |-> times[file.columns[j]]]
    /\ pc = "ended" =>
         IF format = "csv" THEN Len(file.rows) = Len(ran)
         ELSE file.map = [p \in Range(Columns(curve)) |->
                            [i \in 1 .. Len(ran) |-> Iteration(ran[i])[p]]]
=============================================================================
