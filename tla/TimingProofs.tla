----------------------------- MODULE TimingProofs ----------------------------
(***************************************************************************)
(* The samples of a benchmark are the times of the iterations that         *)
(* verified, phase by phase, and so is what the output file holds, for     *)
(* any counts and any clock that does not run backwards. Their sums are    *)
(* divided by the phases as each iteration is, and fill no more than the   *)
(* wall clock says: what is printed as a number is a share of a positive   *)
(* time, and what is not is printed of iterations that took none.          *)
(***************************************************************************)
EXTENDS Timing, SequenceTheorems, FiniteSetTheorems, TLAPS

OnceSteps == {"start", "init", "sign", "verify", "return"}
FileSteps == {"csv", "json", "chart", "ended"}

Fields == {"start", "after_init", "after_sign", "after_verify"}

(* The readings of an iteration that ended, in the order they were taken.  *)
Ordered ==
  {m \in [Fields -> Nat] : /\ m["start"] <= m["after_init"]
                           /\ m["after_init"] <= m["after_sign"]
                           /\ m["after_sign"] <= m["after_verify"]}

(* The clock is never behind what was read from it.                        *)
Clocked ==
  /\ run_start <= clock
  /\ pc \in {"init", "sign", "verify", "return"} => marks["start"] <= clock
  /\ pc \in {"sign", "verify", "return"} =>
       marks["start"] <= marks["after_init"] /\ marks["after_init"] <= clock
  /\ pc \in {"verify", "return"} =>
       /\ marks["after_init"] <= marks["after_sign"]
       /\ marks["after_sign"] <= clock
  /\ pc = "return" =>
       /\ marks["after_sign"] <= marks["after_verify"]
       /\ marks["after_verify"] <= clock

(* Who called sign_once, and what it has returned.                         *)
Sampled ==
  /\ pc = "measure" => caller = "measure"
  /\ pc \in {"begin", "warmup", "begin_run"} => caller = "warmup"
  /\ pc \in OnceSteps /\ caller = "measure" => completed < Iterations
  /\ ran \in Seq(Ordered) /\ Len(ran) = completed
  /\ \A p \in DOMAIN phases : \A i \in 1 .. completed :
       phases[p][i] = Iteration(ran[i])[p]

Reported ==
  /\ \/ report = [printed |-> FALSE, bar |-> None]
     \/ \E n, s, w, b :
          report = [printed |-> TRUE, completed |-> n, sign_share |-> s,
                    wall |-> w, bar |-> b]
  /\ pc \in {"create"} \cup FileSteps \/ file # Old => report.printed

(* What the output file holds, once it was created.                        *)
Width == Len(Columns(curve))

Written ==
  /\ \E rows, map :
       /\ rows \in Seq([1 .. Width -> Nat])
       /\ file = [columns |-> IF format = "csv" THEN Columns(curve) ELSE << >>,
                  rows |-> rows, map |-> map]
  /\ format = "json" => file.rows = << >>
  /\ Len(file.rows) <= Len(ran)
  /\ \A i \in 1 .. Len(file.rows) : \A j \in 1 .. Width :
       file.rows[i][j] = Iteration(ran[i])[Columns(curve)[j]]

Whole ==
  IF format = "csv" THEN Len(file.rows) = Len(ran) ELSE file.map = phases

Filed ==
  /\ pc \notin FileSteps \cup {"failed"} => file = Old
  /\ pc = "csv" => format = "csv"
  /\ pc = "json" => format = "json"
  /\ pc \in FileSteps \/ file # Old => Written
  /\ pc \in {"chart", "ended"} => Whole

IInv == TypeOK /\ Clocked /\ Sampled /\ Reported /\ Filed

LEMMA Constants ==
  /\ Iterations \in Nat \ {0} /\ Warmup \in Nat /\ WarmupTime \in Nat
  /\ MaxWarmup \in Nat /\ Ticks \subseteq Nat
  /\ Curves \subseteq {"ed25519", "p256"} /\ Formats \subseteq {"csv", "json"}
  /\ NaN \notin Int \X Int
BY TimingAssumption

LEMMA MarkFields == DOMAIN NoMarks = Fields /\ NoMarks \in [Fields -> Nat]
BY DEF NoMarks, Fields

AllPhases == {"sign_init", "sign", "verify", "total"}

(* The phases of either curve, in their order.                             *)
LEMMA ColumnsAre ==
  /\ LET s == Columns("p256")
     IN  /\ s \in Seq(AllPhases) /\ Len(s) = 4 /\ Head(s) = "sign_init"
         /\ s[1] = "sign_init" /\ s[2] = "sign" /\ s[3] = "verify"
         /\ s[4] = "total"
  /\ LET t == Columns("ed25519")
     IN  /\ t \in Seq(AllPhases) /\ Len(t) = 3 /\ Head(t) = "sign"
         /\ t[1] = "sign" /\ t[2] = "verify" /\ t[3] = "total"
<1> DEFINE s == <<"sign_init", "sign", "verify", "total">>
           t == <<"sign", "verify", "total">>
<1>1. Columns("p256") = s
  BY DEF Columns, PhaseOrder
<1>2. /\ s \in Seq(AllPhases) /\ Len(s) = 4 /\ Head(s) = "sign_init"
      /\ s[1] = "sign_init" /\ s[2] = "sign" /\ s[3] = "verify"
      /\ s[4] = "total"
  BY DEF AllPhases
<1>3. Columns("ed25519") = t
  <2>1. Columns("ed25519") = Tail(s)
    BY DEF Columns, PhaseOrder
  <2>2. /\ Tail(s) \in Seq(AllPhases) /\ t \in Seq(AllPhases)
        /\ Len(Tail(s)) = 3 /\ Len(t) = 3
    BY DEF AllPhases
  <2>3. \A i \in 1 .. 3 : Tail(s)[i] = t[i]
    OBVIOUS
  <2>4. Tail(s) = t
    BY <2>2, <2>3, SeqEqual
  <2> QED BY <2>1, <2>4
<1>4. /\ t \in Seq(AllPhases) /\ Len(t) = 3 /\ Head(t) = "sign"
      /\ t[1] = "sign" /\ t[2] = "verify" /\ t[3] = "total"
  BY DEF AllPhases
<1> HIDE DEF s, t
<1> QED BY <1>1, <1>2, <1>3, <1>4

(* Of either curve, the phases and where they stand.                       *)
LEMMA PhasesOf ==
  ASSUME NEW c \in {"ed25519", "p256"}
  PROVE  /\ Len(Columns(c)) \in Nat /\ Len(Columns(c)) > 0
         /\ Columns(c) \in Seq(Range(Columns(c)))
         /\ Head(Columns(c)) \in Range(Columns(c))
         /\ \A j \in 1 .. Len(Columns(c)) : Columns(c)[j] \in Range(Columns(c))
         /\ {"sign", "verify", "total"} \subseteq Range(Columns(c))
         /\ Range(Columns(c)) \subseteq AllPhases
         /\ c = "p256" => "sign_init" \in Range(Columns(c))
<1>1. CASE c = "p256"
  <2> DEFINE s == Columns(c)
  <2>1. /\ s \in Seq(AllPhases) /\ Len(s) = 4 /\ Head(s) = "sign_init"
        /\ s[1] = "sign_init" /\ s[2] = "sign" /\ s[3] = "verify"
        /\ s[4] = "total"
    BY <1>1, ColumnsAre
  <2> HIDE DEF s
  <2>2. DOMAIN s = 1 .. 4 /\ s = [i \in 1 .. 4 |-> s[i]]
    BY <2>1
  <2>3. Range(s) = AllPhases
    BY <2>1, <2>2 DEF Range, AllPhases
  <2> QED BY <1>1, <2>1, <2>3 DEF AllPhases, s
<1>2. CASE c = "ed25519"
  <2> DEFINE t == Columns(c)
  <2>1. /\ t \in Seq(AllPhases) /\ Len(t) = 3 /\ Head(t) = "sign"
        /\ t[1] = "sign" /\ t[2] = "verify" /\ t[3] = "total"
    BY <1>2, ColumnsAre
  <2> HIDE DEF t
  <2>2. DOMAIN t = 1 .. 3 /\ t = [i \in 1 .. 3 |-> t[i]]
    BY <2>1
  <2>3. Range(t) = {"sign", "verify", "total"}
    BY <2>1, <2>2 DEF Range
  <2>4. t \in Seq(Range(t))
    BY <2>1, <2>2, <2>3
  <2> QED BY <1>2, <2>1, <2>3, <2>4 DEF AllPhases, t
<1> QED BY <1>1, <1>2

(* The times of an iteration are numbers, and add up.                      *)
LEMMA Times ==
  ASSUME NEW m \in Ordered
  PROVE  /\ \A p \in AllPhases : Iteration(m)[p] \in Nat
         /\ Iteration(m)["total"] - Iteration(m)["sign"]
              - Iteration(m)["verify"] = Iteration(m)["sign_init"]
BY DEF Ordered, Fields, Iteration, AllPhases

(* The readings, the samples, the report and the file keep to IInv.        *)
THEOREM Invariance == Spec => []IInv
<1>1. Init => IInv
  <2> SUFFICES ASSUME Init PROVE IInv
    OBVIOUS
  <2>1. curve \in {"ed25519", "p256"} /\ curve \in Curves /\ format \in Formats
    BY Constants DEF Init
  <2>2. phases \in [Range(Columns(curve)) -> Seq(Nat)]
        /\ \A p \in DOMAIN phases : phases[p] = << >>
    BY DEF Init
  <2>3. "total" \in DOMAIN phases
    BY <2>1, <2>2, PhasesOf
  <2>4. completed = 0 /\ \A p \in DOMAIN phases : Len(phases[p]) = completed
    BY <2>2, <2>3 DEF completed
  <2>5. TypeOK
    <3>1. /\ pc = "begin" /\ marks \in [DOMAIN NoMarks -> Nat]
          /\ caller = "warmup" /\ interrupted \in BOOLEAN
          /\ clock = 0 /\ warmup_start = 0 /\ run_start = 0 /\ wall = 0
      BY MarkFields DEF Init
    <3>2. warmup_samples \in Seq(Nat)
      BY DEF Init
    <3>3. completed <= Iterations
      BY <2>4, Constants
    <3> QED BY <2>1, <2>2, <2>4, <3>1, <3>2, <3>3 DEF TypeOK
  <2>6. Clocked /\ Reported /\ Filed
    BY <2>5 DEF Init, Clocked, Reported, Filed, FileSteps
  <2>7. Sampled
    BY <2>4 DEF Init, Sampled, OnceSteps
  <2> QED BY <2>5, <2>6, <2>7 DEF IInv
<1>2. IInv /\ [Next]_vars => IInv'
  <2> SUFFICES ASSUME IInv, [Next]_vars PROVE IInv'
    OBVIOUS
  <2> USE DEF setting, readings, run, output
  <2>0. TypeOK /\ Clocked /\ Sampled /\ Reported /\ Filed
    BY DEF IInv
  <2>a. /\ clock \in Nat /\ run_start \in Nat /\ warmup_start \in Nat
        /\ wall \in Nat /\ marks \in [Fields -> Nat]
        /\ curve \in {"ed25519", "p256"} /\ completed \in Nat
        /\ "total" \in DOMAIN phases
    BY <2>0, Constants, MarkFields, PhasesOf DEF TypeOK, completed
  <2>1. CASE Start
    <3>1. /\ pc = "start" /\ UNCHANGED <<setting, caller, run, interrupted,
                                         output, ran>>
          /\ \/ /\ clock' \in Nat /\ clock' >= clock /\ pc' = "init"
                /\ marks' = [marks EXCEPT !["start"] = clock']
             \/ pc' = "failed" /\ UNCHANGED <<clock, marks>>
      BY <2>a, <2>1, Constants DEF Start, Mark
    <3>2. marks' \in [Fields -> Nat]
      BY <2>a, <3>1 DEF Fields
    <3>3. TypeOK'
      BY <2>0, <2>a, <3>1, <3>2, MarkFields DEF TypeOK, completed
    <3>4. Clocked'
      BY <2>0, <2>a, <3>1 DEF Clocked, Fields
    <3>5. Sampled'
      BY <2>0, <3>1 DEF Sampled, OnceSteps, completed
    <3>6. Reported' /\ Filed'
      BY <2>0, <3>1 DEF Reported, Filed, FileSteps
    <3> QED BY <3>3, <3>4, <3>5, <3>6 DEF IInv
  <2>2. CASE AfterInit
    <3>1. /\ pc = "init" /\ UNCHANGED <<setting, caller, run, interrupted,
                                         output, ran>>
          /\ \/ /\ clock' \in Nat /\ clock' >= clock /\ pc' = "sign"
                /\ marks' = [marks EXCEPT !["after_init"] = clock']
             \/ pc' = "failed" /\ UNCHANGED <<clock, marks>>
      BY <2>a, <2>2, Constants DEF AfterInit, Mark
    <3>2. marks' \in [Fields -> Nat]
      BY <2>a, <3>1 DEF Fields
    <3>3. TypeOK'
      BY <2>0, <2>a, <3>1, <3>2, MarkFields DEF TypeOK, completed
    <3>4. Clocked'
      BY <2>0, <2>a, <3>1 DEF Clocked, Fields
    <3>5. Sampled'
      BY <2>0, <3>1 DEF Sampled, OnceSteps, completed
    <3>6. Reported' /\ Filed'
      BY <2>0, <3>1 DEF Reported, Filed, FileSteps
    <3> QED BY <3>3, <3>4, <3>5, <3>6 DEF IInv
  <2>3. CASE AfterSign
    <3>1. /\ pc = "sign" /\ UNCHANGED <<setting, caller, run, interrupted,
                                         output, ran>>
          /\ \/ /\ clock' \in Nat /\ clock' >= clock /\ pc' = "verify"
                /\ marks' = [marks EXCEPT !["after_sign"] = clock']
             \/ pc' = "failed" /\ UNCHANGED <<clock, marks>>
      BY <2>a, <2>3, Constants DEF AfterSign, Mark
    <3>2. marks' \in [Fields -> Nat]
      BY <2>a, <3>1 DEF Fields
    <3>3. TypeOK'
      BY <2>0, <2>a, <3>1, <3>2, MarkFields DEF TypeOK, completed
    <3>4. Clocked'
      BY <2>0, <2>a, <3>1 DEF Clocked, Fields
    <3>5. Sampled'
      BY <2>0, <3>1 DEF Sampled, OnceSteps, completed
    <3>6. Reported' /\ Filed'
      BY <2>0, <3>1 DEF Reported, Filed, FileSteps
    <3> QED BY <3>3, <3>4, <3>5, <3>6 DEF IInv
  <2>4. CASE AfterVerify
    <3>1. /\ pc = "verify" /\ UNCHANGED <<setting, caller, run, interrupted,
                                         output, ran>>
          /\ \/ /\ clock' \in Nat /\ clock' >= clock /\ pc' = "return"
                /\ marks' = [marks EXCEPT !["after_verify"] = clock']
             \/ pc' = "failed" /\ UNCHANGED <<clock, marks>>
      BY <2>a, <2>4, Constants DEF AfterVerify, Mark
    <3>2. marks' \in [Fields -> Nat]
      BY <2>a, <3>1 DEF Fields
    <3>3. TypeOK'
      BY <2>0, <2>a, <3>1, <3>2, MarkFields DEF TypeOK, completed
    <3>4. Clocked'
      BY <2>0, <2>a, <3>1 DEF Clocked, Fields
    <3>5. Sampled'
      BY <2>0, <3>1 DEF Sampled, OnceSteps, completed
    <3>6. Reported' /\ Filed'
      BY <2>0, <3>1 DEF Reported, Filed, FileSteps
    <3> QED BY <3>3, <3>4, <3>5, <3>6 DEF IInv
  <2>5. CASE Return
    <3>1. /\ pc = "return" /\ pc' = caller
          /\ UNCHANGED <<setting, readings, warmup_start, run_start, wall,
                         interrupted, output>>
      BY <2>5 DEF Return
    <3>2. marks \in Ordered
      BY <2>0, <2>a, <3>1 DEF Clocked, Ordered
    <3>3. \A p \in DOMAIN phases : Iteration(marks)[p] \in Nat
      BY <2>0, <2>a, <3>2, Times, PhasesOf DEF TypeOK
    <3>4. Iteration(marks).total \in Nat
      BY <3>2, Times DEF AllPhases
    <3>5. CASE caller = "warmup"
      <4>1. /\ UNCHANGED <<phases, ran>>
            /\ warmup_samples' = Append(warmup_samples, Iteration(marks).total)
        BY <2>5, <3>5 DEF Return
      <4>2. TypeOK'
        BY <2>0, <3>1, <3>4, <3>5, <4>1 DEF TypeOK, completed
      <4>3. Clocked' /\ Sampled'
        BY <2>0, <3>1, <3>5, <4>1 DEF Clocked, Sampled, OnceSteps, completed
      <4>4. Reported' /\ Filed'
        BY <2>0, <3>1, <3>5 DEF Reported, Filed, FileSteps
      <4> QED BY <4>2, <4>3, <4>4 DEF IInv
    <3>6. CASE caller = "measure"
      <4>1. /\ phases' = [p \in DOMAIN phases |->
                            Append(phases[p], Iteration(marks)[p])]
            /\ ran' = Append(ran, marks) /\ UNCHANGED warmup_samples
        BY <2>5, <3>6 DEF Return
      <4>2. \A p \in DOMAIN phases :
              /\ phases[p] \in Seq(Nat) /\ Len(phases[p]) = completed
              /\ phases'[p] \in Seq(Nat) /\ Len(phases'[p]) = completed + 1
              /\ phases'[p][completed + 1] = Iteration(marks)[p]
              /\ \A i \in 1 .. completed : phases'[p][i] = phases[p][i]
        <5> SUFFICES ASSUME NEW p \in DOMAIN phases
                     PROVE  /\ phases[p] \in Seq(Nat)
                            /\ Len(phases[p]) = completed
                            /\ phases'[p] \in Seq(Nat)
                            /\ Len(phases'[p]) = completed + 1
                            /\ phases'[p][completed + 1] = Iteration(marks)[p]
                            /\ \A i \in 1 .. completed :
                                 phases'[p][i] = phases[p][i]
          OBVIOUS
        <5>1. phases[p] \in Seq(Nat) /\ Len(phases[p]) = completed
          BY <2>0 DEF TypeOK
        <5>2. phases'[p] = Append(phases[p], Iteration(marks)[p])
          BY <4>1
        <5> QED BY <3>3, <5>1, <5>2, AppendProperties
      <4>3. completed' = completed + 1 /\ DOMAIN phases' = DOMAIN phases
        BY <2>a, <4>1, <4>2 DEF completed
      <4>4. completed < Iterations
        BY <2>0, <3>1, <3>6 DEF Sampled, OnceSteps
      <4>5. phases' \in [Range(Columns(curve)) -> Seq(Nat)]
            /\ \A p \in DOMAIN phases' : Len(phases'[p]) = completed'
        BY <2>0, <4>1, <4>2, <4>3 DEF TypeOK
      <4>6. TypeOK'
        BY <2>0, <2>a, <3>1, <3>6, <4>1, <4>3, <4>4, <4>5, Constants DEF TypeOK
      <4>7. /\ ran' \in Seq(Ordered) /\ Len(ran') = completed'
            /\ ran'[completed + 1] = marks
            /\ \A i \in 1 .. completed : ran'[i] = ran[i]
        BY <2>0, <3>2, <4>1, <4>3, AppendProperties DEF Sampled
      <4>8. ASSUME NEW p \in DOMAIN phases', NEW i \in 1 .. completed'
            PROVE  phases'[p][i] = Iteration(ran'[i])[p]
        <5>1. /\ p \in DOMAIN phases
              /\ i \in 1 .. completed \/ i = completed + 1
          BY <2>a, <4>3
        <5>2. CASE i \in 1 .. completed
          BY <2>0, <4>2, <4>7, <5>1, <5>2 DEF Sampled
        <5>3. CASE i = completed + 1
          BY <4>2, <4>7, <5>1, <5>3
        <5> QED BY <5>1, <5>2, <5>3
      <4>9. Sampled'
        BY <3>1, <3>6, <4>7, <4>8 DEF Sampled, OnceSteps
      <4>10. Clocked' /\ Reported' /\ Filed'
        BY <2>0, <3>1, <3>6 DEF Clocked, Reported, Filed, FileSteps
      <4> QED BY <4>6, <4>9, <4>10 DEF IInv
    <3> QED BY <2>0, <3>5, <3>6 DEF TypeOK
  <2>6. CASE Begin
    <3>1. /\ clock' \in Nat /\ clock' >= clock /\ warmup_start' \in Nat
          /\ pc = "begin" /\ pc' \in {"warmup", "begin_run"}
          /\ UNCHANGED <<setting, marks, caller, warmup_samples, phases,
                         run_start, wall, interrupted, output, ran>>
      BY <2>0, <2>a, <2>6, Constants DEF Begin, Read, Clocked
    <3>2. TypeOK'
      BY <2>0, <2>a, <3>1 DEF TypeOK, completed
    <3>3. Clocked'
      BY <2>0, <2>a, <3>1 DEF Clocked
    <3>4. Sampled'
      BY <2>0, <3>1 DEF Sampled, OnceSteps, completed
    <3>5. Reported' /\ Filed'
      BY <2>0, <3>1 DEF Reported, Filed, FileSteps
    <3> QED BY <3>2, <3>3, <3>4, <3>5 DEF IInv
  <2>7. CASE WarmupHead
    <3>1. /\ clock' \in Nat /\ clock' >= clock
          /\ pc = "warmup" /\ pc' \in {"begin_run", "failed", "start"}
          /\ UNCHANGED <<setting, marks, caller, run, interrupted, output,
                         ran>>
      BY <2>0, <2>a, <2>7, Constants DEF WarmupHead, Read, Clocked
    <3>2. TypeOK'
      BY <2>0, <2>a, <3>1 DEF TypeOK, completed
    <3>3. Clocked'
      BY <2>0, <2>a, <3>1 DEF Clocked
    <3>4. Sampled'
      BY <2>0, <3>1 DEF Sampled, OnceSteps, completed
    <3>5. Reported' /\ Filed'
      BY <2>0, <3>1 DEF Reported, Filed, FileSteps
    <3> QED BY <3>2, <3>3, <3>4, <3>5 DEF IInv
  <2>8. CASE BeginRun
    <3>1. /\ clock' \in Nat /\ clock' >= clock /\ run_start' = clock'
          /\ pc = "begin_run" /\ caller' = "measure" /\ pc' = "measure"
          /\ UNCHANGED <<setting, marks, warmup_start, warmup_samples, phases,
                         wall, interrupted, output, ran>>
      BY <2>0, <2>a, <2>8, Constants DEF BeginRun, Read, Clocked
    <3>2. TypeOK'
      BY <2>0, <2>a, <3>1 DEF TypeOK, completed
    <3>3. Clocked'
      BY <2>0, <2>a, <3>1 DEF Clocked
    <3>4. Sampled'
      BY <2>0, <3>1 DEF Sampled, OnceSteps, completed
    <3>5. Reported' /\ Filed'
      BY <2>0, <3>1 DEF Reported, Filed, FileSteps
    <3> QED BY <3>2, <3>3, <3>4, <3>5 DEF IInv
  <2>9. CASE MeasureHead
    <3>1. /\ pc = "measure" /\ completed < Iterations /\ pc' = "start"
          /\ UNCHANGED <<setting, readings, run, interrupted, output, ran>>
      BY <2>0, <2>a, <2>9, Constants DEF MeasureHead, Clocked
    <3>2. TypeOK'
      BY <2>0, <2>a, <3>1 DEF TypeOK, completed
    <3>3. Clocked'
      BY <2>0, <2>a, <3>1 DEF Clocked
    <3>4. Sampled'
      BY <2>0, <3>1 DEF Sampled, OnceSteps, completed
    <3>5. Reported' /\ Filed'
      BY <2>0, <3>1 DEF Reported, Filed, FileSteps
    <3> QED BY <3>2, <3>3, <3>4, <3>5 DEF IInv
  <2>10. CASE MeasureDone
    <3>1. /\ clock' \in Nat /\ clock' >= clock /\ wall' \in Nat
          /\ pc = "measure" /\ pc' \in {"failed", "report"}
          /\ UNCHANGED <<setting, marks, caller, warmup_start, warmup_samples,
                         phases, run_start, interrupted, output, ran>>
      BY <2>0, <2>a, <2>10, Constants DEF MeasureDone, Read, Clocked
    <3>2. TypeOK'
      BY <2>0, <2>a, <3>1 DEF TypeOK, completed
    <3>3. Clocked'
      BY <2>0, <2>a, <3>1 DEF Clocked
    <3>4. Sampled'
      BY <2>0, <3>1 DEF Sampled, OnceSteps, completed
    <3>5. Reported' /\ Filed'
      BY <2>0, <3>1 DEF Reported, Filed, FileSteps
    <3> QED BY <3>2, <3>3, <3>4, <3>5 DEF IInv
  <2>11. CASE Report
    <3>1. /\ pc = "report" /\ pc' = "create"
          /\ UNCHANGED <<setting, readings, run, interrupted, file, ran>>
      BY <2>11 DEF Report
    <3>2. TypeOK'
      BY <2>0, <3>1 DEF TypeOK, completed
    <3>3. Clocked' /\ Sampled'
      BY <2>0, <3>1 DEF Clocked, Sampled, OnceSteps, completed
    <3>4. report'.printed /\ \E n, s, w, c :
            report' = [printed |-> TRUE, completed |-> n, sign_share |-> s,
                       wall |-> w, bar |-> c]
      BY <2>11 DEF Report
    <3>5. Reported' /\ Filed'
      BY <2>0, <3>1, <3>4 DEF Reported, Filed, FileSteps
    <3> QED BY <3>2, <3>3, <3>5 DEF IInv
  <2>12. CASE CreateFile
    <3>1. /\ pc = "create" /\ pc' \in {format, "failed"}
          /\ UNCHANGED <<setting, readings, run, interrupted, report, ran>>
          /\ format \in {"csv", "json"}
      BY <2>0, <2>12, Constants DEF CreateFile, TypeOK
    <3>2. TypeOK'
      BY <2>0, <3>1 DEF TypeOK, completed
    <3>3. Clocked' /\ Sampled'
      BY <2>0, <3>1 DEF Clocked, Sampled, OnceSteps, completed
    <3>4. CASE file' = file /\ pc' = "failed"
      BY <2>0, <3>1, <3>2, <3>3, <3>4 DEF IInv, Reported, Filed, FileSteps
    <3>5. CASE pc' = format /\ file' =
                 [columns |-> IF format = "csv" THEN Columns(curve) ELSE << >>,
                  rows |-> << >>, map |-> << >>]
      <4>1. Reported'
        BY <2>0, <3>1 DEF Reported, FileSteps
      <4>2. file'.rows = << >> /\ Len(file'.rows) = 0 /\ Len(ran) \in Nat
            /\ << >> \in Seq([1 .. Width -> Nat])
        BY <2>0, <3>5 DEF Sampled
      <4>3. Written'
        <5>1. /\ Width' = Width /\ UNCHANGED <<curve, format, ran>>
          BY <3>1, <3>5 DEF Width
        <5>2. \E rows, map :
                /\ rows \in Seq([1 .. Width -> Nat])
                /\ file' = [columns |->
                              IF format = "csv" THEN Columns(curve) ELSE << >>,
                            rows |-> rows, map |-> map]
          BY <3>5, <4>2
        <5>3. Len(file'.rows) <= Len(ran)
              /\ \A i \in 1 .. Len(file'.rows) : FALSE
          BY <2>0, <2>a, <4>2 DEF Sampled
        <5> QED BY <4>2, <5>1, <5>2, <5>3 DEF Written
      <4>4. Filed'
        BY <3>1, <3>5, <4>3 DEF Filed, FileSteps
      <4> QED BY <3>2, <3>3, <4>1, <4>4 DEF IInv
    <3> QED BY <2>12, <3>4, <3>5 DEF CreateFile
  <2>13. CASE WriteRow
    <3>1. /\ pc = "csv" /\ pc' \in {"csv", "chart", "failed"}
          /\ UNCHANGED <<setting, readings, run, interrupted, report, ran>>
          /\ format = "csv" /\ Written
      BY <2>0, <2>13 DEF WriteRow, Filed, FileSteps
    <3>2. TypeOK'
      BY <2>0, <3>1 DEF TypeOK, completed
    <3>3. Clocked' /\ Sampled'
      BY <2>0, <3>1 DEF Clocked, Sampled, OnceSteps, completed
    <3>4. Reported'
      BY <2>0, <3>1 DEF Reported, FileSteps
    <3>5. PICK rows, map :
            /\ rows \in Seq([1 .. Width -> Nat])
            /\ file = [columns |-> Columns(curve), rows |-> rows, map |-> map]
      BY <3>1 DEF Written
    <3>6. /\ file.columns = Columns(curve) /\ file.rows = rows
          /\ Len(rows) \in Nat /\ Len(rows) <= completed
          /\ Len(ran) = completed
          /\ Len(phases[Head(Columns(curve))]) = completed
      BY <2>0, <2>a, <3>1, <3>5, PhasesOf DEF Written, Sampled, TypeOK
    <3>7. CASE Len(rows) < completed /\ pc' = "csv"
               /\ file' = [file EXCEPT !.rows = Append(@, Row(Len(@) + 1))]
      <4> DEFINE k == Len(rows) + 1
      <4>1. k \in 1 .. completed
        BY <2>a, <3>6, <3>7
      <4>2. \A j \in 1 .. Width :
              /\ phases[Columns(curve)[j]][k] \in Nat
              /\ phases[Columns(curve)[j]][k] =
                   Iteration(ran[k])[Columns(curve)[j]]
        <5> SUFFICES ASSUME NEW j \in 1 .. Width
                     PROVE  /\ phases[Columns(curve)[j]][k] \in Nat
                            /\ phases[Columns(curve)[j]][k] =
                                 Iteration(ran[k])[Columns(curve)[j]]
          OBVIOUS
        <5>1. Columns(curve)[j] \in DOMAIN phases
          BY <2>0, <2>a, PhasesOf DEF TypeOK, Width
        <5>2. phases[Columns(curve)[j]] \in Seq(Nat)
              /\ Len(phases[Columns(curve)[j]]) = completed
          BY <2>0, <5>1 DEF TypeOK
        <5>3. phases[Columns(curve)[j]][k] \in Nat
          BY <4>1, <5>2, ElementOfSeq
        <5> QED BY <2>0, <4>1, <5>1, <5>3 DEF Sampled
      <4>3. Row(k) = [j \in 1 .. Width |-> phases[Columns(curve)[j]][k]]
        BY <3>6 DEF Row, Width
      <4>4. Row(k) \in [1 .. Width -> Nat]
        BY <4>2, <4>3
      <4> HIDE DEF k
      <4>5. file' = [columns |-> Columns(curve), rows |-> Append(rows, Row(k)),
                     map |-> map]
        BY <3>5, <3>6, <3>7 DEF k
      <4>6. /\ Append(rows, Row(k)) \in Seq([1 .. Width -> Nat])
            /\ Len(Append(rows, Row(k))) = k
            /\ Append(rows, Row(k))[k] = Row(k)
            /\ \A i \in 1 .. Len(rows) : Append(rows, Row(k))[i] = rows[i]
        BY <3>5, <4>4, AppendProperties DEF k
      <4>7. ASSUME NEW i \in 1 .. k, NEW j \in 1 .. Width
            PROVE  Append(rows, Row(k))[i][j] =
                     Iteration(ran[i])[Columns(curve)[j]]
        <5>1. CASE i = k
          BY <4>2, <4>3, <4>6, <5>1
        <5>2. CASE i \in 1 .. Len(rows)
          BY <3>1, <3>6, <4>6, <5>2 DEF Written
        <5> QED BY <3>6, <5>1, <5>2 DEF k
      <4>8. file'.rows = Append(rows, Row(k)) /\ Len(file'.rows) = k
            /\ k <= Len(ran)
        BY <2>a, <3>6, <4>1, <4>5, <4>6
      <4>9. Written'
        <5>1. Width' = Width /\ UNCHANGED <<curve, format, ran, phases>>
          BY <3>1 DEF Width
        <5>2. \E r, m :
                /\ r \in Seq([1 .. Width -> Nat])
                /\ file' = [columns |->
                              IF format = "csv" THEN Columns(curve) ELSE << >>,
                            rows |-> r, map |-> m]
          BY <3>1, <4>5, <4>6
        <5>3. \A i \in 1 .. Len(file'.rows) : \A j \in 1 .. Width :
                file'.rows[i][j] = Iteration(ran[i])[Columns(curve)[j]]
          BY <4>7, <4>8
        <5>4. format' # "json"
          BY <3>1
        <5> QED BY <4>8, <5>1, <5>2, <5>3, <5>4 DEF Written
      <4>10. Filed'
        BY <3>1, <3>7, <4>9 DEF Filed, FileSteps
      <4> QED BY <3>2, <3>3, <3>4, <4>10 DEF IInv
    <3>8. CASE file' = file /\ (pc' = "failed" \/ Len(rows) >= completed)
      <4>1. pc' \in {"chart", "ended"} => Len(file.rows) = Len(ran)
        BY <2>a, <3>1, <3>6, <3>8
      <4>2. Whole' = (Len(file.rows) = Len(ran))
        BY <3>1, <3>8 DEF Whole
      <4>4. Written'
        BY <3>1, <3>8 DEF Written, Width
      <4>3. Filed'
        BY <3>1, <4>1, <4>2, <4>4 DEF Filed, FileSteps
      <4> QED BY <3>2, <3>3, <3>4, <4>3 DEF IInv
    <3> QED BY <2>13, <2>a, <3>6, <3>7, <3>8 DEF WriteRow
  <2>14. CASE WriteMap
    <3>1. /\ pc = "json" /\ pc' \in {"chart", "failed"}
          /\ UNCHANGED <<setting, readings, run, interrupted, report, ran>>
          /\ format = "json" /\ Written
      BY <2>0, <2>14 DEF WriteMap, Filed, FileSteps
    <3>2. TypeOK'
      BY <2>0, <3>1 DEF TypeOK, completed
    <3>3. Clocked' /\ Sampled'
      BY <2>0, <3>1 DEF Clocked, Sampled, OnceSteps, completed
    <3>4. Reported'
      BY <2>0, <3>1 DEF Reported, FileSteps
    <3>5. PICK rows, map :
            /\ rows \in Seq([1 .. Width -> Nat])
            /\ file = [columns |-> << >>, rows |-> rows, map |-> map]
      BY <3>1 DEF Written
    <3>6. CASE file' = [file EXCEPT !.map = phases] /\ pc' = "chart"
      <4>1. file' = [columns |-> << >>, rows |-> rows, map |-> phases]
            /\ file'.rows = file.rows /\ file'.map = phases
        BY <3>5, <3>6
      <4>2. Written'
        <5>1. /\ Width' = Width /\ UNCHANGED <<curve, format, ran, phases>>
              /\ format # "csv"
          BY <3>1 DEF Width
        <5>2. \E r, m :
                /\ r \in Seq([1 .. Width -> Nat])
                /\ file' = [columns |->
                              IF format = "csv" THEN Columns(curve) ELSE << >>,
                            rows |-> r, map |-> m]
          BY <3>5, <4>1, <5>1
        <5>3. /\ file'.rows = << >> /\ Len(file'.rows) <= Len(ran)
              /\ \A i \in 1 .. Len(file'.rows) : FALSE
          <6>1. file.rows = << >> /\ Len(file.rows) <= Len(ran)
            BY <3>1 DEF Written
          <6> QED BY <4>1, <6>1
        <5> QED BY <5>1, <5>2, <5>3 DEF Written
      <4>3. Whole'
        BY <3>1, <3>6, <4>1 DEF Whole
      <4> QED
        BY <3>1, <3>2, <3>3, <3>4, <3>6, <4>2, <4>3 DEF IInv, Filed, FileSteps
    <3>7. CASE file' = file /\ pc' = "failed"
      <4>1. Written'
        BY <3>1, <3>7 DEF Written, Width
      <4> QED BY <3>1, <3>2, <3>3, <3>4, <3>7, <4>1 DEF IInv, Filed, FileSteps
    <3> QED BY <2>14, <3>6, <3>7 DEF WriteMap
  <2>15. CASE Chart
    <3>1. /\ pc = "chart" /\ pc' = "ended"
          /\ UNCHANGED <<setting, readings, run, interrupted, file, ran>>
      BY <2>15 DEF Chart
    <3>2. TypeOK'
      BY <2>0, <3>1 DEF TypeOK, completed
    <3>3. Clocked' /\ Sampled'
      BY <2>0, <3>1 DEF Clocked, Sampled, OnceSteps, completed
    <3>4. Filed'
      BY <2>0, <3>1 DEF Filed, FileSteps, Written, Whole, Width
    <3>5. report.printed
      BY <2>0, <3>1 DEF Reported, FileSteps
    <3>6. PICK n, s, w, c :
            report = [printed |-> TRUE, completed |-> n, sign_share |-> s,
                      wall |-> w, bar |-> c]
      BY <2>0, <3>5 DEF Reported
    <3>7. report' = report \/ \E d : report' = [report EXCEPT !.bar = d]
      BY <2>15 DEF Chart
    <3>8. PICK d : report' = [printed |-> TRUE, completed |-> n,
                              sign_share |-> s, wall |-> w, bar |-> d]
      BY <3>6, <3>7
    <3>9. Reported'
      BY <3>8 DEF Reported
    <3> QED BY <3>2, <3>3, <3>4, <3>9 DEF IInv
  <2>16. CASE Interrupt
    <3>1. interrupted' = TRUE
          /\ UNCHANGED <<pc, setting, readings, run, output, ran>>
      BY <2>16 DEF Interrupt
    <3>2. TypeOK'
      BY <2>0, <3>1 DEF TypeOK, completed
    <3>3. Clocked' /\ Sampled'
      BY <2>0, <3>1 DEF Clocked, Sampled, OnceSteps, completed
    <3>4. Reported' /\ Filed'
      BY <2>0, <3>1 DEF Reported, Filed, Written, Whole, Width
    <3> QED BY <3>2, <3>3, <3>4 DEF IInv
  <2>17. CASE UNCHANGED vars
    BY <2>0, <2>17
    DEF vars, IInv, TypeOK, Clocked, Sampled, Reported, Filed, Written, Whole,
        Width, completed
  <2> QED
    BY <2>1, <2>2, <2>3, <2>4, <2>5, <2>6, <2>7, <2>8, <2>9,
       <2>10, <2>11, <2>12, <2>13, <2>14, <2>15, <2>16, <2>17
    DEF Next, SignOnce, Terminated
<1> QED BY <1>1, <1>2, PTL DEF Spec

(* Every variable stays in its range, and the phases keep step.            *)
THEOREM TypeCorrect == Spec => []TypeOK
<1>1. IInv => TypeOK
  BY DEF IInv
<1> QED BY <1>1, Invariance, PTL

(* No time is counted twice, and none is lost.                             *)
THEOREM TimesAddUp == Spec => []PhasesAddUp
<1>1. IInv => PhasesAddUp
  <2> SUFFICES ASSUME IInv, NEW i \in 1 .. completed
               PROVE  LET rest == phases["total"][i] - phases["sign"][i]
                                    - phases["verify"][i]
                      IN  IF curve = "p256" THEN rest = phases["sign_init"][i]
                                            ELSE rest >= 0
    BY DEF PhasesAddUp
  <2>1. /\ {"sign", "verify", "total"} \subseteq DOMAIN phases
        /\ curve = "p256" => "sign_init" \in DOMAIN phases
    BY Constants, PhasesOf DEF IInv, TypeOK
  <2>2. ran[i] \in Ordered
    BY ElementOfSeq DEF IInv, Sampled
  <2>3. \A p \in DOMAIN phases : phases[p][i] = Iteration(ran[i])[p]
    BY DEF IInv, Sampled
  <2> QED BY <2>1, <2>2, <2>3, Times DEF AllPhases
<1> QED BY <1>1, Invariance, PTL

(* The output file holds the iterations that verified, and all of them in  *)
(* the end; before there is a report, it is what it was.                   *)
THEOREM FileIsTheRun == Spec => []FileHoldsRun
<1>1. IInv => FileHoldsRun
  <2> SUFFICES ASSUME IInv, file # Old PROVE FileHoldsRun
    BY DEF FileHoldsRun
  <2>1. Written /\ report.printed
    BY DEF IInv, Reported, Filed
  <2>2. PICK rows, map :
          /\ rows \in Seq([1 .. Width -> Nat])
          /\ file = [columns |->
                       IF format = "csv" THEN Columns(curve) ELSE << >>,
                     rows |-> rows, map |-> map]
    BY <2>1 DEF Written
  <2>3. file.columns = (IF format = "csv" THEN Columns(curve) ELSE << >>)
        /\ file.rows = rows
    BY <2>2
  <2>4. ASSUME NEW i \in 1 .. Len(file.rows)
        PROVE  file.rows[i] = [j \in 1 .. Len(file.columns) |->
                                Iteration(ran[i])[file.columns[j]]]
    <3>1. format = "csv" /\ file.columns = Columns(curve)
      <4>1. format = "json" => Len(file.rows) = 0
        BY <2>1 DEF Written
      <4>2. format \in {"csv", "json"}
        BY Constants DEF IInv, TypeOK
      <4> QED BY <2>3, <4>1, <4>2
    <3>2. file.rows[i] \in [1 .. Width -> Nat]
      BY <2>2, <2>3, ElementOfSeq
    <3>3. \A j \in 1 .. Width :
            file.rows[i][j] = Iteration(ran[i])[Columns(curve)[j]]
      BY <2>1 DEF Written
    <3> QED BY <3>1, <3>2, <3>3 DEF Width
  <2>5. CASE pc = "ended" /\ format # "csv"
    <3>1. file.map = phases
      BY <2>5 DEF IInv, Filed, Whole
    <3>2. phases \in [Range(Columns(curve)) -> Seq(Nat)]
          /\ \A p \in DOMAIN phases : Len(phases[p]) = completed
          /\ Len(ran) = completed
      BY DEF IInv, TypeOK, Sampled
    <3>3. ASSUME NEW p \in Range(Columns(curve))
          PROVE  phases[p] = [i \in 1 .. Len(ran) |-> Iteration(ran[i])[p]]
      <4>1. phases[p] = [i \in 1 .. Len(ran) |-> phases[p][i]]
        BY <3>2
      <4>2. \A i \in 1 .. Len(ran) : phases[p][i] = Iteration(ran[i])[p]
        BY <3>2 DEF IInv, Sampled
      <4> QED BY <4>1, <4>2
    <3> QED
      BY <2>1, <2>4, <2>5, <3>1, <3>2, <3>3 DEF FileHoldsRun, Written
  <2>6. CASE pc = "ended" /\ format = "csv"
    BY <2>1, <2>4, <2>6 DEF FileHoldsRun, Written, IInv, Filed, Whole
  <2>7. CASE pc # "ended"
    BY <2>1, <2>4, <2>7 DEF FileHoldsRun, Written
  <2> QED BY <2>5, <2>6, <2>7
<1> QED BY <1>1, Invariance, PTL

-----------------------------------------------------------------------------
(* Sums.                                                                   *)

(* What holds of 0, and of the successor of what it holds of, holds of     *)
(* every number: as a statement about sets.                                *)
LEMMA SetInduction ==
  ASSUME NEW C, 0 \in C, \A m \in Nat : m \in C => m + 1 \in C
  PROVE  Nat \subseteq C
<1> DEFINE Bad == Nat \ C
<1>1. SUFFICES ASSUME Bad # {} PROVE FALSE
  OBVIOUS
<1>2. PICK m \in Bad : \A l \in Bad : <<l, m>> \notin OpToRel(<, Nat)
  BY <1>1, WFMin, NatLessThanWellFounded
<1>3. \A l \in Bad : ~(l < m)
  BY <1>2 DEF OpToRel
<1>4. m # 0 /\ m \in Nat
  BY <1>2
<1>5. m - 1 \in Nat /\ m - 1 < m
  BY <1>4
<1>6. m - 1 \in C
  BY <1>3, <1>5
<1>7. (m - 1) + 1 \in C
  BY <1>5, <1>6
<1>8. (m - 1) + 1 = m
  BY <1>4
<1> QED BY <1>2, <1>7, <1>8

IsRunningSum(sum, s, m) ==
  /\ sum \in [0 .. m -> Nat] /\ sum[0] = 0
  /\ \A k \in 1 .. m : sum[k] = sum[k - 1] + s[k]

(* The first numbers of a sequence can be summed up one by one.            *)
LEMMA RunningSumExists ==
  ASSUME NEW s \in Seq(Nat)
  PROVE  \E sum : IsRunningSum(sum, s, Len(s))
<1> DEFINE C == {m \in Nat :
                   m <= Len(s) => \E sum : IsRunningSum(sum, s, m)}
<1>1. 0 \in C
  <2>1. IsRunningSum([k \in 0 .. 0 |-> 0], s, 0)
    BY DEF IsRunningSum
  <2> QED BY <2>1
<1>2. ASSUME NEW m \in Nat, m \in C PROVE m + 1 \in C
  <2>1. SUFFICES ASSUME m + 1 <= Len(s)
                 PROVE  \E sum : IsRunningSum(sum, s, m + 1)
    OBVIOUS
  <2>2. PICK sum : IsRunningSum(sum, s, m)
    BY <1>2, <2>1
  <2> DEFINE more == [k \in 0 .. m + 1 |->
                        IF k = m + 1 THEN sum[m] + s[m + 1] ELSE sum[k]]
  <2>3. s[m + 1] \in Nat /\ sum[m] \in Nat
    BY <2>1, <2>2, ElementOfSeq DEF IsRunningSum
  <2>4. more \in [0 .. m + 1 -> Nat] /\ more[0] = 0
    BY <2>2, <2>3 DEF IsRunningSum
  <2>5. ASSUME NEW k \in 1 .. m + 1 PROVE more[k] = more[k - 1] + s[k]
    <3>1. CASE k = m + 1
      <4>1. k - 1 = m /\ more[k] = sum[m] + s[k] /\ more[m] = sum[m]
        BY <3>1
      <4> QED BY <4>1
    <3>2. CASE k # m + 1
      <4>1. k \in 1 .. m /\ more[k] = sum[k] /\ more[k - 1] = sum[k - 1]
        BY <3>2
      <4> QED BY <2>2, <4>1 DEF IsRunningSum
    <3> QED BY <3>1, <3>2
  <2> HIDE DEF more
  <2> QED BY <2>4, <2>5 DEF IsRunningSum
<1>3. Nat \subseteq C
  <2> HIDE DEF C
  <2> QED BY <1>1, <1>2, SetInduction
<1> QED BY <1>3

(* Sum(s) is the last of the running sums over s.                          *)
LEMMA SumIsRunning ==
  ASSUME NEW s \in Seq(Nat)
  PROVE  \E sum : IsRunningSum(sum, s, Len(s)) /\ Sum(s) = sum[Len(s)]
<1> DEFINE n == Len(s)
           t == CHOOSE sum : sum = [k \in 0 .. n |->
                               IF k = 0 THEN 0 ELSE sum[k - 1] + s[k]]
<1>0. n \in Nat
  OBVIOUS
<1>1. PICK sum : IsRunningSum(sum, s, n)
  BY RunningSumExists
<1>2. sum = [k \in 0 .. n |-> IF k = 0 THEN 0 ELSE sum[k - 1] + s[k]]
  BY <1>0, <1>1 DEF IsRunningSum
<1>3. t = [k \in 0 .. n |-> IF k = 0 THEN 0 ELSE t[k - 1] + s[k]]
  BY <1>2
<1>4. Sum(s) = t[n]
  BY DEF Sum
<1> HIDE DEF t
<1>5. t[0] = 0 /\ \A k \in 1 .. n : t[k] = t[k - 1] + s[k]
  BY <1>0, <1>3
<1> DEFINE T == {m \in Nat : m <= n => t[m] \in Nat}
<1>6. 0 \in T
  BY <1>5
<1>7. ASSUME NEW m \in Nat, m \in T PROVE m + 1 \in T
  <2>1. SUFFICES ASSUME m + 1 <= n PROVE t[m + 1] \in Nat
    OBVIOUS
  <2>2. /\ t[m] \in Nat /\ m + 1 \in 1 .. n /\ (m + 1) - 1 = m
        /\ s[m + 1] \in Nat
    BY <1>0, <1>7, <2>1, ElementOfSeq
  <2> QED BY <1>5, <2>2
<1>8. Nat \subseteq T
  <2> HIDE DEF T
  <2> QED BY <1>6, <1>7, SetInduction
<1>9. \A k \in 0 .. n : t[k] \in Nat
  BY <1>0, <1>8
<1>10. t = [k \in 0 .. n |-> t[k]]
  BY <1>3
<1>11. t \in [0 .. n -> Nat]
  BY <1>9, <1>10
<1> QED BY <1>4, <1>5, <1>11 DEF IsRunningSum

(* The sum of numbers is a number.                                         *)
LEMMA SumIsNat ==
  ASSUME NEW s \in Seq(Nat)
  PROVE  Sum(s) \in Nat
<1>1. PICK sum : IsRunningSum(sum, s, Len(s)) /\ Sum(s) = sum[Len(s)]
  BY SumIsRunning
<1> QED BY <1>1 DEF IsRunningSum

(* Nothing sums up to 0.                                                   *)
LEMMA SumEmpty ==
  ASSUME NEW s \in Seq(Nat), Len(s) = 0
  PROVE  Sum(s) = 0
<1>1. PICK sum : IsRunningSum(sum, s, Len(s)) /\ Sum(s) = sum[Len(s)]
  BY SumIsRunning
<1> QED BY <1>1 DEF IsRunningSum

(* A sample more is its value more in the sum.                             *)
LEMMA SumAppend ==
  ASSUME NEW s \in Seq(Nat), NEW x \in Nat
  PROVE  Sum(Append(s, x)) = Sum(s) + x
<1> DEFINE n == Len(s)
           t == Append(s, x)
<1>1. /\ t \in Seq(Nat) /\ Len(t) = n + 1 /\ t[n + 1] = x /\ n \in Nat
      /\ \A k \in 1 .. n : t[k] = s[k]
  BY AppendProperties
<1> HIDE DEF t
<1>2. PICK a : IsRunningSum(a, s, n) /\ Sum(s) = a[n]
  BY SumIsRunning
<1>3. PICK b : IsRunningSum(b, t, n + 1) /\ Sum(t) = b[n + 1]
  BY <1>1, SumIsRunning
<1> HIDE DEF n
<1> DEFINE C == {m \in Nat : m <= n => a[m] = b[m]}
<1>4. 0 \in C
  BY <1>2, <1>3 DEF IsRunningSum
<1>5. ASSUME NEW m \in Nat, m \in C PROVE m + 1 \in C
  <2>1. SUFFICES ASSUME m + 1 <= n PROVE a[m + 1] = b[m + 1]
    OBVIOUS
  <2>2. /\ m + 1 \in 1 .. n /\ m + 1 \in 1 .. n + 1 /\ (m + 1) - 1 = m
        /\ a[m] = b[m] /\ t[m + 1] = s[m + 1]
    BY <1>1, <1>5, <2>1
  <2>3. a[m + 1] = a[m] + s[m + 1] /\ b[m + 1] = b[m] + t[m + 1]
    BY <1>2, <1>3, <2>2 DEF IsRunningSum
  <2> QED BY <2>2, <2>3
<1>6. Nat \subseteq C
  <2> HIDE DEF C
  <2> QED BY <1>4, <1>5, SetInduction
<1>7. a[n] = b[n]
  BY <1>1, <1>6
<1>8. n + 1 \in 1 .. n + 1 /\ (n + 1) - 1 = n
  BY <1>1
<1>9. b[n + 1] = b[n] + t[n + 1]
  BY <1>3, <1>8 DEF IsRunningSum
<1> QED BY <1>1, <1>2, <1>3, <1>7, <1>9 DEF t

(* Numbers sum up to 0 only if each is 0.                                  *)
LEMMA SumZero ==
  ASSUME NEW s \in Seq(Nat)
  PROVE  Sum(s) = 0 <=> \A k \in 1 .. Len(s) : s[k] = 0
<1>1. PICK sum : IsRunningSum(sum, s, Len(s)) /\ Sum(s) = sum[Len(s)]
  BY SumIsRunning
<1>2. PICK n \in Nat : n = Len(s)
  OBVIOUS
<1>3. /\ sum \in [0 .. n -> Nat] /\ sum[0] = 0 /\ Sum(s) = sum[n]
      /\ \A k \in 1 .. n : s[k] \in Nat /\ sum[k] = sum[k - 1] + s[k]
  BY <1>1, <1>2, ElementOfSeq DEF IsRunningSum
<1> DEFINE C == {m \in Nat : m <= n =>
                   (sum[m] = 0 <=> \A k \in 1 .. m : s[k] = 0)}
<1>4. 0 \in C
  BY <1>3
<1>5. ASSUME NEW m \in Nat, m \in C PROVE m + 1 \in C
  <2>1. SUFFICES ASSUME m + 1 <= n
                 PROVE  sum[m + 1] = 0 <=> \A k \in 1 .. m + 1 : s[k] = 0
    OBVIOUS
  <2>2. /\ m + 1 \in 1 .. n /\ (m + 1) - 1 = m /\ m \in 0 .. n
        /\ sum[m] = 0 <=> \A k \in 1 .. m : s[k] = 0
    BY <1>5, <2>1
  <2>3. /\ sum[m + 1] = sum[m] + s[m + 1]
        /\ sum[m] \in Nat /\ s[m + 1] \in Nat
    BY <1>3, <2>2
  <2>4. sum[m + 1] = 0 <=> sum[m] = 0 /\ s[m + 1] = 0
    BY <2>3
  <2>5. \A k : k \in 1 .. m + 1 <=> k \in 1 .. m \/ k = m + 1
    OBVIOUS
  <2> QED BY <2>2, <2>4, <2>5
<1>6. Nat \subseteq C
  <2> HIDE DEF C
  <2> QED BY <1>4, <1>5, SetInduction
<1>7. n \in C
  BY <1>6
<1> QED BY <1>2, <1>3, <1>7

(* The sum of two numbers.                                                 *)
LEMMA SumOfTwo ==
  ASSUME NEW s \in Seq(Nat), Len(s) = 2
  PROVE  Sum(s) = s[1] + s[2]
<1>1. PICK sum : IsRunningSum(sum, s, Len(s)) /\ Sum(s) = sum[Len(s)]
  BY SumIsRunning
<1>2. 1 \in 1 .. 2 /\ 2 \in 1 .. 2 /\ s[1] \in Nat /\ s[2] \in Nat
  BY ElementOfSeq
<1>3. sum[0] = 0 /\ sum[1] = sum[1 - 1] + s[1] /\ sum[2] = sum[2 - 1] + s[2]
  BY <1>1, <1>2 DEF IsRunningSum
<1> QED BY <1>1, <1>2, <1>3

(* The sum of three numbers.                                               *)
LEMMA SumOfThree ==
  ASSUME NEW s \in Seq(Nat), Len(s) = 3
  PROVE  Sum(s) = s[1] + s[2] + s[3]
<1>1. PICK sum : IsRunningSum(sum, s, Len(s)) /\ Sum(s) = sum[Len(s)]
  BY SumIsRunning
<1>2. /\ 1 \in 1 .. 3 /\ 2 \in 1 .. 3 /\ 3 \in 1 .. 3
      /\ s[1] \in Nat /\ s[2] \in Nat /\ s[3] \in Nat
  BY ElementOfSeq
<1>3. /\ sum[0] = 0 /\ sum[1] = sum[1 - 1] + s[1]
      /\ sum[2] = sum[2 - 1] + s[2] /\ sum[3] = sum[3 - 1] + s[3]
  BY <1>1, <1>2 DEF IsRunningSum
<1> QED BY <1>1, <1>2, <1>3

-----------------------------------------------------------------------------
(* What the samples sum up to.                                             *)

(* The time spent in a phase so far.                                       *)
Time(p) == Sum(phases[p])

(* The iterations so far all fell between the start of the run and now.    *)
Elapsed(now) == run_start + Time("total") <= now

Fits ==
  /\ caller = "warmup" => completed = 0
  /\ pc = "measure" => Elapsed(clock)
  /\ pc = "start" /\ caller = "measure" => Elapsed(clock)
  /\ pc \in {"init", "sign", "verify", "return"} /\ caller = "measure" =>
       Elapsed(marks["start"])
  /\ pc \in {"report", "create"} \cup FileSteps =>
       completed > 0 /\ Time("total") <= wall

(* The total is divided among the phases.                                  *)
Divided ==
  /\ Time("sign") + Time("verify") <= Time("total")
  /\ curve = "p256" =>
       Time("sign_init") + Time("sign") + Time("verify") = Time("total")

(* What was printed is still so, and a bar is drawn of the times there are.*)
Printed ==
  report.printed =>
    /\ pc \in {"create", "failed"} \cup FileSteps
    /\ report.completed > 0
    /\ report.sign_share = Quotient(Time("sign"), Time("total"))
    /\ report.wall = wall /\ Time("total") <= wall
    /\ report.bar # None =>
         /\ Together > 0
         /\ report.bar.unaccounted =
              Quotient(Time("total") - Together, Time("total"))

Fitting == Fits /\ Divided /\ Printed

(* The times are numbers, and the components sum up to what they are.      *)
LEMMA TimesOfPhases ==
  ASSUME TypeOK
  PROVE  /\ \A p \in DOMAIN phases :
              phases[p] \in Seq(Nat) /\ Time(p) \in Nat
         /\ {"sign", "verify", "total"} \subseteq DOMAIN phases
         /\ curve = "p256" =>
              /\ "sign_init" \in DOMAIN phases
              /\ Together = Time("sign_init") + Time("sign") + Time("verify")
         /\ curve = "ed25519" => Together = Time("sign") + Time("verify")
<1>1. curve \in {"ed25519", "p256"}
      /\ phases \in [Range(Columns(curve)) -> Seq(Nat)]
  BY Constants DEF TypeOK
<1>2. /\ {"sign", "verify", "total"} \subseteq DOMAIN phases
      /\ curve = "p256" => "sign_init" \in DOMAIN phases
  BY <1>1, PhasesOf
<1>3. \A p \in DOMAIN phases : phases[p] \in Seq(Nat) /\ Time(p) \in Nat
  BY <1>1, SumIsNat DEF Time
<1> DEFINE n == Len(Columns(curve)) - 1
           s == [j \in 1 .. n |-> Sum(phases[Columns(curve)[j]])]
<1>4. Together = Sum(s)
  BY DEF Together
<1>5. CASE curve = "p256"
  <2>1. n = 3 /\ Columns(curve)[1] = "sign_init"
        /\ Columns(curve)[2] = "sign" /\ Columns(curve)[3] = "verify"
    BY <1>5, ColumnsAre
  <2> HIDE DEF n
  <2>2. /\ DOMAIN s = 1 .. 3 /\ s[1] = Time("sign_init")
        /\ s[2] = Time("sign") /\ s[3] = Time("verify")
    BY <2>1 DEF Time
  <2>3. s = [j \in 1 .. 3 |-> s[j]]
    BY <2>1
  <2> HIDE DEF s
  <2>4. s \in Seq(Nat) /\ Len(s) = 3
    <3>1. \A j \in 1 .. 3 : s[j] \in Nat
      BY <1>2, <1>3, <1>5, <2>2
    <3> QED BY <2>3, <3>1
  <2> QED BY <1>2, <1>3, <1>4, <1>5, <2>2, <2>4, SumOfThree
<1>6. CASE curve = "ed25519"
  <2>1. n = 2 /\ Columns(curve)[1] = "sign" /\ Columns(curve)[2] = "verify"
    BY <1>6, ColumnsAre
  <2> HIDE DEF n
  <2>2. DOMAIN s = 1 .. 2 /\ s[1] = Time("sign") /\ s[2] = Time("verify")
    BY <2>1 DEF Time
  <2>3. s = [j \in 1 .. 2 |-> s[j]]
    BY <2>1
  <2> HIDE DEF s
  <2>4. s \in Seq(Nat) /\ Len(s) = 2
    <3>1. \A j \in 1 .. 2 : s[j] \in Nat
      BY <1>2, <1>3, <2>2
    <3> QED BY <2>3, <3>1
  <2> QED BY <1>2, <1>3, <1>4, <1>6, <2>2, <2>4, SumOfTwo
<1> QED BY <1>1, <1>2, <1>3, <1>5, <1>6

(* The sums keep within the time there was, and to what was printed.       *)
LEMMA FittingInvariant ==
  ASSUME IInv, Fitting, [Next]_vars
  PROVE  Fitting'
<1> USE DEF setting, readings, run, output
<1>0. /\ TypeOK /\ Clocked /\ Sampled /\ Fits /\ Divided /\ Printed
      /\ clock \in Nat /\ run_start \in Nat /\ wall \in Nat
      /\ marks \in [Fields -> Nat] /\ completed \in Nat
      /\ Time("total") \in Nat /\ "total" \in DOMAIN phases
  BY TimesOfPhases, MarkFields DEF IInv, Fitting, TypeOK, completed
<1>a. ASSUME UNCHANGED <<phases, curve>>
      PROVE  /\ Divided' /\ completed' = completed /\ Together' = Together
             /\ Time("sign")' = Time("sign") /\ Time("total")' = Time("total")
  <2>1. /\ Time("sign_init")' = Time("sign_init")
        /\ Time("sign")' = Time("sign") /\ Time("verify")' = Time("verify")
        /\ Time("total")' = Time("total") /\ completed' = completed
    BY <1>a DEF Time, completed
  <2>2. Together' = Together
    BY <1>a DEF Together
  <2>3. Divided'
    BY <1>0, <1>a, <2>1 DEF Divided
  <2> QED BY <2>1, <2>2, <2>3
<1>b. ASSUME UNCHANGED <<phases, curve, report>>, ~report.printed
      PROVE  Printed'
  BY <1>b DEF Printed
<1>c. ASSUME UNCHANGED <<phases, curve, report, wall>>,
             pc' \in {"create", "failed"} \cup FileSteps
      PROVE  Printed'
  BY <1>0, <1>a, <1>c DEF Printed
<1>1. ASSUME NEW at, NEW mark, NEW call, NEW next, Mark(at, mark, call, next),
             at \notin {"create", "failed"} \cup FileSteps
      PROVE  /\ Divided' /\ Printed' /\ completed' = completed
             /\ Time("total")' = Time("total")
             /\ UNCHANGED <<caller, run_start>> /\ pc = at
             /\ \/ /\ pc' = next /\ clock' \in Nat /\ clock' >= clock
                   /\ marks' = [marks EXCEPT ![mark] = clock']
                \/ pc' = "failed"
  <2>1. UNCHANGED <<setting, caller, run, interrupted, output, ran>> /\ pc = at
    BY <1>1 DEF Mark
  <2>2. \/ /\ pc' = next /\ clock' \in Nat /\ clock' >= clock
           /\ marks' = [marks EXCEPT ![mark] = clock']
        \/ pc' = "failed"
    BY <1>0, <1>1, Constants DEF Mark
  <2>3. ~report.printed
    BY <1>0, <1>1, <2>1 DEF Printed
  <2>4. Printed'
    BY <1>b, <2>1, <2>3
  <2> QED BY <1>a, <2>1, <2>2, <2>4
<1>2. CASE Start
  <2>1. Mark("start", "start", "none", "init")
    BY <1>2 DEF Start
  <2>2. /\ Divided' /\ Printed' /\ completed' = completed
        /\ Time("total")' = Time("total")
        /\ UNCHANGED <<caller, run_start>> /\ pc = "start"
        /\ \/ /\ pc' = "init" /\ clock' \in Nat /\ clock' >= clock
              /\ marks' = [marks EXCEPT !["start"] = clock']
           \/ pc' = "failed"
    BY <1>1, <2>1 DEF FileSteps
  <2>3. Fits'
    BY <1>0, <2>2 DEF Fits, Elapsed, FileSteps, Fields
  <2> QED BY <2>2, <2>3 DEF Fitting
<1>3. CASE AfterInit
  <2>1. \E call : Mark("init", "after_init", call, "sign")
    BY <1>3 DEF AfterInit
  <2>2. /\ Divided' /\ Printed' /\ completed' = completed
        /\ Time("total")' = Time("total")
        /\ UNCHANGED <<caller, run_start>> /\ pc = "init"
        /\ \/ /\ pc' = "sign" /\ clock' \in Nat /\ clock' >= clock
              /\ marks' = [marks EXCEPT !["after_init"] = clock']
           \/ pc' = "failed"
    BY <1>1, <2>1 DEF FileSteps
  <2>3. Fits'
    BY <1>0, <2>2 DEF Fits, Elapsed, FileSteps, Fields
  <2> QED BY <2>2, <2>3 DEF Fitting
<1>4. CASE AfterSign
  <2>1. Mark("sign", "after_sign", "sign", "verify")
    BY <1>4 DEF AfterSign
  <2>2. /\ Divided' /\ Printed' /\ completed' = completed
        /\ Time("total")' = Time("total")
        /\ UNCHANGED <<caller, run_start>> /\ pc = "sign"
        /\ \/ /\ pc' = "verify" /\ clock' \in Nat /\ clock' >= clock
              /\ marks' = [marks EXCEPT !["after_sign"] = clock']
           \/ pc' = "failed"
    BY <1>1, <2>1 DEF FileSteps
  <2>3. Fits'
    BY <1>0, <2>2 DEF Fits, Elapsed, FileSteps, Fields
  <2> QED BY <2>2, <2>3 DEF Fitting
<1>5. CASE AfterVerify
  <2>1. Mark("verify", "after_verify", "verify", "return")
    BY <1>5 DEF AfterVerify
  <2>2. /\ Divided' /\ Printed' /\ completed' = completed
        /\ Time("total")' = Time("total")
        /\ UNCHANGED <<caller, run_start>> /\ pc = "verify"
        /\ \/ /\ pc' = "return" /\ clock' \in Nat /\ clock' >= clock
              /\ marks' = [marks EXCEPT !["after_verify"] = clock']
           \/ pc' = "failed"
    BY <1>1, <2>1 DEF FileSteps
  <2>3. Fits'
    BY <1>0, <2>2 DEF Fits, Elapsed, FileSteps, Fields
  <2> QED BY <2>2, <2>3 DEF Fitting
<1>6. CASE Return
  <2>1. /\ pc = "return" /\ pc' = caller
        /\ UNCHANGED <<setting, readings, warmup_start, run_start, wall,
                       interrupted, output>>
    BY <1>6 DEF Return
  <2>2. ~report.printed
    BY <1>0, <2>1 DEF Printed, FileSteps
  <2>3. Printed'
    BY <2>1, <2>2 DEF Printed
  <2>4. CASE caller = "warmup"
    <3>1. UNCHANGED phases
      BY <1>6, <2>4 DEF Return
    <3>2. Fits'
      BY <1>0, <1>a, <2>1, <2>4, <3>1 DEF Fits, FileSteps
    <3> QED BY <1>a, <2>1, <2>3, <3>1, <3>2 DEF Fitting
  <2>5. CASE caller = "measure"
    <3>1. phases' = [p \in DOMAIN phases |->
                       Append(phases[p], Iteration(marks)[p])]
      BY <1>6, <2>5 DEF Return
    <3>2. marks \in Ordered /\ marks["after_verify"] <= clock
      BY <1>0, <2>1 DEF Clocked, Ordered
    <3>3. ASSUME NEW p \in DOMAIN phases
          PROVE  /\ Iteration(marks)[p] \in Nat /\ Time(p) \in Nat
                 /\ Time(p)' = Time(p) + Iteration(marks)[p]
      <4>1. p \in AllPhases
        BY <1>0, Constants, PhasesOf DEF TypeOK
      <4>2. Iteration(marks)[p] \in Nat
        BY <3>2, <4>1, Times
      <4>3. phases[p] \in Seq(Nat) /\ Time(p) \in Nat
        BY <1>0, TimesOfPhases
      <4>4. phases'[p] = Append(phases[p], Iteration(marks)[p])
        BY <3>1
      <4>5. Sum(phases'[p]) = Sum(phases[p]) + Iteration(marks)[p]
        BY <4>2, <4>3, <4>4, SumAppend
      <4> QED BY <4>2, <4>3, <4>5 DEF Time
    <3>4. /\ "sign" \in DOMAIN phases /\ "verify" \in DOMAIN phases
          /\ curve = "p256" => "sign_init" \in DOMAIN phases
      BY <1>0, TimesOfPhases
    <3>5. /\ Iteration(marks)["total"] - Iteration(marks)["sign"]
               - Iteration(marks)["verify"] = Iteration(marks)["sign_init"]
          /\ Iteration(marks)["sign_init"] \in Nat
      BY <3>2, Times DEF AllPhases
    <3>6. Divided'
      <4>1. Time("sign")' + Time("verify")' <= Time("total")'
        BY <1>0, <3>3, <3>4, <3>5 DEF Divided
      <4>2. curve = "p256" => Time("sign_init")' + Time("sign")'
                                + Time("verify")' = Time("total")'
        BY <1>0, <3>3, <3>4, <3>5 DEF Divided
      <4> QED BY <2>1, <4>1, <4>2 DEF Divided
    <3>7. Elapsed(clock)'
      <4>1. Iteration(marks)["total"] = marks["after_verify"] - marks["start"]
        BY DEF Iteration
      <4>2. run_start + Time("total") <= marks["start"]
        BY <1>0, <2>1, <2>5 DEF Fits, Elapsed
      <4>3. Time("total")' = Time("total") + Iteration(marks)["total"]
        BY <1>0, <3>3
      <4>4. marks["start"] \in Nat /\ marks["after_verify"] \in Nat
        BY <1>0 DEF Fields
      <4> QED BY <1>0, <2>1, <3>2, <4>1, <4>2, <4>3, <4>4 DEF Elapsed
    <3>8. Fits'
      BY <2>1, <2>5, <3>7 DEF Fits, FileSteps
    <3> QED BY <2>3, <3>6, <3>8 DEF Fitting
  <2> QED BY <1>0, <2>4, <2>5 DEF TypeOK
<1>7. CASE Begin
  <2>1. /\ pc = "begin" /\ pc' \in {"warmup", "begin_run"}
        /\ UNCHANGED <<setting, caller, phases, run_start, wall, output>>
    BY <1>7 DEF Begin
  <2>2. ~report.printed
    BY <1>0, <2>1 DEF Printed, FileSteps
  <2>3. Fits'
    BY <1>0, <1>a, <2>1 DEF Fits, FileSteps
  <2> QED BY <1>a, <1>b, <2>1, <2>2, <2>3 DEF Fitting
<1>8. CASE WarmupHead
  <2>1. /\ pc = "warmup" /\ pc' \in {"begin_run", "failed", "start"}
        /\ UNCHANGED <<setting, caller, phases, run_start, wall, output>>
    BY <1>8 DEF WarmupHead
  <2>2. ~report.printed /\ caller = "warmup"
    BY <1>0, <2>1 DEF Printed, FileSteps, Sampled
  <2>3. Fits'
    BY <1>0, <1>a, <2>1, <2>2 DEF Fits, FileSteps
  <2> QED BY <1>a, <1>b, <2>1, <2>2, <2>3 DEF Fitting
<1>9. CASE BeginRun
  <2>1. /\ pc = "begin_run" /\ pc' = "measure" /\ caller' = "measure"
        /\ run_start' = clock' /\ clock' \in Nat
        /\ UNCHANGED <<setting, phases, wall, output>>
    BY <1>0, <1>9, Constants DEF BeginRun, Read
  <2>2. ~report.printed /\ caller = "warmup"
    BY <1>0, <2>1 DEF Printed, FileSteps, Sampled
  <2>3. Time("total") = 0
    BY <1>0, <2>2, TimesOfPhases, SumEmpty DEF Fits, Time, completed
  <2>4. Elapsed(clock)'
    BY <1>a, <2>1, <2>3 DEF Elapsed
  <2>5. Fits'
    BY <2>1, <2>4 DEF Fits, FileSteps
  <2> QED BY <1>a, <1>b, <2>1, <2>2, <2>5 DEF Fitting
<1>10. CASE MeasureHead
  <2>1. /\ pc = "measure" /\ pc' = "start"
        /\ UNCHANGED <<setting, readings, run, output>>
    BY <1>10 DEF MeasureHead
  <2>2. ~report.printed
    BY <1>0, <2>1 DEF Printed, FileSteps
  <2>3. Fits'
    BY <1>0, <1>a, <2>1 DEF Fits, FileSteps, Elapsed
  <2> QED BY <1>a, <1>b, <2>1, <2>2, <2>3 DEF Fitting
<1>11. CASE MeasureDone
  <2>1. /\ pc = "measure" /\ clock' \in Nat /\ clock' >= clock
        /\ wall' = clock' - run_start
        /\ pc' = IF completed = 0 THEN "failed" ELSE "report"
        /\ UNCHANGED <<setting, caller, phases, run_start, output>>
    BY <1>0, <1>11, Constants DEF MeasureDone, Read
  <2>2. ~report.printed /\ caller = "measure"
    BY <1>0, <2>1 DEF Printed, FileSteps, Sampled
  <2>3. Time("total")' <= wall' /\ completed' = completed
    BY <1>0, <1>a, <2>1 DEF Fits, Elapsed
  <2>4. Fits'
    BY <1>0, <2>1, <2>2, <2>3 DEF Fits, FileSteps
  <2> QED BY <1>a, <1>b, <2>1, <2>2, <2>4 DEF Fitting
<1>12. CASE Report
  <2>1. /\ pc = "report" /\ pc' = "create"
        /\ UNCHANGED <<setting, readings, run>>
    BY <1>12 DEF Report
  <2>2. report' = [printed    |-> TRUE,
                   completed  |-> completed,
                   sign_share |-> Quotient(Time("sign"), Time("total")),
                   wall       |-> wall,
                   bar        |-> None]
    BY <1>12 DEF Report, Time
  <2>3. completed > 0 /\ Time("total") <= wall
    BY <1>0, <2>1 DEF Fits
  <2>4. Printed'
    BY <1>a, <2>1, <2>2, <2>3 DEF Printed
  <2>5. Fits'
    BY <1>0, <1>a, <2>1, <2>3 DEF Fits, FileSteps
  <2> QED BY <1>a, <2>1, <2>4, <2>5 DEF Fitting
<1>13. CASE CreateFile \/ WriteRow \/ WriteMap
  <2>1. /\ pc \in {"create", "csv", "json"}
        /\ pc' \in {format, "csv", "chart", "failed"}
        /\ UNCHANGED <<setting, readings, run, report>>
    BY <1>13 DEF CreateFile, WriteRow, WriteMap
  <2>2. format \in {"csv", "json"}
    BY <1>0, Constants DEF TypeOK
  <2>3. Fits'
    BY <1>0, <1>a, <2>1, <2>2 DEF Fits, FileSteps
  <2>4. Printed'
    BY <1>c, <2>1, <2>2 DEF FileSteps
  <2> QED BY <1>a, <2>1, <2>3, <2>4 DEF Fitting
<1>14. CASE Chart
  <2>1. /\ pc = "chart" /\ pc' = "ended"
        /\ UNCHANGED <<setting, readings, run>>
        /\ report' = IF Together > 0
                     THEN [report EXCEPT !.bar = composition_bar]
                     ELSE report
    BY <1>14 DEF Chart
  <2>2. Fits'
    BY <1>0, <1>a, <2>1 DEF Fits, FileSteps
  <2>3. CASE report' = report
    <3>1. Printed'
      BY <1>c, <2>1, <2>3 DEF FileSteps
    <3> QED BY <1>a, <2>1, <2>2, <3>1 DEF Fitting
  <2>4. CASE Together > 0 /\ report' = [report EXCEPT !.bar = composition_bar]
    <3>1. report.printed
      BY <2>1 DEF IInv, Reported, FileSteps
    <3>2. PICK n, s, w, b :
            report = [printed |-> TRUE, completed |-> n, sign_share |-> s,
                      wall |-> w, bar |-> b]
      BY <3>1 DEF IInv, Reported
    <3>3. /\ n > 0 /\ s = Quotient(Time("sign"), Time("total"))
          /\ w = wall /\ Time("total") <= wall
      BY <1>0, <3>1, <3>2 DEF Printed
    <3>4. PICK c : c = composition_bar
      OBVIOUS
    <3>5. c.unaccounted =
            Quotient(Time("total") - Together, Time("total"))
      BY <3>4 DEF composition_bar, Time
    <3>6. report' = [printed |-> TRUE, completed |-> n, sign_share |-> s,
                     wall |-> w, bar |-> c]
      BY <2>4, <3>2, <3>4
    <3>7. Printed'
      BY <1>a, <2>1, <2>4, <3>3, <3>5, <3>6 DEF Printed, FileSteps
    <3> QED BY <1>a, <2>1, <2>2, <3>7 DEF Fitting
  <2> QED BY <2>1, <2>3, <2>4
<1>15. CASE Interrupt
  <2>1. UNCHANGED <<pc, setting, readings, run, output>>
    BY <1>15 DEF Interrupt
  <2>2. Fits' /\ Printed'
    BY <1>0, <1>a, <2>1 DEF Fits, Printed, Elapsed
  <2> QED BY <1>a, <2>1, <2>2 DEF Fitting
<1>16. CASE UNCHANGED vars
  <2>1. UNCHANGED <<pc, setting, readings, run, output>>
    BY <1>16 DEF vars
  <2>2. Fits' /\ Printed'
    BY <1>0, <1>a, <2>1 DEF Fits, Printed, Elapsed
  <2> QED BY <1>a, <2>1, <2>2 DEF Fitting
<1> QED
  BY <1>2, <1>3, <1>4, <1>5, <1>6, <1>7, <1>8, <1>9, <1>10, <1>11, <1>12,
     <1>13, <1>14, <1>15, <1>16
  DEF Next, SignOnce, Terminated

(* The report prints NaN for the share of signing exactly when no time     *)
(* passed in any of its iterations. Otherwise it prints a share, of a      *)
(* positive time that is no longer than the wall clock says. The bar is    *)
(* drawn of positive times only, and for P-256 leaves none unattributed.   *)
THEOREM SharesFit == Spec => []SharesAreShares
<1>1. Init => Fitting
  <2> SUFFICES ASSUME Init PROVE Fitting
    OBVIOUS
  <2>1. ~report.printed /\ pc = "begin" /\ curve \in {"ed25519", "p256"}
        /\ phases = [p \in Range(Columns(curve)) |-> << >>]
    BY Constants DEF Init
  <2>2. \A p \in DOMAIN phases : phases[p] = << >> /\ Time(p) = 0
    <3>1. << >> \in Seq(Nat) /\ Len(<< >>) = 0
      OBVIOUS
    <3>2. Sum(<< >>) = 0
      BY <3>1, SumEmpty
    <3> QED BY <2>1, <3>2 DEF Time
  <2>3. /\ Time("sign") = 0 /\ Time("verify") = 0 /\ Time("total") = 0
        /\ curve = "p256" => Time("sign_init") = 0
        /\ completed = 0
    BY <2>1, <2>2, PhasesOf DEF completed
  <2> QED BY <2>1, <2>3 DEF Fitting, Fits, Divided, Printed, FileSteps
<1>2. IInv /\ Fitting => SharesAreShares
  <2> SUFFICES ASSUME IInv, Fitting, report.printed PROVE SharesAreShares
    BY DEF SharesAreShares
  <2>1. /\ TypeOK /\ curve \in {"ed25519", "p256"}
        /\ Time("sign") \in Nat /\ Time("verify") \in Nat
        /\ Time("total") \in Nat /\ wall \in Nat
        /\ curve = "p256" => Time("sign_init") \in Nat
    BY TimesOfPhases, Constants DEF IInv, TypeOK
  <2>2. /\ Time("sign") + Time("verify") <= Time("total")
        /\ curve = "p256" =>
             Time("sign_init") + Time("sign") + Time("verify") = Time("total")
    BY DEF Fitting, Divided
  <2>3. /\ report.sign_share = Quotient(Time("sign"), Time("total"))
        /\ report.wall = wall /\ Time("total") <= wall
        /\ report.completed > 0
    BY DEF Fitting, Printed
  <2> DEFINE timeless == \A i \in 1 .. Len(ran) :
                           ran[i].start = ran[i].after_verify
  <2>4. Time("total") = 0 <=> timeless
    <3>1. /\ phases["total"] \in Seq(Nat)
          /\ Len(phases["total"]) = Len(ran) /\ Len(ran) = completed
          /\ \A i \in 1 .. Len(ran) :
               /\ ran[i] \in Ordered
               /\ phases["total"][i] = Iteration(ran[i])["total"]
      BY <2>1, TimesOfPhases, ElementOfSeq DEF IInv, Sampled, completed
    <3>2. ASSUME NEW i \in 1 .. Len(ran)
          PROVE  phases["total"][i] = 0 <=> ran[i].start = ran[i].after_verify
      <4>1. PICK m \in Ordered : m = ran[i]
        BY <3>1
      <4>2. m.start \in Nat /\ m.after_verify \in Nat
        BY DEF Ordered, Fields
      <4>3. phases["total"][i] = m.after_verify - m.start
        BY <3>1, <4>1 DEF Iteration
      <4> QED BY <4>1, <4>2, <4>3
    <3>3. Time("total") = 0 <=>
            \A i \in 1 .. Len(ran) : phases["total"][i] = 0
      BY <3>1, SumZero DEF Time
    <3> QED BY <3>2, <3>3
  <2>5. ASSUME timeless PROVE report.sign_share = NaN
    <3>1. Time("sign") = 0 /\ Time("total") = 0
      BY <2>1, <2>2, <2>4, <2>5
    <3> QED BY <2>3, <2>5, <3>1 DEF Quotient
  <2>6. ASSUME ~timeless
        PROVE  /\ report.sign_share # NaN /\ 0 < report.sign_share[2]
               /\ report.sign_share[1] <= report.sign_share[2]
               /\ report.sign_share[2] <= report.wall
    <3>1. report.sign_share = <<Time("sign"), Time("total")>>
      BY <2>3, <2>4, <2>6 DEF Quotient
    <3>2. /\ report.sign_share # NaN
          /\ report.sign_share[1] = Time("sign")
          /\ report.sign_share[2] = Time("total")
      BY <2>1, <3>1, Constants
    <3> QED BY <2>1, <2>2, <2>3, <2>4, <2>6, <3>2
  <2>7. ASSUME report.bar # None
        PROVE  /\ report.bar.unaccounted # NaN
               /\ 0 < report.bar.unaccounted[2]
               /\ 0 <= report.bar.unaccounted[1]
               /\ curve = "p256" => report.bar.unaccounted[1] = 0
    <3>1. PICK t : t = Together
      OBVIOUS
    <3>2. /\ t \in Nat /\ t <= Time("total") /\ 0 < t
          /\ curve = "p256" => t = Time("total")
      <4>1. 0 < t
        BY <2>7, <3>1 DEF Fitting, Printed
      <4>2. CASE curve = "p256"
        <5>1. t = Time("sign_init") + Time("sign") + Time("verify")
          BY <2>1, <3>1, <4>2, TimesOfPhases
        <5> QED BY <2>1, <2>2, <4>1, <4>2, <5>1
      <4>3. CASE curve = "ed25519"
        <5>1. t = Time("sign") + Time("verify")
          BY <2>1, <3>1, <4>3, TimesOfPhases
        <5> QED BY <2>1, <2>2, <4>1, <4>3, <5>1
      <4> QED BY <2>1, <4>2, <4>3
    <3>3. report.bar.unaccounted = <<Time("total") - t, Time("total")>>
      BY <2>1, <2>7, <3>1, <3>2 DEF Fitting, Printed, Quotient
    <3>4. /\ report.bar.unaccounted # NaN
          /\ report.bar.unaccounted[1] = Time("total") - t
          /\ report.bar.unaccounted[2] = Time("total")
      BY <2>1, <3>2, <3>3, Constants
    <3> QED BY <2>1, <3>2, <3>4
  <2> QED BY <2>3, <2>5, <2>6, <2>7 DEF SharesAreShares
<1>3. IInv /\ Fitting /\ [Next]_vars => Fitting'
  BY FittingInvariant
<1> QED BY <1>1, <1>2, <1>3, Invariance, PTL DEF Spec
=============================================================================
