---------------------------- MODULE Measurement -----------------------------
(***************************************************************************)
(* What a run of sign-tx promises to the reader of its figures (README.md, *)
(* "Benchmark methodology"; run.rs:197-199, 288-290): every sample is the  *)
(* signing of a message the token had not seen before, recorded once and   *)
(* in the order of signing; nothing is recorded after a failure; and only  *)
(* a run without failures is published, with at least one sample.          *)
(***************************************************************************)
EXTENDS Naturals, Sequences

CONSTANT None   \* no message in flight

VARIABLES
  used,      \* the messages the token has seen
  inflight,  \* the fresh message signed and not yet verified, or None
  log,       \* the samples
  stage      \* "open", "published", "aborted"

measurement == <<used, inflight, log, stage>>

Init ==
  /\ used = {} /\ inflight = None /\ log = << >> /\ stage = "open"

(* The self-test and the warmup may sign a message again and again.        *)
Rehearse(m) ==
  /\ inflight = None /\ log = << >>
  /\ used' = used \cup {m}
  /\ UNCHANGED <<inflight, log, stage>>

Sign(m) ==
  /\ inflight = None
  /\ m \notin used
  /\ used' = used \cup {m}
  /\ inflight' = m
  /\ UNCHANGED <<log, stage>>

Record ==
  /\ inflight # None
  /\ log' = Append(log, inflight)
  /\ inflight' = None
  /\ UNCHANGED <<used, stage>>

Publish ==
  /\ inflight = None /\ log # << >>
  /\ stage' = "published"
  /\ UNCHANGED <<used, inflight, log>>

(* A failure, possibly of a signing call that was under way.               *)
Abort ==
  /\ stage' = "aborted"
  /\ \/ used' = used
     \/ \E m \in used' : used' = used \cup {m}
  /\ inflight' = None
  /\ UNCHANGED log

(* Any message may be next: it is then one the token has seen.             *)
Next ==
  /\ stage = "open"
  /\ \/ \E m \in used' : Rehearse(m) \/ Sign(m)
     \/ Record \/ Publish \/ Abort

Spec == Init /\ [][Next]_measurement
=============================================================================
