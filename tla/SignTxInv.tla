----------------------------- MODULE SignTxInv ------------------------------
(***************************************************************************)
(* The inductive invariant of SignTx: what is true at each point of the    *)
(* program, by subject. TLC checks that it is an invariant, SignTxProofs   *)
(* that it is inductive and implies the properties. At the end is a variant *)
(* that says how much of a run is ahead.                                   *)
(***************************************************************************)
EXTENDS SignTx

Unprovisioned == {"parse", "load", "slot", "open", "login",
                  "find_private", "find_public", "generate"}
Connected == SelfTestSteps \cup RunSteps
OnceSteps == {"once_init", "once_sign", "once_verify"}
NewKeys   == [private |-> [pair |-> NewPair, class |-> "private"],
              public  |-> [pair |-> NewPair, class |-> "public"]]

(* Sessions nest in the initialized module, and calls in the session.      *)
SessionInv ==
  /\ pc \in {"parse", "load"} => module = "unloaded" /\ session = "none"
  /\ pc \in {"slot", "open"} => module = "initialized" /\ session = "none"
  /\ pc \in (ConnectSteps \ {"slot", "open"}) \cup Connected
              \cup (DropSteps \ {"finalize"})
       => module = "initialized" /\ session = "open"
  /\ pc = "finalize" => module = "initialized" /\ session # "open"
  /\ pc = "done" => module # "initialized" /\ session # "open"
  /\ module = "finalized" => session # "open"

(* Whose the handles are.                                                  *)
KeyInv ==
  /\ pc \in Unprovisioned => ~owns
  /\ owns => keys = NewKeys
  /\ pc \in {"destroy_private", "destroy_public"} => owns
  /\ pc \in {"find_public", "public_key"} \cup Connected => keys.private \in Object
  /\ pc \in Connected => vk \in Pair
  /\ pc \in RunSteps => keys.private.pair = vk

(* What becomes of the generated objects.                                  *)
CustodyInv ==
  /\ CallerObjects \subseteq store
  /\ ~owns /\ pc \in Unprovisioned \cup {"public_key"}
       => NewObjects \cap store = {} /\ abandoned = {}
  /\ owns /\ pc \in {"public_key", "cleanup", "destroy_private"} \cup Connected
       => NewObjects \subseteq store /\ abandoned = {}
  /\ pc = "destroy_public" => keys.public \in store \ abandoned
  /\ ~owns => NewObjects \cap store \subseteq abandoned
  /\ pc \in {"close", "finalize", "done"} => NewObjects \cap store \subseteq abandoned
  /\ pc = "destroy_public" => NewObjects \cap store \subseteq abandoned \cup {keys.public}

(* Which operation is active.                                              *)
OperationInv ==
  /\ pc \in Unprovisioned \cup {"public_key", "test_init"} => operation = "idle"
  /\ pc \in {"test_sign", "once_sign"} => operation = Operation(cfg.curve)
  /\ pc \in {"test_verify"} \cup (RunSteps \ {"once_sign"})
       => operation = IF cfg.curve = "ed25519" THEN "message" ELSE "idle"

(* What the buffer may hold.                                               *)
BufferInv ==
  /\ buf.message \in signed \cup {Probe}
  /\ pc = "test_sign" => buf = NoSignature /\ msg = Probe
  /\ pc = "test_verify" =>
       /\ buf \in {NoSignature, Signature(keys.private.pair, msg)}
       /\ msg = Probe
  /\ pc = "once_verify" => msg \in signed

(* Which subcommand is running.                                            *)
ModeInv ==
  /\ pc \in {"register_sigint", "register_sigterm", "warmup", "measure",
             "report", "write"} => cfg.mode = "benchmark"
  /\ pc = "emit" => cfg.mode = "single"
  /\ pc \in OnceSteps =>
       \/ caller = "single" /\ cfg.mode = "single"
       \/ caller \in {"warmup", "measure"} /\ cfg.mode = "benchmark"

Warmup  == pc = "warmup" \/ (pc \in OnceSteps /\ caller = "warmup")
Measuring == pc = "measure" \/ (pc \in OnceSteps /\ caller = "measure")

Rehearsals == {Probe} \cup 0 .. WarmupCount - 1

(* Which messages the token has seen, and which is next.                   *)
MessageInv ==
  /\ pc \in Unprovisioned \cup SelfTestSteps
       \cup {"public_key", "connected", "register_sigint", "register_sigterm"}
       => signed \subseteq {Probe} /\ index = 0 /\ samples = << >>
  /\ Warmup => signed \subseteq Rehearsals /\ samples = << >>
  /\ pc \in OnceSteps /\ caller = "warmup" => msg \in 0 .. WarmupCount - 1
  /\ pc \in OnceSteps /\ caller = "single" => samples = << >> /\ msg = 0
  /\ pc \in {"once_init", "once_sign"} /\ caller = "single" => signed \subseteq {Probe}
  /\ Measuring =>
       /\ index = WarmupCount + Len(samples)
       /\ index <= TotalMessages
       /\ signed \subseteq {Probe} \cup
            (IF pc = "once_verify" THEN 0 .. index ELSE 0 .. index - 1)
  /\ pc \in OnceSteps /\ caller = "measure" => msg = index /\ index < TotalMessages

(* What has been kept and printed.                                         *)
OutputInv ==
  /\ cfg.mode = "benchmark" =>
       \A i \in 1 .. Len(samples) : samples[i] = WarmupCount + i - 1
  /\ pc = "report" => Len(samples) = cfg.iterations \/ interrupted
  /\ published => pc \in {"write"} \cup DropSteps \cup Exits
  /\ published /\ cfg.mode = "benchmark" =>
       samples # << >> /\ (Len(samples) = cfg.iterations \/ interrupted)
  /\ pc = "write" => published
  /\ pc = "emit" => samples # << >>
  /\ result = "ok" => published
  /\ result # "pending" => pc \in DropSteps \cup Exits

(* Where a signal may find its handler registered.                         *)
Leaving       == {"report", "write", "emit"} \cup DropSteps \cup Exits
Interruptible == {"register_sigterm", "warmup", "measure"}
                   \cup OnceSteps \cup Leaving

(* Is a message in the hands of sign_once?                                 *)
InFlight == IF pc \in OnceSteps THEN 1 ELSE 0

(* Where the flag can be set, and how far the warmup can be.               *)
ProgressInv ==
  /\ interrupted => handlers # {}
  /\ handlers # {} => pc \in Interruptible
  /\ Warmup => index + InFlight <= MaxWarmup

(* The inductive invariant: every step of the code keeps all of the above  *)
(* together.                                                               *)
IInv ==
  /\ TypeOK /\ SessionInv /\ KeyInv /\ CustodyInv /\ OperationInv
  /\ BufferInv /\ ModeInv /\ MessageInv /\ OutputInv /\ ProgressInv

-----------------------------------------------------------------------------
(* How much is ahead.                                                      *)

(* How many steps the program takes before it has exited, if no iteration  *)
(* begins after the one it is in.                                          *)
Left ==
  CASE pc \in Exits -> 0
    [] pc = "finalize" -> 1
    [] pc = "close" -> 2
    [] pc = "destroy_public" -> 3
    [] pc = "destroy_private" -> 4
    [] pc = "cleanup" -> 5
    [] pc \in {"write", "emit"} -> 6
    [] pc = "report" -> 7
    [] pc = "measure" -> 8
    [] pc = "warmup" -> 9
    [] pc \in {"once_verify", "register_sigterm"} -> 10
    [] pc \in {"once_sign", "register_sigint"} -> 11
    [] pc = "once_init" -> 12
    [] pc = "connected" -> 13
    [] pc = "test_verify" -> 14
    [] pc = "test_sign" -> 15
    [] pc = "test_init" -> 16
    [] pc = "public_key" -> 17
    [] pc \in {"find_public", "generate"} -> 18
    [] pc = "find_private" -> 19
    [] pc = "login" -> 20
    [] pc = "open" -> 21
    [] pc = "slot" -> 22
    [] pc = "load" -> 23
    [] pc = "parse" -> 24

(* How many iterations of the two loops may still begin.                   *)
Rounds ==
  IF cfg.mode = "single" \/ pc \in Leaving THEN 0
  ELSE IF Measuring THEN TotalMessages - index - InFlight
  ELSE MaxWarmup + cfg.iterations - index - InFlight

(* An iteration is three steps and those of its loop's head: a bound on    *)
(* the steps of the rest of the run.                                       *)
Ahead == Left + 5 * Rounds
=============================================================================
