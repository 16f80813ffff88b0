------------------------------- MODULE SignTx -------------------------------
(***************************************************************************)
(* The program sign-tx: main (src/src/main.rs) and the two subcommands of  *)
(* src/src/run.rs, composed with Signer and the token, and the signals an  *)
(* operator may send. One thread runs the program; a signal arrives        *)
(* between any two of its steps.                                           *)
(*                                                                         *)
(* Messages are numbered: a benchmark pre-generates messages               *)
(* 0 .. TotalMessages-1, all different, the first WarmupCount of them for  *)
(* the warmup; a single run signs message 0.                               *)
(***************************************************************************)
EXTENDS Signer, Sequences

CONSTANTS
  Signals,     \* the signals that may be sent
  MaxWarmup    \* bound on the warmup iterations a warmup_time leads to

ASSUME RunAssumption ==
  /\ Signals \subseteq {"SIGINT", "SIGTERM"}
  /\ MaxWarmup \in Nat
  /\ \A c \in Configs : c.warmup <= MaxWarmup

VARIABLES
  handlers,     \* the signals with signal_hook's flag registered
  interrupted,  \* the flag
  caller,       \* who is in sign_once: "none", "single", "warmup", "measure"
  index,        \* warmup_index, then the position in messages
  elapsed,      \* the clock of the warmup, stopped at warmup_time
  samples,      \* the messages whose iteration was kept
  published     \* has the report, or the transaction, been printed?

signalVars == <<handlers, interrupted>>
loopVars   == <<index, elapsed, samples>>
runVars    == <<signalVars, caller, loopVars, published>>
vars       == <<tokenVars, signerVars, runVars>>

Init ==
  /\ Pkcs11Init
  /\ SignerInit
  /\ handlers = {}
  /\ interrupted = FALSE
  /\ caller = "none"
  /\ index = 0
  /\ elapsed = 0
  /\ samples = << >>
  /\ published = FALSE

-----------------------------------------------------------------------------
(* main                                                                    *)

(* Everything main checks before it loads the module.                      *)
ParseArgs ==
  /\ pc = "parse"
  /\ \/ /\ cfg.mode = "single" \/ cfg.iterations > 0
        /\ Goto("load")
     \/ /\ \/ cfg.mode = "benchmark" /\ cfg.iterations = 0
           \/ "arguments" \in MayFail
        /\ Fail("done")
  /\ UNCHANGED <<tokenVars, cfg, keyVars, signVars, runVars>>

Load ==
  /\ pc = "load"
  /\ \/ load("ok")  /\ Goto("slot")
     \/ load("err") /\ Fail("done")
  /\ UNCHANGED <<cfg, keyVars, signVars, runVars>>

-----------------------------------------------------------------------------
(* run_benchmark                                                           *)

WarmupTarget == IF cfg.warmup_time = 0 THEN 0 ELSE 1
WarmupCount  == IF cfg.warmup > WarmupTarget THEN cfg.warmup ELSE WarmupTarget
TotalMessages == WarmupCount + cfg.iterations

(* The messages and the header; the module's info may be refused.          *)
Prepare ==
  /\ pc = "connected" /\ cfg.mode = "benchmark"
  /\ \/ Goto("register_sigint")
     \/ "info" \in MayFail /\ Fail("cleanup")
  /\ UNCHANGED <<tokenVars, cfg, keyVars, signVars, runVars>>

Register(signal, next) ==
  /\ \/ Goto(next) /\ handlers' = handlers \cup {signal}
     \/ "register" \in MayFail /\ Fail("cleanup") /\ UNCHANGED handlers
  /\ UNCHANGED <<tokenVars, cfg, keyVars, signVars,
                 interrupted, caller, loopVars, published>>

RegisterSigint == pc = "register_sigint" /\ Register("SIGINT", "register_sigterm")

(* Then the buffer is allocated and the warmup's clock starts.             *)
RegisterSigterm ==
  /\ pc = "register_sigterm"
  /\ Register("SIGTERM", "warmup")

(* Mutant: a loop that does not look at the flag.                          *)
FlagIgnored == FALSE

(* interrupted.load(), at the head of both loops.                          *)
FlagSeen == interrupted

WarmupGoesOn == index < cfg.warmup \/ elapsed < cfg.warmup_time

(* A loop head hands a message to sign_once.                               *)
Hand(who, message, signature) ==
  /\ caller' = who
  /\ msg' = message
  /\ buf' = signature
  /\ Goto("once_init")
  /\ UNCHANGED <<tokenVars, cfg, keyVars, signed, signalVars, loopVars, published>>

WarmupSign ==
  /\ pc = "warmup" /\ WarmupGoesOn /\ ~FlagSeen
  /\ index < MaxWarmup
  /\ Hand("warmup", index % WarmupCount, IF index = 0 THEN NoSignature ELSE buf)

WarmupInterrupted ==
  /\ pc = "warmup" /\ WarmupGoesOn /\ FlagSeen
  /\ Fail("cleanup")
  /\ UNCHANGED <<tokenVars, cfg, keyVars, signVars, runVars>>

(* Mutant: skip(options.warmup).                                           *)
WarmupDoneSkipsMinimum ==
  /\ pc = "warmup" /\ ~WarmupGoesOn
  /\ index' = cfg.warmup
  /\ Goto("measure")
  /\ UNCHANGED <<tokenVars, cfg, keyVars, signVars,
                 signalVars, caller, elapsed, samples, published>>

(* messages.iter().skip(warmup_message_count)                              *)
WarmupDone ==
  /\ pc = "warmup" /\ ~WarmupGoesOn
  /\ index' = WarmupCount
  /\ Goto("measure")
  /\ UNCHANGED <<tokenVars, cfg, keyVars, signVars,
                 signalVars, caller, elapsed, samples, published>>

(* Without a warmup this is the first use of the buffer.                   *)
MeasureSign ==
  /\ pc = "measure" /\ index < TotalMessages /\ ~FlagSeen
  /\ Hand("measure", index, IF index = 0 THEN NoSignature ELSE buf)

MeasureDone ==
  /\ pc = "measure" /\ (index = TotalMessages \/ FlagSeen)
  /\ Goto("report")
  /\ UNCHANGED <<tokenVars, cfg, keyVars, signVars, runVars>>

(* Mutant: no iterations are as good as any.                               *)
ReportEmpty ==
  /\ pc = "report"
  /\ Goto("write") /\ published' = TRUE
  /\ UNCHANGED <<tokenVars, cfg, keyVars, signVars,
                 signalVars, caller, loopVars>>

Report ==
  /\ pc = "report"
  /\ IF samples = << >>
     THEN Fail("cleanup") /\ UNCHANGED published
     ELSE Goto("write") /\ published' = TRUE
  /\ UNCHANGED <<tokenVars, cfg, keyVars, signVars,
                 signalVars, caller, loopVars>>

(* --output and --chart. The run is a success, interrupted or not.         *)
WriteFiles ==
  /\ pc = "write"
  /\ pc' = "cleanup"
  /\ result' \in Answers("write")
  /\ UNCHANGED <<tokenVars, cfg, keyVars, signVars, runVars>>

-----------------------------------------------------------------------------
(* run_single                                                              *)

SingleSign ==
  /\ pc = "connected" /\ cfg.mode = "single"
  /\ Hand("single", 0, NoSignature)

Emit ==
  /\ pc = "emit"
  /\ published' = TRUE
  /\ pc' = "cleanup" /\ result' = "ok"
  /\ UNCHANGED <<tokenVars, cfg, keyVars, signVars,
                 signalVars, caller, loopVars>>

-----------------------------------------------------------------------------
(* sign_once                                                               *)

OnceInit ==
  /\ pc = "once_init"
  /\ IF cfg.curve = "ed25519"
     THEN Goto("once_sign") /\ UNCHANGED tokenVars
     ELSE \/ sign_init(cfg.curve, "ok")  /\ Goto("once_sign")
          \/ sign_init(cfg.curve, "err") /\ Fail("cleanup")
  /\ UNCHANGED <<cfg, keyVars, signVars, runVars>>

(* A length above the buffer's is an error for Ed25519; for P-256 the      *)
(* slice &signature[..len] panics, and the stack unwinds.                  *)
OnceSign ==
  /\ pc = "once_sign"
  /\ \E rv \in {"genuine", "stale", "short", "long", "err"} :
       /\ sign_into(cfg.curve, rv)
       /\ buf' \in Written(rv, keys.private.pair, msg, buf)
       /\ IF rv = "err" \/ (cfg.curve = "ed25519" /\ rv \in {"short", "long"})
          THEN Fail("cleanup")
          ELSE IF rv = "long"
          THEN pc' = "cleanup" /\ result' = "panic"
          ELSE Goto("once_verify")
  /\ signed' = signed \cup {msg}
  /\ UNCHANGED <<cfg, keyVars, msg, runVars>>

(* After verify, sign_once returns to the loop that called it: the warmup  *)
(* counts, the measurement keeps the sample, run_single emits.             *)
Return ==
  /\ Goto(IF caller = "single" THEN "emit" ELSE caller)
  /\ index' = IF caller = "single" THEN index ELSE index + 1
  /\ samples' = IF caller = "warmup" THEN samples ELSE Append(samples, msg)
  /\ caller' = "none"

(* Mutants: every answer is kept; a failed iteration is skipped; a failed  *)
(* iteration is tried again.                                               *)
OnceKeepsAnything ==
  /\ pc = "once_verify"
  /\ Return
  /\ UNCHANGED <<tokenVars, cfg, keyVars, signVars,
                 signalVars, elapsed, published>>

OnceSkips ==
  /\ pc = "once_verify"
  /\ IF Verifies(msg, buf)
     THEN Return
     ELSE Goto(IF caller = "single" THEN "emit" ELSE caller)
          /\ index' = index + 1 /\ caller' = "none" /\ UNCHANGED samples
  /\ UNCHANGED <<tokenVars, cfg, keyVars, signVars,
                 signalVars, elapsed, published>>

OnceRetries ==
  /\ pc = "once_verify"
  /\ IF Verifies(msg, buf)
     THEN Return
     ELSE Goto("once_init") /\ UNCHANGED <<caller, index, samples>>
  /\ UNCHANGED <<tokenVars, cfg, keyVars, signVars,
                 signalVars, elapsed, published>>

(* The first failure ends the run.                                         *)
OnceVerify ==
  /\ pc = "once_verify"
  /\ IF Verifies(msg, buf)
     THEN Return
     ELSE Fail("cleanup") /\ UNCHANGED <<caller, index, samples>>
  /\ UNCHANGED <<tokenVars, cfg, keyVars, signVars,
                 signalVars, elapsed, published>>

-----------------------------------------------------------------------------
(* The environment.                                                        *)

(* A registered signal sets the flag; any other one ends the process, and  *)
(* nothing is dropped.                                                     *)
Signal(s) ==
  /\ pc \notin {"done", "killed"}
  /\ IF s \in handlers
     THEN interrupted' = TRUE /\ UNCHANGED pc
     ELSE pc' = "killed" /\ UNCHANGED interrupted
  /\ UNCHANGED <<tokenVars, cfg, result, keyVars, signVars,
                 handlers, caller, loopVars, published>>

(* The warmup's clock.                                                     *)
Warming == pc = "warmup" \/ caller = "warmup"

Tick ==
  /\ Warming /\ pc \notin {"done", "killed"}
  /\ elapsed < cfg.warmup_time
  /\ elapsed' = elapsed + 1
  /\ UNCHANGED <<tokenVars, signerVars,
                 signalVars, caller, index, samples, published>>

Terminated == pc \in {"done", "killed"} /\ UNCHANGED vars

Once == OnceInit \/ OnceSign \/ OnceVerify

Benchmark ==
  \/ Prepare \/ RegisterSigint \/ RegisterSigterm
  \/ WarmupSign \/ WarmupInterrupted \/ WarmupDone
  \/ MeasureSign \/ MeasureDone \/ Report \/ WriteFiles

Step ==
  \/ ParseArgs \/ Load
  \/ Connect /\ UNCHANGED runVars
  \/ Benchmark \/ SingleSign \/ Emit \/ Once
  \/ Drop /\ UNCHANGED runVars

Next == Step \/ (\E s \in Signals : Signal(s)) \/ Tick \/ Terminated

(* main exits its single thread's work: each call to the token returns.    *)
Spec == Init /\ [][Next]_vars /\ WF_vars(Step)

-----------------------------------------------------------------------------
(* Where the program may be.                                               *)

ConnectSteps == {"slot", "open", "login", "find_private", "find_public",
                 "generate", "public_key"}
SelfTestSteps == {"test_init", "test_sign", "test_verify"}
RunSteps == {"connected", "register_sigint", "register_sigterm", "warmup",
             "measure", "report", "write", "emit",
             "once_init", "once_sign", "once_verify"}
DropSteps == {"cleanup", "destroy_private", "destroy_public", "close", "finalize"}
Exits == {"done", "killed"}
Steps == {"parse", "load"} \cup ConnectSteps \cup SelfTestSteps
           \cup RunSteps \cup DropSteps \cup Exits

(* Every variable stays in its range.                                      *)
TypeOK ==
  /\ Pkcs11TypeOK
  /\ SignerTypeOK
  /\ pc \in Steps
  /\ handlers \subseteq {"SIGINT", "SIGTERM"}
  /\ interrupted \in BOOLEAN
  /\ caller \in {"none", "single", "warmup", "measure"}
  /\ index \in Nat
  /\ elapsed \in Nat
  /\ samples \in Seq(Message)
  /\ published \in BOOLEAN

-----------------------------------------------------------------------------
(* Safety.                                                                 *)

(* "a key supplied via --key-id belongs to the caller and is left alone"   *)
(* (signer.rs:44-45), whatever the search answered with and whichever      *)
(* call failed.                                                            *)
CallerKeysSurvive == CallerObjects \subseteq store

(* Once connected, the private key signs for the public key signatures are *)
(* verified with: of a mismatched --public-key, or a search that answered  *)
(* with somebody else's object, only the self-test tells.                  *)
SignerAgrees == pc \in RunSteps => keys.private.pair = vk

(* The two signing flows: C_SignInit is called with no operation active,   *)
(* C_Sign and C_SignMessage with the one of the curve; the message flow of *)
(* the self-test is the one every later iteration uses.                    *)
OperationDiscipline ==
  /\ pc = "test_init" \/ (pc = "once_init" /\ cfg.curve = "p256")
       => operation = "idle"
  /\ pc \in {"test_sign", "once_sign"} => operation = Operation(cfg.curve)

(* A measured iteration hands the token a message it has not seen, and a   *)
(* buffer that does not hold the answer already: a token that answers      *)
(* CKR_OK without signing cannot produce a sample (run.rs:197-199).        *)
FreshPayload ==
  pc \in {"once_init", "once_sign"} /\ caller = "measure" =>
    /\ msg \notin signed
    /\ ~Verifies(msg, buf)

(* Every exit but a kill has closed the session, and finalized the module  *)
(* after it; a module that was never initialized is not finalized.         *)
TornDown ==
  /\ pc = "done" => session # "open" /\ module # "initialized"
  /\ module = "finalized" => session # "open"
  /\ pc = "finalize" => module = "initialized"

(* At a normal exit the only generated objects left are those the program  *)
(* was told it could not have, or not destroy: no error, panic or signal   *)
(* that is handled leaves another one.                                     *)
GeneratedKeyAccounted == pc = "done" => NewObjects \cap store \subseteq abandoned

(* Samples are the measured messages in order, none skipped, none retried; *)
(* a published benchmark has all of them or was interrupted; and main is   *)
(* successful only when it has published.                                  *)
PublishedRunIsComplete ==
  /\ cfg.mode = "benchmark" =>
       samples = [i \in 1 .. Len(samples) |-> WarmupCount + i - 1]
  /\ published /\ cfg.mode = "benchmark" =>
       /\ samples # << >>
       /\ Len(samples) = cfg.iterations \/ interrupted
  /\ result = "ok" => published

(* Action property: what is kept is a signature of the private key over    *)
(* the iteration's own message, whatever the token answered with.          *)
KeepsGenuine ==
  samples' # samples =>
    /\ samples' = Append(samples, msg)
    /\ buf = Signature(keys.private.pair, msg)
    /\ msg \in signed

OutputIsGenuine == [][KeepsGenuine]_vars

-----------------------------------------------------------------------------
(* Liveness.                                                               *)

(* If every call returns, and if time passes, the program ends: a run      *)
(* warms up for warmup_time, however short its iterations (run.rs:216).    *)
Termination == WF_vars(Tick) => <>(pc \in Exits)

(* An interrupt ends the run even if the warmup's clock were to stand      *)
(* still: each iteration looks at the flag.                                *)
InterruptEndsRun == interrupted ~> pc \in Exits

-----------------------------------------------------------------------------
(* What the components promise, and how a run keeps it.                    *)

Custody == INSTANCE KeyCustody WITH
  Fresh    <- NewObjects,
  Foreign  <- CallerObjects,
  mine     <- store \cap NewObjects,
  others   <- store \ NewObjects,
  disowned <- abandoned,
  state    <- IF pc = "done" THEN "exited"
              ELSE IF pc = "killed" THEN "killed" ELSE "running"

(* The run is an implementation of KeyCustody: see there for the promise   *)
(* of Signer (signer.rs:222-244).                                          *)
KeepsCustody == Custody!Spec

Measure == INSTANCE Measurement WITH
  None     <- Probe,
  used     <- signed,
  inflight <- IF pc = "once_verify" /\ caller \in {"single", "measure"}
              THEN msg ELSE Probe,
  log      <- samples,
  stage    <- IF published THEN "published"
              ELSE IF result \in {"err", "panic"} \/ pc = "killed" THEN "aborted"
              ELSE "open"

(* The run is an implementation of Measurement: see there for the promise  *)
(* of run_benchmark and run_single (run.rs:95-338).                        *)
KeepsMeasurement == Measure!Spec

-----------------------------------------------------------------------------
(* What the README says.                                                   *)

(* README.md:77-80: each run generates a fresh key "and destroys it on     *)
(* exit, including on SIGINT/SIGTERM".                                     *)
DestroyedOnExit   == pc = "done"   => NewObjects \cap store = {}
DestroyedOnSignal == pc = "killed" => NewObjects \cap store = {}

(* README.md:115-118: "Each varies its recent blockhash, making every      *)
(* payload unique - defeating any caching in the module or the KMS".       *)
PayloadsUnique == pc = "once_sign" => msg \notin signed
=============================================================================
