------------------------------- MODULE Pkcs11 -------------------------------
(***************************************************************************)
(* Raw PKCS#11 access: the Module and Session of src/src/pkcs11.rs, and    *)
(* the token behind them (the PKCS#11 provider and its KMS), which is      *)
(* external and modelled from how the wrappers use it.                     *)
(*                                                                         *)
(* Every wrapper is an operator over the token's variables with the value  *)
(* it returns as last argument: "ok", or "err" when the function is        *)
(* missing from the function list or answers something else than CKR_OK.   *)
(* The modules that call the wrappers conjoin them with their own steps.   *)
(***************************************************************************)
EXTENDS Naturals

CONSTANTS
  CallerPairs,   \* key pairs provisioned out of band (ckms, another run)
  NewPair,       \* the pair C_GenerateKeyPair creates for this run
  NoPair,        \* no pair: what an unusable signature was made with
  NoHandle,      \* the null object handle 0
  Probe,         \* the message of the setup self-test
  MayFail,       \* the calls that may fail for reasons of the environment
  SignFaults,    \* ways a signing call may answer CKR_OK and yet misbehave
  LaxSearch      \* does an object search ignore CKA_ID?

Pair   == CallerPairs \cup {NewPair}
Class  == {"private", "public"}
Object == [pair : Pair, class : Class]
Curve  == {"ed25519", "p256"}

(* The generated pair is new, and the null values are none of the others.  *)
ASSUME PairAssumption ==
  /\ NewPair \notin CallerPairs
  /\ NoPair \notin Pair
  /\ NoHandle \notin Object
  /\ Probe \notin Nat
  /\ LaxSearch \in BOOLEAN
  /\ SignFaults \subseteq {"stale", "short", "long"}

VARIABLES
  module,      \* the shared object: "unloaded", "initialized", "finalized"
  session,     \* the session of this run: "none", "open", "closed"
  operation,   \* the signing operation active in it
  store        \* the key objects held by the token

tokenVars == <<module, session, operation, store>>

CallerObjects == [pair : CallerPairs, class : Class]
NewObjects    == [pair : {NewPair}, class : Class]

Pkcs11Init ==
  /\ module = "unloaded"
  /\ session = "none"
  /\ operation = "idle"
  /\ store = CallerObjects

(* A call may always succeed; it may fail where the environment lets it.   *)
Answers(call) == {"ok"} \cup {rv \in {"err"} : call \in MayFail}

-----------------------------------------------------------------------------
(* Key objects.                                                            *)

(* find_one: the handles the token may answer with, NoHandle for no match. *)
(* Only the first hit is fetched; a token need not expose an object it     *)
(* holds, a public key least of all.                                       *)
Matches(id, class) ==
  LET hits == {o \in store : o.class = class /\ (LaxSearch \/ o.pair = id)}
  IN  hits \cup {none \in {NoHandle} : hits = {} \/ "expose" \in MayFail}

(* generate_key; "lost" is a pair that was created though the call failed. *)
generate_key(rv) ==
  /\ \/ rv \in Answers("generate_key")
     \/ rv = "lost" /\ "generate_reply" \in MayFail
  /\ store' = IF rv = "err" THEN store ELSE store \cup NewObjects
  /\ UNCHANGED <<module, session, operation>>

(* destroy: a handle that names no object is refused.                      *)
destroy(handle, rv) ==
  /\ IF handle \in store THEN rv \in Answers("destroy") ELSE rv = "err"
  /\ store' = IF rv = "ok" THEN store \ {handle} ELSE store
  /\ UNCHANGED <<module, session, operation>>

-----------------------------------------------------------------------------
(* Signing.                                                                *)

(* The operation sign_init starts: the message flow of PKCS#11 v3 for      *)
(* Ed25519, the classic one for P-256.                                     *)
Operation(curve) == IF curve = "ed25519" THEN "message" ELSE "sign"

sign_init(curve, rv) ==
  /\ IF operation = "idle" THEN rv \in Answers("sign_init") ELSE rv = "err"
  /\ operation' = IF rv = "ok" THEN Operation(curve) ELSE operation
  /\ UNCHANGED <<module, session, store>>

(* A signature names the pair that made it and the message it is over.     *)
Signature(pair, message) == [pair |-> pair, message |-> message]
NoSignature == Signature(NoPair, Probe)

(* sign_into, by what it hands back:                                       *)
(*   "genuine" the signature asked for, "stale" CKR_OK with nothing        *)
(*   written, "short" and "long" a length below or above the curve's,      *)
(*   "err" a refusal.                                                      *)
(* C_Sign ends the operation, unless it refuses for lack of room;          *)
(* C_SignMessage leaves it active.                                         *)
sign_into(curve, rv) ==
  /\ IF operation = Operation(curve)
     THEN rv \in {"genuine"} \cup SignFaults \cup (Answers("sign_into") \ {"ok"})
     ELSE rv = "err"
  /\ \/ operation' = operation /\ (curve = "ed25519" \/ rv = "err")
     \/ operation' = "idle"    /\ curve = "p256" /\ operation = "sign"
  /\ UNCHANGED <<module, session, store>>

(* What the caller's buffer holds afterwards. A short or long answer need  *)
(* not leave a whole signature in it.                                      *)
Written(rv, pair, message, buffer) ==
  CASE rv = "genuine" -> {Signature(pair, message)}
    [] rv = "short"   -> {NoSignature}
    [] rv = "long"    -> {Signature(pair, message), NoSignature}
    [] OTHER          -> {buffer}

message_sign_final(rv) ==
  /\ IF operation = "message"
     THEN rv \in Answers("message_sign_final") ELSE rv = "err"
  /\ operation' = IF rv = "ok" THEN "idle" ELSE operation
  /\ UNCHANGED <<module, session, store>>

-----------------------------------------------------------------------------
(* Life cycle.                                                             *)

(* Module::load: dlopen, C_GetInterface, C_Initialize. A failure drops the *)
(* library again, and C_Finalize with it only once initialized.            *)
load(rv) ==
  /\ rv \in Answers("load")
  /\ module' = IF rv = "ok" THEN "initialized" ELSE module
  /\ UNCHANGED <<session, operation, store>>

open_session(rv) ==
  /\ rv \in Answers("open_session")
  /\ session' = IF rv = "ok" THEN "open" ELSE session
  /\ UNCHANGED <<module, operation, store>>

(* Session::drop; the handle is gone whatever C_CloseSession answers.      *)
close_session ==
  /\ session' = "closed"
  /\ operation' = "idle"
  /\ UNCHANGED <<module, store>>

(* Module::drop.                                                           *)
finalize ==
  /\ module' = "finalized"
  /\ UNCHANGED <<session, operation, store>>

Pkcs11TypeOK ==
  /\ module \in {"unloaded", "initialized", "finalized"}
  /\ session \in {"none", "open", "closed"}
  /\ operation \in {"idle", "message", "sign"}
  /\ store \subseteq Object
=============================================================================
