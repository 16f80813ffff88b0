------------------------------- MODULE Signer -------------------------------
(***************************************************************************)
(* Key provisioning, the setup self-test and the clean-up of               *)
(* src/src/signer.rs, on top of the session of Pkcs11. One action per call *)
(* to the token: between any two of them a signal may arrive or the other  *)
(* side may change.                                                        *)
(*                                                                         *)
(* pc names the next call. An error unwinds: the values built so far are   *)
(* dropped, innermost first, so it continues at "cleanup" (Signer::drop)   *)
(* once a Signer exists, at "close" (Session::drop) while connect has only *)
(* a session, and at "finalize" (Module::drop) before that.                *)
(***************************************************************************)
EXTENDS Pkcs11

CONSTANTS
  Configs,   \* the command lines and environments a run may be given
  NoDer,     \* no --public-key
  BadDer     \* a --public-key that is no SubjectPublicKeyInfo of the curve

(* SignerConfig, with the options of the two subcommands. An existing key  *)
(* is named by its pair, a --public-key by the pair it belongs to.         *)
Config == [mode        : {"single", "benchmark"},
           curve       : Curve,
           key_id      : CallerPairs \cup {NoPair},
           pin         : BOOLEAN,
           der         : CallerPairs \cup {NoDer, BadDer},
           iterations  : Nat,
           warmup      : Nat,
           warmup_time : Nat]

ASSUME ConfigAssumption ==
  /\ Configs \subseteq Config
  /\ {NoDer, BadDer} \cap Pair = {}
  /\ NoDer # BadDer

VARIABLES
  cfg,       \* the configuration, fixed for the run
  pc,        \* the next call
  result,    \* what main returns: "pending", "ok", "err", "panic"
  keys,      \* Signer::keys, the handles in use
  owns,      \* Signer::owns_key
  vk,        \* Signer::verifying_key, as the pair it belongs to
  msg,       \* the message being signed
  buf,       \* the signature handed to verify
  signed,    \* history: the messages submitted to the token
  abandoned  \* history: generated objects the program gave up destroying

keyVars    == <<keys, owns, vk, abandoned>>
signVars   == <<msg, buf, signed>>
signerVars == <<cfg, pc, result, keyVars, signVars>>

Message == Nat \cup {Probe}
Sigs    == [pair : Pair \cup {NoPair}, message : Message]
Handle  == Object \cup {NoHandle}

SignerInit ==
  /\ cfg \in Configs
  /\ pc = "parse"
  /\ result = "pending"
  /\ keys = [private |-> NoHandle, public |-> NoHandle]
  /\ owns = FALSE
  /\ vk = NoPair
  /\ msg = Probe
  /\ buf = NoSignature
  /\ signed = {}
  /\ abandoned = {}

Goto(next) == pc' = next /\ UNCHANGED result
Fail(next) == pc' = next /\ result' = "err"

-----------------------------------------------------------------------------
(* Signer::connect.                                                        *)

ResolveSlot ==
  /\ pc = "slot"
  /\ \/ Goto("open")
     \/ "resolve_slot" \in MayFail /\ Fail("finalize")
  /\ UNCHANGED <<tokenVars, cfg, keyVars, signVars>>

(* Mutant: without a session there is nothing to release.                  *)
OpenSessionForgetsModule ==
  /\ pc = "open"
  /\ \/ open_session("ok")  /\ Goto("login")
     \/ open_session("err") /\ Fail("done")
  /\ UNCHANGED <<cfg, keyVars, signVars>>

OpenSession ==
  /\ pc = "open"
  /\ \/ open_session("ok")  /\ Goto("login")
     \/ open_session("err") /\ Fail("finalize")
  /\ UNCHANGED <<cfg, keyVars, signVars>>

Provision == IF cfg.key_id = NoPair THEN "generate" ELSE "find_private"

(* C_Login only when a PIN is set; CKR_USER_ALREADY_LOGGED_IN is success.  *)
Login ==
  /\ pc = "login"
  /\ \/ Goto(Provision)
     \/ cfg.pin /\ "login" \in MayFail /\ Fail("close")
  /\ UNCHANGED <<tokenVars, cfg, keyVars, signVars>>

(* find_key: no private key is an error, no public key is not.             *)
FindPrivate ==
  /\ pc = "find_private"
  /\ \/ \E handle \in Matches(cfg.key_id, "private") :
          /\ keys' = [keys EXCEPT !.private = handle]
          /\ IF handle = NoHandle THEN Fail("close") ELSE Goto("find_public")
     \/ "find" \in MayFail /\ Fail("close") /\ UNCHANGED keys
  /\ UNCHANGED <<tokenVars, cfg, owns, vk, abandoned, signVars>>

FindPublic ==
  /\ pc = "find_public"
  /\ \/ \E handle \in Matches(cfg.key_id, "public") :
          keys' = [keys EXCEPT !.public = handle] /\ Goto("public_key")
     \/ "find" \in MayFail /\ Fail("close") /\ UNCHANGED keys
  /\ UNCHANGED <<tokenVars, cfg, owns, vk, abandoned, signVars>>

(* A failed call leaves no handle to destroy: a pair it created is lost.   *)
GenerateKey ==
  /\ pc = "generate"
  /\ \/ /\ generate_key("ok")
        /\ keys' = [private |-> [pair |-> NewPair, class |-> "private"],
                    public  |-> [pair |-> NewPair, class |-> "public"]]
        /\ owns' = TRUE
        /\ Goto("public_key")
        /\ UNCHANGED abandoned
     \/ \E rv \in {"err", "lost"} :
          /\ generate_key(rv)
          /\ abandoned' = IF rv = "lost" THEN NewObjects ELSE {}
          /\ Fail("close")
          /\ UNCHANGED <<keys, owns>>
  /\ UNCHANGED <<cfg, vk, signVars>>

(* The pair whose public key can be had: the one given out of band, else   *)
(* the one the public object's CKA_EC_POINT belongs to.                    *)
PublicKeys ==
  {pair \in Pair : \/ pair = cfg.der
                  \/ /\ cfg.der = NoDer /\ keys.public # NoHandle
                     /\ pair = keys.public.pair}

PublicKeyMayFail ==
  PublicKeys = {} \/ (cfg.der = NoDer /\ "attribute" \in MayFail)

(* The Signer is built only afterwards: a failure here closes the session  *)
(* but runs no cleanup.                                                    *)
ResolvePublicKey ==
  /\ pc = "public_key"
  /\ \/ \E pair \in PublicKeys :
          vk' = pair /\ Goto("test_init") /\ UNCHANGED abandoned
     \/ /\ PublicKeyMayFail
        /\ abandoned' = IF owns THEN NewObjects ELSE {}
        /\ Fail("close")
        /\ UNCHANGED vk
  /\ UNCHANGED <<tokenVars, cfg, keys, owns, signVars>>

-----------------------------------------------------------------------------
(* Signer::self_test, with a buffer of its own.                            *)

SelfTestInit ==
  /\ pc = "test_init"
  /\ \/ sign_init(cfg.curve, "ok")  /\ Goto("test_sign")
     \/ sign_init(cfg.curve, "err") /\ Fail("cleanup")
  /\ msg' = Probe
  /\ buf' = NoSignature
  /\ UNCHANGED <<cfg, keyVars, signed>>

(* The length is checked for Ed25519 only; for P-256 a length above the    *)
(* buffer's truncates nothing and verify sees the whole buffer.            *)
SelfTestSign ==
  /\ pc = "test_sign"
  /\ \E rv \in {"genuine", "stale", "short", "long", "err"} :
       /\ sign_into(cfg.curve, rv)
       /\ buf' \in Written(rv, keys.private.pair, msg, buf)
       /\ IF rv = "err" \/ (cfg.curve = "ed25519" /\ rv \in {"short", "long"})
          THEN Fail("cleanup")
          ELSE Goto("test_verify")
  /\ signed' = signed \cup {msg}
  /\ UNCHANGED <<cfg, keyVars, msg>>

(* Signer::verify.                                                         *)
Verifies(message, signature) == signature = Signature(vk, message)

(* Mutants: the answer is not looked at; the Signer is built only after    *)
(* the self-test; the self-test finishes the operation it started.         *)
SelfTestSkipsVerify ==
  /\ pc = "test_verify"
  /\ Goto("connected")
  /\ UNCHANGED <<tokenVars, cfg, keyVars, signVars>>

SelfTestBeforeSigner ==
  /\ pc = "test_verify"
  /\ IF Verifies(msg, buf) THEN Goto("connected") ELSE Fail("close")
  /\ UNCHANGED <<tokenVars, cfg, keyVars, signVars>>

SelfTestFinishes ==
  /\ pc = "test_verify"
  /\ IF Verifies(msg, buf) THEN Goto("connected") ELSE Fail("cleanup")
  /\ operation' = "idle"
  /\ UNCHANGED <<module, session, store, cfg, keyVars, signVars>>

SelfTestVerify ==
  /\ pc = "test_verify"
  /\ IF Verifies(msg, buf) THEN Goto("connected") ELSE Fail("cleanup")
  /\ UNCHANGED <<tokenVars, cfg, keyVars, signVars>>

-----------------------------------------------------------------------------
(* Signer::drop, then Session::drop, then Module::drop. A failing call is  *)
(* a warning: the next one is made all the same.                           *)

(* Mutant: owns_key is not looked at.                                      *)
CleanupIgnoresOwner ==
  /\ pc = "cleanup"
  /\ IF cfg.curve = "ed25519"
     THEN \E rv \in {"ok", "err"} : message_sign_final(rv)
     ELSE UNCHANGED tokenVars
  /\ Goto("destroy_private")
  /\ UNCHANGED <<cfg, keyVars, signVars>>

Cleanup ==
  /\ pc = "cleanup"
  /\ IF cfg.curve = "ed25519"
     THEN \E rv \in {"ok", "err"} : message_sign_final(rv)
     ELSE UNCHANGED tokenVars
  /\ Goto(IF owns THEN "destroy_private" ELSE "close")
  /\ UNCHANGED <<cfg, keyVars, signVars>>

(* Mutant: the first refusal ends the clean-up.                            *)
DestroyStops(handle, next) ==
  /\ \/ destroy(handle, "ok")  /\ Goto(next)    /\ UNCHANGED abandoned
     \/ destroy(handle, "err") /\ Goto("close") /\ abandoned' = abandoned \cup {handle}
  /\ UNCHANGED <<cfg, keys, owns, vk, signVars>>

Destroy(handle, next) ==
  /\ \E rv \in {"ok", "err"} :
       /\ destroy(handle, rv)
       /\ abandoned' = IF rv = "ok" THEN abandoned ELSE abandoned \cup {handle}
  /\ Goto(next)
  /\ UNCHANGED <<cfg, keys, owns, vk, signVars>>

DestroyPrivate ==
  pc = "destroy_private" /\ Destroy(keys.private, "destroy_public")

DestroyPublic ==
  pc = "destroy_public" /\ Destroy(keys.public, "close")

CloseSession ==
  /\ pc = "close"
  /\ close_session
  /\ Goto("finalize")
  /\ UNCHANGED <<cfg, keyVars, signVars>>

Finalize ==
  /\ pc = "finalize"
  /\ finalize
  /\ Goto("done")
  /\ UNCHANGED <<cfg, keyVars, signVars>>

Connect ==
  \/ ResolveSlot \/ OpenSession \/ Login
  \/ FindPrivate \/ FindPublic \/ GenerateKey \/ ResolvePublicKey
  \/ SelfTestInit \/ SelfTestSign \/ SelfTestVerify

Drop ==
  Cleanup \/ DestroyPrivate \/ DestroyPublic \/ CloseSession \/ Finalize

SignerTypeOK ==
  /\ cfg \in Configs
  /\ result \in {"pending", "ok", "err", "panic"}
  /\ keys \in [private : Handle, public : Handle]
  /\ owns \in BOOLEAN
  /\ vk \in Pair \cup {NoPair}
  /\ msg \in Message
  /\ buf \in Sigs
  /\ signed \subseteq Message
  /\ abandoned \subseteq NewObjects
=============================================================================
