---------------------------- MODULE SignTxProofs ----------------------------
(***************************************************************************)
(* Proofs about SignTx, for every value of its constants: any set of       *)
(* configurations, of calls that may fail and of token faults, any signals *)
(* and any bound on the warmup.                                            *)
(*                                                                         *)
(* The ten parts of IInv (SignTxInv) are preserved together: one lemma     *)
(* for each, with a step for every action of the program. The properties   *)
(* of SignTx follow from IInv, and that a run is finite and an interrupted *)
(* one short, by a variant; the last section shows that the run            *)
(* implements KeyCustody and Measurement.                                  *)
(***************************************************************************)
EXTENDS SignTxInv, TLAPS

-----------------------------------------------------------------------------
(* Values.                                                                 *)

(* The counts of a configuration are numbers, and a warmup that takes any  *)
(* time has a message to sign (run.rs:200-202).                            *)
LEMMA CountsType ==
  ASSUME cfg \in Configs
  PROVE  /\ cfg.iterations \in Nat /\ cfg.warmup \in Nat /\ cfg.warmup_time \in Nat
         /\ cfg.curve \in Curve /\ cfg.mode \in {"single", "benchmark"}
         /\ WarmupCount \in Nat /\ cfg.warmup <= WarmupCount
         /\ (cfg.warmup > 0 \/ cfg.warmup_time > 0) => WarmupCount > 0
<1>1. cfg \in Config BY ConfigAssumption
<1> QED BY <1>1 DEF Config, WarmupCount, WarmupTarget

(* The generated objects are the two of the generated pair.                *)
LEMMA NewObjectsEnum ==
  /\ NewObjects = {NewKeys.private, NewKeys.public}
  /\ NewKeys.private # NewKeys.public
<1>1. ASSUME NEW o \in NewObjects PROVE o \in {NewKeys.private, NewKeys.public}
  <2>1. o = [pair |-> o.pair, class |-> o.class] BY DEF NewObjects
  <2>2. o.pair = NewPair /\ o.class \in {"private", "public"} BY DEF NewObjects, Class
  <2> QED BY <2>1, <2>2 DEF NewKeys
<1>2. NewKeys.private \in NewObjects /\ NewKeys.public \in NewObjects
  BY DEF NewKeys, NewObjects, Class
<1>3. NewKeys.private.class # NewKeys.public.class BY DEF NewKeys
<1> QED BY <1>1, <1>2, <1>3

(* What an untouched buffer holds is a signature of no pair.               *)
LEMMA NoSignatureType == NoSignature \in Sigs
BY DEF NoSignature, Signature, Sigs, Message

-----------------------------------------------------------------------------
(* Preservation of the invariant, part by part.                            *)

(* Every action keeps every variable in its range.                         *)
LEMMA TypeStep ==
  TypeOK /\ KeyInv /\ ModeInv /\ [Next]_vars => TypeOK'
<1> SUFFICES ASSUME TypeOK, KeyInv, ModeInv, [Next]_vars PROVE TypeOK'
  OBVIOUS
<1> USE DEF TypeOK, Pkcs11TypeOK, SignerTypeOK, Steps, Exits, ConnectSteps,
    SelfTestSteps, RunSteps, DropSteps, Connected, Goto, Fail, vars,
    tokenVars, signerVars, keyVars, signVars, runVars, signalVars, loopVars
<1>1. CASE ParseArgs
  BY <1>1 DEF ParseArgs
<1>2. CASE Load
  BY <1>2 DEF Load, load
<1>3. CASE ResolveSlot /\ UNCHANGED runVars
  BY <1>3 DEF ResolveSlot
<1>4. CASE OpenSession /\ UNCHANGED runVars
  BY <1>4 DEF OpenSession, open_session
<1>5. CASE Login /\ UNCHANGED runVars
  BY <1>5 DEF Login, Provision
<1>6. CASE FindPrivate /\ UNCHANGED runVars
  BY <1>6 DEF FindPrivate, Matches, Handle, Object
<1>7. CASE FindPublic /\ UNCHANGED runVars
  BY <1>7 DEF FindPublic, Matches, Handle, Object
<1>8. CASE GenerateKey /\ UNCHANGED runVars
  <2>1. Pkcs11TypeOK' BY <1>8 DEF GenerateKey, generate_key, NewObjects, Object, Pair
  <2>2. pc' \in {"public_key", "close"} /\ result' \in {result, "err"}
    BY <1>8, Zenon DEF GenerateKey
  <2>3. owns' \in BOOLEAN /\ keys' \in {keys, NewKeys}
    BY <1>8, Zenon DEF GenerateKey, NewKeys
  <2>4. NewKeys \in [private : Handle, public : Handle]
    BY DEF NewKeys, Handle, Object, Pair, Class
  <2>5. abandoned' \in {abandoned, NewObjects, {}} BY <1>8, Zenon DEF GenerateKey
  <2>6. UNCHANGED <<cfg, vk, signVars, runVars>> BY <1>8, Zenon DEF GenerateKey
  <2> QED BY <2>1, <2>2, <2>3, <2>4, <2>5, <2>6
<1>9. CASE ResolvePublicKey /\ UNCHANGED runVars
  BY <1>9 DEF ResolvePublicKey, PublicKeys, Handle, Object, Pair
<1>10. CASE SelfTestInit /\ UNCHANGED runVars
  BY <1>10 DEF SelfTestInit, sign_init, Operation, Signature, NoSignature,
     Sigs, Message
<1>11. CASE SelfTestSign /\ UNCHANGED runVars
  BY <1>11 DEF SelfTestSign, sign_into, Written, Signature, NoSignature,
     Sigs, Message, KeyInv, Object
<1>12. CASE SelfTestVerify /\ UNCHANGED runVars
  BY <1>12 DEF SelfTestVerify, Verifies
<1>13. CASE Prepare
  BY <1>13 DEF Prepare
<1>14. CASE RegisterSigint
  <2>1. Pkcs11TypeOK' /\ SignerTypeOK' BY <1>14 DEF RegisterSigint, Register
  <2>2. pc' \in Steps /\ handlers' \subseteq {"SIGINT", "SIGTERM"}
    BY <1>14 DEF RegisterSigint, Register
  <2>3. UNCHANGED <<interrupted, caller, loopVars, published>>
    BY <1>14, Zenon DEF RegisterSigint, Register
  <2> QED BY <2>1, <2>2, <2>3
<1>15. CASE RegisterSigterm
  <2>1. Pkcs11TypeOK' /\ SignerTypeOK' BY <1>15 DEF RegisterSigterm, Register
  <2>2. pc' \in Steps /\ handlers' \subseteq {"SIGINT", "SIGTERM"}
    BY <1>15 DEF RegisterSigterm, Register
  <2>3. UNCHANGED <<interrupted, caller, loopVars, published>>
    BY <1>15, Zenon DEF RegisterSigterm, Register
  <2> QED BY <2>1, <2>2, <2>3
<1>16. CASE WarmupSign
  <2>1. index % WarmupCount \in Nat
    BY <1>16, CountsType DEF WarmupSign, WarmupGoesOn
  <2> QED BY <1>16, <2>1, NoSignatureType DEF WarmupSign, Hand, Message
<1>17. CASE WarmupInterrupted
  BY <1>17 DEF WarmupInterrupted
<1>18. CASE WarmupDone
  BY <1>18, CountsType DEF WarmupDone
<1>19. CASE MeasureSign
  BY <1>19, NoSignatureType DEF MeasureSign, Hand, Message
<1>20. CASE MeasureDone
  BY <1>20 DEF MeasureDone
<1>21. CASE Report
  <2>1. published' \in BOOLEAN BY <1>21, Zenon DEF Report
  <2>2. pc' \in {"cleanup", "write"} /\ result' \in {result, "err"}
    BY <1>21, Zenon DEF Report
  <2>3. UNCHANGED <<tokenVars, cfg, keyVars, signVars,
                    signalVars, caller, loopVars>>
    BY <1>21, Zenon DEF Report
  <2> QED BY <2>1, <2>2, <2>3
<1>22. CASE WriteFiles
  BY <1>22 DEF WriteFiles, Answers
<1>23. CASE SingleSign
  BY <1>23, NoSignatureType DEF SingleSign, Hand, Message
<1>24. CASE Emit
  BY <1>24 DEF Emit
<1>25. CASE OnceInit
  BY <1>25 DEF OnceInit, sign_init, Operation
<1>26. CASE OnceSign
  BY <1>26 DEF OnceSign, sign_into, Written, Signature, NoSignature, Sigs,
     Message, KeyInv, Object
<1>27. CASE OnceVerify
  <2>1. /\ pc' \in {"cleanup", "emit", "warmup", "measure"}
        /\ result' \in {result, "err"} /\ caller' \in {caller, "none"}
        /\ index' \in {index, index + 1}
        /\ samples' \in {samples, Append(samples, msg)}
    BY <1>27 DEF OnceVerify, Return, ModeInv, OnceSteps
  <2>2. samples' \in Seq(Message) /\ index' \in Nat
    BY <2>1
  <2>3. UNCHANGED <<tokenVars, cfg, keyVars, signVars,
                    signalVars, elapsed, published>>
    BY <1>27, Zenon DEF OnceVerify
  <2> QED BY <2>1, <2>2, <2>3
<1>28. CASE Cleanup /\ UNCHANGED runVars
  BY <1>28 DEF Cleanup, message_sign_final
<1>29. CASE DestroyPrivate /\ UNCHANGED runVars
  BY <1>29 DEF DestroyPrivate, Destroy, destroy, KeyInv, NewKeys,
     NewObjects, Class
<1>30. CASE DestroyPublic /\ UNCHANGED runVars
  BY <1>30 DEF DestroyPublic, Destroy, destroy, KeyInv, NewKeys, NewObjects,
     Class
<1>31. CASE CloseSession /\ UNCHANGED runVars
  BY <1>31 DEF CloseSession, close_session
<1>32. CASE Finalize /\ UNCHANGED runVars
  BY <1>32 DEF Finalize, finalize
<1>33. ASSUME NEW s \in Signals, Signal(s) PROVE TypeOK'
  <2>1. interrupted' \in BOOLEAN BY <1>33, Zenon DEF Signal
  <2>2. pc' \in {pc, "killed"} BY <1>33, Zenon DEF Signal
  <2>3. UNCHANGED <<tokenVars, cfg, result, keyVars, signVars,
                    handlers, caller, loopVars, published>>
    BY <1>33, Zenon DEF Signal
  <2> QED BY <2>1, <2>2, <2>3
<1>34. CASE Tick
  BY <1>34 DEF Tick, Warming
<1>35. CASE UNCHANGED vars
  BY <1>35
<1> QED
  BY <1>1, <1>2, <1>3, <1>4, <1>5, <1>6, <1>7, <1>8, <1>9, <1>10, <1>11,
     <1>12, <1>13, <1>14, <1>15, <1>16, <1>17, <1>18, <1>19, <1>20, <1>21,
     <1>22, <1>23, <1>24, <1>25, <1>26, <1>27, <1>28, <1>29, <1>30, <1>31,
     <1>32, <1>33, <1>34, <1>35 DEF Next, Step, Connect, Benchmark, Once,
     Drop, Terminated

(* Sessions and the module are opened and closed in nested order           *)
(* (pkcs11.rs:333-343, 641-649).                                           *)
LEMMA SessionStep ==
  SessionInv /\ ModeInv /\ [Next]_vars => SessionInv'
<1> SUFFICES ASSUME SessionInv, ModeInv, [Next]_vars PROVE SessionInv'
  OBVIOUS
<1> USE DEF SessionInv, ConnectSteps, SelfTestSteps, RunSteps, DropSteps,
    Connected, Goto, Fail, vars, tokenVars, signerVars, keyVars, signVars,
    runVars, signalVars, loopVars
<1>1. CASE ParseArgs
  BY <1>1 DEF ParseArgs
<1>2. CASE Load
  BY <1>2 DEF Load, load
<1>3. CASE ResolveSlot /\ UNCHANGED runVars
  BY <1>3 DEF ResolveSlot
<1>4. CASE OpenSession /\ UNCHANGED runVars
  BY <1>4 DEF OpenSession, open_session
<1>5. CASE Login /\ UNCHANGED runVars
  BY <1>5 DEF Login, Provision
<1>6. CASE FindPrivate /\ UNCHANGED runVars
  BY <1>6 DEF FindPrivate, Matches
<1>7. CASE FindPublic /\ UNCHANGED runVars
  BY <1>7 DEF FindPublic, Matches
<1>8. CASE GenerateKey /\ UNCHANGED runVars
  BY <1>8 DEF GenerateKey, generate_key
<1>9. CASE ResolvePublicKey /\ UNCHANGED runVars
  BY <1>9 DEF ResolvePublicKey, PublicKeys
<1>10. CASE SelfTestInit /\ UNCHANGED runVars
  BY <1>10 DEF SelfTestInit, sign_init
<1>11. CASE SelfTestSign /\ UNCHANGED runVars
  BY <1>11 DEF SelfTestSign, sign_into, Written
<1>12. CASE SelfTestVerify /\ UNCHANGED runVars
  BY <1>12 DEF SelfTestVerify, Verifies
<1>13. CASE Prepare
  BY <1>13 DEF Prepare
<1>14. CASE RegisterSigint
  BY <1>14 DEF RegisterSigint, Register
<1>15. CASE RegisterSigterm
  BY <1>15 DEF RegisterSigterm, Register
<1>16. CASE WarmupSign
  BY <1>16 DEF WarmupSign, Hand
<1>17. CASE WarmupInterrupted
  BY <1>17 DEF WarmupInterrupted
<1>18. CASE WarmupDone
  BY <1>18 DEF WarmupDone
<1>19. CASE MeasureSign
  BY <1>19 DEF MeasureSign, Hand
<1>20. CASE MeasureDone
  BY <1>20 DEF MeasureDone
<1>21. CASE Report
  BY <1>21 DEF Report
<1>22. CASE WriteFiles
  BY <1>22 DEF WriteFiles
<1>23. CASE SingleSign
  BY <1>23 DEF SingleSign, Hand
<1>24. CASE Emit
  BY <1>24 DEF Emit
<1>25. CASE OnceInit
  BY <1>25 DEF OnceInit, sign_init
<1>26. CASE OnceSign
  BY <1>26 DEF OnceSign, sign_into, Written
<1>27. CASE OnceVerify
  BY <1>27 DEF OnceVerify, Return, Verifies, ModeInv, OnceSteps
<1>28. CASE Cleanup /\ UNCHANGED runVars
  BY <1>28 DEF Cleanup, message_sign_final
<1>29. CASE DestroyPrivate /\ UNCHANGED runVars
  BY <1>29 DEF DestroyPrivate, Destroy, destroy
<1>30. CASE DestroyPublic /\ UNCHANGED runVars
  BY <1>30 DEF DestroyPublic, Destroy, destroy
<1>31. CASE CloseSession /\ UNCHANGED runVars
  BY <1>31 DEF CloseSession, close_session
<1>32. CASE Finalize /\ UNCHANGED runVars
  BY <1>32 DEF Finalize, finalize
<1>33. ASSUME NEW s \in Signals, Signal(s) PROVE SessionInv'
  BY <1>33 DEF Signal
<1>34. CASE Tick
  BY <1>34 DEF Tick, Warming
<1>35. CASE UNCHANGED vars
  BY <1>35
<1> QED
  BY <1>1, <1>2, <1>3, <1>4, <1>5, <1>6, <1>7, <1>8, <1>9, <1>10, <1>11,
     <1>12, <1>13, <1>14, <1>15, <1>16, <1>17, <1>18, <1>19, <1>20, <1>21,
     <1>22, <1>23, <1>24, <1>25, <1>26, <1>27, <1>28, <1>29, <1>30, <1>31,
     <1>32, <1>33, <1>34, <1>35 DEF Next, Step, Connect, Benchmark, Once,
     Drop, Terminated

(* The handles of a Signer that owns its key are those of the new pair;    *)
(* past the self-test the private key matches the public one.              *)
LEMMA KeyStep ==
  TypeOK /\ KeyInv /\ BufferInv /\ ModeInv /\ [Next]_vars => KeyInv'
<1> SUFFICES ASSUME TypeOK, KeyInv, BufferInv, ModeInv, [Next]_vars PROVE KeyInv'
  OBVIOUS
<1> USE DEF KeyInv, Unprovisioned, ConnectSteps, SelfTestSteps, RunSteps,
    DropSteps, Connected, Goto, Fail, vars, tokenVars, signerVars, keyVars,
    signVars, runVars, signalVars, loopVars
<1>1. CASE ParseArgs
  BY <1>1 DEF ParseArgs
<1>2. CASE Load
  BY <1>2 DEF Load, load
<1>3. CASE ResolveSlot /\ UNCHANGED runVars
  BY <1>3 DEF ResolveSlot
<1>4. CASE OpenSession /\ UNCHANGED runVars
  BY <1>4 DEF OpenSession, open_session
<1>5. CASE Login /\ UNCHANGED runVars
  BY <1>5 DEF Login, Provision, Provision
<1>6. CASE FindPrivate /\ UNCHANGED runVars
  BY <1>6 DEF FindPrivate, Matches, NewKeys, TypeOK, SignerTypeOK,
     Pkcs11TypeOK
<1>7. CASE FindPublic /\ UNCHANGED runVars
  <2>1. keys'.private = keys.private
    BY <1>7 DEF FindPublic, TypeOK, SignerTypeOK
  <2>2. owns' = owns /\ ~owns
    BY <1>7, Zenon DEF FindPublic, KeyInv, Unprovisioned
  <2>3. pc' \in {"public_key", "close"} BY <1>7 DEF FindPublic
  <2> QED BY <1>7, <2>1, <2>2, <2>3 DEF FindPublic
<1>8. CASE GenerateKey /\ UNCHANGED runVars
  BY <1>8 DEF GenerateKey, generate_key, NewKeys, Object, Pair, Class
<1>9. CASE ResolvePublicKey /\ UNCHANGED runVars
  BY <1>9 DEF ResolvePublicKey, PublicKeys
<1>10. CASE SelfTestInit /\ UNCHANGED runVars
  BY <1>10 DEF SelfTestInit, sign_init
<1>11. CASE SelfTestSign /\ UNCHANGED runVars
  BY <1>11 DEF SelfTestSign, sign_into, Written
<1>12. CASE SelfTestVerify /\ UNCHANGED runVars
  <2>1. Verifies(msg, buf) => keys.private.pair = vk
    BY <1>12, PairAssumption
    DEF SelfTestVerify, Verifies, BufferInv, NoSignature, Signature
  <2> QED BY <1>12, <2>1 DEF SelfTestVerify
<1>13. CASE Prepare
  BY <1>13 DEF Prepare
<1>14. CASE RegisterSigint
  BY <1>14 DEF RegisterSigint, Register
<1>15. CASE RegisterSigterm
  BY <1>15 DEF RegisterSigterm, Register
<1>16. CASE WarmupSign
  BY <1>16 DEF WarmupSign, Hand
<1>17. CASE WarmupInterrupted
  BY <1>17 DEF WarmupInterrupted
<1>18. CASE WarmupDone
  BY <1>18 DEF WarmupDone
<1>19. CASE MeasureSign
  BY <1>19 DEF MeasureSign, Hand
<1>20. CASE MeasureDone
  BY <1>20 DEF MeasureDone
<1>21. CASE Report
  BY <1>21 DEF Report
<1>22. CASE WriteFiles
  BY <1>22 DEF WriteFiles
<1>23. CASE SingleSign
  BY <1>23 DEF SingleSign, Hand
<1>24. CASE Emit
  BY <1>24 DEF Emit
<1>25. CASE OnceInit
  BY <1>25 DEF OnceInit, sign_init
<1>26. CASE OnceSign
  BY <1>26 DEF OnceSign, sign_into, Written
<1>27. CASE OnceVerify
  BY <1>27 DEF OnceVerify, Return, Verifies, ModeInv, OnceSteps
<1>28. CASE Cleanup /\ UNCHANGED runVars
  BY <1>28 DEF Cleanup, message_sign_final
<1>29. CASE DestroyPrivate /\ UNCHANGED runVars
  BY <1>29 DEF DestroyPrivate, Destroy, destroy
<1>30. CASE DestroyPublic /\ UNCHANGED runVars
  BY <1>30 DEF DestroyPublic, Destroy, destroy
<1>31. CASE CloseSession /\ UNCHANGED runVars
  BY <1>31 DEF CloseSession, close_session
<1>32. CASE Finalize /\ UNCHANGED runVars
  BY <1>32 DEF Finalize, finalize
<1>33. ASSUME NEW s \in Signals, Signal(s) PROVE KeyInv'
  BY <1>33 DEF Signal
<1>34. CASE Tick
  BY <1>34 DEF Tick, Warming
<1>35. CASE UNCHANGED vars
  BY <1>35
<1> QED
  BY <1>1, <1>2, <1>3, <1>4, <1>5, <1>6, <1>7, <1>8, <1>9, <1>10, <1>11,
     <1>12, <1>13, <1>14, <1>15, <1>16, <1>17, <1>18, <1>19, <1>20, <1>21,
     <1>22, <1>23, <1>24, <1>25, <1>26, <1>27, <1>28, <1>29, <1>30, <1>31,
     <1>32, <1>33, <1>34, <1>35 DEF Next, Step, Connect, Benchmark, Once,
     Drop, Terminated

(* Which generated objects exist, and which were given up, at each point of *)
(* connect and of the clean-up (signer.rs:50-90, 223-237).                 *)
LEMMA CustodyStep ==
  KeyInv /\ CustodyInv /\ ModeInv /\ [Next]_vars => CustodyInv'
<1> SUFFICES ASSUME KeyInv, CustodyInv, ModeInv, [Next]_vars PROVE CustodyInv'
  OBVIOUS
<1> USE DEF CustodyInv, Unprovisioned, ConnectSteps, SelfTestSteps,
    RunSteps, DropSteps, Connected, Goto, Fail, vars, tokenVars, signerVars,
    keyVars, signVars, runVars, signalVars, loopVars
<1>1. CASE ParseArgs
  BY <1>1 DEF ParseArgs, KeyInv
<1>2. CASE Load
  BY <1>2 DEF Load, load, KeyInv
<1>3. CASE ResolveSlot /\ UNCHANGED runVars
  BY <1>3 DEF ResolveSlot, KeyInv
<1>4. CASE OpenSession /\ UNCHANGED runVars
  BY <1>4 DEF OpenSession, open_session, KeyInv
<1>5. CASE Login /\ UNCHANGED runVars
  BY <1>5 DEF Login, Provision, KeyInv
<1>6. CASE FindPrivate /\ UNCHANGED runVars
  BY <1>6 DEF FindPrivate, Matches, KeyInv
<1>7. CASE FindPublic /\ UNCHANGED runVars
  BY <1>7 DEF FindPublic, Matches, KeyInv
<1>8. CASE GenerateKey /\ UNCHANGED runVars
  <2>1. ~owns /\ NewObjects \cap store = {} /\ abandoned = {}
    BY <1>8 DEF GenerateKey, KeyInv
  <2>2. \/ /\ owns' /\ pc' = "public_key" /\ abandoned' = {}
           /\ store' = store \cup NewObjects
        \/ /\ owns' = owns /\ pc' = "close"
           /\ \/ store' = store /\ abandoned' = {}
              \/ store' = store \cup NewObjects /\ abandoned' = NewObjects
    BY <1>8, <2>1, Zenon DEF GenerateKey, generate_key
  <2> QED BY <2>1, <2>2
<1>9. CASE ResolvePublicKey /\ UNCHANGED runVars
  BY <1>9 DEF ResolvePublicKey, PublicKeys
<1>10. CASE SelfTestInit /\ UNCHANGED runVars
  BY <1>10 DEF SelfTestInit, sign_init
<1>11. CASE SelfTestSign /\ UNCHANGED runVars
  BY <1>11 DEF SelfTestSign, sign_into, Written
<1>12. CASE SelfTestVerify /\ UNCHANGED runVars
  BY <1>12 DEF SelfTestVerify, Verifies
<1>13. CASE Prepare
  BY <1>13 DEF Prepare
<1>14. CASE RegisterSigint
  BY <1>14 DEF RegisterSigint, Register
<1>15. CASE RegisterSigterm
  BY <1>15 DEF RegisterSigterm, Register
<1>16. CASE WarmupSign
  BY <1>16 DEF WarmupSign, Hand
<1>17. CASE WarmupInterrupted
  BY <1>17 DEF WarmupInterrupted
<1>18. CASE WarmupDone
  BY <1>18 DEF WarmupDone
<1>19. CASE MeasureSign
  BY <1>19 DEF MeasureSign, Hand
<1>20. CASE MeasureDone
  BY <1>20 DEF MeasureDone
<1>21. CASE Report
  BY <1>21 DEF Report
<1>22. CASE WriteFiles
  BY <1>22 DEF WriteFiles
<1>23. CASE SingleSign
  BY <1>23 DEF SingleSign, Hand
<1>24. CASE Emit
  BY <1>24 DEF Emit
<1>25. CASE OnceInit
  BY <1>25 DEF OnceInit, sign_init
<1>26. CASE OnceSign
  BY <1>26 DEF OnceSign, sign_into, Written
<1>27. CASE OnceVerify
  BY <1>27 DEF OnceVerify, Return, Verifies, ModeInv, OnceSteps
<1>28. CASE Cleanup /\ UNCHANGED runVars
  BY <1>28 DEF Cleanup, message_sign_final
<1>29. CASE DestroyPrivate /\ UNCHANGED runVars
  <2>1. keys = NewKeys /\ owns BY <1>29 DEF DestroyPrivate, KeyInv
  <2>2. keys.private \notin CallerObjects
    BY <2>1, PairAssumption DEF NewKeys, CallerObjects
  <2>3. NewObjects = {keys.private, keys.public} /\ keys.private # keys.public
    BY <2>1, NewObjectsEnum
  <2>4. \/ store' = store \ {keys.private} /\ abandoned' = abandoned
        \/ store' = store /\ abandoned' = abandoned \cup {keys.private}
    BY <1>29 DEF DestroyPrivate, Destroy, destroy
  <2>5. pc' = "destroy_public" /\ UNCHANGED <<keys, owns>>
    BY <1>29 DEF DestroyPrivate, Destroy
  <2> QED BY <1>29, <2>1, <2>2, <2>3, <2>4, <2>5 DEF DestroyPrivate
<1>30. CASE DestroyPublic /\ UNCHANGED runVars
  <2>1. keys = NewKeys /\ owns BY <1>30 DEF DestroyPublic, KeyInv
  <2>2. keys.public \notin CallerObjects
    BY <2>1, PairAssumption DEF NewKeys, CallerObjects
  <2>3. NewObjects = {keys.private, keys.public} /\ keys.private # keys.public
    BY <2>1, NewObjectsEnum
  <2>4. \/ store' = store \ {keys.public} /\ abandoned' = abandoned
        \/ store' = store /\ abandoned' = abandoned \cup {keys.public}
    BY <1>30 DEF DestroyPublic, Destroy, destroy
  <2>5. pc' = "close" /\ UNCHANGED <<keys, owns>>
    BY <1>30 DEF DestroyPublic, Destroy
  <2> QED BY <1>30, <2>1, <2>2, <2>3, <2>4, <2>5 DEF DestroyPublic
<1>31. CASE CloseSession /\ UNCHANGED runVars
  BY <1>31 DEF CloseSession, close_session, KeyInv
<1>32. CASE Finalize /\ UNCHANGED runVars
  BY <1>32 DEF Finalize, finalize
<1>33. ASSUME NEW s \in Signals, Signal(s) PROVE CustodyInv'
  BY <1>33 DEF Signal
<1>34. CASE Tick
  BY <1>34 DEF Tick, Warming
<1>35. CASE UNCHANGED vars
  BY <1>35
<1> QED
  BY <1>1, <1>2, <1>3, <1>4, <1>5, <1>6, <1>7, <1>8, <1>9, <1>10, <1>11,
     <1>12, <1>13, <1>14, <1>15, <1>16, <1>17, <1>18, <1>19, <1>20, <1>21,
     <1>22, <1>23, <1>24, <1>25, <1>26, <1>27, <1>28, <1>29, <1>30, <1>31,
     <1>32, <1>33, <1>34, <1>35 DEF Next, Step, Connect, Benchmark, Once,
     Drop, Terminated

(* C_Sign ends its operation, C_SignMessage does not (pkcs11.rs:538-621).  *)
LEMMA OperationStep ==
  TypeOK /\ OperationInv /\ ModeInv /\ [Next]_vars => OperationInv'
<1> SUFFICES ASSUME TypeOK, OperationInv, ModeInv, [Next]_vars PROVE OperationInv'
  OBVIOUS
<1> USE DEF OperationInv, Unprovisioned, ConnectSteps, SelfTestSteps,
    RunSteps, DropSteps, Connected, Goto, Fail, vars, tokenVars, signerVars,
    keyVars, signVars, runVars, signalVars, loopVars
<1>1. CASE ParseArgs
  BY <1>1 DEF ParseArgs
<1>2. CASE Load
  BY <1>2 DEF Load, load
<1>3. CASE ResolveSlot /\ UNCHANGED runVars
  BY <1>3 DEF ResolveSlot
<1>4. CASE OpenSession /\ UNCHANGED runVars
  BY <1>4 DEF OpenSession, open_session
<1>5. CASE Login /\ UNCHANGED runVars
  BY <1>5 DEF Login, Provision
<1>6. CASE FindPrivate /\ UNCHANGED runVars
  BY <1>6 DEF FindPrivate, Matches
<1>7. CASE FindPublic /\ UNCHANGED runVars
  BY <1>7 DEF FindPublic, Matches
<1>8. CASE GenerateKey /\ UNCHANGED runVars
  BY <1>8 DEF GenerateKey, generate_key
<1>9. CASE ResolvePublicKey /\ UNCHANGED runVars
  BY <1>9 DEF ResolvePublicKey, PublicKeys
<1>10. CASE SelfTestInit /\ UNCHANGED runVars
  BY <1>10 DEF SelfTestInit, sign_init, Operation
<1>11. CASE SelfTestSign /\ UNCHANGED runVars
  BY <1>11 DEF SelfTestSign, sign_into, Written, Operation
<1>12. CASE SelfTestVerify /\ UNCHANGED runVars
  BY <1>12 DEF SelfTestVerify, Verifies
<1>13. CASE Prepare
  BY <1>13 DEF Prepare
<1>14. CASE RegisterSigint
  BY <1>14 DEF RegisterSigint, Register
<1>15. CASE RegisterSigterm
  BY <1>15 DEF RegisterSigterm, Register
<1>16. CASE WarmupSign
  BY <1>16 DEF WarmupSign, Hand
<1>17. CASE WarmupInterrupted
  BY <1>17 DEF WarmupInterrupted
<1>18. CASE WarmupDone
  BY <1>18 DEF WarmupDone
<1>19. CASE MeasureSign
  BY <1>19 DEF MeasureSign, Hand
<1>20. CASE MeasureDone
  BY <1>20 DEF MeasureDone
<1>21. CASE Report
  BY <1>21 DEF Report
<1>22. CASE WriteFiles
  BY <1>22 DEF WriteFiles
<1>23. CASE SingleSign
  BY <1>23 DEF SingleSign, Hand
<1>24. CASE Emit
  BY <1>24 DEF Emit
<1>25. CASE OnceInit
  BY <1>25 DEF OnceInit, sign_init, Operation
<1>26. CASE OnceSign
  BY <1>26 DEF OnceSign, sign_into, Written, Operation
<1>27. CASE OnceVerify
  BY <1>27 DEF OnceVerify, Return, Verifies, ModeInv, OnceSteps
<1>28. CASE Cleanup /\ UNCHANGED runVars
  BY <1>28 DEF Cleanup, message_sign_final
<1>29. CASE DestroyPrivate /\ UNCHANGED runVars
  BY <1>29 DEF DestroyPrivate, Destroy, destroy
<1>30. CASE DestroyPublic /\ UNCHANGED runVars
  BY <1>30 DEF DestroyPublic, Destroy, destroy
<1>31. CASE CloseSession /\ UNCHANGED runVars
  BY <1>31 DEF CloseSession, close_session
<1>32. CASE Finalize /\ UNCHANGED runVars
  BY <1>32 DEF Finalize, finalize
<1>33. ASSUME NEW s \in Signals, Signal(s) PROVE OperationInv'
  BY <1>33 DEF Signal
<1>34. CASE Tick
  BY <1>34 DEF Tick, Warming
<1>35. CASE UNCHANGED vars
  BY <1>35
<1> QED
  BY <1>1, <1>2, <1>3, <1>4, <1>5, <1>6, <1>7, <1>8, <1>9, <1>10, <1>11,
     <1>12, <1>13, <1>14, <1>15, <1>16, <1>17, <1>18, <1>19, <1>20, <1>21,
     <1>22, <1>23, <1>24, <1>25, <1>26, <1>27, <1>28, <1>29, <1>30, <1>31,
     <1>32, <1>33, <1>34, <1>35 DEF Next, Step, Connect, Benchmark, Once,
     Drop, Terminated

(* The buffer holds nothing but signatures over messages already submitted. *)
LEMMA BufferStep ==
  BufferInv /\ ModeInv /\ [Next]_vars => BufferInv'
<1> SUFFICES ASSUME BufferInv, ModeInv, [Next]_vars PROVE BufferInv'
  OBVIOUS
<1> USE DEF BufferInv, ConnectSteps, SelfTestSteps, RunSteps, DropSteps,
    Connected, Goto, Fail, vars, tokenVars, signerVars, keyVars, signVars,
    runVars, signalVars, loopVars
<1>1. CASE ParseArgs
  BY <1>1 DEF ParseArgs
<1>2. CASE Load
  BY <1>2 DEF Load, load
<1>3. CASE ResolveSlot /\ UNCHANGED runVars
  BY <1>3 DEF ResolveSlot
<1>4. CASE OpenSession /\ UNCHANGED runVars
  BY <1>4 DEF OpenSession, open_session
<1>5. CASE Login /\ UNCHANGED runVars
  BY <1>5 DEF Login, Provision
<1>6. CASE FindPrivate /\ UNCHANGED runVars
  BY <1>6 DEF FindPrivate, Matches
<1>7. CASE FindPublic /\ UNCHANGED runVars
  BY <1>7 DEF FindPublic, Matches
<1>8. CASE GenerateKey /\ UNCHANGED runVars
  BY <1>8 DEF GenerateKey, generate_key
<1>9. CASE ResolvePublicKey /\ UNCHANGED runVars
  BY <1>9 DEF ResolvePublicKey, PublicKeys
<1>10. CASE SelfTestInit /\ UNCHANGED runVars
  BY <1>10 DEF SelfTestInit, sign_init, NoSignature, Signature
<1>11. CASE SelfTestSign /\ UNCHANGED runVars
  BY <1>11 DEF SelfTestSign, sign_into, Written, NoSignature, Signature
<1>12. CASE SelfTestVerify /\ UNCHANGED runVars
  BY <1>12 DEF SelfTestVerify, Verifies
<1>13. CASE Prepare
  BY <1>13 DEF Prepare
<1>14. CASE RegisterSigint
  BY <1>14 DEF RegisterSigint, Register
<1>15. CASE RegisterSigterm
  BY <1>15 DEF RegisterSigterm, Register
<1>16. CASE WarmupSign
  BY <1>16 DEF WarmupSign, Hand, NoSignature, Signature
<1>17. CASE WarmupInterrupted
  BY <1>17 DEF WarmupInterrupted
<1>18. CASE WarmupDone
  BY <1>18 DEF WarmupDone
<1>19. CASE MeasureSign
  BY <1>19 DEF MeasureSign, Hand, NoSignature, Signature
<1>20. CASE MeasureDone
  BY <1>20 DEF MeasureDone
<1>21. CASE Report
  BY <1>21 DEF Report
<1>22. CASE WriteFiles
  BY <1>22 DEF WriteFiles
<1>23. CASE SingleSign
  BY <1>23 DEF SingleSign, Hand, NoSignature, Signature
<1>24. CASE Emit
  BY <1>24 DEF Emit
<1>25. CASE OnceInit
  BY <1>25 DEF OnceInit, sign_init
<1>26. CASE OnceSign
  BY <1>26 DEF OnceSign, sign_into, Written, NoSignature, Signature
<1>27. CASE OnceVerify
  BY <1>27 DEF OnceVerify, Return, Verifies, ModeInv, OnceSteps
<1>28. CASE Cleanup /\ UNCHANGED runVars
  BY <1>28 DEF Cleanup, message_sign_final
<1>29. CASE DestroyPrivate /\ UNCHANGED runVars
  BY <1>29 DEF DestroyPrivate, Destroy, destroy
<1>30. CASE DestroyPublic /\ UNCHANGED runVars
  BY <1>30 DEF DestroyPublic, Destroy, destroy
<1>31. CASE CloseSession /\ UNCHANGED runVars
  BY <1>31 DEF CloseSession, close_session
<1>32. CASE Finalize /\ UNCHANGED runVars
  BY <1>32 DEF Finalize, finalize
<1>33. ASSUME NEW s \in Signals, Signal(s) PROVE BufferInv'
  BY <1>33 DEF Signal
<1>34. CASE Tick
  BY <1>34 DEF Tick, Warming
<1>35. CASE UNCHANGED vars
  BY <1>35
<1> QED
  BY <1>1, <1>2, <1>3, <1>4, <1>5, <1>6, <1>7, <1>8, <1>9, <1>10, <1>11,
     <1>12, <1>13, <1>14, <1>15, <1>16, <1>17, <1>18, <1>19, <1>20, <1>21,
     <1>22, <1>23, <1>24, <1>25, <1>26, <1>27, <1>28, <1>29, <1>30, <1>31,
     <1>32, <1>33, <1>34, <1>35 DEF Next, Step, Connect, Benchmark, Once,
     Drop, Terminated

(* sign_once returns to the subcommand that called it (main.rs:168-171).   *)
LEMMA ModeStep ==
  TypeOK /\ ModeInv /\ [Next]_vars => ModeInv'
<1> SUFFICES ASSUME TypeOK, ModeInv, [Next]_vars PROVE ModeInv'
  OBVIOUS
<1> USE DEF ModeInv, OnceSteps, ConnectSteps, SelfTestSteps, RunSteps,
    DropSteps, Connected, Goto, Fail, vars, tokenVars, signerVars, keyVars,
    signVars, runVars, signalVars, loopVars
<1>1. CASE ParseArgs
  BY <1>1 DEF ParseArgs
<1>2. CASE Load
  BY <1>2 DEF Load, load
<1>3. CASE ResolveSlot /\ UNCHANGED runVars
  BY <1>3 DEF ResolveSlot
<1>4. CASE OpenSession /\ UNCHANGED runVars
  BY <1>4 DEF OpenSession, open_session
<1>5. CASE Login /\ UNCHANGED runVars
  BY <1>5 DEF Login, Provision
<1>6. CASE FindPrivate /\ UNCHANGED runVars
  BY <1>6 DEF FindPrivate, Matches
<1>7. CASE FindPublic /\ UNCHANGED runVars
  BY <1>7 DEF FindPublic, Matches
<1>8. CASE GenerateKey /\ UNCHANGED runVars
  BY <1>8 DEF GenerateKey, generate_key
<1>9. CASE ResolvePublicKey /\ UNCHANGED runVars
  BY <1>9 DEF ResolvePublicKey, PublicKeys
<1>10. CASE SelfTestInit /\ UNCHANGED runVars
  BY <1>10 DEF SelfTestInit, sign_init
<1>11. CASE SelfTestSign /\ UNCHANGED runVars
  BY <1>11 DEF SelfTestSign, sign_into, Written
<1>12. CASE SelfTestVerify /\ UNCHANGED runVars
  BY <1>12 DEF SelfTestVerify, Verifies
<1>13. CASE Prepare
  BY <1>13 DEF Prepare
<1>14. CASE RegisterSigint
  BY <1>14 DEF RegisterSigint, Register
<1>15. CASE RegisterSigterm
  BY <1>15 DEF RegisterSigterm, Register
<1>16. CASE WarmupSign
  BY <1>16 DEF WarmupSign, Hand
<1>17. CASE WarmupInterrupted
  BY <1>17 DEF WarmupInterrupted
<1>18. CASE WarmupDone
  BY <1>18 DEF WarmupDone
<1>19. CASE MeasureSign
  BY <1>19 DEF MeasureSign, Hand
<1>20. CASE MeasureDone
  BY <1>20 DEF MeasureDone
<1>21. CASE Report
  BY <1>21 DEF Report
<1>22. CASE WriteFiles
  BY <1>22 DEF WriteFiles
<1>23. CASE SingleSign
  BY <1>23 DEF SingleSign, Hand
<1>24. CASE Emit
  BY <1>24 DEF Emit
<1>25. CASE OnceInit
  BY <1>25 DEF OnceInit, sign_init
<1>26. CASE OnceSign
  BY <1>26 DEF OnceSign, sign_into, Written
<1>27. CASE OnceVerify
  BY <1>27 DEF OnceVerify, Return, Verifies
<1>28. CASE Cleanup /\ UNCHANGED runVars
  BY <1>28 DEF Cleanup, message_sign_final
<1>29. CASE DestroyPrivate /\ UNCHANGED runVars
  BY <1>29 DEF DestroyPrivate, Destroy, destroy
<1>30. CASE DestroyPublic /\ UNCHANGED runVars
  BY <1>30 DEF DestroyPublic, Destroy, destroy
<1>31. CASE CloseSession /\ UNCHANGED runVars
  BY <1>31 DEF CloseSession, close_session
<1>32. CASE Finalize /\ UNCHANGED runVars
  BY <1>32 DEF Finalize, finalize
<1>33. ASSUME NEW s \in Signals, Signal(s) PROVE ModeInv'
  BY <1>33 DEF Signal
<1>34. CASE Tick
  BY <1>34 DEF Tick, Warming
<1>35. CASE UNCHANGED vars
  BY <1>35
<1> QED
  BY <1>1, <1>2, <1>3, <1>4, <1>5, <1>6, <1>7, <1>8, <1>9, <1>10, <1>11,
     <1>12, <1>13, <1>14, <1>15, <1>16, <1>17, <1>18, <1>19, <1>20, <1>21,
     <1>22, <1>23, <1>24, <1>25, <1>26, <1>27, <1>28, <1>29, <1>30, <1>31,
     <1>32, <1>33, <1>34, <1>35 DEF Next, Step, Connect, Benchmark, Once,
     Drop, Terminated

(* The configuration and the counts derived from it never change.          *)
LEMMA CfgStep ==
  [Next]_vars => /\ cfg' = cfg
                 /\ WarmupCount' = WarmupCount /\ TotalMessages' = TotalMessages
                 /\ Rehearsals' = Rehearsals
<1> SUFFICES ASSUME [Next]_vars PROVE cfg' = cfg
  BY DEF WarmupCount, WarmupTarget, TotalMessages, Rehearsals
<1> USE DEF vars, tokenVars, signerVars
<1>1. CASE Connect
  BY <1>1 DEF Connect, ResolveSlot, OpenSession, Login, FindPrivate, FindPublic,
     GenerateKey, ResolvePublicKey, SelfTestInit, SelfTestSign, SelfTestVerify
<1>2. CASE Benchmark
  BY <1>2 DEF Benchmark, Prepare, RegisterSigint, RegisterSigterm, Register,
     WarmupSign, WarmupInterrupted, WarmupDone, MeasureSign, MeasureDone, Hand,
     Report, WriteFiles
<1>3. CASE Once BY <1>3 DEF Once, OnceInit, OnceSign, OnceVerify
<1>4. CASE Drop
  BY <1>4 DEF Drop, Cleanup, DestroyPrivate, DestroyPublic, Destroy,
     CloseSession, Finalize
<1>5. CASE ParseArgs \/ Load \/ SingleSign \/ Emit \/ Tick
  BY <1>5 DEF ParseArgs, Load, SingleSign, Hand, Emit, Tick
<1>6. ASSUME NEW s \in Signals, Signal(s) PROVE cfg' = cfg
  BY <1>6 DEF Signal
<1> QED BY <1>1, <1>2, <1>3, <1>4, <1>5, <1>6 DEF Next, Step, Terminated

(* The token has seen the self-test's message, those of the warmup, and the *)
(* measured ones in their order up to the current one (run.rs:255-306).    *)
LEMMA MessageStep ==
  TypeOK /\ BufferInv /\ ModeInv /\ MessageInv /\ [Next]_vars => MessageInv'
<1> SUFFICES ASSUME TypeOK, BufferInv, ModeInv, MessageInv, [Next]_vars PROVE MessageInv'
  OBVIOUS
<1> USE DEF MessageInv, Warmup, Measuring, OnceSteps, Unprovisioned,
    ConnectSteps, SelfTestSteps, RunSteps, DropSteps, Connected, Goto, Fail,
    vars, tokenVars, signerVars, keyVars, signVars, runVars, signalVars,
    loopVars
<1>a. cfg' = cfg /\ WarmupCount' = WarmupCount /\ TotalMessages' = TotalMessages
      /\ Rehearsals' = Rehearsals
  BY CfgStep
<1>b. cfg \in Configs /\ index \in Nat /\ samples \in Seq(Message)
  BY DEF TypeOK, SignerTypeOK
<1>c. /\ cfg.iterations \in Nat /\ WarmupCount \in Nat /\ cfg.warmup <= WarmupCount
      /\ TotalMessages = WarmupCount + cfg.iterations
  BY <1>b, CountsType DEF TotalMessages
<1>1. CASE ParseArgs
  BY <1>1, <1>a, <1>b, <1>c DEF ParseArgs
<1>2. CASE Load
  BY <1>2, <1>a, <1>b, <1>c DEF Load, load
<1>3. CASE ResolveSlot /\ UNCHANGED runVars
  BY <1>3, <1>a, <1>b, <1>c DEF ResolveSlot
<1>4. CASE OpenSession /\ UNCHANGED runVars
  BY <1>4, <1>a, <1>b, <1>c DEF OpenSession, open_session
<1>5. CASE Login /\ UNCHANGED runVars
  BY <1>5, <1>a, <1>b, <1>c DEF Login, Provision
<1>6. CASE FindPrivate /\ UNCHANGED runVars
  BY <1>6, <1>a, <1>b, <1>c DEF FindPrivate, Matches
<1>7. CASE FindPublic /\ UNCHANGED runVars
  BY <1>7, <1>a, <1>b, <1>c DEF FindPublic, Matches
<1>8. CASE GenerateKey /\ UNCHANGED runVars
  BY <1>8, <1>a, <1>b, <1>c DEF GenerateKey, generate_key
<1>9. CASE ResolvePublicKey /\ UNCHANGED runVars
  BY <1>9, <1>a, <1>b, <1>c DEF ResolvePublicKey, PublicKeys
<1>10. CASE SelfTestInit /\ UNCHANGED runVars
  BY <1>10, <1>a, <1>b, <1>c DEF SelfTestInit, sign_init
<1>11. CASE SelfTestSign /\ UNCHANGED runVars
  BY <1>11, <1>a, <1>b, <1>c DEF SelfTestSign, sign_into, Written, BufferInv
<1>12. CASE SelfTestVerify /\ UNCHANGED runVars
  BY <1>12, <1>a, <1>b, <1>c DEF SelfTestVerify, Verifies
<1>13. CASE Prepare
  BY <1>13, <1>a, <1>b, <1>c DEF Prepare
<1>14. CASE RegisterSigint
  BY <1>14, <1>a, <1>b, <1>c DEF RegisterSigint, Register, Rehearsals
<1>15. CASE RegisterSigterm
  BY <1>15, <1>a, <1>b, <1>c DEF RegisterSigterm, Register, Rehearsals
<1>16. CASE WarmupSign
  <2>1. index % WarmupCount \in 0 .. WarmupCount - 1
    BY <1>16, <1>b, CountsType DEF WarmupSign, WarmupGoesOn, TypeOK
  <2> QED BY <1>16, <2>1, <1>a DEF WarmupSign, Hand
<1>17. CASE WarmupInterrupted
  BY <1>17, <1>a, <1>b, <1>c DEF WarmupInterrupted
<1>18. CASE WarmupDone
  <2>1. samples = << >> /\ signed \subseteq Rehearsals BY <1>18 DEF WarmupDone
  <2>2. samples' = samples /\ signed' = signed /\ index' = WarmupCount /\ pc' = "measure"
    BY <1>18 DEF WarmupDone
  <2>3. Len(samples) = 0 BY <2>1
  <2> QED BY <2>1, <2>2, <2>3, <1>a, <1>c DEF Rehearsals
<1>19. CASE MeasureSign
  BY <1>19, <1>a, <1>b, <1>c DEF MeasureSign, Hand
<1>20. CASE MeasureDone
  BY <1>20, <1>a, <1>b, <1>c DEF MeasureDone
<1>21. CASE Report
  BY <1>21, <1>a, <1>b, <1>c DEF Report
<1>22. CASE WriteFiles
  BY <1>22, <1>a, <1>b, <1>c DEF WriteFiles
<1>23. CASE SingleSign
  BY <1>23, <1>a, <1>b, <1>c DEF SingleSign, Hand
<1>24. CASE Emit
  BY <1>24, <1>a, <1>b, <1>c DEF Emit
<1>25. CASE OnceInit
  BY <1>25, <1>a, <1>b, <1>c DEF OnceInit, sign_init
<1>26. CASE OnceSign
  <2>1. /\ pc = "once_sign" /\ pc' \in {"cleanup", "once_verify"}
        /\ signed' = signed \cup {msg} /\ UNCHANGED <<msg, caller, index, samples>>
    BY <1>26 DEF OnceSign
  <2>2. CASE caller = "warmup" BY <2>1, <2>2, <1>a DEF Rehearsals
  <2>3. CASE caller = "measure" BY <2>1, <2>3, <1>a, <1>b, <1>c
  <2>4. CASE caller = "single" BY <2>1, <2>4, <1>a
  <2> QED BY <2>1, <2>2, <2>3, <2>4 DEF ModeInv
<1>27. CASE OnceVerify
  <2>1. pc = "once_verify" /\ signed' = signed BY <1>27 DEF OnceVerify
  <2>2. CASE pc' = "cleanup" BY <2>1, <2>2, <1>a
  <2>3. CASE Return /\ caller = "warmup"
    BY <2>1, <2>3, <1>a DEF Return
  <2>4. CASE Return /\ caller = "single"
    BY <2>1, <2>4, <1>a DEF Return
  <2>5. CASE Return /\ caller = "measure"
    <3>1. /\ pc' = "measure" /\ index' = index + 1
          /\ samples' = Append(samples, msg) /\ caller' = "none"
      BY <2>5 DEF Return
    <3>2. msg \in Message BY DEF TypeOK, SignerTypeOK
    <3>3. Len(samples') = Len(samples) + 1 BY <3>1, <3>2, <1>b
    <3> QED BY <2>1, <2>5, <3>1, <3>3, <1>a, <1>b, <1>c
  <2> QED BY <1>27, <2>1, <2>2, <2>3, <2>4, <2>5 DEF OnceVerify, ModeInv
<1>28. CASE Cleanup /\ UNCHANGED runVars
  BY <1>28, <1>a, <1>b, <1>c DEF Cleanup, message_sign_final
<1>29. CASE DestroyPrivate /\ UNCHANGED runVars
  BY <1>29, <1>a, <1>b, <1>c DEF DestroyPrivate, Destroy, destroy
<1>30. CASE DestroyPublic /\ UNCHANGED runVars
  BY <1>30, <1>a, <1>b, <1>c DEF DestroyPublic, Destroy, destroy
<1>31. CASE CloseSession /\ UNCHANGED runVars
  BY <1>31, <1>a, <1>b, <1>c DEF CloseSession, close_session
<1>32. CASE Finalize /\ UNCHANGED runVars
  BY <1>32, <1>a, <1>b, <1>c DEF Finalize, finalize
<1>33. ASSUME NEW s \in Signals, Signal(s) PROVE MessageInv'
  BY <1>33, <1>a, <1>b, <1>c DEF Signal
<1>34. CASE Tick
  BY <1>34, <1>a, <1>b, <1>c DEF Tick, Warming
<1>35. CASE UNCHANGED vars
  BY <1>35, <1>a, <1>b, <1>c
<1> QED
  BY <1>1, <1>2, <1>3, <1>4, <1>5, <1>6, <1>7, <1>8, <1>9, <1>10, <1>11,
     <1>12, <1>13, <1>14, <1>15, <1>16, <1>17, <1>18, <1>19, <1>20, <1>21,
     <1>22, <1>23, <1>24, <1>25, <1>26, <1>27, <1>28, <1>29, <1>30, <1>31,
     <1>32, <1>33, <1>34, <1>35 DEF Next, Step, Connect, Benchmark, Once,
     Drop, Terminated

(* The samples are the measured messages in order; nothing is published    *)
(* before the loop has ended (run.rs:296-317).                             *)
LEMMA OutputStep ==
  TypeOK /\ ModeInv /\ MessageInv /\ OutputInv /\ [Next]_vars => OutputInv'
<1> SUFFICES ASSUME TypeOK, ModeInv, MessageInv, OutputInv, [Next]_vars PROVE OutputInv'
  OBVIOUS
<1> USE DEF OutputInv, Exits, ConnectSteps, SelfTestSteps, RunSteps,
    DropSteps, Connected, Goto, Fail, vars, tokenVars, signerVars, keyVars,
    signVars, runVars, signalVars, loopVars
<1>a. cfg' = cfg /\ WarmupCount' = WarmupCount
  BY CfgStep
<1>b. cfg \in Configs /\ index \in Nat /\ samples \in Seq(Message)
  BY DEF TypeOK, SignerTypeOK
<1>c. /\ cfg.iterations \in Nat /\ WarmupCount \in Nat /\ cfg.warmup <= WarmupCount
      /\ TotalMessages = WarmupCount + cfg.iterations
  BY <1>b, CountsType DEF TotalMessages
<1>1. CASE ParseArgs
  BY <1>1, <1>a, <1>b, <1>c DEF ParseArgs
<1>2. CASE Load
  BY <1>2, <1>a, <1>b, <1>c DEF Load, load
<1>3. CASE ResolveSlot /\ UNCHANGED runVars
  BY <1>3, <1>a, <1>b, <1>c DEF ResolveSlot
<1>4. CASE OpenSession /\ UNCHANGED runVars
  BY <1>4, <1>a, <1>b, <1>c DEF OpenSession, open_session
<1>5. CASE Login /\ UNCHANGED runVars
  BY <1>5, <1>a, <1>b, <1>c DEF Login, Provision
<1>6. CASE FindPrivate /\ UNCHANGED runVars
  BY <1>6, <1>a, <1>b, <1>c DEF FindPrivate, Matches
<1>7. CASE FindPublic /\ UNCHANGED runVars
  BY <1>7, <1>a, <1>b, <1>c DEF FindPublic, Matches
<1>8. CASE GenerateKey /\ UNCHANGED runVars
  BY <1>8, <1>a, <1>b, <1>c DEF GenerateKey, generate_key
<1>9. CASE ResolvePublicKey /\ UNCHANGED runVars
  BY <1>9, <1>a, <1>b, <1>c DEF ResolvePublicKey, PublicKeys
<1>10. CASE SelfTestInit /\ UNCHANGED runVars
  BY <1>10, <1>a, <1>b, <1>c DEF SelfTestInit, sign_init
<1>11. CASE SelfTestSign /\ UNCHANGED runVars
  BY <1>11, <1>a, <1>b, <1>c DEF SelfTestSign, sign_into, Written
<1>12. CASE SelfTestVerify /\ UNCHANGED runVars
  BY <1>12, <1>a, <1>b, <1>c DEF SelfTestVerify, Verifies
<1>13. CASE Prepare
  BY <1>13, <1>a, <1>b, <1>c DEF Prepare
<1>14. CASE RegisterSigint
  BY <1>14, <1>a, <1>b, <1>c DEF RegisterSigint, Register
<1>15. CASE RegisterSigterm
  BY <1>15, <1>a, <1>b, <1>c DEF RegisterSigterm, Register
<1>16. CASE WarmupSign
  BY <1>16, <1>a, <1>b, <1>c DEF WarmupSign, Hand
<1>17. CASE WarmupInterrupted
  BY <1>17, <1>a, <1>b, <1>c DEF WarmupInterrupted
<1>18. CASE WarmupDone
  BY <1>18, <1>a, <1>b, <1>c DEF WarmupDone
<1>19. CASE MeasureSign
  BY <1>19, <1>a, <1>b, <1>c DEF MeasureSign, Hand
<1>20. CASE MeasureDone
  <2>1. /\ pc = "measure" /\ pc' = "report"
        /\ UNCHANGED <<samples, interrupted, published, result>>
    BY <1>20, Zenon DEF MeasureDone
  <2>2. index = TotalMessages => Len(samples) = cfg.iterations
    BY <2>1, <1>b, <1>c DEF MessageInv, Measuring
  <2>3. Len(samples) = cfg.iterations \/ interrupted
    BY <1>20, <2>2, Zenon DEF MeasureDone, FlagSeen
  <2>4. ~published BY <2>1
  <2> QED BY <2>1, <2>3, <2>4, <1>a, Zenon
<1>21. CASE Report
  BY <1>21, <1>a, <1>b, <1>c DEF Report
<1>22. CASE WriteFiles
  BY <1>22, <1>a, <1>b, <1>c DEF WriteFiles
<1>23. CASE SingleSign
  BY <1>23, <1>a, <1>b, <1>c DEF SingleSign, Hand
<1>24. CASE Emit
  <2>1. /\ published' = TRUE /\ pc' = "cleanup"
        /\ UNCHANGED <<samples, interrupted>>
    BY <1>24, Zenon DEF Emit
  <2>2. cfg.mode # "benchmark" BY <1>24 DEF Emit, ModeInv
  <2> QED BY <2>1, <2>2, <1>a, Zenon
<1>25. CASE OnceInit
  BY <1>25, <1>a, <1>b, <1>c DEF OnceInit, sign_init
<1>26. CASE OnceSign
  BY <1>26, <1>a, <1>b, <1>c DEF OnceSign, sign_into, Written
<1>27. CASE OnceVerify
  <2>1. pc = "once_verify" /\ pc' \in {"cleanup", "warmup", "emit", "measure"}
    BY <1>27 DEF OnceVerify, Return, ModeInv, OnceSteps
  <2>2. ~published /\ UNCHANGED published
    BY <1>27, <2>1, Zenon DEF OnceVerify
  <2>3. result # "ok" /\ result' \in {result, "err"}
    BY <1>27, <2>2 DEF OnceVerify, Return
  <2>4. ASSUME cfg.mode = "benchmark", NEW i \in 1 .. Len(samples')
        PROVE  samples'[i] = WarmupCount + i - 1
    <3>1. CASE samples' = samples BY <2>4, <3>1
    <3>2. CASE samples' = Append(samples, msg) /\ caller = "measure"
      <4>1. msg \in Message BY DEF TypeOK, SignerTypeOK
      <4>2. msg = WarmupCount + Len(samples)
        BY <2>1, <3>2, <1>b, <1>c DEF MessageInv, Measuring, OnceSteps
      <4> QED BY <2>4, <3>2, <4>1, <4>2, <1>b, <1>c
    <3> QED BY <1>27, <2>1, <2>4, <3>1, <3>2 DEF OnceVerify, Return, ModeInv, OnceSteps
  <2>5. pc' = "emit" => samples' # << >>
    <3>1. msg \in Message BY DEF TypeOK, SignerTypeOK
    <3>2. pc' = "emit" => samples' = Append(samples, msg)
      BY <1>27, <2>1 DEF OnceVerify, Return, ModeInv, OnceSteps
    <3> QED BY <3>1, <3>2, <1>b
  <2>6. result' # "pending" => pc' = "cleanup"
    BY <1>27, <2>1 DEF OnceVerify, Return
  <2> QED BY <2>1, <2>2, <2>3, <2>4, <2>5, <2>6, <1>a, Zenon
<1>28. CASE Cleanup /\ UNCHANGED runVars
  BY <1>28, <1>a, <1>b, <1>c DEF Cleanup, message_sign_final
<1>29. CASE DestroyPrivate /\ UNCHANGED runVars
  BY <1>29, <1>a, <1>b, <1>c DEF DestroyPrivate, Destroy, destroy
<1>30. CASE DestroyPublic /\ UNCHANGED runVars
  BY <1>30, <1>a, <1>b, <1>c DEF DestroyPublic, Destroy, destroy
<1>31. CASE CloseSession /\ UNCHANGED runVars
  BY <1>31, <1>a, <1>b, <1>c DEF CloseSession, close_session
<1>32. CASE Finalize /\ UNCHANGED runVars
  BY <1>32, <1>a, <1>b, <1>c DEF Finalize, finalize
<1>33. ASSUME NEW s \in Signals, Signal(s) PROVE OutputInv'
  BY <1>33, <1>a, <1>b, <1>c DEF Signal
<1>34. CASE Tick
  BY <1>34, <1>a, <1>b, <1>c DEF Tick, Warming
<1>35. CASE UNCHANGED vars
  BY <1>35, <1>a, <1>b, <1>c
<1> QED
  BY <1>1, <1>2, <1>3, <1>4, <1>5, <1>6, <1>7, <1>8, <1>9, <1>10, <1>11,
     <1>12, <1>13, <1>14, <1>15, <1>16, <1>17, <1>18, <1>19, <1>20, <1>21,
     <1>22, <1>23, <1>24, <1>25, <1>26, <1>27, <1>28, <1>29, <1>30, <1>31,
     <1>32, <1>33, <1>34, <1>35 DEF Next, Step, Connect, Benchmark, Once,
     Drop, Terminated

(* A handler is registered only where the program looks at the flag or is  *)
(* about to end, and the warmup stays in its bound (run.rs:203-262).       *)
LEMMA ProgressStep ==
  TypeOK /\ ModeInv /\ MessageInv /\ ProgressInv /\ [Next]_vars => ProgressInv'
<1> SUFFICES ASSUME TypeOK, ModeInv, MessageInv, ProgressInv, [Next]_vars
             PROVE  ProgressInv'
  OBVIOUS
<1> USE DEF ProgressInv, Interruptible, Leaving, InFlight, Warmup, OnceSteps,
    DropSteps, Exits, Goto, Fail, vars, tokenVars, signerVars, keyVars,
    signVars, runVars, signalVars, loopVars
<1>a. index \in Nat /\ MaxWarmup \in Nat
  BY RunAssumption DEF TypeOK
<1>1. CASE ParseArgs
  BY <1>1 DEF ParseArgs
<1>2. CASE Load
  BY <1>2 DEF Load, load
<1>3. CASE ResolveSlot /\ UNCHANGED runVars
  BY <1>3 DEF ResolveSlot
<1>4. CASE OpenSession /\ UNCHANGED runVars
  BY <1>4 DEF OpenSession, open_session
<1>5. CASE Login /\ UNCHANGED runVars
  BY <1>5 DEF Login, Provision
<1>6. CASE FindPrivate /\ UNCHANGED runVars
  BY <1>6 DEF FindPrivate, Matches
<1>7. CASE FindPublic /\ UNCHANGED runVars
  BY <1>7 DEF FindPublic, Matches
<1>8. CASE GenerateKey /\ UNCHANGED runVars
  BY <1>8 DEF GenerateKey, generate_key
<1>9. CASE ResolvePublicKey /\ UNCHANGED runVars
  BY <1>9 DEF ResolvePublicKey, PublicKeys
<1>10. CASE SelfTestInit /\ UNCHANGED runVars
  BY <1>10 DEF SelfTestInit, sign_init
<1>11. CASE SelfTestSign /\ UNCHANGED runVars
  BY <1>11 DEF SelfTestSign, sign_into, Written
<1>12. CASE SelfTestVerify /\ UNCHANGED runVars
  BY <1>12 DEF SelfTestVerify, Verifies
<1>13. CASE Prepare
  BY <1>13 DEF Prepare
<1>14. CASE RegisterSigint
  <2>1. /\ pc = "register_sigint" /\ pc' \in {"register_sigterm", "cleanup"}
        /\ pc' = "register_sigterm" => handlers' = handlers \cup {"SIGINT"}
        /\ pc' = "cleanup" => handlers' = handlers
        /\ interrupted' = interrupted
    BY <1>14 DEF RegisterSigint, Register
  <2>2. handlers = {}
    BY <2>1
  <2>3. ~interrupted
    BY <2>2, Zenon
  <2> QED BY <2>1, <2>3
<1>15. CASE RegisterSigterm
  <2>1. /\ pc = "register_sigterm" /\ pc' \in {"warmup", "cleanup"}
        /\ \/ handlers' = handlers \cup {"SIGTERM"}
           \/ handlers' = handlers
        /\ interrupted' = interrupted /\ index' = index
    BY <1>15 DEF RegisterSigterm, Register
  <2>2. index = 0
    BY <2>1 DEF MessageInv
  <2>3. handlers # {} => handlers' # {}
    BY <2>1
  <2>4. interrupted' => handlers' # {}
    BY <2>1, <2>3, Zenon
  <2> QED BY <2>1, <2>2, <2>4, <1>a
<1>16. CASE WarmupSign
  <2>1. /\ pc = "warmup" /\ pc' = "once_init" /\ index < MaxWarmup
        /\ UNCHANGED <<handlers, interrupted, index>>
    BY <1>16 DEF WarmupSign, Hand
  <2> QED BY <2>1, <1>a
<1>17. CASE WarmupInterrupted
  BY <1>17 DEF WarmupInterrupted
<1>18. CASE WarmupDone
  <2>1. pc = "warmup" /\ pc' = "measure" /\ UNCHANGED <<handlers, interrupted>>
    BY <1>18 DEF WarmupDone
  <2> QED BY <2>1, Zenon
<1>19. CASE MeasureSign
  BY <1>19 DEF MeasureSign, Hand
<1>20. CASE MeasureDone
  BY <1>20 DEF MeasureDone
<1>21. CASE Report
  BY <1>21 DEF Report
<1>22. CASE WriteFiles
  BY <1>22 DEF WriteFiles
<1>23. CASE SingleSign
  BY <1>23 DEF SingleSign, Hand
<1>24. CASE Emit
  BY <1>24 DEF Emit
<1>25. CASE OnceInit
  BY <1>25 DEF OnceInit, sign_init
<1>26. CASE OnceSign
  BY <1>26 DEF OnceSign, sign_into, Written
<1>27. CASE OnceVerify
  <2>1. /\ pc = "once_verify" /\ pc' \in {"cleanup", "emit", "warmup", "measure"}
        /\ UNCHANGED <<handlers, interrupted>>
    BY <1>27 DEF OnceVerify, Return, ModeInv
  <2>2. pc' = "warmup" => caller = "warmup" /\ index' = index + 1
    BY <1>27 DEF OnceVerify, Return
  <2>3. pc' = "warmup" => index' + 0 <= MaxWarmup
    BY <2>1, <2>2, <1>a
  <2>4. Warmup' => index' + InFlight' <= MaxWarmup
    BY <2>1, <2>3
  <2>5. pc' \in Interruptible
    BY <2>1
  <2>6. interrupted' => handlers' # {}
    BY <2>1, Zenon
  <2> QED BY <2>4, <2>5, <2>6, Zenon
<1>28. CASE Cleanup /\ UNCHANGED runVars
  BY <1>28 DEF Cleanup, message_sign_final
<1>29. CASE DestroyPrivate /\ UNCHANGED runVars
  BY <1>29 DEF DestroyPrivate, Destroy, destroy
<1>30. CASE DestroyPublic /\ UNCHANGED runVars
  BY <1>30 DEF DestroyPublic, Destroy, destroy
<1>31. CASE CloseSession /\ UNCHANGED runVars
  BY <1>31 DEF CloseSession, close_session
<1>32. CASE Finalize /\ UNCHANGED runVars
  BY <1>32 DEF Finalize, finalize
<1>33. ASSUME NEW s \in Signals, Signal(s) PROVE ProgressInv'
  BY <1>33 DEF Signal
<1>34. CASE Tick
  BY <1>34 DEF Tick, Warming
<1>35. CASE UNCHANGED vars
  BY <1>35
<1> QED
  BY <1>1, <1>2, <1>3, <1>4, <1>5, <1>6, <1>7, <1>8, <1>9, <1>10, <1>11,
     <1>12, <1>13, <1>14, <1>15, <1>16, <1>17, <1>18, <1>19, <1>20, <1>21,
     <1>22, <1>23, <1>24, <1>25, <1>26, <1>27, <1>28, <1>29, <1>30, <1>31,
     <1>32, <1>33, <1>34, <1>35 DEF Next, Step, Connect, Benchmark, Once,
     Drop, Terminated

-----------------------------------------------------------------------------
(* The invariant and what follows from it.                                 *)

(* The program starts in the invariant.                                    *)
LEMMA InitInv == Init => IInv
<1> SUFFICES ASSUME Init PROVE IInv
  OBVIOUS
<1> USE DEF Init, Pkcs11Init, SignerInit
<1>1. TypeOK
  <2>1. owns \in BOOLEAN /\ interrupted \in BOOLEAN /\ published \in BOOLEAN
    BY Zenon
  <2>2. Pkcs11TypeOK BY DEF Pkcs11TypeOK, CallerObjects, Object, Pair
  <2>3. keys \in [private : Handle, public : Handle] BY DEF Handle
  <2>4. /\ cfg \in Configs /\ vk = NoPair /\ msg \in Message /\ buf \in Sigs
        /\ signed = {} /\ abandoned = {} /\ result = "pending"
    BY NoSignatureType, Zenon DEF Message
  <2>5. SignerTypeOK BY <2>1, <2>3, <2>4, Zenon DEF SignerTypeOK
  <2>6. /\ pc \in Steps /\ handlers = {} /\ caller = "none"
        /\ index \in Nat /\ elapsed \in Nat /\ samples \in Seq(Message)
    BY DEF Steps
  <2> QED BY <2>1, <2>2, <2>5, <2>6, Zenon DEF TypeOK
<1>2. SessionInv /\ OperationInv /\ ModeInv
  BY DEF SessionInv, OperationInv, ModeInv, OnceSteps, ConnectSteps, SelfTestSteps,
         RunSteps, DropSteps, Connected, Unprovisioned
<1>3. KeyInv
  BY DEF KeyInv, ConnectSteps, SelfTestSteps, RunSteps, Connected, Unprovisioned
<1>4. NewObjects \cap CallerObjects = {}
  BY PairAssumption DEF NewObjects, CallerObjects
<1>5. CustodyInv
  BY <1>4 DEF CustodyInv, SelfTestSteps, RunSteps, Connected, Unprovisioned
<1>6. BufferInv /\ MessageInv
  BY DEF BufferInv, NoSignature, Signature, MessageInv, Warmup, Measuring, OnceSteps
<1>7. OutputInv
  <2>1. ~published /\ result # "ok" /\ samples = << >> /\ pc = "parse" BY Zenon
  <2>2. Len(samples) = 0 BY <2>1
  <2>3. 1 .. Len(samples) = {} BY <2>2
  <2> QED BY <2>1, <2>3, Zenon DEF OutputInv
<1>8. ProgressInv
  BY DEF ProgressInv, Warmup, OnceSteps
<1> QED BY <1>1, <1>2, <1>3, <1>5, <1>6, <1>7, <1>8 DEF IInv

(* No step of the program, a signal or the clock leaves the invariant.     *)
LEMMA NextInv == IInv /\ [Next]_vars => IInv'
BY TypeStep, SessionStep, KeyStep, CustodyStep, OperationStep, BufferStep,
   ModeStep, MessageStep, OutputStep, ProgressStep
DEF IInv

(* The inductive invariant holds of every run, for any configurations, any *)
(* set of failing calls and any token behaviour Pkcs11 allows.             *)
THEOREM Invariance == Spec => []IInv
BY InitInv, NextInv, PTL DEF Spec

(* Every variable stays in its range.                                      *)
THEOREM TypeCorrect == Spec => []TypeOK
BY Invariance, PTL DEF IInv

(* No run destroys a key object it did not generate (signer.rs:44-45).     *)
THEOREM CallerKeysSafe == Spec => []CallerKeysSurvive
<1>1. IInv => CallerKeysSurvive BY DEF IInv, CustodyInv, CallerKeysSurvive
<1> QED BY <1>1, Invariance, PTL

(* Past the self-test, the key that signs is the key that verifies         *)
(* (signer.rs:151-167), though neither the search nor --public-key is.     *)
THEOREM SignerAgreement == Spec => []SignerAgrees
<1>1. IInv => SignerAgrees BY DEF IInv, KeyInv, SignerAgrees
<1> QED BY <1>1, Invariance, PTL

(* The token's signing operations are started and used in turn             *)
(* (pkcs11.rs:538-621).                                                    *)
THEOREM OperationsInTurn == Spec => []OperationDiscipline
<1>1. IInv => OperationDiscipline
  <2> SUFFICES ASSUME IInv PROVE OperationDiscipline OBVIOUS
  <2>1. cfg.curve \in Curve BY CountsType DEF IInv, TypeOK, SignerTypeOK
  <2> QED BY <2>1 DEF IInv, OperationInv, OperationDiscipline, RunSteps, Curve
<1> QED BY <1>1, Invariance, PTL

(* Every exit that is not a kill leaves the session closed and the module  *)
(* finalized, in this order (pkcs11.rs:333-343, 641-649).                  *)
THEOREM EverythingTornDown == Spec => []TornDown
<1>1. IInv => TornDown BY DEF IInv, SessionInv, TornDown
<1> QED BY <1>1, Invariance, PTL

(* A run that exits leaves none of its objects but those it was refused or *)
(* lost before it had a Signer (signer.rs:222-244).                        *)
THEOREM KeysAccounted == Spec => []GeneratedKeyAccounted
<1>1. IInv => GeneratedKeyAccounted BY DEF IInv, CustodyInv, GeneratedKeyAccounted
<1> QED BY <1>1, Invariance, PTL

(* A measured message is new to the token and the buffer holds no          *)
(* signature of it: a sample cannot come from a cache (run.rs:197-199).    *)
THEOREM PayloadsFresh == Spec => []FreshPayload
<1>1. IInv => FreshPayload
  <2> SUFFICES ASSUME IInv, pc \in {"once_init", "once_sign"}, caller = "measure"
               PROVE  msg \notin signed /\ ~Verifies(msg, buf)
    BY DEF FreshPayload
  <2>1. msg \in Nat /\ signed \subseteq {Probe} \cup 0 .. msg - 1
    BY DEF IInv, TypeOK, MessageInv, Measuring, OnceSteps
  <2>2. msg \notin signed \cup {Probe} BY <2>1, PairAssumption
  <2>3. buf.message # msg BY <2>2 DEF IInv, BufferInv
  <2> QED BY <2>2, <2>3 DEF Verifies, Signature
<1> QED BY <1>1, Invariance, PTL

(* A published benchmark has a sample of each measured message, in order,  *)
(* unless it was interrupted; a success has published (run.rs:282-315).    *)
THEOREM RunsComplete == Spec => []PublishedRunIsComplete
<1>1. IInv => PublishedRunIsComplete
  <2> SUFFICES ASSUME IInv PROVE PublishedRunIsComplete OBVIOUS
  <2>1. ASSUME cfg.mode = "benchmark"
        PROVE  samples = [i \in 1 .. Len(samples) |-> WarmupCount + i - 1]
    <3>1. samples \in Seq(Message) BY DEF IInv, TypeOK
    <3>2. samples = [i \in 1 .. Len(samples) |-> samples[i]] BY <3>1
    <3>3. \A i \in 1 .. Len(samples) : samples[i] = WarmupCount + i - 1
      BY <2>1 DEF IInv, OutputInv
    <3> QED BY <3>2, <3>3, Zenon
  <2>2. OutputInv BY DEF IInv
  <2> QED BY <2>1, <2>2, Zenon DEF OutputInv, PublishedRunIsComplete
<1> QED BY <1>1, Invariance, PTL

-----------------------------------------------------------------------------
(* How much is ahead: a run is finite, and an interrupted one short.       *)

Variant == Left \in 0 .. 24 /\ Rounds \in Nat

(* Both parts of the variant are numbers.                                  *)
LEMMA VariantType == IInv => Variant
<1> SUFFICES ASSUME IInv PROVE Variant
  OBVIOUS
<1>1. pc \in Steps /\ index \in Nat /\ cfg \in Configs /\ MaxWarmup \in Nat
  BY RunAssumption DEF IInv, TypeOK, SignerTypeOK
<1>2. /\ cfg.iterations \in Nat /\ WarmupCount \in Nat
      /\ TotalMessages = WarmupCount + cfg.iterations
  BY <1>1, CountsType DEF TotalMessages
<1>0. ModeInv /\ MessageInv /\ ProgressInv
  BY DEF IInv
<1> USE DEF Steps, ConnectSteps, SelfTestSteps, RunSteps, DropSteps, Exits,
    OnceSteps
<1>3. Left \in 0 .. 24
  BY <1>1 DEF Left
<1>4. Rounds \in Nat
  <2>1. CASE cfg.mode = "single" \/ pc \in Leaving
    BY <2>1 DEF Rounds
  <2>2. CASE Measuring
    <3>1. /\ index <= TotalMessages
          /\ pc \in OnceSteps => index < TotalMessages
      BY <2>2, <1>0 DEF Measuring, MessageInv
    <3>2. TotalMessages - index - InFlight \in Nat
      BY <3>1, <1>1, <1>2 DEF InFlight
    <3> QED BY <2>2, <3>2 DEF Rounds
  <2>3. CASE Warmup
    <3>1. index + InFlight <= MaxWarmup /\ ~Measuring
      BY <2>3, <1>0 DEF Measuring, Warmup, ProgressInv
    <3>2. MaxWarmup + cfg.iterations - index - InFlight \in Nat
      BY <3>1, <1>1, <1>2 DEF InFlight
    <3> QED BY <3>1, <3>2 DEF Rounds
  <2>4. CASE /\ cfg.mode # "single" /\ pc \notin Leaving
             /\ ~Measuring /\ ~Warmup
    <3>1. pc \notin OnceSteps
      BY <2>4, <1>0 DEF ModeInv, Measuring, Warmup
    <3>2. index = 0
      BY <2>4, <3>1, <1>0, <1>1
      DEF MessageInv, Measuring, Warmup, Leaving, Unprovisioned
    <3> QED BY <2>4, <3>1, <3>2, <1>1, <1>2 DEF Rounds, InFlight
  <2> QED BY <2>1, <2>2, <2>3, <2>4
<1> QED BY <1>3, <1>4 DEF Variant

(* A step of the program ends something or begins an iteration; it does not*)
(* begin one once the flag is set.                                         *)
LEMMA Descent ==
  IInv /\ Step =>
    \/ Left' < Left /\ Rounds' <= Rounds
    \/ ~interrupted /\ Left' <= Left + 4 /\ Rounds' = Rounds - 1
<1> DEFINE Down  == Left' < Left /\ Rounds' <= Rounds
           Begin == ~interrupted /\ Left' <= Left + 4 /\ Rounds' = Rounds - 1
<1> SUFFICES ASSUME IInv, Step PROVE Down \/ Begin
  OBVIOUS
<1>a. Rounds \in Nat /\ index \in Nat /\ MaxWarmup \in Nat /\ cfg \in Configs
  BY VariantType, RunAssumption DEF Variant, IInv, TypeOK, SignerTypeOK
<1>b. /\ cfg' = cfg /\ WarmupCount' = WarmupCount
      /\ TotalMessages' = TotalMessages
  BY CfgStep DEF Next
<1>c. /\ cfg.iterations \in Nat /\ WarmupCount \in Nat
      /\ TotalMessages = WarmupCount + cfg.iterations
  BY <1>a, CountsType DEF TotalMessages
<1>d. ModeInv /\ MessageInv /\ ProgressInv
  BY DEF IInv
<1> USE DEF Left, Rounds, InFlight, Leaving, Measuring, OnceSteps, DropSteps,
    Exits, Goto, Fail, vars, tokenVars, signerVars, keyVars, signVars,
    runVars, signalVars, loopVars
<1>1. CASE ParseArgs
  BY <1>1, <1>a, <1>b, <1>c DEF ParseArgs
<1>2. CASE Load
  BY <1>2, <1>a, <1>b, <1>c DEF Load, load
<1>3. CASE ResolveSlot /\ UNCHANGED runVars
  BY <1>3, <1>a, <1>b, <1>c DEF ResolveSlot
<1>4. CASE OpenSession /\ UNCHANGED runVars
  BY <1>4, <1>a, <1>b, <1>c DEF OpenSession, open_session
<1>5. CASE Login /\ UNCHANGED runVars
  BY <1>5, <1>a, <1>b, <1>c DEF Login, Provision
<1>6. CASE FindPrivate /\ UNCHANGED runVars
  BY <1>6, <1>a, <1>b, <1>c DEF FindPrivate, Matches
<1>7. CASE FindPublic /\ UNCHANGED runVars
  BY <1>7, <1>a, <1>b, <1>c DEF FindPublic, Matches
<1>8. CASE GenerateKey /\ UNCHANGED runVars
  BY <1>8, <1>a, <1>b, <1>c DEF GenerateKey, generate_key
<1>9. CASE ResolvePublicKey /\ UNCHANGED runVars
  BY <1>9, <1>a, <1>b, <1>c DEF ResolvePublicKey, PublicKeys
<1>10. CASE SelfTestInit /\ UNCHANGED runVars
  BY <1>10, <1>a, <1>b, <1>c DEF SelfTestInit, sign_init
<1>11. CASE SelfTestSign /\ UNCHANGED runVars
  BY <1>11, <1>a, <1>b, <1>c DEF SelfTestSign, sign_into, Written
<1>12. CASE SelfTestVerify /\ UNCHANGED runVars
  BY <1>12, <1>a, <1>b, <1>c DEF SelfTestVerify, Verifies
<1>13. CASE Prepare
  BY <1>13, <1>a, <1>b, <1>c DEF Prepare
<1>14. CASE RegisterSigint
  BY <1>14, <1>a, <1>b, <1>c DEF RegisterSigint, Register
<1>15. CASE RegisterSigterm
  BY <1>15, <1>a, <1>b, <1>c DEF RegisterSigterm, Register
<1>16. CASE WarmupSign
  <2>1. /\ pc = "warmup" /\ pc' = "once_init" /\ caller' = "warmup"
        /\ index' = index /\ ~interrupted
    BY <1>16, Zenon DEF WarmupSign, FlagSeen, Hand
  <2>2. cfg.mode # "single"
    BY <2>1, <1>d DEF ModeInv
  <2>3. Left = 9 /\ Left' = 12
    BY <2>1
  <2>4. /\ Rounds = MaxWarmup + cfg.iterations - index - 0
        /\ Rounds' = MaxWarmup + cfg.iterations - index - 1
    BY <2>1, <2>2, <1>b
  <2> QED BY <2>1, <2>3, <2>4, <1>a, <1>c
<1>17. CASE WarmupInterrupted
  BY <1>17, <1>a, <1>b, <1>c DEF WarmupInterrupted
<1>18. CASE WarmupDone
  <2>1. pc = "warmup" /\ pc' = "measure" /\ index' = WarmupCount
    BY <1>18, Zenon DEF WarmupDone
  <2>2. cfg.mode # "single" /\ index + 0 <= MaxWarmup
    BY <2>1, <1>d DEF ModeInv, ProgressInv, Warmup
  <2>3. Left = 9 /\ Left' = 8
    BY <2>1
  <2>4. /\ Rounds = MaxWarmup + cfg.iterations - index - 0
        /\ Rounds' = TotalMessages - WarmupCount - 0
    BY <2>1, <2>2, <1>b
  <2> HIDE DEF Left, Rounds
  <2> QED BY <2>2, <2>3, <2>4, <1>a, <1>c
<1>19. CASE MeasureSign
  <2>1. /\ pc = "measure" /\ pc' = "once_init" /\ caller' = "measure"
        /\ index' = index /\ ~interrupted
    BY <1>19, Zenon DEF MeasureSign, FlagSeen, Hand
  <2>2. cfg.mode # "single"
    BY <2>1, <1>d DEF ModeInv
  <2>3. Left = 8 /\ Left' = 12
    BY <2>1
  <2>4. /\ Rounds = TotalMessages - index - 0
        /\ Rounds' = TotalMessages - index - 1
    BY <2>1, <2>2, <1>b
  <2> QED BY <2>1, <2>3, <2>4, <1>a, <1>c
<1>20. CASE MeasureDone
  BY <1>20, <1>a, <1>b, <1>c DEF MeasureDone
<1>21. CASE Report
  BY <1>21, <1>a, <1>b, <1>c DEF Report
<1>22. CASE WriteFiles
  BY <1>22, <1>a, <1>b, <1>c DEF WriteFiles
<1>23. CASE SingleSign
  BY <1>23, <1>a, <1>b, <1>c DEF SingleSign, Hand
<1>24. CASE Emit
  BY <1>24, <1>a, <1>b, <1>c DEF Emit
<1>25. CASE OnceInit
  BY <1>25, <1>a, <1>b, <1>c DEF OnceInit, sign_init
<1>26. CASE OnceSign
  BY <1>26, <1>a, <1>b, <1>c DEF OnceSign, sign_into, Written
<1>27. CASE OnceVerify
  <2>1. pc = "once_verify" /\ Left = 10
    BY <1>27 DEF OnceVerify
  <2>2. CASE pc' = "cleanup" \/ caller = "single"
    <3>1. pc' \in {"cleanup", "emit"} /\ Left' \in {5, 6}
      BY <1>27, <2>2, <1>d DEF OnceVerify, Return, ModeInv
    <3> QED BY <2>1, <3>1, <1>a, <1>b
  <2>3. CASE pc' = "warmup" /\ caller = "warmup" /\ index' = index + 1
    <3>1. cfg.mode # "single" /\ Left' = 9
      BY <2>1, <2>3, <1>d DEF ModeInv
    <3>2. /\ Rounds = MaxWarmup + cfg.iterations - index - 1
          /\ Rounds' = MaxWarmup + cfg.iterations - index' - 0
      BY <2>1, <2>3, <3>1, <1>b
    <3> QED BY <2>1, <2>3, <3>1, <3>2, <1>a, <1>c
  <2>4. CASE pc' = "measure" /\ caller = "measure" /\ index' = index + 1
    <3>1. cfg.mode # "single" /\ Left' = 8
      BY <2>1, <2>4, <1>d DEF ModeInv
    <3>2. /\ Rounds = TotalMessages - index - 1
          /\ Rounds' = TotalMessages - index' - 0
      BY <2>1, <2>4, <3>1, <1>b
    <3> QED BY <2>1, <2>4, <3>1, <3>2, <1>a, <1>c
  <2>5. \/ pc' = "cleanup" \/ caller = "single"
        \/ /\ caller \in {"warmup", "measure"}
           /\ pc' = caller /\ index' = index + 1
    BY <1>27, <2>1, <1>d DEF OnceVerify, Return, ModeInv
  <2> QED BY <2>2, <2>3, <2>4, <2>5
<1>28. CASE Cleanup /\ UNCHANGED runVars
  BY <1>28, <1>a, <1>b, <1>c DEF Cleanup, message_sign_final
<1>29. CASE DestroyPrivate /\ UNCHANGED runVars
  BY <1>29, <1>a, <1>b, <1>c DEF DestroyPrivate, Destroy, destroy
<1>30. CASE DestroyPublic /\ UNCHANGED runVars
  BY <1>30, <1>a, <1>b, <1>c DEF DestroyPublic, Destroy, destroy
<1>31. CASE CloseSession /\ UNCHANGED runVars
  BY <1>31, <1>a, <1>b, <1>c DEF CloseSession, close_session
<1>32. CASE Finalize /\ UNCHANGED runVars
  BY <1>32, <1>a, <1>b, <1>c DEF Finalize, finalize
<1> QED
  BY <1>1, <1>2, <1>3, <1>4, <1>5, <1>6, <1>7, <1>8, <1>9, <1>10, <1>11,
     <1>12, <1>13, <1>14, <1>15, <1>16, <1>17, <1>18, <1>19, <1>20, <1>21,
     <1>22, <1>23, <1>24, <1>25, <1>26, <1>27, <1>28, <1>29, <1>30, <1>31,
     <1>32, Zenon DEF Step, Connect, Benchmark, Once, Drop

(* A signal and the clock leave it as it is, or there is nothing ahead.    *)
LEMMA Undisturbed ==
  IInv /\ [Next]_vars =>
    \/ Step
    \/ Left' = Left /\ Rounds' = Rounds
    \/ Left' = 0 /\ Rounds' = 0
<1> SUFFICES ASSUME IInv, [Next]_vars, ~Step
             PROVE  \/ Left' = Left /\ Rounds' = Rounds
                    \/ Left' = 0 /\ Rounds' = 0
  OBVIOUS
<1>1. cfg' = cfg /\ TotalMessages' = TotalMessages
  BY CfgStep
<1>2. ASSUME UNCHANGED <<pc, caller, index>>
      PROVE  Left' = Left /\ Rounds' = Rounds
  BY <1>1, <1>2 DEF Left, Rounds, InFlight, Measuring
<1>3. ASSUME pc' = "killed" PROVE Left' = 0 /\ Rounds' = 0
  BY <1>3 DEF Left, Rounds, Leaving, Exits
<1>4. ASSUME NEW s \in Signals, Signal(s)
      PROVE  pc' = "killed" \/ UNCHANGED <<pc, caller, index>>
  BY <1>4 DEF Signal, loopVars
<1>5. Tick => UNCHANGED <<pc, caller, index>>
  BY DEF Tick, signerVars
<1>6. UNCHANGED vars => UNCHANGED <<pc, caller, index>>
  BY DEF vars, signerVars, runVars, loopVars
<1> QED BY <1>2, <1>3, <1>4, <1>5, <1>6 DEF Next, Terminated

(* A run is finite, whatever the token answers with and whichever calls    *)
(* fail: every step of the program takes it nearer to its end, and neither *)
(* a signal nor the clock takes it away from there. What Termination adds  *)
(* is that each call returns.                                              *)
THEOREM RunIsFinite ==
  Spec => [](Ahead \in Nat) /\ [][Ahead' <= Ahead /\ (Step => Ahead' < Ahead)]_vars
<1>1. Variant => Ahead \in Nat
  BY DEF Variant, Ahead
<1>2. IInv /\ Variant /\ Variant' /\ [Next]_vars
        => [Ahead' <= Ahead /\ (Step => Ahead' < Ahead)]_vars
  <2> SUFFICES ASSUME IInv, Variant, Variant', [Next]_vars
               PROVE  Ahead' <= Ahead /\ (Step => Ahead' < Ahead)
    OBVIOUS
  <2>1. /\ Left \in Nat /\ Rounds \in Nat
        /\ Left' \in Nat /\ Rounds' \in Nat
    BY DEF Variant
  <2>2. ASSUME NEW l \in Nat, NEW m \in Nat, NEW r \in Nat, NEW s \in Nat
        PROVE  /\ l + 5 * r \in Nat
               /\ m < l /\ s <= r => m + 5 * s < l + 5 * r
               /\ m <= l + 4 /\ s = r - 1 => m + 5 * s < l + 5 * r
    OBVIOUS
  <2>3. ASSUME Step PROVE Ahead' < Ahead
    <3>1. \/ Left' < Left /\ Rounds' <= Rounds
          \/ Left' <= Left + 4 /\ Rounds' = Rounds - 1
      BY <2>3, Descent, Zenon
    <3> QED BY <2>1, <2>2, <3>1 DEF Ahead
  <2>4. Ahead \in Nat /\ Ahead' \in Nat
    BY <2>1, <2>2 DEF Ahead
  <2>5. ASSUME ~Step PROVE Ahead' <= Ahead
    <3>1. CASE Left' = Left /\ Rounds' = Rounds
      BY <2>4, <3>1 DEF Ahead
    <3>2. CASE Left' = 0 /\ Rounds' = 0
      BY <2>4, <3>2 DEF Ahead
    <3> QED BY <2>5, <3>1, <3>2, Undisturbed
  <2> QED BY <2>3, <2>4, <2>5
<1> QED BY <1>1, <1>2, VariantType, Invariance, PTL DEF Spec

(* An interrupt ends a run promptly, however many iterations were asked    *)
(* for: the iteration under way is the last, and at most twelve steps are  *)
(* left, the report's and the clean-up's included (run.rs:255-308).        *)
THEOREM InterruptIsPrompt ==
  Spec => /\ [](interrupted => Left <= 12)
          /\ [][interrupted => Left' <= Left /\ (Step => Left' < Left)]_vars
<1>1. IInv => (interrupted => Left <= 12)
  <2> SUFFICES ASSUME IInv, interrupted PROVE Left <= 12
    OBVIOUS
  <2>1. pc \in Interruptible
    BY Zenon DEF IInv, ProgressInv
  <2> QED BY <2>1 DEF Interruptible, Leaving, OnceSteps, DropSteps, Exits, Left
<1>2. IInv /\ Variant /\ Variant' /\ [Next]_vars
        => [interrupted => Left' <= Left /\ (Step => Left' < Left)]_vars
  <2> SUFFICES ASSUME IInv, Variant, Variant', [Next]_vars, interrupted
               PROVE  Left' <= Left /\ (Step => Left' < Left)
    OBVIOUS
  <2>1. Left \in Nat /\ Left' \in Nat
    BY DEF Variant
  <2>2. Step => Left' < Left
    <3>1. \/ Left' < Left /\ Rounds' <= Rounds
          \/ ~interrupted
          \/ ~Step
      BY Descent
    <3> QED BY <3>1, Zenon
  <2>3. Left' <= Left
    BY <2>1, <2>2, Undisturbed
  <2> QED BY <2>2, <2>3
<1> QED BY <1>1, <1>2, VariantType, Invariance, PTL DEF Spec

-----------------------------------------------------------------------------
(* The run implements KeyCustody and Measurement.                          *)

(* An action property: what is kept is a signature of the private key over *)
(* the message of the iteration (run.rs:74-80).                            *)
THEOREM GenuineOutput == Spec => OutputIsGenuine
<1>1. IInv /\ [Next]_vars => [KeepsGenuine]_vars
  <2> SUFFICES ASSUME IInv, [Next]_vars, samples' # samples PROVE KeepsGenuine
    BY DEF KeepsGenuine
  <2> USE DEF runVars, loopVars, vars
  <2>1. OnceVerify
    <3>1. CASE Connect /\ UNCHANGED runVars BY <3>1
    <3>2. CASE Benchmark
      BY <3>2 DEF Benchmark, Prepare, RegisterSigint, RegisterSigterm, Register,
         WarmupSign, WarmupInterrupted, WarmupDone, MeasureSign, MeasureDone,
         Hand, Report, WriteFiles
    <3>3. CASE Once BY <3>3 DEF Once, OnceInit, OnceSign
    <3>4. CASE Drop /\ UNCHANGED runVars BY <3>4
    <3>5. CASE ParseArgs \/ Load \/ SingleSign \/ Emit \/ Tick
      BY <3>5 DEF ParseArgs, Load, SingleSign, Hand, Emit, Tick
    <3>6. ASSUME NEW s \in Signals, Signal(s) PROVE FALSE
      BY <3>6 DEF Signal
    <3> QED BY <3>1, <3>2, <3>3, <3>4, <3>5, <3>6 DEF Next, Step, Terminated
  <2>2. Verifies(msg, buf) /\ samples' = Append(samples, msg)
    BY <2>1 DEF OnceVerify, Return
  <2>3. keys.private.pair = vk /\ msg \in signed
    BY <2>1 DEF OnceVerify, IInv, KeyInv, BufferInv, RunSteps
  <2> QED BY <2>2, <2>3 DEF KeepsGenuine, Verifies
<1> QED BY <1>1, Invariance, PTL DEF Spec, OutputIsGenuine

(* A run starts as KeyCustody does: with no object of its own.             *)
LEMMA CustodyInit == Init => Custody!Init
<1> SUFFICES ASSUME Init PROVE Custody!Init
  OBVIOUS
<1>1. NewObjects \cap CallerObjects = {}
  BY PairAssumption DEF NewObjects, CallerObjects
<1> QED BY <1>1 DEF Init, Pkcs11Init, SignerInit, Custody!Init

(* Every step of a run is one of KeyCustody's, or changes nothing there.    *)
LEMMA CustodyNext ==
  IInv /\ [Next]_vars => [Custody!Next]_(Custody!custody)
<1> SUFFICES ASSUME IInv, [Next]_vars
             PROVE  [Custody!Next]_(Custody!custody)
  OBVIOUS
<1> USE DEF Custody!Next, Custody!custody, Goto, Fail, tokenVars, signerVars,
    keyVars, signVars, runVars, vars
<1>a. KeyInv /\ CustodyInv /\ ModeInv BY DEF IInv
<1>1. ASSUME UNCHANGED <<store, abandoned>>, pc \notin Exits, pc' \notin Exits
      PROVE  UNCHANGED Custody!custody
  BY <1>1 DEF Exits
<1>2. ASSUME UNCHANGED <<store, abandoned>>, pc \notin Exits, pc' = "done",
             NewObjects \cap store \subseteq abandoned
      PROVE  Custody!Next
  <2>1. Custody!Exit BY <1>2 DEF Exits, Custody!Exit
  <2> QED BY <1>2, <2>1 DEF Exits
<1>3. CASE ParseArgs \/ Load
  <2>1. UNCHANGED <<store, abandoned>> /\ pc \in {"parse", "load"}
        /\ pc' \in {"load", "slot", "done"}
    BY <1>3 DEF ParseArgs, Load, load
  <2>2. NewObjects \cap store \subseteq abandoned
    BY <2>1, <1>a DEF KeyInv, CustodyInv, Unprovisioned
  <2> QED BY <2>1, <2>2, <1>1, <1>2 DEF Exits
<1>4. CASE GenerateKey
  <2>1. ~owns /\ NewObjects \cap store = {} /\ abandoned = {} /\ pc = "generate"
    BY <1>4, <1>a DEF GenerateKey, KeyInv, CustodyInv, Unprovisioned
  <2>2. pc' \in {"public_key", "close"}
        /\ \/ store' = store /\ abandoned' = {}
           \/ store' = store \cup NewObjects /\ abandoned' \in {{}, NewObjects}
    BY <1>4, <2>1, Zenon DEF GenerateKey, generate_key
  <2>3. CASE store' = store /\ abandoned' = {} BY <1>1, <2>1, <2>2, <2>3 DEF Exits
  <2>4. CASE store' = store \cup NewObjects /\ abandoned' \in {{}, NewObjects}
    <3>1. store' \cap NewObjects = NewObjects
          /\ store' \ NewObjects = store \ NewObjects BY <2>4
    <3>2. Custody!Create BY <2>1, <2>2, <2>4, <3>1 DEF Custody!Create
    <3> QED BY <2>1, <3>2
  <2> QED BY <2>2, <2>3, <2>4
<1>5. CASE ResolvePublicKey
  <2>1. store' = store /\ pc = "public_key" /\ pc' \in {"test_init", "close"}
    BY <1>5 DEF ResolvePublicKey
  <2>2. CASE abandoned' = abandoned BY <1>1, <2>1, <2>2 DEF Exits
  <2>3. CASE ~owns /\ abandoned' = {}
    BY <1>1, <1>a, <2>1, <2>3 DEF CustodyInv, Exits
  <2>4. CASE owns /\ abandoned' = NewObjects
    <3>1. Custody!GiveUp
      BY <1>a, <2>1, <2>4 DEF CustodyInv, Custody!GiveUp
    <3> QED BY <2>1, <3>1
  <2> QED BY <1>5, <2>2, <2>3, <2>4 DEF ResolvePublicKey
<1>6. ASSUME NEW handle \in NewObjects, NEW next, Destroy(handle, next),
             pc \notin Exits, next \notin Exits, handle \in store \ abandoned
      PROVE  Custody!Next
  <2>1. pc' = next BY <1>6 DEF Destroy
  <2>2. CASE store' = store \ {handle} /\ abandoned' = abandoned
    <3>1. Custody!Destroy(handle)
      BY <1>6, <2>1, <2>2 DEF Custody!Destroy, Exits
    <3> QED BY <1>6, <3>1 DEF Exits
  <2>3. CASE store' = store /\ abandoned' = abandoned \cup {handle}
    <3>1. Custody!Refused(handle)
      BY <1>6, <2>1, <2>3 DEF Custody!Refused, Exits
    <3> QED BY <1>6, <3>1 DEF Exits
  <2> QED BY <1>6, <2>2, <2>3 DEF Destroy, destroy
<1>7. CASE DestroyPrivate \/ DestroyPublic
  <2>1. keys = NewKeys /\ owns BY <1>7, <1>a DEF DestroyPrivate, DestroyPublic, KeyInv
  <2>2. keys.private \in NewObjects /\ keys.public \in NewObjects
    BY <2>1, NewObjectsEnum
  <2>3. CASE DestroyPrivate
    <3>1. keys.private \in store \ abandoned
      BY <1>a, <2>1, <2>2, <2>3 DEF DestroyPrivate, CustodyInv
    <3> QED BY <1>6, <2>2, <2>3, <3>1 DEF DestroyPrivate, Exits
  <2>4. CASE DestroyPublic
    <3>1. keys.public \in store \ abandoned
      BY <1>a, <2>4 DEF DestroyPublic, CustodyInv
    <3> QED BY <1>6, <2>2, <2>4, <3>1 DEF DestroyPublic, Exits
  <2> QED BY <1>7, <2>3, <2>4
<1>8. CASE Finalize
  <2>1. /\ UNCHANGED <<store, abandoned>> /\ pc = "finalize" /\ pc' = "done"
    BY <1>8 DEF Finalize, finalize
  <2> QED BY <1>2, <1>a, <2>1 DEF CustodyInv, Exits
<1>9. CASE Connect /\ ~GenerateKey /\ ~ResolvePublicKey
  <2>1. UNCHANGED <<store, abandoned>> /\ pc \notin Exits /\ pc' \notin Exits
    BY <1>9 DEF Connect, ResolveSlot, OpenSession, open_session, Login, Provision,
       FindPrivate, FindPublic, SelfTestInit, sign_init, SelfTestSign, sign_into,
       SelfTestVerify, Exits
  <2> QED BY <1>1, <2>1
<1>10. CASE Benchmark \/ SingleSign \/ Emit
  <2>1. UNCHANGED <<store, abandoned>> /\ pc \notin Exits /\ pc' \notin Exits
    BY <1>10 DEF Benchmark, Prepare, RegisterSigint, RegisterSigterm, Register,
       WarmupSign, WarmupInterrupted, WarmupDone, MeasureSign, MeasureDone,
       Hand, Report, WriteFiles, SingleSign, Emit, Exits
  <2> QED BY <1>1, <2>1
<1>11. CASE Once
  <2>1. UNCHANGED <<store, abandoned>> /\ pc \notin Exits /\ pc' \notin Exits
    BY <1>11, <1>a DEF Once, OnceInit, OnceSign, sign_init, sign_into, OnceVerify,
       Return, ModeInv, OnceSteps, Exits
  <2> QED BY <1>1, <2>1
<1>12. CASE Cleanup \/ CloseSession
  <2>1. UNCHANGED <<store, abandoned>> /\ pc \notin Exits /\ pc' \notin Exits
    BY <1>12 DEF Cleanup, message_sign_final, CloseSession, close_session, Exits
  <2> QED BY <1>1, <2>1
<1>13. ASSUME NEW s \in Signals, Signal(s)
       PROVE  [Custody!Next]_(Custody!custody)
  <2>1. /\ UNCHANGED <<store, abandoned>> /\ pc \notin Exits
        /\ pc' = pc \/ pc' = "killed"
    BY <1>13, Zenon DEF Signal, Exits
  <2>2. CASE pc' = "killed"
    <3>1. Custody!Kill BY <2>1, <2>2 DEF Custody!Kill
    <3> QED BY <2>1, <3>1 DEF Exits
  <2> QED BY <1>1, <2>1, <2>2
<1>14. CASE Tick \/ UNCHANGED vars BY <1>14 DEF Tick
<1> QED
  BY <1>3, <1>4, <1>5, <1>7, <1>8, <1>9, <1>10, <1>11, <1>12, <1>13, <1>14
  DEF Next, Step, Drop, Terminated

(* A run adds at most one pair, destroys only its own objects, and leaves  *)
(* at its exit only those it gave up or was refused (signer.rs:222-244).   *)
THEOREM CustodyKept == Spec => KeepsCustody
BY CustodyInit, CustodyNext, Invariance, PTL DEF Spec, KeepsCustody, Custody!Spec

(* A run starts as Measurement does: with nothing signed.                  *)
LEMMA MeasureInit == Init => Measure!Init
<1> SUFFICES ASSUME Init PROVE Measure!Init
  OBVIOUS
<1>1. pc = "parse" /\ result = "pending" /\ ~published
  BY Zenon DEF Init, SignerInit
<1>2. signed = {} /\ samples = << >> BY DEF Init, SignerInit
<1> QED BY <1>1, <1>2 DEF Measure!Init

(* Every step of a run is one of Measurement's, or changes nothing there.  *)
LEMMA MeasureNext ==
  IInv /\ [Next]_vars => [Measure!Next]_(Measure!measurement)
<1> SUFFICES ASSUME IInv, [Next]_vars
             PROVE  [Measure!Next]_(Measure!measurement)
  OBVIOUS
<1> DEFINE Inflight == IF pc = "once_verify" /\ caller \in {"single", "measure"}
                       THEN msg ELSE Probe
           Aborted == result \in {"err", "panic"} \/ pc = "killed"
           Stage == IF published THEN "published"
                    ELSE IF Aborted THEN "aborted" ELSE "open"
<1> USE DEF Goto, Fail, tokenVars, signerVars, keyVars, signVars, runVars,
    signalVars, loopVars, vars
<1>a. TypeOK /\ BufferInv /\ ModeInv /\ MessageInv /\ OutputInv BY DEF IInv
<1> HIDE DEF Inflight, Stage
<1>1. ASSUME UNCHANGED <<signed, samples>>, Inflight' = Inflight, Stage' = Stage
      PROVE  UNCHANGED Measure!measurement
  BY <1>1 DEF Measure!measurement, Inflight, Stage
<1>2. ASSUME signed' = signed \/ signed' = signed \cup {msg}, samples' = samples,
             Inflight' = Probe, Stage = "open", Stage' = "aborted"
      PROVE  Measure!Next
  <2>1. signed' = signed \/ \E m \in signed' : signed' = signed \cup {m}
    BY <1>2
  <2>2. Measure!Abort BY <1>2, <2>1 DEF Measure!Abort, Inflight, Stage
  <2> QED BY <1>2, <2>2 DEF Measure!Next, Stage
<1>3. ASSUME pc \notin {"write"} \cup DropSteps \cup Exits
      PROVE  ~published /\ result = "pending" /\ Stage = "open"
  BY <1>3, <1>a, Zenon DEF OutputInv, Stage, Exits
<1>4. ASSUME UNCHANGED <<signed, samples, published>>,
             pc \notin {"write", "once_verify"} \cup DropSteps \cup Exits,
             pc' \notin {"once_verify", "killed"}, result' \in {result, "err"}
      PROVE  [Measure!Next]_(Measure!measurement)
  <2>1. Inflight = Probe /\ Inflight' = Probe BY <1>4, Zenon DEF Inflight
  <2>2. CASE result' = result
    <3>1. Stage' = Stage BY <1>3, <1>4, <2>2 DEF Stage, Exits
    <3> QED BY <1>1, <1>4, <2>1, <3>1
  <2>3. CASE result' = "err"
    <3>1. Stage' = "aborted" BY <1>3, <1>4, <2>3 DEF Stage
    <3> QED BY <1>2, <1>3, <1>4, <2>1, <3>1
  <2> QED BY <1>4, <2>2, <2>3
<1>5. CASE ParseArgs \/ Load \/ SingleSign \/ OnceInit
  <2>1. /\ UNCHANGED <<signed, samples, published>> /\ result' \in {result, "err"}
        /\ pc \in {"parse", "load", "connected", "once_init"}
        /\ pc' \in {"load", "slot", "done", "once_init", "once_sign", "cleanup"}
    BY <1>5 DEF ParseArgs, Load, load, SingleSign, Hand, OnceInit, sign_init
  <2> QED BY <1>4, <2>1 DEF DropSteps, Exits
<1>6. CASE Connect /\ ~SelfTestSign /\ UNCHANGED runVars
  <2>1. /\ UNCHANGED <<signed, samples, published>> /\ result' \in {result, "err"}
        /\ pc \in ConnectSteps \cup SelfTestSteps
        /\ pc' \notin {"once_verify", "killed"}
    BY <1>6 DEF Connect, ResolveSlot, OpenSession, open_session, Login, Provision,
       FindPrivate, FindPublic, GenerateKey, generate_key, ResolvePublicKey,
       SelfTestInit, sign_init, SelfTestVerify, ConnectSteps, SelfTestSteps
  <2> QED BY <1>4, <2>1 DEF ConnectSteps, SelfTestSteps, DropSteps, Exits
<1>7. CASE SelfTestSign /\ UNCHANGED runVars
  <2>1. /\ pc = "test_sign" /\ samples' = samples /\ published' = published
        /\ signed' = signed \cup {msg}
        /\ \/ pc' = "test_verify" /\ result' = result
           \/ pc' = "cleanup" /\ result' = "err"
    BY <1>7 DEF SelfTestSign
  <2>2. Inflight = Probe /\ Inflight' = Probe BY <2>1, Zenon DEF Inflight
  <2>3. ~published /\ result = "pending" /\ Stage = "open"
    BY <1>3, <2>1 DEF DropSteps, Exits
  <2>4. CASE result' = result
    <3>1. samples = << >> BY <1>a, <2>1 DEF MessageInv, SelfTestSteps
    <3>2. Stage' = Stage BY <2>1, <2>3, <2>4 DEF Stage
    <3>3. Measure!Rehearse(msg)
      BY <2>1, <2>2, <3>1, <3>2 DEF Measure!Rehearse, Inflight, Stage
    <3> QED BY <2>1, <2>3, <3>3 DEF Measure!Next, Stage
  <2>5. CASE result' = "err"
    <3>1. Stage' = "aborted" BY <2>1, <2>3, <2>5 DEF Stage
    <3> QED BY <1>2, <2>1, <2>2, <2>3, <3>1
  <2> QED BY <2>1, <2>4, <2>5
<1>8. CASE Benchmark /\ ~Report /\ ~WriteFiles
  <2>1. /\ UNCHANGED <<signed, samples, published>> /\ result' \in {result, "err"}
        /\ pc \in {"connected", "register_sigint", "register_sigterm",
                   "warmup", "measure"}
        /\ pc' \in {"register_sigint", "register_sigterm", "warmup", "measure",
                    "once_init", "report", "cleanup"}
    BY <1>8 DEF Benchmark, Prepare, RegisterSigint, RegisterSigterm, Register,
       WarmupSign, WarmupInterrupted, WarmupDone, MeasureSign, MeasureDone, Hand
  <2> QED BY <1>4, <2>1 DEF DropSteps, Exits
<1>9. CASE OnceSign
  <2>1. /\ pc = "once_sign" /\ UNCHANGED <<samples, published, msg, caller>>
        /\ signed' = signed \cup {msg}
        /\ \/ pc' = "once_verify" /\ result' = result
           \/ pc' = "cleanup" /\ result' \in {"err", "panic"}
    BY <1>9 DEF OnceSign
  <2>2. Inflight = Probe BY <2>1, Zenon DEF Inflight
  <2>3. ~published /\ result = "pending" /\ Stage = "open"
    BY <1>3, <2>1 DEF DropSteps, Exits
  <2>4. CASE pc' = "cleanup"
    <3>1. Stage' = "aborted" /\ Inflight' = Probe
      BY <2>1, <2>3, <2>4 DEF Stage, Inflight
    <3> QED BY <1>2, <2>1, <2>2, <2>3, <3>1
  <2>5. CASE pc' = "once_verify" /\ caller = "warmup"
    <3>1. samples = << >> BY <1>a, <2>1, <2>5 DEF MessageInv, Warmup, OnceSteps
    <3>2. Stage' = Stage /\ Inflight' = Probe
      BY <2>1, <2>3, <2>5 DEF Stage, Inflight
    <3>3. Measure!Rehearse(msg)
      BY <2>1, <2>2, <3>1, <3>2 DEF Measure!Rehearse, Inflight, Stage
    <3> QED BY <2>1, <2>3, <3>3 DEF Measure!Next, Stage
  <2>6. CASE pc' = "once_verify" /\ caller \in {"single", "measure"}
    <3>1. msg \in Nat /\ signed \subseteq {Probe} \cup 0 .. msg - 1
      BY <1>a, <2>1, <2>6 DEF TypeOK, MessageInv, Measuring, OnceSteps
    <3>2. msg \notin signed /\ msg # Probe BY <3>1, PairAssumption
    <3>3. Stage' = Stage /\ Inflight' = msg
      BY <2>1, <2>3, <2>6 DEF Stage, Inflight
    <3>4. Measure!Sign(msg)
      BY <2>1, <2>2, <3>2, <3>3 DEF Measure!Sign, Inflight, Stage
    <3> QED BY <2>1, <2>3, <3>4 DEF Measure!Next, Stage
  <2> QED BY <1>a, <2>1, <2>4, <2>5, <2>6 DEF ModeInv, OnceSteps
<1>10. CASE OnceVerify
  <2>1. /\ pc = "once_verify" /\ UNCHANGED <<signed, published, msg>>
        /\ \/ Return
           \/ pc' = "cleanup" /\ result' = "err" /\ samples' = samples
    BY <1>10 DEF OnceVerify
  <2>2. ~published /\ result = "pending" /\ Stage = "open"
    BY <1>3, <2>1 DEF DropSteps, Exits
  <2>3. CASE pc' = "cleanup" /\ result' = "err" /\ samples' = samples
    <3>1. Stage' = "aborted" /\ Inflight' = Probe
      BY <2>1, <2>2, <2>3 DEF Stage, Inflight
    <3> QED BY <1>2, <2>1, <2>2, <2>3, <3>1
  <2>4. CASE Return
    <3>1. /\ pc' \in {"warmup", "emit", "measure"} /\ result' = result
          /\ caller \in {"warmup", "single", "measure"}
      BY <1>a, <2>1, <2>4 DEF Return, ModeInv, OnceSteps
    <3>2. Stage' = Stage /\ Inflight' = Probe
      BY <2>1, <2>2, <3>1 DEF Stage, Inflight
    <3>3. CASE caller = "warmup"
      <4>1. samples' = samples /\ Inflight = Probe
        BY <2>4, <3>3 DEF Return, Inflight
      <4> QED BY <1>1, <2>1, <3>2, <4>1
    <3>4. CASE caller \in {"single", "measure"}
      <4>1. samples' = Append(samples, msg) /\ Inflight = msg
        BY <2>1, <2>4, <3>4 DEF Return, Inflight
      <4>2. msg \in signed BY <1>a, <2>1 DEF BufferInv
      <4>3. msg # Probe
        BY <1>a, <2>1, <3>4, PairAssumption DEF TypeOK, MessageInv, OnceSteps
      <4>4. Measure!Record
        BY <2>1, <3>2, <4>1, <4>3 DEF Measure!Record, Inflight, Stage
      <4> QED BY <2>2, <4>4 DEF Measure!Next, Stage
    <3> QED BY <3>1, <3>3, <3>4
  <2> QED BY <2>1, <2>3, <2>4
<1>11. CASE Report
  <2>1. /\ pc = "report" /\ UNCHANGED <<signed, samples>>
        /\ \/ /\ samples = << >> /\ pc' = "cleanup" /\ result' = "err"
              /\ published' = published
           \/ samples # << >> /\ pc' = "write" /\ published' = TRUE
    BY <1>11, Zenon DEF Report
  <2>2. ~published /\ result = "pending" /\ Stage = "open"
    BY <1>3, <2>1 DEF DropSteps, Exits
  <2>3. Inflight = Probe /\ Inflight' = Probe BY <2>1, Zenon DEF Inflight
  <2>4. CASE pc' = "cleanup"
    <3>1. result' = "err" /\ published' = published
      BY <2>1, <2>4, "cleanup" # "write"
    <3>2. Stage' = "aborted" BY <2>2, <3>1, Zenon DEF Stage
    <3> QED BY <1>2, <2>1, <2>2, <2>3, <3>2
  <2>5. CASE samples # << >> /\ published' = TRUE
    <3>1. Stage' = "published" BY <2>5, Zenon DEF Stage
    <3>2. Measure!Publish
      BY <2>1, <2>3, <2>5, <3>1 DEF Measure!Publish, Inflight, Stage
    <3> QED BY <2>2, <3>2 DEF Measure!Next, Stage
  <2> QED BY <2>1, <2>4, <2>5
<1>12. CASE Emit
  <2>1. /\ pc = "emit" /\ pc' = "cleanup" /\ UNCHANGED <<signed, samples>>
        /\ published' = TRUE
    BY <1>12, Zenon DEF Emit
  <2>2. ~published /\ result = "pending" /\ Stage = "open"
    BY <1>3, <2>1 DEF DropSteps, Exits
  <2>3. Inflight = Probe /\ Inflight' = Probe BY <2>1, Zenon DEF Inflight
  <2>4. samples # << >> BY <1>a, <2>1 DEF OutputInv
  <2>5. Stage' = "published" BY <2>1, Zenon DEF Stage
  <2>6. Measure!Publish
    BY <2>1, <2>3, <2>4, <2>5 DEF Measure!Publish, Inflight, Stage
  <2> QED BY <2>2, <2>6 DEF Measure!Next, Stage
<1>13. CASE WriteFiles
  <2>1. /\ pc = "write" /\ pc' = "cleanup" /\ UNCHANGED <<signed, samples, published>>
    BY <1>13, Zenon DEF WriteFiles
  <2>2. published BY <1>a, <2>1, Zenon DEF OutputInv
  <2>3. Stage' = Stage /\ Inflight' = Inflight
    BY <2>1, <2>2, Zenon DEF Stage, Inflight
  <2> QED BY <1>1, <2>1, <2>3
<1>14. CASE Drop /\ UNCHANGED runVars
  <2>1. /\ pc \in DropSteps /\ pc' \in DropSteps \cup {"done"}
        /\ UNCHANGED <<signed, samples, published, result>>
    BY <1>14 DEF Drop, Cleanup, message_sign_final, DestroyPrivate, DestroyPublic,
       Destroy, CloseSession, Finalize, DropSteps
  <2>2. pc \notin {"once_verify", "killed"} /\ pc' \notin {"once_verify", "killed"}
    BY <2>1 DEF DropSteps
  <2>3. Stage' = Stage /\ Inflight' = Inflight
    BY <2>1, <2>2, Zenon DEF Stage, Inflight
  <2> QED BY <1>1, <2>1, <2>3
<1>15. ASSUME NEW s \in Signals, Signal(s)
       PROVE  [Measure!Next]_(Measure!measurement)
  <2>1. /\ UNCHANGED <<signed, samples, published, result, msg, caller>>
        /\ pc \notin Exits /\ (pc' = pc \/ pc' = "killed")
    BY <1>15, Zenon DEF Signal, Exits
  <2>2. CASE pc' = pc
    <3>1. Stage' = Stage /\ Inflight' = Inflight
      BY <2>1, <2>2, Zenon DEF Stage, Inflight
    <3> QED BY <1>1, <2>1, <3>1
  <2>3. CASE pc' = "killed"
    <3>1. Inflight' = Probe BY <2>3, Zenon DEF Inflight
    <3>2. CASE Stage = "open"
      <4>1. ~published BY <3>2, Zenon DEF Stage
      <4>2. Stage' = "aborted" BY <2>1, <2>3, <4>1, Zenon DEF Stage
      <4> QED BY <1>2, <2>1, <3>1, <3>2, <4>2
    <3>3. CASE Stage # "open"
      <4>1. pc # "once_verify" BY <1>3, <3>3 DEF DropSteps, Exits
      <4>2. Inflight = Probe BY <4>1, Zenon DEF Inflight
      <4>3. published \/ (~published /\ Aborted /\ pc # "killed")
        BY <2>1, <3>3, Zenon DEF Stage, Exits
      <4>4. Stage' = Stage BY <2>1, <2>3, <4>3, Zenon DEF Stage
      <4> QED BY <1>1, <2>1, <3>1, <4>2, <4>4
    <3> QED BY <3>2, <3>3
  <2> QED BY <2>1, <2>2, <2>3
<1>16. CASE Tick \/ UNCHANGED vars
  <2>1. UNCHANGED <<signed, samples, published, result, msg, caller, pc>>
    BY <1>16 DEF Tick
  <2>2. Stage' = Stage /\ Inflight' = Inflight
    BY <2>1, Zenon DEF Stage, Inflight
  <2> QED BY <1>1, <2>1, <2>2
<1> QED
  BY <1>5, <1>6, <1>7, <1>8, <1>9, <1>10, <1>11, <1>12, <1>13, <1>14, <1>15, <1>16
  DEF Next, Step, Benchmark, Connect, Once, Terminated

(* Every sample is the signing of a message the token had not seen; what   *)
(* is published had no failure before it (run.rs:282-317).                 *)
THEOREM MeasurementKept == Spec => KeepsMeasurement
BY MeasureInit, MeasureNext, Invariance, PTL
DEF Spec, KeepsMeasurement, Measure!Spec

=============================================================================
