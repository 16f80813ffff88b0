------------------------------ MODULE MCSignTx ------------------------------
(* Instances of SignTx for TLC. *)
EXTENDS SignTxInv

CONSTANTS k1, k2, new

AllCalls ==
  {"arguments", "load", "resolve_slot", "open_session", "login", "find", "expose",
   "generate_key", "generate_reply", "attribute", "sign_init", "sign_into",
   "message_sign_final", "destroy", "info", "register", "write"}
AllFaults == {"stale", "short", "long"}
NoFaults == {}
BothSignals == {"SIGINT", "SIGTERM"}
TwoPairs == {k1, k2}
OnePair == {k1}

(* Every way to a key, with the shortest loops. *)
CustodyConfigs ==
  [mode : {"single", "benchmark"}, curve : Curve, key_id : {k1, NoPair},
   pin : BOOLEAN, der : {k1, k2, NoDer, BadDer}, iterations : {0, 1},
   warmup : {0}, warmup_time : {0}]

(* Every length of the loops, with one way to a key. *)
LoopConfigs ==
  [mode : {"single", "benchmark"}, curve : Curve, key_id : {k1}, pin : {FALSE},
   der : {NoDer}, iterations : 1 .. 3, warmup : 0 .. 3, warmup_time : 0 .. 2]

(* A generated key through both loops. *)
FreshConfigs ==
  [mode : {"benchmark"}, curve : Curve, key_id : {NoPair}, pin : {TRUE},
   der : {NoDer}, iterations : {2}, warmup : {1}, warmup_time : {1}]

AllConfigs == CustodyConfigs \cup LoopConfigs \cup FreshConfigs

(* The plain case of each finding. *)
FreshKeySingle ==
  [mode : {"single"}, curve : Curve, key_id : {NoPair}, pin : {FALSE},
   der : {NoDer}, iterations : {1}, warmup : {0}, warmup_time : {0}]
TimedWarmup ==
  [mode : {"benchmark"}, curve : {"ed25519"}, key_id : {k1}, pin : {FALSE},
   der : {NoDer}, iterations : {1}, warmup : {0}, warmup_time : {1}]

NoSignals == {}
Nothing == {}
NoPublicKey == {"attribute"}
=============================================================================
