------------------------------ MODULE MCChart -------------------------------
(* An instance of Chart for TLC. *)
EXTENDS Chart

P256    == <<"sign_init", "sign", "verify", "total">>
Ed25519 == Tail(P256)
BothCurves == {P256, Ed25519}

(* The total takes every sequence of a few samples; sign_init is a long run *)
(* that gets slower, with a faster sample now and then and a very slow one, *)
(* so that its p999 is not its maximum; of the others there are a few.      *)
LongRun(i) == 100 + i + (IF i % 10 = 3 THEN 0 - 60 ELSE 0)
                      + (IF i = 700 THEN 50000 ELSE 0)

SomeNanos(p, s) ==
  LET i == Len(s)
  IN  CASE p = "total"     -> IF i < 5 THEN {0, 1, 8, 13, 18} ELSE {}
        [] p = "sign_init" -> {LongRun(i)}
        [] OTHER           -> IF i < 2 THEN {7 + i} ELSE {}

SomeLengths == 1 .. 12 \cup {60, 61, 99, 100, 101, 999, 1000, 1001, 1003}
=============================================================================
