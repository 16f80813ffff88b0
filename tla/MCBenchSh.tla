----------------------------- MODULE MCBenchSh ------------------------------
(* An instance of BenchSh for TLC. *)
EXTENDS BenchSh

AllCommands == {"arguments", "build", "curl", "ckms", "sign-tx",
                "cp", "extract", "kms"}
BothInterrupts == {"script", "sign-tx"}
AnyPort == {Foreign, NoServer}
TwoTimes == 1 .. 2
=============================================================================
