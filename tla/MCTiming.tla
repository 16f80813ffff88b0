------------------------------ MODULE MCTiming ------------------------------
(* An instance of Timing for TLC. *)
EXTENDS Timing

BothCurves  == {"ed25519", "p256"}
BothFormats == {"csv", "json"}
SomeTicks   == {0, 1}
AllCalls == {"init", "sign", "verify", "create", "write", "interrupt"}
=============================================================================
