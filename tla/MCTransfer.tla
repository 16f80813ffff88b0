----------------------------- MODULE MCTransfer -----------------------------
(* An instance of Transfer for TLC. *)
EXTENDS Transfer

Bytes(n, b) == [i \in 1 .. n |-> b]

(* Base58 strings decode to any number of bytes. *)
Decoded == {Bytes(32, 7), Bytes(32, 0), Bytes(31, 7), Bytes(33, 7)}

(* Ed25519, and uncompressed SEC1. *)
TwoKeys == {Bytes(32, 9), <<4>> \o Bytes(64, 9)}

(* Ed25519's signature, and DER ones of ECDSA. *)
SomeSignatures == {Bytes(64, 1), Bytes(64, 130), Bytes(70, 48), Bytes(72, 0)}

SomeNonces == {Bytes(8, 0), Bytes(8, 255), <<1, 0, 0, 0, 0, 0, 0, 0>>}

SomeAmounts == {0, 256, 1000000}
=============================================================================
