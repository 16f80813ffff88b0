---------------------------- MODULE MCProvision -----------------------------
(* An instance of Provision for TLC. *)
EXTENDS Provision

CONSTANTS c1, c2, c3, id1, id2, p256, ed25519, dir1, dir2

Three == {c1, c2, c3}

(* c1 and c2 want the same key, c2 and c3 write to the same directory. *)
TwoKeys   == [c \in Three |-> IF c = c3 THEN id2 ELSE id1]
TwoCurves == [c \in Three |-> IF c = c3 THEN ed25519 ELSE p256]
TwoDirs   == [c \in Three |-> IF c = c1 THEN dir1 ELSE dir2]

AllFormats == {"pkcs8-der", "raw", "json-ttlv"}

(* Dockerfile.bench:22-24, on debian:bookworm-slim. *)
Image == {"ca-certificates", "curl", "jq", "openssl"}

AllCommands == {"create", "export", "sign-tx"}
=============================================================================
