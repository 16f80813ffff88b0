----------------------------- MODULE MCPublicKey ----------------------------
(* Instances of PublicKey for TLC: real lengths, keys with awkward bytes.  *)
EXTENDS PublicKey

(* n bytes that are all alike but for a mark after the first o of them.    *)
Marked(n, o, mark, byte) ==
  [i \in 1 .. n |-> IF i - o \in 1 .. Len(mark) THEN mark[i - o] ELSE byte]

Marks == {<<\h03, \h21, \h00>>, <<\h03, \h42, \h00, \h04>>}
Wrappers == {<<\h04, \h20>>, <<\h30, \h2a>>, <<\h04, \h41, \h04>>}

Bodies(n) ==
  {Marked(n, o, m, \h05) : o \in {0, 9, n - 4}, m \in Marks}
    \cup {Marked(n, 0, m, \h04) : m \in Wrappers}
    \cup {Marked(n, 0, <<>>, 0)}

AwkwardKeys ==
  [ed25519 |-> Bodies(32), p256 |-> {<<\h04>> \o b : b \in Bodies(64)}]

PlainKeys ==
  [ed25519 |-> {Marked(32, 0, <<>>, \h05)},
   p256    |-> {<<\h04>> \o Marked(64, 0, <<>>, \h05)}]
=============================================================================
