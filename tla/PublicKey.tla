------------------------------ MODULE PublicKey -----------------------------
(***************************************************************************)
(* resolve_public_key of src/src/signer.rs, call by call: the parser of    *)
(* --public-key, or else the two calls of Session::attribute to a token    *)
(* that may change between them, and the parser of what they brought.      *)
(* Module Signer has all of it as one step.                                *)
(***************************************************************************)
EXTENDS EcPoint

CONSTANTS
  Keys,        \* for each curve, the keys that are encoded
  Nothing,     \* no encoding: no --public-key, no CKA_EC_POINT
  MaxChanges   \* bound on the changes of the attribute

Octet == 0 .. 255

ASSUME KeysAssumption ==
  /\ Keys \in [Curves -> SUBSET Seq(Octet)]
  /\ \A c \in Curves : \A k \in Keys[c] : Len(k) = KeyLength(c)
  /\ \A k \in Keys["p256"] : k[1] = \h04
  /\ MaxChanges \in Nat

(* Encoded keys, and those of one curve.                                   *)
FormsOf(c) == IF c = "ed25519" THEN {"raw", "octets", "spki", "spki_null"}
              ELSE {"raw", "octets", "spki", "compressed"}
EncodedOn(c) == [curve : {c}, form : FormsOf(c), key : Keys[c]]
Encoded == UNION {EncodedOn(c) : c \in Curves}
Bytes(e) == Encode(e.curve, e.form, e.key)

VARIABLES
  curve,    \* --curve
  der,      \* the key in the file --public-key names, or Nothing
  public,   \* is there a public key object?
  value,    \* the object's CKA_EC_POINT, or Nothing
  changes,  \* how often it has changed
  pc,       \* "start", "value", "normalize", or how the call ended
  len,      \* the length the first call answered
  buffer,   \* the bytes the second call brought
  held,     \* history: value, as the second call found it
  key       \* the verifying key

token == <<value, changes>>
given == <<curve, der, public>>
vars  == <<given, token, pc, len, buffer, held, key>>

Ended == {"resolved", "no_key", "refused", "unrecognised"}

Init ==
  /\ curve \in Curves
  /\ der \in Encoded \cup {Nothing}
  /\ public \in BOOLEAN
  /\ value \in EncodedOn(curve) \cup {Nothing}
  /\ changes = 0
  /\ pc = "start"
  /\ len = 0
  /\ buffer = << >>
  /\ held = Nothing
  /\ key = NoKey

(* from_bytes and from_sec1_bytes: what is encoded is a point of its       *)
(* curve, anything else may not be one.                                    *)
Accept(raw) ==
  \/ raw # NoKey /\ key' = raw /\ pc' = "resolved"
  \/ raw \notin Keys[curve] /\ pc' = "unrecognised" /\ UNCHANGED key

ParseDer ==
  /\ pc = "start" /\ der # Nothing
  /\ Accept(IF curve = "ed25519" THEN parse_spki_ed25519(Bytes(der))
            ELSE parse_spki_p256(Bytes(der)))
  /\ UNCHANGED <<given, token, len, buffer, held>>

NoObject ==
  /\ pc = "start" /\ der = Nothing /\ ~public
  /\ pc' = "no_key"
  /\ UNCHANGED <<given, token, len, buffer, held, key>>

(* C_GetAttributeValue without a buffer: the length, or a refusal, as a    *)
(* return value, as CK_UNAVAILABLE_INFORMATION or as 0.                    *)
AskLength ==
  /\ pc = "start" /\ der = Nothing /\ public
  /\ \/ value # Nothing /\ len' = Len(Bytes(value)) /\ pc' = "value"
     \/ pc' = "refused" /\ UNCHANGED len
  /\ UNCHANGED <<given, token, buffer, held, key>>

(* Mutant: the buffer keeps the length of the first call.                  *)
AskValueKeepsLength ==
  /\ pc = "value"
  /\ \/ /\ value # Nothing /\ Len(Bytes(value)) <= len
        /\ buffer' = Bytes(value) \o [i \in 1 .. len - Len(Bytes(value)) |-> 0]
        /\ pc' = "normalize"
     \/ pc' = "refused" /\ UNCHANGED buffer
  /\ held' = value
  /\ UNCHANGED <<given, token, len, key>>

(* And with a buffer of that length, zeroed: it is cut to what the token   *)
(* says it wrote. A longer value is refused (CKR_BUFFER_TOO_SMALL), and    *)
(* CK_UNAVAILABLE_INFORMATION is not looked for any more: as a length it   *)
(* cuts off nothing.                                                       *)
AskValue ==
  /\ pc = "value"
  /\ \/ /\ value # Nothing /\ Len(Bytes(value)) <= len
        /\ buffer' = Bytes(value)
        /\ pc' = "normalize"
     \/ /\ value = Nothing
        /\ buffer' \in {<< >>, [i \in 1 .. len |-> 0]}
        /\ pc' = "normalize"
     \/ pc' = "refused" /\ UNCHANGED buffer
  /\ held' = value
  /\ UNCHANGED <<given, token, len, key>>

Normalize ==
  /\ pc = "normalize"
  /\ Accept(IF curve = "ed25519" THEN normalize_ec_point(buffer)
            ELSE normalize_p256_point(buffer))
  /\ UNCHANGED <<given, token, len, buffer, held>>

(* The object is replaced, written in another form, or out of reach.       *)
Change ==
  /\ pc = "value" /\ changes < MaxChanges
  /\ value' \in EncodedOn(curve) \cup {Nothing}
  /\ changes' = changes + 1
  /\ UNCHANGED <<given, pc, len, buffer, held, key>>

Terminated == pc \in Ended /\ UNCHANGED vars

Next ==
  ParseDer \/ NoObject \/ AskLength \/ AskValue \/ Normalize \/ Change \/ Terminated

Spec == Init /\ [][Next]_vars

-----------------------------------------------------------------------------
(* Where the parsers look for a key (pkcs11.rs:675-678, 708-712, 733-760). *)
DerForms == [ed25519 |-> {"raw", "spki", "spki_null"}, p256 |-> {"raw", "spki"}]
PointForms == [ed25519 |-> {"raw", "octets", "spki"}, p256 |-> {"raw", "octets"}]

(* A key that is resolved is the one encoded: of --public-key whatever the *)
(* token holds, of the token the one its second answer encodes, never a    *)
(* mixture with the first. An answer that brought nothing passes for the   *)
(* key of 32 zeros, which is left to the self-test.                        *)
KeyServed ==
  pc = "resolved" =>
    IF der # Nothing THEN der.curve = curve => key = der.key
    ELSE IF held # Nothing THEN key = held.key
    ELSE curve = "ed25519" /\ key = [i \in 1 .. 32 |-> 0]

(* No key in one of the forms the parsers are for is unrecognised.         *)
FormsRecognised ==
  pc = "unrecognised" =>
    /\ der # Nothing => der.curve # curve \/ der.form \notin DerForms[curve]
    /\ der = Nothing /\ held # Nothing => held.form \notin PointForms[curve]

(* A file with a key of the other curve is refused, unless the bytes of    *)
(* that key happen to contain the mark the parser looks for.               *)
OtherCurveRefused ==
  pc = "resolved" /\ der # Nothing /\ der.curve # curve =>
    /\ curve = "ed25519"
    /\ Positions(der.key, <<\h03, \h21, \h00>>) # {}

(* README.md:85-87: "raw, DER `OCTET STRING`-wrapped, and full             *)
(* SubjectPublicKeyInfo forms are all accepted for both curves".           *)
AllFormsAccepted ==
  pc = "unrecognised" /\ der = Nothing /\ held # Nothing =>
    held.form \notin {"raw", "octets", "spki"}
=============================================================================
