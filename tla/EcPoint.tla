------------------------------- MODULE EcPoint ------------------------------
(***************************************************************************)
(* The four parsers of public keys at the end of src/src/pkcs11.rs, on     *)
(* real bytes, and the encodings they are given. An Ed25519 key is its 32  *)
(* bytes, a P-256 key the 65 bytes 04 || X || Y. A refusal is NoKey.       *)
(***************************************************************************)
EXTENDS SequencesExt

Curves == {"ed25519", "p256"}
NoKey  == << >>

KeyLength(curve) == IF curve = "ed25519" THEN 32 ELSE 65

-----------------------------------------------------------------------------
(* The encodings.                                                          *)

Oid == [ed25519 |-> <<\h06, \h03, \h2b, \h65, \h70>>,
        p256    |-> <<\h06, \h08, \h2a, \h86, \h48, \hce, \h3d, \h03, \h01, \h07>>]
EcPublicKey == <<\h06, \h07, \h2a, \h86, \h48, \hce, \h3d, \h02, \h01>>
Null == <<\h05, \h00>>

Tlv(tag, content) == <<tag, Len(content)>> \o content
Spki(algorithm, key) ==
  Tlv(\h30, Tlv(\h30, algorithm) \o Tlv(\h03, <<\h00>> \o key))

Forms == {"raw", "octets", "spki", "spki_null", "compressed"}

(* A key in one of its forms. The parameters of an Ed25519 algorithm are   *)
(* absent, but some writers put a NULL there; a compressed point is half   *)
(* of a P-256 key.                                                         *)
Encode(curve, form, key) ==
  CASE form = "raw"    -> key
    [] form = "octets" -> Tlv(\h04, key)
    [] form = "spki"   -> Spki(IF curve = "p256" THEN EcPublicKey \o Oid.p256
                               ELSE Oid.ed25519, key)
    [] form = "spki_null"  -> Spki(Oid.ed25519 \o Null, key)
    [] form = "compressed" -> Spki(EcPublicKey \o Oid.p256,
                                   <<\h02>> \o SubSeq(key, 2, 33))

-----------------------------------------------------------------------------
(* The parsers.                                                            *)

(* windows(n).position(mark): where the mark occurs.                       *)
Positions(raw, mark) ==
  {i \in 1 .. Len(raw) : IsPrefix(mark, SubSeq(raw, i, Len(raw)))}

(* The n bytes after the tag, the length and the padding of the first BIT  *)
(* STRING that begins with the mark; NoKey if there is none, or it is cut  *)
(* short.                                                                  *)
BitString(raw, mark, n) ==
  LET from == Min(Positions(raw, mark)) + 3
  IN  IF Positions(raw, mark) = {} \/ Len(raw) < from + n - 1
      THEN NoKey ELSE SubSeq(raw, from, from + n - 1)

normalize_ec_point(raw) ==
  CASE Len(raw) = 32 -> raw
    [] Len(raw) = 34 /\ IsPrefix(<<\h04, \h20>>, raw) -> SubSeq(raw, 3, 34)
    [] Len(raw) = 44 /\ IsPrefix(<<\h30>>, raw) -> BitString(raw, <<\h03, \h21>>, 32)
    [] OTHER -> NoKey

normalize_p256_point(raw) ==
  CASE Len(raw) = 65 /\ IsPrefix(<<\h04>>, raw) -> raw
    [] Len(raw) = 67 /\ IsPrefix(<<\h04, \h41, \h04>>, raw) -> SubSeq(raw, 3, 67)
    [] OTHER -> NoKey

parse_spki_p256(der) ==
  LET found == BitString(der, <<\h03, \h42, \h00, \h04>>, 65)
  IN  CASE IsPrefix(<<\h30>>, der) /\ found # NoKey -> found
        [] Len(der) = 65 /\ IsPrefix(<<\h04>>, der) -> der
        [] OTHER -> NoKey

(* RFC 8410's header, bytes 5 to 12.                                       *)
Ed25519Header == Oid.ed25519 \o <<\h03, \h21, \h00>>

(* Mutants: nothing but that header; any BIT STRING will do.               *)
ParseSpkiEd25519Strict(der) ==
  CASE Len(der) = 44 /\ IsPrefix(<<\h30>>, der) /\ SubSeq(der, 5, 12) = Ed25519Header
         -> SubSeq(der, 13, 44)
    [] Len(der) = 32 -> der
    [] OTHER -> NoKey

ParseSpkiEd25519AnyTag(der) ==
  LET found == BitString(der, <<\h03>>, 32)
  IN  CASE IsPrefix(<<\h30>>, der) /\ found # NoKey -> found
        [] Len(der) = 32 -> der
        [] OTHER -> NoKey

(* That header, or else the first BIT STRING of the right length.          *)
parse_spki_ed25519(der) ==
  LET found == BitString(der, <<\h03, \h21, \h00>>, 32)
  IN  IF Len(der) = 44 /\ IsPrefix(<<\h30>>, der) /\ SubSeq(der, 5, 12) = Ed25519Header
      THEN SubSeq(der, 13, 44)
      ELSE CASE IsPrefix(<<\h30>>, der) /\ found # NoKey -> found
             [] Len(der) = 32 -> der
             [] OTHER -> NoKey
=============================================================================
