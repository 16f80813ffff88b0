------------------------------ MODULE ShortVec ------------------------------
(***************************************************************************)
(* push_compact_u16 of src/src/solana.rs: a length of 16 bits is written   *)
(* seven bits at a time, low ones first, each byte but the last with its   *)
(* high bit set. Encode says which bytes these are; a reader takes bytes   *)
(* until one has no high bit.                                              *)
(***************************************************************************)
EXTENDS Integers, Sequences

u16_MAX == 65535
u8_MAX  == 255
u16     == 0 .. u16_MAX
Byte    == 0 .. u8_MAX

Low(v)   == v % 128        \* value & 0x7f
Shift(v) == v \div 128     \* value >>= 7

VARIABLES
  input,  \* what is to be written
  value,  \* what is left of it
  out,    \* the bytes written
  done

codecVars == <<input, value, out, done>>

CodecInit == input \in u16 /\ value = input /\ out = << >> /\ done = FALSE

PushLast ==
  /\ ~done /\ Shift(value) = 0
  /\ out' = Append(out, Low(value))
  /\ value' = 0 /\ done' = TRUE
  /\ UNCHANGED input

(* Mutant: without byte |= 0x80.                                           *)
PushMorePlain ==
  /\ ~done /\ Shift(value) > 0
  /\ out' = Append(out, Low(value))
  /\ value' = Shift(value)
  /\ UNCHANGED <<input, done>>

PushMore ==
  /\ ~done /\ Shift(value) > 0
  /\ out' = Append(out, Low(value) + 128)
  /\ value' = Shift(value)
  /\ UNCHANGED <<input, done>>

CodecDone == done /\ UNCHANGED codecVars

CodecNext == PushMore \/ PushLast \/ CodecDone

CodecSpec == CodecInit /\ [][CodecNext]_codecVars

-----------------------------------------------------------------------------
(* The bytes of a length, and a reader's view of bytes s from position p.  *)

Encode(v) ==
  IF v < 128 THEN <<v>>
  ELSE IF v < 16384 THEN <<Low(v) + 128, Shift(v)>>
  ELSE <<Low(v) + 128, Low(Shift(v)) + 128, Shift(Shift(v))>>

Size(s, p) ==
  IF s[p] < 128 THEN 1 ELSE IF s[p + 1] < 128 THEN 2 ELSE 3

Decode(s, p) ==
  CASE Size(s, p) = 1 -> s[p]
    [] Size(s, p) = 2 -> Low(s[p]) + 128 * s[p + 1]
    [] Size(s, p) = 3 -> Low(s[p]) + 128 * Low(s[p + 1]) + 16384 * s[p + 2]

-----------------------------------------------------------------------------
(* Every variable stays in its range.                                      *)
CodecTypeOK ==
  /\ input \in u16 /\ value \in u16 /\ done \in BOOLEAN
  /\ out \in Seq(Byte) /\ Len(out) <= 3

(* What was written is read back, whatever bytes follow it: a reader stops *)
(* where the writer did.                                                   *)
ReadsBack ==
  done => \A next \in Byte :
            LET s == Append(out, next)
            IN  Size(s, 1) = Len(out) /\ Decode(s, 1) = input

(* No shorter encoding exists: Solana's reader rejects one with a last     *)
(* byte that adds nothing.                                                 *)
Minimal == done /\ Len(out) > 1 => out[Len(out)] # 0

(* The loop's bytes are those of Encode.                                   *)
Encodes == done => out = Encode(input)

(* push_compact_u16 writes what Transfer takes for it, what a reader reads *)
(* back, and nothing that is longer than it need be.                       *)
CompactU16 == Encodes /\ ReadsBack /\ Minimal
=============================================================================
