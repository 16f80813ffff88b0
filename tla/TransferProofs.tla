---------------------------- MODULE TransferProofs --------------------------
(***************************************************************************)
(* What holds of the bytes that are signed, for any addresses, keys,       *)
(* amounts, random bytes and word sizes up to 64 bits: lengths are read    *)
(* back, no count wraps unnoticed, no two payloads of a benchmark are the  *)
(* same, and Solana's reader finds one transfer in each of them. The loop  *)
(* of push_compact_u16 and the counts each have an invariant of their own; *)
(* that of the messages says which index is written in which. Where the    *)
(* reader finds what follows from where the writer put it, byte by byte.   *)
(***************************************************************************)
EXTENDS Transfer, SequenceTheorems, TLAPS

-----------------------------------------------------------------------------
(* push_compact_u16: how far the loop is says which bytes of Encode it has *)
(* written and what is left. Only the last byte has no high bit.           *)

(* Where the loop is, after no, one and two bytes.                         *)
Atstart == out = << >> /\ value = input
AfterOne == /\ input >= 128 /\ value = Shift(input)
            /\ out = <<Low(input) + 128>>
AfterTwo == /\ input >= 16384 /\ value = Shift(Shift(input))
            /\ out = <<Low(input) + 128, Low(Shift(input)) + 128>>

CodecInv ==
  /\ input \in u16 /\ value \in u16 /\ done \in BOOLEAN
  /\ IF done THEN out = Encode(input)
             ELSE Atstart \/ AfterOne \/ AfterTwo

(* The two ends of the ranges, as numbers. *)
LEMMA Ranges ==
  /\ \A v : v \in u16 <=> v \in Int /\ 0 <= v /\ v < 65536
  /\ \A v : v \in Byte <=> v \in Int /\ 0 <= v /\ v < 256
<1>1. \A v : v \in u16 <=> v \in Int /\ 0 <= v /\ v <= u16_MAX
  BY DEF u16
<1>2. \A v : v \in Byte <=> v \in Int /\ 0 <= v /\ v <= u8_MAX
  BY DEF Byte
<1> QED BY <1>1, <1>2 DEF u16_MAX, u8_MAX

(* Appending to one byte, to two and to three. *)
LEMMA Append1 ==
  ASSUME NEW a, NEW b
  PROVE  Append(<<a>>, b) = <<a, b>>
<1>1. Append(<<a>>, b) \in Seq({a, b}) /\ <<a, b>> \in Seq({a, b})
  OBVIOUS
<1>2. Len(Append(<<a>>, b)) = 2 /\ Len(<<a, b>>) = 2
  OBVIOUS
<1>3. \A i \in 1 .. 2 : Append(<<a>>, b)[i] = <<a, b>>[i]
  OBVIOUS
<1> QED BY <1>1, <1>2, <1>3, SeqEqual

(* Appending to two bytes.                                                 *)
LEMMA Append2 ==
  ASSUME NEW a, NEW b, NEW c
  PROVE  Append(<<a, b>>, c) = <<a, b, c>>
<1>1. Append(<<a, b>>, c) \in Seq({a, b, c}) /\ <<a, b, c>> \in Seq({a, b, c})
  OBVIOUS
<1>2. Len(Append(<<a, b>>, c)) = 3 /\ Len(<<a, b, c>>) = 3
  OBVIOUS
<1>3. \A i \in 1 .. 3 : Append(<<a, b>>, c)[i] = <<a, b, c>>[i]
  OBVIOUS
<1> QED BY <1>1, <1>2, <1>3, SeqEqual

(* Appending to three.                                                     *)
LEMMA Append3 ==
  ASSUME NEW a, NEW b, NEW c, NEW d
  PROVE  Append(<<a, b, c>>, d) = <<a, b, c, d>>
<1>1. /\ Append(<<a, b, c>>, d) \in Seq({a, b, c, d})
      /\ <<a, b, c, d>> \in Seq({a, b, c, d})
  OBVIOUS
<1>2. Len(Append(<<a, b, c>>, d)) = 4 /\ Len(<<a, b, c, d>>) = 4
  OBVIOUS
<1>3. \A i \in 1 .. 4 : Append(<<a, b, c>>, d)[i] = <<a, b, c, d>>[i]
  OBVIOUS
<1> QED BY <1>1, <1>2, <1>3, SeqEqual

(* A number is its low seven bits and what is shifted out of them. *)
LEMMA Shifting ==
  ASSUME NEW v \in Nat
  PROVE  /\ Low(v) \in Nat /\ Low(v) < 128 /\ Shift(v) \in Nat
         /\ v = 128 * Shift(v) + Low(v)
BY DEF Low, Shift

(* The high bit does not reach a byte's low seven bits. *)
LEMMA HighBit ==
  ASSUME NEW v \in Nat, v < 128
  PROVE  Low(v + 128) = v /\ Low(v) = v /\ Shift(v) = 0
BY DEF Low, Shift

(* CodecInvariance of CodecInv. *)
THEOREM CodecInvariance == CodecSpec => []CodecInv
<1>1. CodecInit => CodecInv
  BY DEF CodecInit, CodecInv, Atstart
<1>2. CodecInv /\ [CodecNext]_codecVars => CodecInv'
  <2> SUFFICES ASSUME CodecInv, [CodecNext]_codecVars PROVE CodecInv'
    OBVIOUS
  <2>0. input \in Nat /\ input < 65536 /\ value \in Nat /\ value < 65536
    BY Ranges DEF CodecInv
  <2>s. /\ input = 128 * Shift(input) + Low(input) /\ Shift(input) \in Nat
        /\ Low(input) \in Nat /\ Low(input) < 128
        /\ Shift(input) = 128 * Shift(Shift(input)) + Low(Shift(input))
        /\ Shift(Shift(input)) \in Nat
        /\ Low(Shift(input)) \in Nat /\ Low(Shift(input)) < 128
        /\ value = 128 * Shift(value) + Low(value) /\ Shift(value) \in Nat
        /\ Low(value) \in Nat /\ Low(value) < 128
    BY <2>0, Shifting
  <2>1. CASE PushMore
    <3>1. /\ done = FALSE /\ done' = FALSE
          /\ input' = input /\ value' = Shift(value) /\ Shift(value) > 0
          /\ out' = Append(out, Low(value) + 128)
      BY <2>1 DEF PushMore, CodecInv
    <3>a. Shift(value) \in Int /\ 0 <= Shift(value) /\ Shift(value) < 65536
      BY <2>0, <2>s
    <3>2. input' \in u16 /\ value' \in u16
      BY <2>0, <3>1, <3>a, Ranges
    <3>3. CASE Atstart
      <4>1. input >= 128 /\ value = input
        BY <2>0, <2>s, <3>1, <3>3 DEF Atstart
      <4>2. AfterOne'
        BY <3>1, <3>3, <4>1 DEF Atstart, AfterOne
      <4> QED BY <3>1, <3>2, <4>2 DEF CodecInv
    <3>4. CASE AfterOne
      <4>1. input >= 16384 /\ value = Shift(input)
        BY <2>0, <2>s, <3>1, <3>4 DEF AfterOne
      <4>2. AfterTwo'
        <5>1. /\ out = <<Low(input) + 128>>
              /\ out' = Append(out, Low(Shift(input)) + 128)
              /\ value' = Shift(Shift(input))
          BY <3>1, <3>4 DEF AfterOne
        <5>2. out' = <<Low(input) + 128, Low(Shift(input)) + 128>>
          BY <5>1, Append1
        <5>3. /\ input' = input /\ input >= 16384
              /\ value' = Shift(Shift(input))
          BY <3>1, <4>1, <5>1
        <5> QED BY <5>2, <5>3 DEF AfterTwo, Low, Shift
      <4> QED BY <3>1, <3>2, <4>2 DEF CodecInv
    <3>5. CASE AfterTwo
      BY <2>0, <2>s, <3>1, <3>5 DEF AfterTwo
    <3> QED BY <3>1, <3>3, <3>4, <3>5 DEF CodecInv
  <2>2. CASE PushLast
    <3>1. ~done /\ done' = TRUE /\ input' = input /\ value' = 0
          /\ Shift(value) = 0 /\ out' = Append(out, Low(value))
      BY <2>2 DEF PushLast
    <3>2. value < 128 /\ Low(value) = value
      BY <2>s, <3>1
    <3>3. out' = Encode(input)
      <4>1. CASE Atstart
        BY <4>1, <3>1, <3>2 DEF Atstart, Encode
      <4>2. CASE AfterOne
        <5>1. input < 16384 /\ ~(input < 128)
          BY <4>2, <2>0, <2>s, <3>2 DEF AfterOne
        <5>2. /\ out = <<Low(input) + 128>>
              /\ out' = Append(out, Shift(input))
          BY <4>2, <3>1, <3>2 DEF AfterOne
        <5>3. out' = <<Low(input) + 128, Shift(input)>>
          BY <5>2, Append1
        <5> QED BY <5>1, <5>3 DEF Encode
      <4>3. CASE AfterTwo
        <5>1. ~(input < 16384) /\ ~(input < 128)
          BY <4>3, <2>0 DEF AfterTwo
        <5>2. /\ out = <<Low(input) + 128, Low(Shift(input)) + 128>>
              /\ out' = Append(out, Shift(Shift(input)))
          BY <4>3, <3>1, <3>2 DEF AfterTwo
        <5>3. out' = <<Low(input) + 128, Low(Shift(input)) + 128,
                       Shift(Shift(input))>>
          BY <5>2, Append2
        <5> QED BY <5>1, <5>3 DEF Encode
      <4> QED BY <4>1, <4>2, <4>3, <3>1 DEF CodecInv
    <3>4. input' \in u16 /\ value' \in u16
      BY <2>0, <3>1, Ranges
    <3>5. Encode(input') = Encode(input)
      BY <3>1
    <3> QED BY <3>1, <3>3, <3>4, <3>5 DEF CodecInv
  <2>3. CASE UNCHANGED codecVars
    <3>1. input' = input /\ value' = value /\ out' = out /\ done' = done
      BY <2>3 DEF codecVars
    <3>2. /\ Atstart => Atstart'
          /\ AfterOne => AfterOne'
          /\ AfterTwo => AfterTwo'
      BY <3>1 DEF Atstart, AfterOne, AfterTwo
    <3> QED BY <3>1, <3>2 DEF CodecInv
  <2> QED BY <2>1, <2>2, <2>3 DEF CodecNext, CodecDone
<1> QED BY <1>1, <1>2, PTL DEF CodecSpec

(* The loop writes the bytes of Encode. *)
THEOREM WritesEncode == CodecSpec => []Encodes
<1>1. CodecInv => Encodes
  BY DEF CodecInv, Encodes
<1> QED BY <1>1, CodecInvariance, PTL

(* Every variable stays in its range, and three bytes are enough. *)
THEOREM CodecTypeCorrect == CodecSpec => []CodecTypeOK
<1>1. CodecInv => CodecTypeOK
  <2> SUFFICES ASSUME CodecInv PROVE CodecTypeOK
    OBVIOUS
  <2>0. input \in Nat /\ input < 65536
    BY Ranges DEF CodecInv
  <2>s. /\ input = 128 * Shift(input) + Low(input) /\ Shift(input) \in Nat
        /\ Low(input) \in Nat /\ Low(input) < 128
        /\ Shift(input) = 128 * Shift(Shift(input)) + Low(Shift(input))
        /\ Shift(Shift(input)) \in Nat
        /\ Low(Shift(input)) \in Nat /\ Low(Shift(input)) < 128
    BY <2>0, Shifting
  <2>1. /\ Low(input) + 128 \in Byte /\ Low(Shift(input)) + 128 \in Byte
        /\ Shift(Shift(input)) \in Byte
        /\ input < 16384 => Shift(input) \in Byte
        /\ input < 128 => input \in Byte
    BY <2>0, <2>s, Ranges
  <2>2. out \in Seq(Byte) /\ Len(out) <= 3
    <3>1. CASE done /\ input < 128
      <4>1. out = <<input>>
        BY <3>1 DEF CodecInv, Encode
      <4> QED BY <4>1, <3>1, <2>1
    <3>2. CASE done /\ ~(input < 128) /\ input < 16384
      <4>1. out = <<Low(input) + 128, Shift(input)>>
        BY <3>2 DEF CodecInv, Encode
      <4> QED BY <4>1, <3>2, <2>1
    <3>3. CASE done /\ ~(input < 128) /\ ~(input < 16384)
      <4>1. out = <<Low(input) + 128, Low(Shift(input)) + 128,
                    Shift(Shift(input))>>
        BY <3>3 DEF CodecInv, Encode
      <4> QED BY <4>1, <2>1
    <3>4. CASE ~done /\ out = << >>
      BY <3>4
    <3>5. CASE ~done /\ out = <<Low(input) + 128>>
      BY <3>5, <2>1
    <3>6. CASE ~done /\ out = <<Low(input) + 128, Low(Shift(input)) + 128>>
      BY <3>6, <2>1
    <3> QED
      BY <3>1, <3>2, <3>3, <3>4, <3>5, <3>6
      DEF CodecInv, Atstart, AfterOne, AfterTwo
  <2> QED BY <2>2 DEF CodecTypeOK, CodecInv
<1> QED BY <1>1, CodecInvariance, PTL

(* No byte of an encoding is wasted. *)
THEOREM MinimalEncoding == CodecSpec => []Minimal
<1>1. CodecInv => Minimal
  <2> SUFFICES ASSUME CodecInv, done, Len(out) > 1 PROVE out[Len(out)] # 0
    BY DEF Minimal
  <2>0. input \in Nat /\ out = Encode(input)
    BY Ranges DEF CodecInv
  <2>s. /\ input = 128 * Shift(input) + Low(input) /\ Shift(input) \in Nat
        /\ Low(input) \in Nat /\ Low(input) < 128
        /\ Shift(input) = 128 * Shift(Shift(input)) + Low(Shift(input))
        /\ Shift(Shift(input)) \in Nat
        /\ Low(Shift(input)) \in Nat /\ Low(Shift(input)) < 128
    BY <2>0, Shifting
  <2>1. CASE input < 128
    <3>1. Len(out) = 1
      BY <2>0, <2>1 DEF Encode
    <3> QED BY <3>1
  <2>2. CASE ~(input < 128) /\ input < 16384
    <3>1. Len(out) = 2 /\ out[2] = Shift(input)
      BY <2>0, <2>2 DEF Encode
    <3>2. Shift(input) # 0
      BY <2>0, <2>s, <2>2
    <3> QED BY <3>1, <3>2
  <2>3. CASE ~(input < 128) /\ ~(input < 16384)
    <3>1. Len(out) = 3 /\ out[3] = Shift(Shift(input))
      BY <2>0, <2>3 DEF Encode
    <3>2. Shift(input) >= 128
      BY <2>0, <2>s, <2>3
    <3>3. Shift(Shift(input)) # 0
      BY <2>s, <3>2
    <3> QED BY <3>1, <3>3
  <2> QED BY <2>1, <2>2, <2>3
<1> QED BY <1>1, CodecInvariance, PTL

(* A reader gets the length back, and stops at the last byte of it. *)
THEOREM RoundTrip == CodecSpec => []ReadsBack
<1>1. CodecInv => ReadsBack
  <2> SUFFICES ASSUME CodecInv, done, NEW next \in Byte
               PROVE  /\ Size(Append(out, next), 1) = Len(out)
                      /\ Decode(Append(out, next), 1) = input
    BY DEF ReadsBack
  <2> DEFINE a == Low(input)
             v == Shift(input)
             b == Low(v)
             c == Shift(v)
             s == Append(out, next)
  <2>0. input \in Nat /\ input < 65536 /\ out = Encode(input)
    BY Ranges DEF CodecInv
  <2>s. /\ input = 128 * v + a /\ v = 128 * c + b
        /\ a \in Nat /\ b \in Nat /\ c \in Nat /\ v \in Nat
        /\ a < 128 /\ b < 128
    BY <2>0, Shifting
  <2>h. Low(a + 128) = a /\ Low(b + 128) = b
    BY <2>s, HighBit
  <2>1. CASE input < 128
    <3>0. out = <<input>>
      BY <2>0, <2>1 DEF Encode
    <3>1. s = <<input, next>> /\ Len(out) = 1
      BY <3>0, Append1
    <3> HIDE DEF s
    <3>2. s[1] = input
      BY <3>1
    <3>3. Size(s, 1) = 1
      BY <3>2, <2>1 DEF Size
    <3>4. Decode(s, 1) = input
      BY <3>2, <3>3 DEF Decode
    <3> QED BY <3>1, <3>3, <3>4 DEF s
  <2>2. CASE ~(input < 128) /\ input < 16384
    <3>0. out = <<a + 128, v>>
      BY <2>0, <2>2 DEF Encode
    <3>1. s = <<a + 128, v, next>> /\ Len(out) = 2
      BY <3>0, Append2
    <3>2. v < 128
      BY <2>0, <2>s, <2>2
    <3> HIDE DEF s, a, v
    <3>3. s[1] = a + 128 /\ s[1 + 1] = v
      BY <3>1
    <3>4. Size(s, 1) = 2
      BY <3>2, <3>3, <2>s DEF Size
    <3>5. Decode(s, 1) = Low(s[1]) + 128 * s[1 + 1]
      BY <3>4 DEF Decode
    <3>6. Decode(s, 1) = input
      BY <3>3, <3>5, <2>s, <2>h
    <3> QED BY <3>1, <3>4, <3>6 DEF s
  <2>3. CASE ~(input < 128) /\ ~(input < 16384)
    <3>0. out = <<a + 128, b + 128, c>>
      BY <2>0, <2>3 DEF Encode
    <3>1. s = <<a + 128, b + 128, c, next>> /\ Len(out) = 3
      BY <3>0, Append3
    <3> HIDE DEF s, a, b, c, v
    <3>2. s[1] = a + 128 /\ s[1 + 1] = b + 128 /\ s[1 + 2] = c
      BY <3>1
    <3>3. Size(s, 1) = 3
      BY <3>2, <2>s DEF Size
    <3>4. Decode(s, 1) = Low(s[1]) + 128 * Low(s[1 + 1]) + 16384 * s[1 + 2]
      BY <3>3 DEF Decode
    <3>5. Decode(s, 1) = input
      BY <3>2, <3>4, <2>s, <2>h
    <3> QED BY <3>1, <3>3, <3>5 DEF s
  <2> QED BY <2>1, <2>2, <2>3
<1> QED BY <1>1, CodecInvariance, PTL

(* push_compact_u16 is right for every length of 16 bits.                  *)
THEOREM RightBytes == CodecSpec => []CompactU16
<1>1. Encodes /\ ReadsBack /\ Minimal => CompactU16
  BY DEF CompactU16
<1> QED BY <1>1, WritesEncode, RoundTrip, MinimalEncoding, PTL

-----------------------------------------------------------------------------
(* The counts: two numbers that pass the capacity checks of their buffers  *)
(* are together below a word, so a sum that wrapped is found out.          *)

Summed  == {"payload", "warmup_buffer", "warmup", "buffers", "measure"}
Started == {"warmup", "buffers", "measure"}

CountsInv ==
  /\ CountsTypeOK
  /\ pc \notin {"start", "error"} => iterations # 0
  /\ pc \in Summed => total = Sum % Words
  /\ pc \in Started => Fits(warmup)
  /\ pc = "measure" => Fits(iterations)

(* A buffer that fits has less than half a word of samples. *)
LEMMA BelowHalf ==
  ASSUME NEW n \in Nat, Fits(n)
  PROVE  2 * n < Words
<1>1. 2 * n * SampleSize >= 2 * n
  <2>1. SampleSize \in Nat /\ SampleSize >= 1
    BY CountsAssumption
  <2>2. PICK k \in Nat : SampleSize = k + 1
    BY <2>1, SampleSize - 1 \in Nat
  <2>3. 2 * n * SampleSize = 2 * n * k + 2 * n /\ 2 * n * k >= 0
    BY <2>2
  <2> QED BY <2>1, <2>3
<1> QED BY <1>1, CountsAssumption DEF Fits

(* A remainder is a word, and a word is its own remainder. *)
LEMMA Remainder ==
  ASSUME NEW n \in Nat
  PROVE  n % Words \in usize /\ (n < Words => n % Words = n)
BY CountsAssumption DEF usize

(* The sum of the counts, before it is a word.                             *)
LEMMA SumIsNat ==
  ASSUME CountsTypeOK
  PROVE  /\ warmup_message_count \in Nat /\ Sum \in Nat
         /\ Sum = warmup_message_count + iterations
         /\ warmup_message_count <= warmup \/ warmup_message_count = 1
BY CountsAssumption DEF CountsTypeOK, usize, Sum, warmup_message_count

(* CountsInvariance of CountsInv. *)
THEOREM CountsInvariance == CountsSpec => []CountsInv
<1>1. CountsInit => CountsInv
  BY CountsAssumption
  DEF CountsInit, CountsInv, CountsTypeOK, usize, Ends, Summed, Started
<1>2. CountsInv /\ [CountsNext]_countVars => CountsInv'
  <2> SUFFICES ASSUME CountsInv, [CountsNext]_countVars PROVE CountsInv'
    OBVIOUS
  <2> USE DEF Goto, options
  <2>0. CountsTypeOK
    BY DEF CountsInv
  <2>1. CASE CheckIterations
    BY <2>1 DEF CheckIterations, CountsInv, CountsTypeOK, Ends, Summed, Started
  <2>2. CASE Generate
    <3>1. pc = "generate" /\ UNCHANGED <<options, warmup_index>>
      BY <2>2 DEF Generate
    <3>2. CASE total' = Sum % Words /\ pc' = "payload"
      <4>1. Sum % Words \in usize
        BY <2>0, SumIsNat, Remainder
      <4>2. Sum' = Sum
        BY <3>1 DEF Sum, warmup_message_count
      <4>3. CountsTypeOK'
        BY <3>1, <3>2, <4>1, <2>0 DEF CountsTypeOK
      <4> QED BY <3>1, <3>2, <4>2, <4>3 DEF CountsInv, Summed, Started
    <3>3. CASE total' = total /\ pc' \in {"panic", "aborted"}
      BY <3>1, <3>3 DEF CountsInv, CountsTypeOK, Ends, Summed, Started
    <3> QED BY <2>2, <3>2, <3>3 DEF Generate
  <2>3. CASE PayloadLength
    <3>1. pc = "payload" /\ UNCHANGED <<options, total, warmup_index>>
          /\ pc' \in {"panic", "warmup_buffer"}
      BY <2>3 DEF PayloadLength
    <3> QED BY <3>1 DEF CountsInv, CountsTypeOK, Ends, Summed, Started, Sum,
                        warmup_message_count
  <2>4. CASE WarmupBuffer
    <3>1. pc = "warmup_buffer" /\ UNCHANGED <<options, total, warmup_index>>
          /\ (pc' = "panic" \/ (pc' = "warmup" /\ Fits(warmup)))
      BY <2>4 DEF WarmupBuffer
    <3> QED BY <3>1 DEF CountsInv, CountsTypeOK, Ends, Summed, Started, Sum,
                        warmup_message_count, Fits
  <2>5. CASE WarmupSign
    <3>1. /\ pc = "warmup" /\ UNCHANGED <<options, total>>
          /\ \/ pc' = pc /\ warmup_index' = warmup_index + 1
             \/ pc' = "error" /\ UNCHANGED warmup_index
      BY <2>5 DEF WarmupSign
    <3> QED BY <3>1 DEF CountsInv, CountsTypeOK, Ends, Summed, Started, Sum,
                        warmup_message_count, Fits
  <2>6. CASE WarmupInterrupted
    BY <2>6 DEF WarmupInterrupted, CountsInv, CountsTypeOK, Ends, Summed,
                Started
  <2>7. CASE WarmupDone
    BY <2>7 DEF WarmupDone, CountsInv, CountsTypeOK, Ends, Summed, Started, Sum,
                warmup_message_count, Fits
  <2>8. CASE Buffers
    <3>1. pc = "buffers" /\ UNCHANGED <<options, total, warmup_index>>
          /\ (pc' = "panic" \/ (pc' = "measure" /\ Fits(iterations)))
      BY <2>8 DEF Buffers
    <3> QED BY <3>1 DEF CountsInv, CountsTypeOK, Ends, Summed, Started, Sum,
                        warmup_message_count, Fits
  <2>9. CASE UNCHANGED countVars
    BY <2>9 DEF countVars, CountsInv, CountsTypeOK, Summed, Started, Sum,
                warmup_message_count, Fits
  <2> QED BY <2>1, <2>2, <2>3, <2>4, <2>5, <2>6, <2>7, <2>8, <2>9
          DEF CountsNext, CountsEnd
<1> QED BY <1>1, <1>2, PTL DEF CountsSpec

(* Every variable stays in its range. *)
THEOREM CountsTypeCorrect == CountsSpec => []CountsTypeOK
<1>1. CountsInv => CountsTypeOK
  BY DEF CountsInv
<1> QED BY <1>1, CountsInvariance, PTL

(* Where the measurement begins, there is a message for each iteration. *)
THEOREM WrapIsFoundOut == CountsSpec => []NothingWrapped
<1>1. CountsInv => NothingWrapped
  <2> SUFFICES ASSUME CountsInv, pc = "measure"
               PROVE  total = warmup_message_count + iterations
    BY DEF NothingWrapped
  <2>0. CountsTypeOK /\ warmup \in Nat /\ iterations \in Nat /\ iterations # 0
    BY DEF CountsInv, CountsTypeOK, usize
  <2>1. 2 * warmup < Words /\ 2 * iterations < Words
    BY <2>0, BelowHalf DEF CountsInv, Started
  <2>2. Sum \in Nat /\ Sum < Words
    BY <2>0, <2>1, SumIsNat, CountsAssumption
  <2>3. total = Sum % Words
    BY DEF CountsInv, Summed
  <2> QED BY <2>0, <2>2, <2>3, SumIsNat, Remainder
<1> QED BY <1>1, CountsInvariance, PTL

-----------------------------------------------------------------------------
(* The bytes: what a transfer's message has where, read back.              *)

(* Two sequences of bytes, one after the other.                            *)
Joins(u, s, t) ==
  /\ u \in Seq(Byte) /\ Len(u) = Len(s) + Len(t)
  /\ \A j \in 1 .. Len(s) : u[j] = s[j]
  /\ \A j \in 1 .. Len(t) : u[Len(s) + j] = t[j]

(* What the operator of sequences makes of two of them.                    *)
LEMMA Joined ==
  ASSUME NEW s \in Seq(Byte), NEW t \in Seq(Byte)
  PROVE  Joins(s \o t, s, t)
<1> DEFINE u == s \o t
<1>1. /\ u \in Seq(Byte) /\ Len(u) = Len(s) + Len(t)
      /\ \A j \in 1 .. Len(s) + Len(t) :
           u[j] = IF j <= Len(s) THEN s[j] ELSE t[j - Len(s)]
  BY ConcatProperties
<1> HIDE DEF u
<1>2. Len(s) \in Nat /\ Len(t) \in Nat
  OBVIOUS
<1>3. \A j \in 1 .. Len(s) : u[j] = s[j]
  BY <1>1, <1>2
<1>4. \A j \in 1 .. Len(t) : u[Len(s) + j] = t[j]
  <2> SUFFICES ASSUME NEW j \in 1 .. Len(t)
               PROVE  u[Len(s) + j] = t[j]
    OBVIOUS
  <2>1. /\ Len(s) + j \in 1 .. Len(s) + Len(t) /\ ~(Len(s) + j <= Len(s))
        /\ (Len(s) + j) - Len(s) = j
    BY <1>2
  <2> QED BY <1>1, <2>1
<1>5. Joins(u, s, t)
  BY <1>1, <1>3, <1>4 DEF Joins
<1> QED BY <1>5 DEF u

(* Two sequences of the same bytes.                                        *)
LEMMA SameBytes ==
  ASSUME NEW s \in Seq(Byte), NEW t \in Seq(Byte), NEW a \in Nat,
         Len(s) = a, Len(t) = a, \A j \in 1 .. a : s[j] = t[j]
  PROVE  s = t
BY SeqEqual

(* The bytes w of a number, two, four and eight of them.                   *)
Is16(w, n) ==
  /\ w \in Seq(Byte) /\ Len(w) = 2
  /\ w[1] = n % 256 /\ w[2] = (n \div 256) % 256
Is32(w, n) ==
  /\ w \in Seq(Byte) /\ Len(w) = 4
  /\ \A j \in 1 .. 2 : w[j] = le16(n)[j]
  /\ \A j \in 1 .. 2 : w[2 + j] = le16(n \div 65536)[j]
Is64(w, n) ==
  /\ w \in Seq(Byte) /\ Len(w) = 8
  /\ \A j \in 1 .. 4 : w[j] = le32(n)[j]
  /\ \A j \in 1 .. 4 : w[4 + j] = le32(high(n))[j]

(* The two bytes of a number are bytes.                                    *)
LEMMA Bytes16 ==
  ASSUME NEW n \in Nat
  PROVE  Is16(le16(n), n)
<1>1. n % 256 \in Byte /\ (n \div 256) % 256 \in Byte
  <2>1. n \div 256 \in Nat
    OBVIOUS
  <2>2. n % 256 \in 0 .. 255 /\ (n \div 256) % 256 \in 0 .. 255
    BY <2>1
  <2> QED BY <2>2 DEF Byte, u8_MAX
<1>2. /\ le16(n) \in Seq(Byte) /\ Len(le16(n)) = 2
      /\ le16(n)[1] = n % 256 /\ le16(n)[2] = (n \div 256) % 256
  BY <1>1 DEF le16
<1> QED BY <1>2 DEF Is16

(* A number in base 256.                                                   *)
LEMMA Digits ==
  ASSUME NEW k \in Nat, NEW a \in Nat, NEW b \in Nat, NEW c \in Nat,
         NEW d \in Nat, k = 256 * a + b, a = 256 * c + d, b < 256, d < 256
  PROVE  k = 65536 * c + (256 * d + b) /\ 256 * d + b < 65536
OBVIOUS

(* A number of 65536ths and what is left over.                             *)
LEMMA Quotient ==
  ASSUME NEW k \in Nat, NEW c \in Nat, NEW r \in Nat,
         k = 65536 * c + r, r < 65536
  PROVE  k \div 65536 = c
OBVIOUS

(* A number is its two low bytes and what is above them.                   *)
LEMMA Whole16 ==
  ASSUME NEW k \in Nat
  PROVE  k = 65536 * (k \div 65536)
               + (256 * ((k \div 256) % 256) + (k % 256))
<1>1. PICK a \in Nat, b \in Nat :
        k = 256 * a + b /\ b < 256 /\ a = k \div 256 /\ b = k % 256
  OBVIOUS
<1>2. PICK c \in Nat, d \in Nat :
        a = 256 * c + d /\ d < 256 /\ d = a % 256
  OBVIOUS
<1>3. k = 65536 * c + (256 * d + b) /\ 256 * d + b < 65536
  BY <1>1, <1>2, Digits
<1>4. 256 * d + b \in Nat
  OBVIOUS
<1>5. k \div 65536 = c
  BY <1>3, <1>4, Quotient
<1>6. d = (k \div 256) % 256 /\ b = k % 256
  BY <1>1, <1>2
<1> QED BY <1>3, <1>5, <1>6

(* Numbers with the same low bytes and the same rest are the same.         *)
LEMMA Same16 ==
  ASSUME NEW m \in Nat, NEW n \in Nat, le16(m) = le16(n),
         m \div 65536 = n \div 65536
  PROVE  m = n
<1>1. Is16(le16(m), m) /\ Is16(le16(n), n)
  BY Bytes16
<1>2. m % 256 = n % 256 /\ (m \div 256) % 256 = (n \div 256) % 256
  BY <1>1 DEF Is16
<1>3. /\ m = 65536 * (m \div 65536)
               + (256 * ((m \div 256) % 256) + (m % 256))
      /\ n = 65536 * (n \div 65536)
               + (256 * ((n \div 256) % 256) + (n % 256))
  BY Whole16
<1> QED BY <1>2, <1>3

(* What is above four bytes is a number.                                   *)
LEMMA HighIsNat ==
  ASSUME NEW n \in Nat
  PROVE  high(n) \in Nat
<1>1. PICK h \in Nat : h = n \div 65536
  OBVIOUS
<1>2. h \div 65536 \in Nat
  OBVIOUS
<1> QED BY <1>1, <1>2 DEF high

(* The four bytes of a number are its two and those of the rest.           *)
LEMMA Bytes32 ==
  ASSUME NEW n \in Nat
  PROVE  Is32(le32(n), n)
<1>1. PICK h \in Nat : h = n \div 65536
  OBVIOUS
<1>2. Is16(le16(n), n) /\ Is16(le16(h), h)
  BY Bytes16
<1>3. /\ le16(n) \in Seq(Byte) /\ Len(le16(n)) = 2
      /\ le16(h) \in Seq(Byte) /\ Len(le16(h)) = 2
  BY <1>2 DEF Is16
<1>4. Joins(le16(n) \o le16(h), le16(n), le16(h))
  BY <1>3, Joined
<1>5. le32(n) = le16(n) \o le16(h)
  BY <1>1 DEF le32
<1>6. Joins(le32(n), le16(n), le16(h))
  BY <1>4, <1>5
<1>7. /\ le32(n) \in Seq(Byte) /\ Len(le32(n)) = 4
      /\ \A j \in 1 .. 2 : le32(n)[j] = le16(n)[j]
      /\ \A j \in 1 .. 2 : le32(n)[2 + j] = le16(h)[j]
  BY <1>3, <1>6 DEF Joins
<1> QED BY <1>1, <1>7 DEF Is32

(* Numbers with the same four bytes and the same rest are the same.        *)
LEMMA Same32 ==
  ASSUME NEW m \in Nat, NEW n \in Nat, le32(m) = le32(n), high(m) = high(n)
  PROVE  m = n
<1>1. PICK g \in Nat : g = m \div 65536
  OBVIOUS
<1>2. PICK h \in Nat : h = n \div 65536
  OBVIOUS
<1>3. Is32(le32(m), m) /\ Is32(le32(n), n)
  BY Bytes32
<1>4. /\ Is16(le16(m), m) /\ Is16(le16(n), n)
      /\ Is16(le16(g), g) /\ Is16(le16(h), h)
  BY Bytes16
<1>5. /\ le16(m) \in Seq(Byte) /\ Len(le16(m)) = 2
      /\ le16(n) \in Seq(Byte) /\ Len(le16(n)) = 2
      /\ le16(g) \in Seq(Byte) /\ Len(le16(g)) = 2
      /\ le16(h) \in Seq(Byte) /\ Len(le16(h)) = 2
  BY <1>4 DEF Is16
<1>6. \A j \in 1 .. 2 : le16(m)[j] = le16(n)[j]
  BY <1>3 DEF Is32
<1>7. \A j \in 1 .. 2 : le16(g)[j] = le16(h)[j]
  BY <1>1, <1>2, <1>3 DEF Is32
<1>8. le16(m) = le16(n)
  BY <1>5, <1>6, SameBytes
<1>9. le16(g) = le16(h)
  BY <1>5, <1>7, SameBytes
<1>10. g \div 65536 = h \div 65536
  BY <1>1, <1>2 DEF high
<1>11. g = h
  BY <1>9, <1>10, Same16
<1>12. m \div 65536 = n \div 65536
  BY <1>1, <1>2, <1>11
<1> QED BY <1>8, <1>12, Same16

(* The eight bytes of a number are its four and those of the rest.         *)
LEMMA Bytes64 ==
  ASSUME NEW n \in Nat
  PROVE  Is64(le64(n), n)
<1>1. PICK h \in Nat : h = high(n)
  BY HighIsNat
<1>2. Is32(le32(n), n) /\ Is32(le32(h), h)
  BY Bytes32
<1>3. /\ le32(n) \in Seq(Byte) /\ Len(le32(n)) = 4
      /\ le32(h) \in Seq(Byte) /\ Len(le32(h)) = 4
  BY <1>2 DEF Is32
<1>4. Joins(le32(n) \o le32(h), le32(n), le32(h))
  BY <1>3, Joined
<1>5. le64(n) = le32(n) \o le32(h)
  BY <1>1 DEF le64
<1>6. Joins(le64(n), le32(n), le32(h))
  BY <1>4, <1>5
<1>7. /\ le64(n) \in Seq(Byte) /\ Len(le64(n)) = 8
      /\ \A j \in 1 .. 4 : le64(n)[j] = le32(n)[j]
      /\ \A j \in 1 .. 4 : le64(n)[4 + j] = le32(h)[j]
  BY <1>3, <1>6 DEF Joins
<1> QED BY <1>1, <1>7 DEF Is64

(* No two indices have the same eight bytes.                               *)
LEMMA Same64 ==
  ASSUME NEW m \in usize, NEW n \in usize,
         \A j \in 1 .. 8 : le64(m)[j] = le64(n)[j]
  PROVE  m = n
<1>1. m \in Nat /\ n \in Nat
  BY CountsAssumption DEF usize
<1>2. PICK g \in Nat : g = high(m)
  BY <1>1, HighIsNat
<1>3. PICK h \in Nat : h = high(n)
  BY <1>1, HighIsNat
<1>4. Is64(le64(m), m) /\ Is64(le64(n), n)
  BY <1>1, Bytes64
<1>5. /\ Is32(le32(m), m) /\ Is32(le32(n), n)
      /\ Is32(le32(g), g) /\ Is32(le32(h), h)
  BY <1>1, Bytes32
<1>6. /\ le32(m) \in Seq(Byte) /\ Len(le32(m)) = 4
      /\ le32(n) \in Seq(Byte) /\ Len(le32(n)) = 4
      /\ le32(g) \in Seq(Byte) /\ Len(le32(g)) = 4
      /\ le32(h) \in Seq(Byte) /\ Len(le32(h)) = 4
  BY <1>5 DEF Is32
<1>7. \A j \in 1 .. 4 : le32(m)[j] = le32(n)[j]
  BY <1>4 DEF Is64
<1>8. \A j \in 1 .. 4 : le32(g)[j] = le32(h)[j]
  <2> SUFFICES ASSUME NEW j \in 1 .. 4 PROVE le32(g)[j] = le32(h)[j]
    OBVIOUS
  <2>1. 4 + j \in 1 .. 8
    OBVIOUS
  <2>2. le64(m)[4 + j] = le64(n)[4 + j]
    BY <2>1
  <2> QED BY <1>2, <1>3, <1>4, <2>2 DEF Is64
<1>9. le32(m) = le32(n)
  BY <1>6, <1>7, SameBytes, ZenonT(30)
<1>10. le32(g) = le32(h)
  BY <1>6, <1>8, SameBytes
<1>11. high(g) = 0 /\ high(h) = 0
  BY <1>2, <1>3, WordAssumption
<1>12. g = h
  BY <1>10, <1>11, Same32
<1>13. high(m) = high(n)
  BY <1>2, <1>3, <1>12
<1> QED BY <1>1, <1>9, <1>13, Same32

(* So many bytes of 0.                                                     *)
LEMMA ZerosAre ==
  ASSUME NEW n \in Nat
  PROVE  /\ Zeros(n) \in Seq(Byte) /\ Len(Zeros(n)) = n
         /\ \A j \in 1 .. n : Zeros(n)[j] = 0
<1>1. 0 \in Byte
  BY DEF Byte, u8_MAX
<1> QED BY <1>1 DEF Zeros

(* An account is 32 bytes, whatever the token returns.                     *)
LEMMA AccountBytes ==
  ASSUME NEW k \in Seq(Byte)
  PROVE  account_bytes(k) \in Seq(Byte) /\ Len(account_bytes(k)) = 32
<1>1. 0 \in Byte
  BY DEF Byte, u8_MAX
<1>2. \A i \in 1 .. 32 : (IF i <= Len(k) THEN k[i] ELSE 0) \in Byte
  BY <1>1
<1> QED BY <1>2 DEF account_bytes

(* The data of a transfer are twelve bytes.                                *)
LEMMA DataBytes ==
  ASSUME NEW amount \in Nat
  PROVE  Data(amount) \in Seq(Byte) /\ Len(Data(amount)) = 12
<1>1. PICK i \in Nat : i = INSTRUCTION_TRANSFER
  BY DEF INSTRUCTION_TRANSFER
<1>2. Is32(le32(i), i) /\ Is64(le64(amount), amount)
  BY Bytes32, Bytes64
<1>3. /\ le32(i) \in Seq(Byte) /\ Len(le32(i)) = 4
      /\ le64(amount) \in Seq(Byte) /\ Len(le64(amount)) = 8
  BY <1>2 DEF Is32, Is64
<1>4. Joins(le32(i) \o le64(amount), le32(i), le64(amount))
  BY <1>3, Joined
<1>5. Data(amount) = le32(i) \o le64(amount)
  BY <1>1 DEF Data
<1> QED BY <1>3, <1>4, <1>5 DEF Joins

(* The lengths of a transfer are one byte each.                            *)
LEMMA SmallLengths ==
  ASSUME NEW v \in 0 .. 127
  PROVE  /\ Encode(v) = <<v>> /\ Encode(v) \in Seq(Byte)
         /\ Len(Encode(v)) = 1 /\ Encode(v)[1] = v
<1>1. v \in Byte /\ v < 128
  BY DEF Byte, u8_MAX
<1>2. Encode(v) = <<v>>
  BY <1>1 DEF Encode
<1> QED BY <1>1, <1>2

(* Of 8 bytes of index, 8 random ones and 16 of 0.                         *)
LEMMA BlockhashBytes ==
  ASSUME NEW i \in Nat, NEW nonce \in Seq(Byte), Len(nonce) = 8
  PROVE  /\ Blockhash(i, nonce) \in Seq(Byte)
         /\ Len(Blockhash(i, nonce)) = 32
         /\ \A j \in 1 .. 8 : Blockhash(i, nonce)[j] = le64(i)[j]
<1>1. PICK s : s = le64(i)
  OBVIOUS
<1>2. PICK z : z = Zeros(16)
  OBVIOUS
<1>3. PICK t : t = s \o nonce
  OBVIOUS
<1>4. PICK u : u = t \o z
  OBVIOUS
<1>5. Is64(s, i)
  BY <1>1, Bytes64
<1>6. s \in Seq(Byte) /\ Len(s) = 8
  BY <1>5 DEF Is64
<1>7. z \in Seq(Byte) /\ Len(z) = 16
  BY <1>2, ZerosAre
<1>8. Joins(t, s, nonce)
  BY <1>3, <1>6, Joined
<1>9. /\ t \in Seq(Byte) /\ Len(t) = 16
      /\ \A j \in 1 .. 8 : t[j] = s[j]
  BY <1>6, <1>8 DEF Joins
<1>10. Joins(u, t, z)
  BY <1>4, <1>7, <1>9, Joined
<1>11. /\ u \in Seq(Byte) /\ Len(u) = 32
       /\ \A j \in 1 .. 16 : u[j] = t[j]
  BY <1>7, <1>9, <1>10 DEF Joins
<1>12. Blockhash(i, nonce) = u
  BY <1>1, <1>2, <1>3, <1>4 DEF Blockhash
<1>13. \A j \in 1 .. 8 : u[j] = s[j]
  BY <1>9, <1>11
<1> QED BY <1>1, <1>11, <1>12, <1>13

(* What is in the 150 bytes of a message.                                  *)
Layout(m, sender, receiver, data, blockhash) ==
  /\ m \in Seq(Byte) /\ Len(m) = 150
  /\ m[1] = 1 /\ m[2] = 0 /\ m[3] = 1 /\ m[4] = 3
  /\ \A j \in 1 .. 32 : m[4 + j] = sender[j]
  /\ \A j \in 1 .. 32 : m[36 + j] = receiver[j]
  /\ \A j \in 1 .. 32 : m[68 + j] = SYSTEM_PROGRAM_ID[j]
  /\ \A j \in 1 .. 32 : m[100 + j] = blockhash[j]
  /\ m[133] = 1 /\ m[134] = 2 /\ m[135] = 2 /\ m[136] = 0 /\ m[137] = 1
  /\ m[138] = 12
  /\ \A j \in 1 .. 12 : m[138 + j] = data[j]

(* Sequences of bytes of a length.                                         *)
Bytes(n) == {b \in Seq(Byte) : Len(b) = n}

(* t after s, which ends at the byte a.                                    *)
After(u, s, t, a, b) ==
  /\ u \in Bytes(a + b)
  /\ \A j \in 1 .. a : u[j] = s[j]
  /\ \A j \in 1 .. b : u[a + j] = t[j]

LEMMA Extended ==
  ASSUME NEW a \in Nat, NEW b \in Nat, NEW s \in Bytes(a), NEW t \in Bytes(b)
  PROVE  After(s \o t, s, t, a, b)
<1>1. Joins(s \o t, s, t)
  BY Joined DEF Bytes
<1> QED BY <1>1 DEF After, Joins, Bytes

(* The bytes that are written as they stand.                               *)
LEMMA Literals ==
  /\ <<1, 0, 1>> \in Bytes(3) /\ <<2>> \in Bytes(1) /\ <<0, 1>> \in Bytes(2)
  /\ Encode(1) = <<1>> /\ Encode(2) = <<2>> /\ Encode(3) = <<3>>
  /\ Encode(12) = <<12>>
  /\ <<1>> \in Bytes(1) /\ <<3>> \in Bytes(1) /\ <<12>> \in Bytes(1)
<1>1. /\ 0 \in Byte /\ 1 \in Byte /\ 2 \in Byte /\ 3 \in Byte /\ 12 \in Byte
  BY DEF Byte, u8_MAX
<1> QED BY <1>1 DEF Bytes, Encode

(* Where the three accounts are.                                           *)
LEMMA AccountsLayout ==
  ASSUME NEW s \in Bytes(32), NEW r \in Bytes(32)
  PROVE  /\ Accounts(s, r) \in Bytes(97) /\ Accounts(s, r)[1] = 3
         /\ \A j \in 1 .. 32 : Accounts(s, r)[1 + j] = s[j]
         /\ \A j \in 1 .. 32 : Accounts(s, r)[33 + j] = r[j]
         /\ \A j \in 1 .. 32 : Accounts(s, r)[65 + j] = SYSTEM_PROGRAM_ID[j]
<1>1. PICK a : a = <<3>> \o s
  OBVIOUS
<1>2. PICK b : b = a \o r
  OBVIOUS
<1>3. PICK z : z = SYSTEM_PROGRAM_ID
  OBVIOUS
<1>4. PICK c : c = b \o z
  OBVIOUS
<1>5. Accounts(s, r) = c
  BY <1>1, <1>2, <1>3, <1>4, Literals DEF Accounts
<1>6. z \in Bytes(32)
  BY <1>3, ZerosAre DEF SYSTEM_PROGRAM_ID, Bytes
<1>7. /\ a \in Bytes(33) /\ a[1] = 3
      /\ \A j \in 1 .. 32 : a[1 + j] = s[j]
  <2>1. PICK h : h = <<3>> /\ h \in Bytes(1) /\ h[1] = 3
    BY Literals
  <2>2. After(h \o s, h, s, 1, 32)
    BY <2>1, Extended
  <2>3. After(a, h, s, 1, 32)
    BY <1>1, <2>1, <2>2
  <2> QED BY <2>1, <2>3 DEF After
<1>9. /\ b \in Bytes(65)
      /\ \A j \in 1 .. 33 : b[j] = a[j]
      /\ \A j \in 1 .. 32 : b[33 + j] = r[j]
  <2>1. After(b, a, r, 33, 32)
    BY <1>2, <1>7, Extended
  <2> QED BY <2>1 DEF After
<1>11. /\ c \in Bytes(97)
       /\ \A j \in 1 .. 65 : c[j] = b[j]
       /\ \A j \in 1 .. 32 : c[65 + j] = z[j]
  <2>1. After(c, b, z, 65, 32)
    BY <1>4, <1>6, <1>9, Extended
  <2> QED BY <2>1 DEF After
<1>12. c[1] = 3 /\ \A j \in 1 .. 32 : c[1 + j] = s[j]
  <2>1. c[1] = b[1] /\ b[1] = a[1]
    BY <1>9, <1>11
  <2>2. ASSUME NEW j \in 1 .. 32
        PROVE  c[1 + j] = s[j]
    <3>1. 1 + j \in 1 .. 33 /\ 1 + j \in 1 .. 65
      OBVIOUS
    <3>2. c[1 + j] = b[1 + j] /\ b[1 + j] = a[1 + j]
      BY <1>9, <1>11, <3>1
    <3> QED BY <1>7, <3>2
  <2> QED BY <1>7, <2>1, <2>2
<1>13. \A j \in 1 .. 32 : c[33 + j] = r[j]
  <2> SUFFICES ASSUME NEW j \in 1 .. 32
               PROVE  c[33 + j] = r[j]
    OBVIOUS
  <2>1. 33 + j \in 1 .. 65
    OBVIOUS
  <2> QED BY <1>9, <1>11, <2>1
<1> QED BY <1>3, <1>5, <1>11, <1>12, <1>13

(* Where message_bytes writes what.                                        *)
LEMMA MessageLayout ==
  ASSUME NEW s \in Bytes(32), NEW r \in Bytes(32), NEW amount \in Nat,
         NEW h \in Bytes(32)
  PROVE  Layout(message_bytes(s, r, amount, h), s, r, Data(amount), h)
<1>1. PICK a : a = Accounts(s, r)
  OBVIOUS
<1>2. PICK d : d = Data(amount)
  OBVIOUS
<1>3. PICK k1 : k1 = <<1, 0, 1>> /\ k1 \in Bytes(3)
                /\ k1[1] = 1 /\ k1[2] = 0 /\ k1[3] = 1
  BY Literals
<1>4. PICK k4 : k4 = <<1>> /\ k4 \in Bytes(1) /\ k4[1] = 1
  BY Literals
<1>5. PICK k5 : k5 = <<2>> /\ k5 \in Bytes(1) /\ k5[1] = 2
  BY Literals
<1>6. PICK k7 : k7 = <<0, 1>> /\ k7 \in Bytes(2) /\ k7[1] = 0 /\ k7[2] = 1
  BY Literals
<1>7. PICK k8 : k8 = <<12>> /\ k8 \in Bytes(1) /\ k8[1] = 12
  BY Literals
<1>8. PICK m2 : m2 = k1 \o a
  OBVIOUS
<1>9. PICK m3 : m3 = m2 \o h
  OBVIOUS
<1>10. PICK m4 : m4 = m3 \o k4
  OBVIOUS
<1>11. PICK m5 : m5 = m4 \o k5
  OBVIOUS
<1>12. PICK m6 : m6 = m5 \o k5
  OBVIOUS
<1>13. PICK m7 : m7 = m6 \o k7
  OBVIOUS
<1>14. PICK m8 : m8 = m7 \o k8
  OBVIOUS
<1>15. PICK m : m = m8 \o d
  OBVIOUS
<1>16. message_bytes(s, r, amount, h) = m
  BY <1>1, <1>2, <1>3, <1>4, <1>5, <1>6, <1>7, <1>8, <1>9, <1>10, <1>11,
     <1>12, <1>13, <1>14, <1>15, Literals DEF message_bytes
<1>17. /\ a \in Bytes(97) /\ a[1] = 3
       /\ \A j \in 1 .. 32 : a[1 + j] = s[j]
       /\ \A j \in 1 .. 32 : a[33 + j] = r[j]
       /\ \A j \in 1 .. 32 : a[65 + j] = SYSTEM_PROGRAM_ID[j]
  BY <1>1, AccountsLayout
<1>18. d \in Bytes(12)
  BY <1>2, DataBytes DEF Bytes
<1>19. After(m2, k1, a, 3, 97) /\ m2 \in Bytes(100)
  <2>1. After(m2, k1, a, 3, 97)
    BY <1>3, <1>8, <1>17, Extended
  <2> QED BY <2>1 DEF After
<1>20. After(m3, m2, h, 100, 32) /\ m3 \in Bytes(132)
  <2>1. After(m3, m2, h, 100, 32)
    BY <1>9, <1>19, Extended
  <2> QED BY <2>1 DEF After
<1>21. After(m4, m3, k4, 132, 1) /\ m4 \in Bytes(133)
  <2>1. After(m4, m3, k4, 132, 1)
    BY <1>4, <1>10, <1>20, Extended
  <2> QED BY <2>1 DEF After
<1>22. After(m5, m4, k5, 133, 1) /\ m5 \in Bytes(134)
  <2>1. After(m5, m4, k5, 133, 1)
    BY <1>5, <1>11, <1>21, Extended
  <2> QED BY <2>1 DEF After
<1>23. After(m6, m5, k5, 134, 1) /\ m6 \in Bytes(135)
  <2>1. After(m6, m5, k5, 134, 1)
    BY <1>5, <1>12, <1>22, Extended
  <2> QED BY <2>1 DEF After
<1>24. After(m7, m6, k7, 135, 2) /\ m7 \in Bytes(137)
  <2>1. After(m7, m6, k7, 135, 2)
    BY <1>6, <1>13, <1>23, Extended
  <2> QED BY <2>1 DEF After
<1>25. After(m8, m7, k8, 137, 1) /\ m8 \in Bytes(138)
  <2>1. After(m8, m7, k8, 137, 1)
    BY <1>7, <1>14, <1>24, Extended
  <2> QED BY <2>1 DEF After
<1>26. After(m, m8, d, 138, 12) /\ m \in Bytes(150)
  <2>1. After(m, m8, d, 138, 12)
    BY <1>15, <1>18, <1>25, Extended
  <2> QED BY <2>1 DEF After
<1>27. \A j \in 1 .. 138 : m[j] = m8[j]
  BY <1>26 DEF After
<1>28. \A j \in 1 .. 137 : m[j] = m7[j]
  BY <1>25, <1>27 DEF After
<1>29. \A j \in 1 .. 135 : m[j] = m6[j]
  BY <1>24, <1>28 DEF After
<1>30. \A j \in 1 .. 134 : m[j] = m5[j]
  BY <1>23, <1>29 DEF After
<1>31. \A j \in 1 .. 133 : m[j] = m4[j]
  BY <1>22, <1>30 DEF After
<1>32. \A j \in 1 .. 132 : m[j] = m3[j]
  BY <1>21, <1>31 DEF After
<1>33. \A j \in 1 .. 100 : m[j] = m2[j]
  BY <1>20, <1>32 DEF After
<1>34. m[1] = 1 /\ m[2] = 0 /\ m[3] = 1
  BY <1>3, <1>19, <1>33 DEF After
<1>35. \A j \in 1 .. 97 : m[3 + j] = a[j]
  BY <1>19, <1>33 DEF After
<1>36. m[4] = 3
  BY <1>17, <1>35
<1>37. \A j \in 1 .. 32 : m[4 + j] = s[j]
  <2> SUFFICES ASSUME NEW j \in 1 .. 32 PROVE m[4 + j] = s[j]
    OBVIOUS
  <2>1. 1 + j \in 1 .. 97 /\ 3 + (1 + j) = 4 + j
    OBVIOUS
  <2> QED BY <1>17, <1>35, <2>1
<1>38. \A j \in 1 .. 32 : m[36 + j] = r[j]
  <2> SUFFICES ASSUME NEW j \in 1 .. 32 PROVE m[36 + j] = r[j]
    OBVIOUS
  <2>1. 33 + j \in 1 .. 97 /\ 3 + (33 + j) = 36 + j
    OBVIOUS
  <2> QED BY <1>17, <1>35, <2>1
<1>39. \A j \in 1 .. 32 : m[68 + j] = SYSTEM_PROGRAM_ID[j]
  <2> SUFFICES ASSUME NEW j \in 1 .. 32
               PROVE  m[68 + j] = SYSTEM_PROGRAM_ID[j]
    OBVIOUS
  <2>1. 65 + j \in 1 .. 97 /\ 3 + (65 + j) = 68 + j
    OBVIOUS
  <2> QED BY <1>17, <1>35, <2>1
<1>40. \A j \in 1 .. 32 : m[100 + j] = h[j]
  BY <1>20, <1>32 DEF After
<1>41. m[133] = 1
  BY <1>4, <1>21, <1>31 DEF After
<1>42. m[134] = 2
  BY <1>5, <1>22, <1>30 DEF After
<1>43. m[135] = 2
  BY <1>5, <1>23, <1>29 DEF After
<1>44. m[136] = 0 /\ m[137] = 1
  BY <1>6, <1>24, <1>28 DEF After
<1>45. m[138] = 12
  BY <1>7, <1>25, <1>27 DEF After
<1>46. \A j \in 1 .. 12 : m[138 + j] = d[j]
  BY <1>26 DEF After
<1>47. m \in Seq(Byte) /\ Len(m) = 150
  BY <1>26 DEF Bytes
<1> QED BY <1>2, <1>16, <1>34, <1>36, <1>37, <1>38, <1>39, <1>40, <1>41,
           <1>42, <1>43, <1>44, <1>45, <1>46, <1>47 DEF Layout

(* A length below 128 is read from one byte.                               *)
LEMMA OneByteLength ==
  ASSUME NEW m, NEW p, m[p] \in Nat, m[p] < 128
  PROVE  Size(m, p) = 1 /\ Decode(m, p) = m[p]
<1>1. Size(m, p) = 1
  BY DEF Size
<1> QED BY <1>1 DEF Decode

(* The n bytes of b are in m after its first p.                            *)
Holds(m, p, n, b) ==
  /\ m \in Seq(Byte) /\ p \in Nat /\ n \in Nat /\ b \in Bytes(n)
  /\ p + n <= Len(m) /\ \A j \in 1 .. n : m[p + j] = b[j]

(* What is cut out there.                                                  *)
LEMMA SliceIs ==
  ASSUME NEW m, NEW p, NEW n, NEW b, Holds(m, p, n, b)
  PROVE  Slice(m, p + 1, n) = b
<1>0. /\ m \in Seq(Byte) /\ p \in Nat /\ n \in Nat /\ b \in Bytes(n)
      /\ p + n <= Len(m) /\ \A j \in 1 .. n : m[p + j] = b[j]
  BY DEF Holds
<1>1. /\ p + 1 \in Int /\ p + n \in Int /\ (p + n) - (p + 1) + 1 = n
      /\ (p + 1) + n - 1 = p + n
  BY <1>0
<1>2. \A i \in p + 1 .. p + n : m[i] \in Byte
  <2>1. Len(m) \in Nat
    BY <1>0
  <2> SUFFICES ASSUME NEW i \in p + 1 .. p + n PROVE m[i] \in Byte
    OBVIOUS
  <2>2. i \in 1 .. Len(m)
    BY <1>0, <2>1
  <2> QED BY <1>0, <2>2, ElementOfSeq
<1>3. PICK u : u = SubSeq(m, p + 1, p + n)
  OBVIOUS
<1>4. /\ u \in Seq(Byte)
      /\ Len(u) = IF p + 1 <= p + n THEN (p + n) - (p + 1) + 1 ELSE 0
      /\ \A i \in 1 .. (p + n) - (p + 1) + 1 : u[i] = m[(p + 1) + i - 1]
  BY <1>1, <1>2, <1>3, SubSeqProperties
<1>5. Len(u) = n /\ \A i \in 1 .. n : u[i] = m[p + i]
  BY <1>0, <1>1, <1>4
<1>6. b \in Seq(Byte) /\ Len(b) = n
  BY <1>0 DEF Bytes
<1>7. u = b
  BY <1>0, <1>4, <1>5, <1>6, SameBytes, SMTT(30)
<1> QED BY <1>1, <1>3, <1>7 DEF Slice

(* A function on the first n numbers is a sequence of n.                   *)
LEMMA FunctionIsSeq ==
  ASSUME NEW S, NEW n \in Nat, NEW f \in [1 .. n -> S]
  PROVE  f \in Seq(S) /\ Len(f) = n
OBVIOUS

(* The accounts of a message.                                              *)
LEMMA KeysAre ==
  ASSUME NEW m, NEW s \in Bytes(32), NEW r \in Bytes(32), NEW d,
         NEW h \in Bytes(32), Layout(m, s, r, d, h)
  PROVE  List(m, 4, 32) =
           [items |-> <<s, r, SYSTEM_PROGRAM_ID>>, next |-> 101]
<1>0. PICK z \in Bytes(32) : z = SYSTEM_PROGRAM_ID
  BY ZerosAre DEF SYSTEM_PROGRAM_ID, Bytes
<1>1. /\ m \in Seq(Byte) /\ Len(m) = 150 /\ m[4] = 3
      /\ \A j \in 1 .. 32 : m[4 + j] = s[j]
      /\ \A j \in 1 .. 32 : m[36 + j] = r[j]
      /\ \A j \in 1 .. 32 : m[68 + j] = z[j]
  BY <1>0 DEF Layout
<1>2. Size(m, 4) = 1 /\ Decode(m, 4) = 3
  <2>1. m[4] \in Nat /\ m[4] < 128
    BY <1>1
  <2>2. Size(m, 4) = 1 /\ Decode(m, 4) = m[4]
    BY <2>1, OneByteLength
  <2> QED BY <1>1, <2>2
<1>3. Slice(m, 4 + 1, 32) = s
  <2>1. Holds(m, 4, 32, s)
    BY <1>1 DEF Holds
  <2> QED BY <2>1, SliceIs
<1>4. Slice(m, 36 + 1, 32) = r
  <2>1. Holds(m, 36, 32, r)
    BY <1>1 DEF Holds
  <2> QED BY <2>1, SliceIs
<1>5. Slice(m, 68 + 1, 32) = z
  <2>1. Holds(m, 68, 32, z)
    BY <1>1 DEF Holds
  <2> QED BY <2>1, SliceIs
<1>6. PICK f : f = [i \in 1 .. Decode(m, 4) |->
                      Slice(m, (4 + Size(m, 4)) + (i - 1) * 32, 32)]
  OBVIOUS
<1>7. f[1] = s /\ f[2] = r /\ f[3] = z /\ DOMAIN f = 1 .. 3
  BY <1>2, <1>3, <1>4, <1>5, <1>6
<1>8. f = <<s, r, z>>
  <2>1. f \in Seq({s, r, z}) /\ Len(f) = 3
    <3>1. f \in [1 .. 3 -> {s, r, z}]
      BY <1>2, <1>6, <1>7
    <3> QED BY <3>1, FunctionIsSeq
  <2>2. <<s, r, z>> \in Seq({s, r, z}) /\ Len(<<s, r, z>>) = 3
    OBVIOUS
  <2>3. \A i \in 1 .. 3 : f[i] = <<s, r, z>>[i]
    BY <1>7
  <2> QED BY <2>1, <2>2, <2>3, SeqEqual
<1>9. List(m, 4, 32) =
        [items |-> f, next |-> (4 + Size(m, 4)) + Decode(m, 4) * 32]
  BY <1>6 DEF List
<1>10. (4 + Size(m, 4)) + Decode(m, 4) * 32 = 101
  BY <1>2
<1> QED BY <1>0, <1>8, <1>9, <1>10

(* A list of n bytes after byte p.                                         *)
IsList(l, m, p, n) ==
  /\ DOMAIN l.items = 1 .. n
  /\ \A i \in 1 .. n : l.items[i][1] = m[p + i]
  /\ l.next = p + n + 1

(* The length n at byte p, which is one byte.                              *)
IsLength(m, p, n) ==
  /\ m \in Seq(Byte) /\ p \in 1 .. Len(m) /\ n \in Nat
  /\ m[p] = n /\ n < 128 /\ p + n <= Len(m)

(* A list of bytes is what follows its length.                             *)
LEMMA BytesAre ==
  ASSUME NEW m, NEW p, NEW n, IsLength(m, p, n)
  PROVE  IsList(List(m, p, 1), m, p, n)
<1>0. /\ m \in Seq(Byte) /\ p \in 1 .. Len(m) /\ n \in Nat
      /\ m[p] = n /\ n < 128 /\ p + n <= Len(m) /\ p \in Nat
  BY DEF IsLength
<1>1. Size(m, p) = 1 /\ Decode(m, p) = n
  <2>1. m[p] \in Nat /\ m[p] < 128
    BY <1>0
  <2>2. Size(m, p) = 1 /\ Decode(m, p) = m[p]
    BY <2>1, OneByteLength
  <2> QED BY <1>0, <2>2
<1>2. PICK f : f = [i \in 1 .. Decode(m, p) |->
                      Slice(m, (p + Size(m, p)) + (i - 1) * 1, 1)]
  OBVIOUS
<1>3. List(m, p, 1) =
        [items |-> f, next |-> (p + Size(m, p)) + Decode(m, p) * 1]
  BY <1>2 DEF List
<1>4. \A i \in 1 .. n : f[i][1] = m[p + i]
  <2> SUFFICES ASSUME NEW i \in 1 .. n PROVE f[i][1] = m[p + i]
    OBVIOUS
  <2>0. Len(m) \in Nat /\ p \in Nat /\ m \in Seq(Byte) /\ p + n <= Len(m)
        /\ n \in Nat
    BY <1>0
  <2>1. PICK q \in Nat : q + 1 = p + i /\ q + 1 <= Len(m)
    <3>1. p + i - 1 \in Nat /\ (p + i - 1) + 1 = p + i
      BY <2>0
    <3>2. p + i <= Len(m)
      BY <2>0
    <3> QED BY <3>1, <3>2
  <2>2. m[q + 1] \in Byte
    BY <2>0, <2>1, ElementOfSeq
  <2>3. PICK b : b = <<m[q + 1]>>
    OBVIOUS
  <2>4. b \in Bytes(1) /\ b[1] = m[q + 1]
    BY <2>2, <2>3 DEF Bytes
  <2>5. \A j \in 1 .. 1 : m[q + j] = b[j]
    BY <2>4
  <2>6. Slice(m, q + 1, 1) = b
    <3>1. Holds(m, q, 1, b)
      BY <2>0, <2>1, <2>4, <2>5 DEF Holds
    <3> QED BY <3>1, SliceIs
  <2>7. f[i] = Slice(m, q + 1, 1)
    <3>1. (p + Size(m, p)) + (i - 1) * 1 = q + 1
        BY <1>1, <2>0, <2>1
    <3>2. i \in 1 .. Decode(m, p)
      BY <1>1
    <3> QED BY <1>2, <3>1, <3>2
  <2> QED BY <2>1, <2>4, <2>6, <2>7
<1>5. DOMAIN f = 1 .. n
  BY <1>1, <1>2
<1>6. (p + Size(m, p)) + Decode(m, p) * 1 = p + n + 1
  BY <1>0, <1>1
<1>7. PICK l : l = List(m, p, 1)
  OBVIOUS
<1>8. l.items = f /\ l.next = p + n + 1
  BY <1>3, <1>6, <1>7
<1>9. IsList(l, m, p, n)
  BY <1>4, <1>5, <1>8 DEF IsList
<1> QED BY <1>7, <1>9

(* The items of such a list.                                               *)
LEMMA ItemsAre ==
  ASSUME NEW m, NEW p, NEW n, NEW b, NEW l, IsList(l, m, p, n),
         Holds(m, p, n, b)
  PROVE  [i \in DOMAIN l.items |-> l.items[i][1]] = b
<1>1. PICK f : f = [i \in DOMAIN l.items |-> l.items[i][1]]
  OBVIOUS
<1>2. /\ DOMAIN l.items = 1 .. n
      /\ \A i \in 1 .. n : l.items[i][1] = m[p + i]
  BY DEF IsList
<1>3. /\ n \in Nat /\ b \in Seq(Byte) /\ Len(b) = n
      /\ \A i \in 1 .. n : m[p + i] = b[i]
  BY DEF Holds, Bytes
<1>4. \A i \in 1 .. n : f[i] = b[i]
  BY <1>1, <1>2, <1>3
<1>5. \A i \in 1 .. n : b[i] \in Byte
  BY <1>3, ElementOfSeq
<1>6. f \in [1 .. n -> Byte]
  BY <1>1, <1>2, <1>4, <1>5
<1>7. f \in Seq(Byte) /\ Len(f) = n
  BY <1>3, <1>6, FunctionIsSeq
<1>8. f = b
  BY <1>3, <1>4, <1>7, SameBytes
<1> QED BY <1>1, <1>8

(* The first and the last of three.                                        *)
LEMMA OfThree ==
  ASSUME NEW a, NEW b, NEW c
  PROVE  /\ SubSeq(<<a, b, c>>, 1, 1) = <<a>>
         /\ SubSeq(<<a, b, c>>, 3, 3) = <<c>>
<1> DEFINE S == {a, b, c}
           s == <<a, b, c>>
<1>1. s \in Seq(S) /\ Len(s) = 3 /\ s[1] = a /\ s[2] = b /\ s[3] = c
  OBVIOUS
<1>2. <<a>> \in Seq(S) /\ Len(<<a>>) = 1 /\ <<c>> \in Seq(S) /\ Len(<<c>>) = 1
  OBVIOUS
<1> HIDE DEF s
<1>3. /\ SubSeq(s, 1, 1) \in Seq(S) /\ Len(SubSeq(s, 1, 1)) = 1
      /\ SubSeq(s, 1, 1)[1] = s[1]
  BY <1>1
<1>4. /\ SubSeq(s, 3, 3) \in Seq(S) /\ Len(SubSeq(s, 3, 3)) = 1
      /\ SubSeq(s, 3, 3)[1] = s[3]
  BY <1>1
<1>5. SubSeq(s, 1, 1) = <<a>>
  <2>1. \A i \in 1 .. 1 : SubSeq(s, 1, 1)[i] = <<a>>[i]
    BY <1>1, <1>3
  <2> QED BY <1>2, <1>3, <2>1, SeqEqual
<1>6. SubSeq(s, 3, 3) = <<c>>
  <2>1. \A i \in 1 .. 1 : SubSeq(s, 3, 3)[i] = <<c>>[i]
    BY <1>1, <1>4
  <2> QED BY <1>2, <1>4, <2>1, SeqEqual
<1> QED BY <1>5, <1>6 DEF s

(* What Solana's reader makes of a message.                                *)
LEMMA ReadIs ==
  ASSUME NEW m, NEW s \in Bytes(32), NEW r \in Bytes(32), NEW d \in Bytes(12),
         NEW h \in Bytes(32), Layout(m, s, r, d, h)
  PROVE  Read(m) =
           [signers |-> <<s>>, readonly |-> <<SYSTEM_PROGRAM_ID>>,
            blockhash |-> h, instructions |-> 1,
            program |-> SYSTEM_PROGRAM_ID, accounts |-> <<s, r>>,
            data |-> d, length |-> 150]
<1>0. PICK z \in Bytes(32) : z = SYSTEM_PROGRAM_ID
  BY ZerosAre DEF SYSTEM_PROGRAM_ID, Bytes
<1>1. /\ m \in Seq(Byte) /\ Len(m) = 150 /\ m[1] = 1 /\ m[3] = 1
      /\ m[133] = 1 /\ m[134] = 2 /\ m[135] = 2 /\ m[136] = 0 /\ m[137] = 1
      /\ m[138] = 12
      /\ \A j \in 1 .. 32 : m[100 + j] = h[j]
      /\ \A j \in 1 .. 12 : m[138 + j] = d[j]
  BY DEF Layout
<1> DEFINE keys         == List(m, 4, 32)
           instructions == keys.next + 32
           program      == instructions + Size(m, instructions)
           accounts     == List(m, program + 1, 1)
           data         == List(m, accounts.next, 1)
<1>2. Read(m) =
        [signers |-> SubSeq(keys.items, 1, m[1]),
         readonly |-> SubSeq(keys.items, Len(keys.items) - m[3] + 1,
                             Len(keys.items)),
         blockhash |-> Slice(m, keys.next, 32),
         instructions |-> Decode(m, instructions),
         program |-> keys.items[m[program] + 1],
         accounts |-> [i \in DOMAIN accounts.items |->
                         keys.items[accounts.items[i][1] + 1]],
         data |-> [i \in DOMAIN data.items |-> data.items[i][1]],
         length |-> data.next - 1]
  BY DEF Read
<1>3. keys.items = <<s, r, z>> /\ keys.next = 101
  BY <1>0, KeysAre
<1> HIDE DEF keys
<1>4. instructions = 133
  BY <1>3
<1> HIDE DEF instructions
<1>5. Size(m, instructions) = 1 /\ Decode(m, instructions) = 1
  <2>1. m[133] \in Nat /\ m[133] < 128
    BY <1>1
  <2>2. Size(m, 133) = 1 /\ Decode(m, 133) = m[133]
    BY <2>1, OneByteLength
  <2> QED BY <1>1, <1>4, <2>2
<1>6. program = 134
  BY <1>4, <1>5
<1> HIDE DEF program
<1>7. IsList(accounts, m, 135, 2)
  <2>1. IsLength(m, 135, 2)
    BY <1>1 DEF IsLength
  <2>2. accounts = List(m, 135, 1)
    BY <1>6
  <2> QED BY <2>1, <2>2, BytesAre
<1> HIDE DEF accounts
<1>8. accounts.next = 138
  BY <1>7 DEF IsList
<1>9. IsList(data, m, 138, 12)
  <2>1. IsLength(m, 138, 12)
    BY <1>1 DEF IsLength
  <2>2. data = List(m, 138, 1)
    BY <1>8
  <2> QED BY <2>1, <2>2, BytesAre
<1> HIDE DEF data
<1>10. data.next - 1 = 150
  BY <1>9 DEF IsList
<1>11. PICK k : k = <<s, r, z>>
  OBVIOUS
<1>12. k[1] = s /\ k[2] = r /\ k[3] = z /\ Len(k) = 3 /\ keys.items = k
  BY <1>3, <1>11
<1>13. SubSeq(keys.items, 1, m[1]) = <<s>>
  BY <1>1, <1>3, OfThree
<1>14. SubSeq(keys.items, Len(keys.items) - m[3] + 1, Len(keys.items)) = <<z>>
  <2>1. Len(keys.items) = 3 /\ Len(keys.items) - m[3] + 1 = 3
    BY <1>1, <1>12
  <2> QED BY <1>3, <2>1, OfThree
<1>15. Slice(m, keys.next, 32) = h
  <2>1. Holds(m, 100, 32, h)
    BY <1>1 DEF Holds
  <2>2. Slice(m, 100 + 1, 32) = h
    BY <2>1, SliceIs
  <2> QED BY <1>3, <2>2
<1>16. keys.items[m[program] + 1] = z
  <2>1. m[program] + 1 = 3
    BY <1>1, <1>6
  <2> QED BY <1>12, <2>1
<1>17. [i \in DOMAIN accounts.items |-> keys.items[accounts.items[i][1] + 1]]
         = <<s, r>>
  <2>1. PICK f : f = [i \in DOMAIN accounts.items |->
                        keys.items[accounts.items[i][1] + 1]]
    OBVIOUS
  <2>2. /\ DOMAIN accounts.items = 1 .. 2
        /\ accounts.items[1][1] = m[135 + 1]
        /\ accounts.items[2][1] = m[135 + 2]
    BY <1>7 DEF IsList
  <2>3. accounts.items[1][1] + 1 = 1 /\ accounts.items[2][1] + 1 = 2
    <3>1. m[135 + 1] = 0 /\ m[135 + 2] = 1
      BY <1>1
    <3>2. accounts.items[1][1] = 0 /\ accounts.items[2][1] = 1
      BY <2>2, <3>1, Zenon
    <3> QED BY <3>2
  <2>4. f[1] = s /\ f[2] = r /\ DOMAIN f = 1 .. 2
    BY <1>12, <2>1, <2>2, <2>3
  <2>5. f \in [1 .. 2 -> {s, r}]
    BY <2>1, <2>4
  <2>6. f \in Seq({s, r}) /\ Len(f) = 2
    BY <2>5, FunctionIsSeq
  <2>7. <<s, r>> \in Seq({s, r}) /\ Len(<<s, r>>) = 2
    OBVIOUS
  <2>8. \A i \in 1 .. 2 : f[i] = <<s, r>>[i]
    BY <2>4
  <2> QED BY <2>1, <2>6, <2>7, <2>8, SeqEqual
<1>18. [i \in DOMAIN data.items |-> data.items[i][1]] = d
  <2>1. Holds(m, 138, 12, d)
    BY <1>1 DEF Holds
  <2> QED BY <1>9, <2>1, ItemsAre
<1> QED
  BY <1>0, <1>2, <1>5, <1>10, <1>13, <1>14, <1>15, <1>16, <1>17, <1>18,
     ZenonT(30)

-----------------------------------------------------------------------------
(* The subcommands.                                                        *)

(* A behaviour is one of the loop of push_compact_u16, and one of the      *)
(* counts, at the same time: what holds of them holds of every transfer.   *)
THEOREM LengthsAreWritten == Spec => CodecSpec
<1>1. Init => CodecInit
  BY DEF Init, NoCall
<1>2. [Next]_vars => [CodecNext]_codecVars
  <2> SUFFICES ASSUME [Next]_vars PROVE [CodecNext]_codecVars
    OBVIOUS
  <2>1. CASE PushLength
    BY <2>1 DEF PushLength, CodecNext
  <2>2. CASE UNCHANGED codecVars
    BY <2>2
  <2>3. PushLength \/ UNCHANGED codecVars
    BY DEF Next, DecodeSingle, DecodeBench, DecodeArguments, ConnectSingle,
           ConnectBench, Connect, Single, ToWire, StartBench, GenerateMessage,
           CheckPayloads, Benchmark, Terminated, vars
  <2> QED BY <2>1, <2>2, <2>3
<1> QED BY <1>1, <1>2, PTL DEF Spec, CodecSpec

THEOREM MessagesAreCounted == Spec => CountsSpec
<1>1. Init => CountsInit
  <2>1. 0 \in usize /\ 1 \in usize
    BY CountsAssumption DEF usize
  <2> QED BY <2>1 DEF Init, OneTransfer, CountsInit
<1>2. [Next]_vars => [CountsNext]_countVars
  <2> SUFFICES ASSUME [Next]_vars PROVE [CountsNext]_countVars
    OBVIOUS
  <2>1. StartBench \/ CheckPayloads \/ Benchmark \/ UNCHANGED countVars
    BY DEF Next, DecodeSingle, DecodeBench, DecodeArguments, ConnectSingle,
           ConnectBench, Connect, Single, ToWire, GenerateMessage, PushLength,
           Terminated, vars
  <2> QED BY <2>1 DEF StartBench, CheckPayloads, Benchmark, Loops, CountsNext
<1> QED BY <1>1, <1>2, PTL DEF Spec, CountsSpec

(* A length of 16 bits is written as Solana's reader reads it back.        *)
THEOREM LengthsAreRead == Spec => []CompactU16
BY LengthsAreWritten, RightBytes, PTL

(* Where the measurement begins, there is a message for each iteration.    *)
THEOREM NoWrapInMeasurement == Spec => []NothingWrapped
BY MessagesAreCounted, WrapIsFoundOut, PTL

(* The block hash of a single transfer.                                    *)
SingleHash == IF hash = Default THEN Zeros(32) ELSE hash

(* Message i of a benchmark has its index in its block hash.               *)
Indexed(i) ==
  /\ i - 1 \in usize
  /\ \E nonce \in Nonces :
       messages[i] = message_bytes(from, to, lamports, Blockhash(i - 1, nonce))

Options ==
  /\ to \in Seq(Byte) /\ from \in Seq(Byte) /\ lamports \in Nat
  /\ hash = Default \/ hash \in Seq(Byte)

(* What has been decoded and connected to by now has 32 bytes.             *)
Checked ==
  /\ step \in {"single_connect", "single_message", "sign", "ended",
               "bench_start", "bench_connect", "benchmark"}
       => to \in Bytes(32)
  /\ step \in {"single_connect", "single_message", "sign", "ended"}
       => SingleHash \in Bytes(32)
  /\ step \in {"single_message", "sign", "ended", "benchmark"}
       => from \in Bytes(32)
  /\ messages # << >> => to \in Bytes(32) /\ from \in Bytes(32)

Written ==
  /\ messages \in Seq(Seq(Byte))
  /\ step \notin {"sign", "ended", "benchmark", "failed"}
       => messages = << >>
  /\ IF step \in {"sign", "ended"}
     THEN messages = <<message_bytes(from, to, lamports, SingleHash)>>
     ELSE \A i \in 1 .. Len(messages) : Indexed(i)
  /\ IF step = "ended"
     THEN signature \in Signatures /\ wire = to_wire(signature, messages[1])
     ELSE wire = << >>

IInv == Options /\ Checked /\ Written

(* A message has 150 bytes.                                                *)
LEMMA MessageBytes ==
  ASSUME NEW s \in Bytes(32), NEW r \in Bytes(32), NEW amount \in Nat,
         NEW h \in Bytes(32)
  PROVE  message_bytes(s, r, amount, h) \in Bytes(150)
<1>1. Layout(message_bytes(s, r, amount, h), s, r, Data(amount), h)
  BY MessageLayout
<1> QED BY <1>1 DEF Layout, Bytes

(* The block hash that stands for none.                                    *)
LEMMA ZeroHash == Zeros(32) \in Bytes(32)
BY ZerosAre DEF Bytes

(* Before anything is decoded, IInv holds.                                 *)
LEMMA InitOk == Init => IInv
<1> SUFFICES ASSUME Init PROVE IInv
  OBVIOUS
<1>1. /\ step \in {"codec", "single", "bench"} /\ from = << >>
      /\ messages = << >> /\ wire = << >>
  BY DEF Init
<1>2. to \in Seq(Byte) /\ lamports \in Nat
  <2>1. CASE step = "codec"
    <3>1. to = Zeros(32) /\ lamports = 0
      BY <2>1 DEF Init
    <3> QED BY <3>1, ZeroHash DEF Bytes
  <2>2. CASE step # "codec"
    <3>1. to \in Arguments /\ lamports \in Amounts
      BY <2>2 DEF Init
    <3> QED BY <3>1, TransferAssumption
  <2> QED BY <2>1, <2>2
<1>3. hash = Default \/ hash \in Seq(Byte)
  <2>1. hash \in Arguments \cup {Default}
    BY DEF Init
  <2> QED BY <2>1, TransferAssumption
<1>4. Options
  BY <1>1, <1>2, <1>3 DEF Options
<1>5. Checked
  BY <1>1 DEF Checked
<1>6. Written
  BY <1>1 DEF Written
<1> QED BY <1>4, <1>5, <1>6 DEF IInv

(* Steps that write nothing.                                               *)
LEMMA NothingWritten ==
  ASSUME Written, UNCHANGED <<args, from, output>>,
         step' = step \/ (messages = << >> /\ wire = << >>
                          /\ step' \notin {"sign", "ended"})
  PROVE  Written'
<1>1. /\ to' = to /\ hash' = hash /\ lamports' = lamports /\ from' = from
      /\ messages' = messages /\ signature' = signature /\ wire' = wire
  BY DEF args, output
<1>2. CASE step' = step
  BY <1>1, <1>2 DEF Written, Indexed, SingleHash
<1>3. CASE messages = << >> /\ wire = << >> /\ step' \notin {"sign", "ended"}
  BY <1>1, <1>3 DEF Written
<1> QED BY <1>2, <1>3

(* Arguments that are not addresses end the command.                       *)
LEMMA Decoding ==
  ASSUME IInv, DecodeSingle \/ DecodeBench
  PROVE  IInv'
<1>1. /\ UNCHANGED <<args, from, output>> /\ step \in {"single", "bench"}
      /\ messages = << >> /\ wire = << >>
      /\ step' \in {"failed", "single_connect", "bench_start"}
  BY DEF IInv, Written, DecodeSingle, DecodeBench, DecodeArguments, output
<1>2. /\ to' = to /\ hash' = hash /\ lamports' = lamports /\ from' = from
      /\ messages' = messages
  BY <1>1 DEF args, output
<1>3. Written'
  BY <1>1, NothingWritten DEF IInv
<1>4. step' # "failed" => to \in Bytes(32)
  BY DEF IInv, Options, DecodeSingle, DecodeBench, DecodeArguments, IsAddress,
         Bytes
<1>5. step' = "single_connect" => SingleHash \in Bytes(32)
  <2> SUFFICES ASSUME step' = "single_connect" PROVE SingleHash \in Bytes(32)
    OBVIOUS
  <2>1. CASE hash = Default
    BY <2>1, ZeroHash DEF SingleHash
  <2>2. CASE hash # Default
    <3>1. IsAddress(hash)
      BY <2>2 DEF DecodeSingle, DecodeBench, DecodeArguments
    <3> QED BY <2>2, <3>1 DEF IsAddress, SingleHash, Bytes, IInv, Options
  <2> QED BY <2>1, <2>2
<1>6. SingleHash' = SingleHash
  BY <1>2 DEF SingleHash
<1>7. Checked'
  BY <1>1, <1>2, <1>4, <1>5, <1>6 DEF Checked
<1>8. Options'
  BY <1>2 DEF IInv, Options
<1> QED BY <1>3, <1>7, <1>8 DEF IInv

(* The account of a connected signer has 32 bytes.                         *)
LEMMA Connecting ==
  ASSUME IInv, ConnectSingle \/ ConnectBench
  PROVE  IInv'
<1>1. PICK k \in PublicKeys : from' = account_bytes(k)
  BY DEF ConnectSingle, ConnectBench, Connect
<1>2. /\ to' = to /\ hash' = hash /\ lamports' = lamports
      /\ messages' = messages /\ wire' = wire
      /\ step \in {"single_connect", "bench_connect"}
      /\ step' \in {"single_message", "benchmark"}
      /\ step' = "single_message" => step = "single_connect"
  BY DEF ConnectSingle, ConnectBench, Connect, args, output
<1>3. messages = << >> /\ wire = << >>
  BY <1>2 DEF IInv, Written
<1>4. from' \in Bytes(32)
  <2>1. k \in Seq(Byte)
    BY TransferAssumption
  <2> QED BY <1>1, <2>1, AccountBytes DEF Bytes
<1>5. SingleHash' = SingleHash
  BY <1>2 DEF SingleHash
<1>6. Checked'
  BY <1>2, <1>3, <1>4, <1>5 DEF IInv, Checked
<1>7. Options'
  BY <1>2, <1>4 DEF IInv, Options, Bytes
<1>8. Written'
  BY <1>2, <1>3 DEF Written
<1> QED BY <1>6, <1>7, <1>8 DEF IInv

(* The message of a single transfer.                                       *)
LEMMA Serializing ==
  ASSUME IInv, Single
  PROVE  IInv'
<1>1. /\ to' = to /\ hash' = hash /\ lamports' = lamports /\ from' = from
      /\ signature' = signature /\ wire' = wire
      /\ step = "single_message" /\ step' = "sign"
      /\ messages' = <<message_bytes(from, to, lamports, SingleHash)>>
  BY DEF Single, args, SingleHash
<1>2. /\ from \in Bytes(32) /\ to \in Bytes(32) /\ SingleHash \in Bytes(32)
      /\ lamports \in Nat /\ wire = << >>
  BY <1>1 DEF IInv, Checked, Options, Written
<1>3. message_bytes(from, to, lamports, SingleHash) \in Seq(Byte)
  BY <1>2, MessageBytes DEF Bytes
<1>4. SingleHash' = SingleHash
  BY <1>1 DEF SingleHash
<1>5. Written'
  BY <1>1, <1>2, <1>3, <1>4 DEF Written
<1>6. Checked'
  BY <1>1, <1>2, <1>4 DEF Checked
<1>7. Options'
  BY <1>1 DEF IInv, Options
<1> QED BY <1>5, <1>6, <1>7 DEF IInv

(* Its wire form.                                                          *)
LEMMA Signing ==
  ASSUME IInv, ToWire
  PROVE  IInv'
<1>1. /\ to' = to /\ hash' = hash /\ lamports' = lamports /\ from' = from
      /\ messages' = messages /\ step = "sign" /\ step' = "ended"
      /\ signature' \in Signatures
      /\ wire' = to_wire(signature', messages[1])
  BY DEF ToWire, args
<1>2. /\ from \in Bytes(32) /\ to \in Bytes(32) /\ SingleHash \in Bytes(32)
      /\ messages \in Seq(Seq(Byte))
      /\ messages = <<message_bytes(from, to, lamports, SingleHash)>>
  BY <1>1 DEF IInv, Checked, Written
<1>3. SingleHash' = SingleHash
  BY <1>1 DEF SingleHash
<1>4. Written'
  BY <1>1, <1>2, <1>3 DEF Written
<1>5. Checked'
  BY <1>1, <1>2, <1>3 DEF Checked
<1>6. Options'
  BY <1>1 DEF IInv, Options
<1> QED BY <1>4, <1>5, <1>6 DEF IInv

(* The check of the number of iterations.                                  *)
LEMMA Starting ==
  ASSUME IInv, StartBench
  PROVE  IInv'
<1>1. /\ UNCHANGED <<args, from, output>> /\ step = "bench_start"
      /\ step' \in {"failed", "bench_connect"}
      /\ messages = << >> /\ wire = << >>
  BY DEF StartBench, IInv, Written, output
<1>2. /\ to' = to /\ hash' = hash /\ lamports' = lamports /\ from' = from
      /\ messages' = messages
  BY <1>1 DEF args, output
<1>3. Written'
  BY <1>1, NothingWritten DEF IInv
<1>4. Checked'
  BY <1>1, <1>2 DEF IInv, Checked
<1>5. Options'
  BY <1>2 DEF IInv, Options
<1> QED BY <1>3, <1>4, <1>5 DEF IInv

(* A message more, of the next index.                                      *)
LEMMA Generating ==
  ASSUME IInv, CountsTypeOK, GenerateMessage
  PROVE  IInv'
<1>1. /\ to' = to /\ hash' = hash /\ lamports' = lamports /\ from' = from
      /\ signature' = signature /\ wire' = wire
      /\ step = "benchmark" /\ step' = step /\ Len(messages) < total
  BY DEF GenerateMessage, args
<1>2. PICK n \in Nat : n = Len(messages)
  BY DEF IInv, Written
<1>3. PICK nonce \in Nonces :
        messages' = Append(messages, message_bytes(from, to, lamports,
                                                   Blockhash(n, nonce)))
  BY <1>2 DEF GenerateMessage
<1>4. PICK m : m = message_bytes(from, to, lamports, Blockhash(n, nonce))
  OBVIOUS
<1>5. /\ from \in Bytes(32) /\ to \in Bytes(32) /\ lamports \in Nat
      /\ messages \in Seq(Seq(Byte)) /\ wire = << >>
      /\ \A i \in 1 .. Len(messages) : Indexed(i)
  BY <1>1 DEF IInv, Checked, Options, Written
<1>6. m \in Seq(Byte)
  <2>1. nonce \in Seq(Byte) /\ Len(nonce) = 8
    BY TransferAssumption
  <2>2. Blockhash(n, nonce) \in Bytes(32)
    BY <2>1, BlockhashBytes DEF Bytes
  <2> QED BY <1>4, <1>5, <2>2, MessageBytes DEF Bytes
<1>7. messages' = Append(messages, m)
  BY <1>3, <1>4
<1>8. /\ messages' \in Seq(Seq(Byte)) /\ Len(messages') = n + 1
      /\ messages'[n + 1] = m
      /\ \A i \in 1 .. n : messages'[i] = messages[i]
  BY <1>2, <1>5, <1>6, <1>7
<1>9. n \in usize
  <2>1. total \in usize /\ n < total
    BY <1>1, <1>2 DEF CountsTypeOK
  <2> QED BY <2>1, CountsAssumption DEF usize
<1>10. ASSUME NEW i \in 1 .. n + 1
       PROVE  Indexed(i)'
  <2>1. CASE i \in 1 .. n
    <3>1. messages'[i] = messages[i] /\ Indexed(i)
      BY <1>2, <1>5, <1>8, <2>1
    <3> QED BY <1>1, <3>1 DEF Indexed
  <2>2. CASE i = n + 1
    <3>1. i - 1 = n
      BY <2>2
    <3>2. messages'[i] = message_bytes(from, to, lamports,
                                       Blockhash(i - 1, nonce))
      BY <1>4, <1>8, <2>2, <3>1
    <3> QED BY <1>1, <1>9, <3>1, <3>2 DEF Indexed
  <2> QED BY <2>1, <2>2
<1>11. Written'
  <2>1. \A i \in 1 .. Len(messages') : Indexed(i)'
    BY <1>8, <1>10
  <2>2. step' = "benchmark" /\ wire' = << >>
    BY <1>1, <1>5
  <2> QED BY <1>8, <2>1, <2>2 DEF Written
<1>12. Checked'
  BY <1>1, <1>5 DEF Checked
<1>13. Options'
  BY <1>1 DEF IInv, Options
<1> QED BY <1>11, <1>12, <1>13 DEF IInv

(* The rest of the benchmark generates no message.                         *)
LEMMA Running ==
  ASSUME IInv, CheckPayloads \/ Benchmark \/ PushLength
               \/ UNCHANGED <<step, args, from, output>>
  PROVE  IInv'
<1>1. /\ UNCHANGED <<args, from, output>>
      /\ step' = step \/ (step = "benchmark" /\ step' = "failed")
  BY DEF CheckPayloads, Benchmark, PushLength
<1>2. /\ to' = to /\ hash' = hash /\ lamports' = lamports /\ from' = from
      /\ messages' = messages /\ signature' = signature /\ wire' = wire
  BY <1>1 DEF args, output
<1>3. SingleHash' = SingleHash
  BY <1>2 DEF SingleHash
<1>4. \A i : Indexed(i)' <=> Indexed(i)
  BY <1>2 DEF Indexed
<1>5. Written'
  <2>1. CASE step' = step
    BY <1>1, <2>1, NothingWritten DEF IInv
  <2>2. CASE step = "benchmark" /\ step' = "failed"
    BY <1>2, <1>4, <2>2 DEF IInv, Written
  <2> QED BY <1>1, <2>1, <2>2
<1>6. Checked'
  BY <1>1, <1>2, <1>3 DEF IInv, Checked
<1>7. Options'
  BY <1>2 DEF IInv, Options
<1> QED BY <1>5, <1>6, <1>7 DEF IInv

(* Every message is that of its options, and of its index.                 *)
THEOREM Invariance == Spec => []IInv
<1>1. IInv /\ CountsTypeOK /\ [Next]_vars => IInv'
  <2> SUFFICES ASSUME IInv, CountsTypeOK, [Next]_vars PROVE IInv'
    OBVIOUS
  <2>1. CASE UNCHANGED <<step, args, from, output>>
    BY <2>1, Running
  <2>2. UNCHANGED vars => UNCHANGED <<step, args, from, output>>
    BY DEF vars
  <2> QED BY <2>1, <2>2, Decoding, Connecting, Serializing, Signing, Starting,
             Generating, Running DEF Next, Terminated
<1>2. Spec => []CountsTypeOK
  BY MessagesAreCounted, CountsTypeCorrect, PTL
<1> QED BY InitOk, <1>1, <1>2, PTL DEF Spec

(* Every message of a behaviour is laid out as the reader expects it.      *)
LEMMA EveryLayout ==
  ASSUME IInv, NEW i \in 1 .. Len(messages)
  PROVE  /\ from \in Bytes(32) /\ to \in Bytes(32) /\ lamports \in Nat
         /\ \E h \in Bytes(32) :
              /\ Layout(messages[i], from, to, Data(lamports), h)
              /\ step \in {"sign", "ended"} => i = 1 /\ h = SingleHash
              /\ step \notin {"sign", "ended"} =>
                   \E nonce \in Nonces : h = Blockhash(i - 1, nonce)
<1>1. messages # << >> /\ messages \in Seq(Seq(Byte))
  BY DEF IInv, Written
<1>2. from \in Bytes(32) /\ to \in Bytes(32) /\ lamports \in Nat
  BY <1>1 DEF IInv, Checked, Options
<1>3. CASE step \in {"sign", "ended"}
  <2>1. /\ i = 1 /\ SingleHash \in Bytes(32)
        /\ messages[i] = message_bytes(from, to, lamports, SingleHash)
    <3>1. PICK m : m = message_bytes(from, to, lamports, SingleHash)
      OBVIOUS
    <3>2. messages = <<m>> /\ SingleHash \in Bytes(32)
      BY <1>3, <3>1 DEF IInv, Written, Checked
    <3>3. i = 1 /\ messages[1] = m
      BY <3>2
    <3> QED BY <3>1, <3>2, <3>3
  <2>2. Layout(messages[i], from, to, Data(lamports), SingleHash)
    BY <1>2, <2>1, MessageLayout
  <2> QED BY <1>2, <1>3, <2>1, <2>2
<1>4. CASE step \notin {"sign", "ended"}
  <2>1. Indexed(i)
    BY <1>4 DEF IInv, Written
  <2>2. PICK nonce \in Nonces :
          messages[i] = message_bytes(from, to, lamports,
                                      Blockhash(i - 1, nonce))
    BY <2>1 DEF Indexed
  <2>3. PICK n \in Nat : n = i - 1
    OBVIOUS
  <2>4. PICK h : h = Blockhash(n, nonce)
    OBVIOUS
  <2>5. h \in Bytes(32)
    <3>1. nonce \in Seq(Byte) /\ Len(nonce) = 8
      BY TransferAssumption
    <3> QED BY <2>4, <3>1, BlockhashBytes DEF Bytes
  <2>6. messages[i] = message_bytes(from, to, lamports, h)
    BY <2>2, <2>3, <2>4
  <2>7. Layout(messages[i], from, to, Data(lamports), h)
    BY <1>2, <2>5, <2>6, MessageLayout
  <2>8. h = Blockhash(i - 1, nonce)
    BY <2>3, <2>4
  <2> QED BY <1>2, <1>4, <2>5, <2>7, <2>8
<1> QED BY <1>3, <1>4

(* The index of a generated message, where its block hash starts.          *)
LEMMA IndexIsWritten ==
  ASSUME IInv, step \notin {"sign", "ended"}, NEW i \in 1 .. Len(messages)
  PROVE  /\ i - 1 \in usize
         /\ \A j \in 1 .. 8 : messages[i][100 + j] = le64(i - 1)[j]
<1>1. PICK n \in Nat : n = i - 1
  OBVIOUS
<1>2. n \in usize
  BY <1>1 DEF IInv, Written, Indexed
<1>3. PICK h \in Bytes(32), nonce \in Nonces :
        /\ Layout(messages[i], from, to, Data(lamports), h)
        /\ h = Blockhash(i - 1, nonce)
  BY EveryLayout
<1>4. nonce \in Seq(Byte) /\ Len(nonce) = 8
  BY TransferAssumption
<1>5. h = Blockhash(n, nonce)
  BY <1>1, <1>3
<1>6. \A j \in 1 .. 8 : h[j] = le64(n)[j]
  BY <1>4, <1>5, BlockhashBytes
<1>7. \A j \in 1 .. 8 : messages[i][100 + j] = h[j]
  <2>1. PICK m : m = messages[i]
    OBVIOUS
  <2>2. Layout(m, from, to, Data(lamports), h)
    BY <1>3, <2>1
  <2>3. \A j \in 1 .. 32 : m[100 + j] = h[j]
    BY <2>2 DEF Layout
  <2>4. ASSUME NEW j \in 1 .. 8
        PROVE  m[100 + j] = h[j]
    <3>1. j \in 1 .. 32
      OBVIOUS
    <3> QED BY <2>3, <3>1, Zenon
  <2> QED BY <2>1, <2>4, Zenon
<1> QED BY <1>1, <1>2, <1>6, <1>7

(* No two payloads of a benchmark are the same, and all have one length.   *)
THEOREM EveryPayloadDiffers == Spec => []PayloadsDiffer
<1>1. IInv => PayloadsDiffer
  <2> SUFFICES ASSUME IInv PROVE PayloadsDiffer
    OBVIOUS
  <2>1. \A i \in 1 .. Len(messages) : Len(messages[i]) = 150
    <3> SUFFICES ASSUME NEW i \in 1 .. Len(messages)
                 PROVE  Len(messages[i]) = 150
      OBVIOUS
    <3>1. PICK h \in Bytes(32) :
            Layout(messages[i], from, to, Data(lamports), h)
      BY EveryLayout
    <3> QED BY <3>1 DEF Layout
  <2>2. SameLength
    <3>1. messages \in Seq(Seq(Byte))
      BY DEF IInv, Written
    <3> SUFFICES ASSUME NEW i \in 1 .. Len(messages)
                 PROVE  Len(messages[i]) = Len(messages[1])
      BY DEF SameLength
    <3>2. 1 \in 1 .. Len(messages)
      BY <3>1
    <3> QED BY <2>1, <3>2
  <2>3. ASSUME NEW i \in 1 .. Len(messages), NEW j \in 1 .. Len(messages),
               messages[i] = messages[j]
        PROVE  i = j
    <3>1. CASE step \in {"sign", "ended"}
      BY <3>1, EveryLayout
    <3>2. CASE step \notin {"sign", "ended"}
      <4>1. PICK m \in usize : m = i - 1
        BY <3>2, IndexIsWritten
      <4>2. PICK n \in usize : n = j - 1
        BY <3>2, IndexIsWritten
      <4>3. /\ \A k \in 1 .. 8 : messages[i][100 + k] = le64(m)[k]
            /\ \A k \in 1 .. 8 : messages[j][100 + k] = le64(n)[k]
        BY <3>2, <4>1, <4>2, IndexIsWritten
      <4>4. \A k \in 1 .. 8 : le64(m)[k] = le64(n)[k]
        BY <2>3, <4>3
      <4>5. m = n
        BY <4>4, Same64
      <4> QED BY <4>1, <4>2, <4>5
    <3> QED BY <3>1, <3>2
  <2> QED BY <2>2, <2>3 DEF PayloadsDiffer
<1> QED BY <1>1, Invariance, PTL

(* Every message that is signed is one transfer, and nothing else.         *)
THEOREM SignedIsTransfer == Spec => []MessagesAreTransfers
<1>1. IInv => MessagesAreTransfers
  <2> SUFFICES ASSUME IInv, messages # << >>
               PROVE  LET message == messages[Len(messages)]
                          read    == Read(message)
                      IN  /\ read = Asked(read.blockhash, Len(message))
                          /\ step = "sign" /\ hash # Default
                               => read.blockhash = hash
    BY DEF MessagesAreTransfers
  <2>1. PICK n : n = Len(messages) /\ n \in 1 .. Len(messages)
    <3>1. messages \in Seq(Seq(Byte))
      BY DEF IInv, Written
    <3> QED BY <3>1
  <2>2. PICK m : m = messages[n]
    OBVIOUS
  <2>3. /\ from \in Bytes(32) /\ to \in Bytes(32) /\ lamports \in Nat
    BY <2>1, EveryLayout
  <2>4. PICK h \in Bytes(32) :
          /\ Layout(m, from, to, Data(lamports), h)
          /\ step \in {"sign", "ended"} => h = SingleHash
    BY <2>1, <2>2, EveryLayout
  <2>5. PICK d \in Bytes(12) : d = Data(lamports)
    BY <2>3, DataBytes DEF Bytes
  <2>6. Read(m) =
          [signers |-> <<from>>, readonly |-> <<SYSTEM_PROGRAM_ID>>,
           blockhash |-> h, instructions |-> 1,
           program |-> SYSTEM_PROGRAM_ID, accounts |-> <<from, to>>,
           data |-> d, length |-> 150]
    BY <2>3, <2>4, <2>5, ReadIs
  <2>7. Read(m).blockhash = h
    BY <2>6
  <2>8. Len(m) = 150
    BY <2>4 DEF Layout
  <2>9. Read(m) = Asked(h, 150)
    BY <2>5, <2>6 DEF Asked
  <2>10. step = "sign" /\ hash # Default => h = hash
    BY <2>4 DEF SingleHash
  <2> QED BY <2>1, <2>2, <2>7, <2>8, <2>9, <2>10
<1> QED BY <1>1, Invariance, PTL

(* The wire form is the signature and then the message that was signed.    *)
THEOREM WireCarriesMessage == Spec => []WireIsSignedMessage
<1>1. IInv => WireIsSignedMessage
  <2> SUFFICES ASSUME IInv, wire # << >>, Len(signature) = 64
               PROVE  LET signatures == List(wire, 1, 64)
                      IN  /\ signatures.items = <<signature>>
                          /\ SubSeq(wire, signatures.next, Len(wire))
                               = messages[1]
    BY DEF WireIsSignedMessage
  <2>1. /\ step = "ended" /\ signature \in Signatures
        /\ wire = to_wire(signature, messages[1])
        /\ messages \in Seq(Seq(Byte)) /\ Len(messages) = 1
    BY DEF IInv, Written
  <2>2. signature \in Bytes(64)
    BY <2>1, TransferAssumption DEF Bytes
  <2>3. PICK m : m = messages[1]
    OBVIOUS
  <2>4. m \in Seq(Byte)
    <3>1. 1 \in 1 .. Len(messages)
      BY <2>1
    <3> QED BY <2>1, <2>3, <3>1, ElementOfSeq
  <2>5. PICK n \in Nat : n = Len(m) /\ m \in Bytes(n)
    BY <2>4 DEF Bytes
  <2>6. PICK c : c = <<1>> /\ c \in Bytes(1) /\ c[1] = 1
    BY Literals
  <2>7. PICK u : u = c \o signature
    OBVIOUS
  <2>8. PICK w : w = u \o m
    OBVIOUS
  <2>9. wire = w
    BY <2>1, <2>3, <2>6, <2>7, <2>8, Literals DEF to_wire
  <2>10. After(u, c, signature, 1, 64)
    BY <2>2, <2>6, <2>7, Extended
  <2>11. /\ u \in Bytes(65) /\ u[1] = 1
         /\ \A j \in 1 .. 64 : u[1 + j] = signature[j]
    BY <2>6, <2>10 DEF After
  <2>12. After(w, u, m, 65, n)
    BY <2>5, <2>8, <2>11, Extended
  <2>13. /\ w \in Bytes(65 + n) /\ \A j \in 1 .. 65 : w[j] = u[j]
         /\ \A j \in 1 .. n : w[65 + j] = m[j]
    BY <2>12 DEF After
  <2>14. w \in Seq(Byte) /\ Len(w) = 65 + n /\ w[1] = 1
    BY <2>11, <2>13 DEF Bytes
  <2>15. Size(w, 1) = 1 /\ Decode(w, 1) = 1
    <3>1. w[1] \in Nat /\ w[1] < 128
      BY <2>14
    <3>2. Size(w, 1) = 1 /\ Decode(w, 1) = w[1]
      BY <3>1, OneByteLength
    <3> QED BY <2>14, <3>2
  <2>16. Slice(w, 1 + 1, 64) = signature
    <3>1. ASSUME NEW j \in 1 .. 64
          PROVE  w[1 + j] = signature[j]
      <4>1. 1 + j \in 1 .. 65
        OBVIOUS
      <4> QED BY <2>11, <2>13, <4>1
    <3>2. Holds(w, 1, 64, signature)
      BY <2>2, <2>14, <3>1 DEF Holds
    <3> QED BY <3>2, SliceIs
  <2>17. Slice(w, 65 + 1, n) = m
    <3>1. Holds(w, 65, n, m)
      BY <2>5, <2>13, <2>14 DEF Holds
    <3> QED BY <3>1, SliceIs
  <2>18. PICK f : f = [i \in 1 .. Decode(w, 1) |->
                         Slice(w, (1 + Size(w, 1)) + (i - 1) * 64, 64)]
    OBVIOUS
  <2>19. List(w, 1, 64) =
           [items |-> f, next |-> (1 + Size(w, 1)) + Decode(w, 1) * 64]
    BY <2>18 DEF List
  <2>20. (1 + Size(w, 1)) + Decode(w, 1) * 64 = 66
    BY <2>15
  <2>21. f[1] = signature /\ DOMAIN f = 1 .. 1
    BY <2>15, <2>16, <2>18
  <2>22. f = <<signature>>
    <3>1. \A i \in 1 .. 1 : f[i] \in {signature}
      BY <2>21
    <3>2. f = [i \in 1 .. 1 |-> f[i]]
      BY <2>15, <2>18
    <3>3. f \in Seq({signature}) /\ Len(f) = 1
      BY <3>1, <3>2
    <3>5. <<signature>> \in Seq({signature}) /\ Len(<<signature>>) = 1
      OBVIOUS
    <3>4. \A i \in 1 .. 1 : f[i] = <<signature>>[i]
      BY <2>21
    <3> QED BY <3>3, <3>4, <3>5, SeqEqual
  <2>23. List(w, 1, 64).items = <<signature>> /\ List(w, 1, 64).next = 66
    BY <2>19, <2>20, <2>22
  <2>24. SubSeq(w, 66, Len(w)) = m
    <3>1. 65 + 1 + n - 1 = 65 + n /\ 65 + 1 = 66
      OBVIOUS
    <3> QED BY <2>14, <2>17, <3>1 DEF Slice
  <2> QED BY <2>3, <2>9, <2>23, <2>24
<1> QED BY <1>1, Invariance, PTL
=============================================================================
