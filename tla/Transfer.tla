------------------------------ MODULE Transfer ------------------------------
(***************************************************************************)
(* The bytes that sign-tx signs: Transfer of src/src/solana.rs, and how    *)
(* run.rs fills it in. Addresses, hashes and signatures are sequences of   *)
(* bytes; the lengths that are written as a ShortVec are those of its      *)
(* Encode. Single writes one message and its wire form, the benchmark a    *)
(* message for every index below the total of Counts. A behaviour is one   *)
(* of a subcommand, or of a call of push_compact_u16 with any length. The  *)
(* reader of the wire format is Solana's, of which src/ holds the writing  *)
(* half only.                                                              *)
(***************************************************************************)
EXTENDS Counts, ShortVec

CONSTANTS
  Arguments,   \* what --to and --blockhash may decode to
  PublicKeys,  \* what Signer::public_key_bytes may return
  Amounts,     \* --lamports
  Signatures,  \* what the token may sign with
  Nonces,      \* eight bytes of a version 4 UUID
  Default      \* --blockhash is not given

ASSUME TransferAssumption ==
  /\ Arguments \cup PublicKeys \cup Signatures \cup Nonces \subseteq Seq(Byte)
  /\ Amounts \subseteq Nat
  /\ \A n \in Nonces : Len(n) = 8

VARIABLES
  step,      \* the next one, "benchmark" for those of Counts
  to,        \* --to
  hash,      \* --blockhash, for a single transfer
  from,      \* account_bytes of the public key
  lamports,
  messages,  \* those generated
  signature, \* of the single transfer
  wire       \* its wire form

args   == <<to, hash, lamports>>
output == <<messages, signature, wire>>
vars   == <<step, args, from, output, countVars, codecVars>>

Zeros(n) == [i \in 1 .. n |-> 0]

OneTransfer == pc = "start" /\ iterations = 1 /\ warmup = 0 /\ timed = FALSE
                 /\ total = 0 /\ warmup_index = 0
NoCall == CodecInit /\ input = 0

Init ==
  /\ \/ step = "codec" /\ OneTransfer /\ CodecInit
     \/ step = "single" /\ OneTransfer /\ NoCall
     \/ step = "bench" /\ CountsInit /\ NoCall
  /\ IF step = "codec" THEN to = Zeros(32) /\ lamports = 0
                       ELSE to \in Arguments /\ lamports \in Amounts
  /\ hash \in IF step = "single" THEN Arguments \cup {Default} ELSE {Default}
  /\ from = << >> /\ messages = << >> /\ signature = << >> /\ wire = << >>

(* One call of push_compact_u16.                                           *)
PushLength ==
  /\ step = "codec"
  /\ PushMore \/ PushLast
  /\ UNCHANGED <<step, args, from, output, countVars>>

-----------------------------------------------------------------------------
(* to_le_bytes of two, four and eight bytes, low ones first.               *)
le16(n) == <<n % 256, (n \div 256) % 256>>
le32(n) == le16(n) \o le16(n \div 65536)
high(n) == (n \div 65536) \div 65536
le64(n) == le32(n) \o le32(high(n))

(* The index of a message is cast to a u64: a usize has no more bits.      *)
ASSUME WordAssumption == \A i \in usize : high(high(i)) = 0

SYSTEM_PROGRAM_ID    == Zeros(32)
INSTRUCTION_TRANSFER == 2

Data(amount) ==
  le32(INSTRUCTION_TRANSFER) \o le64(amount)

(* Mutant: the accounts in the order of the instruction, the program first.*)
ProgramFirst(sender, receiver) ==
  Encode(3) \o SYSTEM_PROGRAM_ID \o sender \o receiver

Accounts(sender, receiver) ==
  Encode(3) \o sender \o receiver \o SYSTEM_PROGRAM_ID

message_bytes(sender, receiver, amount, blockhash) ==
  <<1, 0, 1>> \o Accounts(sender, receiver) \o blockhash
    \o Encode(1) \o <<2>> \o Encode(2) \o <<0, 1>>
    \o Encode(12) \o Data(amount)

(* Mutant: without the number of signatures.                               *)
SignatureThenMessage(sig, message) == sig \o message

to_wire(sig, message) == Encode(1) \o sig \o message

account_bytes(public_key) ==
  [i \in 1 .. 32 |-> IF i <= Len(public_key) THEN public_key[i] ELSE 0]

(* Mutant: the nonce alone.                                                *)
NonceHash(i, nonce) == nonce \o Zeros(24)

Blockhash(i, nonce) == le64(i) \o nonce \o Zeros(16)

-----------------------------------------------------------------------------
(* The subcommands.                                                        *)

IsAddress(bytes) == Len(bytes) = 32

(* decode_pubkey of the arguments, before the module is loaded.            *)
DecodeArguments(at, given, next) ==
  /\ step = at
  /\ step' = IF \A bytes \in given : IsAddress(bytes) THEN next ELSE "failed"
  /\ UNCHANGED <<args, from, output, countVars, codecVars>>

DecodeSingle ==
  DecodeArguments("single", {to} \cup ({hash} \ {Default}), "single_connect")
DecodeBench  == DecodeArguments("bench", {to}, "bench_start")

Connect(at, next) ==
  /\ step = at /\ step' = next
  /\ \E k \in PublicKeys : from' = account_bytes(k)
  /\ UNCHANGED <<args, output, countVars, codecVars>>

ConnectSingle == Connect("single_connect", "single_message")
ConnectBench  == Connect("bench_connect", "benchmark")

Single ==
  /\ step = "single_message" /\ step' = "sign"
  /\ LET blockhash == IF hash = Default THEN Zeros(32) ELSE hash
     IN  messages' = <<message_bytes(from, to, lamports, blockhash)>>
  /\ UNCHANGED <<args, from, signature, wire, countVars, codecVars>>

ToWire ==
  /\ step = "sign" /\ step' = "ended"
  /\ \E s \in Signatures :
       signature' = s /\ wire' = to_wire(s, messages[1])
  /\ UNCHANGED <<args, from, messages, countVars, codecVars>>

StartBench ==
  /\ step = "bench_start" /\ CheckIterations
  /\ step' = IF pc' = "error" THEN "failed" ELSE "bench_connect"
  /\ UNCHANGED <<args, from, output, codecVars>>

(* The index of a message is the number of those before it.                *)
GenerateMessage ==
  /\ step = "benchmark" /\ pc = "payload" /\ Len(messages) < total
  /\ \E nonce \in Nonces :
       LET blockhash == Blockhash(Len(messages), nonce)
       IN  messages' =
             Append(messages, message_bytes(from, to, lamports, blockhash))
  /\ UNCHANGED <<step, args, from, signature, wire, countVars, codecVars>>

SameLength ==
  \A i \in 1 .. Len(messages) : Len(messages[i]) = Len(messages[1])

CheckPayloads ==
  /\ step = "benchmark" /\ Len(messages) = total /\ PayloadLength
  /\ step' = IF SameLength THEN step ELSE "failed"
  /\ UNCHANGED <<args, from, output, codecVars>>

Loops ==
  \/ WarmupBuffer \/ WarmupSign \/ WarmupInterrupted \/ WarmupDone \/ Buffers

Benchmark ==
  /\ step = "benchmark"
  /\ Generate \/ Loops
  /\ UNCHANGED <<step, args, from, output, codecVars>>

Ended ==
  \/ step \in {"ended", "failed"}
  \/ step = "codec" /\ done
  \/ step = "benchmark" /\ pc \in Ends

Terminated == Ended /\ UNCHANGED vars

Next ==
  \/ PushLength
  \/ DecodeSingle \/ ConnectSingle \/ Single \/ ToWire
  \/ DecodeBench \/ StartBench \/ ConnectBench
  \/ GenerateMessage \/ CheckPayloads \/ Benchmark \/ Terminated

Spec == Init /\ [][Next]_vars

-----------------------------------------------------------------------------
(* The reader: a list is its length and then its items, of equal size.     *)

Slice(s, p, n) == SubSeq(s, p, p + n - 1)

List(s, p, size) ==
  LET first == p + Size(s, p)
      n     == Decode(s, p)
  IN  [items |-> [i \in 1 .. n |-> Slice(s, first + (i - 1) * size, size)],
       next  |-> first + n * size]

(* A message with one instruction, as what it asks for.                    *)
Read(m) ==
  LET keys         == List(m, 4, 32)
      instructions == keys.next + 32
      program      == instructions + Size(m, instructions)
      accounts     == List(m, program + 1, 1)
      data         == List(m, accounts.next, 1)
      key(index)   == keys.items[index + 1]
  IN  [signers      |-> SubSeq(keys.items, 1, m[1]),
       readonly     |-> SubSeq(keys.items, Len(keys.items) - m[3] + 1,
                               Len(keys.items)),
       blockhash    |-> Slice(m, keys.next, 32),
       instructions |-> Decode(m, instructions),
       program      |-> key(m[program]),
       accounts     |-> [i \in DOMAIN accounts.items |->
                           key(accounts.items[i][1])],
       data         |-> [i \in DOMAIN data.items |-> data.items[i][1]],
       length       |-> data.next - 1]

(* What a transfer asks for.                                               *)
Asked(blockhash, length) ==
  [signers |-> <<from>>, readonly |-> <<SYSTEM_PROGRAM_ID>>,
   blockhash |-> blockhash, instructions |-> 1, program |-> SYSTEM_PROGRAM_ID,
   accounts |-> <<from, to>>, data |-> Data(lamports), length |-> length]

-----------------------------------------------------------------------------
(* run.rs:197-199: no two payloads of a benchmark are the same, whatever   *)
(* the random bytes are, and all have the length of the first.             *)
PayloadsDiffer ==
  /\ SameLength
  /\ \A i, j \in 1 .. Len(messages) :
       messages[i] = messages[j] => i = j

(* Every message that is signed is, to Solana's reader, one transfer of    *)
(* the lamports from the signer's account to the receiver's, under the     *)
(* block hash given, and no byte of it is left over. (Each message is the  *)
(* last one once.)                                                         *)
MessagesAreTransfers ==
  messages # << >> =>
    LET message == messages[Len(messages)]
        read    == Read(message)
    IN  /\ read = Asked(read.blockhash, Len(message))
        /\ step = "sign" /\ hash # Default => read.blockhash = hash

(* The wire form with a signature of 64 bytes is a list of one signature   *)
(* and the message that was signed.                                        *)
WireIsSignedMessage ==
  wire # << >> /\ Len(signature) = 64 =>
    LET signatures == List(wire, 1, 64)
    IN  /\ signatures.items = <<signature>>
        /\ SubSeq(wire, signatures.next, Len(wire)) = messages[1]
=============================================================================
