\* Every length of 16 bits; the real lengths of addresses and signatures;
\* options of two bits; nonces and amounts that collide if they can.
SPECIFICATION Spec
CONSTANTS
  Words = 4
  SampleSize = 1
  MaxWarmup = 3
  Default = Default
  Arguments <- Decoded
  PublicKeys <- TwoKeys
  Amounts <- SomeAmounts
  Signatures <- SomeSignatures
  Nonces <- SomeNonces
INVARIANTS CompactU16 NothingWrapped PayloadsDiffer MessagesAreTransfers WireIsSignedMessage
