SPECIFICATION Spec
CONSTANTS
  Kinds = {"sha256", "sha512", "sha3", "sm3"}
  Data <- MCData
  WordSize = 2
  Words = 4
  Modulus <- MCModulus
  MaxPiece <- MCPiece
INVARIANTS
  BytesKept
  DigestOfStream
