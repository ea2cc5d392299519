----------------------------- MODULE BlockHash -----------------------------
(***************************************************************************)
(* The hashers of bela::hash that collect their input in a block: SHA-2,   *)
(* SHA-3 and SM3.  A caller feeds a message Data piece by piece, asks for  *)
(* the digest, and may initialise the hasher and use it again.             *)
(*                                                                         *)
(* The compression function is abstracted: the state of a hash is the      *)
(* sequence of the bytes of the blocks it has been given, so two digests   *)
(* are equal when those sequences are.  The block is not cleared between   *)
(* uses; what an earlier use left there must not show.                     *)
(***************************************************************************)
EXTENDS Integers, Sequences

CONSTANTS
  Kinds,     \* families: "sha256" (and SHA-224), "sha512" (and SHA-384), "sha3", "sm3"
  Data,      \* the message
  WordSize,  \* bytes of a word of the block
  Words,     \* words of a block
  Modulus,   \* of each family, 2^(bits of a word)
  MaxPiece   \* of each family, the bytes given to one Update at most (bound)

Block == WordSize * Words

ASSUME KindsAssumption == Kinds \subseteq {"sha256", "sha512", "sha3", "sm3"}
ASSUME SizeAssumption == WordSize \in Nat \ {0} /\ Words \in Nat /\ Words > 2
\* The length of the message fits the two words of the length field, or the one
\* that SHA-512 writes.
ASSUME WordAssumption ==
  /\ Data \in Seq(Nat) /\ Modulus \in [Kinds -> Nat] /\ MaxPiece \in [Kinds -> Nat]
  /\ \A k \in Kinds :
       /\ Modulus[k] % Block = 0 /\ Modulus[k] % 8 = 0
       /\ 8 * Len(Data) < Modulus[k] * IF k = "sha512" THEN 1 ELSE Modulus[k]

VARIABLES
  kind,     \* the family the hasher is of
  phase,    \* "new", "open" and "done": not initialised, fed, finalised
  fed,      \* bytes of Data given to Update so far
  hash,     \* the bytes compressed
  message,  \* the block that is being filled
  length,   \* bytes counted: SHA-2 all of them, SHA-3 those in the block, SM3 modulo Modulus
  high      \* SM3: how often length has wrapped round

vars == <<kind, phase, fed, hash, message, length, high>>

Piece(n) == SubSeq(Data, fed + 1, fed + n)

\* memcpy of s into the block m at offset at.
Copy(m, at, s) == [i \in 1 .. Block |-> IF at < i /\ i <= at + Len(s) THEN s[i - at] ELSE m[i]]

\* The block functions mix a block into the state; here it is appended.
Compress(h, bytes) == h \o bytes

Lesser(a, b) == IF a < b THEN a ELSE b

Init ==
  /\ kind \in Kinds /\ phase = "new" /\ fed = 0
  /\ hash = <<>> /\ length = 0 /\ high = 0
  /\ message = [i \in 1 .. Block |-> "junk"]

Initialize ==
  /\ phase' = "open" /\ fed' = 0
  /\ hash' = <<>> /\ length' = 0 /\ high' = 0
  /\ message' = IF kind = "sha3" THEN [i \in 1 .. Block |-> 0] ELSE message
  /\ UNCHANGED kind

-----------------------------------------------------------------------------
(* Update: what it does to the pair of the compressed bytes and the block. *)

\* Slip: a block that the input just fills is not compressed.
PartialLate(index, n) == index # 0 /\ n <= Block - index

\* The input does not fill the block that is begun.
Partial(index, n) == index # 0 /\ n < Block - index

\* The block, of which index bytes are in use, is filled up and compressed;
\* whole blocks of the input are compressed, through the block if the input is
\* not aligned; the bytes left over start the block again.
Fill(h, m, index, s, aligned) ==
  LET left == Block - index
      full == Copy(m, index, SubSeq(s, 1, Lesser(Len(s), left)))
      rest == IF index = 0 THEN s ELSE SubSeq(s, left + 1, Len(s))
      whole == Block * (Len(rest) \div Block)
      last == IF aligned \/ whole = 0 THEN (IF index = 0 THEN m ELSE full)
              ELSE Copy(m, 0, SubSeq(rest, whole - Block + 1, whole))
  IN  IF Partial(index, Len(s)) THEN [hash |-> h, message |-> full]
      ELSE [hash |-> Compress(IF index = 0 THEN h ELSE Compress(h, full), SubSeq(rest, 1, whole)),
            message |-> Copy(last, 0, SubSeq(rest, whole + 1, Len(rest)))]

\* SM3 compresses the input where it is.
Feed(h, m, index, s, aligned) == Fill(h, m, index, s, aligned \/ kind = "sm3")

\* The sum is smaller than the piece, both of them a word.
Carry(l, n) == IF (l + n) % Modulus[kind] < n % Modulus[kind] THEN 1 ELSE 0

Count(n) ==
  CASE kind \in {"sha256", "sha512"} -> length + n
    [] kind = "sha3" -> (length + n) % Block
    [] kind = "sm3" -> (length + n) % Modulus[kind]

Update(n, aligned) ==
  /\ phase = "open"
  /\ LET new == Feed(hash, message, length % Block, Piece(n), aligned)
     IN  hash' = new.hash /\ message' = new.message
  /\ fed' = fed + n
  /\ length' = Count(n)
  /\ high' = IF kind = "sm3" THEN high + Carry(length, n) ELSE high
  /\ UNCHANGED <<kind, phase>>

-----------------------------------------------------------------------------
(* Finalize                                                                *)

Zeros(n) == [i \in 1 .. n |-> 0]
Word(x) == [i \in 1 .. WordSize |-> x]

\* Slip: one word is room enough for the length.
CrowdedTight(words) == words > Words - 1

\* The two words of the length do not fit behind those in use.
Crowded(words) == words > Words - 2

\* SHA-2: the rest of the word in use is masked and marked; when the length does
\* not fit behind it, the block is filled with zeros and compressed before one
\* that holds the length only.  SHA-512 writes zero for the high word.
FinalizeSha2 ==
  LET at == length % Block
      word == at \div WordSize
      marked == Copy(message, at, <<"80">> \o Zeros(WordSize * (word + 1) - at - 1))
      used == WordSize * (word + 1)
      crowded == Crowded(word + 1)
      padded == Copy(marked, used, Zeros(Block - used))
      base == IF crowded THEN Zeros(Block) ELSE padded
      bits == Word(IF kind = "sha256" THEN ((8 * length) \div Modulus[kind]) % Modulus[kind] ELSE 0) \o Word((8 * length) % Modulus[kind])
      last == Copy(base, Block - 2 * WordSize, bits)
  IN  /\ hash' = Compress(IF crowded THEN Compress(hash, padded) ELSE hash, last)
      /\ message' = last
      /\ UNCHANGED <<length, high>>

Cleared(m, at) == Copy(m, at, Zeros(Block - at))

\* SHA-3: the rest of the block is cleared, the first and the last byte of it
\* are marked; they may be one byte.
FinalizeSha3 ==
  LET marked == Copy(Cleared(message, length), length, <<"06">>)
      last == [marked EXCEPT ![Block] = IF length = Block - 1 THEN "86" ELSE "80"]
  IN  /\ hash' = Compress(hash, last)
      /\ message' = last
      /\ UNCHANGED <<length, high>>

\* SM3: two more Updates, of the padding and of the length.
FinalizeSm3 ==
  LET last == length % Block
      room == Block - 2 * WordSize
      padn == IF last < room THEN room - last ELSE Block + room - last
      padded == Feed(hash, message, last, <<"80">> \o Zeros(padn - 1), TRUE)
      bits == Word((length \div (Modulus[kind] \div 8) + 8 * high) % Modulus[kind]) \o Word((8 * length) % Modulus[kind])
      new == Feed(padded.hash, padded.message, (last + padn) % Block, bits, TRUE)
  IN  /\ hash' = new.hash /\ message' = new.message
      /\ length' = (length + padn + 2 * WordSize) % Modulus[kind]
      /\ high' = high + Carry(length, padn) + Carry((length + padn) % Modulus[kind], 2 * WordSize)

Finalize ==
  /\ phase = "open"
  /\ CASE kind \in {"sha256", "sha512"} -> FinalizeSha2
       [] kind = "sha3" -> FinalizeSha3
       [] kind = "sm3" -> FinalizeSm3
  /\ phase' = "done"
  /\ UNCHANGED <<kind, fed>>

\* SHA-3 remembers that it is finalised: Update and Finalize do nothing more.
\* The others have no such mark, and what they return then is nobody's digest:
\* their callers initialise first.
Next ==
  \/ Initialize
  \/ \E n \in 0 .. Lesser(MaxPiece[kind], Len(Data) - fed), aligned \in BOOLEAN : Update(n, aligned)
  \/ Finalize

Spec == Init /\ [][Next]_vars

-----------------------------------------------------------------------------
(* What is to be computed: the padded message, from the standards' view.   *)

\* Blocks that n bytes, a mark and tail more bytes take.
BlocksFor(n, tail) == (n + 1 + tail + Block - 1) \div Block

Padded(n) ==
  LET tail == IF kind = "sha3" THEN 0 ELSE 2 * WordSize
      total == Block * BlocksFor(n, tail)
      mark == IF kind = "sha3" THEN (IF n + 1 = total THEN "86" ELSE "06") ELSE "80"
      fieldHigh == (8 * n) \div Modulus[kind]
  IN  [i \in 1 .. total |->
         CASE i <= n -> Data[i]
           [] i = n + 1 -> mark
           [] i > n + 1 /\ i <= total - tail -> IF kind = "sha3" /\ i = total THEN "80" ELSE 0
           [] i > total - tail /\ i <= total - WordSize -> fieldHigh
           [] OTHER -> IF tail = 0 THEN 0 ELSE (8 * n) % Modulus[kind]]

TypeOK ==
  /\ kind \in Kinds /\ phase \in {"new", "open", "done"}
  /\ fed \in 0 .. Len(Data)
  /\ Len(hash) % Block = 0
  /\ DOMAIN message = 1 .. Block
  /\ length \in Nat /\ high \in Nat
  /\ kind = "sha3" => length < Block
  /\ kind = "sm3" => length < Modulus[kind]

\* Between two calls the compressed bytes, followed by those of the block in
\* use, are the bytes fed: the cuts of the input leave no trace, nor does an
\* earlier use of the same block.
BytesKept ==
  phase = "open" => hash \o SubSeq(message, 1, length % Block) = SubSeq(Data, 1, fed)

\* The digest is that of the message fed, padded as the standard says, however
\* it was cut, whatever was aligned, on a new hasher as on one used before.
DigestOfStream == phase = "done" => hash = Padded(fed)
=============================================================================
