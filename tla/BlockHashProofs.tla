-------------------------- MODULE BlockHashProofs --------------------------
(***************************************************************************)
(* BlockHash for a message, blocks and pieces of any size: the bytes a     *)
(* hasher has compressed, with those in its block, are the bytes fed, and  *)
(* the digest is that of the padded message.                               *)
(***************************************************************************)
EXTENDS BlockHash, SequenceTheorems, TLAPS

Byte == Nat \cup {"junk", "06", "80", "86"}

\* The bytes compressed and those in use of a block are the first n of D.
Held(h, m, D, n) ==
  /\ h \in Seq(Byte) /\ m \in [1 .. Block -> Byte]
  /\ Len(h) = n - (n % Block)
  /\ \A i \in 1 .. Len(h) : h[i] = D[i]
  /\ \A i \in 1 .. n % Block : m[i] = D[Len(h) + i]

\* What each family counts of the bytes fed.
Counted ==
  /\ kind \in {"sha256", "sha512"} => length = fed
  /\ kind = "sha3" => length = fed % Block
  /\ kind = "sm3" => length = fed % Modulus[kind]

IInv ==
  /\ kind \in Kinds /\ phase \in {"new", "open", "done"} /\ fed \in 0 .. Len(Data)
  /\ hash \in Seq(Byte) /\ Len(hash) % Block = 0 /\ message \in [1 .. Block -> Byte]
  /\ length \in Nat /\ high \in Nat
  /\ kind = "sha3" => length < Block
  /\ kind = "sm3" => length < Modulus[kind]
  /\ phase = "open" => Held(hash, message, Data, fed) /\ Counted

-----------------------------------------------------------------------------
(* Division                                                                *)

\* a is q times b and r more.
Split(a, b, q, r) == q \in Int /\ r \in Nat /\ a = b * q + r

\* Quotient and remainder.
LEMMA DivMod ==
  ASSUME NEW a \in Nat, NEW b \in Nat \ {0}
  PROVE  a \div b \in Nat /\ a % b \in 0 .. b - 1 /\ a = b * (a \div b) + (a % b)
OBVIOUS

\* Multiples of b are b apart.
LEMMA Apart ==
  ASSUME NEW b \in Nat \ {0}, NEW x \in Int, NEW y \in Int, x < y
  PROVE  b * x + b <= b * y
OBVIOUS

\* Quotient and remainder are the only ones.
LEMMA DivIs ==
  ASSUME NEW a \in Nat, NEW b \in Nat \ {0}, NEW q, NEW r, Split(a, b, q, r), r < b
  PROVE  a \div b = q /\ a % b = r
<1> DEFINE p == a \div b
           t == a % b
<1>1. q \in Int /\ r \in Nat /\ a = b * q + r
  BY DEF Split
<1>2. p \in Nat /\ t \in 0 .. b - 1 /\ a = b * p + t
  BY DivMod
<1> HIDE DEF p, t
<1>3. ~ q < p
  <2>1. q < p => b * q + b <= b * p
    BY <1>1, <1>2, Apart
  <2>2. b * q \in Int /\ b * p \in Int
    BY <1>1, <1>2
  <2>3. QED
    BY <1>1, <1>2, <2>1, <2>2
<1>4. ~ p < q
  <2>1. p < q => b * p + b <= b * q
    BY <1>1, <1>2, Apart
  <2>2. b * q \in Int /\ b * p \in Int
    BY <1>1, <1>2
  <2>3. QED
    BY <1>1, <1>2, <2>1, <2>2
<1>5. p = q
  BY <1>1, <1>2, <1>3, <1>4
<1>6. t = r
  <2>1. b * q \in Int
    BY <1>1
  <2>2. QED
    BY <1>1, <1>2, <1>5, <2>1
<1>7. QED
  BY <1>5, <1>6 DEF p, t

\* A number below b is its own remainder.
LEMMA ModSmall ==
  ASSUME NEW b \in Nat \ {0}, NEW c \in 0 .. b - 1
  PROVE  c \div b = 0 /\ c % b = c
OBVIOUS

\* What is a multiple of b away has the same remainder.
LEMMA ModShift ==
  ASSUME NEW a \in Nat, NEW b \in Nat \ {0}, NEW x, NEW c, Split(a, b, x, c)
  PROVE  a % b = c % b /\ a \div b = x + (c \div b)
<1> DEFINE y == c \div b
           t == c % b
           q == x + y
<1>1. x \in Int /\ c \in Nat /\ a = b * x + c
  BY DEF Split
<1>2. y \in Nat /\ t \in 0 .. b - 1 /\ c = b * y + t
  BY <1>1, DivMod
<1> HIDE DEF y, t
<1>3. q \in Int /\ b * q = b * x + b * y
  BY <1>1, <1>2
<1> HIDE DEF q
<1>4. Split(a, b, q, t) /\ t < b
  BY <1>1, <1>2, <1>3 DEF Split
<1>5. a \div b = q /\ a % b = t
  BY <1>4, DivIs
<1>6. QED
  BY <1>5 DEF t, q, y

\* What is added to a number may be added to its remainder.
LEMMA ModStep ==
  ASSUME NEW a \in Nat, NEW n \in Nat, NEW b \in Nat \ {0}
  PROVE  (a + n) % b = ((a % b) + n) % b
<1> DEFINE x == a \div b
           c == (a % b) + n
           d == a + n
<1>1. x \in Nat /\ a % b \in 0 .. b - 1 /\ a = b * x + (a % b)
  BY DivMod
<1> HIDE DEF x
<1>2. d \in Nat /\ Split(d, b, x, c)
  BY <1>1 DEF Split
<1> HIDE DEF c, d
<1>3. d % b = c % b
  BY <1>2, ModShift
<1>4. QED
  BY <1>3 DEF c, d

\* A remainder that stays below b.
LEMMA ModBelow ==
  ASSUME NEW a \in Nat, NEW n \in Nat, NEW b \in Nat \ {0}, (a % b) + n < b
  PROVE  (a + n) % b = (a % b) + n
<1>1. a % b \in 0 .. b - 1
  BY DivMod
<1>2. (a % b) + n \in 0 .. b - 1
  BY <1>1
<1>3. ((a % b) + n) % b = (a % b) + n
  BY <1>2, ModSmall
<1>4. QED
  BY <1>3, ModStep

\* One that reaches it.
LEMMA ModAbove ==
  ASSUME NEW a \in Nat, NEW n \in Nat, NEW b \in Nat \ {0}, (a % b) + n >= b
  PROVE  (a + n) % b = ((a % b) + n - b) % b
<1> DEFINE c == (a % b) + n - b
           d == (a % b) + n
<1>1. a % b \in 0 .. b - 1
  BY DivMod
<1>2. d \in Nat /\ Split(d, b, 1, c)
  BY <1>1 DEF Split
<1> HIDE DEF c, d
<1>3. d % b = c % b
  BY <1>2, ModShift
<1>4. (a + n) % b = d % b
  BY ModStep DEF d
<1>5. QED
  BY <1>3, <1>4 DEF c

-----------------------------------------------------------------------------
(* The block                                                               *)

\* There is room for a mark and the two words of the length in a block.
LEMMA BlockFacts == WordSize \in Nat \ {0} /\ Block \in Nat \ {0} /\ 2 * WordSize < Block
<1>1. WordSize \in Nat \ {0} /\ Words \in Nat /\ 2 < Words
  BY SizeAssumption
<1>2. WordSize * 2 + WordSize <= WordSize * Words
  BY <1>1, Apart
<1>3. WordSize * Words \in Nat
  BY <1>1
<1>4. QED
  BY <1>1, <1>2, <1>3 DEF Block

\* A copy changes the bytes it covers.
LEMMA CopyFacts ==
  ASSUME NEW m \in [1 .. Block -> Byte], NEW at \in Nat, NEW s \in Seq(Byte)
  PROVE  /\ Copy(m, at, s) \in [1 .. Block -> Byte]
         /\ \A i \in 1 .. Block : Copy(m, at, s)[i] = IF at < i /\ i <= at + Len(s) THEN s[i - at] ELSE m[i]
BY BlockFacts DEF Copy

\* One to the front of the block.
LEMMA CopyFront ==
  ASSUME NEW m \in [1 .. Block -> Byte], NEW s \in Seq(Byte)
  PROVE  /\ Copy(m, 0, s) \in [1 .. Block -> Byte]
         /\ \A i \in 1 .. Block : Copy(m, 0, s)[i] = IF i <= Len(s) THEN s[i] ELSE m[i]
BY BlockFacts DEF Copy

\* A block is a sequence.
LEMMA BlockSeq ==
  ASSUME NEW m \in [1 .. Block -> Byte]
  PROVE  m \in Seq(Byte) /\ Len(m) = Block
BY BlockFacts

\* The bytes of two sequences in a row.
LEMMA CompressFacts ==
  ASSUME NEW h \in Seq(Byte), NEW s \in Seq(Byte)
  PROVE  /\ Compress(h, s) \in Seq(Byte) /\ Len(Compress(h, s)) = Len(h) + Len(s)
         /\ \A i \in 1 .. Len(h) + Len(s) : Compress(h, s)[i] = IF i <= Len(h) THEN h[i] ELSE s[i - Len(h)]
BY DEF Compress

\* When their lengths are known.
LEMMA Joined ==
  ASSUME NEW h \in Seq(Byte), NEW s \in Seq(Byte), NEW a, NEW b, Len(h) = a, Len(s) = b
  PROVE  /\ Compress(h, s) \in Seq(Byte) /\ Len(Compress(h, s)) = a + b
         /\ \A i \in 1 .. a + b : Compress(h, s)[i] = IF i <= a THEN h[i] ELSE s[i - a]
BY CompressFacts, Zenon

\* The bytes of a piece.
LEMMA PieceFacts ==
  ASSUME NEW s \in Seq(Byte), NEW a \in 1 .. Len(s) + 1, NEW b \in 0 .. Len(s), a <= b + 1
  PROVE  /\ SubSeq(s, a, b) \in Seq(Byte) /\ Len(SubSeq(s, a, b)) = b + 1 - a
         /\ \A i \in 1 .. b + 1 - a : SubSeq(s, a, b)[i] = s[a - 1 + i]
OBVIOUS

-----------------------------------------------------------------------------
(* Update                                                                  *)

\* The block begun takes all of the input.
LEMMA FillPartial ==
  ASSUME NEW D, NEW n \in Nat, NEW h, NEW m, Held(h, m, D, n), NEW aligned \in BOOLEAN,
         NEW s \in Seq(Byte), \A i \in 1 .. Len(s) : s[i] = D[n + i],
         Partial(n % Block, Len(s))
  PROVE  LET r == Fill(h, m, n % Block, s, aligned) IN Held(r.hash, r.message, D, n + Len(s))
<1> DEFINE index == n % Block
           full == Copy(m, index, SubSeq(s, 1, Lesser(Len(s), Block - index)))
<1>1. index \in 0 .. Block - 1 /\ Block \in Nat \ {0} /\ Len(s) \in Nat
  BY BlockFacts, DivMod
<1>2. index + Len(s) < Block /\ (n + Len(s)) % Block = index + Len(s)
  <2>1. index + Len(s) < Block
    BY <1>1 DEF Partial
  <2>2. QED
    BY <1>1, <2>1, ModBelow, Zenon
<1>3. SubSeq(s, 1, Lesser(Len(s), Block - index)) = s
  BY <1>1, <1>2 DEF Lesser
<1>4. /\ h \in Seq(Byte) /\ m \in [1 .. Block -> Byte] /\ Len(h) = n - index
      /\ \A i \in 1 .. Len(h) : h[i] = D[i]
      /\ \A i \in 1 .. index : m[i] = D[Len(h) + i]
  BY DEF Held
<1>5. Fill(h, m, index, s, aligned) = [hash |-> h, message |-> full]
  BY DEF Fill
<1> HIDE DEF index
<1>6. full \in [1 .. Block -> Byte] /\ \A i \in 1 .. Block : full[i] = IF index < i /\ i <= index + Len(s) THEN s[i - index] ELSE m[i]
  <2>0. index \in Nat
    BY <1>1
  <2>1. full = Copy(m, index, s)
    BY <1>3, Zenon
  <2> HIDE DEF full
  <2>2. QED
    BY <1>4, <2>0, <2>1, CopyFacts
<1> HIDE DEF full
<1>7. \A i \in 1 .. index + Len(s) : full[i] = D[Len(h) + i]
  <2> SUFFICES ASSUME NEW i \in 1 .. index + Len(s)  PROVE full[i] = D[Len(h) + i]
    OBVIOUS
  <2>1. CASE i <= index
    BY <1>1, <1>2, <1>4, <1>6, <2>1
  <2>2. CASE index < i
    <3>1. i - index \in 1 .. Len(s) /\ i \in 1 .. Block
      BY <1>1, <1>2, <2>2
    <3>4. n + (i - index) = Len(h) + i
      BY <1>1, <1>4, <2>2
    <3>2. full[i] = s[i - index]
      BY <1>1, <1>6, <2>2, <3>1
    <3>3. QED
      BY <3>1, <3>2, <3>4
  <2>3. QED
    BY <1>1, <2>1, <2>2
<1>8. Held(h, full, D, n + Len(s))
  <2> DEFINE e == (n + Len(s)) % Block
  <2>0. Len(h) = n - index /\ e = index + Len(s)
    BY <1>2, <1>4
  <2> HIDE DEF e
  <2>4. Len(h) = (n + Len(s)) - e
    BY ONLY <2>0, <1>1, n \in Nat
  <2>1. Len(h) = (n + Len(s)) - ((n + Len(s)) % Block)
    BY <2>4 DEF e
  <2>2. \A i \in 1 .. (n + Len(s)) % Block : full[i] = D[Len(h) + i]
    BY <1>2, <1>7
  <2>3. QED
    BY <1>4, <1>6, <2>1, <2>2, Zenon DEF Held
<1>9. QED
  BY <1>5, <1>8 DEF index

\* The bytes left over when whole blocks of s are compressed behind those of g
\* start the block again.
LEMMA RestHeld ==
  ASSUME NEW D, NEW n \in Nat, n % Block = 0, NEW g \in Seq(Byte), Len(g) = n, \A i \in 1 .. n : g[i] = D[i],
         NEW m \in [1 .. Block -> Byte],
         NEW s \in Seq(Byte), \A i \in 1 .. Len(s) : s[i] = D[n + i]
  PROVE  LET whole == Block * (Len(s) \div Block)
         IN  Held(Compress(g, SubSeq(s, 1, whole)), Copy(m, 0, SubSeq(s, whole + 1, Len(s))), D, n + Len(s))
<1> DEFINE whole == Block * (Len(s) \div Block)
           left == Len(s) % Block
           head == SubSeq(s, 1, whole)
           tail == SubSeq(s, whole + 1, Len(s))
           h == Compress(g, head)
           b == Copy(m, 0, tail)
<1>1. Block \in Nat \ {0} /\ Len(s) \in Nat
  BY BlockFacts
<1>2. whole \in Nat /\ left \in 0 .. Block - 1 /\ Len(s) = whole + left
  <2>1. Len(s) \div Block \in Nat /\ Len(s) % Block \in 0 .. Block - 1
        /\ Len(s) = Block * (Len(s) \div Block) + (Len(s) % Block)
    BY <1>1, DivMod, Zenon
  <2>2. QED
    BY <1>1, <2>1
<1>3. (n + Len(s)) % Block = left
  <2>1. (n + Len(s)) % Block = ((n % Block) + Len(s)) % Block
    BY <1>1, ModStep, Zenon
  <2>2. QED
    BY <1>1, <2>1
<1> HIDE DEF whole, left
<1>4. head \in Seq(Byte) /\ Len(head) = whole /\ \A i \in 1 .. whole : head[i] = s[i]
  <2>1. 1 \in 1 .. Len(s) + 1 /\ whole \in 0 .. Len(s) /\ 1 <= whole + 1
    BY <1>1, <1>2
  <2>2. QED
    BY <1>2, <2>1, PieceFacts
<1>5. tail \in Seq(Byte) /\ Len(tail) = left /\ \A i \in 1 .. left : tail[i] = s[whole + i]
  <2>1. whole + 1 \in 1 .. Len(s) + 1 /\ Len(s) \in 0 .. Len(s) /\ whole + 1 <= Len(s) + 1
    BY <1>1, <1>2
  <2>2. QED
    BY <1>1, <1>2, <2>1, PieceFacts
<1> HIDE DEF head, tail
<1>6. h \in Seq(Byte) /\ Len(h) = n + whole /\ \A i \in 1 .. n + whole : h[i] = IF i <= n THEN g[i] ELSE head[i - n]
  BY <1>4, CompressFacts
<1>7. b \in [1 .. Block -> Byte] /\ \A i \in 1 .. Block : b[i] = IF i <= left THEN tail[i] ELSE m[i]
  <2>1. tail \in Seq(Byte) /\ Len(tail) = left
    BY <1>5
  <2>2. b \in [1 .. Block -> Byte] /\ \A i \in 1 .. Block : b[i] = IF i <= Len(tail) THEN tail[i] ELSE m[i]
    BY <2>1, CopyFront, Zenon
  <2>3. QED
    BY <2>1, <2>2
<1> HIDE DEF h, b
<1>8. \A i \in 1 .. Len(h) : h[i] = D[i]
  <2> SUFFICES ASSUME NEW i \in 1 .. n + whole  PROVE h[i] = D[i]
    BY <1>6
  <2>1. CASE i <= n
    BY <1>6, <2>1
  <2>2. CASE n < i
    <3>1. i - n \in 1 .. whole /\ i - n \in 1 .. Len(s) /\ n + (i - n) = i
      BY <1>1, <1>2, <2>2
    <3>2. h[i] = s[i - n]
      BY <1>2, <1>4, <1>6, <2>2, <3>1
    <3>3. QED
      BY <3>1, <3>2
  <2>3. QED
    BY <1>2, <2>1, <2>2
<1>9. \A i \in 1 .. left : b[i] = D[Len(h) + i]
  <2> SUFFICES ASSUME NEW i \in 1 .. left  PROVE b[i] = D[Len(h) + i]
    OBVIOUS
  <2>0. Len(h) = n + whole
    BY <1>6
  <2>1. i \in 1 .. Block /\ whole + i \in 1 .. Len(s) /\ n + (whole + i) = Len(h) + i
    BY ONLY <1>1, <1>2, <2>0, n \in Nat, i \in 1 .. left
  <2>2. b[i] = s[whole + i]
    BY <1>2, <1>5, <1>7, <2>1
  <2>3. QED
    BY <2>1, <2>2
<1>10. Held(h, b, D, n + Len(s))
  <2>1. Len(h) = (n + Len(s)) - ((n + Len(s)) % Block)
    <3>1. Len(h) = n + whole /\ Len(s) = whole + left /\ (n + Len(s)) % Block = left
      BY <1>2, <1>3, <1>6
    <3>2. n \in Nat /\ whole \in Nat /\ left \in Nat
      BY <1>2
    <3>3. Len(h) = (n + Len(s)) - left
      BY ONLY <3>1, <3>2
    <3>4. QED
      BY <3>1, <3>3, Zenon
  <2>2. \A i \in 1 .. (n + Len(s)) % Block : b[i] = D[Len(h) + i]
    BY <1>3, <1>9
  <2>3. QED
    BY <1>6, <1>7, <1>8, <2>1, <2>2, Zenon DEF Held
<1>11. QED
  BY <1>10 DEF h, b, head, tail, whole

\* What passes through the block on the way is a block.
LEMMA LastTyped ==
  ASSUME NEW m \in [1 .. Block -> Byte], NEW b \in [1 .. Block -> Byte], NEW s \in Seq(Byte), NEW aligned \in BOOLEAN
  PROVE  LET whole == Block * (Len(s) \div Block)
         IN  (IF aligned \/ whole = 0 THEN b ELSE Copy(m, 0, SubSeq(s, whole - Block + 1, whole))) \in [1 .. Block -> Byte]
<1> DEFINE q == Len(s) \div Block
           whole == Block * q
           part == SubSeq(s, whole - Block + 1, whole)
<1>1. Block \in Nat \ {0} /\ Len(s) \in Nat
  BY BlockFacts
<1>2. q \in Nat /\ whole \in 0 .. Len(s)
  <2>1. q \in Nat /\ Len(s) % Block \in 0 .. Block - 1 /\ Len(s) = Block * q + (Len(s) % Block)
    BY <1>1, DivMod, Zenon
  <2> HIDE DEF q
  <2>2. Block * q \in Nat
    BY <1>1, <2>1
  <2>3. QED
    BY <1>1, <2>1, <2>2
<1> HIDE DEF q
<1>3. ASSUME whole # 0 PROVE part \in Seq(Byte)
  <2>1. 0 < q
    BY <1>1, <1>2, <1>3
  <2>2. Block * 0 + Block <= whole
    BY <1>1, <1>2, <2>1, Apart
  <2>3. whole - Block + 1 \in 1 .. Len(s) + 1 /\ whole - Block + 1 <= whole + 1
    BY <1>1, <1>2, <2>2
  <2> HIDE DEF whole
  <2>4. QED
    BY <1>2, <2>3, PieceFacts
<1> HIDE DEF whole, part
<1>4. whole # 0 => Copy(m, 0, part) \in [1 .. Block -> Byte]
  BY <1>3, CopyFront
<1>5. QED
  BY <1>4 DEF whole, part, q

\* Update keeps what it is given: a message can be cut anywhere.
LEMMA FillHeld ==
  ASSUME NEW D, NEW n \in Nat, NEW h, NEW m, Held(h, m, D, n), NEW aligned \in BOOLEAN,
         NEW s \in Seq(Byte), \A i \in 1 .. Len(s) : s[i] = D[n + i]
  PROVE  LET r == Fill(h, m, n % Block, s, aligned) IN Held(r.hash, r.message, D, n + Len(s))
<1> DEFINE index == n % Block
           left == Block - index
           full == Copy(m, index, SubSeq(s, 1, Lesser(Len(s), left)))
           g == Compress(h, full)
           rest == SubSeq(s, left + 1, Len(s))
           Whole(t) == Block * (Len(t) \div Block)
           Last(t, b) == IF aligned \/ Whole(t) = 0 THEN b ELSE Copy(m, 0, SubSeq(t, Whole(t) - Block + 1, Whole(t)))
<1>1. index \in 0 .. Block - 1 /\ Block \in Nat \ {0} /\ Len(s) \in Nat
  BY BlockFacts, DivMod
<1>2. /\ h \in Seq(Byte) /\ m \in [1 .. Block -> Byte] /\ Len(h) = n - index
      /\ \A i \in 1 .. Len(h) : h[i] = D[i]
      /\ \A i \in 1 .. index : m[i] = D[Len(h) + i]
  BY DEF Held
<1>3. CASE Partial(index, Len(s))
  BY <1>3, FillPartial
<1>4. CASE index = 0
  <2>1. Fill(h, m, index, s, aligned) =
          [hash |-> Compress(h, SubSeq(s, 1, Whole(s))),
           message |-> Copy(Last(s, m), 0, SubSeq(s, Whole(s) + 1, Len(s)))]
    BY <1>4 DEF Fill, Partial
  <2>2. Last(s, m) \in [1 .. Block -> Byte]
    BY <1>2, LastTyped
  <2>3. Len(h) = n /\ \A i \in 1 .. n : h[i] = D[i]
    BY <1>2, <1>4
  <2> HIDE DEF Last
  <2>4. Held(Compress(h, SubSeq(s, 1, Whole(s))), Copy(Last(s, m), 0, SubSeq(s, Whole(s) + 1, Len(s))), D, n + Len(s))
    BY <1>2, <1>4, <2>2, <2>3, RestHeld
  <2>5. QED
    BY <2>1, <2>4
<1>5. CASE index # 0 /\ Len(s) >= left
  <2>1. ~ Partial(index, Len(s)) /\ Lesser(Len(s), left) = left /\ left \in 1 .. Block
    BY <1>1, <1>5 DEF Partial, Lesser
  <2>2. Fill(h, m, index, s, aligned) =
          [hash |-> Compress(g, SubSeq(rest, 1, Whole(rest))),
           message |-> Copy(Last(rest, full), 0, SubSeq(rest, Whole(rest) + 1, Len(rest)))]
    BY <1>5, <2>1 DEF Fill
  <2> DEFINE first == SubSeq(s, 1, left)
  <2>3. first \in Seq(Byte) /\ Len(first) = left /\ \A i \in 1 .. left : first[i] = s[i]
    <3>1. 1 \in 1 .. Len(s) + 1 /\ left \in 0 .. Len(s) /\ 1 <= left + 1
      BY <1>1, <1>5, <2>1
    <3>2. QED
      BY <2>1, <3>1, PieceFacts
  <2>4. rest \in Seq(Byte) /\ Len(rest) = Len(s) - left /\ \A i \in 1 .. Len(s) - left : rest[i] = s[left + i]
    <3>1. left + 1 \in 1 .. Len(s) + 1 /\ Len(s) \in 0 .. Len(s) /\ left + 1 <= Len(s) + 1
      BY <1>1, <1>5, <2>1
    <3>2. QED
      BY <1>1, <2>1, <3>1, PieceFacts
  <2>5. full \in [1 .. Block -> Byte] /\ \A i \in 1 .. Block : full[i] = IF index < i THEN s[i - index] ELSE m[i]
    <3>0. index \in Nat
      BY <1>1
    <3>1. full = Copy(m, index, first)
      BY <2>1, Zenon
    <3> HIDE DEF full, first
    <3>2. full \in [1 .. Block -> Byte] /\ \A i \in 1 .. Block : full[i] = IF index < i /\ i <= index + Len(first) THEN first[i - index] ELSE m[i]
      BY <1>2, <2>3, <3>0, <3>1, CopyFacts
    <3>3. index + Len(first) = Block
      BY <1>1, <2>3
    <3>4. \A i \in 1 .. Block : index < i => first[i - index] = s[i - index]
      BY <1>1, <2>3
    <3>5. QED
      BY <3>2, <3>3, <3>4
  <2> HIDE DEF first, rest, full, Last
  <2>6. g \in Seq(Byte) /\ Len(g) = n + left /\ \A i \in 1 .. n + left : g[i] = D[i]
    <3>0. left = Block - index /\ index \in 0 .. Block - 1 /\ Block \in Nat \ {0}
      BY <1>1
    <3> HIDE DEF index, left
    <3>1. full \in Seq(Byte) /\ Len(full) = Block
      BY <2>5, BlockSeq
    <3>5. (n - index) + Block = n + left
      BY <3>0
    <3>2. g \in Seq(Byte) /\ Len(g) = n + left /\ \A i \in 1 .. n + left : g[i] = IF i <= n - index THEN h[i] ELSE full[i - (n - index)]
      <4>1. /\ g \in Seq(Byte) /\ Len(g) = Len(h) + Len(full)
            /\ \A i \in 1 .. Len(h) + Len(full) : g[i] = IF i <= Len(h) THEN h[i] ELSE full[i - Len(h)]
        BY <1>2, <3>1, CompressFacts
      <4>2. Len(h) = n - index /\ Len(h) + Len(full) = n + left
        BY <1>2, <3>1, <3>5
      <4>3. QED
        BY <4>1, <4>2, Zenon
    <3> HIDE DEF g
    <3>3. ASSUME NEW i \in 1 .. n + left PROVE g[i] = D[i]
      <4>1. CASE i <= n - index
        BY <3>0, <1>2, <3>2, <4>1
      <4>2. CASE n - index < i /\ i <= n
        <5>1. i - (n - index) \in 1 .. index /\ i - (n - index) \in 1 .. Block /\ ~ index < i - (n - index) /\ (n - index) + (i - (n - index)) = i
          BY <3>0, <4>2
        <5>2. g[i] = m[i - (n - index)]
          BY <3>0, <2>5, <3>2, <4>2, <5>1
        <5>3. QED
          BY <1>2, <5>1, <5>2
      <4>3. CASE n < i
        <5>1. i - (n - index) \in 1 .. Block /\ index < i - (n - index) /\ (i - (n - index)) - index = i - n
          BY <3>0, <2>1, <4>3
        <5>2. i - n \in 1 .. Len(s) /\ n + (i - n) = i
          BY <3>0, <1>5, <2>1, <4>3
        <5>3. g[i] = s[i - n]
          BY <3>0, <2>5, <3>2, <4>3, <5>1
        <5>4. QED
          BY <5>2, <5>3
      <4>4. QED
        BY <3>0, <4>1, <4>2, <4>3
    <3>4. QED
      BY <3>2, <3>3
  <2>7. (n + left) % Block = 0 /\ n + left \in Nat
    <3>1. (n % Block) + left >= Block /\ left \in Nat /\ (n % Block) + left - Block = 0
      BY <1>1, <2>1
    <3>2. (n + left) % Block = ((n % Block) + left - Block) % Block
      BY <1>1, <3>1, ModAbove, Zenon
    <3>3. QED
      BY <1>1, <3>1, <3>2, ModSmall
  <2>8. Last(rest, full) \in [1 .. Block -> Byte]
    BY <1>2, <2>4, <2>5, LastTyped DEF Last
  <2>9. \A i \in 1 .. Len(rest) : rest[i] = D[(n + left) + i]
    <3> SUFFICES ASSUME NEW i \in 1 .. Len(s) - left PROVE rest[i] = D[(n + left) + i]
      BY <2>4
    <3>1. left + i \in 1 .. Len(s) /\ n + (left + i) = (n + left) + i
      BY <1>1, <2>1
    <3>2. QED
      BY <2>4, <3>1
  <2> HIDE DEF g
  <2>10. Held(Compress(g, SubSeq(rest, 1, Whole(rest))), Copy(Last(rest, full), 0, SubSeq(rest, Whole(rest) + 1, Len(rest))), D, (n + left) + Len(rest))
    BY <2>4, <2>6, <2>7, <2>8, <2>9, RestHeld
  <2>11. (n + left) + Len(rest) = n + Len(s)
    BY <1>1, <2>1, <2>4
  <2>12. QED
    BY <2>2, <2>10, <2>11
<1>6. QED
  BY <1>1, <1>3, <1>4, <1>5 DEF Partial

-----------------------------------------------------------------------------
(* What is counted                                                         *)

\* A word holds more values than a block has bytes, and blocks fill it.
LEMMA ModulusFacts ==
  ASSUME NEW k \in Kinds
  PROVE  /\ Modulus[k] \in Nat \ {0} /\ Modulus[k] % Block = 0 /\ Modulus[k] % 8 = 0
         /\ MaxPiece[k] \in Nat
         /\ 8 * Len(Data) < Modulus[k] * IF k = "sha512" THEN 1 ELSE Modulus[k]
<1>1. Modulus[k] \in Nat /\ MaxPiece[k] \in Nat /\ Len(Data) \in Nat
  BY WordAssumption
<1>2. Modulus[k] % Block = 0 /\ Modulus[k] % 8 = 0 /\ 8 * Len(Data) < Modulus[k] * IF k = "sha512" THEN 1 ELSE Modulus[k]
  BY WordAssumption, Zenon
<1>3. Modulus[k] # 0
  BY <1>1, <1>2
<1>4. QED
  BY <1>1, <1>2, <1>3

\* The bytes of the message are bytes.
LEMMA DataFacts == Data \in Seq(Byte) /\ Len(Data) \in Nat
BY WordAssumption DEF Byte

\* Counting modulo a multiple of b is enough to know the place in b.
LEMMA ModMod ==
  ASSUME NEW a \in Nat, NEW b \in Nat \ {0}, NEW c \in Nat \ {0}, c % b = 0
  PROVE  (a % c) % b = a % b
<1> DEFINE j == c \div b
           q == a \div c
           r == a % c
           x == j * q
<1>1. j \in Nat /\ c = b * j
  <2>1. j \in Nat /\ c = b * j + (c % b)
    BY DivMod
  <2> HIDE DEF j
  <2>2. b * j \in Nat
    BY <2>1
  <2>3. QED
    BY <2>1, <2>2
<1>2. q \in Nat /\ r \in Nat /\ a = c * q + r
  BY DivMod
<1> HIDE DEF j, q, r
<1>3. x \in Int /\ c * q = b * x
  BY <1>1, <1>2
<1> HIDE DEF x
<1>4. Split(a, b, x, r)
  BY <1>2, <1>3 DEF Split
<1>5. a % b = r % b
  BY <1>4, <1>2, ModShift
<1>6. QED
  BY <1>5 DEF r

\* The count tells where the block in use ends.
LEMMA IndexIs ==
  ASSUME IInv, phase = "open"
  PROVE  length % Block = fed % Block
<1>1. kind \in Kinds /\ fed \in Nat /\ Block \in Nat \ {0} /\ Counted
  BY BlockFacts, DataFacts DEF IInv
<1>2. CASE kind \in {"sha256", "sha512"}
  BY <1>1, <1>2 DEF Counted
<1>3. CASE kind = "sha3"
  <2>1. length = fed % Block /\ fed % Block \in 0 .. Block - 1
    BY <1>1, <1>3, DivMod DEF Counted
  <2>2. QED
    BY <1>1, <2>1, ModSmall
<1>4. CASE kind = "sm3"
  <2>1. length = fed % Modulus[kind]
    BY <1>1, <1>4 DEF Counted
  <2>2. Modulus[kind] \in Nat \ {0} /\ Modulus[kind] % Block = 0
    BY <1>1, ModulusFacts
  <2>3. QED
    BY <1>1, <2>1, <2>2, ModMod, Zenon
<1>5. QED
  BY <1>1, <1>2, <1>3, <1>4, KindsAssumption

\* Counting on.
LEMMA CountIs ==
  ASSUME IInv, phase = "open", NEW n \in Nat
  PROVE  /\ kind \in {"sha256", "sha512"} => Count(n) = fed + n
         /\ kind = "sha3" => Count(n) = (fed + n) % Block
         /\ kind = "sm3" => Count(n) = (fed + n) % Modulus[kind]
<1>1. kind \in Kinds /\ fed \in Nat /\ Block \in Nat \ {0} /\ Counted
  BY BlockFacts, DataFacts DEF IInv
<1>2. Modulus[kind] \in Nat \ {0}
  BY <1>1, ModulusFacts
<1>3. (fed + n) % Block = ((fed % Block) + n) % Block
  BY <1>1, ModStep, Zenon
<1>4. (fed + n) % Modulus[kind] = ((fed % Modulus[kind]) + n) % Modulus[kind]
  BY <1>1, <1>2, ModStep, Zenon
<1>5. kind \in {"sha256", "sha512"} => Count(n) = fed + n
  BY <1>1 DEF Count, Counted
<1>6. kind = "sha3" => Count(n) = (fed + n) % Block
  BY <1>1, <1>3 DEF Count, Counted
<1>7. kind = "sm3" => Count(n) = (fed + n) % Modulus[kind]
  BY <1>1, <1>4 DEF Count, Counted
<1>8. QED
  BY <1>5, <1>6, <1>7

-----------------------------------------------------------------------------
(* The steps                                                               *)

\* Update keeps the invariant.
LEMMA UpdateKeeps ==
  ASSUME IInv, NEW n \in 0 .. Lesser(MaxPiece[kind], Len(Data) - fed), NEW aligned \in BOOLEAN, Update(n, aligned)
  PROVE  IInv'
<1> DEFINE b == aligned \/ kind = "sm3"
           r == Fill(hash, message, fed % Block, Piece(n), b)
<1>1. /\ kind \in Kinds /\ fed \in 0 .. Len(Data) /\ Block \in Nat \ {0} /\ phase = "open"
      /\ Held(hash, message, Data, fed) /\ Len(Data) \in Nat
  BY BlockFacts, DataFacts DEF IInv, Update
<1>2. n \in Nat /\ fed + n <= Len(Data) /\ fed + n \in 0 .. Len(Data)
  <2>1. MaxPiece[kind] \in Nat
    BY <1>1, ModulusFacts
  <2>2. QED
    BY <1>1, <2>1 DEF Lesser
<1>3. Piece(n) \in Seq(Byte) /\ Len(Piece(n)) = n /\ \A i \in 1 .. Len(Piece(n)) : Piece(n)[i] = Data[fed + i]
  <2>1. fed + 1 \in 1 .. Len(Data) + 1 /\ fed + n \in 0 .. Len(Data) /\ fed + 1 <= fed + n + 1
    BY <1>1, <1>2
  <2>2. QED
    BY <1>1, <1>2, <2>1, DataFacts, PieceFacts DEF Piece
<1>4. hash' = r.hash /\ message' = r.message
  <2>1. length % Block = fed % Block
    BY <1>1, IndexIs
  <2>2. QED
    BY <2>1 DEF Update, Feed
<1>5. b \in BOOLEAN /\ fed \in Nat
  BY <1>1
<1> HIDE DEF b
<1>6. Held(r.hash, r.message, Data, fed + Len(Piece(n)))
  BY <1>1, <1>3, <1>5, FillHeld
<1>7. Held(hash', message', Data, fed') /\ fed' = fed + n
  BY <1>3, <1>4, <1>6 DEF Update
<1> HIDE DEF r
<1>8. hash' \in Seq(Byte) /\ message' \in [1 .. Block -> Byte] /\ Len(hash') = fed' - (fed' % Block)
  BY <1>7 DEF Held
<1>9. Len(hash') % Block = 0
  <2>1. fed' \in Nat
    BY <1>2, <1>7
  <2> DEFINE q == fed' \div Block
             l == Len(hash')
  <2>2. q \in Nat /\ fed' % Block \in 0 .. Block - 1 /\ fed' = Block * q + (fed' % Block)
    BY <1>1, <2>1, DivMod
  <2>3. l = Len(hash') /\ l \in Nat
    BY <1>8
  <2> HIDE DEF q, l
  <2>4. Split(l, Block, q, 0)
    BY <1>1, <1>8, <2>1, <2>2, <2>3 DEF Split
  <2>5. l % Block = 0
    BY <1>1, <2>3, <2>4, DivIs
  <2>6. QED
    BY <2>3, <2>5
<1>10. Counted' /\ length' \in Nat /\ (kind' = "sha3" => length' < Block) /\ (kind' = "sm3" => length' < Modulus[kind'])
  <2>1. length' = Count(n) /\ kind' = kind /\ fed' = fed + n /\ fed + n \in Nat
    BY <1>1, <1>2 DEF Update
  <2>2. /\ kind \in {"sha256", "sha512"} => Count(n) = fed + n
        /\ kind = "sha3" => Count(n) = (fed + n) % Block
        /\ kind = "sm3" => Count(n) = (fed + n) % Modulus[kind]
    BY <1>1, <1>2, CountIs
  <2>3. (fed + n) % Block \in 0 .. Block - 1
    BY <1>1, <2>1, DivMod
  <2>4. Modulus[kind] \in Nat \ {0}
    BY <1>1, ModulusFacts
  <2>5. (fed + n) % Modulus[kind] \in 0 .. Modulus[kind] - 1
    BY <2>1, <2>4, DivMod
  <2>6. Counted'
    BY <2>1, <2>2 DEF Counted
  <2>7. CASE kind \in {"sha256", "sha512"}
    BY <2>1, <2>2, <2>6, <2>7
  <2>8. CASE kind = "sha3"
    BY <1>1, <2>1, <2>2, <2>3, <2>6, <2>8
  <2>9. CASE kind = "sm3"
    BY <2>1, <2>2, <2>4, <2>5, <2>6, <2>9
  <2>10. QED
    BY <1>1, <2>7, <2>8, <2>9, KindsAssumption
<1>11. high' \in Nat
  BY DEF IInv, Update, Carry
<1>12. kind' \in Kinds /\ phase' \in {"new", "open", "done"} /\ fed' \in 0 .. Len(Data)
  BY <1>1, <1>2, <1>7 DEF Update
<1>13. QED
  BY <1>7, <1>8, <1>9, <1>10, <1>11, <1>12 DEF IInv

\* A hasher that begins has nothing, whatever its block holds.
LEMMA NothingHeld ==
  ASSUME NEW m \in [1 .. Block -> Byte]
  PROVE  Held(<<>>, m, Data, 0) /\ Len(<<>>) % Block = 0
<1>1. 0 % Block = 0 /\ Len(<<>>) = 0 /\ <<>> \in Seq(Byte)
  BY BlockFacts
<1>2. QED
  BY <1>1 DEF Held

\* Initialize keeps the invariant.
LEMMA InitializeKeeps == ASSUME IInv, Initialize PROVE IInv'
<1>1. kind' = kind /\ kind \in Kinds /\ Block \in Nat \ {0} /\ Len(Data) \in Nat /\ message \in [1 .. Block -> Byte]
  BY BlockFacts, DataFacts DEF IInv, Initialize
<1>2. phase' = "open" /\ fed' = 0 /\ hash' = <<>> /\ length' = 0 /\ high' = 0
  BY DEF Initialize
<1>3. message' \in [1 .. Block -> Byte]
  BY <1>1 DEF Initialize, Byte
<1>4. Held(hash', message', Data, fed') /\ Len(hash') % Block = 0 /\ hash' \in Seq(Byte)
  BY <1>2, <1>3, NothingHeld
<1>5. Modulus[kind] \in Nat \ {0}
  BY <1>1, ModulusFacts
<1>6. 0 % Block = 0 /\ 0 % Modulus[kind] = 0
  BY <1>1, <1>5
<1>7. Counted'
  BY <1>1, <1>2, <1>6 DEF Counted
<1>8. QED
  BY <1>1, <1>2, <1>3, <1>4, <1>5, <1>7 DEF IInv

\* A new hasher, with whatever its memory held, satisfies it.
LEMMA IInvInit == Init => IInv
<1> SUFFICES ASSUME Init PROVE IInv
  OBVIOUS
<1>1. kind \in Kinds /\ Block \in Nat \ {0} /\ Len(Data) \in Nat
  BY BlockFacts, DataFacts DEF Init
<1>2. Modulus[kind] \in Nat \ {0}
  BY <1>1, ModulusFacts
<1>3. message \in [1 .. Block -> Byte]
  BY <1>1 DEF Init, Byte
<1>4. hash \in Seq(Byte) /\ Len(hash) % Block = 0
  BY <1>3, NothingHeld DEF Init
<1>5. QED
  BY <1>1, <1>2, <1>3, <1>4 DEF Init, IInv

-----------------------------------------------------------------------------
(* Padding                                                                 *)

\* A mark and tail bytes take one block more than the full ones, or two.
LEMMA BlocksAre ==
  ASSUME NEW n \in Nat, NEW tail \in 0 .. Block - 1
  PROVE  Block * BlocksFor(n, tail) =
           IF (n % Block) + tail < Block THEN (n - (n % Block)) + Block ELSE (n - (n % Block)) + 2 * Block
<1> DEFINE q == n \div Block
           l == n % Block
           a == n + 1 + tail + Block - 1
<1>1. Block \in Nat \ {0}
  BY BlockFacts
<1>2. q \in Nat /\ l \in 0 .. Block - 1 /\ n = Block * q + l
  BY <1>1, DivMod
<1>3. a \in Nat /\ a = n + tail + Block /\ BlocksFor(n, tail) = a \div Block
  BY <1>1 DEF BlocksFor
<1> HIDE DEF a, q, l
<1>4. Block * (q + 1) = Block * q + Block /\ Block * (q + 2) = Block * q + 2 * Block /\ Block * q \in Nat
  BY <1>1, <1>2
<1>5. CASE l + tail < Block
  <2>1. Split(a, Block, q + 1, l + tail)
    BY <1>1, <1>2, <1>3, <1>4 DEF Split
  <2>2. a \div Block = q + 1
    BY <1>1, <1>3, <1>5, <2>1, DivIs
  <2>3. n - l = Block * q
    BY <1>2, <1>4
  <2>4. Block * BlocksFor(n, tail) = (n - l) + Block
    BY <1>3, <1>4, <2>2, <2>3
  <2>5. QED
    BY <1>5, <2>4 DEF l
<1>6. CASE ~ l + tail < Block
  <2>1. Split(a, Block, q + 2, l + tail - Block) /\ l + tail - Block < Block
    BY <1>1, <1>2, <1>3, <1>4, <1>6 DEF Split
  <2>2. a \div Block = q + 2
    BY <1>1, <1>3, <2>1, DivIs
  <2>3. n - l = Block * q
    BY <1>2, <1>4
  <2>4. Block * BlocksFor(n, tail) = (n - l) + 2 * Block
    BY <1>3, <1>4, <2>2, <2>3
  <2>5. QED
    BY <1>6, <2>4 DEF l
<1>7. QED
  BY <1>5, <1>6

\* A number of blocks.
LEMMA WholeBlocks ==
  ASSUME NEW b \in Nat
  PROVE  (Block * b) % Block = 0
<1> DEFINE a == Block * b
<1>1. Block \in Nat \ {0} /\ a \in Nat
  BY BlockFacts
<1>2. Split(a, Block, b, 0)
  BY <1>1 DEF Split
<1> HIDE DEF a
<1>3. a % Block = 0
  BY <1>1, <1>2, DivIs
<1>4. QED
  BY <1>3 DEF a

\* The message and what is added, with a tail of two words for SHA-2 and SM3.
Total(n) == Block * BlocksFor(n, IF kind = "sha3" THEN 0 ELSE 2 * WordSize)

Stream(n, hi, lo) ==
  LET tail == IF kind = "sha3" THEN 0 ELSE 2 * WordSize
      mark == IF kind = "sha3" THEN (IF n + 1 = Total(n) THEN "86" ELSE "06") ELSE "80"
  IN  [i \in 1 .. Total(n) |->
         CASE i <= n -> Data[i]
           [] i = n + 1 -> mark
           [] i > n + 1 /\ i <= Total(n) - tail -> IF kind = "sha3" /\ i = Total(n) THEN "80" ELSE 0
           [] i > Total(n) - tail /\ i <= Total(n) - WordSize -> hi
           [] OTHER -> IF tail = 0 THEN 0 ELSE lo]

\* The padded message is one of these.
LEMMA PaddedIs == \A n : Padded(n) = Stream(n, (8 * n) \div Modulus[kind], (8 * n) % Modulus[kind])
BY DEF Padded, Stream, Total

\* The length of the padded message.
LEMMA TotalFacts ==
  ASSUME NEW n \in 0 .. Len(Data)
  PROVE  /\ Total(n) \in Nat /\ Total(n) % Block = 0
         /\ n + (IF kind = "sha3" THEN 0 ELSE 2 * WordSize) < Total(n)
         /\ kind = "sha3" => Total(n) = (n - (n % Block)) + Block
         /\ kind # "sha3" => Total(n) = IF (n % Block) + 2 * WordSize < Block THEN (n - (n % Block)) + Block
                                        ELSE (n - (n % Block)) + 2 * Block
<1> DEFINE tail == IF kind = "sha3" THEN 0 ELSE 2 * WordSize
           T == Total(n)
<1>1. WordSize \in Nat \ {0} /\ Block \in Nat \ {0} /\ 2 * WordSize < Block /\ n \in Nat /\ Data \in Seq(Byte)
  BY BlockFacts, DataFacts
<1>2. tail \in 0 .. Block - 1
  BY <1>1
<1>3. n % Block \in 0 .. Block - 1 /\ n - (n % Block) \in Nat
  <2>1. n \div Block \in Nat /\ n % Block \in 0 .. Block - 1 /\ n = Block * (n \div Block) + (n % Block)
    BY <1>1, DivMod
  <2>2. n % Block <= n
    BY <1>1, <2>1
  <2>3. QED
    BY <1>1, <2>1, <2>2
<1>4. T = IF (n % Block) + tail < Block THEN (n - (n % Block)) + Block ELSE (n - (n % Block)) + 2 * Block
  BY <1>1, <1>2, BlocksAre DEF Total
<1>5. T \in Nat /\ T % Block = 0
  <2>1. BlocksFor(n, tail) \in Nat
    <3>1. n + 1 + tail + Block - 1 \in Nat
      BY <1>1, <1>2
    <3>2. QED
      BY <1>1, <3>1, DivMod DEF BlocksFor
  <2>2. (Block * BlocksFor(n, tail)) % Block = 0
    BY <2>1, WholeBlocks
  <2>3. T = Block * BlocksFor(n, tail)
    BY DEF Total
  <2> HIDE DEF tail
  <2>4. QED
    BY <1>1, <1>3, <1>4, <2>2, <2>3
<1>6. n + tail < T
  <2>1. n = (n - (n % Block)) + (n % Block)
    BY <1>1, <1>3
  <2>2. QED
    BY <1>1, <1>2, <1>3, <1>4, <2>1
<1>7. kind = "sha3" => T = (n - (n % Block)) + Block
  BY <1>1, <1>3, <1>4
<1>8. kind # "sha3" => T = IF (n % Block) + 2 * WordSize < Block THEN (n - (n % Block)) + Block ELSE (n - (n % Block)) + 2 * Block
  BY <1>4
<1>9. QED
  BY <1>5, <1>6, <1>7, <1>8

\* Its bytes, in SHA-3.
LEMMA Sha3Stream ==
  ASSUME kind = "sha3", NEW n \in 0 .. Len(Data), NEW hi, NEW lo, NEW i \in 1 .. Total(n)
  PROVE  Stream(n, hi, lo)[i] = IF i <= n THEN Data[i]
                                ELSE IF i = n + 1 THEN (IF i = Total(n) THEN "86" ELSE "06")
                                ELSE IF i = Total(n) THEN "80" ELSE 0
<1> DEFINE T == Total(n)
<1>1. WordSize \in Nat \ {0} /\ n \in Nat /\ T \in Nat /\ n < T
  BY BlockFacts, DataFacts, TotalFacts
<1> HIDE DEF T
<1>2. QED
  BY <1>1 DEF Stream, T

\* In the others.
LEMMA TwoWordStream ==
  ASSUME kind # "sha3", NEW n \in 0 .. Len(Data), NEW hi, NEW lo, NEW i \in 1 .. Total(n)
  PROVE  Stream(n, hi, lo)[i] = IF i <= n THEN Data[i]
                                ELSE IF i = n + 1 THEN "80"
                                ELSE IF i <= Total(n) - 2 * WordSize THEN 0
                                ELSE IF i <= Total(n) - WordSize THEN hi ELSE lo
<1> DEFINE T == Total(n)
<1>1. WordSize \in Nat \ {0} /\ n \in Nat /\ T \in Nat /\ n + 2 * WordSize < T
  BY BlockFacts, DataFacts, TotalFacts
<1> HIDE DEF T
<1>2. QED
  BY <1>1 DEF Stream, T

\* It is a sequence of bytes.
LEMMA StreamFacts ==
  ASSUME NEW n \in 0 .. Len(Data), NEW hi \in Nat, NEW lo \in Nat
  PROVE  Stream(n, hi, lo) \in Seq(Byte) /\ Len(Stream(n, hi, lo)) = Total(n)
<1> DEFINE T == Total(n)
<1>1. Data \in Seq(Byte) /\ n \in 0 .. Len(Data) /\ T \in Nat
  BY DataFacts, TotalFacts
<1>2. \A i \in 1 .. T : i <= n => Data[i] \in Byte
  BY <1>1
<1>3. \A i \in 1 .. T : Stream(n, hi, lo)[i] \in Byte
  BY <1>2, Sha3Stream, TwoWordStream DEF Byte
<1>4. DOMAIN Stream(n, hi, lo) = 1 .. T /\ Stream(n, hi, lo) = [i \in 1 .. T |-> Stream(n, hi, lo)[i]]
  BY DEF Stream, T
<1> HIDE DEF T
<1>5. Stream(n, hi, lo) \in [1 .. T -> Byte]
  BY <1>3, <1>4
<1>6. QED
  BY <1>1, <1>5 DEF T

\* Zeros are zeros.
LEMMA ZerosFacts ==
  ASSUME NEW n \in Nat
  PROVE  Zeros(n) \in Seq(Byte) /\ Len(Zeros(n)) = n /\ \A i \in 1 .. n : Zeros(n)[i] = 0
BY DEF Zeros, Byte

\* The bytes of a word are alike in the model.
LEMMA WordFacts ==
  ASSUME NEW x \in Nat
  PROVE  Word(x) \in Seq(Byte) /\ Len(Word(x)) = WordSize /\ \A i \in 1 .. WordSize : Word(x)[i] = x
BY BlockFacts DEF Word, Byte

\* The mark and the zeros behind it.
LEMMA MarkFacts ==
  ASSUME NEW n \in Nat
  PROVE  LET s == <<"80">> \o Zeros(n)
         IN  s \in Seq(Byte) /\ Len(s) = n + 1 /\ \A i \in 1 .. n + 1 : s[i] = IF i = 1 THEN "80" ELSE 0
<1>1. <<"80">> \in Seq(Byte) /\ Len(<<"80">>) = 1 /\ <<"80">>[1] = "80"
  BY DEF Byte
<1> DEFINE z == Zeros(n)
<1>2. z \in Seq(Byte) /\ Len(z) = n /\ \A i \in 1 .. n : z[i] = 0
  BY ZerosFacts
<1> HIDE DEF z
<1>3. LET s == <<"80">> \o z
      IN  s \in Seq(Byte) /\ Len(s) = 1 + n /\ \A i \in 1 .. 1 + n : s[i] = IF i <= 1 THEN "80" ELSE z[i - 1]
  BY <1>1, <1>2
<1>4. QED
  BY <1>2, <1>3 DEF z

\* The two words of the length.
LEMMA BitsFacts ==
  ASSUME NEW hi \in Nat, NEW lo \in Nat
  PROVE  LET s == Word(hi) \o Word(lo)
         IN  s \in Seq(Byte) /\ Len(s) = 2 * WordSize
             /\ \A i \in 1 .. 2 * WordSize : s[i] = IF i <= WordSize THEN hi ELSE lo
<1> DEFINE v == Word(hi)
           w == Word(lo)
<1>1. WordSize \in Nat
  BY BlockFacts
<1>2. v \in Seq(Byte) /\ Len(v) = WordSize /\ \A i \in 1 .. WordSize : v[i] = hi
  BY WordFacts
<1>3. w \in Seq(Byte) /\ Len(w) = WordSize /\ \A i \in 1 .. WordSize : w[i] = lo
  BY WordFacts
<1> HIDE DEF v, w
<1>4. LET s == v \o w
      IN  s \in Seq(Byte) /\ Len(s) = WordSize + WordSize
          /\ \A i \in 1 .. WordSize + WordSize : s[i] = IF i <= WordSize THEN v[i] ELSE w[i - WordSize]
  BY <1>1, <1>2, <1>3
<1>5. QED
  BY <1>1, <1>2, <1>3, <1>4 DEF v, w

\* SHA-3: the digest is that of the padded message.
LEMMA Sha3Digest ==
  ASSUME IInv, phase = "open", kind = "sha3", FinalizeSha3
  PROVE  /\ hash' = Padded(fed) /\ message' \in [1 .. Block -> Byte]
         /\ hash' \in Seq(Byte) /\ Len(hash') % Block = 0
<1> DEFINE at == length
           k == fed - length
           c == Cleared(message, length)
           marked == Copy(c, length, <<"06">>)
           last == [marked EXCEPT ![Block] = IF length = Block - 1 THEN "86" ELSE "80"]
           P == Padded(fed)
<1>1. Block \in Nat \ {0} /\ fed \in 0 .. Len(Data) /\ Len(Data) \in Nat /\ kind \in Kinds
  BY BlockFacts, DataFacts DEF IInv
<1>2. length = fed % Block /\ length \in 0 .. Block - 1
  BY <1>1, DivMod DEF IInv, Counted
<1>3. /\ hash \in Seq(Byte) /\ message \in [1 .. Block -> Byte] /\ Len(hash) = k
      /\ \A i \in 1 .. k : hash[i] = Data[i]
      /\ \A i \in 1 .. length : message[i] = Data[k + i]
  BY <1>2 DEF IInv, Held
<1>4. k \in Nat
  BY <1>3
<1> HIDE DEF k
<1>5. c \in [1 .. Block -> Byte] /\ \A i \in 1 .. Block : c[i] = IF length < i THEN 0 ELSE message[i]
  <2>1. Block - length \in Nat
    BY <1>1, <1>2
  <2> DEFINE z == Zeros(Block - length)
  <2>2. z \in Seq(Byte) /\ Len(z) = Block - length /\ \A i \in 1 .. Block - length : z[i] = 0
    BY <2>1, ZerosFacts
  <2>3. c = Copy(message, length, z)
    BY DEF Cleared
  <2> HIDE DEF z, c
  <2>4. c \in [1 .. Block -> Byte] /\ \A i \in 1 .. Block : c[i] = IF length < i /\ i <= length + Len(z) THEN z[i - length] ELSE message[i]
    <3>1. length \in Nat
      BY <1>2
    <3>2. QED
      BY <1>3, <2>2, <2>3, <3>1, CopyFacts, Zenon
  <2>5. QED
    BY <1>1, <1>2, <2>2, <2>4
<1> HIDE DEF c
<1>6. marked \in [1 .. Block -> Byte] /\ \A i \in 1 .. Block : marked[i] = IF i = length + 1 THEN "06" ELSE c[i]
  <2>1. <<"06">> \in Seq(Byte) /\ Len(<<"06">>) = 1 /\ <<"06">>[1] = "06"
    BY DEF Byte
  <2>2. marked \in [1 .. Block -> Byte] /\ \A i \in 1 .. Block : marked[i] = IF length < i /\ i <= length + Len(<<"06">>) THEN <<"06">>[i - length] ELSE c[i]
    <3>1. length \in Nat
      BY <1>2
    <3>2. QED
      BY <1>5, <2>1, <3>1, CopyFacts, Zenon
  <2>3. QED
    BY <1>2, <2>1, <2>2
<1> HIDE DEF marked
<1>7. /\ last \in [1 .. Block -> Byte]
      /\ \A i \in 1 .. Block : last[i] = IF i <= length THEN message[i]
                                         ELSE IF i = length + 1 THEN (IF i = Block THEN "86" ELSE "06")
                                         ELSE IF i = Block THEN "80" ELSE 0
  BY <1>1, <1>2, <1>5, <1>6 DEF Byte
<1>8. hash' = Compress(hash, last) /\ message' = last
  BY DEF FinalizeSha3, marked, c
<1> HIDE DEF last
<1>9. last \in Seq(Byte) /\ Len(last) = Block
  BY <1>7, BlockSeq
<1>10. hash' \in Seq(Byte) /\ Len(hash') = k + Block /\ \A i \in 1 .. k + Block : hash'[i] = IF i <= k THEN hash[i] ELSE last[i - k]
  BY <1>3, <1>8, <1>9, CompressFacts
<1>11. (8 * fed) \div Modulus[kind] \in Nat /\ (8 * fed) % Modulus[kind] \in Nat
  <2>1. Modulus[kind] \in Nat \ {0} /\ 8 * fed \in Nat
    BY <1>1, ModulusFacts
  <2> DEFINE a == 8 * fed
             b == Modulus[kind]
  <2>2. a \in Nat /\ b \in Nat \ {0}
    BY <2>1
  <2> HIDE DEF a, b
  <2>3. a \div b \in Nat /\ a % b \in Nat
    BY <2>2, DivMod
  <2>4. QED
    BY <2>3 DEF a, b
<1>12. /\ P \in Seq(Byte) /\ Len(P) = k + Block /\ (k + Block) % Block = 0
       /\ \A i \in 1 .. k + Block : P[i] = IF i <= fed THEN Data[i]
                                           ELSE IF i = fed + 1 THEN (IF i = k + Block THEN "86" ELSE "06")
                                           ELSE IF i = k + Block THEN "80" ELSE 0
  <2>1. Total(fed) = k + Block
    BY <1>1, <1>2, TotalFacts DEF k
  <2> DEFINE hi == (8 * fed) \div Modulus[kind]
             lo == (8 * fed) % Modulus[kind]
  <2>2. P = Stream(fed, hi, lo)
    BY PaddedIs
  <2>3. hi \in Nat /\ lo \in Nat
    BY <1>11
  <2> HIDE DEF P, hi, lo
  <2>4. P \in Seq(Byte) /\ Len(P) = Total(fed) /\ Total(fed) % Block = 0
    BY <1>1, <2>2, <2>3, StreamFacts, TotalFacts
  <2>5. \A i \in 1 .. Total(fed) : P[i] = IF i <= fed THEN Data[i]
                                         ELSE IF i = fed + 1 THEN (IF i = Total(fed) THEN "86" ELSE "06")
                                         ELSE IF i = Total(fed) THEN "80" ELSE 0
    BY <1>1, <2>2, Sha3Stream
  <2>6. QED
    BY <2>1, <2>4, <2>5, Zenon
<1> HIDE DEF P
<1>13. fed = k + length
  BY <1>1, <1>2 DEF k
<1>14. ASSUME NEW i \in 1 .. k + Block PROVE hash'[i] = P[i]
  <2>1. CASE i <= k
    BY <1>2, <1>3, <1>4, <1>10, <1>12, <1>13, <2>1
  <2>2. CASE k < i /\ i <= fed
    <3>1. i - k \in 1 .. length /\ i - k \in 1 .. Block /\ k + (i - k) = i
      BY <1>1, <1>2, <1>4, <1>13, <2>2
    <3>2. hash'[i] = message[i - k]
      BY <1>4, <1>7, <1>10, <2>2, <3>1
    <3>3. QED
      BY <1>3, <1>12, <2>2, <3>1, <3>2
  <2>3. CASE fed < i
    <3>1. i - k \in 1 .. Block /\ ~ i - k <= length /\ (i - k = length + 1 <=> i = fed + 1) /\ (i - k = Block <=> i = k + Block)
      BY <1>1, <1>2, <1>4, <1>13, <2>3
    <3>2. hash'[i] = last[i - k]
      BY <1>1, <1>2, <1>4, <1>10, <1>13, <2>3
    <3>3. QED
      BY <1>7, <1>12, <1>1, <2>3, <3>1, <3>2
  <2>4. QED
    BY <1>1, <1>4, <2>1, <2>2, <2>3
<1>15. hash' = P
  BY <1>10, <1>12, <1>14, SeqEqual
<1>16. QED
  BY <1>7, <1>8, <1>10, <1>12, <1>15 DEF P

\* The length in bits of what is fed, and how many words it takes.
LEMMA BitCount ==
  ASSUME kind \in Kinds, NEW n \in 0 .. Len(Data)
  PROVE  /\ Modulus[kind] \in Nat \ {0} /\ 8 * n \in Nat
         /\ (8 * n) \div Modulus[kind] \in Nat /\ (8 * n) % Modulus[kind] \in Nat
         /\ kind = "sha512" => (8 * n) \div Modulus[kind] = 0
         /\ kind # "sha512" => (8 * n) \div Modulus[kind] \in 0 .. Modulus[kind] - 1
<1> DEFINE a == 8 * n
           b == Modulus[kind]
           q == a \div b
<1>1. b \in Nat \ {0} /\ Len(Data) \in Nat
  BY DataFacts, ModulusFacts
<1>2. a \in Nat /\ a <= 8 * Len(Data)
  BY <1>1
<1>3. 8 * Len(Data) < b * IF kind = "sha512" THEN 1 ELSE b
  BY ModulusFacts, Zenon
<1> HIDE DEF a, b
<1>4. q \in Nat /\ a % b \in 0 .. b - 1 /\ a = b * q + (a % b)
  BY <1>1, <1>2, DivMod
<1> HIDE DEF q
<1>5. b * q \in Nat /\ b * q <= a
  BY <1>1, <1>2, <1>4
<1>6. kind = "sha512" => q = 0
  <2> SUFFICES ASSUME kind = "sha512", 0 < q PROVE FALSE
    BY <1>4
  <2>1. b * 0 + b <= b * q
    BY <1>1, <1>4, Apart
  <2>2. QED
    BY <1>1, <1>2, <1>3, <1>5, <2>1
<1>7. kind # "sha512" => q \in 0 .. b - 1
  <2> SUFFICES ASSUME kind # "sha512", ~ q < b PROVE FALSE
    BY <1>1, <1>4
  <2>1. a < b * b
    BY <1>1, <1>2, <1>3
  <2>2. b < q => b * b + b <= b * q
    BY <1>1, <1>4, Apart
  <2>3. b * b <= b * q
    <3>1. CASE b = q
      BY <1>1, <1>5, <3>1
    <3>2. CASE b < q
      BY <1>1, <2>2, <3>2, <1>5
    <3>3. QED
      BY <1>1, <1>4, <3>1, <3>2
  <2>4. b * b \in Nat
    BY <1>1
  <2>5. QED
    BY <1>2, <1>5, <2>1, <2>3, <2>4
<1>8. QED
  BY <1>1, <1>2, <1>4, <1>6, <1>7 DEF a, b, q

\* The word in use ends behind the bytes in use and within the block; the two
\* words of the length have no room behind it if they have none behind the bytes.
LEMMA WordInUse ==
  ASSUME NEW at \in 0 .. Block - 1
  PROVE  LET word == at \div WordSize
         IN  /\ WordSize * (word + 1) \in at + 1 .. Block
             /\ Crowded(word + 1) <=> at + 2 * WordSize >= Block
<1> DEFINE word == at \div WordSize
           r == at % WordSize
<1>1. WordSize \in Nat \ {0} /\ Words \in Nat /\ Block = WordSize * Words /\ Words > 2 /\ Block \in Nat
  BY SizeAssumption, BlockFacts DEF Block
<1>2. at \in Nat /\ at < Block
  BY <1>1
<1>3. word \in Nat /\ r \in 0 .. WordSize - 1 /\ at = WordSize * word + r
  BY <1>1, <1>2, DivMod
<1> HIDE DEF word, r
<1>4. WordSize * (word + 1) = WordSize * word + WordSize /\ WordSize * word \in Nat
  BY <1>1, <1>3
<1>5. word < Words
  <2>1. Words < word => WordSize * Words + WordSize <= WordSize * word
    BY <1>1, <1>3, Apart
  <2>2. Words = word => WordSize * Words = WordSize * word
    OBVIOUS
  <2>3. QED
    BY <1>1, <1>2, <1>3, <1>4, <2>1, <2>2
<1>6. WordSize * word + WordSize <= Block
  BY <1>1, <1>3, <1>5, Apart
<1>7. WordSize * (word + 1) \in at + 1 .. Block
  BY <1>1, <1>2, <1>3, <1>4, <1>6
<1> DEFINE w == Words - 2
<1>8. w \in Nat /\ WordSize * w = Block - 2 * WordSize
  BY <1>1
<1> HIDE DEF w
<1>9. CASE word < w
  <2>1. WordSize * word + WordSize <= WordSize * w
    BY <1>1, <1>3, <1>8, <1>9, Apart
  <2>2. ~ at + 2 * WordSize >= Block
    BY <1>1, <1>2, <1>3, <1>4, <1>8, <2>1
  <2>3. ~ Crowded(word + 1)
    BY <1>1, <1>3, <1>9 DEF Crowded, w
  <2>4. QED
    BY <1>7, <2>2, <2>3 DEF word
<1>10. CASE ~ word < w
  <2>1. WordSize * w <= WordSize * word
    <3>1. w < word => WordSize * w + WordSize <= WordSize * word
      BY <1>1, <1>3, <1>8, Apart
    <3>2. CASE w = word
      BY <1>4, <3>2
    <3>3. CASE w < word
      BY <1>1, <1>4, <1>8, <3>1, <3>3
    <3>4. QED
      BY <1>3, <1>8, <1>10, <3>2, <3>3
  <2>2. at + 2 * WordSize >= Block
    BY <1>1, <1>2, <1>3, <1>4, <1>8, <2>1
  <2>3. Crowded(word + 1)
    BY <1>1, <1>3, <1>10 DEF Crowded, w
  <2>4. QED
    BY <1>7, <2>2, <2>3 DEF word
<1>11. QED
  BY <1>9, <1>10

\* SHA-2: the digest is that of the padded message.
LEMMA Sha2Digest ==
  ASSUME IInv, phase = "open", kind \in {"sha256", "sha512"}, FinalizeSha2
  PROVE  /\ hash' = Padded(fed) /\ message' \in [1 .. Block -> Byte]
         /\ hash' \in Seq(Byte) /\ Len(hash') % Block = 0
<1> DEFINE at == length % Block
           k == fed - at
           word == at \div WordSize
           used == WordSize * (word + 1)
           mark == <<"80">> \o Zeros(WordSize * (word + 1) - at - 1)
           zeros == Zeros(Block - used)
           marked == Copy(message, at, mark)
           padded == Copy(marked, used, zeros)
           crowded == Crowded(word + 1)
           base == IF crowded THEN Zeros(Block) ELSE padded
           hi == IF kind = "sha256" THEN ((8 * length) \div Modulus[kind]) % Modulus[kind] ELSE 0
           lo == (8 * length) % Modulus[kind]
           bits == Word(hi) \o Word(lo)
           last == Copy(base, Block - 2 * WordSize, bits)
           P == Padded(fed)
<1>1. /\ Block \in Nat \ {0} /\ WordSize \in Nat \ {0} /\ 2 * WordSize < Block
      /\ fed \in 0 .. Len(Data) /\ Len(Data) \in Nat /\ kind \in Kinds /\ kind # "sha3"
  BY BlockFacts, DataFacts DEF IInv
<1>2. length = fed /\ at = fed % Block /\ at \in 0 .. Block - 1
  <2>1. length = fed
    BY DEF IInv, Counted
  <2>2. QED
    BY <1>1, <2>1, DivMod
<1>3. /\ hash \in Seq(Byte) /\ message \in [1 .. Block -> Byte] /\ Len(hash) = k
      /\ \A i \in 1 .. k : hash[i] = Data[i]
      /\ \A i \in 1 .. at : message[i] = Data[k + i]
  BY <1>2 DEF IInv, Held
<1>4. k \in Nat /\ fed = k + at
  <2>1. k \in Nat
    BY <1>3
  <2>2. QED
    BY <1>1, <1>2
<1>5. used \in at + 1 .. Block /\ (crowded <=> at + 2 * WordSize >= Block)
  <2> HIDE DEF at
  <2>1. QED
    BY <1>2, WordInUse
<1>6. /\ hi = (8 * fed) \div Modulus[kind] /\ lo = (8 * fed) % Modulus[kind]
      /\ hi \in Nat /\ lo \in Nat
  <2> DEFINE q == (8 * fed) \div Modulus[kind]
             m == Modulus[kind]
  <2>1. /\ m \in Nat \ {0} /\ q \in Nat /\ lo = (8 * fed) % Modulus[kind] /\ lo \in Nat
        /\ kind = "sha512" => q = 0
        /\ kind # "sha512" => q \in 0 .. m - 1
    BY <1>1, <1>2, BitCount
  <2>2. hi = IF kind = "sha256" THEN q % m ELSE 0
    BY <1>2
  <2> HIDE DEF q, m, hi, lo
  <2>3. hi = q
    <3>1. CASE kind = "sha512"
      BY <2>1, <2>2, <3>1
    <3>2. CASE kind = "sha256"
      BY <2>1, <2>2, <3>2, ModSmall
    <3>3. QED
      BY <3>1, <3>2
  <2>4. QED
    BY <2>1, <2>3 DEF q, m
<1>7. hash' = Compress(IF crowded THEN Compress(hash, padded) ELSE hash, last) /\ message' = last
  BY DEF FinalizeSha2
<1> HIDE DEF hi, lo, word
<1>8. mark \in Seq(Byte) /\ Len(mark) = used - at /\ \A i \in 1 .. used - at : mark[i] = IF i = 1 THEN "80" ELSE 0
  <2>1. used - at - 1 \in Nat /\ (used - at - 1) + 1 = used - at
    BY <1>2, <1>5
  <2>2. mark = <<"80">> \o Zeros(used - at - 1)
    OBVIOUS
  <2> HIDE DEF mark, used
  <2>3. mark \in Seq(Byte) /\ Len(mark) = (used - at - 1) + 1 /\ \A i \in 1 .. (used - at - 1) + 1 : mark[i] = IF i = 1 THEN "80" ELSE 0
    BY <2>1, <2>2, MarkFacts
  <2>4. QED
    BY <2>1, <2>3
<1> HIDE DEF mark, used, crowded
<1>9. zeros \in Seq(Byte) /\ Len(zeros) = Block - used /\ \A i \in 1 .. Block - used : zeros[i] = 0
  <2>1. Block - used \in Nat
    BY <1>1, <1>2, <1>5
  <2>2. QED
    BY <2>1, ZerosFacts
<1> HIDE DEF zeros, at
<1>10. marked \in [1 .. Block -> Byte] /\ \A i \in 1 .. Block : marked[i] = IF at < i /\ i <= used THEN (IF i = at + 1 THEN "80" ELSE 0) ELSE message[i]
  <2>1. at \in Nat
    BY <1>2
  <2>2. marked \in [1 .. Block -> Byte] /\ \A i \in 1 .. Block : marked[i] = IF at < i /\ i <= at + Len(mark) THEN mark[i - at] ELSE message[i]
    BY <1>3, <1>8, <2>1, CopyFacts, Zenon
  <2>3. at + Len(mark) = used
    BY <1>2, <1>5, <1>8
  <2>4. \A i \in 1 .. Block : at < i /\ i <= used => mark[i - at] = IF i = at + 1 THEN "80" ELSE 0
    <3> SUFFICES ASSUME NEW i \in 1 .. Block, at < i, i <= used PROVE mark[i - at] = IF i = at + 1 THEN "80" ELSE 0
      OBVIOUS
    <3>1. i - at \in 1 .. used - at /\ (i - at = 1 <=> i = at + 1)
      BY <1>1, <1>2, <1>5
    <3>2. QED
      BY <1>8, <3>1
  <2> HIDE DEF marked
  <2>5. QED
    BY <2>2, <2>3, <2>4
<1> HIDE DEF marked
<1>11. /\ padded \in [1 .. Block -> Byte]
       /\ \A i \in 1 .. Block : padded[i] = IF i <= at THEN message[i] ELSE IF i = at + 1 THEN "80" ELSE 0
  <2>1. used \in Nat
    BY <1>2, <1>5
  <2>2. padded \in [1 .. Block -> Byte] /\ \A i \in 1 .. Block : padded[i] = IF used < i /\ i <= used + Len(zeros) THEN zeros[i - used] ELSE marked[i]
    BY <1>9, <1>10, <2>1, CopyFacts, Zenon
  <2>3. used + Len(zeros) = Block
    BY <1>1, <1>2, <1>5, <1>9
  <2>4. \A i \in 1 .. Block : used < i => zeros[i - used] = 0
    BY <1>1, <1>2, <1>5, <1>9
  <2> HIDE DEF padded
  <2>5. ASSUME NEW i \in 1 .. Block
        PROVE  padded[i] = IF i <= at THEN message[i] ELSE IF i = at + 1 THEN "80" ELSE 0
    <3>1. padded[i] = IF used < i THEN 0 ELSE marked[i]
      BY <2>2, <2>3, <2>4
    <3>2. marked[i] = IF at < i /\ i <= used THEN (IF i = at + 1 THEN "80" ELSE 0) ELSE message[i]
      BY <1>10
    <3>3. QED
      BY <1>2, <1>5, <3>1, <3>2
  <2>6. QED
    BY <2>2, <2>5
<1> HIDE DEF padded
<1>12. base \in [1 .. Block -> Byte] /\ \A i \in 1 .. Block : base[i] = IF crowded THEN 0 ELSE padded[i]
  <2>1. Zeros(Block) \in [1 .. Block -> Byte] /\ \A i \in 1 .. Block : Zeros(Block)[i] = 0
    BY <1>1 DEF Zeros, Byte
  <2>2. QED
    BY <1>11, <2>1
<1> HIDE DEF base
<1>13. bits \in Seq(Byte) /\ Len(bits) = 2 * WordSize /\ \A i \in 1 .. 2 * WordSize : bits[i] = IF i <= WordSize THEN hi ELSE lo
  BY <1>6, BitsFacts
<1> HIDE DEF bits
<1>14. /\ last \in [1 .. Block -> Byte]
       /\ \A i \in 1 .. Block : last[i] = IF i <= Block - 2 * WordSize THEN base[i] ELSE IF i <= Block - WordSize THEN hi ELSE lo
  <2> DEFINE room == Block - 2 * WordSize
  <2>1. room \in Nat /\ room + 2 * WordSize = Block
    BY <1>1
  <2>2. last \in [1 .. Block -> Byte] /\ \A i \in 1 .. Block : last[i] = IF room < i /\ i <= room + Len(bits) THEN bits[i - room] ELSE base[i]
    BY <1>12, <1>13, <2>1, CopyFacts, Zenon
  <2>3. \A i \in 1 .. Block : room < i => bits[i - room] = IF i <= Block - WordSize THEN hi ELSE lo
    BY <1>1, <1>13
  <2> HIDE DEF last
  <2>4. QED
    BY <1>1, <1>13, <2>1, <2>2, <2>3
<1> HIDE DEF last, k
<1>15. last \in Seq(Byte) /\ Len(last) = Block /\ padded \in Seq(Byte) /\ Len(padded) = Block
  BY <1>11, <1>14, BlockSeq
<1> DEFINE T == Total(fed)
<1>16. /\ P \in Seq(Byte) /\ Len(P) = T /\ T % Block = 0
       /\ \A i \in 1 .. T : P[i] = IF i <= fed THEN Data[i]
                                   ELSE IF i = fed + 1 THEN "80"
                                   ELSE IF i <= T - 2 * WordSize THEN 0
                                   ELSE IF i <= T - WordSize THEN hi ELSE lo
  <2>1. P = Stream(fed, hi, lo)
    BY <1>6, PaddedIs
  <2> HIDE DEF P
  <2>2. P \in Seq(Byte) /\ Len(P) = T /\ T % Block = 0
    BY <1>1, <1>6, <2>1, StreamFacts, TotalFacts
  <2>3. QED
    BY <1>1, <2>1, <2>2, TwoWordStream
<1>17. T = IF crowded THEN k + 2 * Block ELSE k + Block
  <2>1. T = IF (fed % Block) + 2 * WordSize < Block THEN (fed - (fed % Block)) + Block ELSE (fed - (fed % Block)) + 2 * Block
    BY <1>1, TotalFacts
  <2>2. at = fed % Block /\ fed - (fed % Block) = k
    BY <1>2 DEF k
  <2> HIDE DEF T
  <2>3. T = IF at + 2 * WordSize < Block THEN k + Block ELSE k + 2 * Block
    BY <2>1, <2>2, Zenon
  <2>4. QED
    BY <1>1, <1>2, <1>5, <2>3
<1> HIDE DEF P, T
\* The bytes of the block that is begun, up to the last two words.
<1>18. \A j \in 1 .. Block : padded[j] = IF k + j <= fed THEN Data[k + j] ELSE IF k + j = fed + 1 THEN "80" ELSE 0
  <2> SUFFICES ASSUME NEW j \in 1 .. Block
               PROVE  padded[j] = IF k + j <= fed THEN Data[k + j] ELSE IF k + j = fed + 1 THEN "80" ELSE 0
    OBVIOUS
  <2>1. (k + j <= fed <=> j <= at) /\ (k + j = fed + 1 <=> j = at + 1)
    BY <1>1, <1>2, <1>4
  <2>2. j <= at => message[j] = Data[k + j]
    BY <1>1, <1>2, <1>3
  <2>3. QED
    BY <1>11, <2>1, <2>2
<1>19. CASE ~ crowded
  <2>1. hash' = Compress(hash, last) /\ T = k + Block
    BY <1>7, <1>17, <1>19
  <2>2. hash' \in Seq(Byte) /\ Len(hash') = T /\ \A i \in 1 .. T : hash'[i] = IF i <= k THEN hash[i] ELSE last[i - k]
    <3>1. hash \in Seq(Byte) /\ Len(hash) = k
      BY <1>3
    <3>2. last \in Seq(Byte) /\ Len(last) = Block
      BY <1>15
    <3>3. QED
      BY ONLY <3>1, <3>2, <2>1, Joined
  <2>3. ASSUME NEW i \in 1 .. T PROVE hash'[i] = P[i]
    <3>1. CASE i <= k
      <4>1. hash'[i] = Data[i] /\ i \in 1 .. T /\ i <= fed
        BY <1>2, <1>3, <1>4, <2>2, <3>1
      <4>2. QED
        BY <1>16, <4>1
    <3>2. CASE k < i
      <4> DEFINE j == i - k
      <4>1. j \in 1 .. Block /\ i = k + j
        BY <1>1, <1>4, <2>1, <3>2
      <4>2. hash'[i] = last[j]
        BY <2>2, <3>2, <1>4
      <4> HIDE DEF j
      <4>3. CASE j <= Block - 2 * WordSize
        <5>1. last[j] = padded[j]
          BY <1>12, <1>14, <1>19, <4>1, <4>3
        <5>2. i <= T - 2 * WordSize
          BY <1>1, <1>4, <2>1, <4>1, <4>3
        <5>3. QED
          BY <1>16, <1>18, <4>1, <4>2, <5>1, <5>2
      <4>4. CASE ~ j <= Block - 2 * WordSize
        <5>1. ~ i <= T - 2 * WordSize /\ (i <= T - WordSize <=> j <= Block - WordSize) /\ ~ i <= fed + 1
          BY <1>1, <1>2, <1>4, <1>5, <1>19, <2>1, <4>1, <4>4
        <5>2. last[j] = IF j <= Block - WordSize THEN hi ELSE lo
          BY <1>14, <4>1, <4>4
        <5>3. P[i] = IF i <= T - WordSize THEN hi ELSE lo
          BY <1>1, <1>16, <5>1
        <5>4. QED
          BY <4>2, <5>1, <5>2, <5>3
      <4>5. QED
        BY <4>3, <4>4
    <3>3. QED
      BY <1>4, <2>1, <3>1, <3>2
  <2>4. hash' = P
    BY <1>16, <2>2, <2>3, SeqEqual
  <2>5. QED
    BY <1>7, <1>14, <1>16, <2>2, <2>4 DEF P
<1>20. CASE crowded
  <2> DEFINE h == Compress(hash, padded)
  <2>1. hash' = Compress(h, last) /\ T = k + 2 * Block
    BY <1>7, <1>17, <1>20
  <2>2. h \in Seq(Byte) /\ Len(h) = k + Block /\ \A i \in 1 .. k + Block : h[i] = IF i <= k THEN hash[i] ELSE padded[i - k]
    <3>1. hash \in Seq(Byte) /\ Len(hash) = k
      BY <1>3
    <3>2. padded \in Seq(Byte) /\ Len(padded) = Block
      BY <1>15
    <3>3. QED
      BY ONLY <3>1, <3>2, Joined
  <2> HIDE DEF h
  <2>3. (k + Block) + Block = T
    BY <1>1, <1>4, <2>1
  <2>4. hash' \in Seq(Byte) /\ Len(hash') = T /\ \A i \in 1 .. T : hash'[i] = IF i <= k + Block THEN h[i] ELSE last[i - (k + Block)]
    <3>1. h \in Seq(Byte) /\ Len(h) = k + Block
      BY <2>2
    <3>2. last \in Seq(Byte) /\ Len(last) = Block
      BY <1>15
    <3>3. /\ hash' \in Seq(Byte) /\ Len(hash') = (k + Block) + Block
          /\ \A i \in 1 .. (k + Block) + Block : hash'[i] = IF i <= k + Block THEN h[i] ELSE last[i - (k + Block)]
      BY ONLY <3>1, <3>2, <2>1, Joined
    <3>4. QED
      BY <2>3, <3>3, Zenon
  <2>5. ASSUME NEW i \in 1 .. T PROVE hash'[i] = P[i]
    <3>1. CASE i <= k
      <4>1. hash'[i] = h[i] /\ h[i] = hash[i] /\ i \in 1 .. T /\ i \in 1 .. k /\ i <= fed
        BY <1>1, <1>2, <1>4, <2>2, <2>4, <3>1
      <4>2. hash[i] = Data[i]
        BY <1>3, <4>1
      <4>3. QED
        BY <1>16, <4>1, <4>2
    <3>2. CASE k < i /\ i <= k + Block
      <4> DEFINE j == i - k
      <4>1. j \in 1 .. Block /\ i = k + j
        BY <1>1, <1>4, <3>2
      <4>2. hash'[i] = padded[j]
        BY <1>1, <1>4, <2>2, <2>4, <3>2
      <4> HIDE DEF j
      <4>3. i <= T - 2 * WordSize
        BY <1>1, <1>4, <2>1, <3>2
      <4>4. QED
        BY <1>16, <1>18, <4>1, <4>2, <4>3
    <3>3. CASE k + Block < i
      <4> DEFINE j == i - (k + Block)
      <4>1. j \in 1 .. Block /\ i = k + Block + j
        BY <1>1, <1>4, <2>1, <3>3
      <4>2. hash'[i] = last[j]
        BY <1>1, <1>4, <2>4, <3>3
      <4> HIDE DEF j
      <4>3. ~ i <= fed + 1 /\ (i <= T - 2 * WordSize <=> j <= Block - 2 * WordSize) /\ (i <= T - WordSize <=> j <= Block - WordSize)
        BY <1>1, <1>2, <1>4, <2>1, <4>1
      <4>4. last[j] = IF j <= Block - 2 * WordSize THEN 0 ELSE IF j <= Block - WordSize THEN hi ELSE lo
        BY <1>12, <1>14, <1>20, <4>1
      <4>5. P[i] = IF i <= T - 2 * WordSize THEN 0 ELSE IF i <= T - WordSize THEN hi ELSE lo
        BY <1>1, <1>16, <4>3
      <4>6. QED
        BY <4>2, <4>3, <4>4, <4>5
    <3>4. QED
      BY <1>1, <1>4, <2>1, <3>1, <3>2, <3>3
  <2>6. hash' = P
    BY <1>16, <2>4, <2>5, SeqEqual
  <2>7. QED
    BY <1>7, <1>14, <1>16, <2>4, <2>6 DEF P
<1>21. QED
  BY <1>19, <1>20

\* The low word of the length of SM3, and the high one when length has been
\* counted on by high.
Sm3Low == (8 * length) % Modulus[kind]
Sm3High == ((length \div (Modulus[kind] \div 8)) + 8 * high) % Modulus[kind]

\* They are the two words of the number of bits.
LEMMA Sm3Words ==
  ASSUME IInv, phase = "open", kind = "sm3"
  PROVE  /\ Sm3Low \in Nat /\ Sm3High \in Nat
         /\ Sm3Low = (8 * fed) % Modulus[kind]
         /\ high = fed \div Modulus[kind] => Sm3High = (8 * fed) \div Modulus[kind]
<1> DEFINE M == Modulus[kind]
           e == M \div 8
           q == fed \div M
           b == length \div e
           r == length % e
           u == 8 * length
           v == 8 * fed
<1>1. /\ M \in Nat \ {0} /\ M % 8 = 0 /\ fed \in Nat /\ fed \in 0 .. Len(Data) /\ high \in Nat
      /\ length = fed % M /\ kind \in Kinds
  BY ModulusFacts, DataFacts DEF IInv, Counted
<1>2. v \in Nat /\ v \div M \in 0 .. M - 1 /\ v % M \in Nat
  BY <1>1, BitCount
<1>3. e \in Nat \ {0} /\ M = 8 * e
  <2> HIDE DEF M
  <2>1. e \in Nat /\ M = 8 * e + (M % 8)
    BY <1>1
  <2> HIDE DEF e
  <2>2. QED
    BY <1>1, <2>1
<1>4. q \in Nat /\ length \in 0 .. M - 1 /\ fed = M * q + length
  BY <1>1, DivMod
<1> HIDE DEF M, e, q
<1>5. length \in Nat /\ b \in Nat /\ r \in 0 .. e - 1 /\ length = e * b + r
  <2>1. length \in Nat
    BY <1>1, <1>4
  <2>2. QED
    BY <1>3, <2>1, DivMod
<1> HIDE DEF b, r
<1>6. u \in Nat /\ u \div M = b /\ u % M \in Nat
  <2>1. M * b = 8 * (e * b) /\ e * b \in Nat
    BY <1>3, <1>5
  <2>2. u = M * b + 8 * r /\ 8 * r \in Nat /\ 8 * r < M
    BY <1>3, <1>5, <2>1
  <2>3. u \in Nat
    BY <1>5
  <2>4. Split(u, M, b, 8 * r)
    BY <1>5, <2>2 DEF Split
  <2> HIDE DEF u
  <2>5. u \div M = b
    BY <1>1, <2>2, <2>3, <2>4, DivIs
  <2>6. u % M \in Nat
    BY <1>1, <2>3, DivMod
  <2>7. QED
    BY <2>3, <2>5, <2>6
<1>7. v % M = u % M /\ v \div M = 8 * q + b
  <2> DEFINE x == 8 * q
  <2>1. M * x = 8 * (M * q) /\ M * q \in Nat /\ x \in Nat
    BY <1>1, <1>4
  <2>2. v = M * x + u
    BY <1>1, <1>4, <1>5, <2>1
  <2> HIDE DEF u, v, x
  <2>3. Split(v, M, x, u)
    BY <1>6, <2>1, <2>2 DEF Split
  <2>4. v % M = u % M /\ v \div M = x + (u \div M)
    <3>1. v \in Nat /\ M \in Nat \ {0}
      BY <1>1, <1>2
    <3>2. QED
      BY ONLY <2>3, <3>1, ModShift
  <2>5. QED
    BY <1>6, <2>4 DEF x
<1>8. Sm3Low = v % M
  BY <1>7 DEF Sm3Low, M, u
<1>9. Sm3High = (b + 8 * high) % M
  BY DEF Sm3High, b, e, M
<1>10. Sm3High \in Nat
  <2> DEFINE c == b + 8 * high
  <2>1. c \in Nat
    BY <1>1, <1>5
  <2> HIDE DEF c
  <2>2. c % M \in Nat
    BY <1>1, <2>1, DivMod
  <2>3. QED
    BY <1>9, <2>2 DEF c
<1>11. ASSUME high = fed \div Modulus[kind] PROVE Sm3High = v \div M
  <2>1. high = q
    BY <1>11 DEF q, M
  <2>2. b + 8 * high = v \div M
    BY <1>4, <1>5, <1>7, <2>1
  <2> DEFINE w == v \div M
  <2>3. w \in 0 .. M - 1
    BY <1>2
  <2> HIDE DEF w
  <2>4. w % M = w
    BY <1>1, <2>3, ModSmall
  <2>5. QED
    BY <1>9, <2>2, <2>4 DEF w
<1>12. QED
  BY <1>2, <1>8, <1>10, <1>11 DEF M, v

\* SM3: the digest is the message, the mark and the zeros, and the two words.
LEMMA Sm3Digest ==
  ASSUME IInv, phase = "open", kind = "sm3", FinalizeSm3
  PROVE  /\ hash' = Stream(fed, Sm3High, Sm3Low) /\ message' \in [1 .. Block -> Byte]
         /\ hash' \in Seq(Byte) /\ Len(hash') % Block = 0
         /\ length' \in 0 .. Modulus[kind] - 1 /\ high' \in Nat
<1> DEFINE last == length % Block
           room == Block - 2 * WordSize
           padn == IF last < room THEN room - last ELSE Block + room - last
           s1 == <<"80">> \o Zeros(padn - 1)
           padded == Fill(hash, message, last, s1, TRUE)
           s2 == Word(Sm3High) \o Word(Sm3Low)
           new == Fill(padded.hash, padded.message, (last + padn) % Block, s2, TRUE)
           D == Stream(fed, Sm3High, Sm3Low)
           T == Total(fed)
           at == fed % Block
           k == fed - at
<1>1. /\ Block \in Nat \ {0} /\ WordSize \in Nat \ {0} /\ 2 * WordSize < Block
      /\ fed \in 0 .. Len(Data) /\ fed \in Nat /\ kind \in Kinds /\ kind # "sha3"
  BY BlockFacts, DataFacts DEF IInv
<1>2. last = at /\ at \in 0 .. Block - 1
  BY <1>1, IndexIs, DivMod
<1>3. hash' = new.hash /\ message' = new.message
  BY DEF FinalizeSm3, Feed, Sm3High, Sm3Low
<1>4. Sm3Low \in Nat /\ Sm3High \in Nat
  BY Sm3Words
<1>5. Held(hash, message, Data, fed)
  BY DEF IInv
<1>6. padn \in 1 .. Block /\ last + padn = IF at < room THEN room ELSE Block + room
  BY <1>1, <1>2
<1>7. T \in Nat /\ T % Block = 0 /\ T = (fed + padn) + 2 * WordSize
  <2>1. T = IF at + 2 * WordSize < Block THEN k + Block ELSE k + 2 * Block
    BY <1>1, TotalFacts
  <2>2. T \in Nat /\ T % Block = 0
    BY <1>1, TotalFacts
  <2>3. k \in Int /\ k + at = fed /\ at \in 0 .. Block - 1
    BY <1>1, <1>2
  <2>4. padn = IF at < room THEN room - at ELSE Block + room - at
    BY <1>2
  <2> HIDE DEF T, k, at, last, padn
  <2>5. T = (fed + padn) + 2 * WordSize
    BY <1>1, <2>1, <2>3, <2>4
  <2>6. QED
    BY <2>2, <2>5
<1>8. D \in Seq(Byte) /\ Len(D) = T
  BY <1>1, <1>4, StreamFacts
<1>9. \A i \in 1 .. T : D[i] = IF i <= fed THEN Data[i]
                               ELSE IF i = fed + 1 THEN "80"
                               ELSE IF i <= T - 2 * WordSize THEN 0
                               ELSE IF i <= T - WordSize THEN Sm3High ELSE Sm3Low
  BY <1>1, TwoWordStream
<1> HIDE DEF D, T, Sm3High, Sm3Low, k
<1>10. Held(hash, message, D, fed)
  <2>1. /\ hash \in Seq(Byte) /\ message \in [1 .. Block -> Byte] /\ Len(hash) = fed - at
        /\ \A i \in 1 .. Len(hash) : hash[i] = Data[i]
        /\ \A i \in 1 .. at : message[i] = Data[Len(hash) + i]
    BY <1>5 DEF Held
  <2>2. \A i \in 1 .. fed : D[i] = Data[i]
    <3>1. fed <= T
      BY <1>1, <1>6, <1>7
    <3>2. \A i \in 1 .. fed : i \in 1 .. T /\ i <= fed
      BY <1>1, <1>7, <3>1
    <3>3. QED
      BY <1>9, <3>2
  <2>3. Len(hash) \in Nat /\ Len(hash) + at = fed /\ at \in Nat
    BY <1>1, <1>2, <2>1
  <2>4. \A i \in 1 .. Len(hash) : hash[i] = D[i]
    <3>1. \A i \in 1 .. Len(hash) : i \in 1 .. fed
      BY ONLY <2>3, fed \in Nat
    <3>2. QED
      BY <2>1, <2>2, <3>1
  <2>5. \A i \in 1 .. at : message[i] = D[Len(hash) + i]
    <3>1. \A i \in 1 .. at : Len(hash) + i \in 1 .. fed
      BY ONLY <2>3, fed \in Nat
    <3>2. QED
      BY <2>1, <2>2, <3>1
  <2>6. QED
    BY <2>1, <2>4, <2>5, Zenon DEF Held
<1>11. s1 \in Seq(Byte) /\ Len(s1) = padn /\ \A i \in 1 .. Len(s1) : s1[i] = D[fed + i]
  <2>1. padn - 1 \in Nat /\ (padn - 1) + 1 = padn
    BY <1>6
  <2> HIDE DEF padn
  <2>2. s1 \in Seq(Byte) /\ Len(s1) = (padn - 1) + 1 /\ \A i \in 1 .. (padn - 1) + 1 : s1[i] = IF i = 1 THEN "80" ELSE 0
    BY <2>1, MarkFacts
  <2> HIDE DEF s1
  <2>3. ASSUME NEW i \in 1 .. padn PROVE D[fed + i] = IF i = 1 THEN "80" ELSE 0
    <3> DEFINE j == fed + i
    <3>1. j \in 1 .. T /\ ~ j <= fed /\ (j = fed + 1 <=> i = 1) /\ j <= T - 2 * WordSize
      BY <1>1, <1>6, <1>7
    <3> HIDE DEF j
    <3>2. D[j] = IF i = 1 THEN "80" ELSE 0
      BY <1>9, <3>1
    <3>3. QED
      BY <3>2 DEF j
  <2>4. QED
    BY <2>1, <2>2, <2>3
<1> HIDE DEF s1
<1>12. Held(padded.hash, padded.message, D, fed + padn)
  <2>1. Held(padded.hash, padded.message, D, fed + Len(s1))
    BY <1>1, <1>2, <1>10, <1>11, FillHeld
  <2> HIDE DEF padded, padn
  <2>2. QED
    BY <1>11, <2>1
<1>13. s2 \in Seq(Byte) /\ Len(s2) = 2 * WordSize /\ \A i \in 1 .. Len(s2) : s2[i] = D[(fed + padn) + i]
  <2>1. s2 \in Seq(Byte) /\ Len(s2) = 2 * WordSize /\ \A i \in 1 .. 2 * WordSize : s2[i] = IF i <= WordSize THEN Sm3High ELSE Sm3Low
    BY <1>4, BitsFacts
  <2> HIDE DEF s2, padn
  <2>2. ASSUME NEW i \in 1 .. 2 * WordSize PROVE D[(fed + padn) + i] = IF i <= WordSize THEN Sm3High ELSE Sm3Low
    <3> DEFINE j == (fed + padn) + i
    <3>1. j \in 1 .. T /\ ~ j <= fed + 1 /\ ~ j <= T - 2 * WordSize /\ (j <= T - WordSize <=> i <= WordSize)
      BY <1>1, <1>6, <1>7
    <3> HIDE DEF j
    <3>2. D[j] = IF i <= WordSize THEN Sm3High ELSE Sm3Low
      BY <1>1, <1>9, <3>1
    <3>3. QED
      BY <3>2 DEF j
  <2>3. QED
    BY <2>1, <2>2
<1> HIDE DEF s2
<1>14. (last + padn) % Block = (fed + padn) % Block
  <2>1. padn \in Nat
    BY <1>1, <1>6
  <2> HIDE DEF padn
  <2>2. (fed + padn) % Block = (at + padn) % Block
    BY <1>1, <2>1, ModStep, Zenon
  <2> HIDE DEF last, at
  <2>3. QED
    BY <1>2, <2>2
<1>15. Held(new.hash, new.message, D, T)
  <2>1. fed + padn \in Nat
    BY <1>1, <1>6
  <2> DEFINE n == fed + padn
  <2>2. new = Fill(padded.hash, padded.message, n % Block, s2, TRUE)
    BY <1>14
  <2> HIDE DEF padded, new, padn
  <2>3. n \in Nat /\ Held(padded.hash, padded.message, D, n) /\ \A i \in 1 .. Len(s2) : s2[i] = D[n + i]
    BY <1>12, <1>13, <2>1
  <2> HIDE DEF n
  <2>4. Held(new.hash, new.message, D, n + Len(s2))
    BY <1>13, <2>2, <2>3, FillHeld
  <2>5. n + Len(s2) = T
    BY <1>7, <1>13 DEF n
  <2>6. QED
    BY <2>4, <2>5
<1>16. /\ hash' \in Seq(Byte) /\ message' \in [1 .. Block -> Byte] /\ Len(hash') = T
       /\ \A i \in 1 .. Len(hash') : hash'[i] = D[i]
  <2> HIDE DEF new
  <2>1. /\ hash' \in Seq(Byte) /\ message' \in [1 .. Block -> Byte] /\ Len(hash') = T - (T % Block)
        /\ \A i \in 1 .. Len(hash') : hash'[i] = D[i]
    BY <1>3, <1>15 DEF Held
  <2>2. T - (T % Block) = T
    BY <1>7
  <2>3. QED
    BY <2>1, <2>2
<1>17. hash' = D
  BY <1>8, <1>16, SeqEqual
<1>18. length' \in 0 .. Modulus[kind] - 1
  <2> DEFINE l == length + padn + 2 * WordSize
  <2>1. Modulus[kind] \in Nat \ {0} /\ length \in Nat
    BY <1>1, ModulusFacts DEF IInv
  <2>2. l \in Nat
    <3>1. padn \in Nat
      BY <1>1, <1>6
    <3> HIDE DEF padn
    <3>2. QED
      BY <1>1, <2>1, <3>1
  <2>3. length' = l % Modulus[kind]
    BY DEF FinalizeSm3
  <2> HIDE DEF l
  <2>4. QED
    BY <2>1, <2>2, <2>3, DivMod
<1>19. high' \in Nat
  <2>1. high' = high + Carry(length, padn) + Carry((length + padn) % Modulus[kind], 2 * WordSize)
    BY DEF FinalizeSm3
  <2>2. \A x, y : Carry(x, y) \in {0, 1}
    BY DEF Carry
  <2>3. high \in Nat
    BY DEF IInv
  <2> HIDE DEF padn
  <2>4. QED
    BY <2>1, <2>2, <2>3
<1>20. QED
  BY <1>7, <1>16, <1>17, <1>18, <1>19 DEF D

\* Finalize keeps the invariant.
LEMMA FinalizeKeeps == ASSUME IInv, Finalize PROVE IInv'
<1>1. kind' = kind /\ fed' = fed /\ phase = "open" /\ phase' = "done"
  BY DEF Finalize
<1>2. /\ hash' \in Seq(Byte) /\ Len(hash') % Block = 0 /\ message' \in [1 .. Block -> Byte]
      /\ length' \in Nat /\ high' \in Nat
      /\ kind = "sha3" => length' < Block
      /\ kind = "sm3" => length' < Modulus[kind]
  <2>1. CASE kind \in {"sha256", "sha512"}
    <3>1. FinalizeSha2
      BY <2>1 DEF Finalize
    <3>2. length' = length /\ high' = high
      BY <3>1 DEF FinalizeSha2
    <3>3. QED
      BY <1>1, <2>1, <3>1, <3>2, Sha2Digest DEF IInv
  <2>2. CASE kind = "sha3"
    <3>1. FinalizeSha3
      BY <2>2 DEF Finalize
    <3>2. length' = length /\ high' = high
      BY <3>1 DEF FinalizeSha3
    <3>3. QED
      BY <1>1, <2>2, <3>1, <3>2, Sha3Digest DEF IInv
  <2>3. CASE kind = "sm3"
    <3>1. FinalizeSm3
      BY <2>3 DEF Finalize
    <3>2. Modulus[kind] \in Nat
      BY ModulusFacts DEF IInv
    <3>3. QED
      BY <1>1, <2>3, <3>1, <3>2, Sm3Digest
  <2>4. QED
    BY <2>1, <2>2, <2>3, KindsAssumption DEF IInv
<1>3. kind \in Kinds /\ fed \in 0 .. Len(Data)
  BY DEF IInv
<1>4. QED
  BY <1>1, <1>2, <1>3 DEF IInv

\* Every step keeps it.
LEMMA IInvKept == IInv /\ [Next]_vars => IInv'
<1> SUFFICES ASSUME IInv, [Next]_vars PROVE IInv'
  OBVIOUS
<1>1. CASE Initialize
  BY <1>1, InitializeKeeps
<1>2. CASE \E n \in 0 .. Lesser(MaxPiece[kind], Len(Data) - fed), aligned \in BOOLEAN : Update(n, aligned)
  BY <1>2, UpdateKeeps
<1>3. CASE Finalize
  BY <1>3, FinalizeKeeps
<1>4. CASE UNCHANGED vars
  BY <1>4 DEF vars, IInv, Held, Counted
<1>5. QED
  BY <1>1, <1>2, <1>3, <1>4 DEF Next

\* So it always holds.
LEMMA Invariant == Spec => []IInv
BY IInvInit, IInvKept, PTL DEF Spec

-----------------------------------------------------------------------------
(* The theorems                                                            *)

\* Every variable has its type: only whole blocks are compressed, SHA-3 counts
\* within the block, and SM3 within a word.
THEOREM TypeCorrect == Spec => []TypeOK
<1>1. IInv => TypeOK
  BY DEF IInv, TypeOK
<1>2. QED
  BY <1>1, Invariant, PTL

\* However a message is cut into pieces, and on a hasher used before as on a new
\* one, the bytes compressed and those in the block are the bytes fed.
THEOREM NothingIsLost == Spec => []BytesKept
<1>1. ASSUME IInv, phase = "open"
      PROVE  hash \o SubSeq(message, 1, length % Block) = SubSeq(Data, 1, fed)
  <2> DEFINE at == length % Block
             part == SubSeq(message, 1, at)
             whole == SubSeq(Data, 1, fed)
             joined == Compress(hash, part)
  <2>1. at = fed % Block /\ Held(hash, message, Data, fed)
    BY <1>1, IndexIs DEF IInv
  <2>2. Block \in Nat \ {0} /\ fed \in 0 .. Len(Data) /\ fed \in Nat
    BY <1>1, BlockFacts, DataFacts DEF IInv
  <2>3. fed % Block \in 0 .. Block - 1
    BY <2>2, DivMod
  <2>4. /\ hash \in Seq(Byte) /\ message \in [1 .. Block -> Byte] /\ Len(hash) = fed - at
        /\ \A i \in 1 .. Len(hash) : hash[i] = Data[i]
        /\ \A i \in 1 .. at : message[i] = Data[Len(hash) + i]
    BY <2>1 DEF Held
  <2>5. at \in 0 .. Block - 1
    BY <2>1, <2>3
  <2> HIDE DEF at
  <2>6. part \in Seq(Byte) /\ Len(part) = at /\ \A i \in 1 .. at : part[i] = message[i]
    <3>1. message \in Seq(Byte) /\ Len(message) = Block
      BY <2>4, BlockSeq
    <3>2. 1 \in 1 .. Len(message) + 1 /\ at \in 0 .. Len(message) /\ 1 <= at + 1
      BY <2>2, <2>5, <3>1
    <3>3. QED
      BY <2>5, <3>1, <3>2, PieceFacts
  <2>7. whole \in Seq(Byte) /\ Len(whole) = fed /\ \A i \in 1 .. fed : whole[i] = Data[i]
    <3>1. 1 \in 1 .. Len(Data) + 1 /\ fed \in 0 .. Len(Data) /\ 1 <= fed + 1
      BY <2>2, DataFacts
    <3>2. QED
      BY <2>2, <3>1, DataFacts, PieceFacts
  <2> HIDE DEF part, whole
  <2> DEFINE k == fed - at
  <2>8. k \in Nat /\ k + at = fed /\ Len(hash) = k
    BY <2>2, <2>4, <2>5
  <2> HIDE DEF k
  <2>9. /\ joined \in Seq(Byte) /\ Len(joined) = fed
        /\ \A i \in 1 .. fed : joined[i] = IF i <= k THEN hash[i] ELSE part[i - k]
    <3>1. hash \in Seq(Byte) /\ Len(hash) = k
      BY <2>4, <2>8
    <3>2. part \in Seq(Byte) /\ Len(part) = at
      BY <2>6
    <3>3. /\ joined \in Seq(Byte) /\ Len(joined) = k + at
          /\ \A i \in 1 .. k + at : joined[i] = IF i <= k THEN hash[i] ELSE part[i - k]
      BY <3>1, <3>2, Joined
    <3>4. QED
      BY <2>8, <3>3
  <2> HIDE DEF joined
  <2>10. ASSUME NEW i \in 1 .. fed PROVE joined[i] = whole[i]
    <3>1. CASE i <= k
      <4>1. i \in 1 .. Len(hash)
        BY <2>8, <3>1
      <4>2. QED
        BY <2>4, <2>7, <2>9, <3>1, <4>1
    <3>2. CASE ~ i <= k
      <4>1. i - k \in 1 .. at /\ k + (i - k) = i
        BY <2>2, <2>5, <2>8, <3>2
      <4>2. joined[i] = part[i - k]
        BY <2>9, <3>2
      <4>3. QED
        BY <2>4, <2>6, <2>7, <2>8, <4>1, <4>2
    <3>3. QED
      BY <3>1, <3>2
  <2>11. joined = whole
    BY <2>7, <2>9, <2>10, SeqEqual
  <2>12. QED
    BY <2>11 DEF joined, part, whole, at, Compress
<1>2. IInv => BytesKept
  BY <1>1 DEF BytesKept
<1>3. QED
  BY <1>2, Invariant, PTL

\* SM3 counts how often its word has wrapped round, if no piece is longer than
\* the word counts; and the digest is that of the padded message.
DInv == (phase = "open" /\ kind = "sm3" => high = fed \div Modulus[kind]) /\ DigestOfStream

\* The carry of SM3.
LEMMA CarryIs ==
  ASSUME NEW f \in Nat, kind \in Kinds, NEW n \in 0 .. Modulus[kind] - 1
  PROVE  (f + n) \div Modulus[kind] = (f \div Modulus[kind]) + Carry(f % Modulus[kind], n)
<1> DEFINE M == Modulus[kind]
           h == f \div M
           l == f % M
           d == f + n
           e == l + n
<1>1. M \in Nat \ {0}
  BY ModulusFacts
<1> HIDE DEF M
<1>2. h \in Nat /\ l \in 0 .. M - 1 /\ f = M * h + l /\ n \in 0 .. M - 1
  BY <1>1, DivMod DEF M
<1> HIDE DEF h, l
<1>3. n % M = n
  BY <1>1, <1>2, ModSmall
<1>4. M * (h + 1) = M * h + M /\ M * h \in Nat
  BY <1>1, <1>2
<1>5. d \in Nat /\ e \in Nat
  BY <1>1, <1>2
<1>6. CASE e < M
  <2>1. Split(d, M, h, e)
    BY <1>1, <1>2, <1>5 DEF Split
  <2>2. e % M = e
    BY <1>1, <1>5, <1>6, ModSmall
  <2>3. ~ e < n
    BY <1>1, <1>2
  <2> HIDE DEF d
  <2>4. d \div M = h
    BY <1>1, <1>5, <1>6, <2>1, DivIs
  <2>5. Carry(l, n) = 0
    BY <1>3, <2>2, <2>3 DEF Carry, M
  <2>6. QED
    BY <1>2, <2>4, <2>5 DEF d, h, l, M
<1>7. CASE ~ e < M
  <2>1. Split(d, M, h + 1, e - M) /\ Split(e, M, 1, e - M) /\ e - M < M
    BY <1>1, <1>2, <1>4, <1>5, <1>7 DEF Split
  <2>2. e - M < n
    BY <1>1, <1>2
  <2> HIDE DEF d, e
  <2>3. d \div M = h + 1
    BY <1>1, <1>5, <2>1, DivIs
  <2>4. e % M = e - M
    BY <1>1, <1>5, <2>1, DivIs
  <2>5. Carry(l, n) = 1
    BY <1>3, <2>2, <2>4 DEF Carry, M, e
  <2>6. QED
    BY <2>3, <2>5 DEF d, h, l, M
<1>8. QED
  BY <1>6, <1>7

\* Every step keeps the count and the digest right.
LEMMA DInvKept ==
  ASSUME "sm3" \in Kinds => MaxPiece["sm3"] < Modulus["sm3"],
         IInv, DInv, [Next]_vars
  PROVE  DInv'
<1>1. CASE Initialize
  <2>1. phase' = "open" /\ fed' = 0 /\ high' = 0 /\ kind' = kind /\ kind \in Kinds
    BY <1>1 DEF Initialize, IInv
  <2>2. 0 \div Modulus[kind] = 0
    BY <2>1, ModulusFacts
  <2>3. QED
    BY <2>1, <2>2 DEF DInv, DigestOfStream
<1>2. ASSUME NEW n \in 0 .. Lesser(MaxPiece[kind], Len(Data) - fed), NEW aligned \in BOOLEAN, Update(n, aligned)
      PROVE  DInv'
  <2>1. phase = "open" /\ phase' = "open" /\ kind' = kind /\ kind \in Kinds /\ fed' = fed + n
    BY <1>2 DEF Update, IInv
  <2>2. ASSUME kind = "sm3" PROVE high' = (fed + n) \div Modulus[kind]
    <3>1. fed \in 0 .. Len(Data) /\ fed \in Nat /\ length = fed % Modulus[kind] /\ Modulus[kind] \in Nat \ {0} /\ MaxPiece[kind] \in Nat
      BY <2>1, <2>2, DataFacts, ModulusFacts DEF IInv, Counted
    <3>2. n \in 0 .. Modulus[kind] - 1
      BY <2>1, <2>2, <3>1, DataFacts DEF Lesser
    <3>3. high' = high + Carry(length, n) /\ high = fed \div Modulus[kind]
      BY <1>2, <2>1, <2>2 DEF Update, DInv
    <3>4. QED
      BY <2>1, <3>1, <3>2, <3>3, CarryIs
  <2>3. QED
    BY <2>1, <2>2 DEF DInv, DigestOfStream
<1>3. CASE Finalize
  <2>1. kind' = kind /\ fed' = fed /\ phase = "open" /\ phase' = "done" /\ kind \in Kinds
    BY <1>3 DEF Finalize, IInv
  <2>2. CASE kind \in {"sha256", "sha512"}
    <3>1. hash' = Padded(fed)
      BY <1>3, <2>1, <2>2, Sha2Digest DEF Finalize
    <3>2. QED
      BY <2>1, <3>1 DEF DInv, DigestOfStream, Padded
  <2>3. CASE kind = "sha3"
    <3>1. hash' = Padded(fed)
      BY <1>3, <2>1, <2>3, Sha3Digest DEF Finalize
    <3>2. QED
      BY <2>1, <3>1 DEF DInv, DigestOfStream, Padded
  <2>4. CASE kind = "sm3"
    <3>1. hash' = Stream(fed, Sm3High, Sm3Low)
      BY <1>3, <2>1, <2>4, Sm3Digest DEF Finalize
    <3>2. Sm3High = (8 * fed) \div Modulus[kind] /\ Sm3Low = (8 * fed) % Modulus[kind]
      BY <2>1, <2>4, Sm3Words DEF DInv
    <3>3. hash' = Padded(fed)
      BY <3>1, <3>2, PaddedIs
    <3>4. QED
      BY <2>1, <3>3 DEF DInv, DigestOfStream, Padded
  <2>5. QED
    BY <2>1, <2>2, <2>3, <2>4, KindsAssumption
<1>4. CASE UNCHANGED vars
  BY <1>4 DEF vars, DInv, DigestOfStream, Padded
<1>5. QED
  BY <1>1, <1>2, <1>3, <1>4 DEF Next

\* The digest is that of the message fed, padded as the standard says, however it
\* was cut and whatever the hasher was used for before; the counter of SM3 needs
\* pieces that one word of it counts.
THEOREM DigestIsOfStream ==
  ASSUME "sm3" \in Kinds => MaxPiece["sm3"] < Modulus["sm3"]
  PROVE  Spec => []DigestOfStream
<1>1. Init => DInv
  BY DEF Init, DInv, DigestOfStream
<1>2. IInv /\ DInv /\ [Next]_vars => DInv'
  BY DInvKept
<1>3. DInv => DigestOfStream
  BY DEF DInv
<1>4. QED
  BY <1>1, <1>2, <1>3, Invariant, PTL DEF Spec
=============================================================================
