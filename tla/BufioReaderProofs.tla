------------------------- MODULE BufioReaderProofs -------------------------
(***************************************************************************)
(* For any file, buffer and sequence of calls that stay within the file, a *)
(* Reader hands over the bytes of the file in order.  The proviso is what  *)
(* the run BufioReader_eof drops.                                          *)
(***************************************************************************)
EXTENDS BufioReader, SequenceTheorems, TLAPS

\* The bytes handed over, one by one.
Prefix == Len(out) <= Len(File) /\ \A i \in 1 .. Len(out) : out[i] = File[i]

\* The calls in progress stay within the file.
Within == Len(out) + want <= Len(File)

IInv == TypeOK /\ Prefix /\ Within /\ HandleAhead /\ BufferAhead

-----------------------------------------------------------------------------
\* Bytes f to l of a memory, when they are those of the file from k + 1 on.
LEMMA Slice ==
  ASSUME NEW mem, NEW f \in Nat \ {0}, NEW l \in Nat, f <= l + 1, NEW k \in Nat,
         k + (l + 1 - f) <= Len(File),
         \A i \in f .. l : mem[i] = File[k + (i + 1 - f)]
  PROVE  /\ SubSeq(mem, f, l) \in Seq(Nat) /\ Len(SubSeq(mem, f, l)) = l + 1 - f
         /\ \A i \in 1 .. l + 1 - f : SubSeq(mem, f, l)[i] = File[k + i]
<1> DEFINE s == SubSeq(mem, f, l)
<1>1. Len(File) \in Nat /\ \A i \in 1 .. Len(File) : File[i] \in Nat
  BY FileAssumption, LenProperties, ElementOfSeq
<1>2. \A i \in f .. l : mem[i] \in Nat
  <2> SUFFICES ASSUME NEW i \in f .. l PROVE mem[i] \in Nat
    OBVIOUS
  <2>1. k + (i + 1 - f) \in 1 .. Len(File)
    BY <1>1
  <2>2. QED
    BY <1>1, <2>1
<1>3. /\ s \in Seq(Nat) /\ Len(s) = IF f <= l THEN l - f + 1 ELSE 0
      /\ \A i \in 1 .. l - f + 1 : s[i] = mem[f + i - 1]
  BY <1>2, SubSeqProperties, f \in Int, l \in Int
<1> HIDE DEF s
<1>4. Len(s) = l + 1 - f
  BY <1>3
<1>5. ASSUME NEW i \in 1 .. l + 1 - f PROVE s[i] = File[k + i]
  <2>1. i \in 1 .. l - f + 1 /\ f + i - 1 \in f .. l /\ (f + i - 1) + 1 - f = i
    OBVIOUS
  <2>2. s[i] = mem[f + i - 1] /\ mem[f + i - 1] = File[k + ((f + i - 1) + 1 - f)]
    BY <1>3, <2>1
  <2>3. QED
    BY <2>1, <2>2
<1>6. QED
  BY <1>3, <1>4, <1>5 DEF s

\* The first bytes of a memory, when they are those of the file from k + 1 on.
LEMMA FirstSlice ==
  ASSUME NEW mem, NEW l \in Nat, NEW k \in Nat, k + l <= Len(File),
         \A i \in 1 .. l : mem[i] = File[k + i]
  PROVE  /\ SubSeq(mem, 1, l) \in Seq(Nat) /\ Len(SubSeq(mem, 1, l)) = l
         /\ \A i \in 1 .. l : SubSeq(mem, 1, l)[i] = File[k + i]
<1> DEFINE s == SubSeq(mem, 1, l)
<1>1. \A i \in 1 .. l : mem[i] \in Nat
  <2> SUFFICES ASSUME NEW i \in 1 .. l PROVE mem[i] \in Nat
    OBVIOUS
  <2>1. Len(File) \in Nat /\ \A j \in 1 .. Len(File) : File[j] \in Nat
    BY FileAssumption, LenProperties, ElementOfSeq
  <2>2. k + i \in 1 .. Len(File)
    BY <2>1
  <2>3. QED
    BY <2>1, <2>2
<1>2. /\ s \in Seq(Nat) /\ Len(s) = IF 1 <= l THEN l - 1 + 1 ELSE 0
      /\ \A i \in 1 .. l - 1 + 1 : s[i] = mem[1 + i - 1]
  BY <1>1, SubSeqProperties, 1 \in Int, l \in Int
<1> HIDE DEF s
<1>3. Len(s) = l
  BY <1>2
<1>4. ASSUME NEW i \in 1 .. l PROVE s[i] = File[k + i]
  <2>1. i \in 1 .. l - 1 + 1 /\ 1 + i - 1 = i
    OBVIOUS
  <2>2. QED
    BY <1>2, <2>1
<1>5. QED
  BY <1>2, <1>3, <1>4 DEF s

\* The next bytes of the file, handed over, extend the prefix.
LEMMA HandedOver ==
  ASSUME NEW s \in Seq(Nat), out \in Seq(Nat), Prefix,
         Len(out) + Len(s) <= Len(File),
         \A i \in 1 .. Len(s) : s[i] = File[Len(out) + i],
         out' = out \o s
  PROVE  out' \in Seq(Nat) /\ Len(out') = Len(out) + Len(s) /\ Prefix'
<1>1. Len(out) \in Nat /\ Len(s) \in Nat
  BY LenProperties
<1>2. /\ out \o s \in Seq(Nat) /\ Len(out \o s) = Len(out) + Len(s)
      /\ \A i \in 1 .. Len(out) + Len(s) : (out \o s)[i] = IF i <= Len(out) THEN out[i] ELSE s[i - Len(out)]
  BY ConcatProperties
<1>3. \A i \in 1 .. Len(out) + Len(s) : (out \o s)[i] = File[i]
  <2> SUFFICES ASSUME NEW i \in 1 .. Len(out) + Len(s) PROVE (out \o s)[i] = File[i]
    OBVIOUS
  <2>1. CASE i <= Len(out)
    BY <1>1, <1>2, <2>1 DEF Prefix
  <2>2. CASE ~(i <= Len(out))
    <3>1. i - Len(out) \in 1 .. Len(s) /\ Len(out) + (i - Len(out)) = i
      BY <1>1, <2>2
    <3>2. (out \o s)[i] = s[i - Len(out)]
      BY <1>2, <2>2
    <3>3. s[i - Len(out)] = File[Len(out) + (i - Len(out))]
      BY <3>1
    <3>4. QED
      BY <3>1, <3>2, <3>3
  <2>3. QED
    BY <2>1, <2>2
<1>4. QED
  BY <1>2, <1>3 DEF Prefix

\* A call that was given n of the bytes it wants still stays within the file.
LEMMA DoneWithin ==
  ASSUME NEW n \in Nat, want \in Nat, n <= want, full \in BOOLEAN, Done(n),
         Len(out) \in Nat, Within, Len(out') = Len(out) + n
  PROVE  /\ want' \in Nat /\ result' \in {"none", "ok", "failed"}
         /\ Within'
<1>1. Len(File) \in Nat
  BY FileAssumption, LenProperties
<1>2. want' = IF full THEN want - n ELSE 0
  BY DEF Done
<1>3. result' \in {"none", "ok", "failed"}
  BY DEF Done
<1>4. want' \in Nat /\ want' <= want - n
  <2>1. CASE full
    BY <1>2, <2>1
  <2>2. CASE ~full
    BY <1>2, <2>2
  <2>3. QED
    BY <2>1, <2>2
<1>5. Len(out) + want <= Len(File)
  BY DEF Within
<1>6. Len(out') + want' <= Len(File)
  BY <1>1, <1>4, <1>5
<1>7. QED
  BY <1>3, <1>4, <1>6 DEF Within

\* The invariant holds at first.
LEMMA IInvInit == Init => IInv
<1> SUFFICES ASSUME Init PROVE IInv
  OBVIOUS
<1>1. Len(File) \in Nat /\ Len(<<>>) = 0 /\ <<>> \in Seq(Nat)
  BY FileAssumption, LenProperties
<1>2. TypeOK
  <2>1. 0 \in 0 .. Len(File) /\ 0 \in 0 .. Size /\ 0 \in 0 .. 0
    BY <1>1, SizeAssumption
  <2>2. data \in [1 .. Size -> Nat]
    BY DEF Init
  <2>3. offset = 0 /\ w = 0 /\ r = 0 /\ want = 0 /\ full = FALSE /\ out = <<>> /\ result = "none"
    BY DEF Init
  <2>4. QED
    BY <1>1, <2>1, <2>2, <2>3 DEF TypeOK
<1>3. Prefix /\ Within /\ BufferAhead
  BY <1>1 DEF Init, Prefix, Within, BufferAhead
<1>4. HandleAhead
  <2>1. Len(out) = 0 /\ w = 0 /\ r = 0 /\ offset = 0
    BY <1>1 DEF Init
  <2>2. Lesser(Len(File), 0) = 0
    BY <1>1 DEF Lesser
  <2>3. QED
    BY <2>1, <2>2 DEF HandleAhead
<1>5. QED
  BY <1>2, <1>3, <1>4 DEF IInv

\* A call that begins changes nothing but what it wants.
LEMMA AskKeeps ==
  ASSUME WithinFile, IInv, NEW len \in 1 .. MaxAsk, NEW isFull \in BOOLEAN, Ask(len, isFull)
  PROVE  IInv'
<1>1. UNCHANGED <<offset, data, w, r, out>> /\ want' = len /\ full' = isFull /\ result' = "none"
  BY DEF Ask
<1>2. Len(out) + len <= Len(File)
  BY DEF Ask
<1>3. TypeOK'
  BY <1>1, SizeAssumption DEF IInv, TypeOK
<1>4. Prefix' /\ Within' /\ HandleAhead' /\ BufferAhead'
  BY <1>1, <1>2 DEF IInv, Prefix, Within, HandleAhead, BufferAhead, Lesser
<1>5. QED
  BY <1>3, <1>4 DEF IInv

\* A direct read hands over the next bytes of the file and skips the buffer.
LEMMA ReadDirectKeeps == ASSUME WithinFile, IInv, ReadDirect PROVE IInv'
<1>1. /\ Len(File) \in Nat /\ Len(out) \in Nat /\ offset \in Nat /\ want \in Nat /\ r \in Nat /\ w \in Nat
      /\ w <= Size /\ full \in BOOLEAN /\ out \in Seq(Nat) /\ Prefix /\ Within /\ data \in [1 .. Size -> Nat]
  BY FileAssumption, LenProperties, SizeAssumption DEF IInv, TypeOK
<1>2. r = w /\ offset = Len(out) /\ Len(out) + want <= Len(File)
  BY <1>1 DEF IInv, ReadDirect, Fills, HandleAhead, Prefix, Within, Lesser
<1>3. Delivered(want) = want
  BY <1>1, <1>2 DEF Delivered, Lesser
<1> DEFINE mem == Overlay([i \in 1 .. want |-> 0], want)
<1>4. \A i \in 1 .. want : mem[i] = File[Len(out) + i]
  BY <1>1, <1>2 DEF Overlay
<1>5. out' = out \o SubSeq(mem, 1, want) /\ offset' = offset + want /\ Done(want)
  BY <1>1, <1>3 DEF ReadDirect, Reported
<1> HIDE DEF mem
<1>6. out' \in Seq(Nat) /\ Len(out') = Len(out) + want /\ Prefix'
  <2>1. /\ SubSeq(mem, 1, want) \in Seq(Nat) /\ Len(SubSeq(mem, 1, want)) = want
        /\ \A i \in 1 .. want : SubSeq(mem, 1, want)[i] = File[Len(out) + i]
    <3>1. want \in Nat /\ Len(out) \in Nat /\ Len(out) + want <= Len(File)
      BY <1>1, <1>2
    <3>2. QED
      BY ONLY <3>1, <1>4, FirstSlice, Zenon
  <2>2. QED
    <3>1. Len(out) + Len(SubSeq(mem, 1, want)) <= Len(File)
      BY <1>2, <2>1
    <3>2. \A i \in 1 .. Len(SubSeq(mem, 1, want)) : SubSeq(mem, 1, want)[i] = File[Len(out) + i]
      BY <2>1
    <3>3. out' \in Seq(Nat) /\ Len(out') = Len(out) + Len(SubSeq(mem, 1, want)) /\ Prefix'
      BY <1>1, <1>5, <2>1, <3>1, <3>2, HandedOver
    <3>4. QED
      BY <2>1, <3>3
<1>7. want' \in Nat /\ result' \in {"none", "ok", "failed"} /\ Within'
  BY <1>1, <1>5, <1>6, DoneWithin
<1>8. UNCHANGED <<data, w, r, full>>
  BY DEF ReadDirect
<1>9. TypeOK'
  BY <1>1, <1>2, <1>5, <1>6, <1>7, <1>8 DEF TypeOK
<1>10. HandleAhead' /\ BufferAhead'
  BY <1>1, <1>2, <1>5, <1>6, <1>8 DEF HandleAhead, BufferAhead, Lesser
<1>11. QED
  BY <1>6, <1>7, <1>9, <1>10 DEF IInv

\* A fill puts the next bytes of the file in the buffer, as many as there are.
LEMMA FillBufferKeeps == ASSUME WithinFile, IInv, FillBuffer PROVE IInv'
<1> DEFINE n == Delivered(Size)
<1>1. /\ Len(File) \in Nat /\ Len(out) \in Nat /\ offset \in Nat /\ want \in Nat /\ r \in Nat /\ w \in Nat
      /\ Size \in Nat /\ w <= Size /\ want <= Size
      /\ full \in BOOLEAN /\ out \in Seq(Nat) /\ Prefix /\ Within /\ data \in [1 .. Size -> Nat]
  BY FileAssumption, LenProperties, SizeAssumption DEF IInv, TypeOK, FillBuffer
<1>2. r = w /\ offset = Len(out) /\ Len(out) + want <= Len(File)
  BY <1>1 DEF IInv, FillBuffer, Fills, HandleAhead, Prefix, Within, Lesser
<1>3. n \in Nat /\ want <= n /\ n = Lesser(Size, Len(File) - offset)
  BY <1>1, <1>2 DEF Delivered, Lesser
<1>4. /\ data' = Overlay(data, n) /\ w' = Size /\ r' = want
      /\ out' = out \o SubSeq(data', 1, want) /\ offset' = offset + n /\ Done(want)
      /\ full' = full
  BY <1>1 DEF FillBuffer, Reported, Lesser
<1>5. \A i \in 1 .. Size : i <= n => data'[i] = File[Len(out) + i]
  BY <1>1, <1>2, <1>4 DEF Overlay
<1>6. data' \in [1 .. Size -> Nat]
  <2>1. \A i \in 1 .. Size : i <= n => File[offset + i] \in Nat
    <3> SUFFICES ASSUME NEW i \in 1 .. Size, i <= n PROVE File[offset + i] \in Nat
      OBVIOUS
    <3>1. offset + i \in 1 .. Len(File)
      BY <1>1, <1>2, <1>3 DEF Lesser
    <3>2. QED
      BY <3>1, FileAssumption, ElementOfSeq
  <2>2. data' = [i \in 1 .. Size |-> IF i <= n THEN File[offset + i] ELSE data[i]]
    BY <1>1, <1>4 DEF Overlay
  <2>3. QED
    BY <1>1, <2>1, <2>2
<1> HIDE DEF n
<1>7. \A i \in 1 .. want : data'[i] = File[Len(out) + i]
  BY <1>1, <1>3, <1>5
<1>8. out' \in Seq(Nat) /\ Len(out') = Len(out) + want /\ Prefix'
  <2>1. /\ SubSeq(data', 1, want) \in Seq(Nat) /\ Len(SubSeq(data', 1, want)) = want
        /\ \A i \in 1 .. want : SubSeq(data', 1, want)[i] = File[Len(out) + i]
    <3>1. want \in Nat /\ Len(out) \in Nat /\ Len(out) + want <= Len(File)
      BY <1>1, <1>2
    <3>2. QED
      BY ONLY <3>1, <1>7, FirstSlice, Zenon
  <2>2. QED
    <3>1. Len(out) + Len(SubSeq(data', 1, want)) <= Len(File)
      BY <1>2, <2>1
    <3>2. \A i \in 1 .. Len(SubSeq(data', 1, want)) : SubSeq(data', 1, want)[i] = File[Len(out) + i]
      BY <2>1
    <3>3. out' \in Seq(Nat) /\ Len(out') = Len(out) + Len(SubSeq(data', 1, want)) /\ Prefix'
      BY <1>1, <1>4, <2>1, <3>1, <3>2, HandedOver
    <3>4. QED
      BY <2>1, <3>3
<1>9. want' \in Nat /\ result' \in {"none", "ok", "failed"} /\ Within'
  BY <1>1, <1>4, <1>8, DoneWithin
<1>10. TypeOK'
  <2>1. offset' \in 0 .. Len(File)
    BY <1>1, <1>2, <1>3, <1>4 DEF Lesser
  <2>2. w' \in 0 .. Size /\ r' \in 0 .. w'
    BY <1>1, <1>4
  <2>3. full' \in BOOLEAN /\ out' \in Seq(Nat)
    BY <1>1, <1>4, <1>8
  <2> QED BY <1>6, <1>9, <2>1, <2>2, <2>3 DEF TypeOK
<1>11. HandleAhead'
  <2>1. /\ Len(out) \in Nat /\ want \in Nat /\ Size \in Nat /\ Len(File) \in Nat
        /\ Len(out') = Len(out) + want /\ w' = Size /\ r' = want
        /\ offset = Len(out) /\ offset' = offset + n /\ n = Lesser(Size, Len(File) - offset)
    BY <1>1, <1>2, <1>3, <1>4, <1>8
  <2>2. (Len(out) + want) + (Size - want) = Len(out) + Size
    BY <2>1
  <2>3. offset + n = Lesser(Len(File), Len(out) + Size)
    BY <2>1 DEF Lesser
  <2>4. QED
    BY <2>1, <2>2, <2>3 DEF HandleAhead
<1>12. BufferAhead'
  <2> SUFFICES ASSUME NEW i \in want + 1 .. Size, Len(out) + want + (i - want) <= Len(File)
               PROVE  data'[i] = File[Len(out) + want + (i - want)]
    BY <1>4, <1>8 DEF BufferAhead
  <2>1. i \in 1 .. Size /\ i <= n /\ Len(out) + want + (i - want) = Len(out) + i
    BY <1>1, <1>2, <1>3 DEF Lesser
  <2>2. QED
    BY <1>5, <2>1
<1>13. QED
  BY <1>8, <1>9, <1>10, <1>11, <1>12 DEF IInv

\* What the buffer holds is handed over from its start.
LEMMA ReadBufferedKeeps == ASSUME WithinFile, IInv, ReadBuffered PROVE IInv'
<1> DEFINE got == Lesser(w - r, want)
<1>1. /\ Len(File) \in Nat /\ Len(out) \in Nat /\ offset \in Nat /\ want \in Nat /\ r \in Nat /\ w \in Nat
      /\ Size \in Nat /\ w <= Size /\ r <= w
      /\ full \in BOOLEAN /\ out \in Seq(Nat) /\ Prefix /\ Within /\ data \in [1 .. Size -> Nat]
  BY FileAssumption, LenProperties, SizeAssumption DEF IInv, TypeOK
<1>2. got \in Nat /\ got <= w - r /\ got <= want /\ Len(out) + got <= Len(File)
  BY <1>1 DEF Lesser, Within
<1>3. /\ r' = r + got /\ out' = out \o SubSeq(data, r + 1, r + got) /\ Done(got)
      /\ UNCHANGED <<offset, data, w, full>>
  BY DEF ReadBuffered
<1> HIDE DEF got
<1>4. \A i \in r + 1 .. r + got : data[i] = File[Len(out) + (i + 1 - (r + 1))]
  <2> SUFFICES ASSUME NEW i \in r + 1 .. r + got PROVE data[i] = File[Len(out) + (i + 1 - (r + 1))]
    OBVIOUS
  <2>1. i \in r + 1 .. w /\ i - r = i + 1 - (r + 1) /\ Len(out) + (i - r) <= Len(File)
    BY <1>1, <1>2
  <2>2. QED
    BY <2>1 DEF IInv, BufferAhead
<1>5. out' \in Seq(Nat) /\ Len(out') = Len(out) + got /\ Prefix'
  <2>1. r + 1 \in Nat \ {0} /\ r + got \in Nat /\ r + 1 <= r + got + 1 /\ r + got + 1 - (r + 1) = got
    BY <1>1, <1>2
  <2>2. /\ SubSeq(data, r + 1, r + got) \in Seq(Nat) /\ Len(SubSeq(data, r + 1, r + got)) = got
        /\ \A i \in 1 .. got : SubSeq(data, r + 1, r + got)[i] = File[Len(out) + i]
    BY <1>1, <1>2, <1>4, <2>1, Slice
  <2>3. QED
    BY <1>1, <1>2, <1>3, <2>2, HandedOver
<1>6. want' \in Nat /\ result' \in {"none", "ok", "failed"} /\ Within'
  BY <1>1, <1>2, <1>3, <1>5, DoneWithin
<1>7. TypeOK'
  BY <1>1, <1>2, <1>3, <1>5, <1>6 DEF TypeOK, IInv
<1>8. HandleAhead'
  <2>1. (Len(out) + got) + (w - (r + got)) = Len(out) + (w - r)
    BY <1>1, <1>2
  <2>2. HandleAhead /\ offset' = offset /\ w' = w /\ r' = r + got /\ Len(out') = Len(out) + got
    BY <1>3, <1>5 DEF IInv
  <2>3. QED
    BY <2>1, <2>2 DEF HandleAhead
<1>9. BufferAhead'
  <2> SUFFICES ASSUME NEW i \in r + got + 1 .. w, Len(out) + got + (i - (r + got)) <= Len(File)
               PROVE  data[i] = File[Len(out) + got + (i - (r + got))]
    BY <1>3, <1>5 DEF BufferAhead
  <2>1. i \in r + 1 .. w /\ Len(out) + got + (i - (r + got)) = Len(out) + (i - r)
    BY <1>1, <1>2
  <2>2. QED
    BY <2>1 DEF IInv, BufferAhead
<1>10. QED
  BY <1>5, <1>6, <1>7, <1>8, <1>9 DEF IInv

\* A read that fails leaves an empty buffer, or leaves it as empty as it was.
LEMMA ReadFailsKeeps == ASSUME WithinFile, IInv, ReadFails PROVE IInv'
<1>1. /\ Len(File) \in Nat /\ Len(out) \in Nat /\ Size \in Nat /\ want \in Nat /\ r \in Nat /\ w \in Nat /\ w <= Size
      /\ offset \in Nat
  BY FileAssumption, LenProperties, SizeAssumption DEF IInv, TypeOK
<1>2. /\ UNCHANGED <<offset, data, full, out>> /\ want' = 0 /\ result' = "failed" /\ r = w
      /\ w' \in Nat /\ w' <= Size /\ r' = w'
  BY <1>1 DEF ReadFails, Fills
<1>3. TypeOK' /\ Prefix' /\ Within'
  BY <1>1, <1>2 DEF IInv, TypeOK, Prefix, Within
<1>4. HandleAhead'
  <2>1. w' - r' = w - r
    <3>1. \A a \in Nat : a - a = 0
      OBVIOUS
    <3>2. w' - r' = 0
      BY ONLY <1>2, <3>1, Zenon
    <3>3. w - r = 0
      BY ONLY <1>1, <1>2, <3>1, Zenon
    <3>4. QED
      BY <3>2, <3>3
  <2>2. HandleAhead /\ offset' = offset /\ out' = out
    BY <1>2 DEF IInv
  <2>3. QED
    BY <2>1, <2>2 DEF HandleAhead
<1>5. BufferAhead'
  <2>1. \A i \in r' + 1 .. w' : FALSE
    <3>1. \A a \in Nat : \A i \in a + 1 .. a : FALSE
      OBVIOUS
    <3>2. QED
      BY ONLY <1>2, <3>1, Zenon
  <2>2. QED
    BY <2>1 DEF BufferAhead
<1>6. QED
  BY <1>3, <1>4, <1>5 DEF IInv

\* The inductive invariant.
LEMMA IInvHolds == ASSUME WithinFile PROVE Spec => []IInv
<1>1. ASSUME IInv, [Next]_vars PROVE IInv'
  <2>1. CASE \E len \in 1 .. MaxAsk, isFull \in BOOLEAN : Ask(len, isFull)
    BY <1>1, <2>1, AskKeeps
  <2>2. CASE ReadDirect
    BY <1>1, <2>2, ReadDirectKeeps
  <2>3. CASE FillBuffer
    BY <1>1, <2>3, FillBufferKeeps
  <2>4. CASE ReadBuffered
    BY <1>1, <2>4, ReadBufferedKeeps
  <2>5. CASE ReadFails
    BY <1>1, <2>5, ReadFailsKeeps
  <2>6. CASE UNCHANGED vars
    BY <1>1, <2>6 DEF vars, IInv, TypeOK, Prefix, Within, HandleAhead, BufferAhead
  <2>7. QED
    BY <1>1, <2>1, <2>2, <2>3, <2>4, <2>5, <2>6 DEF Next
<1>2. QED
  BY IInvInit, <1>1, PTL DEF Spec

\* The prefix, one by one, is the prefix as a sequence.
LEMMA PrefixIsSubSeq == ASSUME out \in Seq(Nat), Prefix PROVE BytesInOrder
<1>1. Len(out) \in Nat /\ Len(File) \in Nat /\ \A i \in 1 .. Len(File) : File[i] \in Nat
  BY FileAssumption, LenProperties, ElementOfSeq
<1> DEFINE s == SubSeq(File, 1, Len(out))
<1>2. \A i \in 1 .. Len(out) : File[i] \in Nat
  BY <1>1 DEF Prefix
<1>3. /\ s \in Seq(Nat) /\ Len(s) = IF 1 <= Len(out) THEN Len(out) - 1 + 1 ELSE 0
      /\ \A i \in 1 .. Len(out) - 1 + 1 : s[i] = File[1 + i - 1]
  BY <1>1, <1>2, SubSeqProperties, 1 \in Int
<1>4. Len(s) = Len(out) /\ \A i \in 1 .. Len(out) : out[i] = s[i]
  <2>1. Len(s) = Len(out)
    BY <1>1, <1>3
  <2>2. ASSUME NEW i \in 1 .. Len(out) PROVE out[i] = s[i]
    <3>1. s[i] = File[1 + i - 1] /\ 1 + i - 1 = i
      BY <1>1, <1>3
    <3>2. QED
      BY <3>1 DEF Prefix
  <2>3. QED
    BY <2>1, <2>2
<1> HIDE DEF s
<1>5. out = s
  BY <1>3, <1>4, SeqEqual
<1>6. QED
  BY <1>5 DEF BytesInOrder, Prefix, s

\* The bytes a Reader hands over are those of the file in order, for every
\* file, buffer size and sequence of Read and ReadFull within the file.
THEOREM ReaderInOrder == ASSUME WithinFile PROVE Spec => []BytesInOrder
<1>1. IInv => BytesInOrder
  BY PrefixIsSubSeq DEF IInv, TypeOK
<1>2. QED
  BY <1>1, IInvHolds, PTL

\* The indexes stay in the buffer, and the handle is ahead of the callers by
\* the bytes that the buffer holds for them, which are the next of the file.
THEOREM BufferIsAhead == ASSUME WithinFile PROVE Spec => [](TypeOK /\ HandleAhead /\ BufferAhead)
<1>1. IInv => TypeOK /\ HandleAhead /\ BufferAhead
  BY DEF IInv
<1>2. QED
  BY <1>1, IInvHolds, PTL

\* The indexes of the buffer and the types of what is handed over.
THEOREM TypeCorrect == ASSUME WithinFile PROVE Spec => []TypeOK
BY BufferIsAhead, PTL
=============================================================================
