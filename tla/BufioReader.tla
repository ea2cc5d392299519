---------------------------- MODULE BufioReader ----------------------------
(***************************************************************************)
(* bela::bufio::Reader: a file read through a buffer of Size bytes, with   *)
(* Read, which hands over what the buffer has, and ReadFull, which repeats *)
(* Read.  A piece longer than the buffer is read past it when the buffer   *)
(* is used up.                                                             *)
(*                                                                         *)
(* The file and ReadFile are external: ReadFile delivers the bytes asked   *)
(* for, or those that are left.                                            *)
(***************************************************************************)
EXTENDS Naturals, Sequences

CONSTANTS
  File,       \* the bytes of the file
  Size,       \* bytes of the buffer
  MaxAsk,     \* bytes a caller asks for at most (bound)
  WithinFile  \* callers ask for no more than the file has left

ASSUME FileAssumption == File \in Seq(Nat \ {0})
ASSUME SizeAssumption == Size \in Nat \ {0} /\ MaxAsk \in Nat
ASSUME WithinFileAssumption == WithinFile \in BOOLEAN

VARIABLES
  offset,  \* position of the handle in the file
  data,    \* Reader::data; 0 where nothing was read yet
  w, r,    \* Reader::w, Reader::r
  want,    \* bytes the running call still asks for
  full,    \* it is a ReadFull
  out,     \* bytes handed over so far, in all calls
  result   \* how the last call ended

vars == <<offset, data, w, r, want, full, out, result>>

Lesser(a, b) == IF a < b THEN a ELSE b

\* How many bytes ReadFile delivers, and the memory m they are written to.
Delivered(len) == Lesser(len, Len(File) - offset)
Overlay(m, n) == [i \in DOMAIN m |-> IF i <= n THEN File[offset + i] ELSE m[i]]

Init ==
  /\ offset = 0 /\ data = [i \in 1 .. Size |-> 0]
  /\ w = 0 /\ r = 0
  /\ want = 0 /\ full = FALSE /\ out = <<>> /\ result = "none"

\* A call of Read or ReadFull.
Ask(len, isFull) ==
  /\ want = 0
  /\ WithinFile => Len(out) + len <= Len(File)
  /\ want' = len /\ full' = isFull /\ result' = "none"
  /\ UNCHANGED <<offset, data, w, r, out>>

\* fsread: the length it reports is the one asked for, not the one delivered.
Reported(len, delivered) == len

\* n more bytes are handed over: a Read is done, a ReadFull when it has all.
Done(n) == want' = (IF full THEN want - n ELSE 0) /\ result' = (IF full /\ n < want THEN "none" ELSE "ok")

\* Slip: the buffer is filled again while it holds bytes, if they are too few.
FillsEarly == w - r < want

Fills == r = w

ReadDirect ==
  /\ want > 0 /\ Fills /\ want > Size
  /\ LET n == Delivered(want)
     IN  /\ out' = out \o SubSeq(Overlay([i \in 1 .. want |-> 0], n), 1, Reported(want, n))
         /\ offset' = offset + n
         /\ Done(Reported(want, n))
  /\ UNCHANGED <<data, w, r, full>>

\* The buffer is filled; it reports its size, so it is never found empty.
FillBuffer ==
  /\ want > 0 /\ Fills /\ want <= Size
  /\ LET n == Delivered(Size)
         end == Reported(Size, n)
         got == Lesser(end, want)
     IN  /\ data' = Overlay(data, n)
         /\ w' = end /\ r' = got
         /\ out' = out \o SubSeq(data', 1, got)
         /\ offset' = offset + n
         /\ Done(got)
  /\ UNCHANGED full

ReadBuffered ==
  /\ want > 0 /\ ~Fills
  /\ LET got == Lesser(w - r, want)
     IN  /\ r' = r + got
         /\ out' = out \o SubSeq(data, r + 1, r + got)
         /\ Done(got)
  /\ UNCHANGED <<offset, data, w, full>>

\* ReadFile fails: what a ReadFull has got so far stays with its caller.
ReadFails ==
  /\ want > 0 /\ Fills
  /\ IF want > Size THEN UNCHANGED <<w, r>> ELSE w' = 0 /\ r' = 0
  /\ want' = 0 /\ result' = "failed"
  /\ UNCHANGED <<offset, data, full, out>>

Next ==
  \/ \E len \in 1 .. MaxAsk, isFull \in BOOLEAN : Ask(len, isFull)
  \/ ReadDirect \/ FillBuffer \/ ReadBuffered \/ ReadFails

Spec == Init /\ [][Next]_vars

-----------------------------------------------------------------------------
TypeOK ==
  /\ offset \in 0 .. Len(File)
  /\ data \in [1 .. Size -> Nat]
  /\ w \in 0 .. Size /\ r \in 0 .. w
  /\ want \in Nat /\ full \in BOOLEAN
  /\ out \in Seq(Nat)
  /\ result \in {"none", "ok", "failed"}

\* The callers get the bytes of the file in their order, none twice and none
\* left out, whatever the lengths they ask for, and never one that the file
\* does not have: those calls are for "unexpected EOF".
BytesInOrder == Len(out) <= Len(File) /\ out = SubSeq(File, 1, Len(out))

\* The handle is as far ahead of the callers as the buffer has bytes for them;
\* at the end of the file the buffer claims more than there were.
HandleAhead == offset = Lesser(Len(File), Len(out) + (w - r))

\* Those bytes are the next of the file.
BufferAhead ==
  \A i \in r + 1 .. w : Len(out) + (i - r) <= Len(File) => data[i] = File[Len(out) + (i - r)]
=============================================================================
