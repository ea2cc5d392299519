------------------------------ MODULE Codecvt ------------------------------
(***************************************************************************)
(* The conversions between UTF-8, UTF-16 and code points                   *)
(* (include/bela/codecvt.hpp).  Texts are sequences of bytes, of 16-bit    *)
(* units and of code points.  The lead bytes of 6 bytes, whose value wraps *)
(* around the 32 bits it is computed in, do not occur in the texts.        *)
(***************************************************************************)
EXTENDS Integers, Sequences, SequencesExt

IsHigh(u) == u \in \hD800 .. \hDBFF
IsLow(u)  == u \in \hDC00 .. \hDFFF
Replacement == \hFFFD

\* The continuation byte with the n-th group of six bits, from the right.
Group(rune, n) == \h80 + ((rune \div 64 ^ n) % 64)

\* A code point in UTF-8; none out of range.
Encode8(rune) ==
  CASE rune <= \h7F    -> <<rune>>
    [] rune \in \h80 .. \h7FF      -> <<\hC0 + rune \div 64, Group(rune, 0)>>
    [] rune \in \h800 .. \hFFFF    -> <<\hE0 + rune \div 4096, Group(rune, 1), Group(rune, 0)>>
    [] rune \in \h10000 .. \h10FFFF ->
         <<\hF0 + rune \div 262144, Group(rune, 2), Group(rune, 1), Group(rune, 0)>>
    [] OTHER -> <<>>
Encode16(rune) ==
  CASE rune <= \hFFFF -> <<IF IsHigh(rune) \/ IsLow(rune) THEN Replacement ELSE rune>>
    [] rune > \h10FFFF -> <<Replacement>>
    [] OTHER -> <<\hD7C0 + rune \div 1024, \hDC00 + (rune % 1024)>>

Trailing(byte) ==
  CASE byte < \hC0 -> 0 [] byte \in \hC0 .. \hDF -> 1 [] byte \in \hE0 .. \hEF -> 2
    [] byte \in \hF0 .. \hF7 -> 3 [] byte \in \hF8 .. \hFB -> 4 [] OTHER -> 5

\* The code point of nb + 1 bytes; nobody asks whether they are continuation bytes,
\* and what is below zero wraps around to a value that is out of range.
Decode(b, nb) ==
  LET lead == <<0, \hC0, \hE0, \hF0, \hF8>>
      Value[i \in 1 .. nb + 1] == IF i = 1 THEN b[1] - lead[nb + 1] ELSE 64 * Value[i - 1] + b[i] - \h80
  IN  IF Value[nb + 1] < 0 THEN \h110000 ELSE Value[nb + 1]

RECURSIVE Runes8(_), Runes16Unpaired(_), Runes16(_)
\* A sequence that is cut off ends the text.
Runes8(b) ==
  IF b = <<>> THEN <<>>
  ELSE LET nb == Trailing(b[1])
       IN  IF nb >= Len(b) THEN <<>> ELSE <<Decode(b, nb)>> \o Runes8(SubSeq(b, nb + 2, Len(b)))

PairOf(u) == (u[1] - \hD800) * 1024 + (u[2] - \hDC00) + \h10000

\* Slip: the second half of a pair is whatever follows.
Runes16Unpaired(u) ==
  CASE u = <<>> \/ (IsHigh(u[1]) /\ Len(u) = 1) -> <<>>
    [] Len(u) > 1 /\ IsHigh(u[1]) -> <<PairOf(u)>> \o Runes16Unpaired(SubSeq(u, 3, Len(u)))
    [] OTHER -> <<u[1]>> \o Runes16Unpaired(Tail(u))

\* A first half without a second ends the text.
Runes16(u) ==
  IF u = <<>> THEN <<>>
  ELSE IF ~IsHigh(u[1]) THEN <<u[1]>> \o Runes16(Tail(u))
  ELSE IF Len(u) = 1 THEN <<>>
  ELSE IF ~IsLow(u[2]) THEN <<>>
  ELSE <<PairOf(u)>> \o Runes16(SubSeq(u, 3, Len(u)))

\* What UTF-8 says of a first half is replaced, a second half is kept.
Units(rune) ==
  CASE IsHigh(rune) \/ rune > \h10FFFF -> <<Replacement>>
    [] rune <= \hFFFF /\ ~IsHigh(rune) -> <<rune>>
    [] OTHER -> <<(rune - \h10000) \div 1024 + \hD800, ((rune - \h10000) % 1024) + \hDC00>>

Each(Op(_), s) == FlattenSeq([i \in DOMAIN s |-> Op(s[i])])
ToUtf16(b) == Each(Units, Runes8(b))
ToUtf8(u)  == Each(Encode8, Runes16(u))
Length8(b) == Len(Runes8(b))
Length16(u) == Len(Runes16(u))

\* One code point after the other.  Of a sequence that lacks one byte, and of half a
\* pair, what is behind the text is read, and what remains is no text any more:
\* Beyond is some code point, and nothing is said of what follows it.
Beyond == -1
RECURSIVE RunesNext8(_), RunesNext16(_)
RunesNext16(u) ==
  IF u = <<>> THEN <<>>
  ELSE IF ~IsHigh(u[1]) /\ ~IsLow(u[1]) THEN <<u[1]>> \o RunesNext16(Tail(u))
  ELSE IF Len(u) = 1 THEN <<Beyond>>
  ELSE <<PairOf(u)>> \o RunesNext16(SubSeq(u, 3, Len(u)))
RunesNext8(b) ==
  IF b = <<>> THEN <<>>
  ELSE IF b[1] < 128 THEN <<b[1]>> \o RunesNext8(Tail(b))
  ELSE LET nb == Trailing(b[1])
       IN  IF Len(b) < nb THEN <<0>> \o RunesNext8(Tail(b))
           ELSE IF Len(b) = nb THEN <<Beyond>>
           ELSE <<Decode(b, nb)>> \o RunesNext8(SubSeq(b, nb + 2, Len(b)))

-----------------------------------------------------------------------------
\* The halves that are not part of a pair.
Paired(u, i) == \/ IsHigh(u[i]) /\ i < Len(u) /\ IsLow(u[i + 1])
                \/ IsLow(u[i]) /\ i > 1 /\ IsHigh(u[i - 1])
Alone(u) == {i \in DOMAIN u : (IsHigh(u[i]) \/ IsLow(u[i])) /\ ~Paired(u, i)}

\* UTF-16 comes back from UTF-8 as it was, unpaired second halves included, up to
\* the first half that is alone; well-formed text has the same code points in all
\* its forms.
Keeps16(u) ==
  LET cut == {i \in Alone(u) : IsHigh(u[i])}
      p   == SubSeq(u, 1, IF cut = {} THEN Len(u) ELSE (CHOOSE i \in cut : \A j \in cut : i <= j) - 1)
      b   == ToUtf8(u)
      runes == RunesNext16(p)
  IN  /\ ToUtf16(b) = p /\ Length8(b) = Length16(u)
      /\ Alone(p) = {} => /\ RunesNext8(b) = runes /\ Len(runes) = Length16(u)
                          /\ Each(Encode16, runes) = p /\ Each(Encode8, runes) = b

\* Whatever the bytes are, what is made of them survives the way through UTF-8, and
\* every sequence of theirs makes one code point.
Keeps8(b) ==
  LET u == ToUtf16(b) IN ToUtf16(ToUtf8(u)) = u /\ Length16(u) = Length8(b)
=============================================================================
