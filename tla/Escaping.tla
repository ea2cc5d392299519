------------------------------ MODULE Escaping ------------------------------
(***************************************************************************)
(* CEscape and CUnescape (src/bela/escaping.cc).  Texts are sequences of   *)
(* 16-bit units, the letters among them by their number in ASCII.          *)
(***************************************************************************)
EXTENDS Integers, Sequences, SequencesExt

CV == INSTANCE Codecvt

Backslash == 92
OctalDigits == 48 .. 55
HexDigits == (48 .. 57) \cup (65 .. 70) \cup (97 .. 102)
IsPrint(u) == u \in 32 .. 126
HexDigit(u) == IF u <= 57 THEN u - 48 ELSE (u - 55) % 32

\* The letters that stand for a unit when a backslash is in front: a b f n r t v \ ? ' "
Simple == [l \in {97, 98, 102, 110, 114, 116, 118, Backslash, 63, 39, 34} |->
             CASE l = 97 -> 7 [] l = 98 -> 8 [] l = 102 -> 12 [] l = 110 -> 10
               [] l = 114 -> 13 [] l = 116 -> 9 [] l = 118 -> 11 [] OTHER -> l]

Number(digits, base) == FoldLeft(LAMBDA n, u : base * n + HexDigit(u), 0, digits)

\* What is behind a backslash, at i: the units it stands for and how many units it takes,
\* none if it is not understood.
Bad == [units |-> <<>>, length |-> 0]
\* The digits behind i, at most n of them.
Digits(s, i, n, digits) ==
  LET ends == {m \in 0 .. n : i + m <= Len(s) /\ \A j \in 1 .. m : s[i + j] \in digits}
  IN  SubSeq(s, i + 1, i + Max(ends))
Octal(digits) == IF Number(digits, 8) > 255 THEN Bad ELSE [units |-> <<Number(digits, 8)>>, length |-> Len(digits)]
\* A word holds the last eight digits of n, and is to be of one byte.
Word(digits) == IF Len(digits) <= 8 THEN digits ELSE SubSeq(digits, Len(digits) - 7, Len(digits))
Hex(n, word) ==
  IF n = 0 \/ \E k \in 1 .. Len(word) - 2 : word[k] # 48 THEN Bad ELSE [units |-> <<Number(word, 16)>>, length |-> n + 1]
Rune(digits, n) ==
  IF Len(digits) < n THEN Bad ELSE [units |-> CV!Encode16(Number(digits, 16)), length |-> n + 1]
\* U: its digits are bad as soon as they exceed the last code point.
LongRune(digits) == IF Len(digits) = 8 /\ Number(SubSeq(digits, 1, 4), 16) > \h10 THEN Bad ELSE Rune(digits, 8)
Sequence(s, i) ==
  CASE s[i] \in DOMAIN Simple -> [units |-> <<Simple[s[i]]>>, length |-> 1]
    [] s[i] \in OctalDigits -> Octal(<<s[i]>> \o Digits(s, i, 2, OctalDigits))
    [] s[i] \in {120, 88} -> LET digits == Digits(s, i, Len(s), HexDigits) IN Hex(Len(digits), Word(digits))  \* x X
    [] s[i] = 117 -> Rune(Digits(s, i, 4, HexDigits), 4)                                                     \* u
    [] s[i] = 85 -> LongRune(Digits(s, i, 8, HexDigits))                                                     \* U
    [] OTHER -> Bad

\* CUnescapeInternal without leave_nulls_escaped, as CUnescape calls it
Unescape(s) ==
  LET From[i \in 1 .. Len(s) + 1] ==
        IF i > Len(s) THEN [ok |-> TRUE, text |-> <<>>]
        ELSE LET found == IF s[i] # Backslash THEN [units |-> <<s[i]>>, length |-> 1]
                          ELSE IF i = Len(s) THEN Bad
                          ELSE LET q == Sequence(s, i + 1)
                               IN  IF q = Bad THEN Bad ELSE [q EXCEPT !.length = @ + 1]
             IN  IF found.length = 0 THEN [ok |-> FALSE, text |-> <<>>]
                 ELSE [From[i + found.length] EXCEPT !.text = found.units \o @]
  IN  From[1]

-----------------------------------------------------------------------------
\* The letters for what CEscape puts a backslash in front of: n r t " ' \
Short == [u \in {10, 13, 9, 34, 39, Backslash} |-> CASE u = 10 -> 110 [] u = 13 -> 114 [] u = 9 -> 116 [] OTHER -> u]
Upper(d) == IF d < 10 THEN 48 + d ELSE 55 + d

NeedsHex(u, hexed) == u < 128 /\ (~IsPrint(u) \/ (hexed /\ u \in HexDigits))

\* hexed: a unit was written as a number; all digits that follow it anywhere are, too.
Escape(s) ==
  FoldLeft(LAMBDA d, u :
             CASE u \in DOMAIN Short -> [d EXCEPT !.text = @ \o <<Backslash, Short[u]>>]
               [] NeedsHex(u, d.hexed) /\ u \notin DOMAIN Short ->
                    [hexed |-> TRUE, text |-> d.text \o <<Backslash, 120, Upper(u \div 16), Upper(u % 16)>>]
               [] OTHER -> [d EXCEPT !.text = Append(@, u)],
           [hexed |-> FALSE, text |-> <<>>], s).text

-----------------------------------------------------------------------------
\* A text is what its escaped form stands for, and that form is printable ASCII if
\* the text is ASCII.
Survives(s) ==
  /\ Unescape(Escape(s)) = [ok |-> TRUE, text |-> s]
  /\ (\A i \in DOMAIN s : s[i] < 128) => \A i \in DOMAIN Escape(s) : IsPrint(Escape(s)[i])

\* Texts in pieces, each with the units it stands for, or with bad: as for those, anywhere
\* or at the end.
Zeros(n) == [i \in 1 .. n |-> 48]
Good(text, units) == [text |-> text, units |-> units, bad |-> ""]
Never(text) == [text |-> text, units |-> <<>>, bad |-> "anywhere"]
Cut(text) == [text |-> text, units |-> <<>>, bad |-> "at the end"]
Pieces ==
  { Good(<<49>>, <<49>>), Good(<<65>>, <<65>>), Good(<<103>>, <<103>>),     \* 1 A g
    Good(<<92, 116>>, <<9>>), Good(<<92, 63>>, <<63>>),                     \* \t \?
    Good(<<92, 48>>, <<0>>), Good(<<92, 49, 50>>, <<10>>), Good(<<92, 51, 55, 55>>, <<255>>),
    Good(<<92, 120, 97>>, <<10>>), Good(<<92, 88>> \o Zeros(9) \o <<52, 97>>, <<74>>),
    Good(<<92, 120, 49, 48>> \o Zeros(8), <<0>>),                           \* more than a word
    Good(<<92, 117, 48, 48, 69, 57>>, <<\hE9>>), Good(<<92, 117, 100, 56, 48, 48>>, <<\hFFFD>>),
    Good(<<92, 85, 48, 48, 48, 49, 70, 54, 48, 48>>, <<\hD83D, \hDE00>>),   \* \U0001F600
    Never(<<92, 52, 48, 48>>), Never(<<92, 120, 103>>), Never(<<92, 120, 49, 48, 48, 92, 110>>),
    Never(<<92, 117, 48, 48, 103>>), Never(<<92, 85, 48, 48, 49, 49>> \o Zeros(4)), Never(<<92, 113>>),
    Cut(<<92>>), Cut(<<92, 120>>), Cut(<<92, 117, 48, 48, 69>>), Cut(<<92, 85>> \o Zeros(7)) }

\* The digits of a number go on behind the piece.
RunsOn(p, next) ==
  /\ Len(p.text) > 1 /\ p.bad = ""
  /\ \/ p.text[2] \in {120, 88} /\ next.text[1] \in HexDigits
     \/ p.text[2] \in OctalDigits /\ Len(p.text) < 4 /\ next.text[1] \in OctalDigits
MeansItsPieces(pieces) ==
  LET last == Len(pieces)
      clear == \A i \in 1 .. last - 1 : pieces[i].bad # "at the end" /\ ~RunsOn(pieces[i], pieces[i + 1])
      bad == \E i \in DOMAIN pieces : pieces[i].bad = "anywhere" \/ (i = last /\ pieces[i].bad = "at the end")
      got == Unescape(FlattenSeq([i \in DOMAIN pieces |-> pieces[i].text]))
  IN  clear => /\ got.ok <=> ~bad
               /\ got.ok => got.text = FlattenSeq([i \in DOMAIN pieces |-> pieces[i].units])
=============================================================================
