------------------------------ MODULE Numbers ------------------------------
(***************************************************************************)
(* Integers as text and back (src/bela/numbers.cc).  The base of what is   *)
(* printed is Ten, and a word of 32 bits is Word, scaled so that one word  *)
(* still takes ten digits and two words twenty.  A character of more than  *)
(* a byte, which is looked up by its low byte alone, is left out.          *)
(***************************************************************************)
EXTENDS Integers, Sequences, SequencesExt

Ten == 2
Word == 2 * Ten^9

-----------------------------------------------------------------------------
(* FastIntToBuffer: two digits at a time, but for an odd one in front.     *)

Digit(n) == <<"0", "1">>[n + 1]
PutTwoDigits(n) == <<Digit(n \div Ten), Digit(n % Ten)>>
\* From one of the labels on: k pairs of digits.
Pairs(i, k) == FlattenSeq([j \in 1 .. k |-> PutTwoDigits((i \div Ten^(2 * (k - j))) % Ten^2)])
Odd(i, k) == <<Digit(i \div Ten^(2 * k))>> \o Pairs(i % Ten^(2 * k), k)

\* Slip: the first number with an odd digit goes out in pairs.
FastUint32Late(i) ==
  LET k == CHOOSE n \in 1 .. 4 : Ten^(2 * n - 1) <= i /\ i < Ten^(2 * n + 1)
  IN  CASE i >= Ten^9 -> Pairs(i, 5)
        [] i < Ten -> <<Digit(i)>>
        [] OTHER -> IF i > Ten^(2 * k) THEN Odd(i, k) ELSE Pairs(i, k)
FastUint32(i) ==
  LET k == CHOOSE n \in 1 .. 4 : Ten^(2 * n - 1) <= i /\ i < Ten^(2 * n + 1)
  IN  CASE i >= Ten^9 -> Pairs(i, 5)
        [] i < Ten -> <<Digit(i)>>
        [] OTHER -> IF i >= Ten^(2 * k) THEN Odd(i, k) ELSE Pairs(i, k)

FastUint64(i) ==
  LET top  == i \div Ten^9
      low  == i - top * Ten^9
      top8 == top \div Ten^2
      next == IF top < Word THEN <<>> ELSE PutTwoDigits(top - top8 * Ten^2)
      head == CASE i < Word -> i [] i >= Word /\ top < Word -> top [] OTHER -> top8
  IN  FastUint32(head) \o (IF i < Word THEN <<>> ELSE next \o Pairs(low \div Ten, 4) \o <<Digit(low % Ten)>>)
\* The magnitude has no sign, so that the least number has one too.
Minus(i) == IF i < 0 THEN <<"-">> ELSE <<>>
FastInt32(i) == Minus(i) \o FastUint32((IF i < 0 THEN 0 - i ELSE i) % Word)
FastInt64(i) == Minus(i) \o FastUint64((IF i < 0 THEN 0 - i ELSE i) % (Word * Word))

-----------------------------------------------------------------------------
(* safe_int_internal, safe_uint_internal                                   *)

Digits == [c \in {"0", "1", "7", "9", "x"} |->
             CASE c = "0" -> 0 [] c = "1" -> 1 [] c = "7" -> 7 [] c = "9" -> 9 [] c = "x" -> 33]
kAsciiToInt(c) == IF c \in DOMAIN Digits THEN Digits[c] ELSE 36

Stripped(text) ==
  LET solid == {i \in DOMAIN text : text[i] # " "}
  IN  IF solid = {} THEN <<>>
      ELSE SubSeq(text, CHOOSE i \in solid : \A j \in solid : i <= j, CHOOSE i \in solid : \A j \in solid : j <= i)

\* Without the spaces around it.
SignAndBaseOf(body, base) ==
  LET rest == IF body # <<>> /\ body[1] \in {"-", "+"} THEN Tail(body) ELSE body
      hex  == Len(rest) >= 2 /\ rest[1] = "0" /\ rest[2] = "x"
      Parsed(digits, b) == [ok |-> TRUE, digits |-> digits, base |-> b, negative |-> body[1] = "-"]
      Invalid == [ok |-> FALSE, digits |-> <<>>, base |-> base, negative |-> FALSE]
  IN  CASE rest = <<>> -> Invalid
        [] rest # <<>> /\ base \in {0, 16} /\ hex -> IF Len(rest) = 2 THEN Invalid ELSE Parsed(SubSeq(rest, 3, Len(rest)), 16)
        [] rest # <<>> /\ base = 0 /\ ~hex -> IF rest[1] = "0" THEN Parsed(Tail(rest), 8) ELSE Parsed(rest, 10)
        [] rest # <<>> /\ base # 0 /\ ~(base = 16 /\ hex) -> IF base \in 2 .. 36 THEN Parsed(rest, base) ELSE Invalid
SignAndBase(text, base) == SignAndBaseOf(Stripped(text), base)

Number(ok, value) == [ok |-> ok, value |-> value]
\* Each digit, up to the one that is none or does not fit.
Positive(digits, base, max) ==
  LET Next(s, c) ==
        LET d == kAsciiToInt(c)
        IN  CASE ~s.ok \/ d >= base -> Number(FALSE, s.value)
              [] s.ok /\ d < base -> IF s.value > max \div base \/ s.value * base > max - d THEN Number(FALSE, max)
                                     ELSE Number(TRUE, s.value * base + d)
  IN  FoldLeft(Next, Number(TRUE, 0), digits)
\* The quotient of the least number is towards zero.
Negative(digits, base, min) ==
  LET Next(s, c) ==
        LET d == kAsciiToInt(c)
        IN  CASE ~s.ok \/ d >= base -> Number(FALSE, s.value)
              [] s.ok /\ d < base -> IF s.value < -((-min) \div base) \/ s.value * base < min + d THEN Number(FALSE, min)
                                     ELSE Number(TRUE, s.value * base - d)
  IN  FoldLeft(Next, Number(TRUE, 0), digits)

Signed(p, min, max) ==
  CASE ~p.ok -> Number(FALSE, 0)
    [] p.ok /\ ~p.negative -> Positive(p.digits, p.base, max)
    [] p.ok /\ p.negative -> Negative(p.digits, p.base, min)
SafeInt(text, base, min, max) == Signed(SignAndBase(text, base), min, max)
Unsigned(p, max) == IF ~p.ok \/ p.negative THEN Number(FALSE, 0) ELSE Positive(p.digits, p.base, max)
SafeUint(text, base, max) == Unsigned(SignAndBase(text, base), max)

-----------------------------------------------------------------------------
(* What is meant: a text is a number if it is spaces, a sign, a prefix and *)
(* digits, and the number fits; one that does not is the nearest that does.*)

InBase(digits, base) == FoldLeft(LAMBDA v, d : v * base + d, 0, digits)
PrefixesOf(base) ==
  CASE base = 0 -> {<<<<"0", "x">>, 16>>, <<<<"0">>, 8>>, <<<<>>, 10>>}
    [] base = 16 -> {<<<<"0", "x">>, 16>>, <<<<>>, 16>>}
    [] OTHER -> {<<<<>>, base>>}
\* The longest prefix counts, and 0x is one only for what follows it.
LongestPrefixOf(s, base) ==
  CHOOSE p \in PrefixesOf(base) : IsPrefix(p[1], s) /\ \A q \in PrefixesOf(base) : IsPrefix(q[1], s) => Len(q[1]) <= Len(p[1])
Written(text, base) ==
  LET solid == {i \in DOMAIN text : text[i] # " "}
      body  == IF solid = {} THEN <<>>
               ELSE SubSeq(text, CHOOSE i \in solid : \A j \in solid : i <= j, CHOOSE i \in solid : \A j \in solid : j <= i)
      negative == IsPrefix(<<"-">>, body)
      rest  == IF negative \/ IsPrefix(<<"+">>, body) THEN Tail(body) ELSE body
      p     == LongestPrefixOf(rest, base)
      digits == SubSeq(rest, Len(p[1]) + 1, Len(rest))
  IN  [number |-> rest # <<>> /\ (p[1] = <<"0", "x">> => digits # <<>>) /\ \A i \in DOMAIN digits : kAsciiToInt(digits[i]) < p[2],
       negative |-> negative,
       value |-> InBase([i \in DOMAIN digits |-> kAsciiToInt(digits[i])], p[2])]

\* What was read, signed and unsigned, is what was written.
Agrees(s, u, w, min, max) ==
  LET n == IF w.negative THEN -w.value ELSE w.value
  IN  /\ s.ok <=> w.number /\ n \in min .. max
      /\ u.ok <=> w.number /\ ~w.negative /\ n <= max
      /\ s.ok => s.value = n
      /\ u.ok => u.value = n
      /\ w.number /\ n > max => s.value = max
      /\ w.number /\ n < min => s.value = min
\* Bounds that texts of few digits reach and pass.
ReadsAsWritten(text) ==
  \A base \in {0, 8, 10, 16, 36}, max \in {97, 999} :
    Agrees(SafeInt(text, base, -max - 1, max), SafeUint(text, base, max), Written(text, base), -max - 1, max)

\* A printed number is its digits, and reads back.
PrintsU(i, text) ==
  /\ InBase([k \in DOMAIN text |-> kAsciiToInt(text[k])], Ten) = i
  /\ text[1] = "0" => i = 0 /\ Len(text) = 1
PrintsBack(i) ==
  /\ PrintsU(i, FastUint64(i))
  /\ i < Word => PrintsU(i, FastUint32(i))
  /\ LET n == i - (Word * Word) \div 2 IN SafeInt(FastInt64(n), Ten, -((Word * Word) \div 2), (Word * Word) \div 2 - 1) = Number(TRUE, n)
  /\ i < Word => LET n == i - Word \div 2 IN SafeInt(FastInt32(n), Ten, -(Word \div 2), Word \div 2 - 1) = Number(TRUE, n)
=============================================================================
