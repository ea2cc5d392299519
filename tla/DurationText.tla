---------------------------- MODULE DurationText ----------------------------
(***************************************************************************)
(* Durations as text (src/belatime/duration.cc): FormatDuration and        *)
(* ParseDuration, in the scale of Durations.  Two digits stand for the     *)
(* ten, so that quarters of a second have two of them, and the three units *)
(* below a second are of one length.  Doubles are exact at these widths.   *)
(***************************************************************************)
EXTENDS Durations, Sequences, SequencesExt

Ten == 2
Digit(n) == <<"0", "1">>[n + 1]
IsDigit(c) == c \in {"0", "1"}
DigitValue(c) == IF c = "0" THEN 0 ELSE 1
Nanoseconds == Dur(0, Unit)
Seconds == Dur(1, 0)
Minutes == Dur(SecondsPerMinute, 0)
Hours   == Dur(2 * SecondsPerMinute, 0)
PrecUnit == 1
PrecSecond == 2

-----------------------------------------------------------------------------
(* FormatDuration                                                          *)

RECURSIVE Format64(_, _)
Format64(width, v) ==
  IF v < Ten THEN [i \in 1 .. width - 1 |-> "0"] \o <<Digit(v)>> ELSE Format64(width - 1, v \div Ten) \o <<Digit(v % Ten)>>

AppendInteger(n, unit) == IF n = 0 THEN <<>> ELSE Format64(0, n) \o unit
\* n out of den, rounded to prec digits, without the zeros at the end.
AppendFraction(n, den, prec, unit) ==
  LET frac  == (2 * (n % den) * Ten^prec + den) \div (2 * den)
      text  == Format64(prec, frac)
      ones  == {i \in DOMAIN text : text[i] # "0"}
  IN  IF n \div den = 0 /\ frac = 0 THEN <<>>
      ELSE Format64(0, n \div den)
             \o (IF frac = 0 THEN <<>> ELSE <<".">> \o SubSeq(text, 1, CHOOSE i \in ones : \A j \in ones : j <= i))
             \o unit

\* What is printed of the duration that cannot be negated is a constant.
MinText == <<"-", "1", "0", "h", "1", "m", "1", "s">>
HoursAnd(hours, minutes) ==
  AppendInteger(hours.q, <<"h">>) \o AppendInteger(minutes.q, <<"m">>)
    \o AppendFraction(MakeU128Ticks(minutes.rem), Ticks, PrecSecond, <<"s">>)
MinutesIn(hours) == HoursAnd(hours, IDivDuration(TRUE, hours.rem, Minutes))
TextOf(m) ==
  CASE m = Infinite -> <<"inf">>
    [] m # Infinite /\ Less(m, Nanoseconds) -> AppendFraction(MakeU128Ticks(m), Unit, PrecUnit, <<"n", "s">>)
    [] ~Less(m, Nanoseconds) /\ Less(m, Seconds) -> AppendFraction(MakeU128Ticks(m), Unit, PrecUnit, <<"m", "s">>)
    [] OTHER -> MinutesIn(IDivDuration(TRUE, m, Hours))
OrZero(s) == IF s \in {<<>>, <<"-">>} THEN <<"0">> ELSE s
FormatDuration(d) ==
  IF d = Dur(HiMin, 0) THEN MinText
  ELSE OrZero((IF Negative(d) THEN <<"-">> ELSE <<>>) \o TextOf(IF Negative(d) THEN Opposite(d) ELSE d))

-----------------------------------------------------------------------------
(* ParseDuration.  The consumed number, and where it ends.                 *)

\* How many digits there are from i on.
DigitsFrom(s, i) == CHOOSE n \in 0 .. Len(s) - i + 1 :
  (\A k \in i .. i + n - 1 : IsDigit(s[k])) /\ (i + n <= Len(s) => ~IsDigit(s[i + n]))

HasDigits(n, m) == n # 0 \/ m # 0
\* n digits, and m behind the point if there is one.
NumberOf(s, n, m, point) ==
  LET Whole(v, c) == IF v > HiMax \div Ten \/ v * Ten > HiMax - DigitValue(c) THEN HiMax + 1 ELSE v * Ten + DigitValue(c)
      Part(f, c) == IF f.scale <= HiMax \div Ten THEN [part |-> f.part * Ten + DigitValue(c), scale |-> f.scale * Ten] ELSE f
      whole == FoldLeft(Whole, 0, SubSeq(s, 1, n))
      frac == FoldLeft(Part, [part |-> 0, scale |-> 1], SubSeq(s, n + 2, n + 1 + m))
  IN  [ok |-> whole <= HiMax /\ HasDigits(n, m), int |-> whole, frac |-> frac.part, scale |-> frac.scale,
       next |-> IF point THEN n + 2 + m ELSE n + 1]
HasPoint(s, n) == n < Len(s) /\ s[n + 1] = "."
NumberFrom(s, n) == NumberOf(s, n, IF HasPoint(s, n) THEN DigitsFrom(s, n + 2) ELSE 0, HasPoint(s, n))
ConsumeDurationNumber(s) == NumberFrom(s, DigitsFrom(s, 1))

Consumed(ok, unit, size) == [ok |-> ok, unit |-> unit, size |-> size]
ConsumeDurationUnit(s) ==
  CASE s = <<>> -> Consumed(FALSE, Zero, 0)
    [] Len(s) >= 2 /\ s[1] \in {"n", "m"} /\ s[2] = "s" -> Consumed(TRUE, Nanoseconds, 2)
    [] s # <<>> /\ ~(Len(s) >= 2 /\ s[1] \in {"n", "m"} /\ s[2] = "s") ->
         CASE s[1] = "s" -> Consumed(TRUE, Seconds, 1)
           [] s[1] = "m" -> Consumed(TRUE, Minutes, 1)
           [] s[1] = "h" -> Consumed(TRUE, Hours, 1)
           [] OTHER -> Consumed(FALSE, Zero, 0)

Parsed(ok, d) == [ok |-> ok, d |-> d]
AddNumber(dur, num, unit, sign) ==
  LET whole == IF num.int # 0 THEN Plus(dur, Times(unit, sign * num.int)) ELSE dur
  IN  IF num.frac # 0 THEN Plus(whole, Divided(Times(unit, sign * num.frac), num.scale)) ELSE whole
RECURSIVE ParseItems(_, _, _)
ParseItem(s, sign, dur, num, unit) ==
  IF num.ok /\ unit.ok THEN ParseItems(SubSeq(s, num.next + unit.size, Len(s)), sign, AddNumber(dur, num, unit.unit, sign))
  ELSE Parsed(FALSE, Zero)
ParseNumber(s, sign, dur, num) == ParseItem(s, sign, dur, num, ConsumeDurationUnit(SubSeq(s, num.next, Len(s))))
ParseItems(s, sign, dur) ==
  IF s = <<>> THEN Parsed(TRUE, dur) ELSE ParseNumber(s, sign, dur, ConsumeDurationNumber(s))
ParseDuration(text) ==
  LET signed == text # <<>> /\ text[1] \in {"-", "+"}
      sign   == IF signed /\ text[1] = "-" THEN -1 ELSE 1
      s      == IF signed THEN Tail(text) ELSE text
  IN  CASE s = <<>> -> Parsed(FALSE, Zero)
        [] s = <<"0">> -> Parsed(TRUE, Zero)
        [] s = <<"inf">> -> Parsed(TRUE, Times(Infinite, sign))
        [] OTHER -> ParseItems(s, sign, Zero)

-----------------------------------------------------------------------------
(* What is meant.  A fraction is exact as long as its digits, as a count   *)
(* of its unit, are a duration: with more they become infinite before they *)
(* are divided.                                                            *)

PrintsBack(d) == ParseDuration(FormatDuration(d)) = Parsed(TRUE, d)

Units == (<<"n", "s">> :> Unit) @@ (<<"m", "s">> :> Unit) @@ (<<"s">> :> Ticks)
           @@ (<<"m">> :> SecondsPerMinute * Ticks) @@ (<<"h">> :> 2 * SecondsPerMinute * Ticks)
AllDigits(s) == \A i \in DOMAIN s : IsDigit(s[i])
Amount(s) == FoldLeft(LAMBDA v, c : v * Ten + DigitValue(c), 0, s)
\* The ways to take a text apart into digits, a point, digits and a unit.
ItemsOf(s) ==
  {[int |-> SubSeq(s, 1, i), frac |-> SubSeq(s, i + 2, j), unit |-> SubSeq(s, j + 1, Len(s))] :
     <<i, j>> \in {<<i, j>> \in (0 .. Len(s)) \X (0 .. Len(s)) :
       /\ SubSeq(s, j + 1, Len(s)) \in DOMAIN Units /\ AllDigits(SubSeq(s, 1, i))
       /\ \/ i = j /\ i > 0
          \/ i < j /\ s[i + 1] = "." /\ AllDigits(SubSeq(s, i + 2, j)) /\ j > 1}}
RECURSIVE Worth(_)
\* The ticks that a text is worth, and whether all its numbers fit, if it is a text of items.
Worth(s) ==
  IF s = <<>> THEN {[ticks |-> 0, fits |-> TRUE, read |-> TRUE]}
  ELSE UNION {{[ticks |-> Amount(it.int) * Units[it.unit] + (Amount(it.frac) * Units[it.unit]) \div Ten^Len(it.frac) + r.ticks,
                fits |-> r.fits /\ Len(it.frac) <= 3 /\ Amount(it.frac) * Units[it.unit] < (HiMax + 1) * Ticks,
                read |-> r.read /\ Amount(it.int) <= HiMax] :
                 it \in ItemsOf(SubSeq(s, 1, k)), r \in Worth(SubSeq(s, k + 1, Len(s)))} : k \in 1 .. Len(s)}
ReadsItems(s, sign, p) ==
  LET sums == Worth(s)
  IN  /\ p.ok <=> \E r \in sums : r.read
      /\ \A r \in sums : r.read /\ r.fits => p.d = Saturated(sign * r.ticks)
ReadsAsWritten(s) ==
  /\ s \notin {<<>>, <<"0">>} => ReadsItems(s, 1, ParseDuration(s)) /\ ReadsItems(s, -1, ParseDuration(<<"-">> \o s))
  /\ ParseDuration(<<"0">>) = Parsed(TRUE, Zero)
=============================================================================
