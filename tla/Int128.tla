------------------------------- MODULE Int128 -------------------------------
(***************************************************************************)
(* bela::uint128 and bela::int128 where the compiler has no such type      *)
(* (include/bela/int128.hpp, __strings/int128_no_intrinsic.inc,            *)
(* src/bela/int128.cc): two words, each of two halves, with Half bits for  *)
(* the 32 of the code.  Words joined with | have no bit in common, so that *)
(* + stands for it.  The high word of a signed number is signed.           *)
(***************************************************************************)
EXTENDS Integers

CONSTANT Half
WordBits == 2 * Half
HalfWord == 2^Half
Word == 2^WordBits

MakeUint128(high, low) == [hi |-> high % Word, lo |-> low % Word]
BitCastToSigned(v) == IF v >= Word \div 2 THEN v - Word ELSE v
MakeInt128(high, low) == [hi |-> BitCastToSigned(high % Word), lo |-> low % Word]
Unsigned(v) == MakeUint128(v.hi, v.lo)
Signed(v)   == MakeInt128(v.hi, v.lo)
Not(n) == -n - 1

-----------------------------------------------------------------------------
(* Without a sign.                                                         *)

Less(a, b) == IF a.hi = b.hi THEN a.lo < b.lo ELSE a.hi < b.hi
Negated(v) ==
  LET low == (Not(v.lo) + 1) % Word
  IN  MakeUint128(Not(v.hi) + (IF low = 0 THEN 1 ELSE 0), low)

ShiftLeft(v, n) ==
  CASE n = 0 -> v
    [] n > 0 /\ n < WordBits -> MakeUint128(v.hi * 2^n + v.lo \div 2^(WordBits - n), v.lo * 2^n)
    [] OTHER -> MakeUint128(v.lo * 2^(n - WordBits), 0)
ShiftRight(v, n) ==
  CASE n = 0 -> v
    [] n > 0 /\ n < WordBits -> MakeUint128(v.hi \div 2^n, (v.lo \div 2^n) + ((v.hi * 2^(WordBits - n)) % Word))
    [] OTHER -> MakeUint128(0, v.hi \div 2^(n - WordBits))

Plus(a, b) ==
  LET r == MakeUint128(a.hi + b.hi, a.lo + b.lo)
  IN  IF r.lo < a.lo THEN MakeUint128(r.hi + 1, r.lo) ELSE r
Minus(a, b) ==
  LET r == MakeUint128(a.hi - b.hi, a.lo - b.lo)
  IN  IF a.lo < b.lo THEN MakeUint128(r.hi - 1, r.lo) ELSE r
\* The branch without an intrinsic; the build of MSVC for x64 takes the product of the
\* low words, which is computed here from their halves, from _umul128.
Times(a, b) ==
  LET a32 == a.lo \div HalfWord
      a00 == a.lo % HalfWord
      b32 == b.lo \div HalfWord
      b00 == b.lo % HalfWord
      Middle(n) == ShiftLeft(MakeUint128(0, n), Half)
  IN  Plus(Plus(MakeUint128(a.hi * b.lo + a.lo * b.hi + a32 * b32, a00 * b00), Middle(a32 * b00)), Middle(a00 * b32))

\* The place of the last bit of a word that is set.
LastBit(word) == CHOOSE k \in 0 .. WordBits - 1 : word \in 2^k .. 2^(k + 1) - 1
Fls128(v) == IF v.hi # 0 THEN WordBits + LastBit(v.hi) ELSE LastBit(v.lo)

\* The quotient and what remains, by one bit in each step.
Result(q, r) == [quo |-> q, rem |-> r]
Start(dividend, denominator) == [quo |-> MakeUint128(0, 0), rem |-> dividend, den |-> denominator]
\* Slip: what is as much as the denominator is not divided.
StepStrict(s) ==
  LET fits  == Less(s.den, s.rem)
      twice == ShiftLeft(s.quo, 1)
  IN  [quo |-> IF fits THEN MakeUint128(twice.hi, twice.lo + 1) ELSE twice,
       rem |-> IF fits THEN Minus(s.rem, s.den) ELSE s.rem,
       den |-> ShiftRight(s.den, 1)]
Step(s) ==
  LET fits  == ~Less(s.rem, s.den)
      twice == ShiftLeft(s.quo, 1)
  IN  [quo |-> IF fits THEN MakeUint128(twice.hi, twice.lo + 1) ELSE twice,
       rem |-> IF fits THEN Minus(s.rem, s.den) ELSE s.rem,
       den |-> ShiftRight(s.den, 1)]
LongDivision(dividend, divisor) ==
  LET shift == Fls128(dividend) - Fls128(divisor)
      After[i \in 0 .. shift + 1] == IF i = 0 THEN Start(dividend, ShiftLeft(divisor, shift)) ELSE Step(After[i - 1])
  IN  After[shift + 1]
DivModImpl(dividend, divisor) ==
  CASE Less(dividend, divisor) -> Result(MakeUint128(0, 0), dividend)
    [] dividend = divisor -> Result(MakeUint128(0, 1), MakeUint128(0, 0))
    [] OTHER -> LET end == LongDivision(dividend, divisor) IN Result(end.quo, end.rem)

-----------------------------------------------------------------------------
(* With a sign.  What overflows a signed word wraps around, as it does in  *)
(* the build.                                                              *)

SignedLess(a, b) == Less(a, b)
SignedNegated(v) == MakeInt128(Not(v.hi) + (IF v.lo = 0 THEN 1 ELSE 0), Not(v.lo) + 1)
SignedPlus(a, b) ==
  LET r == MakeInt128(a.hi + b.hi, a.lo + b.lo)
  IN  IF r.lo < a.lo THEN MakeInt128(r.hi + 1, r.lo) ELSE r
SignedMinus(a, b) ==
  LET r == MakeInt128(a.hi - b.hi, a.lo - b.lo)
  IN  IF a.lo < b.lo THEN MakeInt128(r.hi - 1, r.lo) ELSE r
SignedTimes(a, b) == Signed(Times(Unsigned(a), Unsigned(b)))

UnsignedAbsoluteValue(v) == IF v.hi < 0 THEN Negated(Unsigned(v)) ELSE Unsigned(v)
SignedDivided(a, b) ==
  LET q == DivModImpl(UnsignedAbsoluteValue(a), UnsignedAbsoluteValue(b)).quo
  IN  Signed(IF (a.hi < 0) # (b.hi < 0) THEN Negated(q) ELSE q)
SignedRemainder(a, b) ==
  LET r == DivModImpl(UnsignedAbsoluteValue(a), UnsignedAbsoluteValue(b)).rem
  IN  Signed(IF a.hi < 0 THEN Negated(r) ELSE r)

SignedShiftLeft(v, n) ==
  CASE n >= WordBits -> MakeInt128(v.lo * 2^(n - WordBits), 0)
    [] n = 0 -> v
    [] OTHER -> MakeInt128(v.hi * 2^n + v.lo \div 2^(WordBits - n), v.lo * 2^n)
\* The high word is shifted twice by a half, which leaves its sign alone.
SignedShiftRight(v, n) ==
  CASE n >= WordBits -> MakeInt128((v.hi \div HalfWord) \div HalfWord, v.hi \div 2^(n - WordBits))
    [] n = 0 -> v
    [] OTHER -> MakeInt128(v.hi \div 2^n, (v.lo \div 2^n) + ((v.hi * 2^(WordBits - n)) % Word))

-----------------------------------------------------------------------------
(* What the operations mean, on the integers.                              *)

Value(v) == v.hi * Word + v.lo
Range128 == Word * Word
Least == -(Range128 \div 2)
Greatest == Range128 \div 2 - 1
Make(n) == MakeUint128(n \div Word, n)
Magnitude(n) == IF n < 0 THEN -n ELSE n
\* The division of C++, towards zero.
Quotient(a, b) == LET q == Magnitude(a) \div Magnitude(b) IN IF (a < 0) # (b < 0) THEN -q ELSE q

UnsignedExact(a, b) ==
  LET m == Value(a)
      n == Value(b)
  IN  /\ Less(a, b) <=> m < n
      /\ Value(Plus(a, b)) = (m + n) % Range128
      /\ Value(Minus(a, b)) = (m - n) % Range128
      /\ Value(Times(a, b)) = (m * n) % Range128
      /\ Value(Negated(a)) = (-m) % Range128
      /\ n # 0 => LET d == DivModImpl(a, b) IN Value(d.quo) = m \div n /\ Value(d.rem) = m % n
SignedExact(a, b) ==
  LET m == Value(a)
      n == Value(b)
      Fits(k) == k \in Least .. Greatest
  IN  /\ SignedLess(a, b) <=> m < n
      /\ Fits(m + n) => Value(SignedPlus(a, b)) = m + n
      /\ Fits(m - n) => Value(SignedMinus(a, b)) = m - n
      /\ Fits(m * n) => Value(SignedTimes(a, b)) = m * n
      /\ Fits(-m) => Value(SignedNegated(a)) = -m
      /\ n # 0 /\ Fits(Quotient(m, n)) =>
           Value(SignedDivided(a, b)) = Quotient(m, n) /\ Value(SignedRemainder(a, b)) = m - n * Quotient(m, n)
Exact(m, n) == UnsignedExact(Make(m), Make(n)) /\ SignedExact(Signed(Make(m)), Signed(Make(n)))

ShiftsExact(m) ==
  \A k \in 0 .. 2 * WordBits - 1 :
    LET v == Make(m)
        s == Signed(v)
    IN  /\ Value(ShiftLeft(v, k)) = (Value(v) * 2^k) % Range128
        /\ Value(ShiftRight(v, k)) = Value(v) \div 2^k
        /\ Unsigned(SignedShiftLeft(s, k)) = ShiftLeft(v, k)
        /\ Value(SignedShiftRight(s, k)) = Value(s) \div 2^k
=============================================================================
