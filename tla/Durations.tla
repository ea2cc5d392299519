----------------------------- MODULE Durations -----------------------------
(***************************************************************************)
(* bela::Duration (belatime/duration.cc, time.cc, include/bela/time.hpp):  *)
(* seconds in a signed word and ticks of a second in an unsigned one.  A   *)
(* unit stands for nanoseconds and for the other units of the fast paths.  *)
(* The 128 bits of the products are not bounded.  Operations with doubles  *)
(* are left out.                                                           *)
(***************************************************************************)
EXTENDS Integers

CONSTANTS HiMax,        \* the greatest signed word
          LoWord,       \* how many unsigned words there are
          Unit,         \* the ticks of a unit
          PerSecond,    \* the units of a second
          SecondsPerMinute, \* the seconds of a minute, or of an hour
          ShortSeconds  \* from here on, units are not counted in one word

HiMin == -HiMax - 1
Ticks == PerSecond * Unit
NoLo == LoWord - 1     \* ~0U

Dur(hi, lo) == [hi |-> hi, lo |-> lo]
Infinite == Dur(HiMax, NoLo)
MinusInfinite == Dur(HiMin, NoLo)
Signed(neg) == IF neg THEN MinusInfinite ELSE Infinite
IsInfinite(d) == d.lo = NoLo
Durations == [hi : HiMin .. HiMax, lo : 0 .. Ticks - 1] \union {Infinite, MinusInfinite}

Wrap(n) == ((n - HiMin) % (HiMax - HiMin + 1)) + HiMin
Magnitude(n) == IF n < 0 THEN -n ELSE n
\* The division of C++: towards zero.
Quot(a, b) == LET q == Magnitude(a) \div Magnitude(b) IN IF (a < 0) # (b < 0) THEN -q ELSE q
Remainder(a, b) == a - b * Quot(a, b)

Less(a, b) ==
  IF a.hi # b.hi THEN a.hi < b.hi
  ELSE IF a.hi = HiMin THEN (a.lo + 1) % LoWord < (b.lo + 1) % LoWord ELSE a.lo < b.lo
Zero == Dur(0, 0)
Negative(d) == Less(d, Zero)

Opposite(d) ==
  CASE d.lo = 0 -> IF d.hi = HiMin THEN Infinite ELSE Dur(-d.hi, 0)
    [] IsInfinite(d) -> Signed(d.hi >= 0)
    [] OTHER -> Dur(-(d.hi + 1), Ticks - d.lo)

\* Slip: the overflow is looked for before the carry.
PlusEarly(d, rhs) ==
  LET carry == d.lo >= Ticks - rhs.lo
      hi    == Wrap(d.hi + rhs.hi)
      over  == IF rhs.hi < 0 THEN hi > d.hi ELSE hi < d.hi
  IN  CASE IsInfinite(d) -> d
        [] ~IsInfinite(d) /\ IsInfinite(rhs) -> rhs
        [] OTHER -> IF over THEN Signed(rhs.hi < 0)
                    ELSE Dur(IF carry THEN Wrap(hi + 1) ELSE hi, (d.lo + rhs.lo - (IF carry THEN Ticks ELSE 0)) % LoWord)

Plus(d, rhs) ==
  LET carry == d.lo >= Ticks - rhs.lo
      hi    == Wrap(d.hi + rhs.hi + (IF carry THEN 1 ELSE 0))
      lo    == (d.lo + rhs.lo - (IF carry THEN Ticks ELSE 0)) % LoWord
      over  == IF rhs.hi < 0 THEN hi > d.hi ELSE hi < d.hi
  IN  CASE IsInfinite(d) -> d
        [] ~IsInfinite(d) /\ IsInfinite(rhs) -> rhs
        [] OTHER -> IF over THEN Signed(rhs.hi < 0) ELSE Dur(hi, lo)

Minus(d, rhs) ==
  LET borrow == d.lo < rhs.lo
      hi     == Wrap(d.hi - rhs.hi - (IF borrow THEN 1 ELSE 0))
      lo     == (d.lo - rhs.lo + (IF borrow THEN Ticks ELSE 0)) % LoWord
      over   == IF rhs.hi < 0 THEN hi < d.hi ELSE hi > d.hi
  IN  CASE IsInfinite(d) -> d
        [] ~IsInfinite(d) /\ IsInfinite(rhs) -> Signed(rhs.hi >= 0)
        [] OTHER -> IF over THEN Signed(rhs.hi >= 0) ELSE Dur(hi, lo)

Abs(d) == IF Negative(d) THEN Opposite(d) ELSE d

-----------------------------------------------------------------------------
(* Products and quotients go through the magnitudes, in ticks.             *)
MakeU128Ticks(d) ==
  IF d.hi < 0 THEN -(d.hi + 1) * Ticks + (Ticks - d.lo) ELSE d.hi * Ticks + d.lo

\* The words of a magnitude, with its sign: the least duration has one more
\* second than the greatest.
MakeDurationFromU128(u, neg) ==
  LET hi == u \div Ticks
      lo == u % Ticks
  IN  CASE hi > HiMax -> IF neg /\ u = -HiMin * Ticks THEN Dur(HiMin, 0) ELSE Signed(neg)
        [] hi <= HiMax /\ neg /\ lo # 0 -> Dur(-hi - 1, Ticks - lo)
        [] OTHER -> Dur(IF neg THEN -hi ELSE hi, lo)

Times(d, r) ==
  LET neg == (d.hi < 0) # (r < 0)
  IN  IF IsInfinite(d) THEN Signed(neg) ELSE MakeDurationFromU128(MakeU128Ticks(d) * Magnitude(r), neg)
Divided(d, r) ==
  LET neg == (d.hi < 0) # (r < 0)
  IN  IF IsInfinite(d) \/ r = 0 THEN Signed(neg)
      ELSE MakeDurationFromU128(MakeU128Ticks(d) \div Magnitude(r), neg)

Division(q, rem) == [q |-> q, rem |-> rem]
\* A unit of less than a second, and whole seconds, are divided by in one word.
ByUnit(num, den) == den.hi = 0 /\ den.lo = Unit /\ num.hi >= 0 /\ num.hi < (HiMax - Ticks) \div PerSecond
IDivFastPath(num, den) ==
  LET up  == IF num.lo # 0 THEN 1 ELSE 0
  IN  CASE ByUnit(num, den) -> Division(num.hi * PerSecond + num.lo \div Unit, Dur(0, num.lo % den.lo))
        [] ~ByUnit(num, den) /\ num.hi >= 0 -> Division(num.hi \div den.hi, Dur(num.hi % den.hi, num.lo))
        [] OTHER -> Division(Quot(num.hi + up, den.hi), Dur(Remainder(num.hi + up, den.hi) - up, num.lo))

IDivDuration(satq, num, den) ==
  LET fast == ~IsInfinite(num) /\ ~IsInfinite(den) /\ (ByUnit(num, den) \/ (den.hi > 0 /\ den.lo = 0))
      neg  == Negative(num) # Negative(den)
      a    == MakeU128Ticks(num)
      b    == MakeU128Ticks(den)
      q    == IF satq /\ a \div b > HiMax THEN (IF neg THEN -HiMin ELSE HiMax) ELSE a \div b
      Low(n) == n % (HiMax + 1)
  IN  CASE fast -> IDivFastPath(num, den)
        [] ~fast /\ (IsInfinite(num) \/ den = Zero) ->
             Division(IF neg THEN HiMin ELSE HiMax, Signed(Negative(num)))
        [] ~fast /\ ~IsInfinite(num) /\ IsInfinite(den) -> Division(0, num)
        [] OTHER -> Division(IF ~neg \/ q = 0 THEN Low(q) ELSE -Low(q - 1) - 1,
                             MakeDurationFromU128(a - q * b, Negative(num)))
Modulo(d, rhs) == IDivDuration(FALSE, d, rhs).rem

Trunc(d, unit) == Minus(d, Modulo(d, unit))
Floor(d, unit) == LET td == Trunc(d, unit) IN IF ~Less(d, td) THEN td ELSE Minus(td, Abs(unit))
Ceil(d, unit)  == LET td == Trunc(d, unit) IN IF ~Less(td, d) THEN td ELSE Plus(td, Abs(unit))

-----------------------------------------------------------------------------
(* From and to counts of units, seconds and minutes.                       *)
FromUnits(v) ==
  LET sec == Quot(v, PerSecond)
      ticks == Remainder(v, PerSecond) * Unit
  IN  IF ticks < 0 THEN Dur(sec - 1, ticks + Ticks) ELSE Dur(sec, ticks)
FromMinutes(v) ==
  IF v <= Quot(HiMax, SecondsPerMinute) /\ v >= Quot(HiMin, SecondsPerMinute) THEN Dur(v * SecondsPerMinute, 0) ELSE Signed(v <= 0)

Short(d) == d.hi >= 0 /\ d.hi < ShortSeconds
ToUnits(d) ==
  IF Short(d) THEN d.hi * PerSecond + d.lo \div Unit ELSE IDivDuration(TRUE, d, Dur(0, Unit)).q
ToSeconds(d) == IF ~IsInfinite(d) /\ d.hi < 0 /\ d.lo # 0 THEN d.hi + 1 ELSE d.hi
ToMinutes(d) == IF IsInfinite(d) THEN d.hi ELSE Quot(ToSeconds(d), SecondsPerMinute)

Pair(sec, nsec) == [sec |-> sec, nsec |-> nsec]
Latest(d) == IF ~Negative(d) THEN Pair(HiMax, PerSecond - 1) ELSE Pair(HiMin, 0)
DurationToTimespec(d) ==
  LET lo == IF d.hi < 0 THEN d.lo + Unit - 1 ELSE d.lo
  IN  CASE IsInfinite(d) -> Latest(d)
        [] ~IsInfinite(d) /\ lo >= Ticks -> Pair(d.hi + 1, (lo - Ticks) \div Unit)
        [] OTHER -> Pair(d.hi, lo \div Unit)
DurationFromTimespec(ts) ==
  IF ts.nsec \in 0 .. PerSecond - 1 THEN Dur(ts.sec, ts.nsec * Unit)
  ELSE Plus(Dur(ts.sec, 0), FromUnits(ts.nsec))

\* A point in time is a duration since 1970, rounded down.
FloorToUnit(d, unit) ==
  LET r == IDivDuration(TRUE, d, unit) IN IF r.q > 0 \/ ~Negative(r.rem) \/ r.q = HiMin THEN r.q ELSE r.q - 1
ToUnixUnits(d) == IF Short(d) THEN d.hi * PerSecond + d.lo \div Unit ELSE FloorToUnit(d, Dur(0, Unit))
TimeToTimespec(d) == IF IsInfinite(d) THEN Latest(d) ELSE Pair(d.hi, d.lo \div Unit)

-----------------------------------------------------------------------------
(* The same with the integers.                                             *)
Value(d) == d.hi * Ticks + d.lo
Least == HiMin * Ticks
Most  == HiMax * Ticks + Ticks - 1
Saturated(n) ==
  CASE n > Most -> Infinite [] n < Least -> MinusInfinite [] OTHER -> Dur(n \div Ticks, n % Ticks)
Count(n) == CASE n > HiMax -> HiMax [] n < HiMin -> HiMin [] OTHER -> n
Rank(d) == CASE d = Infinite -> Most + 1 [] d = MinusInfinite -> Least - 1 [] OTHER -> Value(d)

Sums(d, e) ==
  LET Exact(op, n) == IsInfinite(d) \/ IsInfinite(e) \/ op = Saturated(n)
  IN  /\ Less(d, e) = (Rank(d) < Rank(e))
      /\ Exact(Plus(d, e), Value(d) + Value(e)) /\ Exact(Minus(d, e), Value(d) - Value(e))
      /\ IsInfinite(d) => Plus(d, e) = d /\ Minus(d, e) = d
      /\ IsInfinite(e) /\ ~IsInfinite(d) => Plus(d, e) = e /\ Minus(d, e) = Opposite(e)
      /\ IF IsInfinite(d) THEN {d, Opposite(d)} = {Infinite, MinusInfinite} ELSE Opposite(d) = Saturated(-Value(d))

Scales(d, r) ==
  /\ Times(d, r)   = IF IsInfinite(d) THEN Signed((d.hi < 0) # (r < 0)) ELSE Saturated(Value(d) * r)
  /\ Divided(d, r) = IF IsInfinite(d) \/ r = 0 THEN Signed((d.hi < 0) # (r < 0)) ELSE Saturated(Quot(Value(d), r))

Divides(d, e) ==
  LET n == Value(d)
      m == Value(e)
      step == Magnitude(m)
      r == IDivDuration(TRUE, d, e)
  IN  IF IsInfinite(d) \/ e = Zero THEN
        r = Division(IF Negative(d) # Negative(e) THEN HiMin ELSE HiMax, Signed(Negative(d)))
      ELSE IF IsInfinite(e) THEN r = Division(0, d) /\ Modulo(d, e) = d
      ELSE /\ r = Division(Count(Quot(n, m)), Saturated(n - Count(Quot(n, m)) * m))
           /\ Modulo(d, e) = Saturated(Remainder(n, m))
           /\ Trunc(d, e) = Saturated(Quot(n, m) * m)
           /\ m # Least => Floor(d, e) = Saturated((n \div step) * step)
           /\ Ceil(d, e) = Saturated(-((-n) \div step) * step)

Converts(d, v) ==
  LET finite == ~IsInfinite(d)
      ts == DurationToTimespec(d)
      down == TimeToTimespec(d)
  IN  /\ ToUnits(FromUnits(v)) = v /\ ToUnixUnits(FromUnits(v)) = v
      /\ FromMinutes(v) = Saturated(v * SecondsPerMinute * Ticks)
      /\ finite => /\ ToUnits(d) = Count(Quot(Value(d), Unit))
                   /\ ToUnixUnits(d) = Count(Value(d) \div Unit)
                   /\ ToSeconds(d) = Quot(Value(d), Ticks)
                   /\ ToMinutes(d) = Quot(Value(d), Ticks * SecondsPerMinute)
                   /\ ts.sec * PerSecond + ts.nsec = Quot(Value(d), Unit)
                   /\ down.sec * PerSecond + down.nsec = Value(d) \div Unit
                   /\ ts.nsec \in 0 .. PerSecond - 1 /\ down.nsec \in 0 .. PerSecond - 1
                   /\ DurationFromTimespec(down) = Saturated((Value(d) \div Unit) * Unit)
      /\ ~finite => ToUnits(d) = d.hi /\ ToSeconds(d) = d.hi /\ ts = down
      /\ DurationFromTimespec(Pair(d.hi, v)) = Saturated(d.hi * Ticks + v * Unit)

\* Arithmetic is that of the integers, or infinite where they leave the range.
ExactOrInfinite(d, e) == Sums(d, e) /\ Scales(d, e.hi) /\ Divides(d, e) /\ Converts(d, e.hi)
=============================================================================
