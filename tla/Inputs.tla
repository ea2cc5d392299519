------------------------------- MODULE Inputs -------------------------------
(***************************************************************************)
(* Inputs of the pure parts: what is being asked about, and a sequence of  *)
(* tokens that grows by one in every step.  The properties here are of     *)
(* parts that AlgorithmProofs reasons about; the others are in Algorithms. *)
(***************************************************************************)
EXTENDS Integers, Sequences, SearchPath, DateTime

CONSTANTS Exts,       \* a list of extensions, and what exists where
          Placements,
          Alphabet,   \* of each question, its tokens
          MaxLen,     \* and how many of them make an input
          Half        \* the bits of half a word
\* The words, units and seconds of Durations.
CONSTANTS HiMax, LoWord, Unit, PerSecond, SecondsPerMinute, ShortSeconds

\* Entries of a search path; chunks of the days of the calendar, and numbers.
ASSUME TokensAssumption ==
  /\ "SearchPath" \in DOMAIN Alphabet => Alphabet["SearchPath"] \subseteq Entries
  /\ \A w \in DOMAIN Alphabet \cap {"DateTime", "Wide numbers", "Wide shifts"} : Alphabet[w] \subseteq Int
ASSUME CharactersAreTexts == "CommandLine" \in DOMAIN Alphabet => Alphabet["CommandLine"] \subseteq STRING
ASSUME HalfAssumption == Half \in Nat \ {0}
\* What powers are is said here, since they mean nothing to the provers.
ASSUME PowersOfTwo == 2^0 = 1 /\ \A i \in 0 .. 4 * Half : 2^(i + 1) = 2 * 2^i

\* A word holds more than the ticks of a second; what is short fits into one.
ASSUME DurationAssumption ==
  /\ HiMax \in Nat \ {0} /\ Unit \in Nat \ {0} /\ PerSecond \in Nat \ {0, 1} /\ SecondsPerMinute \in Nat \ {0}
  /\ LoWord \in Nat /\ LoWord > PerSecond * Unit
  /\ ShortSeconds \in Nat /\ ShortSeconds * PerSecond <= HiMax + 1

WI == INSTANCE Int128
DU == INSTANCE Durations
CL == INSTANCE CommandLine
ASSUME TokensAreDurations == "Durations" \in DOMAIN Alphabet => Alphabet["Durations"] \subseteq DU!Durations

VARIABLES what, input
vars == <<what, input>>

Init == what \in DOMAIN Alphabet /\ input = <<>>

Extend == /\ Len(input) < MaxLen[what]
          /\ \E t \in Alphabet[what] : input' = Append(input, t)
          /\ UNCHANGED what

Spec == Init /\ [][Extend]_vars

\* The parts of the input between the tokens sep.
AddToken(parts, t, sep) ==
  IF t = sep THEN Append(parts, <<>>) ELSE [parts EXCEPT ![Len(parts)] = Append(@, t)]
Parts(s, sep) ==
  LET parts[n \in 0 .. Len(s)] == IF n = 0 THEN <<<<>>>> ELSE AddToken(parts[n - 1], s[n], sep)
  IN  parts[Len(s)]

-----------------------------------------------------------------------------
(* escapeargv.hpp, tokenizecmdline.hpp: a command line gives back the      *)
(* arguments it was made of, line breaks without a space excepted.         *)
CommandLineRoundTrips ==
  what = "CommandLine" => CL!RoundTrips(Parts(input, ","))
(* simulator.cc: cleaned and with its duplicates removed, a search path    *)
(* finds the executable its cleaned entries find, and the same as before   *)
(* if each of them is the directory it was.                                *)
OrganizeKeepsAnswer ==
  what = "SearchPath" => \A Files \in Placements : KeepsAnswer(input, Exts, Files)
(* datetime.cc, dos.cc: dates follow the calendar and give back the time.  *)
(* Two tokens are a chunk of a year's days out of the 400 years from 1760. *)
DatesFollowTheCalendar ==
  what = "DateTime" /\ Len(input) = 2 =>
    LET first == -76701 + 366 * (20 * input[1] + input[2]) IN FollowsTheCalendar(first .. first + 365)
(* duration.cc, time.cc: arithmetic on durations is that of the integers,  *)
(* or saturates at the infinities; counts of units, seconds and minutes    *)
(* are those of the integers too, and bounded by a word.                   *)
DurationsExactOrInfinite ==
  what = "Durations" /\ Len(input) = 2 => DU!ExactOrInfinite(input[1], input[2])
(* int128.hpp, int128.cc: numbers of two words are added, multiplied,      *)
(* divided and shifted as the integers are.                                *)
WideNumbersExact ==
  /\ what = "Wide numbers" /\ Len(input) = 2 => WI!Exact(input[1], input[2])
  /\ what = "Wide shifts" => \A i \in DOMAIN input : WI!ShiftsExact(input[i])
=============================================================================
