------------------------------- MODULE SemVer -------------------------------
(***************************************************************************)
(* bela::semver::version (include/bela/semver.hpp): versions are read from *)
(* text, printed and compared.  Numbers are written with two digits, so    *)
(* that those of ten digits, the most that a word of the code may take,    *)
(* are small.                                                              *)
(***************************************************************************)
EXTENDS Integers, Sequences, SequencesExt

Base == 2
Word == 768  \* the numbers of a word; some of ten digits do not fit

Digits == <<"0", "1">>
IsDigit(c) == c \in ToSet(Digits)
Names == <<<<"-", "a", "l", "p", "h", "a">>, <<"-", "b", "e", "t", "a">>, <<"-", "r", "c">>, <<>>>>
Alpha == 1
None == 4

New == [major |-> 0, minor |-> 0, patch |-> 0, build |-> 0, pre |-> None, num |-> 0]

-----------------------------------------------------------------------------
(* Reading; end is where the next character is, 0 if there was no number.  *)

\* The number at i, and d if there is none that fits a word.
DigitsAt(s, i) ==
  LET ends == {j \in i - 1 .. Len(s) : \A k \in i .. j : IsDigit(s[k])}
  IN  SubSeq(s, i, CHOOSE j \in ends : \A e \in ends : e <= j)
ValueOf(digits) ==
  FoldLeft(LAMBDA t, c : IF t >= Word THEN Word ELSE Base * t + (IF c = Digits[2] THEN 1 ELSE 0), 0, digits)
NumberOf(digits, i, d) ==
  IF digits = <<>> \/ ValueOf(digits) >= Word THEN [end |-> 0, value |-> d]
  ELSE [end |-> i + Len(digits), value |-> ValueOf(digits)]
NumberAt(s, i, d) == NumberOf(DigitsAt(s, i), i, d)

\* check_delimiter
Is(s, i, c) == i \in DOMAIN s /\ s[i] = c

\* The names are compared as far as the text goes, and the whole name is skipped:
\* behind the end of the text nothing that is found there makes the text a version.
PrereleaseAt(s, i, d) ==
  LET Begins(p) == \A k \in DOMAIN Names[p] : i + k - 1 <= Len(s) => s[i + k - 1] = Names[p][k]
      found == {p \in 1 .. 3 : Begins(p)}
      p == CHOOSE q \in found : \A o \in found : q <= o
  IN  IF found = {} THEN [end |-> 0, value |-> d] ELSE [end |-> i + Len(Names[p]), value |-> p]

\* What was tried last is in v, and ends before end.
Tried(v, field, found) == [last |-> field, end |-> found.end, version |-> [v EXCEPT ![field] = found.value]]
Number(r, s, field) ==
  IF Is(s, r.end, ".") THEN Tried(r.version, field, NumberAt(s, r.end + 1, r.version[field])) ELSE r
Prerelease(r, s) ==
  IF Is(s, r.end, "-") /\ r.last # "major" THEN Tried(r.version, "pre", PrereleaseAt(s, r.end, r.version.pre)) ELSE r
PrereleaseNumber(r, s) == IF r.last = "pre" THEN Number(r, s, "num") ELSE r
Judged(r, s) ==
  LET ok == r.end = Len(s) + 1 /\ r.last \in {"patch", "build", "pre", "num"}
  IN  [ok |-> ok, version |-> CASE ok /\ r.last = "patch" -> [r.version EXCEPT !.pre = None, !.num = 0]
                                [] ok /\ r.last = "pre" -> [r.version EXCEPT !.num = 0]
                                [] OTHER -> r.version]

\* from_chars on the version v: what the text has not stays, and what was read stays
\* too when the text turns out to be none.
FromChars(v, s) ==
  LET numbers == FoldLeft(LAMBDA r, field : Number(r, s, field), Tried(v, "major", NumberAt(s, 1, v.major)),
                          <<"minor", "patch", "build">>)
  IN  Judged(PrereleaseNumber(Prerelease(numbers, s), s), s)

\* A leading v and all up to the first slash is skipped.
Skipped(s) == IF Is(s, 1, "v") THEN Tail(s) ELSE s
FromString(s) ==
  LET t == Skipped(s)
      slashes == {i \in DOMAIN t : t[i] = "/"}
  IN  FromChars(New, IF slashes = {} THEN t
                     ELSE SubSeq(t, (CHOOSE i \in slashes : \A j \in slashes : i <= j) + 1, Len(t)))

-----------------------------------------------------------------------------
(* Printing: the length is counted first, then the characters are put down *)
(* from its end.                                                           *)

Spelled[x \in 0 .. Word - 1] ==
  IF x < Base THEN <<Digits[x + 1]>> ELSE Append(Spelled[x \div Base], Digits[(x % Base) + 1])

\* length(); numbers of seven digits are taken for some of six.
Counted(x) == IF Len(Spelled[x]) = 7 THEN 6 ELSE Len(Spelled[x])

StringLength(v) ==
  Counted(v.major) + Counted(v.minor) + Counted(v.patch) + 2
    + (IF v.build # 0 THEN Counted(v.build) + 1 ELSE 0)
    + (IF v.pre = None THEN 0 ELSE Len(Names[v.pre]) + (IF v.num # 0 THEN Counted(v.num) + 1 ELSE 0))

\* to_chars: all the characters that are put down.
Dotted(x) == <<".">> \o Spelled[x]
Written(v) ==
  Spelled[v.major] \o Dotted(v.minor) \o Dotted(v.patch)
    \o (IF v.build # 0 THEN Dotted(v.build) ELSE <<>>)
    \o Names[v.pre] \o (IF v.pre # None /\ v.num # 0 THEN Dotted(v.num) ELSE <<>>)

\* make_string_version: the string has the length that was counted, and what is put
\* down in front of it is lost (it is written before the buffer).
Printed(v) == LET all == Written(v) IN SubSeq(all, Len(all) - StringLength(v) + 1, Len(all))

\* The first difference, as the int that it is cast to.
Signed(x) == LET w == x % Word IN IF w >= Word \div 2 THEN w - Word ELSE w

\* Slip: a version without a build comes before those with its pre-releases.
FieldsPreFirst == <<"major", "minor", "patch", "pre", "build", "num">>
Fields == <<"major", "minor", "patch", "build", "pre", "num">>

Compare(v, u) ==
  LET differ == {i \in DOMAIN Fields : v[Fields[i]] # u[Fields[i]]}
      first == Fields[CHOOSE i \in differ : \A j \in differ : i <= j]
  IN  IF differ = {} THEN 0 ELSE Signed(v[first] - u[first])

-----------------------------------------------------------------------------
(* Texts in pieces, of which these are the ones with more than a character *)

Pieces == {"0", "big", ".", "1.", "1.1.", "alpha", "al", "rc.", "v/"}
Characters(piece) ==
  CASE piece = "1." -> <<"1", ".">>
    [] piece = "1.1." -> <<"1", ".", "1", ".">>
    [] piece = "big" -> [i \in 1 .. 10 |-> "1"]
    [] piece = "alpha" -> Names[Alpha]
    [] piece = "al" -> SubSeq(Names[Alpha], 1, 3)
    [] piece = "rc." -> Append(Names[3], ".")
    [] piece = "v/" -> <<"v", "/">>
    [] OTHER -> <<piece>>
TextOf(pieces) == FlattenSeq([i \in DOMAIN pieces |-> Characters(pieces[i])])

\* What a version may look like: n for a number, p for a name.
Cores == {<<"n", ".", "n", ".", "n">>, <<"n", ".", "n", ".", "n", ".", "n">>}
Shapes == Cores \cup {c \o p : c \in Cores \cup {<<"n", ".", "n">>}, p \in {<<"p">>, <<"p", ".", "n">>}}

ShapeOf(pieces) ==
  LET Shape(piece) == CASE piece = "0" -> <<"n">>
                        [] piece = "1." -> <<"n", ".">>
                        [] piece = "1.1." -> <<"n", ".", "n", ".">>
                        [] piece = "alpha" -> <<"p">>
                        [] piece = "rc." -> <<"p", ".">>
                        [] OTHER -> <<piece>>
      all == FlattenSeq([i \in DOMAIN pieces |-> Shape(pieces[i])])
  IN  FlattenSeq([i \in DOMAIN all |-> IF all[i] = "n" /\ Is(all, i + 1, "n") THEN <<>> ELSE <<all[i]>>])

NumbersOf(v) == {v.major, v.minor, v.patch, v.build, v.num}

\* length() is right but for seven digits: of a version with such a number the first
\* character is lost, and nothing is claimed.
CountedRight(v) == \A x \in NumbersOf(v) : Len(Spelled[x]) # 7

\* A text is a version if it looks like one, and the version is printed as a text
\* that reads back to it.
ReadAs(got, pieces) ==
  /\ (\A i \in DOMAIN pieces : pieces[i] \notin {"v/", "big"}) => (got.ok <=> ShapeOf(pieces) \in Shapes)
  /\ got.ok /\ CountedRight(got.version) => FromString(Printed(got.version)) = got
ReadsWhatLooksLikeOne(pieces) == ReadAs(FromString(TextOf(pieces)), pieces)

\* The numbers that versions are tried with: of one, six, seven, nine and ten digits.
Numbers == {0, 1, 32, 64, 600}
Versions ==
  {v \in [major : Numbers, minor : {0, 3}, patch : {0}, build : {0, 300}, pre : 1 .. None, num : {0, 7, 40}] :
     v.pre = None => v.num = 0}

\* The characters fill the length that was counted, none in front of the string, and
\* read back to the version.
PrintsItself(v) ==
  CountedRight(v) => /\ Len(Written(v)) = StringLength(v)
                     /\ FromString(Printed(v)) = [ok |-> TRUE, version |-> v]

\* Versions come in the order of their numbers, the build before the name, as long
\* as no number takes more than half of a word.
Precedence == <<"major", "minor", "patch", "build", "pre", "num">>
Before(v, u) ==
  \E i \in DOMAIN Precedence : /\ v[Precedence[i]] < u[Precedence[i]]
                               /\ \A j \in 1 .. i - 1 : v[Precedence[j]] = u[Precedence[j]]
Orders(v, u) ==
  (\A x \in NumbersOf(v) \cup NumbersOf(u) : x < Word \div 2)
    => (Compare(v, u) < 0 <=> Before(v, u)) /\ (Compare(v, u) = 0 <=> v = u)
=============================================================================
