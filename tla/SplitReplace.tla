---------------------------- MODULE SplitReplace ----------------------------
(***************************************************************************)
(* What takes texts apart and puts them together: StrSplit                 *)
(* (include/bela/str_split.hpp, src/bela/str_split.cc,                     *)
(* include/bela/__strings/str_split_internal.hpp), StrReplaceAll           *)
(* (str_replace.hpp, src/bela/str_replace.cc) and Substitute               *)
(* (src/bela/subsitute.cc).  A text is a sequence of characters.           *)
(***************************************************************************)
EXTENDS Integers, Sequences, SequencesExt

(* StrSplit: the delimiters, the iterator over the pieces, the predicates, *)
(* and the containers that the pieces are put in.  Offsets begin at 0, as  *)
(* in the code; the array that pieces are gathered in has room for Room of *)
(* them, for 16 in the code.  A view that has no text at all, and so no    *)
(* pieces, is left out.                                                    *)

Room == 2
NoLimit == -1

Found(at, len) == [at |-> at, len |-> len]
NotFound(text) == Found(Len(text), 0)
\* The first of the places, for len characters.
FirstOf(places, len, text) ==
  IF places = {} THEN NotFound(text) ELSE Found(CHOOSE i \in places : \A j \in places : i <= j, len)

ByString(text, s, pos) ==
  IF s = <<>> /\ text # <<>> THEN Found(pos + 1, 0)
  ELSE FirstOf({i \in pos .. Len(text) - Len(s) : SubSeq(text, i + 1, i + Len(s)) = s}, Len(s), text)
ByAnyChar(text, set, pos) ==
  IF set = <<>> /\ text # <<>> THEN Found(pos + 1, 0)
  ELSE FirstOf({i \in pos .. Len(text) - 1 : text[i + 1] \in ToSet(set)}, 1, text)
ByLength(text, n, pos) == IF Len(text) - pos <= n THEN NotFound(text) ELSE Found(pos + n, 0)

DelimiterFind(text, d, pos) ==
  CASE d.by = "string" -> ByString(text, d.what, pos)
    [] d.by = "any" -> ByAnyChar(text, d.what, pos)
    [] d.by = "length" -> ByLength(text, d.what, pos)
\* MaxSplits: count is how often it was asked.
MaxSplitsFind(text, d, pos, count) == IF count = d.limit THEN NotFound(text) ELSE DelimiterFind(text, d, pos)

-----------------------------------------------------------------------------
(* StripAsciiWhitespace leaves a text of spaces alone, and looks at no     *)
(* first character from behind.  For an empty text it reads what is in     *)
(* front of it and returns an empty one.                                   *)

StripLeading(s) ==
  LET solid == {i \in DOMAIN s : s[i] # " "}
  IN  IF solid = {} THEN s ELSE SubSeq(s, CHOOSE i \in solid : \A j \in solid : i <= j, Len(s))
StripTrailing(s) ==
  LET solid == {i \in DOMAIN s : i > 1 /\ s[i] # " "}
  IN  IF solid = {} THEN s ELSE SubSeq(s, 1, CHOOSE i \in solid : \A j \in solid : j <= i)

Keeps(p, piece) ==
  CASE p = "AllowEmpty" -> TRUE
    [] p = "SkipEmpty" -> piece # <<>>
    [] p = "SkipWhitespace" -> StripTrailing(StripLeading(piece)) # <<>>

\* SplitIterator::operator++
RECURSIVE Advance(_, _, _, _), Gather(_, _, _, _, _), ToVector(_, _, _, _)
Advance(it, text, d, p) ==
  LET f == MaxSplitsFind(text, d, it.pos, it.count)
      moved == [state |-> IF f.at = Len(text) THEN "last" ELSE it.state, curr |-> SubSeq(text, it.pos + 1, f.at),
                pos |-> f.at + f.len, count |-> it.count + 1]
  IN  CASE it.state = "last" -> [it EXCEPT !.state = "end"]
        [] it.state = "init" -> IF Keeps(p, moved.curr) THEN moved ELSE Advance(moved, text, d, p)
Begin(text, d, p) == Advance([state |-> "init", curr |-> <<>>, pos |-> 0, count |-> 0], text, d, p)

\* ConvertToContainer of a vector: the array is filled, and added to what there is.
Gather(it, ar, text, d, p) ==
  IF Len(ar) = Room \/ it.state = "end" THEN [it |-> it, ar |-> ar]
  ELSE Gather(Advance(it, text, d, p), Append(ar, it.curr), text, d, p)
ToVector(it, text, d, p) ==
  IF it.state = "end" THEN <<>>
  ELSE LET g == Gather(it, <<>>, text, d, p) IN g.ar \o ToVector(g.it, text, d, p)
StrSplit(text, d, p) == ToVector(Begin(text, d, p), text, d, p)

\* ConvertToContainer of a map: a key, and what comes next is its value.
ToMap(pieces) ==
  FoldLeft(LAMBDA m, i : IF i % 2 = 1 THEN IF pieces[i] \in DOMAIN m THEN m ELSE m @@ (pieces[i] :> <<>>)
                         ELSE [m EXCEPT ![pieces[i - 1]] = pieces[i]],
           [k \in {} |-> <<>>], [i \in DOMAIN pieces |-> i])
ToPair(text, d, p) ==
  LET first  == Begin(text, d, p)
      second == Advance(first, text, d, p)
  IN  CASE first.state = "end" -> <<<<>>, <<>>>>
        [] first.state # "end" -> <<first.curr, IF second.state = "end" THEN <<>> ELSE second.curr>>

-----------------------------------------------------------------------------
(* What splitting means.                                                   *)

\* Where a delimiter is, and how long: 0 where the text is only cut.
Width(d) == CASE d.by = "string" -> Len(d.what) [] d.by = "any" -> (IF d.what = <<>> THEN 0 ELSE 1) [] d.by = "length" -> 0
Step(d) == IF d.by = "length" THEN d.what ELSE 1
Delimits(d, s) == CASE d.by = "string" -> s = d.what [] d.by = "any" -> s = <<>> \/ s[1] \in ToSet(d.what) [] OTHER -> TRUE
HasDelimiter(d, s) == \E i \in 1 .. Len(s) - Width(d) + 1 : Delimits(d, SubSeq(s, i, i + Width(d) - 1))

\* The offset of piece k.
Offset(d, pieces, k) == FoldLeft(+, 0, [i \in 1 .. k - 1 |-> Len(pieces[i]) + Width(d)])
\* Pieces and delimiters together are the text; no piece has a delimiter in it, or is longer than
\* what it is cut to, but the last one if there were as many as allowed.
Covers(text, d, pieces) ==
  LET n == Len(pieces)
      Whole(k) == d.limit # NoLimit /\ n = d.limit + 1 /\ k = n
  IN  /\ n >= 1
      /\ d.limit # NoLimit => n <= d.limit + 1
      /\ Offset(d, pieces, n) + Len(pieces[n]) = Len(text)
      /\ \A k \in 1 .. n :
           LET o == Offset(d, pieces, k)
           IN  /\ pieces[k] = SubSeq(text, o + 1, o + Len(pieces[k]))
               /\ k < n => Delimits(d, SubSeq(text, o + Len(pieces[k]) + 1, o + Len(pieces[k]) + Width(d)))
               /\ Width(d) > 0 /\ ~Whole(k) => ~HasDelimiter(d, pieces[k])
               /\ Width(d) = 0 =>
                    /\ k < n => Len(pieces[k]) = Step(d)
                    /\ k = n /\ ~Whole(k) => Len(pieces[k]) <= Step(d)
                    /\ k = n => (Len(pieces[k]) > 0 \/ text = <<>>)

Blank(s) == \A i \in DOMAIN s : s[i] = " "
MapMeans(m, pieces) ==
  /\ DOMAIN m = {pieces[i] : i \in {j \in DOMAIN pieces : j % 2 = 1}}
  /\ \A k \in DOMAIN m :
       LET valued == {i \in DOMAIN pieces : i % 2 = 0 /\ pieces[i - 1] = k}
       IN  IF valued = {} THEN m[k] = <<>> ELSE m[k] = pieces[CHOOSE i \in valued : \A j \in valued : j <= i]
\* Of blank pieces, only the empty ones are sure to be skipped.
SplitsBy(text, d) ==
  LET pieces == [p \in {"AllowEmpty", "SkipEmpty", "SkipWhitespace"} |-> StrSplit(text, d, p)]
      Means(all, some, solid) ==
        /\ Covers(text, d, all)
        /\ some = SelectSeq(all, LAMBDA s : s # <<>>)
        /\ SelectSeq(solid, LAMBDA s : ~Blank(s)) = SelectSeq(all, LAMBDA s : ~Blank(s))
        /\ \A i \in DOMAIN solid : solid[i] # <<>>
        /\ MapMeans(ToMap(all), all)
        /\ ToPair(text, d, "SkipEmpty") = <<IF Len(some) > 0 THEN some[1] ELSE <<>>, IF Len(some) > 1 THEN some[2] ELSE <<>>>>
  IN  \E f \in {pieces} : Means(f["AllowEmpty"], f["SkipEmpty"], f["SkipWhitespace"])
\* What a text is split by.
Delimiters == [any |-> {<<>>, <<",">>, <<",", "a">>}, string |-> {<<>>, <<",">>, <<",", ",">>, <<"a", ",">>}, length |-> 1 .. 3]
Splits(text) ==
  \A by \in {"any", "string", "length"}, n \in {NoLimit, 0, 1, 2} :
    \A x \in Delimiters[by] : SplitsBy(text, [by |-> by, what |-> x, limit |-> n])

-----------------------------------------------------------------------------
(* StrReplaceAll.  A mapping is a sequence of pairs of texts, of which no  *)
(* two replace the same one.                                               *)

Matches(s, old, i) == i + Len(old) - 1 <= Len(s) /\ SubSeq(s, i, i + Len(old) - 1) = old
\* basic_string_view::find, with 0 for npos
Find(s, old, from) ==
  LET at == {i \in from .. Len(s) + 1 : Matches(s, old, i)}
  IN  IF at = {} THEN 0 ELSE CHOOSE i \in at : \A j \in at : i <= j

\* Slip: of two that begin at one place, either may be first.
OccursFirst(x, y) == x.offset < y.offset
OccursBefore(x, y) == x.offset < y.offset \/ (x.offset = y.offset /\ Len(x.old) > Len(y.old))

\* The one at index moves down past those that occur before it: the last of subs then
\* occurs before all others.
RECURSIVE Settle(_, _)
Settle(subs, index) ==
  IF index <= 1 \/ ~OccursBefore(subs[index - 1], subs[index]) THEN subs
  ELSE Settle([subs EXCEPT ![index - 1] = subs[index], ![index] = subs[index - 1]], index - 1)

FindSubstitutions(s, mapping) ==
  FoldLeft(LAMBDA subs, m :
             IF m[1] = <<>> \/ Find(s, m[1], 1) = 0 THEN subs
             ELSE LET more == Append(subs, [old |-> m[1], new |-> m[2], offset |-> Find(s, m[1], 1)])
                  IN  Settle(more, Len(more)),
           <<>>, mapping)

\* From pos on, behind what is in result.
RECURSIVE Apply(_, _, _, _, _)
Apply(s, subs, pos, result, count) ==
  IF subs = <<>> THEN [text |-> result \o SubSeq(s, pos, Len(s)), count |-> count]
  ELSE LET sub == Last(subs)
           applies == sub.offset >= pos
           next == IF applies THEN sub.offset + Len(sub.old) ELSE pos
           offset == Find(s, sub.old, next)
           found == [subs EXCEPT ![Len(subs)].offset = offset]
       IN  Apply(s, IF offset = 0 THEN Front(subs) ELSE Settle(found, Len(subs)), next,
                 IF applies THEN result \o SubSeq(s, pos, sub.offset - 1) \o sub.new ELSE result,
                 IF applies THEN count + 1 ELSE count)

StrReplaceAll(s, mapping) == Apply(s, FindSubstitutions(s, mapping), 1, <<>>, 0)

\* What is meant: from left to right, the longest text that is there is replaced.
RECURSIVE Meant(_, _)
Meant(s, mapping) ==
  LET there == {k \in DOMAIN mapping : mapping[k][1] # <<>> /\ Matches(s, mapping[k][1], 1)}
      longest == CHOOSE k \in there : \A j \in there : Len(mapping[k][1]) >= Len(mapping[j][1])
      rest == Meant(SubSeq(s, Len(mapping[longest][1]) + 1, Len(s)), mapping)
  IN  CASE s = <<>>              -> [text |-> <<>>, count |-> 0]
        [] s # <<>> /\ there = {} -> LET r == Meant(Tail(s), mapping) IN [r EXCEPT !.text = <<s[1]>> \o @]
        [] s # <<>> /\ there # {} -> [text |-> mapping[longest][2] \o rest.text, count |-> rest.count + 1]

Replaces(s, mapping) == StrReplaceAll(s, mapping) = Meant(s, mapping)

-----------------------------------------------------------------------------
(* Substitute appends the format to a text, with its references $0 to $9   *)
(* replaced by the arguments.  Behind the last character of the format the *)
(* code reads one more when that is a $.                                   *)

Numerals == <<"0", "1", "2", "3", "4", "5", "6", "7", "8", "9">>
Next(format, i, behind) == IF i < Len(format) THEN format[i + 1] ELSE behind
Index(c) == CHOOSE k \in 1 .. 10 : Numerals[k] = c

\* The first pass: how long the text becomes, 0 for a format that is not understood.
RECURSIVE Counted(_, _, _, _, _)
Counted(format, i, args, behind, size) ==
  LET c == Next(format, i, behind)
  IN  CASE i > Len(format) -> size
        [] i <= Len(format) /\ format[i] # "$" -> Counted(format, i + 1, args, behind, size + 1)
        [] i <= Len(format) /\ format[i] = "$" /\ c \in ToSet(Numerals) ->
             IF Index(c) > Len(args) THEN 0 ELSE Counted(format, i + 2, args, behind, size + Len(args[Index(c)]))
        [] i <= Len(format) /\ format[i] = "$" /\ c = "$" -> Counted(format, i + 2, args, behind, size + 1)
        [] OTHER -> 0

\* The second pass, which trusts the first.
RECURSIVE Written(_, _, _, _)
Written(format, i, args, behind) ==
  LET c == Next(format, i, behind)
  IN  CASE i > Len(format) -> <<>>
        [] i <= Len(format) /\ format[i] # "$" -> <<format[i]>> \o Written(format, i + 1, args, behind)
        [] i <= Len(format) /\ format[i] = "$" /\ c \in ToSet(Numerals) ->
             args[Index(c)] \o Written(format, i + 2, args, behind)
        [] i <= Len(format) /\ format[i] = "$" /\ c = "$" -> <<"$">> \o Written(format, i + 2, args, behind)
        [] OTHER -> Written(format, i + 1, args, behind)

SubstituteAndAppend(output, format, args, behind) ==
  IF Counted(format, 1, args, behind, 0) = 0 THEN output ELSE output \o Written(format, 1, args, behind)

\* A format in pieces: characters that stand for themselves, and pairs.
PieceOf(p) == CASE p = "reference" -> <<"$", "0">> [] p = "second" -> <<"$", "1">> [] p = "dollar" -> <<"$", "$">>
                [] p = "none" -> <<"$", "2">> [] p = "odd" -> <<"$", "a">> [] OTHER -> <<p>>
\* The pass that counts leaves as much room as the other one needs, and the text is what
\* the pieces mean; a format with a bad piece adds nothing.
Substitutes(pieces, args, behind) ==
  LET format == FlattenSeq([i \in DOMAIN pieces |-> PieceOf(pieces[i])])
      Value(p) == CASE p = "reference" -> args[1] [] p = "second" -> args[2] [] p = "dollar" -> <<"$">> [] OTHER -> <<p>>
      bad == \E i \in DOMAIN pieces : pieces[i] \in {"none", "odd"}
      meant == FlattenSeq([i \in DOMAIN pieces |-> Value(pieces[i])])
      count == Counted(format, 1, args, behind, 0)
  IN  /\ SubstituteAndAppend(<<"o">>, format, args, behind) = <<"o">> \o (IF bad THEN <<>> ELSE meant)
      /\ count # 0 => count = Len(Written(format, 1, args, behind))
=============================================================================
