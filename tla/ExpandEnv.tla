----------------------------- MODULE ExpandEnv -----------------------------
(***************************************************************************)
(* ExpandEnv and PathExpand (belawin/simulator.cc and the methods of       *)
(* Simulator).  A text is a sequence of characters; "a" stands for letters *)
(* and digits of a name, "@" for the names of one special character, "/"   *)
(* for a character that no name has.  Env maps names to their values.      *)
(***************************************************************************)
EXTENDS Naturals, Sequences, SequencesExt

CONSTANTS Env, Home

IsSpecial(c) == c = "@"
IsAlphanum(c) == c = "a"
\* The end of the name that s begins with.
NameLength(s) == CHOOSE n \in 0 .. Len(s) : /\ \A i \in 1 .. n : IsAlphanum(s[i])
                                           /\ n < Len(s) => ~IsAlphanum(s[n + 1])

Reference(name, off) == [name |-> name, off |-> off]

\* Slip: one character too few is skipped.
ResolveShort(s) ==
  IF IsSpecial(s[1]) THEN Reference(<<s[1]>>, 1)
  ELSE IF s[1] = "{" /\ "}" \in {s[i] : i \in 2 .. Len(s)}
       THEN LET close == CHOOSE i \in DOMAIN s : s[i] = "}" /\ \A j \in 2 .. i - 1 : s[j] # "}"
            IN  Reference(SubSeq(s, 2, close - 1), close - 1)
       ELSE Reference(SubSeq(s, 1, NameLength(s)), NameLength(s))

\* The name behind a "$" and how much of the text it takes.  The name of a special
\* character in braces has the closing one in it.
ResolveShellName(s) ==
  LET close == {i \in 2 .. Len(s) : s[i] = "}"}
      first == CHOOSE i \in close : \A j \in close : i <= j
  IN  CASE s[1] = "{" /\ Len(s) > 2 /\ IsSpecial(s[2]) /\ s[3] = "}" -> Reference(SubSeq(s, 2, 3), 3)
        [] s[1] = "{" /\ ~(Len(s) > 2 /\ IsSpecial(s[2]) /\ s[3] = "}") ->
             IF close = {} THEN Reference(<<>>, 1) ELSE Reference(SubSeq(s, 2, first - 1), first)
        [] IsSpecial(s[1]) -> Reference(<<s[1]>>, 1)
        [] OTHER -> Reference(SubSeq(s, 1, NameLength(s)), NameLength(s))

\* What has no value vanishes; a "$" that no name follows stays.
RECURSIVE Expand(_)
Expand(raw) ==
  IF raw = <<>> THEN <<>>
  ELSE IF raw[1] # "$" \/ Len(raw) = 1 THEN <<raw[1]>> \o Expand(Tail(raw))
  ELSE LET r == ResolveShellName(Tail(raw))
           value == CASE r.name = <<>> /\ r.off = 0 -> <<"$">>
                      [] r.name \in DOMAIN Env -> Env[r.name]
                      [] OTHER -> <<>>
       IN  value \o Expand(SubSeq(raw, 2 + r.off, Len(raw)))

Backslashes(s) == [i \in DOMAIN s |-> IF s[i] = "/" THEN "\\" ELSE s[i]]
PathExpand(raw) ==
  CASE raw = <<"~">> -> Home
    [] Len(raw) > 1 /\ raw[1] = "~" /\ raw[2] \in {"/", "\\"} ->
         Backslashes(Home \o <<"\\">> \o Expand(SubSeq(raw, 3, Len(raw))))
    [] OTHER -> Backslashes(Expand(raw))

-----------------------------------------------------------------------------
(* What a user writes: pieces of text, and references in one of the        *)
(* spellings of a name.                                                    *)
Names == {<<"a">>, <<"a", "a">>}
Pieces == [how : {"bare", "braced"}, text : Names] \union [how : {"special"}, text : {<<"@">>}]
          \union [how : {"plain"}, text : {<<"a">>, <<"/">>, <<"}">>, <<"~">>}]
          \union [how : {"dollar"}, text : {<<"$">>}]
Written(p) ==
  CASE p.how \in {"bare", "special"} -> <<"$">> \o p.text
    [] p.how = "braced" -> <<"$", "{">> \o p.text \o <<"}">>
    [] OTHER -> p.text
Meant(p) ==
  CASE p.how \in {"plain", "dollar"} -> p.text
    [] p.text \in DOMAIN Env -> Env[p.text]
    [] OTHER -> <<>>
Each(Op(_), s) == FlattenSeq([i \in DOMAIN s |-> Op(s[i])])

\* A name without braces ends where the next piece does not go on with it, and a "$"
\* is one of its own if no reference can be read from it.
Unambiguous(pieces) ==
  \A i \in 1 .. Len(pieces) - 1 :
    /\ pieces[i].how = "bare" => Written(pieces[i + 1])[1] # "a"
    /\ pieces[i].how = "dollar" => Written(pieces[i + 1])[1] \notin {"a", "@", "{"}

\* Texts are expanded to what was meant, once: a value is not expanded again; and
\* paths have backslashes and the home directory for a tilde in front.
ExpandsAsMeant(pieces) ==
  LET raw  == Each(Written, pieces)
      meant == Each(Meant, pieces)
      tilde == Len(pieces) > 1 /\ pieces[1].text = <<"~">> /\ pieces[2].text = <<"/">>
  IN  Unambiguous(pieces) =>
        /\ Expand(raw) = meant
        /\ PathExpand(raw) = IF raw = <<"~">> THEN Home
                             ELSE Backslashes(IF tilde THEN Home \o Tail(meant) ELSE meant)
=============================================================================
