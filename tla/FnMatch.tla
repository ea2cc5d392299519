------------------------------ MODULE FnMatch ------------------------------
(***************************************************************************)
(* Wildcards (src/bela/__fnmatch/fnmatch.cc).  Patterns and texts are      *)
(* sequences of characters, "bs" the backslash; flags is a subset of       *)
(* {"NoEscape", "PathName", "Period", "LeadingDir", "Dot"}.  A star reads  *)
(* a character under Period even where the text has ended: "Dot", which is *)
(* no flag of the code, says that a period is found there, behind it.      *)
(***************************************************************************)
EXTENDS Naturals, Sequences, SequencesExt

Code(c) == CASE c = "*" -> 42 [] c = "." -> 46 [] c = "/" -> 47 [] c = "bs" -> 92 [] OTHER -> 97
From(s, i) == SubSeq(s, i, Len(s))
Has(s, c) == \E i \in DOMAIN s : s[i] = c

-----------------------------------------------------------------------------
(* rangematch: the characters of a bracket up to the first that matches,   *)
(* then the closing bracket.  A bad bracket ends in an escape.             *)

RECURSIVE SetHas(_, _, _)
SetHas(p, rune, esc) ==
  IF Len(p) <= 1 \/ p[1] = "]" THEN [matched |-> FALSE, bad |-> FALSE, rest |-> p]
  ELSE
  LET escaped == esc /\ p[1] = "bs"
      c       == IF escaped THEN p[2] ELSE p[1]
      rest1   == From(p, IF escaped THEN 3 ELSE 2)
      range   == Len(rest1) > 1 /\ rest1[1] = "-" /\ rest1[2] # "]"
      escaped2 == range /\ esc /\ rest1[2] = "bs"
      c2      == IF ~range THEN c ELSE IF escaped2 THEN rest1[3] ELSE rest1[2]
      rest2   == IF ~range THEN rest1 ELSE From(rest1, IF escaped2 THEN 4 ELSE 3)
  IN  IF (escaped /\ Len(p) <= 2) \/ (escaped2 /\ Len(rest1) = 2)
      THEN [matched |-> FALSE, bad |-> TRUE, rest |-> p]
      ELSE IF (range /\ Code(c) <= Code(rune) /\ Code(rune) <= Code(c2)) \/ (~range /\ c = rune)
      THEN [matched |-> TRUE, bad |-> FALSE, rest |-> rest2]
      ELSE SetHas(rest2, rune, esc)

RECURSIVE Closing(_)
Closing(p) ==
  CASE p = <<>> -> [ok |-> FALSE, rest |-> p]
    [] p # <<>> /\ p[1] = "bs" /\ Len(p) > 1 -> Closing(From(p, 3))
    [] p # <<>> /\ p[1] = "]" -> [ok |-> TRUE, rest |-> Tail(p)]
    [] OTHER -> Closing(Tail(p))

RangeMatch(p, rune, flags) ==
  LET negate == p # <<>> /\ p[1] \in {"^", "!"}
      set    == SetHas(IF negate THEN Tail(p) ELSE p, rune, "NoEscape" \notin flags)
      close  == Closing(set.rest)
  IN  [ok |-> p # <<>> /\ ~set.bad /\ close.ok /\ set.matched # negate, rest |-> close.rest]

-----------------------------------------------------------------------------
(* FnMatchInternal.  last is the character of the text read before, or     *)
(* "start".                                                                *)

\* Is a period here one that only a period matches.
Leading(last, flags) ==
  "Period" \in flags /\ (last = "start" \/ ("PathName" \in flags /\ last = "/"))

\* Slip: what a star is tried on goes on behind a slash.
StarTriesAnywhere(s, flags) == 1 .. Len(s)

\* Where the rest of the pattern behind a star is tried: at every character up
\* to the first slash, never at the end of the text.
StarTries(s, flags) ==
  {i \in 1 .. Len(s) : "PathName" \in flags => \A j \in 1 .. i - 1 : s[j] # "/"}

RECURSIVE Match(_, _, _, _)
Match(pattern, s, last, flags) ==
  LET pathname == "PathName" \in flags
      c        == pattern[1]
      rest     == Tail(pattern)
      Go(p)    == Match(p, Tail(s), s[1], flags)
      escaped  == c = "bs" /\ "NoEscape" \notin flags /\ rest # <<>>
      Literal(x, p) == s # <<>> /\ s[1] = x /\ Go(p)
      Star(p)  == \* behind the star and one more
        LET slash == CHOOSE i \in DOMAIN s : s[i] = "/" /\ \A j \in 1 .. i - 1 : s[j] # "/"
        IN  /\ ~((IF s = <<>> THEN "Dot" \in flags ELSE s[1] = ".") /\ Leading(last, flags))
            /\ CASE p = <<>> -> pathname => ("LeadingDir" \in flags \/ ~Has(s, "/"))
                 [] p # <<>> /\ pathname /\ p[1] = "/" ->
                      Has(s, "/") /\ Match(Tail(p), From(s, slash + 1), "/", flags)
                 [] OTHER ->
                      \E i \in StarTries(s, flags) : Match(p, From(s, i), "start", flags \ {"Period"})
  IN  IF pattern = <<>> THEN s = <<>> \/ ("LeadingDir" \in flags /\ s[1] = "/")
      ELSE CASE c = "?" -> /\ s # <<>> /\ ~(pathname /\ s[1] = "/")
                           /\ ~(s[1] = "." /\ Leading(last, flags)) /\ Go(rest)
             [] c = "*" -> Star(IF rest # <<>> /\ rest[1] = "*" THEN Tail(rest) ELSE rest)
             [] c = "[" -> /\ s # <<>> /\ ~(pathname /\ s[1] = "/")
                           /\ LET r == RangeMatch(rest, s[1], flags) IN r.ok /\ Go(r.rest)
             [] c \notin {"?", "*", "["} /\ escaped  -> Literal(rest[1], Tail(rest))
             [] OTHER -> Literal(c, rest)

FnMatch(pattern, text, flags) == Match(pattern, text, "start", flags)

-----------------------------------------------------------------------------
(* The reference, on patterns of elements: a character, a set of them, "?" *)
(* or "*".  Chars are the characters of an element.                        *)

Element == [a |-> <<"a">>, slash |-> <<"/">>, any |-> <<"?">>, star |-> <<"*">>,
            range |-> <<"[", "/", "-", "a", "]">>, other |-> <<"[", "!", "a", "]">>,
            escaped |-> <<"bs", "*">>]
Written(els) == FlattenSeq([i \in DOMAIN els |-> Element[els[i]]])

OneChar(e, c, pathname) ==
  CASE e = "a" -> c = "a" [] e = "slash" -> c = "/" [] e = "escaped" -> c = "*"
    [] OTHER -> /\ ~(pathname /\ c = "/")
                /\ CASE e = "any" -> TRUE [] e = "range" -> c \in {"/", "a"} [] e = "other" -> c # "a"

\* The elements from the i-th on match the text from the j-th character on.
Matches(els, s, flags) ==
  LET pathname == "PathName" \in flags
      m[i \in 1 .. Len(els) + 1, j \in 1 .. Len(s) + 1] ==
        IF i > Len(els) THEN j > Len(s) \/ ("LeadingDir" \in flags /\ s[j] = "/")
        ELSE IF els[i] = "star"
        THEN \E k \in j .. Len(s) + 1 :
               m[i + 1, k] /\ (pathname => \A x \in j .. k - 1 : s[x] # "/")
        ELSE j <= Len(s) /\ OneChar(els[i], s[j], pathname) /\ m[i + 1, j + 1]
  IN  m[1, 1]

\* FnMatch is what the pattern says, on every text, but for three stars in a row;
\* with Period it matches less, whatever is behind the text, and no leading period
\* by a wildcard.
SaysThePattern(els, texts) ==
  \A s \in texts :
    /\ (\A i \in 1 .. Len(els) - 2 : \E j \in i .. i + 2 : els[j] # "star")
         => \A flags \in SUBSET {"PathName", "LeadingDir"} :
              FnMatch(Written(els), s, flags) = Matches(els, s, flags)
    /\ \A behind \in SUBSET {"Dot"} : FnMatch(Written(els), s, {"PathName", "Period"} \cup behind)
         => /\ FnMatch(Written(els), s, {"PathName"} \cup behind)
            /\ s # <<>> /\ s[1] = "." => els[1] \notin {"any", "star"}
=============================================================================
