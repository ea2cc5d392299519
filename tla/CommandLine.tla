---------------------------- MODULE CommandLine ----------------------------
(***************************************************************************)
(* EscapeArgv (include/bela/escapeargv.hpp), which writes arguments as one *)
(* command line, and Tokenizer (include/bela/tokenizecmdline.hpp), which   *)
(* reads them back.  A text is a sequence of characters: "space" (or tab), *)
(* "break" (a line feed or carriage return), "quote", "slash" (backslash)  *)
(* and letters, the null character, which ends an argument for the         *)
(* Tokenizer too, not being one of them.                                   *)
(***************************************************************************)
EXTENDS Naturals, Sequences

Slashes(n) == [i \in 1 .. n |-> "slash"]
Whitespace == {"space", "break"}
Has(arg, c) == \E i \in DOMAIN arg : arg[i] = c

\* What is written of an argument up to a character, and how many backslashes
\* are before it: those before a quote are written twice.
EscapeChar(done, c) ==
  CASE c = "slash" -> [text |-> Append(done.text, c), slashes |-> done.slashes + 1]
    [] c = "quote" -> [text |-> done.text \o Slashes(done.slashes + 1) \o <<c>>, slashes |-> 0]
    [] OTHER       -> [text |-> Append(done.text, c), slashes |-> 0]
Escaped(arg) ==
  LET done[n \in 0 .. Len(arg)] ==
        IF n = 0 THEN [text |-> <<>>, slashes |-> 0] ELSE EscapeChar(done[n - 1], arg[n])
  IN  done
Body(arg) == Escaped(arg)[Len(arg)]

\* Slip: the backslashes before the closing quote are written once.
ArgTextOpenEnd(arg) ==
  IF arg = <<>> THEN <<"quote", "quote">>
  ELSE IF Has(arg, "space") THEN <<"quote">> \o Body(arg).text \o <<"quote">> ELSE Body(arg).text

\* One argument: quoted if it is empty or has a space, with the backslashes at its
\* end doubled too.
ArgText(arg) ==
  IF arg = <<>> THEN <<"quote", "quote">>
  ELSE IF Has(arg, "space") THEN <<"quote">> \o Body(arg).text \o Slashes(Body(arg).slashes) \o <<"quote">>
  ELSE Body(arg).text

AppendArg(saver, arg) == saver \o (IF saver = <<>> THEN <<>> ELSE <<"space">>) \o ArgText(arg)

\* What is in the saver stays: AssignFull does not clear it.
Assigned(saver, args) ==
  LET line[n \in 0 .. Len(args)] == IF n = 0 THEN saver ELSE AppendArg(line[n - 1], args[n]) IN line
AssignFull(saver, args) == Assigned(saver, args)[Len(args)]

\* How many backslashes there are from i on: each pair is one before a quote, an
\* odd one makes the quote literal; elsewhere they are what they are.
IsRun(src, i, k) ==
  /\ \A j \in i .. i + k - 1 : src[j] = "slash"
  /\ i + k > Len(src) \/ src[i + k] # "slash"
ParseBackslash(src, i) ==
  LET n == CHOOSE k \in 1 .. Len(src) - i + 1 : IsRun(src, i, k)
      quoted == i + n <= Len(src) /\ src[i + n] = "quote"
  IN  IF ~quoted THEN [chars |-> Slashes(n), next |-> i + n]
      ELSE IF n % 2 = 0 THEN [chars |-> Slashes(n \div 2), next |-> i + n]
      ELSE [chars |-> Append(Slashes(n \div 2), "quote"), next |-> i + n + 1]

StripTrailingWhitespace(src) ==
  LET ends == {i \in DOMAIN src : src[i] \notin Whitespace}
  IN  IF ends = {} THEN <<>> ELSE SubSeq(src, 1, CHOOSE i \in ends : \A j \in ends : j <= i)

\* The state machine: what is to be read next, and the argument that is being read
\* behind those that are done.
Reading(next, state, token, done) == [next |-> next, state |-> state, token |-> token, done |-> done]
Inside(state) == IF state = "INIT" THEN "UNQUOTED" ELSE state
ReadChar(src, i, r) ==
  LET c == src[i]
      b == ParseBackslash(src, i)
      twice == i < Len(src) /\ src[i + 1] = "quote"
  IN  CASE c = "slash" -> Reading(b.next, Inside(r.state), r.token \o b.chars, r.done)
        [] c = "quote" /\ r.state = "QUOTED" ->
             IF twice THEN Reading(i + 2, r.state, Append(r.token, c), r.done)
             ELSE Reading(i + 1, "UNQUOTED", r.token, r.done)
        [] c = "quote" /\ r.state # "QUOTED" -> Reading(i + 1, "QUOTED", r.token, r.done)
        [] c \in Whitespace /\ r.state = "INIT" -> Reading(i + 1, r.state, r.token, r.done)
        [] c \in Whitespace /\ r.state = "UNQUOTED" -> Reading(i + 1, "INIT", <<>>, Append(r.done, r.token))
        [] OTHER -> Reading(i + 1, Inside(r.state), Append(r.token, c), r.done)
\* A character that was read with the one before is passed over.
Advance(src, i, r) == IF r.next = i THEN ReadChar(src, i, r) ELSE r
Reads(src) ==
  LET read[i \in 0 .. Len(src)] ==
        IF i = 0 THEN Reading(1, "INIT", <<>>, <<>>) ELSE Advance(src, i, read[i - 1])
  IN  read
LastRead(src) == Reads(src)[Len(src)]

Scan(src) == Append(LastRead(src).done, LastRead(src).token)
Tokenize(line) ==
  LET src == StripTrailingWhitespace(line)
  IN  IF src = <<>> THEN <<>> ELSE Scan(src)

\* The arguments written are the arguments read, unless one of them has a line
\* break, which is white space to the Tokenizer, and no space, so that it is not
\* quoted; and another line can be written behind.
Safe(arg) == Has(arg, "break") => Has(arg, "space")
RoundTrips(args) ==
  /\ Tokenize(AssignFull(<<>>, args)) = args <=> \A i \in DOMAIN args : Safe(args[i])
  /\ (\A i \in DOMAIN args : Safe(args[i]))
       => Tokenize(AssignFull(AssignFull(<<>>, args), args)) = args \o args
=============================================================================
