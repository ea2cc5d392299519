----------------------------- MODULE ParseArgv -----------------------------
(***************************************************************************)
(* bela::ParseArgv (include/bela/parseargv.hpp).  The arguments are        *)
(* sequences of characters.  Three options are registered, by their letter *)
(* and by a name that is that letter; "r" requires a parameter, "n" takes  *)
(* none, "o" may have one.  An optional parameter is a sequence of at most *)
(* one text.                                                               *)
(***************************************************************************)
EXTENDS Naturals, Sequences, SequencesExt

HasArgs == [r |-> "required", n |-> "no", o |-> "optional"]
Names == {<<x>> : x \in DOMAIN HasArgs}
Dash == "-"

Broken == [ok |-> FALSE, call |-> <<>>, used |-> 0]
Call(opt, param) == [opt |-> opt, param |-> param]

\* Slip: the index stays at the option.
WithParameterStay(opt, oa, next) ==
  CASE oa # <<>> /\ HasArgs[opt] = "no" -> Broken
    [] oa = <<>> /\ HasArgs[opt] = "required" ->
         IF next = <<>> THEN Broken ELSE [ok |-> TRUE, call |-> <<Call(opt, <<next[1]>>)>>, used |-> 0]
    [] OTHER -> [ok |-> TRUE, call |-> <<Call(opt, oa)>>, used |-> 0]

\* An option that was found, what is attached to it, and the arguments behind:
\* a required parameter may be the next of them, whatever it looks like.
WithParameter(opt, oa, next) ==
  CASE oa # <<>> /\ HasArgs[opt] = "no" -> Broken
    [] oa = <<>> /\ HasArgs[opt] = "required" ->
         IF next = <<>> THEN Broken ELSE [ok |-> TRUE, call |-> <<Call(opt, <<next[1]>>)>>, used |-> 1]
    [] OTHER -> [ok |-> TRUE, call |-> <<Call(opt, oa)>>, used |-> 0]

\* -x, -xvalue, -x=value
ParseShort(a, next) ==
  IF a[1] \notin DOMAIN HasArgs THEN Broken
  ELSE LET oa == CASE Len(a) = 1 -> <<>>
                   [] Len(a) > 1 /\ a[2] = "=" -> <<SubSeq(a, 3, Len(a))>>
                   [] OTHER -> <<Tail(a)>>
       IN  WithParameter(a[1], oa, next)

\* name, name=value
ParseLong(a, next) ==
  LET equals == {i \in DOMAIN a : a[i] = "="}
      pos    == IF equals = {} THEN Len(a) + 1 ELSE Min(equals)
      name   == SubSeq(a, 1, pos - 1)
      oa     == IF equals = {} THEN <<>> ELSE <<SubSeq(a, pos + 1, Len(a))>>
  IN  IF name \notin Names \/ pos = Len(a) THEN Broken ELSE WithParameter(name[1], oa, next)

ParseInternal(a, next) ==
  CASE Len(a) = 1 -> Broken
    [] Len(a) > 1 /\ a[2] = Dash -> ParseLong(SubSeq(a, 3, Len(a)), next)
    [] OTHER -> ParseShort(Tail(a), next)

\* The calls of the callback and the unresolved arguments; the callback ends the
\* parsing when it is called with the option in refused.
RECURSIVE Execute(_, _, _)
Execute(argv, subcmd, refused) ==
  LET End(ok, calls, uargs) == [ok |-> ok, calls |-> calls, uargs |-> uargs]
      a == argv[1]
  IN
  CASE argv = <<>> -> End(TRUE, <<>>, <<>>)
    [] argv # <<>> /\ subcmd /\ a = <<Dash, Dash>> -> End(TRUE, <<>>, Tail(argv))
    [] argv # <<>> /\ (a = <<>> \/ a[1] # Dash) ->
         IF subcmd THEN End(TRUE, <<>>, argv)
         ELSE LET r == Execute(Tail(argv), subcmd, refused) IN [r EXCEPT !.uargs = <<a>> \o @]
    [] OTHER ->
         LET p == ParseInternal(a, Tail(argv))
             r == Execute(SubSeq(argv, 2 + p.used, Len(argv)), subcmd, refused)
         IN  IF ~p.ok THEN End(FALSE, <<>>, <<>>)
             ELSE IF p.call[1].opt = refused THEN End(FALSE, p.call, <<>>)
             ELSE [r EXCEPT !.calls = p.call \o @]

-----------------------------------------------------------------------------
(* What a user writes: items, each an option in one of its spellings, an   *)
(* argument of its own ("plain"), or the mark "--".                        *)

\* Values that look like options, like the mark and like neither.
Params == {<<"a">>, <<Dash, "n">>, <<Dash, Dash>>, <<"a", "=">>}
Items ==
  {[opt |-> "r", long |-> l, how |-> h, param |-> <<v>>] : l \in BOOLEAN, h \in {"next", "equals"}, v \in Params}
  \union {[opt |-> x, long |-> FALSE, how |-> "joined", param |-> <<v>>] : x \in {"r", "o"}, v \in {<<"a">>, <<Dash, "n">>}}
  \union {[opt |-> x, long |-> l, how |-> "alone", param |-> <<>>] : x \in {"n", "o"}, l \in BOOLEAN}
  \union {[opt |-> "o", long |-> l, how |-> "equals", param |-> <<v>>] : l \in BOOLEAN, v \in {<<"a", "=">>}}
  \union {[opt |-> x, long |-> FALSE, how |-> "none", param |-> <<>>] : x \in {"plain", "mark"}}

Word(item) ==
  CASE item.opt = "plain" -> <<"a">>
    [] item.opt = "mark"  -> <<Dash, Dash>>
    [] OTHER -> (IF item.long THEN <<Dash, Dash, item.opt>> ELSE <<Dash, item.opt>>)
                \o (CASE item.how = "equals" -> <<"=">> \o item.param[1]
                      [] item.how = "joined" -> item.param[1]
                      [] OTHER -> <<>>)
Words(item) == <<Word(item)>> \o (IF item.how = "next" THEN item.param ELSE <<>>)
Spelled(items) == FlattenSeq([i \in DOMAIN items |-> Words(items[i])])

\* What the items say, up to the one that ends the parsing, if any does.
Meaning(items, subcmd, refused) ==
  LET Option(i)  == items[i].opt \notin {"plain", "mark"}
      stops == {i \in DOMAIN items : \/ items[i].opt \in {"mark", refused}
                                     \/ items[i].opt = "plain" /\ subcmd}
      stop  == IF stops = {} THEN Len(items) + 1 ELSE Min(stops)
      rest  == Spelled(SubSeq(items, stop, Len(items)))
      Calls(n)  == SelectSeq([i \in 1 .. n |-> Call(items[i].opt, items[i].param)],
                             LAMBDA c : c.opt \notin {"plain", "mark"})
      Plain(n)  == [k \in 1 .. Cardinality({i \in 1 .. n : items[i].opt = "plain"}) |-> <<"a">>]
  IN  CASE stop > Len(items) -> [ok |-> TRUE, calls |-> Calls(Len(items)), uargs |-> Plain(Len(items))]
        [] stop <= Len(items) /\ items[stop].opt = "plain" ->
             [ok |-> TRUE, calls |-> Calls(stop - 1), uargs |-> rest]
        [] stop <= Len(items) /\ items[stop].opt = "mark" /\ subcmd ->
             [ok |-> TRUE, calls |-> Calls(stop - 1), uargs |-> Tail(rest)]
        [] stop <= Len(items) /\ items[stop].opt = "mark" /\ ~subcmd ->
             [ok |-> FALSE, calls |-> Calls(stop - 1), uargs |-> Plain(stop - 1)]
        [] OTHER -> [ok |-> FALSE, calls |-> Calls(stop), uargs |-> Plain(stop)]

\* Options are understood in all their spellings, in their order, with the
\* parameter that was meant; a command line cut before a required parameter is an
\* error, except behind what ends the options of a command with subcommands.
Understands(items) ==
  \A subcmd \in BOOLEAN, refused \in {"nothing", "o"} :
    LET m == Meaning(items, subcmd, refused)
        words == Spelled(items)
        ended == subcmd /\ \E i \in DOMAIN items : items[i].opt \in {"plain", "mark"}
    IN  /\ Execute(words, subcmd, refused) = m
        /\ items # <<>> /\ Last(items).how = "next" /\ ~ended => ~Execute(Front(words), subcmd, refused).ok
=============================================================================
