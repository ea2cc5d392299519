------------------------------- MODULE Format -------------------------------
(***************************************************************************)
(* StrFormat (src/bela/__format): a format of literals and directives, its *)
(* arguments, and a string or a buffer that takes the text.  A text is a   *)
(* sequence of characters.  The digits of a double are two characters, its *)
(* style and its precision, and none when they do not fit the 64 that they *)
(* are written to.  Integers are far from the ends of their words, and     *)
(* those that are taken for a code point or an address are not negative.   *)
(***************************************************************************)
EXTENDS Integers, Sequences, SequencesExt

CONSTANT Utf16 \* of each code point in use, its UTF-16

-----------------------------------------------------------------------------
(* What takes the text: cap is the length of the buffer.                   *)

NoCap == 1000 \* a string
Empty(cap) == [text |-> <<>>, cap |-> cap, ow |-> FALSE]
Push(w, c) == IF Len(w.text) < w.cap THEN [w EXCEPT !.text = Append(@, c)] ELSE [w EXCEPT !.ow = TRUE]
\* A text that would fill the last unit is refused: there the terminating zero is to go.
Put(w, s) == IF Len(w.text) + Len(s) < w.cap THEN [w EXCEPT !.text = @ \o s] ELSE [w EXCEPT !.ow = TRUE]
Fill(w, c, n) == FoldLeft(Push, w, [i \in 1 .. n |-> c])

\* A directive d is [pc, left, width, prec].
Pad(w, s, d) ==
  LET n == IF d.width <= Len(s) THEN 0 ELSE d.width - Len(s)
  IN  IF d.left THEN Fill(Put(w, s), d.pc, n) ELSE Put(Fill(w, d.pc, n), s)
\* Slip: the sign comes behind the zeros.
PadNegativeOutside(w, s, d) == Pad(w, <<"-">> \o s, d)
PadNegative(w, s, d) ==
  LET n == IF d.width <= Len(s) + 1 THEN 0 ELSE d.width - 1 - Len(s)
  IN  CASE n = 0 \/ d.left -> Fill(Put(Push(w, "-"), s), d.pc, n)
        [] n > 0 /\ ~d.left /\ d.pc = "0" -> Put(Fill(Push(w, "-"), "0", n), s)
        [] OTHER -> Put(Push(Fill(w, d.pc, n), "-"), s)
Numeric(w, s, negative, d) == IF negative THEN PadNegative(w, s, d) ELSE Pad(w, s, d)

-----------------------------------------------------------------------------
(* The verbs.  An argument is [type, value], a double has a large one when *)
(* it takes more than 64 characters.                                       *)

Digits == <<"0", "1", "2", "3", "4", "5", "6", "7", "8", "9">>
Letters(upper) == IF upper THEN <<"A", "B", "C", "D", "E", "F">> ELSE <<"a", "b", "c", "d", "e", "f">>
Magnitude(v) == IF v < 0 THEN -v ELSE v
RECURSIVE ToChars(_, _, _)
ToChars(n, base, upper) ==
  LET last == <<(Digits \o Letters(upper))[(n % base) + 1]>>
  IN  IF n < base THEN last ELSE ToChars(n \div base, base, upper) \o last

\* append_fixed, append_scientific, append_double_hex
Double(w, a, style, d) ==
  IF a.large /\ style = "fixed" THEN w ELSE Numeric(w, <<style, Digits[d.prec + 1]>>, a.value < 0, d)
Integer(w, a, base, upper, d) == Numeric(w, ToChars(Magnitude(a.value), base, upper), a.value < 0, d)
Truth(a) == IF a.value = 0 THEN <<"f", "a", "l", "s", "e">> ELSE <<"t", "r", "u", "e">>
Refuse(w, verb) == Put(w, <<"%", "!", verb>>)

Whole == {"bool", "char", "signed", "unsigned", "pointer"}

\* append_unified: no pointers, and six places for a double
Unified(w, a, d, space) ==
  CASE a.type = "bool" -> Pad(w, Truth(a), space)
    [] a.type = "char" -> Pad(w, Utf16[a.value], d)
    [] a.type = "float" -> Double(w, a, "fixed", [d EXCEPT !.prec = 6])
    [] a.type \in {"signed", "unsigned"} -> Integer(w, a, 10, FALSE, d)
    [] a.type = "string" -> Pad(w, a.value, d)
    [] OTHER -> w

Emit(w, a, verb, d) ==
  LET space == [d EXCEPT !.pc = " "]
      Accepts(types, done) == IF a.type \in types THEN done ELSE Refuse(w, verb)
      InBase(base, upper) == IF a.type = "float" THEN Double(w, a, IF upper THEN "HEX" ELSE "hex", d)
                             ELSE Accepts(Whole, Integer(w, a, base, upper, d))
  IN  CASE verb = "b" -> Accepts(Whole \ {"pointer"}, Pad(w, Truth(a), space))
        [] verb = "c" -> Accepts({"char", "signed", "unsigned"}, Pad(w, Utf16[a.value], d))
        [] verb = "s" -> Accepts({"string"}, Pad(w, a.value, d))
        [] verb = "d" -> IF a.type = "string" THEN Refuse(w, "?") ELSE Integer(w, a, 10, FALSE, d)
        [] verb = "o" -> InBase(8, FALSE)
        [] verb = "x" -> InBase(16, FALSE)
        [] verb = "X" -> InBase(16, TRUE)
        [] verb = "U" -> Accepts({"char", "signed", "unsigned"},
                                 Pad(w, <<IF a.value > \hFFFF THEN "U" ELSE "u", "+">> \o ToChars(a.value, 16, TRUE), space))
        [] verb = "f" -> Accepts({"float"}, Double(w, a, "fixed", d))
        [] verb = "e" -> Accepts({"float"}, Double(w, a, "scientific", d))
        [] verb = "a" -> IF a.type = "float" THEN Double(w, a, "hex", d) ELSE Refuse(w, "f")
        [] verb = "p" -> Accepts({"signed", "unsigned", "pointer"}, Pad(w, <<"0", "x">> \o ToChars(a.value, 16, TRUE), space))
        [] verb = "v" -> Unified(w, a, d, space)

Verbs == {"b", "c", "s", "d", "o", "x", "X", "U", "f", "e", "a", "p", "v"}

-----------------------------------------------------------------------------
\* Behind the last character is a zero, which ends a format.
At(fmt, i) == IF i <= Len(fmt) THEN fmt[i] ELSE "nul"
IsDigit(c) == c \in ToSet(Digits)
\* How far the characters from i on are in S.
PastAll(fmt, i, S) ==
  CHOOSE j \in i .. (IF i > Len(fmt) THEN i ELSE Len(fmt) + 1) :
    (\A k \in i .. j - 1 : fmt[k] \in S) /\ At(fmt, j) \notin S
Decimal(s) == FoldLeft(LAMBDA n, c : 10 * n + (CHOOSE k \in 0 .. 9 : Digits[k + 1] = c), 0, s)

\* The loop of StrFormatInternal from i on, with the arguments that are left.
RECURSIVE Run(_, _, _, _)
Run(w, fmt, i, args) ==
  LET sign == CHOOSE j \in i .. Len(fmt) + 1 : At(fmt, j) \in {"%", "nul"} /\ \A k \in i .. j - 1 : fmt[k] # "%"
      literal == Put(w, SubSeq(fmt, i, sign - 1))
      zeros == PastAll(fmt, sign + 1, {"0"})
      left == At(fmt, zeros) = "-"
      width == IF left THEN zeros + 1 ELSE zeros
      dot == PastAll(fmt, width, ToSet(Digits))
      verb == IF At(fmt, dot) = "." THEN PastAll(fmt, dot + 1, ToSet(Digits)) ELSE dot
      d == [pc |-> IF zeros > sign + 1 /\ ~left THEN "0" ELSE " ", left |-> left,
            width |-> Decimal(SubSeq(fmt, width, dot - 1)), prec |-> Decimal(SubSeq(fmt, dot + 1, verb - 1))]
  IN  CASE i > Len(fmt) -> w
        [] i <= Len(fmt) /\ (sign > Len(fmt) \/ zeros > Len(fmt)) -> literal
        [] i <= Len(fmt) /\ zeros <= Len(fmt) /\ args # <<>> /\ At(fmt, verb) \in Verbs ->
             Run(Emit(literal, Head(args), fmt[verb], d), fmt, verb + 1, Tail(args))
        [] i <= Len(fmt) /\ zeros <= Len(fmt) /\ args # <<>> /\ At(fmt, verb) = "%" ->
             Run(Push(literal, "%"), fmt, verb + 1, args)
        [] OTHER -> Run(Push(Push(literal, "%"), At(fmt, verb)), fmt, verb + 1, args)

\* Without arguments only %% is looked for.
RECURSIVE Plain(_, _)
Plain(w, fmt) ==
  IF fmt = <<>> THEN w
  ELSE Plain(Push(w, fmt[1]), SubSeq(fmt, IF At(fmt, 1) = "%" /\ At(fmt, 2) = "%" THEN 3 ELSE 2, Len(fmt)))

StrFormat(cap, fmt, args) == IF args = <<>> THEN Plain(Empty(cap), fmt) ELSE Run(Empty(cap), fmt, 1, args)

-----------------------------------------------------------------------------
(* Formats in pieces: what is written, the argument if it takes one, and   *)
(* the field that is meant: sign and text, justified as asked in a width.  *)

Literal(written, text) == [written |-> written, args |-> <<>>, sign |-> <<>>, text |-> text, width |-> 0, mode |-> "right"]
Directive(flags, width, verb, a, sign, text) ==
  [written |-> <<"%">> \o flags \o width \o <<verb>>, args |-> <<a>>, sign |-> sign, text |-> text,
   width |-> Decimal(width),
   mode |-> CASE flags = <<>> -> "right" [] "-" \in ToSet(flags) -> "left"
              [] verb \in {"b", "U", "p"} \/ a.type = "bool" -> "right" [] OTHER -> "zeros"]
Field(p) ==
  LET n == p.width - Len(p.sign) - Len(p.text)
      padding == [i \in 1 .. n |-> IF p.mode = "zeros" THEN "0" ELSE " "]
  IN  CASE p.mode = "left"  -> p.sign \o p.text \o padding
        [] p.mode = "zeros" -> p.sign \o padding \o p.text
        [] p.mode = "right" -> padding \o p.sign \o p.text

Arg(type, value) == [type |-> type, value |-> value]
Float(value, large) == [type |-> "float", value |-> value, large |-> large]
Yes == <<"t", "r", "u", "e">>
Minus == <<"-">>
Pieces ==
  { Literal(<<"a">>, <<"a">>), Literal(<<"%", "%">>, <<"%">>), Literal(<<"%", "q">>, <<"%", "q">>),
    Directive(<<>>, <<>>, "d", Arg("signed", -12), Minus, <<"1", "2">>),
    Directive(<<"0">>, <<"4">>, "d", Arg("signed", -7), Minus, <<"7">>),
    Directive(<<>>, <<"4">>, "d", Arg("signed", -7), Minus, <<"7">>),
    Directive(<<"-">>, <<"4">>, "d", Arg("signed", -7), Minus, <<"7">>),
    Directive(<<"0", "-">>, <<"4">>, "x", Arg("unsigned", 171), <<>>, <<"a", "b">>),
    Directive(<<"0">>, <<"4">>, "X", Arg("pointer", 171), <<>>, <<"A", "B">>),
    Directive(<<>>, <<"1", "1">>, "o", Arg("bool", 1), <<>>, <<"1">>),
    Directive(<<"0">>, <<"5">>, "v", Arg("bool", 1), <<>>, Yes),
    Directive(<<"0">>, <<"5">>, "b", Arg("unsigned", 3), <<>>, Yes),
    Directive(<<>>, <<"2">>, "c", Arg("signed", 65), <<>>, <<"A">>),
    Directive(<<"-">>, <<"3">>, "v", Arg("char", \h1F600), <<>>, Utf16[\h1F600]),
    Directive(<<>>, <<"8">>, "U", Arg("char", \h1F600), <<>>, <<"U", "+", "1", "F", "6", "0", "0">>),
    Directive(<<"0">>, <<"6">>, "p", Arg("pointer", 16), <<>>, <<"0", "x", "1", "0">>),
    Directive(<<>>, <<"3">>, "s", Arg("string", <<"s">>), <<>>, <<"s">>),
    Directive(<<>>, <<>>, "s", Arg("signed", 1), <<>>, <<"%", "!", "s">>),
    Directive(<<>>, <<>>, "a", Arg("string", <<>>), <<>>, <<"%", "!", "f">>),
    Directive(<<"0">>, <<"4">>, "v", Float(-1, FALSE), Minus, <<"fixed", "6">>),
    Directive(<<"-">>, <<"4">>, "e", Float(1, TRUE), <<>>, <<"scientific", "0">>),
    Directive(<<>>, <<>>, "d", Float(-1, FALSE), Minus, <<"1">>) }

\* The text is what the pieces mean, in a string and in a buffer that is long enough;
\* a shorter one is noticed, and one of just the length may be.  Behind the last argument
\* %% is not understood: the format must not have it there.
Holds(result, meant) ==
  /\ result.cap > Len(meant) => result = [Empty(result.cap) EXCEPT !.text = meant]
  /\ result.cap < Len(meant) => result.ow
  /\ result.cap = Len(meant) => result.ow \/ result.text = meant
Asked(pieces) ==
  LET Of(part(_)) == FlattenSeq([i \in DOMAIN pieces |-> part(pieces[i])])
      meant == Of(Field)
      last == SelectLastInSeq(pieces, LAMBDA p : p.args # <<>>)
  IN  (last = 0 \/ \A i \in last .. Len(pieces) : pieces[i].written # <<"%", "%">>)
        => \A cap \in (0 .. Len(meant) + 2) \cup {NoCap} :
             Holds(StrFormat(cap, Of(LAMBDA p : p.written), Of(LAMBDA p : p.args)), meant)
=============================================================================
