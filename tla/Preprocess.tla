----------------------------- MODULE Preprocess -----------------------------
(***************************************************************************)
(* What the preprocessor does with text (loop(), replace(), parentheses()  *)
(* and output() of cpp/cpp.c): it defines macros, evaluates a condition,   *)
(* or copies lines of text, replacing the macros in them, to a file that   *)
(* the compiler proper reads.                                              *)
(*                                                                         *)
(* The macros are defined first, one directive after another, and then the *)
(* text is written, a fragment at a time, and read line by line.  There is *)
(* no directive in the text: Cpp is about those.                           *)
(***************************************************************************)
EXTENDS Macro, Bitwise

CONSTANTS
  Width,         \* bits of a long
  Directives,    \* what may be defined or undefined: [op, line]
  Fragments,     \* the pieces the text is written of
  Conditions,    \* the expressions of #if: trees, see Spell
  MaxDirectives, \* bound: directives
  MaxFragments   \* bound: pieces of text

VARIABLES
  macros,  \* the table
  ndir,    \* directives so far
  text,    \* the lines of the text
  nfrag,   \* how many pieces it is written of
  nread,   \* how many of them have been read
  list,    \* the tokens read and not yet written
  behind,  \* newlines the output owes
  ahead,   \* lines have been read since the last sync()
  last,    \* last_class: the token it comes from, or none
  sent,    \* the tokens written
  out,     \* the characters written
  result,  \* what a condition is evaluated to
  pc

vars == <<macros, ndir, text, nfrag, nread, list, behind, ahead, last, sent, out, result, pc>>

None == Tok("NONE", <<>>)

Init ==
  /\ macros = Predefined
  /\ ndir = 0
  /\ text = << <<>> >> /\ nfrag = 0 /\ nread = 0
  /\ list = <<>>
  /\ behind = 0 /\ ahead = FALSE
  /\ last = None /\ sent = <<>> /\ out = <<>>
  /\ result = <<>>
  /\ pc = "define"

Emitted == <<last, sent, out>>

-----------------------------------------------------------------------------
(***************************************************************************)
(* The expressions of #if and #elif (cpp/evaluate.c): the list of tokens   *)
(* is evaluated in place, its head replaced by values.  A value is a long, *)
(* of Width bits here; the code has unsigned ones too, of kind UINT, but   *)
(* no constant is converted to one.                                        *)
(***************************************************************************)

Unsigned(v) == v % 2 ^ Width
Signed(v)   == LET u == Unsigned(v) IN IF u < 2 ^ (Width - 1) THEN u ELSE u - 2 ^ Width

Truth(b) == IF b THEN 1 ELSE 0
Abs(v)   == IF v < 0 THEN -v ELSE v

\* Division in C truncates.
Quotient(a, b)  == IF (a < 0) = (b < 0) THEN Abs(a) \div Abs(b) ELSE -(Abs(a) \div Abs(b))
Remainder(a, b) == a - b * Quotient(a, b)

DigitValue == [c \in {"0", "1", "2", "5"} |-> CASE c = "0" -> 0 [] c = "1" -> 1 [] c = "2" -> 2 [] c = "5" -> 5]

Decimal(digits) == FoldLeft(LAMBDA acc, c : 10 * acc + DigitValue[c], 0, digits)

\* token_convert_number(), for decimal numbers in lower case: a suffix has one L
\* or two; a U is looked at and not stepped over, so that it is malformed, as
\* is a number that strtoul() finds out of range.
Convert(t) ==
  LET n == Span(t.text, LAMBDA i : t.text[i] \in Digits)
      v == Decimal(SubSeq(t.text, 1, n))
      suffix == Rest(t.text, n + 1)
  IN  IF suffix \in {<<>>, <<"l">>, <<"l", "l">>} /\ v < 2 ^ Width
      THEN Number("INT", Signed(v)) ELSE Bad

\* The operators of each precedence, from TOKEN_PREC_MUL to TOKEN_PREC_LOR.
Prec == << {<<"*">>, <<"/">>, <<"%">>}, {<<"+">>, <<"-">>}, {<<"<", "<">>, <<">", ">">>},
           {<<"<">>, <<">">>, <<"<", "=">>, <<">", "=">>}, {<<"=", "=">>, <<"!", "=">>},
           {<<"&">>}, {<<"^">>}, {<<"|">>}, {<<"&", "&">>}, {<<"|", "|">>} >>

\* binary() on two values: a as a long, or as an unsigned long if one is.
Apply(op, left, right) ==
  LET uint == "UINT" \in {left.kind, right.kind}
      a == left.val
      b == right.val
      x == IF uint THEN Unsigned(a) ELSE a
      y == IF uint THEN Unsigned(b) ELSE b
      arith(v) == Number(IF uint THEN "UINT" ELSE "INT", Signed(v))
      test(p)  == Number("INT", Truth(p))
  IN  CASE op = <<"+">> -> arith(a + b)
        [] op = <<"-">> -> arith(a - b)
        [] op = <<"*">> -> arith(a * b)
        [] op = <<"&">> -> arith(Unsigned(a) & Unsigned(b))
        [] op = <<"|">> -> arith(Unsigned(a) | Unsigned(b))
        [] op = <<"^">> -> arith(Unsigned(a) ^^ Unsigned(b))
        [] op = <<"<", "<">> -> arith(a * 2 ^ (b % Width))
        [] op = <<">", ">">> -> arith(x \div 2 ^ (b % Width))
        [] op = <<"%">> -> IF b = 0 THEN Bad ELSE arith(Remainder(x, y))
        [] op = <<"/">> -> IF b = 0 THEN Bad ELSE arith(Quotient(x, y))
        [] op = <<">", "=">> -> test(x >= y)
        [] op = <<">">>      -> test(x > y)
        [] op = <<"<">>      -> test(x < y)
        [] op = <<"<", "=">> -> test(x =< y)
        [] op = <<"=", "=">> -> test(a = b)
        [] op = <<"!", "=">> -> test(a # b)
        [] op = <<"&", "&">> -> test(a # 0 /\ b # 0)
        [] op = <<"|", "|">> -> test(a # 0 \/ b # 0)

\* unary() on a value, whose kind stays what it is.
ApplyUnary(op, t) ==
  CASE op = <<"+">> -> t
    [] op = <<"-">> -> [t EXCEPT !.val = Signed(-@)]
    [] op = <<"~">> -> [t EXCEPT !.val = Signed(-@ - 1)]
    [] op = <<"!">> -> [t EXCEPT !.val = Truth(@ = 0)]

UnaryOps == {<<"+">>, <<"-">>, <<"~">>, <<"!">>}

\* Is the second token one of these operators?
Second(l, ops) == Len(l) > 1 /\ l[2].kind = "OP" /\ l[2].text \in ops

\* What F makes of a list, if there was no error in making it.
Try(l, F(_)) == IF Failed(l) THEN <<Bad>> ELSE F(l)

RECURSIVE Unary(_), Binary(_, _), More(_, _), Ternary(_), Expression(_)

\* Each takes a list that begins with an expression to the list that begins
\* with its value.
Unary(l) ==
  CASE l = <<>> -> <<Bad>>
    [] l # <<>> /\ l[1].kind = "OP" /\ l[1].text \in UnaryOps ->
         Try(Unary(Tail(l)), LAMBDA r : <<ApplyUnary(l[1].text, r[1])>> \o Tail(r))
    [] FirstOp(l, <<"(">>) ->
         Try(Expression(Tail(l)),
             LAMBDA r : IF Second(r, {<<")">>}) THEN <<r[1]>> \o Rest(r, 3) ELSE <<Bad>>)
    [] FirstIs(l, "NUMBER") -> <<Convert(l[1])>> \o Tail(l)
    [] FirstIs(l, "INT") \/ FirstIs(l, "UINT") -> l
    [] OTHER -> <<Bad>>

Binary(prec, l) == IF prec = 0 THEN Unary(l) ELSE Try(Binary(prec - 1, l), LAMBDA r : More(prec, r))

\* (Fault: the right operand takes the operators of the same precedence.)
RightPrec_Same(prec) == prec

RightPrec(prec) == prec - 1

\* The operators of one precedence, from left to right.
More(prec, l) ==
  IF ~Second(l, Prec[prec]) THEN l
  ELSE Try(Binary(RightPrec(prec), Rest(l, 3)),
           LAMBDA r : More(prec, <<Apply(l[2].text, l[1], r[1])>> \o Tail(r)))

\* ternary(): both alternatives are evaluated.
Ternary(l) ==
  Try(Binary(Len(Prec), l), LAMBDA c :
    IF ~Second(c, {<<"?">>}) THEN c
    ELSE Try(Expression(Rest(c, 3)), LAMBDA yes :
           IF ~Second(yes, {<<":">>}) THEN <<Bad>>
           ELSE Try(Ternary(Rest(yes, 3)), LAMBDA no :
                  <<IF c[1].val # 0 THEN yes[1] ELSE no[1]>> \o Tail(no))))

\* expression(): the comma operator.
Expression(l) ==
  Try(Ternary(l), LAMBDA r : IF Second(r, {<<",">>}) THEN Expression(Rest(r, 3)) ELSE r)

\* defined(), before anything is replaced: whether or not in parentheses.
RECURSIVE DefinedOps(_, _)
DefinedOps(m, l) ==
  LET here == FirstIs(l, "IDENT") /\ l[1].text \in DOMAIN m /\ ~m[l[1].text].defined
      par  == here /\ Second(l, {<<"(">>})
      name == IF par THEN 3 ELSE 2
      past == IF par THEN 5 ELSE 3
      rest == DefinedOps(m, Rest(l, past))
  IN  IF l = <<>> THEN l
      ELSE IF ~here THEN <<l[1]>> \o DefinedOps(m, Tail(l))
      ELSE IF \/ ~FirstIs(Rest(l, name), "IDENT")
              \/ par /\ ~FirstOp(Rest(l, 4), <<")">>)
      THEN <<Bad>>
      ELSE <<Number("INT", Truth(IsMacro(m, l[name])))>> \o rest

\* undefined(): an identifier left over is 0.
Undefined(l) == [i \in DOMAIN l |-> IF l[i].kind = "IDENT" THEN Number("INT", 0) ELSE l[i]]

\* evaluate(): the value, and what is left of the line.
Evaluated(m, l) == Expression(StripAll(Undefined(Expanded(m, DefinedOps(m, StripAll(l))))))

-----------------------------------------------------------------------------
\* Directives.

\* D_DEFINE and D_UNDEF; #undef leaves what follows the name, which is garbage.
Directive ==
  /\ pc = "define" /\ ndir < MaxDirectives
  /\ \E d \in Directives :
       LET l   == Tokenize(d.line)
           new == IF d.op = "define" THEN Define(macros, l)
                  ELSE IF Len(l) > 1 THEN {} ELSE Undef(macros, l)
       IN  IF new = {} \/ Failed(l) THEN pc' = "rejected" /\ UNCHANGED macros
           ELSE macros' \in new /\ UNCHANGED pc
  /\ ndir' = ndir + 1
  /\ UNCHANGED <<text, nfrag, nread, list, behind, ahead, Emitted, result>>

\* The precedence of an operator, and a tree as it is written: in parentheses
\* where it must be.
PrecOf(op) == CHOOSE p \in DOMAIN Prec : op \in Prec[p]
TreePrec(e) == CASE e[1] = "bin" -> PrecOf(e[2]) [] e[1] = "if" -> Len(Prec) + 1 [] OTHER -> 0

RECURSIVE Spell(_)
Spell(e) ==
  LET within(x, p) == IF TreePrec(x) > p THEN <<Op(<<"(">>)>> \o Spell(x) \o <<Op(<<")">>)>> ELSE Spell(x)
  IN  CASE e[1] = "leaf" -> e[2]
        [] e[1] = "un"   -> <<Op(e[2])>> \o within(e[3], 0)
        [] e[1] = "bin"  -> within(e[3], PrecOf(e[2])) \o <<Op(e[2])>> \o within(e[4], PrecOf(e[2]) - 1)
        [] e[1] = "if"   -> within(e[2], Len(Prec)) \o <<Op(<<"?">>)>> \o Spell(e[3])
                            \o <<Op(<<":">>)>> \o within(e[4], Len(Prec) + 1)

\* do_if()
Condition ==
  /\ pc = "define" /\ ndir < MaxDirectives
  /\ \E e \in Conditions :
       result' = <<e, Evaluated(macros, Spell(e))>>
  /\ pc' = "evaluated"
  /\ UNCHANGED <<macros, ndir, text, nfrag, nread, list, behind, ahead, Emitted>>

-----------------------------------------------------------------------------
\* Text.

NewLine == <<"\n">>

\* Some more of the text.
Write ==
  /\ pc \in {"define", "write"}
  /\ result = <<>>
  /\ \E f \in Fragments :
       text' = IF f = NewLine THEN Append(text, <<>>) ELSE [text EXCEPT ![Len(text)] = @ \o f]
  /\ ndir' = MaxDirectives
  /\ nfrag < MaxFragments
  /\ nfrag' = nfrag + 1
  /\ pc' = "write"
  /\ UNCHANGED <<macros, nread, list, behind, ahead, Emitted, result>>

Begin ==
  /\ pc = "write"
  /\ pc' = "loop"
  /\ UNCHANGED <<macros, ndir, text, nfrag, nread, list, behind, ahead, Emitted, result>>

AtEnd == nread = Len(text)

\* input_tokens(): the tokens of the next line are appended to the list.
InputTokens ==
  /\ ~AtEnd
  /\ list' = list \o Tokenize(text[nread + 1])
  /\ nread' = nread + 1
  /\ behind' = behind + 1
  /\ pc' = IF Failed(list') THEN "error" ELSE pc

ReadLine ==
  /\ pc = "loop" /\ list = <<>>
  /\ InputTokens
  /\ UNCHANGED <<macros, ndir, text, nfrag, ahead, Emitted, result>>

Finish ==
  /\ pc = "loop" /\ list = <<>> /\ AtEnd
  /\ pc' = "done"
  /\ UNCHANGED <<macros, ndir, text, nfrag, nread, list, behind, ahead, Emitted, result>>

\* sync(), at the start of a round.
Sync ==
  /\ pc = "loop" /\ list # <<>>
  /\ behind > 0 /\ ~ahead
  /\ out' = out \o [i \in 1 .. behind |-> "\n"]
  /\ last' = None
  /\ behind' = 0
  /\ UNCHANGED <<macros, ndir, text, nfrag, nread, list, ahead, sent, result, pc>>

Round == pc = "loop" /\ list # <<>> /\ (behind = 0 \/ ahead)

\* parentheses(): how many tokens after the name its arguments take: none, if
\* it has none; or the lines read so far do not say.
CallLen ==
  LET spaces == Len(list) - 1 - Len(SkipSpaces(Tail(list)))
      open   == spaces + 2
      shut   == Closing(list, open)
  IN  CASE ~macros[list[1].text].args -> [ends |-> TRUE, n |-> 1]
        [] macros[list[1].text].args /\ open > Len(list) -> [ends |-> FALSE, n |-> 0]
        [] macros[list[1].text].args /\ open =< Len(list) ->
             IF list[open] # Op(<<"(">>) THEN [ends |-> TRUE, n |-> 0]
             ELSE [ends |-> shut > 0, n |-> shut]

Candidate == IsMacro(macros, list[1])

Ahead ==
  /\ Round /\ Candidate /\ ~CallLen.ends
  /\ InputTokens
  /\ ahead' = TRUE
  /\ UNCHANGED <<macros, ndir, text, nfrag, Emitted, result>>

Unterminated ==
  /\ Round /\ Candidate /\ ~CallLen.ends /\ AtEnd
  /\ SkipSpaces(Tail(list)) # <<>>
  /\ pc' = "error"
  /\ UNCHANGED <<macros, ndir, text, nfrag, nread, list, behind, ahead, Emitted, result>>

\* replace(): only the call is given to macro_replace().
Replace ==
  /\ Round /\ Candidate /\ CallLen.ends /\ CallLen.n > 0
  /\ \E r \in MacroReplace(macros, SubSeq(list, 1, CallLen.n)) :
       /\ list' = r \o Rest(list, CallLen.n + 1)
       /\ pc' = IF Failed(r) THEN "error" ELSE pc
  /\ ahead' = FALSE
  /\ UNCHANGED <<macros, ndir, text, nfrag, nread, behind, Emitted, result>>

\* No replacement: output() of the head.
NoCall ==
  \/ ~Candidate
  \/ Candidate /\ CallLen.ends /\ CallLen.n = 0
  \/ Candidate /\ ~CallLen.ends /\ AtEnd /\ SkipSpaces(Tail(list)) = <<>>

Output ==
  LET t == list[1]
  IN  /\ Round /\ NoCall
      /\ out' = out \o (IF Separate(last, t) THEN <<" ">> ELSE <<>>) \o t.text
      /\ last' = IF t.text = <<>> THEN last ELSE t
      /\ sent' = Append(sent, t)
      /\ list' = Tail(list)
      /\ ahead' = FALSE
      /\ UNCHANGED <<macros, ndir, text, nfrag, nread, behind, result, pc>>

Next ==
  \/ Directive \/ Condition \/ Write \/ Begin
  \/ ReadLine \/ Finish \/ Sync \/ Ahead \/ Unterminated \/ Replace \/ Output

Spec == Init /\ [][Next]_vars

-----------------------------------------------------------------------------
\* What C says.

\* The text as one list: a newline is white space.
WholeText ==
  LET line(i) == IF i = 1 THEN Tokenize(text[i]) ELSE <<OneSpace>> \o Tokenize(text[i])
  IN  FlattenSeq([i \in DOMAIN text |-> line(i)])

\* The texts of the tokens that are seen in a list.
Texts(l) == LET r == SelectSeq(l, Visible) IN [i \in DOMAIN r |-> r[i].text]

\* A newline in a call leaves no space behind, so that of a literal # makes of
\* an argument on several lines only the words can be compared.
Words(texts) ==
  IF Len(text) = 1 THEN texts
  ELSE [i \in DOMAIN texts |-> SelectSeq(texts[i], LAMBDA c : c # " ")]

\* What is written is what C's algorithm expands the text to, and text that it
\* finds valid is not rejected, whatever is nested in what and however the
\* calls are spread over the lines (macro_replace(), parentheses()).
ExpandsAsC ==
  pc \in {"done", "error"} =>
     LET l == WholeText
         c == Expansion(macros, l)
     IN  \/ Failed(l) \/ <<>> \in ToSet(c)
         \/ pc = "done" /\ Words(Texts(sent)) = Words(c)

\* The compiler proper reads the tokens that were written: "a primary job of
\* this function is to insert whitespace where necessary to prevent tokens
\* from merging in the output" (cpp/cpp.c:156).  The name of a macro that is
\* left alone in its own expansion is no identifier any more to
\* token_separate(), and may well merge.
Readable == (\A i \in DOMAIN sent : sent[i].kind # "OTHER" \/ sent[i] = Placeholder)
            => Lex(out) = Texts(sent)

\* The value that C gives a tree.  There is none if that of an operand is
\* undefined: evaluate() evaluates every operand, needed or not.  Nor is one given
\* to an unsigned constant, by its suffix or because no long holds it: the first
\* is rejected, the second taken for a negative number.
NoValue == [ok |-> FALSE, v |-> 0]

CLong(x) == [ok |-> x = Signed(x), v |-> x]
CTest(p) == CLong(Truth(p))

\* A constant, a name, or `defined' and a name.
CLeaf(l) ==
  LET e == Evaluated(macros, l)
  IN  IF l[1].kind = "NUMBER"
      THEN IF "u" \in ToSet(l[1].text) THEN NoValue
           ELSE CLong(Decimal(SelectSeq(l[1].text, LAMBDA c : c \in Digits)))
      ELSE IF Len(e) # 1 \/ e = <<Bad>> THEN NoValue ELSE CLong(e[1].val)

CUnary(op, a) ==
  CASE ~a.ok -> NoValue
    [] a.ok /\ op = <<"!">> -> CTest(a.v = 0)
    [] a.ok /\ op = <<"+">> -> a
    [] a.ok /\ op = <<"-">> -> CLong(-a.v)
    [] a.ok /\ op = <<"~">> -> CLong(-a.v - 1)

CShift(op, x, n) ==
  CASE n \notin 0 .. Width - 1 -> NoValue
    [] n \in 0 .. Width - 1 /\ op = <<">", ">">> -> CLong(x \div 2 ^ n)
    [] n \in 0 .. Width - 1 /\ op = <<"<", "<">> -> IF x < 0 THEN NoValue ELSE CLong(x * 2 ^ n)

CArith(op, x, y) ==
  CASE op = <<"+">> -> CLong(x + y)
    [] op = <<"-">> -> CLong(x - y)
    [] op = <<"*">> -> CLong(x * y)
    [] op = <<"/">> -> IF y = 0 THEN NoValue ELSE CLong(Quotient(x, y))
    [] op = <<"%">> -> IF y = 0 THEN NoValue ELSE CLong(Remainder(x, y))
    [] op \in Prec[3]    -> CShift(op, x, y)
    [] op = <<"<">>      -> CTest(x < y)
    [] op = <<">">>      -> CTest(x > y)
    [] op = <<"<", "=">> -> CTest(x =< y)
    [] op = <<">", "=">> -> CTest(x >= y)
    [] op = <<"=", "=">> -> CTest(x = y)
    [] op = <<"!", "=">> -> CTest(x # y)
    [] op = <<"&">> -> CLong(Signed(Unsigned(x) & Unsigned(y)))
    [] op = <<"|">> -> CLong(Signed(Unsigned(x) | Unsigned(y)))
    [] op = <<"^">> -> CLong(Signed(Unsigned(x) ^^ Unsigned(y)))
    [] op = <<"&", "&">> -> CTest(x # 0 /\ y # 0)
    [] op = <<"|", "|">> -> CTest(x # 0 \/ y # 0)

CBinary(op, a, b) == IF a.ok /\ b.ok THEN CArith(op, a.v, b.v) ELSE NoValue

CChoice(c, a, b) ==
  IF c.ok /\ a.ok /\ b.ok THEN IF c.v # 0 THEN a ELSE b ELSE NoValue

RECURSIVE CValue(_)
CValue(e) ==
  CASE e[1] = "leaf" -> CLeaf(e[2])
    [] e[1] = "un"   -> CUnary(e[2], CValue(e[3]))
    [] e[1] = "bin"  -> CBinary(e[2], CValue(e[3]), CValue(e[4]))
    [] e[1] = "if"   -> CChoice(CValue(e[2]), CValue(e[3]), CValue(e[4]))

\* A condition without unsigned constants has the value that C gives it
\* (token_convert_number(), unary(), binary(), ternary()).
EvaluatesAsC ==
  pc = "evaluated" =>
     LET c == CValue(result[1]) IN c.ok => result[2] = <<Number("INT", c.v)>>
=============================================================================
