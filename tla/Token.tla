-------------------------------- MODULE Token --------------------------------
(***************************************************************************)
(* The tokens of the preprocessor and the lists it keeps them in           *)
(* (cpp/token.c); last, the tokens of the compiler, which reads what it    *)
(* writes.                                                                 *)
(*                                                                         *)
(* A character is a string of length one and a text a sequence of them.    *)
(* A token is its kind, its text, and its value where it is a number that  *)
(* has been read (INT, UINT) or stands for an argument (ARG).  All the     *)
(* operators and punctuators are of one kind, OP: their text is what tells *)
(* their classes apart.                                                    *)
(***************************************************************************)
EXTENDS Integers, Sequences, FiniteSets, SequencesExt

Tok(kind, text) == [kind |-> kind, text |-> text, val |-> 0]
Op(text)        == Tok("OP", text)
Number(kind, v) == [kind |-> kind, text |-> <<>>, val |-> v]
Arg(i)          == Number("ARG", i)

OneSpace    == Tok("SPACE", <<" ">>)
Placeholder == Tok("OTHER", <<>>)

\* error() leaves nothing else to be seen.
Bad       == Tok("ERROR", <<>>)
Failed(l) == \E i \in DOMAIN l : l[i] = Bad

Digits  == {"0", "1", "2", "5"}
Letters == {"a", "b", "c", "d", "e", "f", "g", "h", "i", "m", "n", "x", "y", "_"}
Exponent == {"e"}
Strange == {"@"}

-----------------------------------------------------------------------------
\* token_scan()

\* modifiers[]: what doubling and what an equals sign makes a longer operator.
HasDup == {<<"+">>, <<"-">>, <<"&">>, <<"|">>, <<">">>, <<"<">>, <<"#">>}
HasEq  == {<<"+">>, <<"-">>, <<"*">>, <<"/">>, <<"%">>, <<"&">>, <<"|">>, <<"^">>,
           <<">">>, <<">", ">">>, <<"<">>, <<"<", "<">>, <<"=">>, <<"!">>}
Modified(o) == o \in HasDup \cup HasEq
Dup(o) == Append(o, o[1])
Eq(o)  == Append(o, "=")

\* How many characters from the start of s satisfy a test of their place.
Span(s, Test(_)) ==
  IF \A i \in DOMAIN s : Test(i) THEN Len(s)
  ELSE (CHOOSE i \in DOMAIN s : ~Test(i) /\ \A j \in 1 .. i - 1 : Test(j)) - 1

WordLen(s)   == Span(s, LAMBDA i : s[i] \in Letters \cup Digits)
SpaceLen(s)  == Span(s, LAMBDA i : s[i] = " ")
NumberLen(s) == Span(s, LAMBDA i : \/ s[i] \in Letters \cup Digits \cup {"."}
                                   \/ i > 1 /\ s[i] \in {"+", "-"} /\ s[i - 1] \in Exponent)

\* The place of the quote that ends the literal s begins with, or 0.
Unquoted(s) ==
  LET esc[i \in DOMAIN s] == i > 1 /\ ~esc[i - 1] /\ s[i] = "\\"
      ends == {i \in 2 .. Len(s) : s[i] = s[1] /\ ~esc[i - 1]}
  IN  IF ends = {} THEN 0 ELSE CHOOSE i \in ends : \A j \in ends : i =< j

\* An operator grows as long as the next character makes it a longer one.
OperatorLen(s) ==
  LET grow(o) ==
        IF Len(o) < Len(s) /\ \/ s[Len(o) + 1] = s[1] /\ o \in HasDup
                              \/ s[Len(o) + 1] = "=" /\ o \in HasEq
        THEN Append(o, s[Len(o) + 1]) ELSE o
  IN  Len(grow(grow(<<s[1]>>)))

At(s, i) == IF i \in DOMAIN s THEN s[i] ELSE ""

\* The first token of s.  A point is never taken for the start of a number:
\* the test is made of the point itself, not of what follows it.
Scan(s) ==
  LET take(kind, n) == IF n = 0 THEN Bad ELSE Tok(kind, SubSeq(s, 1, n))
      c == At(s, 1)
  IN  CASE c = "" \/ c \in Strange -> Bad
        [] c = " "                 -> take("SPACE", SpaceLen(s))
        [] c \in Letters           -> take("IDENT", WordLen(s))
        [] c \in Digits            -> take("NUMBER", NumberLen(s))
        [] c = "\""                -> take("STRING", Unquoted(s))
        [] c = "'"                 -> take("CHAR", Unquoted(s))
        [] c = "."                 -> take("OP", IF At(s, 2) = "." /\ At(s, 3) = "." THEN 3 ELSE 1)
        [] c = "-" /\ At(s, 2) = ">" -> take("OP", 2)
        [] OTHER                   -> take("OP", OperatorLen(s))

\* input_tokenize()
RECURSIVE Tokenize(_)
Tokenize(s) ==
  IF s = <<>> THEN <<>>
  ELSE LET t == Scan(s)
       IN  IF t = Bad THEN <<Bad>> ELSE <<t>> \o Tokenize(SubSeq(s, Len(t.text) + 1, Len(s)))

\* (Fault: operators are never parted.)
Separate_Never(first, second) ==
  /\ first.kind \in {"IDENT", "NUMBER"}
  /\ second.kind \in {"IDENT", "NUMBER"}

\* token_separate(): must white space part the two?
Separate(first, second) ==
  LET is(texts) == second.kind = "OP" /\ second.text \in texts
      points    == {<<".">>, <<".", ".", ".">>}
      longer(o) == {Dup(o)} \cup (IF o \in HasEq THEN {Eq(o)} ELSE {})
  IN  CASE first.kind \in {"IDENT", "NUMBER"} -> second.kind \in {"IDENT", "NUMBER"} \/ is(points)
        [] first = Op(<<".">>)                -> second.kind = "NUMBER" \/ is(points)
        [] first.kind = "OP" /\ first # Op(<<".">>) ->
             LET o == first.text
             IN  \/ o = <<"-">> /\ is({<<">">>, <<">", "=">>, <<">", ">">>, <<">", ">", "=">>})
                 \/ o \in HasEq /\ is({<<"=">>, <<"=", "=">>})
                 \/ o \in HasDup /\ is({o} \cup longer(o))
                 \/ o \in HasDup /\ Dup(o) \in HasEq /\ is({Eq(Dup(o))})
        [] OTHER -> FALSE

\* token_paste(): one token of C, and nothing after it.
Paste(left, right) ==
  LET s == left.text \o right.text
      t == Scan(s)
  IN  IF \/ Len(t.text) # Len(s) \/ s = <<>>
         \/ t.kind = "OP" /\ t.text \in {<<"#">>, <<"#", "#">>}
      THEN Bad ELSE t

-----------------------------------------------------------------------------
\* Lists.

IsSpace(t)       == t.kind = "SPACE"
Rest(l, i)       == SubSeq(l, i, Len(l))
FirstIs(l, kind) == l # <<>> /\ l[1].kind = kind
FirstOp(l, text) == l # <<>> /\ l[1].kind = "OP" /\ l[1].text = text

\* list_skip_spaces(), from the head of the list.
SkipSpaces(l) == Rest(l, Span(l, LAMBDA i : IsSpace(l[i])) + 1)
StripTail(l)  == Reverse(SkipSpaces(Reverse(l)))
StripEnds(l)  == StripTail(SkipSpaces(l))
StripAll(l)   == SelectSeq(l, LAMBDA t : ~IsSpace(t) /\ t # Placeholder)

FoldSpaces(l) ==
  FoldLeft(LAMBDA out, t : IF ~IsSpace(t) THEN Append(out, t)
                           ELSE IF out # <<>> /\ IsSpace(Last(out)) THEN out
                           ELSE Append(out, OneSpace),
           <<>>, l)

NextIs(l, i, kind) == FirstIs(SkipSpaces(Rest(l, i + 1)), kind)
PrevIs(l, i, kind) == FirstIs(SkipSpaces(Reverse(SubSeq(l, 1, i - 1))), kind)

\* list_normalize(): the replacement list of a macro.
Normalize(l, formals) ==
  LET promote(t) ==
        CASE t = Op(<<"#">>)      -> Tok("STRINGIZE", t.text)
          [] t = Op(<<"#", "#">>) -> Tok("PASTE", t.text)
          [] \E i \in DOMAIN formals : formals[i] = t ->
               Arg(CHOOSE i \in DOMAIN formals : formals[i] = t /\ \A j \in 1 .. i - 1 : formals[j] # t)
          [] OTHER -> t
      s == FoldSpaces(StripEnds(l))
  IN  [i \in DOMAIN s |-> promote(s[i])]

\* list_stringize(), with the characters of a literal escaped by backslash().
ListStringize(l) ==
  LET quote(c)  == IF c \in {"\\", "\""} THEN <<"\\", c>> ELSE <<c>>
      spell(i)  == IF IsSpace(l[i]) /\ i \in {1, Len(l)} THEN <<>>
                   ELSE IF l[i].kind \in {"STRING", "CHAR"}
                   THEN FlattenSeq([j \in DOMAIN l[i].text |-> quote(l[i].text[j])])
                   ELSE l[i].text
  IN  Tok("STRING", <<"\"">> \o FlattenSeq([i \in DOMAIN l |-> spell(i)]) \o <<"\"">>)

\* list_ennervate(): the name in a macro's own expansion is no candidate.
Ennervate(l, name) ==
  [i \in DOMAIN l |-> IF l[i].kind = "IDENT" /\ l[i].text = name THEN Tok("OTHER", name) ELSE l[i]]

-----------------------------------------------------------------------------
(***************************************************************************)
(* The tokens of the compiler proper (cc1/lex.c), as lex0() finds them in  *)
(* what the preprocessor wrote.  Of a token only its text is told; string  *)
(* literals in a row, which strlit() makes one, are left apart.            *)
(***************************************************************************)

\* The arguments of OPERATOR() for each character.
Doubled   == {"=", "<", ">", "|", "&", "+", "-"}
WithEqual == {"!", "<", ">", "^", "|", "&", "*", "/", "%", "+", "-"}
DoubledEq == {"<", ">"}

LexOperator(s) ==
  LET twice == At(s, 2) = s[1]
  IN  IF twice /\ s[1] \in DoubledEq /\ At(s, 3) = "=" THEN 3
      ELSE IF \/ twice /\ s[1] \in Doubled
              \/ At(s, 2) = "=" /\ s[1] \in WithEqual THEN 2
      ELSE 1

\* number(): a sign belongs to the number after what may be an exponent.
LexNumber(s) ==
  Span(s, LAMBDA i : \/ s[i] \in Letters \cup Digits \cup {"."}
                     \/ i > 1 /\ s[i] \in {"+", "-"} /\ s[i - 1] \in Exponent)

\* lex0(): the length of the token s begins with, 0 if there is none.
LexLen(s) ==
  LET c == s[1]
  IN  CASE c \in Letters      -> Span(s, LAMBDA i : s[i] \in Letters \cup Digits)
        [] c \in Digits       -> LexNumber(s)
        [] c \in {"\"", "'"}  -> Unquoted(s)
        [] c \in Strange      -> 0
        [] c = "."            -> IF At(s, 2) = "." /\ At(s, 3) = "." THEN 3
                                 ELSE IF At(s, 2) \in Digits THEN LexNumber(s) ELSE 1
        [] c = "-" /\ At(s, 2) = ">" -> 2
        [] OTHER              -> LexOperator(s)

White == {" ", "\n"}

RECURSIVE Lex(_)
Lex(s) ==
  LET n == LexLen(s)
  IN  CASE s = <<>>                       -> <<>>
        [] s # <<>> /\ s[1] \in White     -> Lex(Tail(s))
        [] s # <<>> /\ s[1] \notin White  ->
             IF n = 0 THEN << <<>> >> ELSE <<SubSeq(s, 1, n)>> \o Lex(Rest(s, n + 1))
=============================================================================
