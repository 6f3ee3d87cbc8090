---------------------------- MODULE PreprocessMC ----------------------------
(***************************************************************************)
(* Instances of the preprocessor's text: which macros, which text, which   *)
(* conditions.                                                             *)
(***************************************************************************)
EXTENDS Preprocess

Def(line) == [op |-> "define", line |-> line]

AllDirectives ==
  {Def(<<"e">>),
   Def(<<"a", " ", "a", "+">>),
   Def(<<"a", " ", "f">>),
   Def(<<"a", " ", "1">>),
   Def(<<"f", "(", "x", ")", "x", " ", "f">>),
   Def(<<"f", "(", "x", ")", "#", " ", "x">>),
   Def(<<"f", "(", "x", ",", "y", ")", "y", "#", "#", "1", "x">>),
   Def(<<"g", "(", "x", ")", "f", "(", "x", ")", "-", "x">>),
   Def(<<"g", "(", ")", "1">>),
   [op |-> "undef", line |-> <<"a">>]}

AllFragments ==
  {<<"f", "(">>, <<"g", "(", "a">>, <<"a">>, <<"e", "+">>, <<")">>, <<",">>, <<"\n">>}

Leaf(t) == <<"leaf", t>>
Constant(c) == Leaf(<<Tok("NUMBER", c)>>)
Ident(n) == Tok("IDENT", n)

Signeds   == {Constant(<<"0">>), Constant(<<"2">>), Constant(<<"5">>), Leaf(<<Ident(<<"a">>)>>)}
Unsigneds == {Constant(<<"1", "u">>), Constant(<<"1", "2">>), Constant(<<"2", "5">>)}
Defineds  == {Leaf(<<Ident(Defined), Ident(<<"f">>)>>),
              Leaf(<<Ident(Defined), Op(<<"(">>), Ident(<<"a">>), Op(<<")">>)>>)}
Leaves == Signeds \cup Unsigneds \cup Defineds

Ops == UNION ToSet(Prec)
Bin(L, R)  == {<<"bin", op, l, r>> : op \in Ops, l \in L, r \in R}
Un(L)      == {<<"un", op, l>> : op \in UnaryOps, l \in L}
If(C, L, R) == {<<"if", c, l, r>> : c \in C, l \in L, r \in R}

\* Trees of up to three operators.
AllConditions ==
  LET few == {Constant(<<"2">>), Constant(<<"1", "l">>)}
      two == Bin(few, few)
  IN  Leaves \cup Bin(Leaves, Leaves) \cup Un(Leaves \cup Un(few) \cup two)
      \cup Bin(Un(few), few) \cup Bin(few, Un(few))
      \cup Bin(two, few) \cup Bin(few, two)
      \cup If(Leaves, few, two) \cup If(two, few, few) \cup If(few, few, If(few, few, few))
      \cup If(If(few, few, few), few, few)

\* The names in the replacement list of a macro.
Mentions(name) == {t.text : t \in {u \in ToSet(macros[name].tokens) : u.kind = "IDENT"}}

\* No macro is reached from itself through another one.
Acyclic ==
  LET up[n \in 0 .. 3] ==
        IF n = 0 THEN [x \in DOMAIN macros |-> Mentions(x) \ {x}]
        ELSE [x \in DOMAIN macros |->
                up[n - 1][x] \cup UNION {Mentions(y) \ {y} : y \in up[n - 1][x] \cap DOMAIN macros}]
  IN  \A x \in DOMAIN macros : x \notin up[3][x]
=============================================================================
