-------------------------------- MODULE Macro --------------------------------
(***************************************************************************)
(* The macros of the preprocessor (cpp/macro.c): their table, and how the  *)
(* head of a list of tokens is replaced; last, what C says it becomes.     *)
(*                                                                         *)
(* The table is a function from names to macros.  A macro has the names of *)
(* its formal arguments and a replacement list, in which ARG i stands for  *)
(* the i-th; args says whether it takes arguments, predef and defined what *)
(* its flags do.  Of the predefined macros, __STDC__ and `defined' stand   *)
(* for all: what a line number, a path or the time expand to is left out.  *)
(***************************************************************************)
EXTENDS Token

MacroOf(args, formals, tokens) ==
  [args |-> args, formals |-> formals, tokens |-> tokens, predef |-> FALSE, defined |-> TRUE]

Stdc    == <<"_", "c", "_">>
Defined == <<"d", "e", "f", "d">>

\* macro_predef()
Predefined ==
  (Stdc :> [MacroOf(FALSE, <<>>, <<Tok("NUMBER", <<"1">>)>>) EXCEPT !.predef = TRUE])
  @@ (Defined :> [MacroOf(FALSE, <<>>, <<>>) EXCEPT !.predef = TRUE, !.defined = FALSE])

\* macro_lookup(), where the caller wants one that expands.
IsMacro(m, t) == t.kind = "IDENT" /\ t.text \in DOMAIN m /\ m[t.text].defined

-----------------------------------------------------------------------------
\* #define and #undef

\* The formal arguments, from the opening parenthesis on; what follows them is
\* left.
RECURSIVE Formals(_, _)
Formals(l, formals) ==
  LET name  == StripEnds(Tail(l))
      after == StripEnds(Tail(name))
  IN  CASE ~FirstIs(name, "IDENT") -> [ok |-> FALSE]
        [] FirstOp(after, <<",">>) -> Formals(after, Append(formals, name[1]))
        [] FirstOp(after, <<")">>) -> [ok |-> TRUE, formals |-> Append(formals, name[1]), left |-> Tail(after)]
        [] OTHER                   -> [ok |-> FALSE]

Definition(l) ==
  CASE ~FirstOp(l, <<"(">>)    -> [ok |-> TRUE, m |-> MacroOf(FALSE, <<>>, Normalize(l, <<>>))]
    [] FirstOp(Tail(l), <<")">>) -> [ok |-> TRUE, m |-> MacroOf(TRUE, <<>>, Normalize(Rest(l, 3), <<>>))]
    [] OTHER -> LET f == Formals(l, <<>>)
                IN  IF ~f.ok THEN f
                    ELSE [ok |-> TRUE, m |-> MacroOf(TRUE, f.formals, Normalize(f.left, f.formals))]

\* macro_define(): the table it leaves, or none after error().  A macro may be
\* defined again only as it is.
Define(m, l) ==
  LET name == l[1].text
      d    == Definition(Tail(l))
  IN  IF ~FirstIs(l, "IDENT") THEN {}
      ELSE IF ~d.ok THEN {}
      ELSE IF name \in DOMAIN m /\ m[name] # d.m THEN {}
      ELSE {(name :> d.m) @@ m}

\* macro_undef()
Undef(m, l) ==
  LET name == l[1].text
  IN  IF ~FirstIs(l, "IDENT") THEN {}
      ELSE IF name \in DOMAIN m /\ m[name].predef THEN {}
      ELSE {Restrict(m, DOMAIN m \ {name})}

-----------------------------------------------------------------------------
\* Replacement.

\* Parentheses open before place i.
Depth(l, i) == Cardinality({j \in 1 .. i - 1 : l[j] = Op(<<"(">>)})
               - Cardinality({j \in 1 .. i - 1 : l[j] = Op(<<")">>)})

ArgumentLen(l) ==
  Span(l, LAMBDA i : Depth(l, i) # 0 \/ l[i] \notin {Op(<<",">>), Op(<<")">>)})

\* One argument as gather() keeps it.
Argument(l) == LET a == FoldSpaces(StripEnds(l)) IN IF a = <<>> THEN <<Placeholder>> ELSE a

\* gather(): the arguments of n formals at the head of l, past the opening
\* parenthesis; how many formals are without one, and what is left.
RECURSIVE Gather(_, _, _)
Gather(l, n, args) ==
  IF n = 0 THEN [args |-> args, missing |-> 0, left |-> SkipSpaces(l)]
  ELSE LET len  == ArgumentLen(l)
           here == Append(args, Argument(SubSeq(l, 1, len)))
           rest == Rest(l, len + 1)
       IN  IF FirstOp(rest, <<",">>) THEN Gather(Tail(rest), n - 1, here)
           ELSE [args |-> here, missing |-> n - 1, left |-> SkipSpaces(rest)]

\* A walk along a list: the operator that was met last still waits for its
\* operand, and what has been written.
Start == [waits |-> FALSE, out |-> <<>>]
End(st) == IF st.waits THEN <<Bad>> ELSE st.out

\* stringize(), phase 1
Stringize(l, args) ==
  End(FoldLeft(LAMBDA st, t :
        CASE t.kind = "STRINGIZE" ->
               IF st.waits THEN [st EXCEPT !.out = <<Bad>>] ELSE [st EXCEPT !.waits = TRUE]
          [] st.waits /\ IsSpace(t) -> st
          [] st.waits /\ ~IsSpace(t) /\ t.kind # "STRINGIZE" ->
               [waits |-> FALSE,
                out |-> Append(st.out, IF t.kind = "ARG" THEN ListStringize(args[t.val]) ELSE Bad)]
          [] OTHER -> [st EXCEPT !.out = Append(@, t)],
      Start, l))

\* The left operand of ## is the last token of l that is no space.
LeftOperand(l) == IF l = <<>> THEN [waits |-> FALSE, out |-> <<Bad>>] ELSE [waits |-> TRUE, out |-> l]

\* paste(), phase 3: an operand takes the place of the operator and of both.
PasteAll(l) ==
  End(FoldLeft(LAMBDA st, t :
        CASE t.kind = "PASTE" /\ ~st.waits -> LeftOperand(StripTail(st.out))
          [] st.waits /\ IsSpace(t) -> st
          [] st.waits /\ ~IsSpace(t) ->
               [waits |-> FALSE, out |-> Append(Front(st.out), Paste(Last(st.out), t))]
          [] OTHER -> [st EXCEPT !.out = Append(@, t)],
      Start, l))

\* (Fault: the operands of ## are expanded as any other argument is.)
Raw_Never(l, i) == FALSE

\* An operand of ## is substituted as it is.
Raw(l, i) == NextIs(l, i, "PASTE") \/ PrevIs(l, i, "PASTE")

\* The arguments of the call at the head of l and what follows them, if the
\* head is to be replaced.
Calls(m, l) ==
  LET called == m[l[1].text]
      call   == SkipSpaces(Tail(l))
      g      == Gather(Tail(call), Len(called.formals), <<>>)
  IN  IF ~IsMacro(m, l[1]) \/ (called.args /\ ~FirstOp(call, <<"(">>)) THEN {}
      ELSE IF ~called.args THEN {[ok |-> TRUE, args |-> <<>>, left |-> Tail(l)]}
      ELSE {[ok |-> g.missing = 0 /\ FirstOp(g.left, <<")">>), args |-> g.args, left |-> Rest(g.left, 2)]}

\* What follows an error does not matter.
Before(l, left) == IF Failed(l) \/ Failed(left) THEN <<Bad>> ELSE l \o left

RECURSIVE Expanded(_, _)

\* expand(), phase 2
Substitute(m, l, args) ==
  LET part(i) == CASE l[i].kind # "ARG" -> <<l[i]>>
                   [] l[i].kind = "ARG" /\ Raw(l, i)  -> args[l[i].val]
                   [] l[i].kind = "ARG" /\ ~Raw(l, i) -> Expanded(m, args[l[i].val])
  IN  FlattenSeq([i \in DOMAIN l |-> part(i)])

\* macro_replace(): the list after the replacement of its head, if it is
\* replaced.
MacroReplace(m, l) ==
  LET name == l[1].text
      replaced(args) == Ennervate(PasteAll(Substitute(m, Stringize(m[name].tokens, args), args)), name)
  IN  {IF c.ok THEN Before(replaced(c.args), c.left) ELSE <<Bad>> : c \in Calls(m, l)}

\* macro_replace_all()
Expanded(m, l) ==
  LET new == MacroReplace(m, l)
  IN  IF l = <<>> \/ Failed(l) THEN l
      ELSE IF new # {} THEN Expanded(m, CHOOSE r \in new : TRUE)
      ELSE Before(<<l[1]>>, Expanded(m, Tail(l)))

-----------------------------------------------------------------------------
(***************************************************************************)
(* What macro replacement means in C (ANSI X3.159, 3.8.3): the algorithm   *)
(* with hide sets that the committee worked from.  Each token carries the  *)
(* names of the macros it came from, which may not replace it.             *)
(***************************************************************************)

Hide(t, hs)   == [t |-> t, hs |-> hs]
Fresh(l)      == [i \in DOMAIN l |-> Hide(l[i], {})]
Tokens(ts)    == [i \in DOMAIN ts |-> ts[i].t]
Visible(t)    == ~IsSpace(t) /\ t # Placeholder

\* The place of the parenthesis that closes the one at i, or 0.
Closing(l, i) ==
  LET ends == {j \in i .. Len(l) : l[j] = Op(<<")">>) /\ Depth(l, j + 1) = Depth(l, i)}
  IN  IF ends = {} THEN 0 ELSE CHOOSE j \in ends : \A k \in ends : j =< k

\* The arguments between places i and j, divided at the commas that no
\* parentheses enclose.
ArgumentsBetween(l, i, j) ==
  LET cuts == SetToSortSeq({i, j} \cup {k \in i + 1 .. j - 1 :
                              l[k] = Op(<<",">>) /\ Depth(l, k) = Depth(l, i + 1)}, <)
  IN  [n \in 1 .. Len(cuts) - 1 |->
         LET a == FoldSpaces(StripEnds(SubSeq(l, cuts[n] + 1, cuts[n + 1] - 1)))
         IN  IF a = <<>> THEN <<Placeholder>> ELSE a]

RECURSIVE CExpand(_, _), CArgument(_, _, _, _)

\* An argument, where it stands in the replacement list l at i: next to ## as
\* it is, elsewhere with the macros in it replaced.
CArgument(m, l, i, arg) ==
  LET apart == Len(SelectSeq(SubSeq(l, 1, i - 1), IsSpace))
      seen  == SelectSeq(l, LAMBDA t : ~IsSpace(t))
      at    == i - apart
  IN  IF \E j \in {at - 1, at + 1} \cap DOMAIN seen : seen[j].kind = "PASTE"
      THEN Fresh(arg) ELSE CExpand(m, Fresh(arg))

Invalid == <<Hide(Bad, {})>>

\* What is left after # and ## and the arguments, with hs hidden.
CSubstitute(m, name, args, hs) ==
  LET body == Stringize(m[name].tokens, args)
      all  == FlattenSeq([i \in DOMAIN body |->
                            IF body[i].kind = "ARG" THEN CArgument(m, body, i, args[body[i].val])
                            ELSE <<Hide(body[i], {})>>])
      \* ## takes what both of its operands hide.
      glue(st, h) ==
        CASE h.t.kind = "PASTE" -> [st EXCEPT !.glue = TRUE]
          [] st.glue /\ IsSpace(h.t) -> st
          [] st.glue /\ ~IsSpace(h.t) /\ h.t.kind # "PASTE" ->
               LET n == Len(StripTail(Tokens(st.out)))
               IN  [glue |-> FALSE,
                    out |-> IF n = 0 THEN Invalid
                            ELSE Append(SubSeq(st.out, 1, n - 1),
                                        Hide(Paste(st.out[n].t, h.t), st.out[n].hs \cap h.hs))]
          [] OTHER -> [st EXCEPT !.out = Append(@, h)]
      glued == FoldLeft(glue, [glue |-> FALSE, out |-> <<>>], all)
  IN  IF glued.glue THEN Invalid
      ELSE [i \in DOMAIN glued.out |-> Hide(glued.out[i].t, glued.out[i].hs \cup hs)]

CExpand(m, ts) ==
  IF ts = <<>> THEN ts
  ELSE
  LET l    == Tokens(ts)
      name == l[1].text
      open == Len(l) - Len(SkipSpaces(Tail(l))) + 1
      shut == Closing(l, open)
      args == IF m[name].formals = <<>> /\ StripEnds(SubSeq(l, open + 1, shut - 1)) = <<>> THEN <<>>
              ELSE ArgumentsBetween(l, open, shut)
      past(n) == SubSeq(ts, n + 1, Len(ts))
      \* The rest of an invalid text does not matter.
      then(r, rest) == IF Failed(Tokens(r)) THEN Invalid ELSE CExpand(m, r \o rest)
  IN  CASE ~IsMacro(m, l[1]) \/ name \in ts[1].hs -> <<ts[1]>> \o CExpand(m, Tail(ts))
        [] IsMacro(m, l[1]) /\ name \notin ts[1].hs /\ ~m[name].args ->
             then(CSubstitute(m, name, <<>>, ts[1].hs \cup {name}), Tail(ts))
        [] OTHER ->
             IF ~FirstOp(SkipSpaces(Tail(l)), <<"(">>) THEN <<ts[1]>> \o CExpand(m, Tail(ts))
             ELSE IF shut = 0 \/ Len(args) # Len(m[name].formals) THEN Invalid
             ELSE then(CSubstitute(m, name, args, (ts[1].hs \cap ts[shut].hs) \cup {name}), past(shut))

\* The texts of the tokens a list is replaced by; the empty text is one of
\* them if the list is not valid.
Expansion(m, l) ==
  LET r == SelectSeq(Tokens(CExpand(m, Fresh(l))), Visible)
  IN  [i \in DOMAIN r |-> r[i].text]
=============================================================================
