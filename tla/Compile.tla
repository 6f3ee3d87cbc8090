------------------------------ MODULE Compile ------------------------------
(* The compilation of one function, from its tokens to a graph without       *)
(* switches: function_definition of cc1/decl.c with the parser, the trees    *)
(* (Tree, Expr), the code made of them (Gen), dealias, those of the early    *)
(* passes that shape the graph (Ir), and the switches. What C says of the    *)
(* same function is the module Reference.                                    *)
EXTENDS Gen

-----------------------------------------------------------------------------
(* The statement parser of cc1/stmt.c, which makes code as it reads. To the  *)
(* function that Gen knows it adds the tokens that are left, the blocks that *)
(* break, continue, case and default refer to (NoBlock outside), and the     *)
(* blocks of the labels. Declarations and asm are not modelled.              *)

CONSTANTS
    ParseExpression(_),     \* expression() of expr.c: Expr's Expression
    GenerateRoot(_, _)      \* gen() of a whole expression: Gen's GenRoot

RECURSIVE Statement(_), Statements(_)

NoBlock == 0

(* A fatal error: there is nothing left to read. *)
Error(f)    == [f EXCEPT !.bad = TRUE, !.toks = <<>>]
Match(f, k) == IF Look(f.toks) = k THEN [f EXCEPT !.toks = Tail(@)] ELSE Error(f)
Skip(f)     == [f EXCEPT !.toks = Tail(@)]

(* The block b becomes the current one, with control falling into it. *)
Enter(f, b) == At(Goto(f, b), b)

(* An expression that has been parsed, p, and the function after it. *)
ReadOf(f, p) == IF Failed(p.t) THEN Made(Fatal, Error(f)) ELSE Made(p.t, [f EXCEPT !.toks = p.r])
ReadExpression(f) == ReadOf(f, ParseExpression(f.toks))
GenTree(t, f)     == IF Failed(t) THEN Made(Fatal, Error(f)) ELSE GenerateRoot(t, f)

(* A test of x, a tree and the function after it. *)
Branching(v, true, false) == IF v.f.bad THEN v.f ELSE GenBranch(v.f, v.t, true, false)
TestOf(x, true, false)    == Branching(GenTree(TestExpression(x.t, "!="), x.f), true, false)

(* condition *)
Condition(f, true, false) == Match(TestOf(ReadExpression(Match(f, "(")), true, false), ")")

DoStatement(f) ==
    LET body == Newest(f.g)
        f1   == Enter(NewBlock(NewBlock(NewBlock([f EXCEPT !.brk = body + 1, !.cont = body + 2]))), body)
        f2   == Enter(Statement(Skip(f1)), body + 2)
        f3   == Match(Condition(Match(f2, "while"), body, body + 1), ";")
    IN [At(f3, body + 1) EXCEPT !.brk = f.brk, !.cont = f.cont]

(* One of the three expressions of a for statement, up to the token last     *)
(* after it; it is made into code when its place comes.                      *)
Ended(x, last)    == Made(x.t, Match(x.f, last))
Optional(f, last) == Ended(IF Look(f.toks) = last THEN Made(TreeV, f) ELSE ReadExpression(f), last)
GenOptional(t, f) == IF t = TreeV THEN f ELSE GenTree(t, f).f

ForTest(t, f, test) ==
    IF t = TreeV THEN Goto(f, test + 1) ELSE TestOf(Made(t, f), test + 1, test + 3)
ForBody(init, cond, step, test) ==
    LET f1 == ForTest(cond.t, Enter(GenOptional(init.t, step.f), test), test)
        f2 == Enter(Statement(At(f1, test + 1)), test + 2)
    IN At(Goto(GenOptional(step.t, f2), test), test + 3)
ForStep(init, cond, test) == ForBody(init, cond, Optional(cond.f, ")"), test)
ForCond(init, test)       == ForStep(init, Optional(init.f, ";"), test)
ForStatement(f) ==
    LET test == Newest(f.g)
        f1   == NewBlock(NewBlock(NewBlock(NewBlock(
                    [Match(Skip(f), "(") EXCEPT !.cont = test + 2, !.brk = test + 3]))))
    IN [ForCond(Optional(f1, ";"), test) EXCEPT !.brk = f.brk, !.cont = f.cont]

ElsePart(f) == IF Look(f.toks) = "else" THEN Statement(Skip(f)) ELSE f
IfStatement(f) ==
    LET true == Newest(f.g)
        join == true + 2
        f1   == Condition(Skip(NewBlock(NewBlock(NewBlock(f)))), true, true + 1)
        f2   == At(Goto(Statement(At(f1, true)), join), true + 1)
    IN Enter(ElsePart(f2), join)

WhileStatement(f) ==
    LET test == Newest(f.g)
        f1   == NewBlock(NewBlock(NewBlock([f EXCEPT !.cont = test, !.brk = test + 2])))
        f2   == Condition(Skip(Enter(f1, test)), test + 1, test + 2)
        f3   == At(Goto(Statement(At(f2, test + 1)), test), test + 2)
    IN [f3 EXCEPT !.brk = f.brk, !.cont = f.cont]

(* Control goes to b and what follows, if nothing leads to it, is for nobody.*)
Leave(f, b) == LET f1 == Goto(f, b) IN At(NewBlock(f1), Newest(f1.g))

Returned(v, ret) ==
    Emit(v.f, IF IsStrun(ret)
              THEN Insn("BLKCOPY", Leaf(TreeSym("result")), Leaf(v.t), Con("ULONG", TypeSizeof(ret)))
              ELSE Insn("RETURN", None, Leaf(v.t), None))
ReturnValue(t, f) ==
    IF Failed(t) THEN Error(f) ELSE Returned(GenTree(IF IsStrun(f.ret) THEN Addrof(t) ELSE t, f), f.ret)
ReturnOf(x) == ReturnValue(FakeAssign(x.f.ret, x.t), x.f)
ReturnStatement(f) ==
    LET value == ReturnOf(ReadExpression(Skip(f)))
        f1 == IF Look(Tail(f.toks)) = ";" THEN Emit(Skip(f), Insn("RETURN", None, None, None)) ELSE value
    IN IF f1.bad THEN f1 ELSE Match(Leave(f1, Exit), ";")

LoopControl(f, b) == IF b = NoBlock THEN Error(f) ELSE Match(Skip(Leave(f, b)), ";")

SwitchBody(f, dflt, head) ==
    LET f1 == [f EXCEPT !.g = AddSuccessor([@ EXCEPT !.control[f.cur] = head], f.cur,
                                           Cessor("DEFAULT", dflt)),
                        !.sw = f.cur, !.dflt = dflt, !.brk = dflt + 1, !.saw = FALSE]
    IN Goto(Statement(At(f1, dflt + 2)), dflt + 1)
SwitchEnd(f, dflt, sw) ==
    At([(IF f.saw THEN f ELSE Goto(At(f, dflt), dflt + 1)) EXCEPT !.g = CoalesceSuccessors(@, sw)],
       dflt + 1)
SwitchWith(v) ==
    IF v.f.bad THEN v.f
    ELSE SwitchEnd(SwitchBody(NewBlock(NewBlock(NewBlock(v.f))), Newest(v.f.g), Leaf(v.t)),
                   Newest(v.f.g), v.f.cur)
SwitchOn(x) ==
    IF ~Arith(x.t.ty) THEN Error(x.f)
    ELSE SwitchWith(GenTree(IF IsIn(x.t.ty, Chars \cup Shorts) THEN CastBits(x.t, "INT") ELSE x.t,
                            Match(x.f, ")")))
SwitchStatement(f) ==
    [SwitchOn(ReadExpression(Match(Skip(NewBlock(f)), "(")))
        EXCEPT !.sw = f.sw, !.brk = f.brk, !.dflt = f.dflt, !.saw = f.saw]

(* case_label and block_switch_case: values are kept as unsigned longs.      *)
CaseValue(f, p, n) ==
    IF Failed(p.t) \/ \E i \in 2 .. Len(f.g.succ[f.sw]) : f.g.succ[f.sw][i].min = n THEN Error(f)
    ELSE Enter([Match([NewBlock(f) EXCEPT !.toks = p.r], ":")
                   EXCEPT !.g = AddSuccessor(@, f.sw, Case(n, n, Newest(f.g)))], Newest(f.g))
CaseOf(f, p) == CaseValue(f, p, Norm(f.g.control[f.sw].ts, p.t.n) % 2^Width)
CaseLabel(f) == IF f.sw = NoBlock THEN Error(f) ELSE CaseOf(f, IntExpression(Tail(f.toks)))

DefaultCase(f) ==
    IF f.sw = NoBlock \/ f.saw THEN Error(f)
    ELSE Enter([Match(Skip(f), ":") EXCEPT !.saw = TRUE], f.dflt)

(* label_lookup: the block of a label is made when the label is first met.   *)
Labelled(f, id) ==
    IF id \in DOMAIN f.labels THEN f
    ELSE [NewBlock(f) EXCEPT !.labels = (id :> [b |-> Newest(f.g), defined |-> FALSE]) @@ @]

GotoStatement(f) ==
    LET id == Look(Tail(f.toks))
        f1 == Labelled(Skip(Skip(f)), id)
    IN IF id \in {"", ";"} THEN Error(f) ELSE Match(Leave(f1, f1.labels[id].b), ";")

LabelDefine(f) ==
    LET id == Head(f.toks)
        f1 == Labelled(Skip(Skip(f)), id)
    IN IF f1.labels[id].defined THEN Error(f)
       ELSE Enter([f1 EXCEPT !.labels[id].defined = TRUE], f1.labels[id].b)

Statements(f) == IF f.bad THEN f ELSE IF Look(f.toks) = "}" THEN Skip(f) ELSE Statements(Statement(f))

(* compound_statement *)
CompoundStatement(f) == Statements(Match(f, "{"))

(* After a label the statement is still to come. *)
Labels(f) == CASE Look(f.toks) = "case" -> CaseLabel(f)
               [] Look(f.toks) = "default" -> DefaultCase(f)
               [] OTHER -> LabelDefine(f)

ExprStatement(x) == GenTree(x.t, x.f).f
Statement(f) ==
    LET k == Look(f.toks)
    IN CASE f.bad -> f
         [] k = "{" -> CompoundStatement(f)
         [] k \in {"case", "default"} \/ (k # "" /\ Look(Tail(f.toks)) = ":") -> Statement(Labels(f))
         [] k = ";" -> Skip(f)
         [] k = "goto" -> GotoStatement(f)
         [] k = "do" -> DoStatement(f)
         [] k = "for" -> ForStatement(f)
         [] k = "if" -> IfStatement(f)
         [] k = "while" -> WhileStatement(f)
         [] k = "break" -> LoopControl(f, f.brk)
         [] k = "continue" -> LoopControl(f, f.cont)
         [] k = "return" -> ReturnStatement(f)
         [] k = "switch" -> SwitchStatement(f)
         [] OTHER -> Match(ExprStatement(ReadExpression(f)), ";")

(* func_new: the entry, the first block of the body, and the exit. *)
FuncNew(toks, ret) ==
    LET none == [list |-> <<Entry, 2, Exit>>,
                 succ |-> [b \in BlockIds |-> <<>>],
                 pred |-> [b \in BlockIds |-> [p \in BlockIds |-> 0]],
                 control |-> [b \in BlockIds |-> NoControl],
                 body |-> [b \in BlockIds |-> <<>>]]
        f == [g |-> none, cur |-> Entry, temp |-> 100, auto |-> {}, toks |-> toks, labels |-> <<>>,
              brk |-> NoBlock, cont |-> NoBlock, sw |-> NoBlock, dflt |-> NoBlock, saw |-> FALSE,
              ret |-> ret, bad |-> FALSE]
    IN Enter(f, 2)

(* The end of function_definition's parsing: every label must be defined.    *)
FuncEnd(f) ==
    IF \E id \in DOMAIN f.labels : ~f.labels[id].defined THEN Error(f) ELSE Goto(f, Exit)

-----------------------------------------------------------------------------

CONSTANTS Sources,      \* the functions compiled: their body and what they return
          Memories,     \* what the variables may be when they are called
          SwitchSmalls, \* what SWITCH_SMALL may be
          Meaning(_, _, _), \* what C says that a body does (Reference's Meant),
          IsLegal(_, _),    \* whether it accepts it (WellFormed),
          TypeInC(_)        \* and the type of an expression (TypeOf)

VARIABLES source,       \* the function that is compiled
          f,            \* what the compiler has made of it
          meant,        \* what C says it does, for each of Memories
          does,         \* what the code for it does
          stage         \* the pass that is next

vars == <<source, f, meant, does, stage>>

-----------------------------------------------------------------------------
(* The text of a program, with no more parentheses than it needs.            *)

Level(op) == CHOOSE n \in DOMAIN Levels : op \in Levels[n]
Precedence(e) == CASE e[1] = "comma" -> 0
                   [] e[1] = "asg" -> 1
                   [] e[1] = "cond" -> 2
                   [] e[1] = "bin" -> 2 + Level(e[2])
                   [] e[1] \in {"un", "cast", "sizeof", "sizetype"} -> 13
                   [] OTHER -> 14

RECURSIVE Text(_)
Within(e, min) == IF Precedence(e) < min THEN <<"(">> \o Text(e) \o <<")">> ELSE Text(e)
Text(e) ==
    CASE e[1] \in {"num", "var"} -> <<e[2]>>
      [] e[1] = "un" -> <<e[2]>> \o Within(e[3], 13)
      [] e[1] = "post" -> Within(e[3], 14) \o <<e[2]>>
      [] e[1] = "bin" -> Within(e[3], Precedence(e)) \o <<e[2]>> \o Within(e[4], Precedence(e) + 1)
      [] e[1] = "asg" -> Within(e[3], 13) \o <<e[2]>> \o Within(e[4], 1)
      [] e[1] = "cond" -> Within(e[2], 3) \o <<"?">> \o Text(e[3]) \o <<":">> \o Within(e[4], 2)
      [] e[1] = "comma" -> Within(e[2], 1) \o <<",">> \o Text(e[3])
      [] e[1] = "cast" -> <<"(", e[2], ")">> \o Within(e[3], 13)
      [] e[1] = "sizeof" -> <<"sizeof", "(">> \o Text(e[2]) \o <<")">>
      [] e[1] = "sizetype" -> <<"sizeof", "(", e[2], ")">>
      [] e[1] = "index" -> Within(e[2], 14) \o <<"[">> \o Text(e[3]) \o <<"]">>
      [] e[1] = "dot" -> Within(e[2], 14) \o <<".", e[3]>>
      [] e[1] = "arrow" -> Within(e[2], 14) \o <<"->", e[3]>>
      [] e[1] = "call" ->
           Within(e[2], 14) \o <<"(">>
           \o FoldLeft(LAMBDA t, a : (IF t = <<>> THEN t ELSE Append(t, ",")) \o Within(a, 1), <<>>, e[3])
           \o <<")">>

RECURSIVE Lines(_)
Maybe(e) == IF e = <<>> THEN <<>> ELSE Text(e)
Lines(s) ==
    CASE s[1] = "expr" -> Append(Text(s[2]), ";")
      [] s[1] = "if" ->
           <<"if", "(">> \o Text(s[2]) \o <<")">> \o Lines(s[3])
           \o (IF s[4] = <<"empty">> THEN <<>> ELSE <<"else">> \o Lines(s[4]))
      [] s[1] \in {"while", "switch"} -> <<s[1], "(">> \o Text(s[2]) \o <<")">> \o Lines(s[3])
      [] s[1] = "do" -> <<"do">> \o Lines(s[2]) \o <<"while", "(">> \o Text(s[3]) \o <<")", ";">>
      [] s[1] = "for" -> <<"for", "(">> \o Maybe(s[2]) \o <<";">> \o Maybe(s[3]) \o <<";">>
                         \o Maybe(s[4]) \o <<")">> \o Lines(s[5])
      [] s[1] = "block" -> <<"{">> \o FoldLeft(LAMBDA t, x : t \o Lines(x), <<>>, s[2]) \o <<"}">>
      [] s[1] = "return" -> <<"return">> \o Maybe(s[2]) \o <<";">>
      [] s[1] \in {"break", "continue"} -> <<s[1], ";">>
      [] s[1] = "goto" -> <<"goto", s[2], ";">>
      [] s[1] = "label" -> <<s[2], ":">> \o Lines(s[3])
      [] s[1] = "case" -> <<"case", s[2], ":">> \o Lines(s[3])
      [] s[1] = "default" -> <<"default", ":">> \o Lines(s[2])
      [] s[1] = "empty" -> <<";">>

-----------------------------------------------------------------------------

(* The variables as a caller could see them: those in registers are put in   *)
(* memory at the end.                                                        *)
Registers ==
    FoldSet(LAMBDA s, l : Append(l, s), <<>>,
            {s \in DOMAIN Scope : /\ Scope[s].ss \in {"LOCAL", "REGISTER"}
                                  /\ IsIn(Scope[s].ty, Discrete)
                                  /\ s # "result"})
Observed(fn) ==
    LET kept == SelectSeq(Registers, LAMBDA s : s \notin fn.auto)
    IN [fn.g EXCEPT !.body[Exit] =
           [n \in DOMAIN kept |->
               Insn("STORE", SymCon("ULONG", kept[n], 0), Leaf(TreeSym(kept[n])), None)]]
Numbered == {s \in DOMAIN Scope : Scope[s].reg # 0}
Passed(m) == [r \in {Scope[s].reg : s \in Numbered} |->
                 m[Address[CHOOSE s \in Numbered : Scope[s].reg = r]]]
Does(fn)  == [m \in Memories |-> Behaviour(Observed(fn), Passed(m), m)]

Init == /\ source \in Sources
        /\ f = FuncNew(Tail(Lines(source.body)), source.ret)
        /\ meant = <<>>
        /\ does = <<>>
        /\ stage = "parse"

(* One of the statements of the body. *)
parse == /\ stage = "parse"
         /\ Look(f.toks) \notin {"", "}"}
         /\ f' = Statement(f)
         /\ UNCHANGED <<source, meant, does, stage>>

(* The end of the body; an error is fatal wherever it was found.             *)
finish == /\ stage = "parse"
          /\ Look(f.toks) = "}"
          /\ f' = FuncEnd(Skip(f))
          /\ meant' = IF f'.bad THEN <<>>
                      ELSE [m \in Memories |-> Meaning(source.body, source.ret, m)]
          /\ stage' = "dealias"
          /\ UNCHANGED <<source, does>>

Pass(this, g, next) ==
    /\ ~f.bad
    /\ stage = this
    /\ stage' = next
    /\ f' = g
    /\ does' = IF f' = f /\ does # <<>> THEN does ELSE Does(f')
    /\ UNCHANGED <<source, meant>>
OnGraph(this, g, next) == Pass(this, [f EXCEPT !.g = g], next)

dealias    == Pass("dealias", Dealias(f), "unreach")
unreach    == OnGraph("unreach", Unreach(f.g), "prune")
prune      == OnGraph("prune", Prune(f.g), "nop")
nop        == OnGraph("nop", LET g == RemoveNops(f.g)
                             IN IF \E b \in Live(g) : BlockEmpty(g, b) THEN Prune(g) ELSE g,
                      "coal")
coal       == OnGraph("coal", Coal(f.g), "switch_gen")
switch_gen == \E small \in SwitchSmalls : Pass("switch_gen", SwitchGen(f, small), "opt_post")
opt_post   == OnGraph("opt_post", Coal(f.g), "output")

Next == parse \/ finish \/ dealias \/ unreach \/ prune \/ nop \/ coal \/ switch_gen \/ opt_post

Spec == Init /\ [][Next]_vars

-----------------------------------------------------------------------------
Compiled == stage \notin {"parse", "dealias"}
Cleaned  == stage \notin {"parse", "dealias", "unreach"}

(* What a pass finds in a block's predecessors is what leads to it: they are *)
(* kept up to date by all that edits the graph, and a block that was freed   *)
(* is nobody's predecessor (block.c).                                        *)
PredecessorsMatch == Linked(f.g) /\ Rested(f.g)

(* A block says where control goes whatever it compares, and one thing only  *)
(* (block.h's invariants on successors); and that is to a block that was not *)
(* freed.                                                                    *)
SuccessorsDecide == Cleaned => Decided(f.g) /\ Closed(f.g)

(* From the first graph that is whole, the code does what C says: it makes   *)
(* the same calls with the same arguments and the same volatile accesses,    *)
(* returns the same, and leaves the same in every variable, unless C says    *)
(* nothing of what happens (expr.c, gen.c, cast.c, sign.c, field.c, stmt.c,  *)
(* dealias.c, switch.c).                                                     *)
ComputesAsC ==
    Compiled => \A m \in Memories : Same(meant[m], does[m])

(* What C rejects is rejected, and nothing else is: expressions whose types  *)
(* do not fit, labels that are missing or there twice, statements outside of *)
(* the loop or the switch they belong to. An expression has the type that C  *)
(* gives it (expr.c, type.c, stmt.c, symbol.c).                              *)
SameType(s, t) == Unqual(Unfield(s)) = Unqual(Unfield(t))
TypedAsC ==
    /\ stage = "parse" /\ Look(f.toks) = "}" /\ source.expr # <<>> =>
          SameType(ParseExpression(Text(source.expr)).t.ty, TypeInC(source.expr))
    /\ f.bad => ~IsLegal(source.body, source.ret)
    /\ stage = "dealias" /\ ~f.bad => IsLegal(source.body, source.ret)
=============================================================================
