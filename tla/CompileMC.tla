----------------------------- MODULE CompileMC -----------------------------
(* Functions small enough to be many: every operator on operands of every    *)
(* kind, casts of casts, assignments to every kind of object, every small    *)
(* graph of gotos, every small switch, loops in loops, calls, structs and    *)
(* bit-fields. The types are 2, 4, 6 and 8 bits long, a byte has two.        *)
EXTENDS Compile, Reference

Blocks0   == 1 .. 24
Bits0     == [CHAR |-> 2, SCHAR |-> 2, UCHAR |-> 2, SHORT |-> 4, USHORT |-> 4,
              INT |-> 6, UINT |-> 6, LONG |-> 8, ULONG |-> 8]
Unsigned0 == {"CHAR", "UCHAR", "USHORT", "UINT", "ULONG"}

Qualified(q, ty) == TypeQualify(ty, {q})
Ints(n) == ArrayOf(n, Type("INT"))

(* struct s { int x; int b : 2, d : 3, e : 4; char y; }; *)
Aggregates0 ==
    "s" :> [union |-> FALSE,
            members |-> << [id |-> "x", ty |-> Type("INT"), field |-> <<>>],
                           [id |-> "b", ty |-> Type("INT"), field |-> <<2>>],
                           [id |-> "d", ty |-> Type("INT"), field |-> <<3>>],
                           [id |-> "e", ty |-> Type("INT"), field |-> <<4>>],
                           [id |-> "y", ty |-> Type("CHAR"), field |-> <<>>] >>]
StructS == <<[Node("STRUN") EXCEPT !.tag = "s", !.n = 9]>>

Protos0 ==
    [fn |-> [args |-> <<Type("INT"), Type("SCHAR")>>, variadic |-> FALSE, old |-> FALSE],
     fv |-> [args |-> <<Type("INT")>>, variadic |-> TRUE, old |-> FALSE],
     fs |-> [args |-> <<StructS>>, variadic |-> FALSE, old |-> FALSE],
     f0 |-> [args |-> <<>>, variadic |-> FALSE, old |-> FALSE]]

Var(ss, ty, r) == [ss |-> ss, ty |-> ty, reg |-> r]
Scope0 ==
    [c |-> Var("LOCAL", Type("CHAR"), 1), sc |-> Var("LOCAL", Type("SCHAR"), 2),
     s |-> Var("LOCAL", Type("SHORT"), 3), us |-> Var("LOCAL", Type("USHORT"), 4),
     i |-> Var("LOCAL", Type("INT"), 5), j |-> Var("LOCAL", Type("INT"), 6),
     u |-> Var("LOCAL", Type("UINT"), 7), l |-> Var("LOCAL", Type("LONG"), 8),
     ul |-> Var("LOCAL", Type("ULONG"), 9),
     p |-> Var("LOCAL", PtrTo(Type("INT")), 10),
     cp |-> Var("LOCAL", PtrTo(Qualified("const", Type("INT"))), 11),
     vp |-> Var("LOCAL", PtrTo(Type("VOID")), 12),
     kc |-> Var("REGISTER", Qualified("const", Type("INT")), 13),
     g |-> Var("EXTERN", Type("INT"), 14),
     v |-> Var("EXTERN", Qualified("volatile", Type("INT")), 15),
     gc |-> Var("STATIC", Type("SCHAR"), 16),
     ps |-> Var("LOCAL", PtrTo(StructS), 17),
     fp |-> Var("LOCAL", PtrTo(FuncOf("f0", Type("INT"))), 18),
     a |-> Var("LOCAL", Ints(2), 20), ga |-> Var("EXTERN", Ints(2), 21),
     st |-> Var("LOCAL", StructS, 22), gs |-> Var("EXTERN", StructS, 23),
     temp |-> Var("LOCAL", StructS, 24), result |-> Var("LOCAL", PtrTo(StructS), 25),
     fn |-> Var("EXTERN", FuncOf("fn", Type("INT")), 0),
     fv |-> Var("EXTERN", FuncOf("fv", Type("VOID")), 0),
     fs |-> Var("EXTERN", FuncOf("fs", StructS), 0),
     f0 |-> Var("EXTERN", FuncOf("f0", Type("INT")), 0)]

(* Every variable, and the cells of those that have several, as "name.cell". *)
Places(name, at) == (name :> at) @@ (name \o ".bd" :> at + 3) @@ (name \o ".e" :> at + 6)
                    @@ (name \o ".y" :> at + 8)
Address0 ==
    [c |-> 1, sc |-> 2, s |-> 3, us |-> 4, i |-> 5, j |-> 6, u |-> 7, l |-> 8, ul |-> 9, p |-> 10,
     cp |-> 11, vp |-> 12, kc |-> 13, g |-> 14, v |-> 15, gc |-> 16, ps |-> 17, fp |-> 18, result |-> 19,
     fn |-> 80, fv |-> 81, fs |-> 82, f0 |-> 83]
    @@ ("a" :> 30) @@ ("a.1" :> 33) @@ ("ga" :> 36) @@ ("ga.1" :> 39)
    @@ Places("st", 42) @@ Places("gs", 52) @@ Places("temp", 62) @@ Places("out", 72)
Global0 == {"g", "ga", "ga.1", "gs", "gs.bd", "gs.e", "gs.y", "temp", "temp.bd", "temp.e", "temp.y"}

Pointers0 == (10 :> 30) @@ (11 :> 33) @@ (12 :> 36) @@ (17 :> 52) @@ (18 :> 83) @@ (19 :> 72)
Memory(start) == Pointers0 @@ start @@ [n \in Cells |-> ((3 * n + 1) % 7) - 3]
Memories0 ==
    { Memory((1 :> 3) @@ (2 :> -2) @@ (3 :> -7) @@ (4 :> 13) @@ (5 :> 0) @@ (6 :> 3)
             @@ (7 :> 60) @@ (8 :> -100) @@ (9 :> 250)),
      Memory((1 :> 1) @@ (2 :> 1) @@ (3 :> 5) @@ (4 :> 2) @@ (5 :> -3) @@ (6 :> 2)
             @@ (7 :> 3) @@ (8 :> 2) @@ (9 :> 6)) }

Number(ts, n) == [ts |-> ts, n |-> n]
Literals0 == ("0" :> Number("INT", 0)) @@ ("1" :> Number("INT", 1)) @@ ("2" :> Number("INT", 2))
          @@ ("3" :> Number("INT", 3)) @@ ("5" :> Number("INT", 5)) @@ ("'\\377'" :> Number("INT", -1))
          @@ ("2U" :> Number("UINT", 2)) @@ ("3L" :> Number("LONG", 3)) @@ ("1UL" :> Number("ULONG", 1))
TypeNames0 == [char |-> Type("CHAR"), short |-> Type("SHORT"), int |-> Type("INT"), long |-> Type("LONG"),
               void |-> Type("VOID")]
          @@ ("signed char" :> Type("SCHAR")) @@ ("unsigned short" :> Type("USHORT"))
          @@ ("unsigned" :> Type("UINT")) @@ ("unsigned long" :> Type("ULONG"))
          @@ ("int *" :> PtrTo(Type("INT"))) @@ ("struct s" :> StructS)

-----------------------------------------------------------------------------
N(n) == <<"num", n>>
V(x) == <<"var", x>>
Un(op, e) == <<"un", op, e>>
Bin(op, x, y) == <<"bin", op, x, y>>
Asg(op, x, y) == <<"asg", op, x, y>>
CallOf(fn, args) == <<"call", V(fn), args>>
Dot(e, id) == <<"dot", e, id>>
Arrow(e, id) == <<"arrow", e, id>>
Index(x, y) == <<"index", x, y>>
Do1(e) == <<"expr", e>>
Return(e) == <<"return", e>>
Block(ss) == <<"block", ss>>
If0(c, s, t) == <<"if", c, s, t>>
If1(c, s) == If0(c, s, <<"empty">>)

(* A function of no expression in particular, which returns an int.          *)
Function(ss) == [expr |-> <<>>, body |-> Block(ss), ret |-> Type("INT")]

(* return e; where the function has the type of e. *)
Returning(e) ==
    LET ty == ValueType(e)
    IN IF IsBad(ty) \/ IsIn(ty, {"VOID"}) THEN [expr |-> e, body |-> Block(<<Do1(e)>>), ret |-> Type("INT")]
       ELSE [expr |-> e, body |-> Block(<<Return(e)>>), ret |-> ty]

Leaves == {N("0"), N("2U"), V("c"), V("sc"), V("i"), V("u"), V("l"), V("ul"),
           V("p"), V("cp"), V("vp"), V("st"), V("v"), Dot(V("st"), "b")}
BinaryOps == {"*", "/", "%", "+", "-", "<<", ">>", "<", "<=", ">", ">=", "==", "!=", "&", "^", "|", "&&", "||"}
Binaries == {b \in {Bin(op, x, y) : op \in BinaryOps, x \in Leaves, y \in Leaves} :
                b[2] \in {"&&", "||"} =>
                    LET s == ValueType(b[3])
                        t == ValueType(b[4])
                    IN IsPtr(s) /\ IsPtr(t) => Alike(s, t)}


(* Every other operator on operands of more kinds. *)
More == Leaves \cup {N("3L"), N("1UL"), V("s"), V("us"), V("a"), V("ga"), V("kc"), V("g"), V("gc"), V("ps"),
                     V("fp"), V("fn"), V("gs"), Un("*", V("p")), Un("*", V("cp")), Index(V("a"), V("j")),
                     Index(N("1"), V("p")), Arrow(V("ps"), "d"), Dot(V("gs"), "y"), Un("&", V("i")),
                     CallOf("f0", <<>>), Asg("=", V("i"), V("sc")), Bin("+", V("c"), N("1"))}
Unaries  == {Un(op, e) : op \in {"-", "+", "~", "!", "&", "++", "--"}, e \in More}
            \cup {Un("*", e) : e \in More \ {V("a"), V("ga")}}
            \cup {<<"post", op, e>> : op \in {"++", "--"}, e \in More}
            \cup {<<"sizeof", e>> : e \in {x \in More : TypeOf(x)[1].f = <<>>}}
            \cup {<<"cast", n, e>> : n \in DOMAIN TypeNames, e \in More}
            \cup {<<"sizetype", n>> : n \in DOMAIN TypeNames}

(* A branch that is a null constant is left out on the left of the colon,    *)
(* where it is not taken for one.                                            *)
Conditionals == {<<"cond", V("sc"), x, y>> : x \in (Leaves \cup {V("a"), V("cp")}) \ {N("0")}, y \in Leaves}
                \cup {<<"cond", x, V("i"), N("2U")>> : x \in More}

Objects == {V("c"), V("sc"), V("us"), V("i"), V("u"), V("l"), V("p"), V("cp"), V("vp"), V("st"), V("kc"), V("g"),
            V("gc"), V("v"), V("a"), N("1"), Un("*", V("p")), Un("*", V("cp")), Index(V("a"), V("i")), Dot(V("st"), "e"),
            Arrow(V("ps"), "d"), Dot(V("gs"), "y")}
Values0 == {V("sc"), V("us"), V("j"), V("u"), V("l"), V("p"), V("cp"), V("vp"), V("gs"), Index(V("ga"), N("1")),
            Un("*", V("p")), CallOf("f0", <<>>)}
Assignments == {Asg("=", x, y) : x \in Objects, y \in Values0 \cup {Un("&", V("i")), V("a")}}
               \cup {Asg("=", x, N("0")) : x \in {y \in Objects : TypeOf(y)[1].f = <<>>}}
               \cup {Asg(op, x, y) : op \in {"+=", "-=", "*=", "&=", "|=", "^="}, x \in Objects, y \in Values0}
               \cup {Asg(op, x, x) : op \in {"/=", "%="}, x \in Objects}
               \cup {Asg(op, x, x) : op \in {"<<=", ">>="}, x \in {y \in Objects : ~IsIn(TypeOf(y), {"CHAR"})}}


(* A signed value made unsigned and wider, then wider again: see README.     *)
Scalars == {n \in DOMAIN TypeNames : Scalar(TypeNames[n])}
Extended(s, t) == TypeSizeof(s) < TypeSizeof(t)
Twice(m, n, ty) == /\ TypeBase(ty) \in Signed
                   /\ TypeBase(TypeNames[n]) \notin Signed
                   /\ Extended(ty, TypeNames[n])
                   /\ Extended(TypeNames[n], TypeNames[m])
Chains == {<<"cast", x[1], <<"cast", x[2], x[3]>>>> :
             x \in {y \in Scalars \X Scalars \X {V("sc"), V("us"), V("i"), V("ul"), Bin("+", V("c"), V("l"))} :
                      ~Twice(y[1], y[2], TypeOf(y[3]))}}

-----------------------------------------------------------------------------
(* Control *)

Step(x)  == Do1(<<"post", "++", x>>)
Mark(n)  == Do1(CallOf("fv", <<N("1"), N(n)>>))
Goto0(l) == <<"goto", l>>

(* L: s; M: t; u; where each may go to L, to M or to the end. *)
Jumps == {Goto0("L"), Goto0("M"), If1(Un("!", V("i")), Goto0("L")), If1(V("i"), Goto0("M")),
          If0(V("j"), Goto0("L"), Goto0("M")), Do1(Asg("=", V("i"), Un("!", V("i")))), <<"empty">>, Return(V("i"))}
Gotos == {Function(<<<<"label", "L", s>>, <<"label", "M", t>>, u, Mark("2")>>) : s, t, u \in Jumps}

(* A switch of up to three items, in a statement with a mark at its end. *)
Labels0 == {<<"case", "0", <<"break">>>>, <<"case", "1", <<"empty">>>>, <<"case", "'\\377'", Mark("2")>>,
            <<"case", "2", Mark("1")>>, <<"default", Mark("3")>>, <<"break">>, Mark("5"), <<"case", "3", <<"empty">>>>}
Switched(e, items) == Function(<<<<"switch", e, Block(items)>>, Return(V("j"))>>)
Switches == {Switched(Un("-", V("sc")), items) :
               items \in UNION {[1 .. n -> Labels0] : n \in 0 .. 3}}

(* Loops, around one of the statements that leave them. *)
Leaving == {<<"break">>, <<"continue">>, <<"empty">>, If1(Bin("==", V("j"), N("1")), <<"break">>),
            If1(Bin("<", V("j"), N("2")), <<"continue">>), Return(V("j")),
            <<"switch", V("j"), Block(<<<<"case", "1", <<"continue">>>>, <<"default", <<"break">>>>>>)>>}
Again == Bin(">", <<"post", "--", V("j")>>, N("0"))
Looped(s) == {<<"while", Again, s>>, <<"do", s, Again>>,
              <<"for", Asg("=", V("j"), N("0")), Bin("<", V("j"), N("3")), <<"post", "++", V("j")>>, s>>,
              <<"for", <<>>, Again, <<>>, s>>, <<"for", <<>>, <<>>, Asg("-=", V("j"), N("1")), s>>}
Bodies == {Block(<<s, Mark("1")>>) : s \in Leaving}
Loops == {Function(<<s, Mark("2"), Return(V("j"))>>) : s \in UNION {Looped(b) : b \in Bodies}}
         \cup {Function(<<<<"do", Block(<<s, t>>), Bin("<", <<"un", "++", V("i")>>, N("0"))>>, Return(V("j"))>>) :
                 s \in UNION {Looped(b) : b \in Bodies},
                 t \in {<<"continue">>, If1(Bin("==", V("j"), N("1")), <<"break">>), <<"empty">>}}

(* Conditions with effects in them. *)
Effects == {CallOf("f0", <<>>), V("i"), <<"post", "--", V("i")>>, Asg("=", V("j"), V("v"))}
Tests == Effects \cup {Un("!", e) : e \in Effects}
         \cup {Bin(op, x, y) : op \in {"&&", "||"}, x \in Effects, y \in Effects}
Conditions0 ==
    {Function(<<If0(c, Step(V("i")), Do1(Asg("=", V("l"), V("i")))), Return(V("i"))>>) :
        c \in Tests \cup {Bin(op, x, y) : op \in {"&&", "||"}, x \in Tests, y \in {V("i"), CallOf("f0", <<>>)}}}
    \cup {Function(<<Return(<<"cond", c, Bin("+", c, N("1")), CallOf("f0", <<>>)>>)>>) : c \in Tests}

(* Objects of every kind through their whole life: calls with every kind of  *)
(* argument and result, structs as values, bit-fields, objects whose address *)
(* is taken, volatile ones, functions through pointers. A struct is not      *)
(* assigned from an assignment or a conditional: the compiler crashes.       *)
Let1(x, y)    == Do1(Asg("=", x, y))
At1(e)       == Un("*", e)
I == V("i")
J == V("j")
St == V("st")
Gs == V("gs")
Bodies1 ==
    {<<Return(CallOf("fn", <<Bin("+", V("sc"), N("1")), I>>))>>,
     <<Do1(CallOf("fv", <<V("c"), V("c"), V("u"), V("ul"), Gs, V("p")>>)), Return(V("c"))>>,
     <<Do1(CallOf("fs", <<St>>)), Return(Dot(V("st"), "x"))>>,
     <<Let1(St, CallOf("fs", <<Gs>>)), Return(Dot(St, "y"))>>,
     <<Let1(St, CallOf("fs", <<CallOf("fs", <<St>>)>>)), Return(I)>>,
     <<Return(Dot(CallOf("fs", <<St>>), "y"))>>,
     <<Return(Dot(CallOf("fs", <<At1(V("ps"))>>), "d"))>>,
     <<Let1(Gs, At1(V("ps"))), Let1(St, Gs), Return(Arrow(V("ps"), "x"))>>,
     <<Let1(At1(V("ps")), St), Let1(St, <<"comma", <<"post", "++", I>>, Gs>>), Return(Dot(St, "e"))>>,
     <<Do1(CallOf("fs", <<<<"cond", V("sc"), St, Gs>>>>)), Return(J)>>,
     <<Do1(CallOf("fs", <<<<"comma", <<"post", "++", I>>, St>>>>)), Return(I)>>,
     <<Return(<<"comma", Asg("=", I, J), <<"post", "--", I>>>>)>>,
     <<Let1(Dot(St, "b"), N("1")), Let1(Dot(St, "d"), N("'\\377'")), Return(I)>>,
     <<Let1(Dot(St, "d"), N("5")), Let1(Dot(St, "e"), Bin("+", Dot(St, "b"), Dot(St, "d"))), Return(Dot(St, "e"))>>,
     <<Let1(Dot(Gs, "d"), I), Do1(Asg("+=", Arrow(V("ps"), "b"), N("3"))), Return(Arrow(V("ps"), "d"))>>,
     <<Let1(Dot(Gs, "b"), N("'\\377'")), Let1(Dot(Gs, "d"), N("0")), Return(Dot(Gs, "e"))>>,
     <<Let1(V("p"), Un("&", I)), Let1(At1(V("p")), N("3")), Return(Bin("+", I, J))>>,
     <<Let1(V("p"), Un("&", J)), Let1(I, N("1")), Let1(At1(V("p")), Bin("+", I, J)), Return(J)>>,
     <<Let1(V("p"), Un("&", J)), <<"while", Bin("<", At1(V("p")), N("5")), Step(J)>>, Return(J)>>,
     <<Let1(V("ps"), Un("&", St)), Let1(Arrow(V("ps"), "e"), N("5")), Return(Dot(St, "e"))>>,
     <<Let1(V("p"), Un("&", Dot(St, "x"))), Let1(Index(V("p"), N("0")), J), Return(Dot(St, "x"))>>,
     <<Let1(V("v"), Bin("+", V("v"), N("1"))), Step(V("v")), Do1(V("v")), Return(V("i"))>>,
     <<Let1(I, V("v")), Do1(Asg("+=", V("v"), I)), If1(V("v"), Let1(V("v"), N("2"))), Return(I)>>,
     <<<<"while", Bin("<", V("v"), N("3")), Step(V("v"))>>, Return(V("v"))>>,
     <<Return(<<"call", V("fp"), <<>>>>)>>, <<Return(<<"call", At1(V("fp")), <<>>>>)>>,
     <<Let1(V("fp"), V("f0")), Do1(<<"call", V("fp"), <<>>>>), Return(I)>>,
     <<Let1(V("fp"), Un("&", V("f0"))), Return(<<"cond", V("fp"), <<"call", V("fp"), <<>>>>, J>>)>>,
     <<Let1(Index(V("a"), N("1")), I), Let1(Index(V("a"), N("0")), Index(V("a"), N("1"))),
       Return(Bin("-", Index(V("a"), N("0")), I))>>,
     <<Let1(V("p"), V("a")), Let1(At1(<<"post", "++", V("p")>>), J), Let1(At1(V("p")), I),
       Return(Bin("-", V("p"), V("a")))>>,
     <<Let1(V("p"), Bin("+", V("ga"), N("1"))), Let1(At1(Un("--", V("p"))), N("2")), Return(Index(V("ga"), N("0")))>>,
     <<Let1(V("cp"), V("p")), Return(<<"cond", Bin("==", V("cp"), V("p")), At1(V("cp")), I>>)>>,
     <<Let1(V("vp"), V("a")), Let1(V("p"), V("vp")), Let1(Index(V("p"), N("1")), N("3")), Return(Index(V("a"), N("1")))>>,
     <<Let1(Index(V("a"), Asg("=", I, N("1"))), J), Return(Bin("+", I, Index(V("a"), I)))>>,
     <<Let1(V("g"), I), Do1(CallOf("f0", <<>>)), Return(V("g"))>>,
     <<Let1(V("gc"), Bin("*", V("gc"), N("3"))), Return(V("gc"))>>,
     <<Return(Bin("+", Bin("&&", I, CallOf("f0", <<>>)), Un("!", Bin("||", V("sc"), CallOf("f0", <<>>)))))>>,
     <<Return(<<"cond", Bin("<", J, N("1")), CallOf("f0", <<>>), <<"cond", I, Asg("=", I, N("5")), V("u")>>>>)>>,
     (* into a loop, out of two *)
     <<If1(I, Goto0("L")), <<"while", Bin(">", <<"post", "--", J>>, N("0")), <<"label", "L", Mark("1")>>>>, Return(J)>>,
     <<<<"for", <<>>, <<>>, Step(I)[2], <<"for", <<>>, <<>>, Step(J)[2], If1(Bin(">", J, N("3")), Goto0("L"))>>>>,
       <<"label", "L", Return(I)>>>>,
     (* what C rejects *)
     <<Goto0("L")>>, <<<<"break">>>>, <<<<"continue">>>>, <<<<"case", "1", <<"empty">>>>>>,
     <<<<"default", <<"empty">>>>>>, <<<<"label", "L", <<"empty">>>>, <<"label", "L", <<"empty">>>>>>,
     <<<<"switch", I, <<"continue">>>>>>, <<<<"switch", V("p"), <<"break">>>>>>,
     <<If1(St, <<"empty">>)>>, <<<<"while", CallOf("fv", <<N("1")>>), <<"empty">>>>>>, <<Return(St)>>,
     <<Return(V("p"))>>}
Results == {[expr |-> <<>>, body |-> Block(<<Return(x)>>), ret |-> ty] :
              x \in {St, At1(V("ps")), CallOf("fs", <<Gs>>), <<"cond", I, St, Gs>>, I, V("ul"), V("p"), N("0")},
              ty \in {StructS, Type("CHAR"), Type("ULONG"), PtrTo(Type("VOID"))}}

Sources0 ==
    LET expressions == Binaries \cup Unaries \cup Conditionals \cup Assignments \cup Chains
    IN {Returning(e) : e \in expressions} \cup Gotos \cup Switches \cup Loops \cup Conditions0
            \cup {Function(b) : b \in Bodies1} \cup Results
=============================================================================
