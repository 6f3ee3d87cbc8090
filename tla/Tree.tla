-------------------------------- MODULE Tree --------------------------------
(* Types and expression trees: cc1/type.c, the layout of structs and unions  *)
(* of cc1/symbol.c, and cc1/tree.c. A type is the sequence of its nodes, the *)
(* outermost first; floating types are not modelled. A fatal error is the    *)
(* tree Fatal, whose type is in no class: what is built from it is Fatal.    *)
EXTENDS Ir

CONSTANTS ByteBits,     \* BITS_PER_BYTE
          Aggregates,   \* the members of each struct and union, as declared
          Protos,       \* the formals of each function type
          Scope,        \* the variables and functions in scope
          Literals,     \* the type and value of each constant
          TypeNames     \* the type each type name stands for

ASSUME TreeAssumption ==
    /\ ByteBits \in Nat \ {0}
    /\ \A ts \in DOMAIN Bits : Bits[ts] % ByteBits = 0
    /\ \A s \in DOMAIN Scope : Scope[s].ss \in {"LOCAL", "REGISTER", "AUTO", "STATIC", "EXTERN"}

(* A type_node: base and qualifiers, the elements of an array, the tag of a  *)
(* struct or the prototype of a function, the size and shift of a bit-field. *)
Node(b)         == [b |-> b, q |-> {}, n |-> 0, tag |-> "", f |-> <<>>]
Type(b)         == <<Node(b)>>
PtrTo(ty)       == <<Node("PTR")>> \o ty
ArrayOf(n, ty)  == <<[Node("ARRAY") EXCEPT !.n = n]>> \o ty
FuncOf(p, ty)   == <<[Node("FUNC") EXCEPT !.tag = p]>> \o ty

Chars    == {"CHAR", "SCHAR", "UCHAR"}
Shorts   == {"SHORT", "USHORT"}
Signed   == {"SCHAR", "SHORT", "INT", "LONG"}
Integral == Chars \cup Shorts \cup {"INT", "UINT", "LONG", "ULONG"}
Discrete == Integral \cup {"PTR"}

TypeBase(ty)  == ty[1].b
IsIn(ty, C)   == TypeBase(ty) \in C
IsPtr(ty)     == TypeBase(ty) = "PTR"
IsStrun(ty)   == TypeBase(ty) = "STRUN"
PtrIs(ty, b)  == IsPtr(ty) /\ ty[2].b = b
FieldPtr(ty)  == IsPtr(ty) /\ ty[2].f # <<>>
Unqual(ty)    == [ty EXCEPT ![1].q = {}]
Unfield(ty)   == [ty EXCEPT ![1].f = <<>>]

(* type_machine_bits *)
Machine(b) == IF b = "PTR" THEN "ULONG" ELSE b

(* type_sizeof, in bytes: zero stands for the fatal error of a type that has *)
(* none. The target of a pointer is not part of its size.                    *)
RECURSIVE TypeSizeof(_)
TypeSizeof(ty) ==
    IF ty = <<>> THEN 1
    ELSE CASE ty[1].b = "STRUN" -> ty[1].n
           [] ty[1].b = "ARRAY" -> ty[1].n * TypeSizeof(Tail(ty))
           [] IsIn(ty, Discrete) -> Bits[Machine(ty[1].b)] \div ByteBits
           [] OTHER -> 0

TargetSize(ty) == TypeSizeof(Tail(ty))

(* type_qualify: the qualifiers of an array are those of its elements.       *)
TypeQualify(ty, q) ==
    LET i == CHOOSE n \in DOMAIN ty : ty[n].b # "ARRAY" /\ \A m \in 1 .. n - 1 : ty[m].b = "ARRAY"
    IN [ty EXCEPT ![i].q = @ \cup q]

(* type_requalify *)
TypeRequalify(dst, src) ==
    [i \in DOMAIN dst |-> [dst[i] EXCEPT !.q = IF i \in DOMAIN src THEN src[i].q ELSE {}]]

(* type_fix_pointer, type_fix_array *)
FixPointer(ty) == CASE ty[1].b = "ARRAY" -> [ty EXCEPT ![1].b = "PTR", ![1].n = 0]
                    [] ty[1].b = "FUNC" -> PtrTo(ty)
                    [] OTHER -> ty
FixArray(ty)   == FixPointer(Tail(ty))

(* type_compat: "OK", "ERROR", or "DISCARD" when the assignment would lose   *)
(* qualifiers; tn_compat and formals_compat are its helpers.                 *)
RECURSIVE TypeCompat(_, _, _)
NodesCompat(d, s) ==
    /\ d.b = s.b
    /\ d.b = "STRUN" => d.tag = s.tag
    /\ d.b = "ARRAY" => 0 \in {d.n, s.n} \/ d.n = s.n
    /\ (d.b = "FUNC" /\ ~Protos[d.tag].old /\ ~Protos[s.tag].old) =>
          LET df == Protos[d.tag]
              sf == Protos[s.tag]
          IN /\ df.variadic = sf.variadic
             /\ Len(df.args) = Len(sf.args)
             /\ \A i \in DOMAIN df.args :
                   TypeCompat(df.args[i], sf.args[i], {"QUALS", "SKIP"}) = "OK"

TypeCompat(dst, src, flags) ==
    LET both == DOMAIN dst \cap DOMAIN src
        held == {i \in both : i > 1 \/ "SKIP" \notin flags}
    IN IF \/ Len(dst) # Len(src)
          \/ "QUALS" \in flags /\ \E i \in held : dst[i].q # src[i].q
          \/ \E i \in both : ~NodesCompat(dst[i], src[i])
       THEN "ERROR"
       ELSE IF "MOREQUALS" \in flags /\ \E i \in held : ~(src[i].q \subseteq dst[i].q)
       THEN "DISCARD" ELSE "OK"

MergeQuals(dst, src) == [i \in DOMAIN dst |-> [dst[i] EXCEPT !.q = @ \cup src[i].q]]

-----------------------------------------------------------------------------
(* Structs and unions *)

RoundDown(n, m) == n - (n % m)
RoundUp(n, m)   == RoundDown(n + m - 1, m)

(* type_alignof, for the scalar members there are here. *)
TypeAlignof(ty) ==
    TypeSizeof(<<ty[CHOOSE i \in DOMAIN ty : ty[i].b # "ARRAY"
                                            /\ \A j \in 1 .. i - 1 : ty[j].b = "ARRAY"]>>)

(* Where a bit-field goes, in bits: a field does not straddle two words.     *)
FieldOffset(at, size, host) ==
    IF size = 0 \/ RoundDown(at, host) # RoundDown(at + size - 1, host) THEN RoundUp(at, host) ELSE at

(* member_insert: one more member, a name, a type, and the size of the field *)
(* when it is one. While it grows the aggregate has its size in bits.        *)
MemberInsert(tag, m) ==
    LET host  == TypeSizeof(m.ty) * ByteBits
        align == TypeAlignof(m.ty)
        at    == IF tag.union THEN 0 ELSE tag.size
        bits  == IF m.field = <<>> THEN host ELSE m.field[1]
        start == IF m.field = <<>> THEN RoundUp(at, align * ByteBits)
                 ELSE FieldOffset(at, bits, host)
        ty    == IF m.field = <<>> THEN m.ty
                 ELSE [m.ty EXCEPT ![1].f = <<bits, start % host>>]
    IN [tag EXCEPT !.size = IF tag.union THEN Max({@, bits}) ELSE start + bits,
                   !.align = Max({@, align}),
                   !.members = Append(@, [id |-> m.id, ty |-> ty,
                                          offset |-> RoundDown(start \div ByteBits, align)])]

(* symbol_complete_strun, on an aggregate whose members have been inserted.  *)
Tags ==
    [tag \in DOMAIN Aggregates |->
        LET done == FoldLeft(MemberInsert,
                             [union |-> Aggregates[tag].union, size |-> 0, align |-> 1, members |-> <<>>],
                             Aggregates[tag].members)
        IN [done EXCEPT !.size = RoundUp(@, done.align * ByteBits) \div ByteBits]]

(* The type of a struct or union has its size at hand: 0 when it is not      *)
(* defined.                                                                  *)
Struct(tag) == <<[Node("STRUN") EXCEPT !.tag = tag,
                                       !.n = IF tag \in DOMAIN Tags THEN Tags[tag].size ELSE 0]>>

(* member_lookup *)
HasMember(tag, id)    == \E i \in DOMAIN Tags[tag].members : Tags[tag].members[i].id = id
MemberLookup(tag, id) ==
    LET all == Tags[tag].members IN all[CHOOSE i \in DOMAIN all : all[i].id = id]

-----------------------------------------------------------------------------
(* Trees. A leaf is a constant n, plus the address of sym when it has one, or*)
(* the symbol sym; a temporary has no name but its register n. The others    *)
(* have one child or two, and a call its arguments.                          *)

TreeNew(op, ty, kids) == [op |-> op, ty |-> ty, n |-> 0, sym |-> "", kids |-> kids, args |-> <<>>]
TreeV                 == TreeNew("NONE", Type("VOID"), <<>>)
TreeI(ts, n)          == [TreeNew("CON", Type(ts), <<>>) EXCEPT !.n = n]
TreeSym(s)            == [TreeNew("SYM", Scope[s].ty, <<>>) EXCEPT !.sym = s]
TreeTemp(ty, r)       == [TreeNew("SYM", Unqual(ty), <<>>) EXCEPT !.n = r]
TreeUnary(op, ty, c)  == TreeNew(op, ty, <<c>>)
TreeBinary(op, ty, l, r) == TreeNew(op, ty, <<l, r>>)
TreeCast(t, ty)       == TreeUnary("CAST", ty, t)
CastBits(t, ts)       == TreeCast(t, Type(ts))
TreeRvalue(t)         == TreeUnary("RVALUE", t.ty, t)
Fatal                 == TreeNew("ERROR", Type("ERROR"), <<>>)
Failed(t)             == t.op = "ERROR"

Child(t)    == t.kids[1]
Right(t)    == t.kids[2]
Unary(t)    == Len(t.kids) = 1
IsBinary(t) == Len(t.kids) = 2

(* The flags of each op (tree.h) *)
Commutes   == {"XOR", "MUL", "ADD", "AND", "OR", "EQ", "NEQ"}
Scales     == {"ADD", "SUB", "ADDASG", "SUBASG", "POST"}
Unusual    == {"ASG", "MULASG", "DIVASG", "MODASG", "ADDASG", "SUBASG", "SHLASG", "SHRASG",
               "ANDASG", "ORASG", "XORASG", "SHR", "SHL", "LAND", "LOR"}
Nullable   == {"ASG", "EQ", "NEQ", "COLON"}
Relations  == {"GT", "GTEQ", "LT", "LTEQ", "EQ", "NEQ"}
Logical    == {"LAND", "LOR"}
TwosComp   == {"NEG", "COM", "XOR", "MUL", "ADD", "SUB", "AND", "OR"}
Assoc      == {"XOR", "MUL", "ADD", "AND", "OR"}

TreeCon(t)    == t.op = "CON"
PureCon(t)    == t.op = "CON" /\ t.sym = ""
NullCon(t)    == PureCon(t) /\ IsIn(t.ty, Integral) /\ t.n = 0
Lvalue(t)     == t.op \in {"SYM", "FETCH"}
FieldFetch(t) == t.op = "FETCH" /\ FieldPtr(Child(t).ty)
TreeZero(t)   == PureCon(t) /\ t.n = 0
TreeNonzero(t) == PureCon(t) /\ t.n # 0

Commute(t)       == [t EXCEPT !.kids = <<t.kids[2], t.kids[1]>>]
TreeNormalize(t) == IF t.op \in Commutes /\ PureCon(Child(t)) THEN Commute(t) ELSE t

(* tree_chop_unary, tree_chop_binary: the left child takes the root's place  *)
(* and its type.                                                             *)
Chop(t) == [Child(t) EXCEPT !.ty = t.ty]

(* tree_fetch; forced for a volatile. *)
ForcedFetch(t) == TreeUnary("FETCH", Unfield(Tail(t.ty)), t)
Fetch(t) ==
    LET f == ForcedFetch(t)
    IN CASE TreeCon(t) /\ t.sym # "" /\ t.n = 0 -> [Chop(f) EXCEPT !.op = "SYM"]
         [] t.op = "ADDROF" -> Chop(Chop(f))
         [] OTHER -> f

(* tree_addrof; the storage class is the declared one. *)
Known(t) == t.op = "SYM" /\ t.sym # "" /\ Scope[t.sym].ss \in {"STATIC", "EXTERN"}
Addrof(t) ==
    LET a == TreeUnary("ADDROF", PtrTo(t.ty), t)
    IN CASE Known(t) -> [Chop(a) EXCEPT !.op = "CON"]
         [] t.op = "FETCH" -> Chop(Chop(a))
         [] OTHER -> a

-----------------------------------------------------------------------------
(* Simplifying (constant folding) *)

(* Insn ops of the tree ops that compute. *)
Computing == {"ADD", "SUB", "MUL", "DIV", "MOD", "SHL", "SHR", "AND", "OR", "XOR"}

Truth(b) == TreeI("INT", IF b THEN 1 ELSE 0)

(* FOLD_EQUALITY, FOLD_RELATIONAL: the type of a comparison is int, so that  *)
(* its operands are compared as signed values.                               *)
Related(op, a, b) ==
    CASE op = "EQ" -> a = b
      [] op = "NEQ" -> a # b
      [] op = "GT" -> a > b
      [] op = "GTEQ" -> a >= b
      [] op = "LT" -> a < b
      [] op = "LTEQ" -> a =< b
AsLong(n)  == Norm("LONG", n)

Folded(t, n) == [Chop(t) EXCEPT !.n = n]
Value(t)     == Compute(t.op, Machine(TypeBase(t.ty)), Child(t).n, Right(t).n)

SimplifyUnary(t) ==
    IF t.op = "RVALUE" THEN Chop(t)
    ELSE IF PureCon(Child(t)) /\ t.op \in {"NEG", "COM", "CAST"} /\ ~IsIn(t.ty, {"VOID"})
    THEN Folded(t, Compute(t.op, Machine(TypeBase(t.ty)), Child(t).n, 0))
    ELSE t

(* The symbols of a difference cancel. *)
Cancelled(t) ==
    IF t.op = "SUB" /\ TreeCon(Child(t)) /\ TreeCon(Right(t)) /\ Child(t).sym = Right(t).sym
    THEN [t EXCEPT !.kids = <<[@[1] EXCEPT !.sym = ""], [@[2] EXCEPT !.sym = ""]>>]
    ELSE t

FoldBinary(t) ==
    LET l == Child(t) r == Right(t)
    IN IF ~PureCon(r) \/ ~TreeCon(l) THEN t
       ELSE CASE t.op \in {"ADD", "SUB"} -> Folded(t, Value(t))
              [] l.sym # "" -> t
              [] t.op \in {"DIV", "MOD"} /\ r.n = 0 -> t
              [] t.op \in Computing -> Folded(t, Value(t))
              [] t.op \in Relations -> Truth(Related(t.op, AsLong(l.n), AsLong(r.n)))
              [] OTHER -> t

SimplifyBinary(tree) ==
    LET t == TreeNormalize(tree)
        l == Child(t)
    IN CASE TreeNonzero(l) /\ t.op = "QUEST" -> Chop(Chop(Commute(t)))
         [] TreeNonzero(l) /\ t.op = "LAND" -> Chop(Commute(t))
         [] TreeNonzero(l) /\ t.op = "LOR" -> Truth(TRUE)
         [] TreeZero(l) /\ t.op = "QUEST" -> Chop(Commute(Chop(Commute(t))))
         [] TreeZero(l) /\ t.op = "LAND" -> Truth(FALSE)
         [] TreeZero(l) /\ t.op = "LOR" -> Chop(Commute(t))
         [] OTHER -> FoldBinary(Cancelled(t))

Simplify0(t) == CASE Unary(t) -> SimplifyUnary(t)
                  [] IsBinary(t) -> SimplifyBinary(t)
                  [] OTHER -> t

(* TREE_DESCEND: F of every child and argument. *)
Descend(F(_), t) == [t EXCEPT !.kids = [i \in DOMAIN @ |-> F(@[i])],
                              !.args = [i \in DOMAIN @ |-> F(@[i])]]

RECURSIVE Simplify(_)
Simplify(t) == Simplify0(Descend(Simplify, t))
=============================================================================
