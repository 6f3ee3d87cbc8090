------------------------------ MODULE CppProofs ------------------------------
(***************************************************************************)
(* The preprocessor, for every input: lines are copied exactly when the    *)
(* language says so (CopiesRight), and the lexer of the compiler proper    *)
(* knows of every token where it was read (LinesRight).  The second needs  *)
(* to know, at every moment, what the lexer is going to make of what has   *)
(* been written so far: the invariant says that there is a trace of it.    *)
(***************************************************************************)
EXTENDS CppLex, SequenceTheorems, TLAPS

-----------------------------------------------------------------------------
\* Reading and the stacks.

LEMMA HeadType ==
  ASSUME NEW S, NEW s \in Seq(S), s # <<>>
  PROVE  1 \in DOMAIN s /\ s[1] \in S
OBVIOUS

LEMMA TailType ==
  ASSUME NEW S, NEW s \in Seq(S), Len(s) > 1
  PROVE  Tail(s) \in Seq(S) /\ Tail(s) # <<>>
<1>1. Len(<<>>) = 0
  OBVIOUS
<1>2. s # <<>>
  BY <1>1
<1>3. Len(Tail(s)) = Len(s) - 1 /\ Tail(s) \in Seq(S) /\ Len(s) \in Nat
  BY <1>2, HeadTailProperties
<1> DEFINE t == Tail(s)
<1>4. Len(t) > 0 /\ t \in Seq(S)
  BY <1>3
<1> HIDE DEF t
<1>5. t # <<>>
  BY <1>1, <1>4
<1> QED
  BY <1>4, <1>5 DEF t

LEMMA TopType ==
  ASSUME TypeOK
  PROVE  /\ 1 \in DOMAIN input /\ input[1] = Top /\ Top \in InputRec
         /\ Top.path \in Paths /\ Top.line \in Int
<1>1. 1 \in DOMAIN input /\ input[1] \in InputRec
  BY HeadType DEF TypeOK
<1> QED
  BY <1>1 DEF Top, InputRec

\* A line that is read is counted, in the file that is on top.
LEMMA Reading ==
  ASSUME TypeOK, NEW l \in Lines, ReadLine(l)
  PROVE  /\ input' \in Seq(InputRec) /\ input' # <<>>
         /\ Top'.path = Top.path /\ Top'.line = Top.line + l.n
         /\ <<Chunk(l)>> \in Seq(ChunkRec) /\ <<Chunk(l)>> # <<>>
         /\ Chunk(l).path = Top'.path /\ Chunk(l).line = Top'.line
         /\ <<Chunk(l)>>[1] = Chunk(l) /\ Chunk(l).l = l
<1>1. l.n \in Nat
  BY LinesAssumption
<1>2. 1 \in DOMAIN input /\ input[1] = Top /\ Top \in InputRec
      /\ Top.path \in Paths /\ Top.line \in Int
  BY TopType
<1> DEFINE r == [Top EXCEPT !.line = Top.line + l.n]
<1>3. r \in InputRec /\ r.path = Top.path /\ r.line = Top.line + l.n
  BY <1>1, <1>2 DEF InputRec
<1>4. input' = [input EXCEPT ![1] = r]
  BY <1>2 DEF ReadLine
<1> HIDE DEF r
<1>5. input' \in Seq(InputRec) /\ input' # <<>> /\ input'[1] = r
  <2>1. input \in Seq(InputRec)
    BY DEF TypeOK
  <2>2. input' \in Seq(InputRec) /\ Len(input') = Len(input) /\ input'[1] = r
    BY <1>2, <1>3, <1>4, <2>1
  <2> QED
    BY <2>1, <2>2, <1>2
<1>6. Top' = r
  BY <1>5 DEF Top
<1>7. Chunk(l) \in ChunkRec
  BY <1>1, <1>2 DEF Chunk, ChunkRec
<1>8. <<Chunk(l)>> \in Seq(ChunkRec) /\ <<Chunk(l)>> # <<>>
  BY <1>7
<1>9. Chunk(l).path = Top.path /\ Chunk(l).line = Top.line + l.n /\ Chunk(l).l = l
  BY DEF Chunk
<1> QED
  BY <1>3, <1>5, <1>6, <1>8, <1>9

\* What a macro call becomes is a text from the line it ends on.
LEMMA Expanding ==
  ASSUME TypeOK, NEW l \in Lines, ReadLine(l), l.kind \in {"args", "close"}
  PROVE  /\ <<Expansion(l)>> \in Seq(ChunkRec) /\ <<Expansion(l)>> # <<>>
         /\ <<Expansion(l)>>[1].path = Top'.path /\ <<Expansion(l)>>[1].line = Top'.line
<1>1. Expansion(l) = [Chunk(l) EXCEPT !.l = [kind |-> l.becomes, n |-> l.n]]
  BY DEF Expansion
<1>2. [kind |-> l.becomes, n |-> l.n] \in Words
  BY LinesAssumption DEF Words
<1>3. /\ Chunk(l) \in ChunkRec /\ Chunk(l).path = Top'.path
      /\ Chunk(l).line = Top'.line
  <2>1. Chunk(l) = [l |-> l, path |-> Top.path, line |-> Top.line + l.n]
    BY DEF Chunk
  <2>2. Top.path \in Paths /\ Top.line \in Int /\ l.n \in Nat
    BY TopType, LinesAssumption
  <2> QED
    BY <2>1, <2>2, Reading DEF ChunkRec
<1>4. /\ Expansion(l) \in ChunkRec /\ Expansion(l).path = Top'.path
      /\ Expansion(l).line = Top'.line
  BY <1>1, <1>2, <1>3 DEF ChunkRec
<1> QED
  BY <1>4

LEMMA InitCpp == Init => CppIInv
<1> SUFFICES ASSUME Init PROVE CppIInv
  OBVIOUS
<1>1. [path |-> Plain(Main), line |-> 0] \in InputRec
  BY DEF Paths, InputRec
<1>2. TypeOK
  BY <1>1 DEF Init, TypeOK
<1>3. Paired /\ Origin
  BY DEF Init, Paired, Origin
<1> QED
  BY <1>2, <1>3 DEF CppIInv

-----------------------------------------------------------------------------
\* The steps.

\* The steps that touch neither of the two stacks of groups.
LEMMA PairedStays ==
  ASSUME Paired, pc # "error" \/ pc' = "error", UNCHANGED <<state, groups>>
  PROVE  Paired'
BY DEF Paired

LEMMA GetLineStep ==
  ASSUME CppIInv, GetLine
  PROVE  CppIInv'
<1> USE DEF CppIInv
<1>1. PICK l \in Lines :
        /\ ReadLine(l)
        /\ IF l.kind = "blank" THEN UNCHANGED <<list, pc>>
           ELSE list' = <<Chunk(l)>> /\ pc' = "directive"
  BY DEF GetLine
<1>2. /\ pc = "read" /\ state' = state /\ groups' = groups /\ line_no' = line_no
      /\ pc' \in {"read", "directive"}
      /\ pc' = "directive" => list' = <<Chunk(l)>>
  BY <1>1 DEF GetLine
<1>3. TypeOK'
  <2>1. input' \in Seq(InputRec) /\ input' # <<>>
    BY <1>1, Reading
  <2>2. pc' = "directive" => list' \in Seq(ChunkRec) /\ list' # <<>> /\ list'[1].l \in Lines
    BY <1>1, <1>2, Reading, ZenonT(40)
  <2> QED
    BY <1>2, <2>1, <2>2 DEF TypeOK
<1>4. Paired'
  BY <1>2, PairedStays
<1>5. Origin'
  BY <1>1, <1>2, Reading DEF Origin
<1> QED
  BY <1>3, <1>4, <1>5

LEMMA PopFileStep ==
  ASSUME CppIInv, PopFile
  PROVE  CppIInv'
<1> USE DEF CppIInv
<1>1. /\ pc \in {"read", "end"} /\ pc' = "read" /\ input' = Tail(input) /\ Len(input) > 1
      /\ state' = state /\ groups' = groups /\ line_no' = line_no
  BY DEF PopFile
<1>2. input' \in Seq(InputRec) /\ input' # <<>>
  BY <1>1, TailType DEF TypeOK
<1>3. TypeOK' /\ Origin'
  BY <1>1, <1>2 DEF TypeOK, Origin
<1> QED
  BY <1>1, <1>3, PairedStays

LEMMA EndMainStep ==
  ASSUME CppIInv, EndMain
  PROVE  CppIInv'
<1> USE DEF CppIInv
<1>1. /\ pc \in {"read", "end"} /\ pc' \in {"done", "error"} /\ input' = input
      /\ state' = state /\ groups' = groups /\ line_no' = line_no
  BY DEF EndMain, Fail
<1>2. TypeOK' /\ Origin'
  BY <1>1 DEF TypeOK, Origin
<1> QED
  BY <1>1, <1>2, PairedStays

\* Two stacks whose entries match, place by place.
Match(s, g) == Len(s) = Len(g) /\ \A i \in 1..Len(s) : Matches(s[i], g[i])

LEMMA MatchPush ==
  ASSUME NEW s \in Seq(StateRec), NEW g \in Seq(GroupRec), Match(s, g),
         NEW x \in StateRec, NEW y \in GroupRec, Matches(x, y)
  PROVE  /\ <<x>> \o s \in Seq(StateRec) /\ <<y>> \o g \in Seq(GroupRec)
         /\ Match(<<x>> \o s, <<y>> \o g)
<1> DEFINE sx == <<x>> \o s
           gy == <<y>> \o g
<1>1. /\ sx \in Seq(StateRec) /\ Len(sx) = Len(s) + 1 /\ sx[1] = x
      /\ \A i \in 1..Len(sx) : i # 1 => sx[i] = s[i - 1]
  OBVIOUS
<1>2. /\ gy \in Seq(GroupRec) /\ Len(gy) = Len(g) + 1 /\ gy[1] = y
      /\ \A i \in 1..Len(gy) : i # 1 => gy[i] = g[i - 1]
  OBVIOUS
<1> HIDE DEF sx, gy
<1>3. Len(s) \in Nat /\ Len(g) = Len(s) /\ \A i \in 1..Len(s) : Matches(s[i], g[i])
  BY DEF Match
<1>4. ASSUME NEW i \in 1..Len(sx), i # 1
      PROVE  Matches(sx[i], gy[i])
  <2>1. i - 1 \in 1..Len(s) /\ sx[i] = s[i - 1] /\ gy[i] = g[i - 1]
    BY <1>1, <1>2, <1>3, <1>4
  <2> QED
    BY <2>1, <1>3
<1> QED
  BY <1>1, <1>2, <1>3, <1>4 DEF Match, sx, gy

LEMMA MatchTop ==
  ASSUME NEW s \in Seq(StateRec), NEW g \in Seq(GroupRec), Match(s, g), s # <<>>,
         NEW x \in StateRec, NEW y \in GroupRec, Matches(x, y)
  PROVE  /\ [s EXCEPT ![1] = x] \in Seq(StateRec) /\ [g EXCEPT ![1] = y] \in Seq(GroupRec)
         /\ Match([s EXCEPT ![1] = x], [g EXCEPT ![1] = y])
<1>1. Len(s) \in Nat /\ Len(g) = Len(s) /\ 1 \in 1..Len(s)
  BY DEF Match
<1>2. /\ [s EXCEPT ![1] = x] \in Seq(StateRec) /\ Len([s EXCEPT ![1] = x]) = Len(s)
      /\ \A i \in 1..Len(s) : [s EXCEPT ![1] = x][i] = IF i = 1 THEN x ELSE s[i]
  BY <1>1
<1>3. /\ [g EXCEPT ![1] = y] \in Seq(GroupRec) /\ Len([g EXCEPT ![1] = y]) = Len(s)
      /\ \A i \in 1..Len(s) : [g EXCEPT ![1] = y][i] = IF i = 1 THEN y ELSE g[i]
  BY <1>1
<1> QED
  BY <1>2, <1>3 DEF Match

LEMMA MatchPop ==
  ASSUME NEW s \in Seq(StateRec), NEW g \in Seq(GroupRec), Match(s, g), s # <<>>
  PROVE  /\ Tail(s) \in Seq(StateRec) /\ Tail(g) \in Seq(GroupRec)
         /\ Match(Tail(s), Tail(g))
<1>1. Len(s) \in Nat /\ Len(g) = Len(s) /\ 1 \in 1..Len(s) /\ g # <<>>
  BY DEF Match
<1>2. /\ Tail(s) \in Seq(StateRec) /\ Len(Tail(s)) = Len(s) - 1
      /\ \A i \in 1..Len(Tail(s)) : Tail(s)[i] = s[i + 1]
  BY HeadTailProperties
<1>3. /\ Tail(g) \in Seq(GroupRec) /\ Len(Tail(g)) = Len(s) - 1
      /\ \A i \in 1..Len(Tail(g)) : Tail(g)[i] = g[i + 1]
  BY <1>1, HeadTailProperties
<1>4. ASSUME NEW i \in 1..(Len(s) - 1)
      PROVE  Matches(Tail(s)[i], Tail(g)[i])
  <2>1. i + 1 \in 1..Len(s)
    BY <1>1
  <2> QED
    BY <2>1, <1>2, <1>3 DEF Match
<1> QED
  BY <1>2, <1>3, <1>4 DEF Match

LEMMA CopiesIsActive ==
  ASSUME TypeOK, Paired, pc # "error"
  PROVE  /\ Copies(state) \in BOOLEAN /\ Copies(state) = Active
         /\ Match(state, groups)
         /\ state # <<>> => /\ 1 \in 1..Len(state) /\ state[1] \in StateRec
                            /\ groups # <<>> /\ groups[1] \in GroupRec
                            /\ Matches(state[1], groups[1])
<1>1. Match(state, groups)
  BY DEF Paired, Match
<1>2. state \in Seq(StateRec) /\ groups \in Seq(GroupRec)
  BY DEF TypeOK
<1>3. state = <<>> <=> groups = <<>>
  BY <1>1, <1>2 DEF Match
<1>4. ASSUME state # <<>>
      PROVE  /\ 1 \in 1..Len(state) /\ state[1] \in StateRec
             /\ groups # <<>> /\ groups[1] \in GroupRec
             /\ Matches(state[1], groups[1])
  <2>1. 1 \in DOMAIN state /\ state[1] \in StateRec /\ groups[1] \in GroupRec
    BY <1>2, <1>3, <1>4, HeadType
  <2> QED
    BY <2>1, <1>1, <1>2, <1>3, <1>4 DEF Match
<1>5. state # <<>> => state[1].copying \in BOOLEAN /\ state[1].copying = groups[1].on
  BY <1>4 DEF Matches, StateRec
<1> QED
  BY <1>1, <1>3, <1>4, <1>5 DEF Copies, Active

\* The directives on the two stacks: unless it is an error, they go on matching.
LEMMA Branching ==
  ASSUME CppIInv, pc = "directive", NEW l \in Lines, ~Misplaced(l),
         l.kind \in {"if", "elif", "else", "endif"},
         ~(Copies(NewState(l)) /\ Leaves(l))
  PROVE  /\ NewState(l) \in Seq(StateRec) /\ NewGroups(l) \in Seq(GroupRec)
         /\ Match(NewState(l), NewGroups(l))
<1> USE DEF CppIInv
<1> DEFINE s == state[1]
           g == groups[1]
<1>1. /\ Copies(state) \in BOOLEAN /\ Copies(state) = Active /\ Match(state, groups)
      /\ state \in Seq(StateRec) /\ groups \in Seq(GroupRec)
  BY CopiesIsActive DEF TypeOK
<1>2. CASE l.kind = "if"
  <2> DEFINE x == IF Copies(state) THEN [copying |-> l.val, saw_true |-> l.val, saw_else |-> FALSE]
                  ELSE [copying |-> FALSE, saw_true |-> TRUE, saw_else |-> FALSE]
             y == [outer |-> Active, taken |-> l.val, on |-> Active /\ l.val]
  <2>1. l.val \in BOOLEAN
    BY <1>2, LinesAssumption
  <2>2. x \in StateRec
    BY <2>1, <1>1 DEF StateRec
  <2>3. y \in GroupRec
    BY <2>1, <1>1, Zenon DEF GroupRec
  <2>4. Matches(x, y)
    BY <2>1, <1>1 DEF Matches
  <2>5. NewState(l) = <<x>> \o state /\ NewGroups(l) = <<y>> \o groups
    BY <1>2 DEF NewState, StatePush, NewGroups
  <2> HIDE DEF x, y
  <2> QED
    BY <2>2, <2>3, <2>4, <2>5, <1>1, MatchPush
<1>3. CASE l.kind \in {"elif", "else", "endif"}
  <2>1. /\ state # <<>> /\ s \in StateRec /\ g \in GroupRec /\ Matches(s, g)
        /\ 1 \in 1..Len(state) /\ 1 \in DOMAIN groups
        /\ (l.kind # "endif" => ~s.saw_else)
    BY <1>1, <1>3, CopiesIsActive, HeadType DEF Misplaced
  <2>2. CASE l.kind = "endif"
    BY <2>1, <2>2, <1>1, MatchPop DEF NewState, NewGroups
  <2> DEFINE y(v) == [g EXCEPT !.on = g.outer /\ ~g.taken /\ v, !.taken = g.taken \/ v]
  <2>3. \A v \in BOOLEAN : /\ y(v) \in GroupRec /\ y(v).on = (g.outer /\ ~g.taken /\ v)
                           /\ y(v).taken = (g.taken \/ v) /\ y(v).outer = g.outer
    BY <2>1 DEF GroupRec
  <2>4. CASE l.kind = "else"
    <3> DEFINE x == [s EXCEPT !.copying = ~s.saw_true, !.saw_else = TRUE]
    <3>1. x \in StateRec /\ x.copying = ~s.saw_true /\ x.saw_else
      BY <2>1 DEF StateRec
    <3>2. Matches(x, y(TRUE))
      BY <3>1, <2>1, <2>3, <2>4 DEF Matches, StateRec, GroupRec
    <3>3. NewState(l) = [state EXCEPT ![1] = x]
      BY <2>1, <2>4, <1>1 DEF NewState
    <3>4. NewGroups(l) = [groups EXCEPT ![1] = y(TRUE)]
      BY <2>1, <2>4, <1>1 DEF NewGroups
    <3>5. y(TRUE) \in GroupRec
      BY <2>3
    <3> HIDE DEF x, y
    <3>6. /\ [state EXCEPT ![1] = x] \in Seq(StateRec)
          /\ [groups EXCEPT ![1] = y(TRUE)] \in Seq(GroupRec)
          /\ Match([state EXCEPT ![1] = x], [groups EXCEPT ![1] = y(TRUE)])
      BY <3>1, <3>2, <3>5, <2>1, <1>1, MatchTop
    <3> QED
      BY <3>3, <3>4, <3>6
  <2>5. CASE l.kind = "elif"
    <3>1. l.val \in BOOLEAN
      BY <2>5, LinesAssumption
    <3>2. NewGroups(l) = [groups EXCEPT ![1] = y(l.val)]
      BY <2>1, <2>5, <1>1 DEF NewGroups
    <3>3. CASE s.saw_true
      <4>1. NewState(l) = state /\ Leaves(l)
        BY <2>5, <3>3 DEF NewState, Leaves
      <4>2. ~s.copying
        BY <4>1, <2>1 DEF Copies
      <4>3. Matches(s, y(l.val))
        BY <4>2, <3>1, <3>3, <2>1, <2>3, <2>5 DEF Matches, StateRec, GroupRec
      <4>4. NewState(l) = [state EXCEPT ![1] = s]
        BY <4>1, <2>1, <1>1
      <4>5. y(l.val) \in GroupRec
        BY <2>3, <3>1
      <4> HIDE DEF s, y
      <4>6. /\ [state EXCEPT ![1] = s] \in Seq(StateRec)
            /\ [groups EXCEPT ![1] = y(l.val)] \in Seq(GroupRec)
            /\ Match([state EXCEPT ![1] = s], [groups EXCEPT ![1] = y(l.val)])
        BY <4>3, <4>5, <2>1, <1>1, MatchTop
      <4> QED
        BY <4>4, <4>6, <3>2
    <3>4. CASE ~s.saw_true
      <4> DEFINE x == [s EXCEPT !.saw_true = l.val, !.copying = l.val]
      <4>1. x \in StateRec /\ x.copying = l.val /\ x.saw_true = l.val
        BY <3>1, <2>1 DEF StateRec
      <4>2. Matches(x, y(l.val))
        BY <4>1, <3>1, <3>4, <2>1, <2>3, <2>5 DEF Matches, StateRec, GroupRec
      <4>3. NewState(l) = [state EXCEPT ![1] = x]
        BY <2>1, <2>5, <3>4, <1>1 DEF NewState
      <4>4. y(l.val) \in GroupRec
        BY <2>3, <3>1
      <4> HIDE DEF x, y
      <4>5. /\ [state EXCEPT ![1] = x] \in Seq(StateRec)
            /\ [groups EXCEPT ![1] = y(l.val)] \in Seq(GroupRec)
            /\ Match([state EXCEPT ![1] = x], [groups EXCEPT ![1] = y(l.val)])
        BY <4>1, <4>2, <4>4, <2>1, <1>1, MatchTop
      <4> QED
        BY <4>3, <4>5, <3>2
    <3> QED
      BY <3>3, <3>4
  <2> QED
    BY <1>3, <2>2, <2>4, <2>5
<1> QED
  BY <1>2, <1>3

LEMMA ConditionalStep ==
  ASSUME CppIInv, Conditional
  PROVE  CppIInv'
<1> USE DEF CppIInv
<1> DEFINE l == list[1].l
<1>1. /\ pc = "directive" /\ l \in Lines /\ l.kind \in {"if", "elif", "else", "endif"}
      /\ input' = input /\ line_no' = line_no
  BY DEF Conditional, TypeOK
<1>2. CASE pc' = "error"
  <2>1. state' \in Seq(StateRec) /\ groups' \in Seq(GroupRec)
    <3>1. CASE Misplaced(l)
      BY <3>1 DEF Conditional, TypeOK
    <3>2. CASE ~Misplaced(l)
      <4>1. Copies(NewState(l)) /\ Leaves(l) /\ state' = NewState(l) /\ groups' = NewGroups(l)
        BY <3>2, <1>2 DEF Conditional
      <4>2. l.kind = "elif" /\ state[1].saw_true /\ state # <<>>
        BY <4>1, <3>2 DEF Leaves, Misplaced
      <4>3. state' = state
        BY <4>1, <4>2 DEF NewState
      <4>4. 1 \in DOMAIN groups /\ groups[1] \in GroupRec
        BY <4>2, <1>1, CopiesIsActive, HeadType DEF TypeOK
      <4>5. l.val \in BOOLEAN
        BY <4>2, <1>1, LinesAssumption
      <4> DEFINE y == [groups[1] EXCEPT !.on = groups[1].outer /\ ~groups[1].taken /\ l.val,
                                        !.taken = groups[1].taken \/ l.val]
      <4>6. y \in GroupRec
        BY <4>4, <4>5 DEF GroupRec
      <4>7. groups' = [groups EXCEPT ![1] = y]
        BY <4>1, <4>2, <4>4 DEF NewGroups, TypeOK
      <4> HIDE DEF y
      <4> QED
        BY <4>3, <4>4, <4>6, <4>7 DEF TypeOK
    <3> QED
      BY <3>1, <3>2
  <2> QED
    BY <2>1, <1>1, <1>2 DEF TypeOK, Paired, Origin
<1>3. CASE pc' # "error"
  <2>1. /\ pc' = "read" /\ ~Misplaced(l) /\ state' = NewState(l) /\ groups' = NewGroups(l)
        /\ ~(Copies(NewState(l)) /\ Leaves(l))
    BY <1>3 DEF Conditional, Fail
  <2>2. /\ NewState(l) \in Seq(StateRec) /\ NewGroups(l) \in Seq(GroupRec)
        /\ Match(NewState(l), NewGroups(l))
    BY <2>1, <1>1, Branching
  <2>3. Paired'
    BY <2>1, <2>2 DEF Paired, Match
  <2> QED
    BY <2>1, <2>2, <2>3, <1>1 DEF TypeOK, Origin
<1> QED
  BY <1>2, <1>3

LEMMA PathOf ==
  ASSUME NEW l \in Lines, l.kind \in {"include", "line"}
  PROVE  /\ [name |-> l.path, quoted |-> TRUE] \in Paths
         /\ Plain(l.path) \in Paths
<1>1. l.path \in {k.path : k \in {m \in Lines : m.kind \in {"include", "line"}}}
  OBVIOUS
<1>2. \A q \in BOOLEAN : [name |-> l.path, quoted |-> q] \in Paths
  BY <1>1 DEF Paths
<1> QED
  BY <1>2 DEF Plain

LEMMA IncludeStep ==
  ASSUME CppIInv, Include
  PROVE  CppIInv'
<1> USE DEF CppIInv
<1> DEFINE l == list[1].l
<1>1. /\ pc = "directive" /\ l \in Lines /\ l.kind = "include"
      /\ pc' \in {"read", "error"} /\ line_no' = line_no
      /\ state' = state /\ groups' = groups
  BY DEF Include, Fail, TypeOK
<1>2. input' = input \/ input' = <<[path |-> Plain(l.path), line |-> 0]>> \o input
  BY DEF Include
<1>3. [path |-> Plain(l.path), line |-> 0] \in InputRec
  <2>1. Plain(l.path) \in Paths
    BY <1>1, PathOf
  <2>2. 0 \in Int
    OBVIOUS
  <2> QED
    BY <2>1, <2>2 DEF InputRec
<1>4. input' \in Seq(InputRec) /\ input' # <<>>
  <2>1. CASE input' = input
    BY <2>1 DEF TypeOK
  <2>2. CASE input' = <<[path |-> Plain(l.path), line |-> 0]>> \o input
    <3> DEFINE r == [path |-> Plain(l.path), line |-> 0]
    <3> HIDE DEF r
    <3>1. r \in InputRec /\ input \in Seq(InputRec) /\ input' = <<r>> \o input
      BY <2>2, <1>3 DEF r, TypeOK
    <3> QED
      BY <3>1
  <2> QED
    BY <2>1, <2>2, <1>2
<1>5. TypeOK' /\ Origin'
  BY <1>1, <1>4 DEF TypeOK, Origin
<1> QED
  BY <1>1, <1>5, PairedStays

LEMMA LineStep ==
  ASSUME CppIInv, Line
  PROVE  CppIInv'
<1> USE DEF CppIInv
<1> DEFINE l == list[1].l
           r == [Top EXCEPT !.line = l.to - 1,
                            !.path = IF l.path = "" THEN @
                                     ELSE [name |-> l.path, quoted |-> TRUE]]
<1>1. /\ pc = "directive" /\ l \in Lines /\ l.kind = "line"
      /\ pc' = "read" /\ line_no' = line_no /\ state' = state /\ groups' = groups
  BY DEF Line, TypeOK
<1>2. 1 \in DOMAIN input /\ input[1] = Top /\ Top \in InputRec /\ Top.path \in Paths
  BY TopType
<1>3. input' = [input EXCEPT ![1] = r]
  BY <1>2 DEF Line
<1>4. r \in InputRec
  <2>1. l.to - 1 \in Int
    BY <1>1, LinesAssumption
  <2>2. [name |-> l.path, quoted |-> TRUE] \in Paths
    BY <1>1, PathOf
  <2> QED
    BY <2>1, <2>2, <1>2 DEF InputRec
<1> HIDE DEF r
<1>5. input' \in Seq(InputRec) /\ input' # <<>>
  <2>1. input \in Seq(InputRec)
    BY DEF TypeOK
  <2>2. input' \in Seq(InputRec) /\ Len(input') = Len(input)
    BY <1>2, <1>3, <1>4, <2>1
  <2> QED
    BY <2>1, <2>2, <1>2
<1>6. TypeOK' /\ Origin'
  BY <1>1, <1>5 DEF TypeOK, Origin
<1> QED
  BY <1>1, <1>6, PairedStays

\* The steps that only decide what to do with the line.
LEMMA DecidingStep ==
  ASSUME CppIInv, Reject \/ Text \/ AheadEnd \/ ArgsEnd
  PROVE  CppIInv'
<1> USE DEF CppIInv
<1>1. /\ input' = input /\ state' = state /\ groups' = groups /\ line_no' = line_no
      /\ pc # "error" /\ pc' \in {"read", "error", "end", "emit"}
      /\ pc' = "emit" => list' = list /\ pc = "directive"
  BY DEF Reject, Text, AheadEnd, ArgsEnd, Fail
<1>2. TypeOK' /\ Origin'
  BY <1>1 DEF TypeOK, Origin, Top
<1> QED
  BY <1>1, <1>2, PairedStays

LEMMA EmitStep ==
  ASSUME CppIInv, Emit
  PROVE  CppIInv'
<1> USE DEF CppIInv
<1>1. /\ input' = input /\ state' = state /\ groups' = groups /\ line_no' = Top.line
      /\ pc = "emit" /\ pc' \in {"read", "ahead"} /\ need_sync' = FALSE
      /\ pc' = "ahead" => list' = list
  BY DEF Emit
<1>2. Top' = Top /\ Top.line \in Int
  BY <1>1, TopType DEF Top
<1>3. TypeOK' /\ Origin'
  BY <1>1, <1>2 DEF TypeOK, Origin
<1> QED
  BY <1>1, <1>3, PairedStays

LEMMA AheadStep ==
  ASSUME CppIInv, Ahead \/ Args
  PROVE  CppIInv'
<1> USE DEF CppIInv
<1>1. PICK l \in Lines :
        /\ ReadLine(l)
        /\ pc' \in {"directive", "emit", "ahead", "args"}
        /\ \/ list' = list /\ pc' # "emit" /\ pc' # "directive" /\ (pc' = "ahead" => pc = "ahead")
           \/ list' = <<Expansion(l)>> /\ pc' = "emit" /\ l.kind \in {"args", "close"}
           \/ list' = <<Chunk(l)>> /\ pc' = "directive"
  BY DEF Ahead, Args, NewLine
<1>2. /\ pc \in {"ahead", "args"} /\ state' = state /\ groups' = groups
      /\ line_no' = line_no /\ need_sync' = need_sync
  BY DEF Ahead, Args
<1>3. /\ input' \in Seq(InputRec) /\ input' # <<>> /\ Top'.path = Top.path
      /\ <<Chunk(l)>> \in Seq(ChunkRec) /\ <<Chunk(l)>> # <<>>
      /\ Chunk(l).path = Top'.path /\ Chunk(l).line = Top'.line
      /\ <<Chunk(l)>>[1] = Chunk(l) /\ Chunk(l).l = l
  BY <1>1, Reading
<1>4. l.kind \in {"args", "close"} =>
        /\ <<Expansion(l)>> \in Seq(ChunkRec) /\ <<Expansion(l)>> # <<>>
        /\ <<Expansion(l)>>[1].path = Top'.path /\ <<Expansion(l)>>[1].line = Top'.line
  BY <1>1, Expanding
<1>5. CASE list' = list /\ pc' # "emit" /\ pc' # "directive" /\ (pc' = "ahead" => pc = "ahead")
  BY <1>1, <1>2, <1>3, <1>5, PairedStays DEF TypeOK, Origin
<1>6. CASE list' = <<Expansion(l)>> /\ pc' = "emit" /\ l.kind \in {"args", "close"}
  <2>1. TypeOK' /\ Origin'
    BY <1>2, <1>3, <1>4, <1>6 DEF TypeOK, Origin
  <2> QED
    BY <2>1, <1>2, PairedStays
<1>7. CASE list' = <<Chunk(l)>> /\ pc' = "directive"
  <2>1. TypeOK' /\ Origin'
    BY <1>2, <1>3, <1>7 DEF TypeOK, Origin
  <2> QED
    BY <2>1, <1>2, PairedStays
<1> QED
  BY <1>1, <1>5, <1>6, <1>7

LEMMA NextCpp ==
  ASSUME CppIInv, Next
  PROVE  CppIInv'
BY GetLineStep, PopFileStep, EndMainStep, ConditionalStep, IncludeStep, LineStep,
   DecidingStep, EmitStep, AheadStep DEF Next

LEMMA CppStep ==
  ASSUME CppIInv, [NextBoth]_allvars
  PROVE  CppIInv'
<1>1. CASE Next
  BY <1>1, NextCpp
<1>2. CASE UNCHANGED <<input, state, list, pc, need_sync, line_no, nread, groups>>
  BY <1>2 DEF CppIInv, TypeOK, Paired, Origin, Top
<1> QED
  BY <1>1, <1>2 DEF NextBoth, allvars, vars

\* Lines are copied exactly when the groups of the language say so.
THEOREM CopiesRight == SpecBoth => []CopiesActive
<1>1. InitBoth => CppIInv
  BY InitCpp DEF InitBoth
<1>2. CppIInv /\ [NextBoth]_allvars => CppIInv'
  BY CppStep
<1>3. CppIInv => CopiesActive
  BY CopiesIsActive DEF CppIInv, CopiesActive, Paired
<1> QED
  BY <1>1, <1>2, <1>3, PTL DEF SpecBoth

-----------------------------------------------------------------------------
\* What the lexer will make of the output.

LEMMA AfterType ==
  ASSUME NEW s \in LexRec, NEW x \in Units
  PROVE  After(s, x) \in LexRec
<1>1. CASE s.lost
  BY <1>1 DEF After
<1>2. CASE ~s.lost /\ x.u = "nl"
  <2>1. s.line + 1 \in Int
    BY DEF LexRec
  <2>2. [s EXCEPT !.bol = TRUE, !.line = @ + 1] \in LexRec
    BY <2>1 DEF LexRec
  <2> QED
    BY <1>2, <2>2 DEF After
<1>3. CASE ~s.lost /\ x.u \in {"text", "lit"}
  BY <1>3 DEF After, LexRec
<1>4. CASE ~s.lost /\ x.u = "mark" /\ s.bol /\ ~x.path.quoted
  <2>1. x.line - 1 \in Int /\ x.path \in Paths
    BY <1>4 DEF Units
  <2> QED
    BY <1>4, <2>1 DEF After, LexRec
<1>5. CASE ~s.lost /\ x.u # "nl" /\ x.u \notin {"text", "lit"}
           /\ ~(x.u = "mark" /\ s.bol /\ ~x.path.quoted)
  BY <1>5 DEF After, LexRec
<1> QED
  BY <1>1, <1>2, <1>3, <1>4, <1>5

\* One unit more, which the lexer will take for what it is.
LEMMA TraceMore ==
  ASSUME NEW o \in Seq(Units), NEW x \in Units, NEW t, Trace(t, o),
         Right(t[Len(o)], x)
  PROVE  \E w : /\ Trace(w, Append(o, x)) /\ w[0] = Start
                /\ w[Len(o) + 1] = After(t[Len(o)], x)
<1> DEFINE n == Len(o)
           p == Append(o, x)
           w == [i \in 0..(n + 1) |-> IF i = n + 1 THEN After(t[n], x) ELSE t[i]]
<1>1. n \in Nat /\ t \in [0..n -> LexRec] /\ t[n] \in LexRec
  BY DEF Trace
<1>2. /\ p \in Seq(Units) /\ Len(p) = n + 1 /\ p[n + 1] = x
      /\ \A i \in 1..n : p[i] = o[i]
  OBVIOUS
<1>3. w \in [0..(n + 1) -> LexRec]
  BY <1>1, AfterType
<1>4. w[n + 1] = After(t[n], x) /\ \A i \in 0..n : w[i] = t[i]
  BY <1>1
<1> HIDE DEF p, w
<1>5. \A i \in 1..(n + 1) : w[i] = After(w[i - 1], p[i]) /\ Right(w[i - 1], p[i])
  <2> SUFFICES ASSUME NEW i \in 1..(n + 1)
               PROVE  w[i] = After(w[i - 1], p[i]) /\ Right(w[i - 1], p[i])
    OBVIOUS
  <2>1. i - 1 \in 0..n /\ w[i - 1] = t[i - 1]
    BY <1>1, <1>4
  <2>2. CASE i = n + 1
    <3>1. w[i - 1] = t[n] /\ p[i] = x /\ w[i] = After(t[n], x)
      BY <2>1, <2>2, <1>1, <1>2, <1>4
    <3> QED
      BY <3>1
  <2>3. CASE i # n + 1
    <3>1. i \in 1..n /\ w[i] = t[i] /\ p[i] = o[i]
      BY <2>3, <1>1, <1>2, <1>4
    <3> QED
      BY <3>1, <2>1 DEF Trace
  <2> QED
    BY <2>2, <2>3
<1>6. w[0] = Start
  BY <1>1, <1>4 DEF Trace
<1>7. Trace(w, p)
  BY <1>2, <1>3, <1>5, <1>6 DEF Trace
<1> QED
  BY <1>4, <1>6, <1>7 DEF p

LEMMA OneNewline ==
  ASSUME NEW b, NEW k \in Int, NEW p
  PROVE  After([bol |-> b, line |-> k, path |-> p, lost |-> FALSE], [u |-> "nl"])
           = [bol |-> TRUE, line |-> k + 1, path |-> p, lost |-> FALSE]
BY DEF After

\* What the lexer makes of each kind of unit.
LEMMA AfterNewline ==
  ASSUME NEW s \in LexRec, NEW x, x.u = "nl", ~s.lost
  PROVE  /\ After(s, x).bol /\ After(s, x).line = s.line + 1
         /\ After(s, x).path = s.path /\ ~After(s, x).lost
BY DEF After, LexRec

LEMMA AfterText ==
  ASSUME NEW s \in LexRec, NEW x, x.u \in {"text", "lit"}, ~s.lost
  PROVE  /\ After(s, x).line = s.line
         /\ After(s, x).path = s.path /\ ~After(s, x).lost
BY DEF After, LexRec

LEMMA OneMark ==
  ASSUME NEW s \in LexRec, NEW x, x.u = "mark", s.bol, ~s.lost, ~x.path.quoted
  PROVE  After(s, x) = [bol |-> FALSE, line |-> x.line - 1, path |-> x.path, lost |-> FALSE]
BY DEF After

\* n newlines more: the lexer counts them.
Newlines(n) == [i \in 1..n |-> [u |-> "nl"]]

LEMMA TraceNewlines ==
  ASSUME NEW o \in Seq(Units), NEW n \in Nat, NEW t, Trace(t, o)
  PROVE  /\ o \o Newlines(n) \in Seq(Units)
         /\ \E w : /\ Trace(w, o \o Newlines(n)) /\ w[0] = Start
                   /\ LET s == t[Len(o)]
                          e == w[Len(o \o Newlines(n))]
                      IN  ~e.lost => ~s.lost /\ e.line = s.line + n /\ e.path = s.path
<1> DEFINE m == Len(o)
           p == o \o Newlines(n)
           s == t[m]
           w == [i \in 0..(m + n) |->
                   IF i <= m THEN t[i]
                   ELSE IF s.lost THEN s
                   ELSE [bol |-> TRUE, line |-> s.line + (i - m), path |-> s.path, lost |-> FALSE]]
<1>1. m \in Nat /\ t \in [0..m -> LexRec] /\ s \in LexRec
  BY DEF Trace
<1>2. Newlines(n) \in Seq(Units) /\ Len(Newlines(n)) = n
      /\ \A i \in 1..n : Newlines(n)[i] = [u |-> "nl"]
  <2>1. [u |-> "nl"] \in Units
    BY DEF Units
  <2> QED
    BY <2>1 DEF Newlines
<1>3. /\ p \in Seq(Units) /\ Len(p) = m + n
      /\ \A i \in 1..m : p[i] = o[i]
      /\ \A i \in (m + 1)..(m + n) : p[i] = [u |-> "nl"]
  <2> DEFINE q == Newlines(n)
  <2> HIDE DEF q
  <2>1. q \in Seq(Units) /\ Len(q) = n /\ \A i \in 1..n : q[i] = [u |-> "nl"]
    BY <1>2 DEF q
  <2>2. /\ o \o q \in Seq(Units) /\ Len(o \o q) = m + n
        /\ \A i \in 1..m : (o \o q)[i] = o[i]
        /\ \A i \in (m + 1)..(m + n) : (o \o q)[i] = q[i - m]
    BY <2>1
  <2>3. \A i \in (m + 1)..(m + n) : i - m \in 1..n
    BY <1>1
  <2> QED
    BY <2>1, <2>2, <2>3 DEF q
<1>4. /\ s.line \in Int /\ s.path \in Paths \cup {Nowhere}
      /\ s.bol \in BOOLEAN /\ s.lost \in BOOLEAN
      /\ s = [bol |-> s.bol, line |-> s.line, path |-> s.path, lost |-> s.lost]
  BY <1>1 DEF LexRec
<1>5. w \in [0..(m + n) -> LexRec]
  <2> SUFFICES ASSUME NEW i \in 0..(m + n)
               PROVE  w[i] \in LexRec
    OBVIOUS
  <2>1. CASE i <= m
    BY <2>1, <1>1
  <2>2. CASE ~(i <= m)
    <3>1. s.line + (i - m) \in Int
      BY <1>1, <1>4
    <3>2. [bol |-> TRUE, line |-> s.line + (i - m), path |-> s.path, lost |-> FALSE] \in LexRec
      BY <3>1, <1>4 DEF LexRec
    <3> HIDE DEF s
    <3> QED
      BY <3>2, <2>2, <1>1
  <2> QED
    BY <2>1, <2>2
<1>6. \A i \in 0..m : w[i] = t[i]
  BY <1>1
<1>7. \A i \in (m + 1)..(m + n) :
        w[i] = IF s.lost THEN s
               ELSE [bol |-> TRUE, line |-> s.line + (i - m), path |-> s.path, lost |-> FALSE]
  BY <1>1
<1> HIDE DEF p, w, s
<1>8. \A i \in 1..(m + n) : w[i] = After(w[i - 1], p[i]) /\ Right(w[i - 1], p[i])
  <2> SUFFICES ASSUME NEW i \in 1..(m + n)
               PROVE  w[i] = After(w[i - 1], p[i]) /\ Right(w[i - 1], p[i])
    OBVIOUS
  <2>1. CASE i <= m
    <3>1. i \in 1..m /\ w[i] = t[i] /\ w[i - 1] = t[i - 1] /\ p[i] = o[i]
      BY <2>1, <1>1, <1>3, <1>6
    <3> QED
      BY <3>1 DEF Trace
  <2>2. CASE ~(i <= m)
    <3>1. i \in (m + 1)..(m + n) /\ p[i] = [u |-> "nl"]
      BY <2>2, <1>1, <1>3
    <3>2. CASE s.lost
      <4>1. w[i] = s /\ w[i - 1] = s
        BY <3>1, <3>2, <1>1, <1>6, <1>7 DEF s
      <4> QED
        BY <4>1, <3>1, <3>2 DEF After, Right
    <3>3. CASE ~s.lost
      <4>1. w[i] = [bol |-> TRUE, line |-> s.line + (i - m), path |-> s.path, lost |-> FALSE]
        BY <3>1, <3>3, <1>7
      <4>2. \E b \in BOOLEAN :
              w[i - 1] = [bol |-> b, line |-> s.line + (i - m - 1), path |-> s.path, lost |-> FALSE]
        <5>1. CASE i = m + 1
          <6>1. w[i - 1] = s /\ s.lost = FALSE /\ s.line + (i - m - 1) = s.line
            BY <5>1, <3>3, <1>1, <1>4, <1>6 DEF s
          <6> QED
            BY <6>1, <1>4
        <5>2. CASE i # m + 1
          <6>1. i - 1 \in (m + 1)..(m + n) /\ (i - 1) - m = i - m - 1
            BY <5>2, <3>1, <1>1
          <6> QED
            BY <6>1, <3>3, <1>7
        <5> QED
          BY <5>1, <5>2
      <4>3. s.line + (i - m - 1) + 1 = s.line + (i - m)
        BY <3>1, <1>1, <1>4
      <4>4. PICK b \in BOOLEAN :
              w[i - 1] = [bol |-> b, line |-> s.line + (i - m - 1), path |-> s.path, lost |-> FALSE]
        BY <4>2
      <4> DEFINE k == s.line + (i - m - 1)
      <4>5. k \in Int /\ k + 1 = s.line + (i - m)
        BY <4>3, <3>1, <1>1, <1>4
      <4>6. /\ w[i - 1] = [bol |-> b, line |-> k, path |-> s.path, lost |-> FALSE]
            /\ w[i] = [bol |-> TRUE, line |-> k + 1, path |-> s.path, lost |-> FALSE]
        BY <4>1, <4>4, <4>5
      <4> HIDE DEF k
      <4>7. After(w[i - 1], [u |-> "nl"]) = w[i]
        BY <4>5, <4>6, OneNewline
      <4> QED
        BY <4>7, <3>1 DEF Right
    <3> QED
      BY <3>2, <3>3
  <2> QED
    BY <2>1, <2>2
<1>9. w[0] = Start
  BY <1>1, <1>6 DEF Trace
<1>10. Trace(w, p)
  BY <1>3, <1>5, <1>8, <1>9 DEF Trace
<1>11. ~w[m + n].lost => ~s.lost /\ w[m + n].line = s.line + n /\ w[m + n].path = s.path
  <2>1. CASE n = 0
    <3>1. w[m + n] = s /\ s.line + n = s.line
      BY <2>1, <1>1, <1>4, <1>6 DEF s
    <3> QED
      BY <3>1
  <2>2. CASE n # 0
    <3>1. m + n \in (m + 1)..(m + n) /\ (m + n) - m = n
      BY <2>2, <1>1
    <3>2. CASE s.lost
      BY <3>1, <3>2, <1>7
    <3>3. CASE ~s.lost
      <4>1. w[m + n] = [bol |-> TRUE, line |-> s.line + n, path |-> s.path, lost |-> FALSE]
        BY <3>1, <3>3, <1>7
      <4> QED
        BY <4>1, <3>3
    <3> QED
      BY <3>2, <3>3
  <2> QED
    BY <2>1, <2>2
<1> QED
  BY <1>3, <1>9, <1>10, <1>11 DEF p, s

\* A marker says where the line after it is, and a text does not change it.
LEMMA AfterMark ==
  ASSUME NEW s \in LexRec, NEW x, x.u = "mark", ~After(s, x).lost
  PROVE  After(s, x).line = x.line - 1 /\ After(s, x).path = x.path
<1>1. s.lost = FALSE /\ s.bol \in BOOLEAN
  BY DEF After, LexRec
<1>2. CASE s.bol /\ ~x.path.quoted
  BY <1>1, <1>2 DEF After
<1>3. CASE ~(s.bol /\ ~x.path.quoted)
  <2>1. After(s, x) = [s EXCEPT !.lost = TRUE]
    BY <1>1, <1>3 DEF After
  <2>2. [s EXCEPT !.lost = TRUE].lost = TRUE
    BY DEF LexRec
  <2> QED
    BY <2>1, <2>2
<1> QED
  BY <1>2, <1>3

LEMMA AfterToken ==
  ASSUME NEW s \in LexRec, NEW x, x.u \in {"text", "lit", "pragma"}, ~After(s, x).lost
  PROVE  ~s.lost /\ After(s, x).line = s.line /\ After(s, x).path = s.path
<1>1. ~s.lost
  BY DEF After
<1>2. CASE x.u \in {"text", "lit"}
  BY <1>1, <1>2, AfterText
<1>3. CASE x.u = "pragma"
  <2>1. After(s, x) = [s EXCEPT !.lost = TRUE]
    BY <1>1, <1>3 DEF After
  <2>2. [s EXCEPT !.lost = TRUE].lost = TRUE
    BY DEF LexRec
  <2> QED
    BY <2>1, <2>2
<1> QED
  BY <1>1, <1>2, <1>3

\* What sync() writes takes the lexer to where the input is.
LEMMA SyncRight ==
  ASSUME CppIInv, pc = "emit", out \in Seq(Units), NEW t, Trace(t, out), Synced(t)
  PROVE  /\ out \o SyncUnits \in Seq(Units)
         /\ \E w : /\ Trace(w, out \o SyncUnits) /\ w[0] = Start
                   /\ LET e == w[Len(out \o SyncUnits)]
                      IN  ~e.lost => e.line = Top.line /\ e.path = Top.path
<1> DEFINE s == t[Len(out)]
<1>1. /\ Top.path \in Paths /\ Top.line \in Int /\ line_no \in Int
      /\ Len(out) \in Nat /\ s \in LexRec
  <2>1. Top.path \in Paths /\ Top.line \in Int
    BY TopType DEF CppIInv
  <2>2. line_no \in Int
    BY DEF CppIInv, TypeOK
  <2>3. Len(out) \in Nat
    OBVIOUS
  <2>4. s \in LexRec
    BY <2>3 DEF Trace
  <2> QED
    BY <2>1, <2>2, <2>3, <2>4
<1>2. CASE need_sync \/ line_no > Top.line \/ line_no + SyncWindow < Top.line
  <2> DEFINE nl == [u |-> "nl"]
             mk == [u |-> "mark", path |-> Top.path, line |-> Top.line]
             a == Append(out, nl)
             b == Append(a, mk)
             c == Append(b, nl)
  <2>1. nl \in Units /\ mk \in Units /\ nl.u = "nl" /\ mk.u = "mark"
        /\ mk.line = Top.line /\ mk.path = Top.path
    BY <1>1 DEF Units
  <2>2. SyncUnits = <<nl, mk, nl>>
    BY <1>2 DEF SyncUnits
  <2> HIDE DEF nl, mk
  <2>3. /\ out \o <<nl, mk, nl>> = c
        /\ a \in Seq(Units) /\ b \in Seq(Units) /\ c \in Seq(Units)
        /\ Len(a) = Len(out) + 1 /\ Len(b) = Len(a) + 1 /\ Len(c) = Len(b) + 1
    BY <2>1
  <2> HIDE DEF a, b, c
  <2>4. PICK v : Trace(v, a) /\ v[Len(out) + 1] = After(s, nl)
    <3>1. Right(s, nl)
      BY <2>1 DEF Right
    <3> QED
      BY <2>1, <3>1, TraceMore DEF a
  <2>5. PICK w : Trace(w, b) /\ w[Len(a) + 1] = After(v[Len(a)], mk)
    <3>1. Right(v[Len(a)], mk)
      BY <2>1 DEF Right
    <3> QED
      BY <2>1, <2>3, <2>4, <3>1, TraceMore DEF b
  <2>6. PICK z : Trace(z, c) /\ z[0] = Start /\ z[Len(b) + 1] = After(w[Len(b)], nl)
    <3>1. Right(w[Len(b)], nl)
      BY <2>1 DEF Right
    <3> QED
      BY <2>1, <2>3, <2>5, <3>1, TraceMore DEF c
  <2>7. v[Len(a)] \in LexRec /\ w[Len(b)] \in LexRec
    <3>1. Len(a) \in 0..Len(a) /\ Len(b) \in 0..Len(b)
      BY <2>3
    <3> QED
      BY <3>1, <2>4, <2>5 DEF Trace
  <2>8. ASSUME ~z[Len(c)].lost
        PROVE  z[Len(c)].line = Top.line /\ z[Len(c)].path = Top.path
    <3>1. ~w[Len(b)].lost
      BY <2>3, <2>6, <2>8 DEF After
    <3>2. w[Len(b)].line = Top.line - 1 /\ w[Len(b)].path = Top.path
      BY <3>1, <2>1, <2>3, <2>5, <2>7, AfterMark
    <3>3. z[Len(c)].line = (Top.line - 1) + 1 /\ z[Len(c)].path = Top.path
      BY <3>1, <3>2, <2>1, <2>3, <2>6, <2>7, AfterNewline
    <3> QED
      BY <3>3, <1>1
  <2> QED
    BY <2>2, <2>3, <2>6, <2>8
<1>3. CASE ~(need_sync \/ line_no > Top.line \/ line_no + SyncWindow < Top.line)
  <2> DEFINE n == Top.line - line_no
  <2>1. n \in Nat /\ line_no + n = Top.line
    BY <1>1, <1>3
  <2>2. SyncUnits = Newlines(n)
    BY <1>3 DEF SyncUnits, Newlines
  <2>3. ~s.lost => s.line = line_no /\ s.path = Top.path
    BY <1>3 DEF Synced
  <2> HIDE DEF n
  <2>4. out \o Newlines(n) \in Seq(Units)
    BY <2>1, TraceNewlines
  <2>5. PICK w : /\ Trace(w, out \o Newlines(n)) /\ w[0] = Start
                 /\ LET e == w[Len(out \o Newlines(n))]
                    IN  ~e.lost => ~s.lost /\ e.line = s.line + n /\ e.path = s.path
    BY <2>1, TraceNewlines
  <2>6. LET e == w[Len(out \o Newlines(n))]
        IN  ~e.lost => e.line = Top.line /\ e.path = Top.path
    BY <2>1, <2>3, <2>5
  <2> QED
    BY <2>2, <2>4, <2>5, <2>6
<1> QED
  BY <1>2, <1>3

\* What is copied is taken for what it is, where the output is where it was read.
LEMMA TraceUnit ==
  ASSUME NEW o \in Seq(Units), NEW t, Trace(t, o), NEW c,
         ~t[Len(o)].lost => t[Len(o)].line = c.line /\ t[Len(o)].path = c.path,
         NEW x \in Units, x.u \in {"text", "lit", "pragma"},
         x.line = c.line, x.path = c.path
  PROVE  /\ Append(o, x) \in Seq(Units)
         /\ \E w : /\ Trace(w, Append(o, x)) /\ w[0] = Start
                   /\ LET e == w[Len(Append(o, x))]
                      IN  ~e.lost => ~t[Len(o)].lost /\ e.line = c.line /\ e.path = c.path
<1> DEFINE s == t[Len(o)]
<1>1. Len(o) \in Nat /\ s \in LexRec
  BY DEF Trace
<1>2. Right(s, x)
  BY DEF Right
<1>3. PICK w : /\ Trace(w, Append(o, x)) /\ w[0] = Start
               /\ w[Len(o) + 1] = After(s, x)
  BY <1>2, TraceMore
<1>4. Append(o, x) \in Seq(Units) /\ Len(Append(o, x)) = Len(o) + 1
  OBVIOUS
<1>5. ~After(s, x).lost => ~s.lost /\ After(s, x).line = c.line /\ After(s, x).path = c.path
  BY <1>1, AfterToken
<1> QED
  BY <1>3, <1>4, <1>5

LEMMA TraceCopied ==
  ASSUME NEW o \in Seq(Units), NEW t, Trace(t, o),
         NEW c, c.line \in Int, c.path \in Paths,
         ~t[Len(o)].lost => t[Len(o)].line = c.line /\ t[Len(o)].path = c.path
  PROVE  /\ o \o Copied(c) \in Seq(Units)
         /\ \E w : /\ Trace(w, o \o Copied(c)) /\ w[0] = Start
                   /\ LET e == w[Len(o \o Copied(c))]
                      IN  ~e.lost => ~t[Len(o)].lost /\ e.line = c.line /\ e.path = c.path
<1> DEFINE U(x) == /\ x \in Units /\ x.u \in {"text", "lit", "pragma"}
                   /\ x.line = c.line /\ x.path = c.path
<1>1. \A v \in {"text", "lit", "pragma"} : U(Unit(v, c))
  BY DEF Unit, Units
<1>2. \/ \E x : U(x) /\ Copied(c) = <<x>>
      \/ \E x, y : U(x) /\ U(y) /\ Copied(c) = <<x, y>>
  <2> DEFINE a == Unit("text", c)
             b == Unit("lit", c)
             d == Unit("pragma", c)
  <2>1. U(a) /\ U(b) /\ U(d)
    BY <1>1
  <2>2. Copied(c) \in {<<a>>, <<b>>, <<d>>, <<a, b>>, <<b, a>>}
    BY DEF Copied
  <2> HIDE DEF a, b, d
  <2> QED
    BY <2>1, <2>2
<1>3. CASE \E x : U(x) /\ Copied(c) = <<x>>
  <2>1. PICK x : U(x) /\ Copied(c) = <<x>>
    BY <1>3
  <2>2. o \o Copied(c) = Append(o, x)
    BY <2>1
  <2>3. /\ x \in Units /\ x.u \in {"text", "lit", "pragma"}
        /\ x.line = c.line /\ x.path = c.path
    BY <2>1
  <2>4. /\ Append(o, x) \in Seq(Units)
        /\ \E w : /\ Trace(w, Append(o, x)) /\ w[0] = Start
                  /\ LET e == w[Len(Append(o, x))]
                     IN  ~e.lost => ~t[Len(o)].lost /\ e.line = c.line /\ e.path = c.path
    BY ONLY <2>3, TraceUnit, o \in Seq(Units), Trace(t, o),
       ~t[Len(o)].lost => t[Len(o)].line = c.line /\ t[Len(o)].path = c.path
  <2> QED
    BY <2>2, <2>4
<1>4. CASE \E x, y : U(x) /\ U(y) /\ Copied(c) = <<x, y>>
  <2>1. PICK x, y : U(x) /\ U(y) /\ Copied(c) = <<x, y>>
    BY <1>4
  <2> DEFINE a == Append(o, x)
  <2>2. o \o Copied(c) = Append(a, y)
    BY <2>1
  <2>3. /\ a \in Seq(Units)
        /\ \E w : /\ Trace(w, a) /\ w[0] = Start
                  /\ LET e == w[Len(a)]
                     IN  ~e.lost => ~t[Len(o)].lost /\ e.line = c.line /\ e.path = c.path
    BY <2>1, TraceUnit
  <2> HIDE DEF a
  <2>4. PICK w : /\ Trace(w, a)
                 /\ ~w[Len(a)].lost => /\ ~t[Len(o)].lost
                                       /\ w[Len(a)].line = c.line /\ w[Len(a)].path = c.path
    BY <2>3
  <2>5. /\ Append(a, y) \in Seq(Units)
        /\ \E z : /\ Trace(z, Append(a, y)) /\ z[0] = Start
                  /\ LET e == z[Len(Append(a, y))]
                     IN  ~e.lost => ~w[Len(a)].lost /\ e.line = c.line /\ e.path = c.path
    <3>1. /\ y \in Units /\ y.u \in {"text", "lit", "pragma"}
          /\ y.line = c.line /\ y.path = c.path
      BY <2>1
    <3>2. ~w[Len(a)].lost => w[Len(a)].line = c.line /\ w[Len(a)].path = c.path
      BY <2>4
    <3> QED
      BY ONLY <3>1, <3>2, TraceUnit, <2>3, <2>4
  <2>6. PICK z : /\ Trace(z, Append(a, y)) /\ z[0] = Start
                 /\ ~z[Len(Append(a, y))].lost =>
                      /\ ~w[Len(a)].lost
                      /\ z[Len(Append(a, y))].line = c.line
                      /\ z[Len(Append(a, y))].path = c.path
    BY <2>5
  <2> QED
    BY <2>2, <2>4, <2>5, <2>6
<1> QED
  BY <1>2, <1>3, <1>4

-----------------------------------------------------------------------------
\* The steps.  In those of cpp the lexer waits.

LEMMA Waiting ==
  ASSUME NEW t, Follows(t), Trace(t, out), pc # "done", UNCHANGED lex,
         NEW w, Trace(w, out'), w[0] = Start, Len(out') \in Nat
  PROVE  Follows(w)'
BY DEF Follows, Trace, lex

\* A step that does not write.
LEMMA SilentStep ==
  ASSUME Foreseen, UNCHANGED lex, out' = out, line_no' = line_no,
         pc \notin {"done", "error"},
         pc' # "error" => need_sync' \/ (Top'.path = Top.path /\ need_sync' = need_sync)
  PROVE  Foreseen'
<1>1. PICK t : Trace(t, out) /\ Synced(t) /\ Follows(t)
  BY DEF Foreseen
<1>2. Trace(t, out)' /\ t[0] = Start /\ Len(out) \in Nat
  <2>1. Trace(t, out')
    BY <1>1
  <2>2. Trace(t, out)'
    BY <2>1 DEF Trace, After, Right, LexRec, Paths, Start, Nowhere, Plain
  <2> QED
    BY <2>2, <1>1 DEF Trace, Foreseen
<1>3. Synced(t)'
  BY <1>1 DEF Synced
<1>4. Follows(t)'
  BY <1>1, <1>2, Waiting
<1> QED
  BY <1>2, <1>3, <1>4 DEF Foreseen

\* error() removes what was written.
LEMMA FailStep ==
  ASSUME Foreseen, UNCHANGED lex, Fail, pc # "done"
  PROVE  Foreseen'
<1>1. PICK t : Trace(t, out) /\ Synced(t) /\ Follows(t)
  BY DEF Foreseen
<1> DEFINE w == [i \in 0..0 |-> Start]
<1>2. Start \in LexRec /\ out' = <<>> /\ pc' = "error"
  BY DEF Start, LexRec, Fail
<1>3. Trace(w, <<>>) /\ w[0] = Start
  BY <1>2 DEF Trace
<1> HIDE DEF w
<1>4. Trace(w, out') /\ Len(out') \in Nat /\ out' \in Seq(Units)
  BY <1>2, <1>3
<1>5. Follows(w)'
  BY <1>1, <1>3, <1>4, Waiting
<1>6. Synced(w)'
  BY <1>2 DEF Synced
<1> QED
  BY <1>4, <1>5, <1>6 DEF Foreseen

\* A step that writes what the lexer will be right about.
LEMMA WriteStep ==
  ASSUME Foreseen, UNCHANGED lex, pc # "done", out' \in Seq(Units),
         NEW w, Trace(w, out'), w[0] = Start, Synced(w)'
  PROVE  Foreseen'
<1>1. PICK t : Trace(t, out) /\ Follows(t)
  BY DEF Foreseen
<1>2. Len(out') \in Nat
  OBVIOUS
<1>3. Follows(w)'
  BY <1>1, <1>2, Waiting
<1> QED
  BY <1>3 DEF Foreseen

\* Where what is copied from the head of the list comes from.
LEMMA HeadOrigin ==
  ASSUME CppIInv, pc \in {"emit", "ahead"}
  PROVE  /\ list[1].path = Top.path /\ list[1].path \in Paths /\ list[1].line \in Int
         /\ pc = "emit" => list[1].line = Top.line
         /\ pc = "ahead" => list[1].line = line_no /\ ~need_sync
<1>1. list[1] \in ChunkRec
  BY HeadType DEF CppIInv, TypeOK
<1>2. list[1].path \in Paths /\ list[1].line \in Int
  BY <1>1 DEF ChunkRec
<1> QED
  BY <1>2 DEF CppIInv, Origin

LEMMA EmitWrites ==
  ASSUME CppIInv, Foreseen, Emit, UNCHANGED lex
  PROVE  Foreseen'
<1>1. PICK t : Trace(t, out) /\ Synced(t) /\ Follows(t)
  BY DEF Foreseen
<1> DEFINE o == out \o SyncUnits
           c == list[1]
<1>2. /\ pc = "emit" /\ pc' \in {"read", "ahead"} /\ need_sync' = FALSE
      /\ line_no' = Top.line /\ Top' = Top
      /\ out' = IF list[1].l.kind = "fn" THEN o ELSE o \o Copied(c)
  BY DEF Emit, Top
<1>3. out \in Seq(Units)
  BY DEF Foreseen
<1>4. o \in Seq(Units)
  BY <1>1, <1>2, <1>3, SyncRight
<1>5. PICK w : /\ Trace(w, o) /\ w[0] = Start
               /\ ~w[Len(o)].lost => w[Len(o)].line = Top.line /\ w[Len(o)].path = Top.path
  BY <1>1, <1>2, <1>3, SyncRight
<1> HIDE DEF o
<1>6. CASE list[1].l.kind = "fn"
  <2>1. out' = o
    BY <1>2, <1>6
  <2>2. Synced(w)'
    BY <2>1, <1>2, <1>5 DEF Synced
  <2> QED
    BY <2>1, <2>2, <1>2, <1>4, <1>5, WriteStep
<1>7. CASE list[1].l.kind # "fn"
  <2>1. c.path = Top.path /\ c.path \in Paths /\ c.line \in Int /\ c.line = Top.line
    BY <1>2, HeadOrigin
  <2> HIDE DEF c
  <2>2. out' = o \o Copied(c)
    BY <1>2, <1>7
  <2>3. /\ o \o Copied(c) \in Seq(Units)
        /\ \E z : /\ Trace(z, o \o Copied(c)) /\ z[0] = Start
                  /\ LET e == z[Len(o \o Copied(c))]
                     IN  ~e.lost => ~w[Len(o)].lost /\ e.line = c.line /\ e.path = c.path
    BY <2>1, <1>4, <1>5, TraceCopied
  <2>4. PICK z : /\ Trace(z, out') /\ z[0] = Start
                 /\ ~z[Len(out')].lost => z[Len(out')].line = c.line /\ z[Len(out')].path = c.path
    BY <2>2, <2>3
  <2>5. Synced(z)'
    BY <2>1, <2>4, <1>2 DEF Synced
  <2> QED
    BY <2>2, <2>3, <2>4, <2>5, <1>2, WriteStep
<1> QED
  BY <1>6, <1>7

LEMMA AheadWrites ==
  ASSUME CppIInv, Foreseen, Ahead \/ AheadEnd, UNCHANGED lex
  PROVE  Foreseen'
<1> DEFINE c == list[1]
<1>1. /\ pc = "ahead" /\ pc' # "error" /\ line_no' = line_no /\ need_sync' = need_sync
      /\ out' = out \/ out' = out \o Copied(c)
  BY DEF Ahead, AheadEnd
<1>2. Top'.path = Top.path
  <2>1. CASE Ahead
    <3>1. PICK l \in Lines : ReadLine(l)
      BY <2>1 DEF Ahead
    <3> QED
      BY <3>1, Reading DEF CppIInv
  <2>2. CASE AheadEnd
    BY <2>2 DEF AheadEnd, Top
  <2> QED
    BY <2>1, <2>2
<1>3. /\ c.path = Top.path /\ c.path \in Paths /\ c.line \in Int
      /\ c.line = line_no /\ ~need_sync
  BY <1>1, HeadOrigin
<1> HIDE DEF c
<1>4. CASE out' = out
  BY <1>1, <1>2, <1>4, SilentStep
<1>5. CASE out' = out \o Copied(c)
  <2>1. PICK t : Trace(t, out) /\ Synced(t)
    BY DEF Foreseen
  <2>2. ~t[Len(out)].lost => t[Len(out)].line = c.line /\ t[Len(out)].path = c.path
    BY <2>1, <1>1, <1>3 DEF Synced
  <2>3. out \in Seq(Units)
    BY DEF Foreseen
  <2>4. /\ out \o Copied(c) \in Seq(Units)
        /\ \E w : /\ Trace(w, out \o Copied(c)) /\ w[0] = Start
                  /\ LET e == w[Len(out \o Copied(c))]
                     IN  ~e.lost => ~t[Len(out)].lost /\ e.line = c.line /\ e.path = c.path
    BY <2>1, <2>2, <2>3, <1>3, TraceCopied
  <2>5. PICK w : /\ Trace(w, out') /\ w[0] = Start
                 /\ ~w[Len(out')].lost => w[Len(out')].line = c.line /\ w[Len(out')].path = c.path
    BY <2>4, <1>5
  <2>6. Synced(w)'
    BY <2>5, <1>1, <1>2, <1>3 DEF Synced
  <2> QED
    BY <2>4, <2>5, <2>6, <1>1, <1>5, WriteStep
<1> QED
  BY <1>1, <1>4, <1>5

LEMMA EndMainWrites ==
  ASSUME Foreseen, EndMain, UNCHANGED lex
  PROVE  Foreseen'
<1>1. CASE state # <<>>
  BY <1>1, FailStep DEF EndMain
<1>2. CASE state = <<>>
  <2> DEFINE x == [u |-> "nl"]
  <2>1. pc # "done" /\ pc' = "done" /\ out' = Append(out, x) /\ x \in Units /\ x.u = "nl"
    BY <1>2 DEF EndMain, Units
  <2> HIDE DEF x
  <2>2. PICK t : Trace(t, out)
    BY DEF Foreseen
  <2>3. out \in Seq(Units) /\ Right(t[Len(out)], x)
    BY <2>1 DEF Foreseen, Right
  <2>4. PICK w : Trace(w, out') /\ w[0] = Start
    BY <2>1, <2>2, <2>3, TraceMore
  <2>5. out' \in Seq(Units) /\ Synced(w)'
    BY <2>1, <2>3 DEF Synced
  <2> QED
    BY <2>1, <2>4, <2>5, WriteStep
<1> QED
  BY <1>1, <1>2

\* The other steps write nothing, or fail.
LEMMA OthersSilent ==
  ASSUME CppIInv, Foreseen, UNCHANGED lex,
         \/ GetLine \/ PopFile \/ Conditional \/ Include \/ Line \/ Reject \/ Text
         \/ Args \/ ArgsEnd
  PROVE  Foreseen'
<1>1. pc \notin {"done", "error"}
  BY DEF GetLine, PopFile, Conditional, Include, Line, Reject, Text, Args, ArgsEnd
<1>2. CASE pc' = "error"
  <2>1. Fail
    BY <1>2 DEF GetLine, PopFile, Conditional, Include, Line, Reject, Text, Args, ArgsEnd, Fail
  <2> QED
    BY <2>1, <1>1, FailStep
<1>3. CASE pc' # "error"
  <2>1. out' = out /\ line_no' = line_no
    BY <1>3 DEF GetLine, PopFile, Conditional, Include, Line, Reject, Text, Args, ArgsEnd, Fail
  <2>2. need_sync' \/ (Top'.path = Top.path /\ need_sync' = need_sync)
    <3>1. CASE GetLine \/ Args
      <4>1. PICK l \in Lines : ReadLine(l)
        BY <3>1 DEF GetLine, Args
      <4> QED
        BY <4>1, <3>1, Reading DEF CppIInv, GetLine, Args
    <3>2. CASE PopFile \/ Line
      BY <3>2 DEF PopFile, Line, SyncAfterPop
    <3>3. CASE Include
      BY <1>3, <3>3 DEF Include, Fail
    <3>4. CASE Conditional \/ Reject \/ Text \/ ArgsEnd
      BY <3>4 DEF Conditional, Reject, Text, ArgsEnd, Top
    <3> QED
      BY <3>1, <3>2, <3>3, <3>4
  <2> QED
    BY <2>1, <2>2, <1>1, SilentStep
<1> QED
  BY <1>2, <1>3

\* In those of the lexer the output is what it was.
LEMMA LexStep ==
  ASSUME Foreseen, pc = "done", NextLex,
         UNCHANGED <<input, state, list, pc, need_sync, line_no, nread, groups>>
  PROVE  Foreseen'
<1>1. PICK t : Trace(t, out) /\ Synced(t) /\ Follows(t)
  BY DEF Foreseen
<1>2. out' = out /\ pc' = "done" /\ Len(out) \in Nat /\ out \in Seq(Units)
  BY DEF NextLex, Newline, Marker, Hash, Token, Literal, Between, EndLiteral, EndMarker,
         EndOfFile, Foreseen
<1>3. Trace(t, out') /\ Synced(t)'
  BY <1>1, <1>2 DEF Synced
<1> DEFINE s == t[pos]
           x == out[pos + 1]
           k == IF lit = "path" THEN 1 ELSE 0
<1>4. verdict = "lexing"
  BY DEF NextLex, More, Newline, Marker, Hash, Token, Literal, Between, EndLiteral,
         EndMarker, EndOfFile
<1>5. /\ pos \in 0..Len(out) /\ ~s.lost /\ (bol => s.bol)
      /\ error_line_no = s.line + k /\ error_path \in {s.path, Joined}
  BY <1>1, <1>4 DEF Follows
<1>6. s \in LexRec /\ s.line \in Int
  <2>1. t \in [0..Len(out) -> LexRec]
    BY <1>1 DEF Trace
  <2> QED
    BY <2>1, <1>5 DEF LexRec
<1>7. ASSUME pos < Len(out), pos' = pos + 1
      PROVE  x \in Units /\ pos' \in 0..Len(out) /\ t[pos'] = After(s, x)
  <2>1. pos + 1 \in 1..Len(out) /\ (pos + 1) - 1 = pos
    BY <1>2, <1>5, <1>7
  <2> QED
    BY <2>1, <1>1, <1>2, <1>7 DEF Trace
<1> HIDE DEF s, x
<1>8. Follows(t)'
  <2>1. CASE Newline
    <3>1. /\ x.u = "nl" /\ pos < Len(out) /\ pos' = pos + 1 /\ lit = "none" /\ lit' = "none"
          /\ error_line_no' = error_line_no + 1 /\ error_path' = error_path
      BY <2>1 DEF Newline, More, Unit0, x
    <3>2. /\ t[pos'].bol /\ ~t[pos'].lost /\ t[pos'].line = s.line + 1 /\ t[pos'].path = s.path
      BY <3>1, <1>5, <1>6, <1>7, AfterNewline
    <3> QED
      BY <3>1, <3>2, <1>2, <1>5, <1>6, <1>7 DEF Follows
  <2>2. CASE Marker
    <3>1. x.u = "mark" /\ pos < Len(out) /\ pos' = pos + 1
      BY <2>2 DEF Marker, More, Unit0, x
    <3>2. CASE bol /\ ~x.path.quoted
      <4>1. /\ error_line_no' = x.line /\ error_path' = x.path
            /\ lit' = "path" /\ bol' = FALSE
        BY <2>2, <3>2 DEF Marker, Unit0, x
      <4>2. t[pos'] = [bol |-> FALSE, line |-> x.line - 1, path |-> x.path, lost |-> FALSE]
        BY <3>1, <3>2, <1>5, <1>6, <1>7, OneMark
      <4>3. x.line \in Int
        BY <3>1, <1>7 DEF Units
      <4>4. x.line = (x.line - 1) + 1
        BY <4>3
      <4> QED
        BY <3>1, <4>1, <4>2, <4>4, <1>2, <1>7 DEF Follows
    <3>3. CASE ~(bol /\ ~x.path.quoted)
      <4>1. verdict' = "malformed"
        BY <2>2, <3>3 DEF Marker, Malformed, Unit0, x
      <4> QED
        BY <4>1, <3>1, <1>2, <1>7 DEF Follows
    <3> QED
      BY <3>2, <3>3
  <2>3. CASE Hash
    <3>1. pos < Len(out) /\ pos' = pos + 1 /\ verdict' = "malformed"
      BY <2>3 DEF Hash, Malformed, More
    <3> QED
      BY <3>1, <1>2, <1>7 DEF Follows
  <2>4. CASE Token \/ Literal
    <3>1. /\ x.u \in {"text", "lit"} /\ pos < Len(out) /\ pos' = pos + 1 /\ bol' = FALSE
          /\ error_line_no' = error_line_no /\ error_path' \in {error_path, Joined}
          /\ lit' = "path" <=> lit = "path"
      BY <2>4 DEF Token, Literal, More, Unit0, x
    <3>2. ~t[pos'].lost /\ t[pos'].line = s.line /\ t[pos'].path = s.path
      BY <3>1, <1>5, <1>6, <1>7, AfterText
    <3> QED
      BY <3>1, <3>2, <1>2, <1>5, <1>7 DEF Follows
  <2>5. CASE Between
    <3>1. /\ x.u = "nl" /\ pos < Len(out) /\ pos' = pos + 1 /\ lit' = lit /\ bol' = bol
          /\ error_line_no' = error_line_no + 1 /\ error_path' = error_path
      BY <2>5 DEF Between, More, Unit0, x
    <3>2. t[pos'].bol /\ ~t[pos'].lost /\ t[pos'].line = s.line + 1 /\ t[pos'].path = s.path
      BY <3>1, <1>5, <1>6, <1>7, AfterNewline
    <3>3. error_line_no' = t[pos'].line + k
      BY <3>1, <3>2, <1>5, <1>6
    <3> QED
      BY <3>1, <3>2, <3>3, <1>2, <1>5, <1>7 DEF Follows
  <2>6. CASE EndLiteral
    <3>1. /\ pos' = pos /\ lit = "token" /\ lit' = "none" /\ bol' = bol
          /\ error_line_no' = error_line_no /\ error_path' = error_path
      BY <2>6 DEF EndLiteral
    <3> QED
      BY <3>1, <1>2, <1>5 DEF Follows, s
  <2>7. CASE EndMarker
    <3>1. CASE pos < Len(out) /\ x.u = "nl"
      <4>1. /\ pos' = pos + 1 /\ lit = "path" /\ lit' = "none"
            /\ error_line_no' = error_line_no /\ error_path' = error_path
        BY <2>7, <3>1 DEF EndMarker, Unit0, x
      <4>2. t[pos'].bol /\ ~t[pos'].lost /\ t[pos'].line = s.line + 1 /\ t[pos'].path = s.path
        BY <3>1, <4>1, <1>5, <1>6, <1>7, AfterNewline
      <4> QED
        BY <3>1, <4>1, <4>2, <1>2, <1>5, <1>6, <1>7 DEF Follows
    <3>2. CASE ~(pos < Len(out) /\ x.u = "nl")
      <4>1. pos' = pos /\ verdict' = "malformed"
        BY <2>7, <3>2 DEF EndMarker, Malformed, Unit0, x
      <4> QED
        BY <4>1, <1>2, <1>5 DEF Follows
    <3> QED
      BY <3>1, <3>2
  <2>8. CASE EndOfFile
    <3>1. pos' = pos /\ verdict' = "ok"
      BY <2>8 DEF EndOfFile
    <3> QED
      BY <3>1, <1>2, <1>5 DEF Follows
  <2> QED
    BY <2>1, <2>2, <2>3, <2>4, <2>5, <2>6, <2>7, <2>8 DEF NextLex
<1> QED
  BY <1>2, <1>3, <1>8 DEF Foreseen

LEMMA InitForeseen == InitBoth => Foreseen
<1> SUFFICES ASSUME InitBoth PROVE Foreseen
  OBVIOUS
<1> DEFINE x == [u |-> "mark", path |-> Plain(Main), line |-> 1]
           nl == [u |-> "nl"]
           t == [i \in 0..0 |-> Start]
<1>1. /\ x \in Units /\ x.u = "mark" /\ x.line = 1 /\ x.path = Plain(Main)
      /\ nl \in Units /\ nl.u = "nl"
  BY DEF Units, Paths
<1>2. out = <<x, nl>> /\ Top.path = Plain(Main) /\ line_no = 1
  BY DEF InitBoth, Init, Top
<1> HIDE DEF x, nl
<1>3. Start \in LexRec
  BY DEF Start, LexRec
<1>4. Trace(t, <<>>) /\ t[0] = Start
  BY <1>3 DEF Trace
<1> HIDE DEF t
<1> DEFINE e == <<>>
           a == Append(e, x)
           b == Append(a, nl)
<1>5. /\ e \in Seq(Units) /\ Len(e) = 0 /\ a \in Seq(Units) /\ Len(a) = 1
      /\ b \in Seq(Units) /\ Len(b) = 2 /\ out = b
  BY <1>1, <1>2
<1>6. Trace(t, e)
  BY <1>4
<1> HIDE DEF e, a, b
<1>7. PICK v : Trace(v, a) /\ v[0 + 1] = After(Start, x)
  <2>1. Right(t[0], x)
    BY <1>1 DEF Right
  <2>2. t[Len(e)] = Start /\ x \in Units
    BY <1>1, <1>4, <1>5
  <2>3. \E v : /\ Trace(v, Append(e, x)) /\ v[0] = Start
               /\ v[Len(e) + 1] = After(t[Len(e)], x)
    BY ONLY <2>1, <2>2, <1>4, <1>5, <1>6, TraceMore
  <2> QED
    BY ONLY <2>2, <2>3, <1>5 DEF a
<1>8. PICK w : Trace(w, b) /\ w[0] = Start /\ w[1 + 1] = After(v[1], nl)
  <2>1. Right(v[1], nl)
    BY <1>1 DEF Right
  <2> QED
    BY <2>1, <1>1, <1>5, <1>7, TraceMore DEF b
<1>9. v[1] \in LexRec /\ v[1] = After(Start, x) /\ w[2] = After(v[1], nl)
  <2>1. 1 \in 0..Len(a)
    BY <1>5
  <2> QED
    BY <2>1, <1>7, <1>8 DEF Trace
<1>10. ASSUME ~w[2].lost
       PROVE  w[2].line = 1 /\ w[2].path = Plain(Main)
  <2>1. ~v[1].lost
    BY <1>1, <1>9, <1>10 DEF After
  <2>2. v[1].line = 1 - 1 /\ v[1].path = Plain(Main)
    BY <2>1, <1>1, <1>3, <1>9, AfterMark
  <2> QED
    BY <2>1, <2>2, <1>1, <1>9, AfterNewline
<1>11. Synced(w)
  BY <1>2, <1>5, <1>10 DEF Synced
<1>12. Follows(w)
  BY <1>5, <1>8 DEF Follows, InitBoth, InitLex, Init, Start
<1> QED
  BY <1>5, <1>8, <1>11, <1>12 DEF Foreseen

LEMMA ForeseenStep ==
  ASSUME CppIInv, Foreseen, [NextBoth]_allvars
  PROVE  Foreseen'
<1>1. CASE Next /\ UNCHANGED lex
  BY <1>1, EmitWrites, AheadWrites, EndMainWrites, OthersSilent DEF Next
<1>2. CASE /\ pc = "done" /\ NextLex
           /\ UNCHANGED <<input, state, list, pc, need_sync, line_no, nread, groups>>
  BY <1>2, LexStep
<1>3. CASE UNCHANGED allvars
  <2>1. UNCHANGED <<input, state, list, pc, need_sync, line_no, out, nread, groups,
                    pos, bol, lit, error_line_no, error_path, verdict>>
    BY <1>3 DEF allvars, vars, lex
  <2> QED
    BY <2>1 DEF Foreseen, Synced, Follows, Top
<1> QED
  BY <1>1, <1>2, <1>3 DEF NextBoth

\* For every text, and however its lines are spread over files, #include, #line,
\* groups that are skipped and macro calls: each token that lex() gets to is
\* reported on the line where cpp read it, and in its file unless strlit() has
\* joined the path of the marker with a literal after it.
THEOREM LinesRight == SpecBoth => []Located
<1>1. InitBoth => IInv
  BY InitCpp, InitForeseen DEF InitBoth, IInv
<1>2. IInv /\ [NextBoth]_allvars => IInv'
  <2>1. CppIInv /\ [NextBoth]_allvars => CppIInv'
    BY CppStep
  <2> QED
    BY <2>1, ForeseenStep DEF IInv
<1>3. IInv => Located
  <2> SUFFICES ASSUME IInv, More, Unit0.u \in {"text", "lit"}, lit # "path"
               PROVE  error_line_no = Unit0.line /\ error_path \in {Unit0.path, Joined}
    BY DEF Located
  <2>1. PICK t : Trace(t, out) /\ Follows(t)
    BY DEF IInv, Foreseen
  <2>2. /\ pos \in 0..Len(out) /\ pos < Len(out) /\ Len(out) \in Nat
        /\ ~t[pos].lost /\ error_line_no = t[pos].line + 0
        /\ error_path \in {t[pos].path, Joined}
    BY <2>1 DEF Follows, More, IInv, Foreseen
  <2>3. pos + 1 \in 1..Len(out) /\ (pos + 1) - 1 = pos
    BY <2>2
  <2>4. Right(t[pos], out[pos + 1])
    BY <2>1, <2>3 DEF Trace
  <2>5. t[pos].line \in Int
    BY <2>1, <2>2 DEF Trace, LexRec
  <2> QED
    BY <2>2, <2>4, <2>5 DEF Right, Unit0
<1> QED
  BY <1>1, <1>2, <1>3, PTL DEF SpecBoth
=============================================================================
