----------------------------- MODULE DeadProofs -----------------------------
(***************************************************************************)
(* The live ranges of a block and dead store elimination, for every block  *)
(* and every set of registers.                                             *)
(*                                                                         *)
(* The analysis: live_use() and live_def() turn the true ranges of the     *)
(* part of the block that has been scanned into those of one instruction   *)
(* more (AddReads, AddWrites), so that each phase leaves the true ranges   *)
(* of what it has seen (RInv).                                             *)
(*                                                                         *)
(* dead(): the ranges go stale as instructions are killed.  What remains   *)
(* true of them (Stale) is that each covers a true range and says that it  *)
(* is dead only when nothing reads it, and, until live_kill_insn() gives   *)
(* up, that each ends at a true use.  The first is why no useful           *)
(* instruction is killed, the second why no useless one is left.           *)
(***************************************************************************)
EXTENDS Dead, FiniteSetTheorems, TLAPS

-----------------------------------------------------------------------------
\* Numbers.

\* A set of numbers up to n has a greatest one.
LEMMA Greatest ==
  ASSUME NEW n \in Nat, NEW S \in SUBSET (0..n), S # {}
  PROVE  \E x \in S : \A y \in S : y <= x
<1> DEFINE U == 0..n
           T == {k..n : k \in S}
<1>1. IsFiniteSet(U)
  BY FS_Interval
<1>2. IsWellFoundedOn(StrictSubsetOrdering(U), SUBSET U)
  BY <1>1, FS_StrictSubsetOrderingWellFounded, FS_FiniteSubsetsOfFinite, Zenon
<1>3. T \subseteq SUBSET U /\ T # {}
  <2>1. \A k \in S : k..n \in T /\ k..n \subseteq U
    OBVIOUS
  <2> QED
    BY <2>1
<1>4. PICK t \in T : \A s \in T : <<s, t>> \notin StrictSubsetOrdering(U)
  <2> HIDE DEF T, U
  <2> QED
    BY <1>2, <1>3, WFMin, Zenon
<1>5. PICK x \in S : t = x..n
  OBVIOUS
<1>6. ASSUME NEW y \in S, y > x
      PROVE  FALSE
  <2>1. x \in 0..n /\ y \in 0..n /\ y..n \in T
    OBVIOUS
  <2>2. y..n \subseteq x..n /\ x \in x..n /\ x \notin y..n
    BY <2>1, <1>6
  <2>3. y..n # x..n
    BY <2>2
  <2>4. y..n \in SUBSET U /\ x..n \in SUBSET U
    BY <2>1
  <2>5. <<y..n, x..n>> \in StrictSubsetOrdering(U)
    BY <2>2, <2>3, <2>4 DEF StrictSubsetOrdering
  <2> QED
    BY <2>1, <2>5, <1>4, <1>5
<1> QED
  BY <1>6

LEMMA MaxIs ==
  ASSUME NEW S \in SUBSET Places, S # {}
  PROVE  Max(S) \in S /\ \A y \in S : y <= Max(S)
<1>1. AFTER \in Nat
  BY LenAssumption DEF AFTER
<1>2. PICK x \in S : \A y \in S : y <= x
  BY <1>1, Greatest DEF Places
<1>3. \A y \in S : x >= y
  BY <1>1, <1>2 DEF Places
<1>4. Max(S) \in S /\ \A y \in S : Max(S) >= y
  BY <1>3 DEF Max
<1> QED
  BY <1>1, <1>4 DEF Places

\* There is only one number that a new greatest element can be.
LEMMA MaxNew ==
  ASSUME NEW S \in SUBSET Places, NEW u \in Places, \A y \in S : y < u
  PROVE  Max(S \cup {u}) = u
<1> DEFINE T == S \cup {u}
           m == Max(T)
<1>1. T \in SUBSET Places /\ T # {} /\ u \in T
  OBVIOUS
<1>2. m \in T /\ u <= m
  BY <1>1, MaxIs
<1>3. AFTER \in Nat
  BY LenAssumption DEF AFTER
<1>4. m \in Int /\ u \in Int /\ (m # u => m < u)
  <2>1. m \in Places
    BY <1>1, <1>2
  <2>2. m # u => m < u
    BY <1>2
  <2> HIDE DEF m
  <2> QED
    BY <2>1, <2>2, <1>3 DEF Places
<1> HIDE DEF m
<1>5. m = u
  BY <1>2, <1>4
<1> QED
  BY <1>5 DEF m

LEMMA PlacesFinite ==
  ASSUME NEW S \in SUBSET Places
  PROVE  IsFiniteSet(S) /\ Cardinality(S) \in Nat
<1>1. AFTER \in Nat /\ 0 \in Int /\ AFTER \in Int
  BY LenAssumption DEF AFTER
<1>2. IsFiniteSet(Places)
  BY <1>1, FS_Interval DEF Places
<1> QED
  BY <1>2, FS_Subset, FS_CardinalityType

-----------------------------------------------------------------------------
\* The true ranges, as readers and writers are added to a block from its beginning.

LEMMA ReachType ==
  ASSUME NEW rs \in SUBSET Places, NEW ws, NEW d
  PROVE  Reach(rs, ws, d) \in SUBSET Places /\ Reach(rs, ws, d) \subseteq rs
BY DEF Reach

\* A reader behind everything is reached by the last write only.
LEMMA ReachReader ==
  ASSUME NEW rs \in SUBSET Places, NEW ws \in SUBSET Places, NEW u \in Places,
         \A y \in rs : y < u, \A y \in ws : y < u, NEW d \in Places, d < u
  PROVE  /\ \A k \in ws : d < k => Reach(rs \cup {u}, ws, d) = Reach(rs, ws, d)
         /\ (\A k \in ws : ~(d < k)) => Reach(rs \cup {u}, ws, d) = Reach(rs, ws, d) \cup {u}
BY DEF Reach

\* A writer behind every reader disturbs none.
LEMMA ReachWriter ==
  ASSUME NEW rs \in SUBSET Places, NEW ws \in SUBSET Places, NEW i \in Places,
         \A y \in rs : ~(i < y), NEW d \in Places
  PROVE  /\ Reach(rs, ws \cup {i}, d) = Reach(rs, ws, d)
         /\ Reach(rs, ws \cup {i}, i) = {}
<1>1. AFTER \in Nat
  BY LenAssumption DEF AFTER
<1>2. ASSUME NEW u \in rs
      PROVE  /\ ~(d < i /\ i < u)
             /\ ~(i < u)
  BY <1>1 DEF Places
<1> QED
  BY <1>2 DEF Reach

LEMMA RangeFields ==
  ASSUME NEW r, NEW rs, NEW ws, NEW d
  PROVE  RangeOf(r, rs, ws, d).reg = r /\ RangeOf(r, rs, ws, d).def = d
BY DEF RangeOf

LEMMA RangeType ==
  ASSUME NEW r, NEW rs \in SUBSET Places, NEW ws, NEW d \in Places
  PROVE  LET x == RangeOf(r, rs, ws, d)
         IN  /\ x.reg = r /\ x.def = d /\ x.uses \in Nat /\ x.last \in Places
             /\ x.uses = Cardinality(Reach(rs, ws, d))
             /\ Reach(rs, ws, d) = {} => x.last = d /\ x.uses = 0
             /\ Reach(rs, ws, d) # {} =>
                  /\ x.last \in Reach(rs, ws, d) /\ x.uses # 0
                  /\ \A u \in Reach(rs, ws, d) : u <= x.last
<1> DEFINE us == Reach(rs, ws, d)
<1>1. us \in SUBSET Places
  BY ReachType
<1>2. IsFiniteSet(us) /\ Cardinality(us) \in Nat /\ (Cardinality(us) = 0 <=> us = {})
  BY <1>1, PlacesFinite, FS_EmptySet
<1> HIDE DEF us
<1>3. RangeOf(r, rs, ws, d)
        = [reg |-> r, def |-> d, uses |-> Cardinality(us), last |-> IF us = {} THEN d ELSE Max(us)]
  BY DEF RangeOf, us
<1>4. us # {} => Max(us) \in us /\ \A u \in us : u <= Max(us)
  BY <1>1, MaxIs
<1> QED
  BY <1>1, <1>2, <1>3, <1>4 DEF us

\* A later writer hides the reader from a range.
LEMMA RangePassed ==
  ASSUME NEW r, NEW rs \in SUBSET Places, NEW ws \in SUBSET Places, NEW u \in Places,
         \A y \in rs : y < u, \A y \in ws : y < u, NEW d \in Places, d < u,
         NEW k \in ws, d < k
  PROVE  RangeOf(r, rs \cup {u}, ws, d) = RangeOf(r, rs, ws, d)
<1>1. Reach(rs \cup {u}, ws, d) = Reach(rs, ws, d)
  BY ReachReader
<1> QED
  BY <1>1 DEF RangeOf

\* What live_use() does to a range is what a reader more means.
LEMMA RangeReader ==
  ASSUME NEW r, NEW rs \in SUBSET Places, NEW ws \in SUBSET Places, NEW u \in Places,
         \A y \in rs : y < u, \A y \in ws : y < u, NEW d \in Places, d < u,
         \A k \in ws : ~(d < k)
  PROVE  RangeOf(r, rs \cup {u}, ws, d)
           = [reg |-> r, def |-> d, uses |-> RangeOf(r, rs, ws, d).uses + 1, last |-> u]
<1> DEFINE us == Reach(rs, ws, d)
           vs == Reach(rs \cup {u}, ws, d)
<1>1. us \in SUBSET Places /\ us \subseteq rs
  BY ReachType
<1>2. vs = us \cup {u}
  BY ReachReader
<1>3. u \notin us /\ \A y \in us : y < u
  BY <1>1, LenAssumption DEF Places, AFTER
<1>4. Cardinality(vs) = Cardinality(us) + 1 /\ Max(vs) = u /\ vs # {}
  <2> HIDE DEF us, vs
  <2>1. IsFiniteSet(us)
    BY <1>1, PlacesFinite
  <2>2. Cardinality(us \cup {u}) = Cardinality(us) + 1
    BY <1>3, <2>1, FS_AddElement
  <2>3. Max(us \cup {u}) = u
    BY <1>1, <1>3, MaxNew
  <2> QED
    BY <1>2, <2>2, <2>3
<1> HIDE DEF us, vs
<1>5. RangeOf(r, rs, ws, d)
      = [reg |-> r, def |-> d, uses |-> Cardinality(us), last |-> IF us = {} THEN d ELSE Max(us)]
  BY DEF RangeOf, us
<1>6. RangeOf(r, rs \cup {u}, ws, d)
      = [reg |-> r, def |-> d, uses |-> Cardinality(vs), last |-> IF vs = {} THEN d ELSE Max(vs)]
  BY DEF RangeOf, vs
<1> QED
  BY <1>4, <1>5, <1>6

-----------------------------------------------------------------------------
\* The list of ranges.

\* Readers and writers of every register.
PlacesOf == [Reg -> SUBSET Places]

LEMMA BeginsType ==
  ASSUME NEW rs, NEW ws \in SUBSET Places
  PROVE  /\ Begins(rs, ws) \in SUBSET Places /\ ws \subseteq Begins(rs, ws)
         /\ \A d \in Begins(rs, ws) : d \in ws \/ (d = BEFORE /\ Reach(rs, ws, d) # {})
         /\ Reach(rs, ws, BEFORE) # {} => BEFORE \in Begins(rs, ws)
<1>1. BEFORE \in Places
  BY LenAssumption DEF BEFORE, Places, AFTER
<1> QED
  BY <1>1 DEF Begins

LEMMA InRanges ==
  ASSUME NEW rd \in PlacesOf, NEW wr \in PlacesOf, NEW x
  PROVE  x \in RangesOf(rd, wr) <=>
           \E r \in Reg : \E d \in Begins(rd[r], wr[r]) : x = RangeOf(r, rd[r], wr[r], d)
BY DEF RangesOf

\* A range in the list is that of its register and its beginning.
LEMMA RangeOfItself ==
  ASSUME NEW rd \in PlacesOf, NEW wr \in PlacesOf, NEW x \in RangesOf(rd, wr)
  PROVE  /\ x.reg \in Reg /\ x.def \in Begins(rd[x.reg], wr[x.reg]) /\ x.def \in Places
         /\ x = RangeOf(x.reg, rd[x.reg], wr[x.reg], x.def)
<1>1. PICK r \in Reg : \E d \in Begins(rd[r], wr[r]) : x = RangeOf(r, rd[r], wr[r], d)
  BY InRanges
<1>2. PICK d \in Begins(rd[r], wr[r]) : x = RangeOf(r, rd[r], wr[r], d)
  BY <1>1
<1>3. rd[r] \in SUBSET Places /\ wr[r] \in SUBSET Places
  BY DEF PlacesOf
<1>4. d \in Places
  BY <1>3, BeginsType
<1>5. x.reg = r /\ x.def = d
  BY <1>2, RangeFields
<1> QED
  BY <1>2, <1>4, <1>5

LEMMA RangeInList ==
  ASSUME NEW rd \in PlacesOf, NEW wr \in PlacesOf, NEW r \in Reg,
         NEW d \in Begins(rd[r], wr[r])
  PROVE  /\ RangeOf(r, rd[r], wr[r], d) \in RangesOf(rd, wr)
         /\ RangeOf(r, rd[r], wr[r], d).reg = r /\ RangeOf(r, rd[r], wr[r], d).def = d
BY InRanges, RangeFields

\* What live_use() finds: the range that begins last, if there is one at all.
LEMMA MatchIs ==
  ASSUME NEW rd \in PlacesOf, NEW wr \in PlacesOf, NEW r \in Reg, NEW u \in Places,
         u # BEFORE, \A y \in wr[r] : y < u
  PROVE  LET B == Begins(rd[r], wr[r])
             M == Match(RangesOf(rd, wr), r, u)
         IN  /\ B = {} => M = {}
             /\ B # {} => \E m \in B : /\ \A d \in B : d <= m
                                       /\ M = {RangeOf(r, rd[r], wr[r], m)}
<1> DEFINE B == Begins(rd[r], wr[r])
           R == RangesOf(rd, wr)
           M == Match(R, r, u)
<1>1. rd[r] \in SUBSET Places /\ wr[r] \in SUBSET Places /\ B \in SUBSET Places
  BY BeginsType DEF PlacesOf
<1>2. AFTER \in Nat
  BY LenAssumption DEF AFTER
<1>3. \A d \in B : d < u
  BY <1>1, <1>2, BeginsType DEF Places, BEFORE
<1>4. \A x \in R : x.reg = r => x.def \in B /\ x = RangeOf(r, rd[r], wr[r], x.def)
  BY RangeOfItself
<1>5. \A d \in B : /\ RangeOf(r, rd[r], wr[r], d) \in R
                   /\ RangeOf(r, rd[r], wr[r], d).reg = r
                   /\ RangeOf(r, rd[r], wr[r], d).def = d
  BY RangeInList
<1> HIDE DEF B, R
<1>6. CASE B = {}
  BY <1>4, <1>6 DEF Match, B, R
<1>7. ASSUME B # {}
      PROVE  \E m \in B : (\A d \in B : d <= m) /\ M = {RangeOf(r, rd[r], wr[r], m)}
  <2>1. PICK m \in B : \A d \in B : d <= m
    BY <1>1, <1>2, <1>7, Greatest DEF Places
  <2> DEFINE x == RangeOf(r, rd[r], wr[r], m)
  <2>2. x \in R /\ x.reg = r /\ x.def = m /\ m < u
    BY <1>3, <1>5
  <2>3. x \in M
    BY <1>4, <2>1, <2>2 DEF Match
  <2>4. ASSUME NEW y \in M
        PROVE  y = x
    <3>1. y \in R /\ y.reg = r /\ x.def <= y.def
      BY <2>2, <2>4 DEF Match
    <3>2. y.def \in B /\ y.def <= m /\ m <= y.def
      BY <1>4, <2>1, <2>2, <3>1
    <3>3. y.def = m
      <4>1. y.def \in Places /\ m \in Places
        BY <1>1, <2>1, <3>2, Zenon
      <4>2. \A j, k \in Places : j <= k /\ k <= j => j = k
        BY <1>2 DEF Places
      <4> QED
        BY <3>2, <4>1, <4>2, Zenon
    <3> QED
      BY <1>4, <3>1, <3>3
  <2> QED
    BY <2>1, <2>3, <2>4
<1> QED
  BY <1>6, <1>7 DEF B, R

\* What a reader behind everything means for the ranges of one register.
LEMMA FirstReader ==
  ASSUME NEW r, NEW rs \in SUBSET Places, NEW ws \in SUBSET Places, NEW u \in Places,
         u # BEFORE, \A y \in rs : y < u, \A y \in ws : y < u, Begins(rs, ws) = {}
  PROVE  /\ Begins(rs \cup {u}, ws) = {BEFORE}
         /\ RangeOf(r, rs \cup {u}, ws, BEFORE) = [reg |-> r, def |-> BEFORE, last |-> u, uses |-> 1]
<1>1. BEFORE \in Places /\ BEFORE < u /\ BEFORE \in Nat
  BY LenAssumption DEF BEFORE, Places, AFTER
<1>2. ws = {} /\ Reach(rs, ws, BEFORE) = {}
  BY BeginsType
<1>3. Reach(rs \cup {u}, ws, BEFORE) = Reach(rs, ws, BEFORE) \cup {u}
  BY <1>1, <1>2, ReachReader
<1>4. Begins(rs \cup {u}, ws) = {BEFORE}
  BY <1>2, <1>3 DEF Begins
<1>5. RangeOf(r, rs, ws, BEFORE).uses = 0
  BY <1>1, <1>2, RangeType
<1>6. RangeOf(r, rs \cup {u}, ws, BEFORE)
        = [reg |-> r, def |-> BEFORE, uses |-> RangeOf(r, rs, ws, BEFORE).uses + 1, last |-> u]
  BY <1>1, <1>2, RangeReader
<1> QED
  BY <1>4, <1>5, <1>6

LEMMA NextReader ==
  ASSUME NEW r, NEW rs \in SUBSET Places, NEW ws \in SUBSET Places, NEW u \in Places,
         u # BEFORE, \A y \in rs : y < u, \A y \in ws : y < u,
         NEW m \in Begins(rs, ws), \A d \in Begins(rs, ws) : d <= m
  PROVE  /\ Begins(rs \cup {u}, ws) = Begins(rs, ws)
         /\ RangeOf(r, rs \cup {u}, ws, m) = Ending(RangeOf(r, rs, ws, m), u, RangeOf(r, rs, ws, m).uses + 1)
         /\ \A d \in Begins(rs, ws) \ {m} :
              RangeOf(r, rs \cup {u}, ws, d) = RangeOf(r, rs, ws, d)
<1> DEFINE B == Begins(rs, ws)
<1>1. BEFORE \in Places /\ BEFORE < u /\ BEFORE \in Nat /\ \A p \in Places : p \in Nat /\ BEFORE <= p
  BY LenAssumption DEF BEFORE, Places, AFTER
<1>2. /\ B \in SUBSET Places /\ ws \subseteq B
      /\ \A d \in B : d \in ws \/ (d = BEFORE /\ Reach(rs, ws, d) # {})
      /\ Reach(rs, ws, BEFORE) # {} => BEFORE \in B
  BY BeginsType
<1>3. /\ Begins(rs \cup {u}, ws) \in SUBSET Places /\ ws \subseteq Begins(rs \cup {u}, ws)
      /\ \A d \in Begins(rs \cup {u}, ws) : d \in ws \/ (d = BEFORE /\ Reach(rs \cup {u}, ws, d) # {})
      /\ Reach(rs \cup {u}, ws, BEFORE) # {} => BEFORE \in Begins(rs \cup {u}, ws)
  BY BeginsType
<1>4. m \in Places /\ m < u /\ m \in Nat
  BY <1>1, <1>2
<1> HIDE DEF B
<1>5. ASSUME BEFORE \notin B
      PROVE  Reach(rs \cup {u}, ws, BEFORE) = {}
  <2>1. m \in ws /\ BEFORE < m
    BY <1>1, <1>2, <1>4, <1>5 DEF B
  <2>2. \A k \in ws : BEFORE < k => Reach(rs \cup {u}, ws, BEFORE) = Reach(rs, ws, BEFORE)
    BY <1>1, ReachReader, SMTT(30)
  <2>3. Reach(rs \cup {u}, ws, BEFORE) = Reach(rs, ws, BEFORE)
    BY <2>1, <2>2, Zenon
  <2> QED
    BY <1>2, <1>5, <2>3
<1>6. ASSUME Reach(rs, ws, BEFORE) # {}
      PROVE  Reach(rs \cup {u}, ws, BEFORE) # {}
  BY <1>6 DEF Reach
<1>7. Begins(rs \cup {u}, ws) = B
  BY <1>2, <1>3, <1>5, <1>6
<1>8. RangeOf(r, rs \cup {u}, ws, m) = Ending(RangeOf(r, rs, ws, m), u, RangeOf(r, rs, ws, m).uses + 1)
  <2>1. \A k \in ws : ~(m < k)
    BY <1>1, <1>2, <1>4 DEF B
  <2> QED
    BY <1>4, <2>1, RangeReader, RangeFields DEF Ending
<1>9. ASSUME NEW d \in B, d # m
      PROVE  RangeOf(r, rs \cup {u}, ws, d) = RangeOf(r, rs, ws, d)
  <2>1. d < m /\ d < u /\ d \in Places
    BY <1>1, <1>2, <1>4, <1>9 DEF B
  <2>2. m \in ws
    BY <1>1, <1>2, <1>4, <2>1 DEF B
  <2> QED
    BY <2>1, <2>2, RangePassed
<1> QED
  BY <1>7, <1>8, <1>9 DEF B

\* live_use() adds readers behind everything to the ranges.
WithReader(rd, regs, u) == [r \in Reg |-> IF r \in regs THEN rd[r] \cup {u} ELSE rd[r]]

LEMMA AddReads ==
  ASSUME NEW rd \in PlacesOf, NEW wr \in PlacesOf, NEW regs \in SUBSET Reg,
         NEW u \in Places, u # BEFORE,
         \A r \in Reg : \A y \in rd[r] : y < u,
         \A r \in Reg : \A y \in wr[r] : y < u
  PROVE  /\ WithReader(rd, regs, u) \in PlacesOf
         /\ LiveUse(RangesOf(rd, wr), regs, u) = RangesOf(WithReader(rd, regs, u), wr)
<1> DEFINE rd2 == WithReader(rd, regs, u)
           R == RangesOf(rd, wr)
           S == RangesOf(rd2, wr)
           T == LiveUse(R, regs, u)
           B(r) == Begins(rd[r], wr[r])
           M(r) == Match(R, r, u)
<1>1. \A r \in Reg : rd[r] \in SUBSET Places /\ wr[r] \in SUBSET Places
  BY DEF PlacesOf
<1>2. /\ \A r \in regs : rd2[r] = rd[r] \cup {u}
      /\ \A r \in Reg \ regs : rd2[r] = rd[r]
  BY DEF WithReader
<1>3. rd2 \in PlacesOf
  BY <1>1 DEF WithReader, PlacesOf
<1>4. ASSUME NEW r \in regs, B(r) = {}
      PROVE  /\ M(r) = {}
             /\ Begins(rd2[r], wr[r]) = {BEFORE}
             /\ RangeOf(r, rd2[r], wr[r], BEFORE) = [reg |-> r, def |-> BEFORE, last |-> u, uses |-> 1]
  <2>1. M(r) = {}
    BY <1>4, MatchIs
  <2>2. /\ Begins(rd[r] \cup {u}, wr[r]) = {BEFORE}
        /\ RangeOf(r, rd[r] \cup {u}, wr[r], BEFORE) = [reg |-> r, def |-> BEFORE, last |-> u, uses |-> 1]
    BY <1>1, <1>4, FirstReader
  <2> HIDE DEF rd2, M
  <2> QED
    BY <1>2, <2>1, <2>2, Zenon
<1>5. ASSUME NEW r \in regs, B(r) # {}
      PROVE  \E m \in B(r) :
               /\ M(r) = {RangeOf(r, rd[r], wr[r], m)}
               /\ Begins(rd2[r], wr[r]) = B(r)
               /\ RangeOf(r, rd2[r], wr[r], m)
                     = Ending(RangeOf(r, rd[r], wr[r], m), u, RangeOf(r, rd[r], wr[r], m).uses + 1)
               /\ \A d \in B(r) \ {m} : RangeOf(r, rd2[r], wr[r], d) = RangeOf(r, rd[r], wr[r], d)
  <2>1. PICK m \in B(r) : (\A d \in B(r) : d <= m) /\ M(r) = {RangeOf(r, rd[r], wr[r], m)}
    BY <1>5, MatchIs, SMTT(30)
  <2>2. /\ Begins(rd[r] \cup {u}, wr[r]) = Begins(rd[r], wr[r])
        /\ RangeOf(r, rd[r] \cup {u}, wr[r], m)
              = Ending(RangeOf(r, rd[r], wr[r], m), u, RangeOf(r, rd[r], wr[r], m).uses + 1)
        /\ \A d \in Begins(rd[r], wr[r]) \ {m} :
             RangeOf(r, rd[r] \cup {u}, wr[r], d) = RangeOf(r, rd[r], wr[r], d)
    <3>1. /\ rd[r] \in SUBSET Places /\ wr[r] \in SUBSET Places
          /\ (\A y \in rd[r] : y < u) /\ (\A y \in wr[r] : y < u)
          /\ m \in Begins(rd[r], wr[r]) /\ \A d \in Begins(rd[r], wr[r]) : d <= m
      BY <1>1, <2>1
    <3> HIDE DEF M, B
    <3> QED
      BY <3>1, NextReader, ZenonT(40)
  <2>3. rd2[r] = rd[r] \cup {u}
    BY <1>2
  <2> HIDE DEF rd2, M
  <2> QED
    BY <2>1, <2>2, <2>3, Zenon
<1>6. \A r \in Reg : \A x \in M(r) : x \in R /\ x.reg = r
  BY DEF Match
<1>7. \A x \in R : /\ x.reg \in Reg /\ x.def \in B(x.reg)
                   /\ x = RangeOf(x.reg, rd[x.reg], wr[x.reg], x.def)
  BY RangeOfItself
<1>8. \A r \in Reg : \A d \in B(r) : /\ RangeOf(r, rd[r], wr[r], d) \in R
                                     /\ RangeOf(r, rd[r], wr[r], d).reg = r
                                     /\ RangeOf(r, rd[r], wr[r], d).def = d
  BY RangeInList
<1>9. \A x : x \in S <=>
           \E r \in Reg : \E d \in Begins(rd2[r], wr[r]) : x = RangeOf(r, rd2[r], wr[r], d)
  BY <1>3, InRanges
<1>10. \A x : x \in T <=>
         \/ x \in R /\ \A r \in regs : x \notin M(r)
         \/ \E r \in regs : \E y \in M(r) : x = Ending(y, u, y.uses + 1)
         \/ \E r \in regs : M(r) = {} /\ x = [reg |-> r, def |-> BEFORE, last |-> u, uses |-> 1]
  BY DEF LiveUse
<1> HIDE DEF rd2, R, S, T, M
<1>11. ASSUME NEW x \in S
       PROVE  x \in T
  <2>1. PICK r \in Reg : \E d \in Begins(rd2[r], wr[r]) : x = RangeOf(r, rd2[r], wr[r], d)
    BY <1>9
  <2>2. PICK d \in Begins(rd2[r], wr[r]) : x = RangeOf(r, rd2[r], wr[r], d)
    BY <2>1
  <2>3. CASE r \notin regs
    <3>1. x \in R /\ x.reg = r
      BY <1>2, <1>8, <2>2, <2>3
    <3> QED
      BY <1>6, <1>10, <2>3, <3>1
  <2>4. CASE r \in regs /\ B(r) = {}
    <3>1. /\ M(r) = {}
          /\ Begins(rd2[r], wr[r]) = {BEFORE}
          /\ RangeOf(r, rd2[r], wr[r], BEFORE) = [reg |-> r, def |-> BEFORE, last |-> u, uses |-> 1]
      BY <1>4, <2>4
    <3>2. x = [reg |-> r, def |-> BEFORE, last |-> u, uses |-> 1]
      BY <2>2, <3>1
    <3> QED
      BY <1>10, <2>4, <3>1, <3>2
  <2>5. CASE r \in regs /\ B(r) # {}
    <3>1. PICK m \in B(r) :
               /\ M(r) = {RangeOf(r, rd[r], wr[r], m)}
               /\ Begins(rd2[r], wr[r]) = B(r)
               /\ RangeOf(r, rd2[r], wr[r], m)
                     = Ending(RangeOf(r, rd[r], wr[r], m), u, RangeOf(r, rd[r], wr[r], m).uses + 1)
               /\ \A e \in B(r) \ {m} : RangeOf(r, rd2[r], wr[r], e) = RangeOf(r, rd[r], wr[r], e)
      BY <1>5, <2>5
    <3>2. CASE d = m
      BY <1>10, <2>2, <2>5, <3>1, <3>2
    <3>3. CASE d # m
      <4>1. x = RangeOf(r, rd[r], wr[r], d) /\ d \in B(r)
        BY <2>2, <3>1, <3>3
      <4>2. x \in R /\ x.reg = r /\ x.def = d /\ x \notin M(r)
        BY <1>8, <3>1, <3>3, <4>1
      <4> QED
        BY <1>6, <1>10, <4>2
    <3> QED
      BY <3>2, <3>3
  <2> QED
    BY <2>3, <2>4, <2>5
<1>12. ASSUME NEW x \in T
       PROVE  x \in S
  <2>1. CASE x \in R /\ \A r \in regs : x \notin M(r)
    <3> DEFINE r == x.reg
    <3>1. r \in Reg /\ x.def \in B(r) /\ x = RangeOf(r, rd[r], wr[r], x.def)
      BY <1>7, <2>1
    <3>2. CASE r \notin regs
      BY <1>2, <1>9, <3>1, <3>2
    <3>3. CASE r \in regs
      <4>1. PICK m \in B(r) :
                 /\ M(r) = {RangeOf(r, rd[r], wr[r], m)}
                 /\ Begins(rd2[r], wr[r]) = B(r)
                 /\ \A e \in B(r) \ {m} : RangeOf(r, rd2[r], wr[r], e) = RangeOf(r, rd[r], wr[r], e)
        BY <1>5, <3>1, <3>3
      <4>2. x.def # m
        BY <2>1, <3>1, <3>3, <4>1
      <4> QED
        BY <1>9, <3>1, <4>1, <4>2
    <3> QED
      BY <3>2, <3>3
  <2>2. ASSUME NEW r \in regs, NEW y \in M(r), x = Ending(y, u, y.uses + 1)
        PROVE  x \in S
    <3>1. B(r) # {}
      BY <1>4, <2>2
    <3>2. PICK m \in B(r) :
               /\ M(r) = {RangeOf(r, rd[r], wr[r], m)}
               /\ Begins(rd2[r], wr[r]) = B(r)
               /\ RangeOf(r, rd2[r], wr[r], m)
                     = Ending(RangeOf(r, rd[r], wr[r], m), u, RangeOf(r, rd[r], wr[r], m).uses + 1)
      BY <1>5, <3>1
    <3>3. x = RangeOf(r, rd2[r], wr[r], m)
      BY <2>2, <3>2
    <3> QED
      BY <1>9, <3>2, <3>3
  <2>3. ASSUME NEW r \in regs, M(r) = {}, x = [reg |-> r, def |-> BEFORE, last |-> u, uses |-> 1]
        PROVE  x \in S
    <3>1. B(r) = {}
      BY <1>5, <2>3
    <3> QED
      BY <1>4, <1>9, <2>3, <3>1
  <2> QED
    BY <1>10, <2>1, <2>2, <2>3
<1> QED
  BY <1>3, <1>11, <1>12 DEF rd2, R, S, T

\* live_def() adds writers behind everything to the ranges.
WithWriter(wr, regs, i) == [r \in Reg |-> IF r \in regs THEN wr[r] \cup {i} ELSE wr[r]]

LEMMA NextWriter ==
  ASSUME NEW r, NEW rs \in SUBSET Places, NEW ws \in SUBSET Places, NEW i \in Places,
         \A y \in rs : ~(i < y)
  PROVE  /\ Begins(rs, ws \cup {i}) = Begins(rs, ws) \cup {i}
         /\ RangeOf(r, rs, ws \cup {i}, i) = [reg |-> r, def |-> i, last |-> i, uses |-> 0]
         /\ \A d \in Begins(rs, ws) : RangeOf(r, rs, ws \cup {i}, d) = RangeOf(r, rs, ws, d)
<1>1. BEFORE \in Places
  BY LenAssumption DEF BEFORE, Places, AFTER
<1>2. ASSUME NEW d \in Places
      PROVE  Reach(rs, ws \cup {i}, d) = Reach(rs, ws, d)
  BY ReachWriter
<1>3. Reach(rs, ws \cup {i}, i) = {}
  BY ReachWriter
<1>4. Begins(rs, ws \cup {i}) = Begins(rs, ws) \cup {i}
  BY <1>1, <1>2 DEF Begins
<1>5. RangeOf(r, rs, ws \cup {i}, i) = [reg |-> r, def |-> i, last |-> i, uses |-> 0]
  BY <1>3, FS_EmptySet DEF RangeOf
<1>6. ASSUME NEW d \in Begins(rs, ws)
      PROVE  RangeOf(r, rs, ws \cup {i}, d) = RangeOf(r, rs, ws, d)
  <2>1. d \in Places
    BY BeginsType
  <2> QED
    BY <1>2, <2>1 DEF RangeOf
<1> QED
  BY <1>4, <1>5, <1>6

LEMMA AddWrites ==
  ASSUME NEW rd \in PlacesOf, NEW wr \in PlacesOf, NEW regs \in SUBSET Reg, NEW i \in Places,
         \A r \in Reg : \A y \in rd[r] : ~(i < y)
  PROVE  /\ WithWriter(wr, regs, i) \in PlacesOf
         /\ LiveDef(RangesOf(rd, wr), regs, i) = RangesOf(rd, WithWriter(wr, regs, i))
<1> DEFINE wr2 == WithWriter(wr, regs, i)
           R == RangesOf(rd, wr)
           S == RangesOf(rd, wr2)
           T == LiveDef(R, regs, i)
<1>1. \A r \in Reg : rd[r] \in SUBSET Places /\ wr[r] \in SUBSET Places
  BY DEF PlacesOf
<1>2. /\ \A r \in regs : wr2[r] = wr[r] \cup {i}
      /\ \A r \in Reg \ regs : wr2[r] = wr[r]
  BY DEF WithWriter
<1>3. wr2 \in PlacesOf
  BY <1>1 DEF WithWriter, PlacesOf
<1>4. ASSUME NEW r \in regs
      PROVE  /\ Begins(rd[r], wr2[r]) = Begins(rd[r], wr[r]) \cup {i}
             /\ RangeOf(r, rd[r], wr2[r], i) = [reg |-> r, def |-> i, last |-> i, uses |-> 0]
             /\ \A d \in Begins(rd[r], wr[r]) : RangeOf(r, rd[r], wr2[r], d) = RangeOf(r, rd[r], wr[r], d)
  <2> DEFINE rs == rd[r]
             ws == wr[r]
  <2>0. rs \in SUBSET Places /\ ws \in SUBSET Places /\ \A y \in rs : ~(i < y)
    BY <1>1
  <2>1. /\ Begins(rs, ws \cup {i}) = Begins(rs, ws) \cup {i}
        /\ RangeOf(r, rs, ws \cup {i}, i) = [reg |-> r, def |-> i, last |-> i, uses |-> 0]
        /\ \A d \in Begins(rs, ws) : RangeOf(r, rs, ws \cup {i}, d) = RangeOf(r, rs, ws, d)
    <3> HIDE DEF rs, ws
    <3> QED
      BY <2>0, NextWriter
  <2>2. wr2[r] = wr[r] \cup {i}
    BY <1>2
  <2> HIDE DEF wr2
  <2> QED
    BY <2>1, <2>2, Zenon
<1>5. \A x : x \in R <=> \E r \in Reg : \E d \in Begins(rd[r], wr[r]) : x = RangeOf(r, rd[r], wr[r], d)
  BY InRanges
<1>6. \A x : x \in S <=> \E r \in Reg : \E d \in Begins(rd[r], wr2[r]) : x = RangeOf(r, rd[r], wr2[r], d)
  BY <1>3, InRanges
<1>7. \A x : x \in T <=> x \in R \/ \E r \in regs : x = [reg |-> r, def |-> i, last |-> i, uses |-> 0]
  BY DEF LiveDef
<1> HIDE DEF wr2, R, S, T
<1>8. ASSUME NEW x \in S
      PROVE  x \in T
  <2>1. PICK r \in Reg : \E d \in Begins(rd[r], wr2[r]) : x = RangeOf(r, rd[r], wr2[r], d)
    BY <1>6
  <2>2. PICK d \in Begins(rd[r], wr2[r]) : x = RangeOf(r, rd[r], wr2[r], d)
    BY <2>1
  <2>3. CASE r \notin regs
    BY <1>2, <1>5, <1>7, <2>2, <2>3
  <2>4. CASE r \in regs
    <3>1. d \in Begins(rd[r], wr[r]) \/ d = i
      <4>1. d \in Begins(rd[r], wr[r]) \cup {i}
        BY <1>4, <2>2, <2>4, Zenon
      <4> QED
        BY <4>1
    <3>2. CASE d = i
      BY <1>4, <1>7, <2>2, <2>4, <3>2
    <3>3. CASE d \in Begins(rd[r], wr[r])
      <4>1. x = RangeOf(r, rd[r], wr[r], d)
        BY <1>4, <2>2, <2>4, <3>3
      <4> QED
        BY <1>5, <1>7, <3>3, <4>1
    <3> QED
      BY <3>1, <3>2, <3>3
  <2> QED
    BY <2>3, <2>4
<1>9. ASSUME NEW x \in T
      PROVE  x \in S
  <2>1. CASE x \in R
    <3>1. PICK r \in Reg : \E d \in Begins(rd[r], wr[r]) : x = RangeOf(r, rd[r], wr[r], d)
      BY <1>5, <2>1
    <3>2. PICK d \in Begins(rd[r], wr[r]) : x = RangeOf(r, rd[r], wr[r], d)
      BY <3>1
    <3>3. d \in Begins(rd[r], wr2[r]) /\ x = RangeOf(r, rd[r], wr2[r], d)
      BY <1>2, <1>4, <3>2
    <3> QED
      BY <1>6, <3>3
  <2>2. ASSUME NEW r \in regs, x = [reg |-> r, def |-> i, last |-> i, uses |-> 0]
        PROVE  x \in S
    <3>1. i \in Begins(rd[r], wr2[r]) /\ x = RangeOf(r, rd[r], wr2[r], i)
      BY <1>4, <2>2
    <3> QED
      BY <1>6, <3>1
  <2> QED
    BY <1>7, <2>1, <2>2
<1> QED
  BY <1>3, <1>8, <1>9 DEF wr2, R, S, T

-----------------------------------------------------------------------------
\* The analysis.

LEMMA PlacesAre ==
  /\ Len \in Nat /\ AFTER \in Nat
  /\ \A i \in Index : i \in Places /\ i \in Nat /\ i # BEFORE /\ BEFORE < i /\ i < BRANCH /\ i < AFTER
  /\ BEFORE \in Places /\ BRANCH \in Places /\ AFTER \in Places
  /\ BRANCH # BEFORE /\ AFTER # BEFORE /\ BRANCH < AFTER /\ BRANCH \notin Index /\ AFTER \notin Index
  /\ \A p \in Places : p \in Int /\ p \in Nat /\ BEFORE <= p /\ p <= AFTER
BY LenAssumption DEF BEFORE, BRANCH, AFTER, Index, Places

LEMMA InsnFields ==
  ASSUME code \in [Index -> Insn], NEW i \in Index
  PROVE  code[i].use \in SUBSET Reg /\ code[i].def \in SUBSET Reg
BY DEF Insn

LEMMA ReadersType ==
  /\ \A c, bu, o : Reads(c, bu, o) \in PlacesOf /\ Writes(c) \in PlacesOf
  /\ \A c, bu, o : \A r \in Reg : /\ Reads(c, bu, o)[r] = Readers(c, bu, o, r)
                                 /\ Writes(c)[r] = Writers(c, r)
                                 /\ Readers(c, bu, o, r) \in SUBSET Places
                                 /\ Writers(c, r) \in SUBSET Places
                                 /\ Writers(c, r) \subseteq Index
BY PlacesAre DEF Reads, Writes, Readers, Writers, PlacesOf

LEMMA ScanAdds ==
  ASSUME code \in [Index -> Insn], NEW n \in Index
  PROVE  /\ ReadBefore(n) \in PlacesOf /\ WrittenBefore(n) \in PlacesOf
         /\ \A r \in Reg : \A y \in ReadBefore(n)[r] : y < n
         /\ \A r \in Reg : \A y \in WrittenBefore(n)[r] : y < n
         /\ WithReader(ReadBefore(n), code[n].use, n) = ReadBefore(n + 1)
         /\ WithWriter(WrittenBefore(n), code[n].def, n) = WrittenBefore(n + 1)
         /\ \A r \in Reg : \A y \in ReadBefore(n + 1)[r] : ~(n < y)
<1>1. n \in Nat /\ \A i \in Index : (i < n + 1 <=> i < n \/ i = n) /\ (i < n => ~(n < i)) /\ i \in Places
  BY PlacesAre
<1>2. \A r \in Reg : {i \in Index : i < n + 1 /\ r \in code[i].use}
        = IF r \in code[n].use THEN {i \in Index : i < n /\ r \in code[i].use} \cup {n}
          ELSE {i \in Index : i < n /\ r \in code[i].use}
  BY <1>1
<1>3. \A r \in Reg : {i \in Index : i < n + 1 /\ r \in code[i].def}
        = IF r \in code[n].def THEN {i \in Index : i < n /\ r \in code[i].def} \cup {n}
          ELSE {i \in Index : i < n /\ r \in code[i].def}
  BY <1>1
<1>4. WithReader(ReadBefore(n), code[n].use, n) = ReadBefore(n + 1)
  BY <1>2 DEF WithReader, ReadBefore
<1>5. WithWriter(WrittenBefore(n), code[n].def, n) = WrittenBefore(n + 1)
  BY <1>3 DEF WithWriter, WrittenBefore
<1>6. \A r \in Reg : \A y \in ReadBefore(n + 1)[r] : ~(n < y)
  BY <1>1 DEF ReadBefore
<1> QED
  BY <1>1, <1>4, <1>5, <1>6 DEF ReadBefore, WrittenBefore, PlacesOf

LEMMA ScanStep ==
  ASSUME code \in [Index -> Insn], NEW n \in Index
  PROVE  LiveDef(LiveUse(RangesOf(ReadBefore(n), WrittenBefore(n)), code[n].use, n), code[n].def, n)
           = RangesOf(ReadBefore(n + 1), WrittenBefore(n + 1))
<1> DEFINE rd == ReadBefore(n)
           wr == WrittenBefore(n)
           rd2 == ReadBefore(n + 1)
           wr2 == WrittenBefore(n + 1)
           us == code[n].use
           ds == code[n].def
<1>1. us \in SUBSET Reg /\ ds \in SUBSET Reg
  BY InsnFields
<1>2. /\ rd \in PlacesOf /\ wr \in PlacesOf
      /\ \A r \in Reg : \A y \in rd[r] : y < n
      /\ \A r \in Reg : \A y \in wr[r] : y < n
      /\ WithReader(rd, us, n) = rd2
      /\ WithWriter(wr, ds, n) = wr2
      /\ \A r \in Reg : \A y \in rd2[r] : ~(n < y)
  BY ScanAdds
<1>3. n \in Places /\ n # BEFORE
  BY PlacesAre
<1> HIDE DEF rd, wr, rd2, wr2, us, ds
<1>4. WithReader(rd, us, n) \in PlacesOf /\ LiveUse(RangesOf(rd, wr), us, n) = RangesOf(WithReader(rd, us, n), wr)
  BY <1>1, <1>2, <1>3, AddReads
<1>5. LiveUse(RangesOf(rd, wr), us, n) = RangesOf(rd2, wr) /\ rd2 \in PlacesOf
  BY <1>2, <1>4
<1>6. LiveDef(RangesOf(rd2, wr), ds, n) = RangesOf(rd2, WithWriter(wr, ds, n))
  BY <1>1, <1>2, <1>3, <1>5, AddWrites
<1>7. LiveDef(LiveUse(RangesOf(rd, wr), us, n), ds, n) = RangesOf(rd2, wr2)
  BY <1>2, <1>5, <1>6
<1> QED
  BY <1>7 DEF rd, wr, rd2, wr2, us, ds

LEMMA EndLocalStep ==
  ASSUME code \in [Index -> Insn], branchUse \in SUBSET Reg
  PROVE  LiveUse(RangesOf(ReadBefore(Len + 1), WrittenBefore(Len + 1)), branchUse, BRANCH)
           = ExactRanges(code, branchUse, {})
<1> DEFINE rd == ReadBefore(Len + 1)
           wr == WrittenBefore(Len + 1)
<1>1. \A i \in Index : i < Len + 1 /\ i < BRANCH /\ i \in Places
  BY PlacesAre DEF BRANCH
<1>2. rd \in PlacesOf /\ wr \in PlacesOf
  BY <1>1 DEF ReadBefore, WrittenBefore, PlacesOf
<1>3. (\A r \in Reg : \A y \in rd[r] : y < BRANCH) /\ \A r \in Reg : \A y \in wr[r] : y < BRANCH
  BY <1>1 DEF ReadBefore, WrittenBefore
<1>4. WithReader(rd, branchUse, BRANCH) = Reads(code, branchUse, {}) /\ wr = Writes(code)
  BY <1>1 DEF WithReader, ReadBefore, WrittenBefore, Reads, Writes, Readers, Writers
<1> HIDE DEF rd, wr
<1>5. LiveUse(RangesOf(rd, wr), branchUse, BRANCH) = RangesOf(WithReader(rd, branchUse, BRANCH), wr)
  BY <1>2, <1>3, PlacesAre, AddReads
<1> QED
  BY <1>4, <1>5 DEF ExactRanges, rd, wr

LEMMA FinalStep ==
  ASSUME code \in [Index -> Insn], branchUse \in SUBSET Reg, out \in SUBSET Reg
  PROVE  LiveUse(ExactRanges(code, branchUse, {}), out, AFTER) = ExactRanges(code, branchUse, out)
<1> DEFINE rd == Reads(code, branchUse, {})
           wr == Writes(code)
<1>1. rd \in PlacesOf /\ wr \in PlacesOf
  BY ReadersType
<1>2. (\A r \in Reg : \A y \in rd[r] : y < AFTER) /\ \A r \in Reg : \A y \in wr[r] : y < AFTER
  BY PlacesAre DEF Reads, Writes, Readers, Writers
<1>3. WithReader(rd, out, AFTER) = Reads(code, branchUse, out)
  BY DEF WithReader, Reads, Readers
<1> HIDE DEF rd, wr
<1>4. LiveUse(RangesOf(rd, wr), out, AFTER) = RangesOf(WithReader(rd, out, AFTER), wr)
  BY <1>1, <1>2, PlacesAre, AddReads
<1> QED
  BY <1>3, <1>4 DEF ExactRanges, rd, wr

LEMMA EmptyRanges == RangesOf(ReadBefore(1), WrittenBefore(1)) = {}
<1>1. \A i \in Index : ~(i < 1)
  BY LenAssumption DEF Index
<1>2. \A r \in Reg : ReadBefore(1)[r] = {} /\ WrittenBefore(1)[r] = {}
  BY <1>1 DEF ReadBefore, WrittenBefore
<1>3. Begins({}, {}) = {}
  BY DEF Begins, Reach
<1> QED
  BY <1>2, <1>3 DEF RangesOf

RInv == RangesIInv /\ DeadTypeOK

LEMMA RInit == Init => RInv
<1> SUFFICES ASSUME Init PROVE RInv
  OBVIOUS
<1> USE DEF Init, AnalyzeInit
<1>1. code \in [Index -> Insn] /\ branchUse \in SUBSET Reg
  BY InsnsAssumption
<1>2. 1 \in 1..(Len + 1)
  BY LenAssumption
<1>3. RangesTypeOK
  BY <1>1, <1>2 DEF RangesTypeOK
<1>4. RangesIInv
  BY <1>3, EmptyRanges DEF RangesIInv
<1>5. DeadTypeOK
  BY <1>1 DEF DeadTypeOK
<1> QED
  BY <1>4, <1>5 DEF RInv

LEMMA RNext == RInv /\ [Next]_vars => RInv'
<1> SUFFICES ASSUME RInv, [Next]_vars PROVE RInv'
  OBVIOUS
<1>0. RangesIInv /\ RangesTypeOK /\ DeadTypeOK
  BY DEF RInv, RangesIInv
<1>1. Len \in Nat /\ 1 \in 1..(Len + 1)
  BY LenAssumption
<1>2. CASE Analyze
  <2>1. stage = "analyze" /\ out' \subseteq wide /\ UNCHANGED deadVars /\ phase # "done"
    BY <1>2 DEF Analyze
  <2>2. DeadTypeOK'
    BY <1>0, <2>1 DEF DeadTypeOK, deadVars
  <2>3. CASE Scan
    <3>0. phase = "local" /\ next \in Index /\ next + 1 \in 1..(Len + 1)
      BY <1>0, <1>1, <2>3 DEF Scan, RangesTypeOK, Index
    <3>1. RangesTypeOK'
      BY <1>0, <2>3, <3>0 DEF Scan, RangesTypeOK, block
    <3>2. ranges' = RangesOf(ReadBefore(next + 1), WrittenBefore(next + 1))
      BY <1>0, <2>3, <3>0, ScanStep DEF Scan, RangesTypeOK, RangesIInv
    <3>3. code' = code /\ next' = next + 1 /\ phase' = "local"
      BY <2>3, <3>0 DEF Scan, block
    <3>4. ReadBefore(next + 1) = ReadBefore(next)' /\ WrittenBefore(next + 1) = WrittenBefore(next)'
      BY <3>3 DEF ReadBefore, WrittenBefore
    <3>5. RangesIInv'
      BY <3>1, <3>2, <3>3, <3>4 DEF RangesIInv
    <3> QED
      BY <2>2, <3>5 DEF RInv
  <2>4. CASE EndLocal
    <3>1. RangesTypeOK' /\ phase' = "global" /\ code' = code /\ branchUse' = branchUse
      BY <1>0, <2>4 DEF EndLocal, RangesTypeOK, block
    <3>2. ranges' = ExactRanges(code, branchUse, {})
      BY <1>0, <2>4, EndLocalStep DEF EndLocal, RangesTypeOK, RangesIInv
    <3>3. RangesIInv'
      BY <3>1, <3>2 DEF RangesIInv
    <3> QED
      BY <2>2, <3>3 DEF RInv
  <2>5. CASE Global
    <3>1. RangesTypeOK' /\ phase' = "final" /\ code' = code /\ branchUse' = branchUse /\ ranges' = ranges
          /\ phase = "global"
      BY <1>0, <2>5 DEF Global, RangesTypeOK, block
    <3>3. RangesIInv'
      BY <1>0, <3>1 DEF RangesIInv
    <3> QED
      BY <2>2, <3>3 DEF RInv
  <2>6. CASE Final
    <3>0. phase = "final" /\ out' = out
      BY <1>0, <2>6 DEF Final, RangesTypeOK
    <3>1. RangesTypeOK' /\ phase' = "done" /\ code' = code /\ branchUse' = branchUse
      BY <1>0, <2>6, <3>0 DEF Final, RangesTypeOK, block
    <3>2. ranges = ExactRanges(code, branchUse, {})
      BY <1>0, <3>0 DEF RangesIInv
    <3>3. code \in [Index -> Insn] /\ branchUse \in SUBSET Reg /\ out \in SUBSET Reg
      BY <1>0 DEF RangesTypeOK
    <3>4. ranges' = ExactRanges(code, branchUse, out)
      BY <2>6, <3>2, <3>3, FinalStep DEF Final, LiveOut
    <3>5. RangesIInv'
      BY <3>0, <3>1, <3>4 DEF RangesIInv
    <3> QED
      BY <2>2, <3>5 DEF RInv
  <2> QED
    BY <1>2, <2>3, <2>4, <2>5, <2>6 DEF Analyze, AnalyzeNext
<1>3. CASE Start
  BY <1>0, <1>1, <1>3 DEF Start, block, RInv, RangesIInv, RangesTypeOK, DeadTypeOK
<1>4. CASE Skip
  <2>1. next + 1 \in 1..(Len + 1) /\ phase = "idle"
    BY <1>0, <1>1, <1>4 DEF Skip, DeadTypeOK
  <2> QED
    BY <1>0, <1>4, <2>1 DEF Skip, block, deadVars, RInv, RangesIInv, RangesTypeOK, DeadTypeOK
<1>5. CASE Kill
  <2>1. next + 1 \in 1..(Len + 1) /\ phase = "idle" /\ next \in Index
    BY <1>0, <1>1, <1>5 DEF Kill, DeadTypeOK, Index
  <2>2. NOP \in Insn
    BY DEF NOP, Insn
  <2>3. code' \in [Index -> Insn]
    BY <1>0, <1>5, <2>2 DEF Kill, RangesTypeOK
  <2>4. RangesIInv'
    BY <1>0, <1>5, <2>1, <2>3 DEF Kill, RangesIInv, RangesTypeOK
  <2>5. invalidated' \in BOOLEAN
    BY <1>0, <1>5 DEF Kill, DeadTypeOK
  <2>6. DeadTypeOK'
    BY <1>0, <1>5, <2>1, <2>5 DEF Kill, DeadTypeOK
  <2> QED
    BY <2>4, <2>6 DEF RInv
<1>6. CASE Rescan
  BY <1>0, <1>1, <1>6 DEF Rescan, block, RInv, RangesIInv, RangesTypeOK, DeadTypeOK
<1>7. CASE Return
  <2>1. CASE changed /\ invalidated
    <3>1. /\ code' = code /\ branchUse' = branchUse /\ stage' = "analyze" /\ phase' = "local"
          /\ next' = 1 /\ ranges' = {} /\ out' = {}
          /\ UNCHANGED <<code0, wide, changes, changed, invalidated>>
      BY <1>7, <2>1 DEF Return, block
    <3>2. RangesTypeOK'
      BY <1>0, <1>1, <3>1 DEF RangesTypeOK
    <3>3. ReadBefore(1)' = ReadBefore(1) /\ WrittenBefore(1)' = WrittenBefore(1)
      BY <3>1 DEF ReadBefore, WrittenBefore
    <3>4. (ReadBefore(next))' = ReadBefore(1) /\ (WrittenBefore(next))' = WrittenBefore(1)
      BY <3>1 DEF ReadBefore, WrittenBefore
    <3>5. RangesIInv'
      BY <3>1, <3>2, <3>4, EmptyRanges DEF RangesIInv
    <3>6. DeadTypeOK'
      BY <1>0, <3>1 DEF DeadTypeOK
    <3> QED
      BY <3>5, <3>6 DEF RInv
  <2>2. CASE ~(changed /\ invalidated)
    BY <1>0, <1>7, <2>2 DEF Return, block, RInv, RangesIInv, RangesTypeOK, DeadTypeOK
  <2> QED
    BY <2>1, <2>2
<1>8. CASE UNCHANGED vars
  <2>1. ReadBefore(next)' = ReadBefore(next) /\ WrittenBefore(next)' = WrittenBefore(next)
    BY <1>8 DEF vars, analyzeVars, block, ReadBefore, WrittenBefore
  <2> QED
    BY <1>0, <1>8, <2>1
       DEF vars, analyzeVars, block, deadVars, RInv, RangesIInv, RangesTypeOK, DeadTypeOK
<1> QED
  BY <1>2, <1>3, <1>4, <1>5, <1>6, <1>7, <1>8 DEF Next

\* When the analysis of a block is complete, whatever instructions it has and
\* whatever dead stores were removed before, its list of ranges is the true one
\* (live_analyze_local, live_analyze_global, live_analyze_final).
THEOREM RangesRight == Spec => []RangesExact
<1>1. RInv => RangesExact
  BY DEF RInv, RangesIInv, RangesExact
<1> QED
  BY <1>1, RInit, RNext, PTL DEF Spec

-----------------------------------------------------------------------------
\* Interference.

LEMMA RangeEnd ==
  ASSUME NEW r, NEW rs \in SUBSET Places, NEW ws, NEW d \in Places
  PROVE  /\ RangeOf(r, rs, ws, d).last \in Places
         /\ ~(RangeOf(r, rs, ws, d).last < d)
         /\ Reach(rs, ws, d) = {} => RangeOf(r, rs, ws, d).last = d
         /\ Reach(rs, ws, d) # {} => RangeOf(r, rs, ws, d).last \in Reach(rs, ws, d)
         /\ \A u \in Reach(rs, ws, d) : ~(RangeOf(r, rs, ws, d).last < u)
<1> DEFINE x == RangeOf(r, rs, ws, d)
           us == Reach(rs, ws, d)
           z == x.last
<1>1. /\ z \in Places
      /\ us = {} => z = d
      /\ us # {} => z \in us /\ \A u \in us : u <= z
  BY RangeType
<1>2. us \in SUBSET Places /\ \A u \in us : d < u
  BY DEF Reach
<1> HIDE DEF z, us
<1>3. \A u \in us : ~(z < u)
  <2>1. ASSUME NEW u \in us PROVE ~(z < u)
    <3>1. u <= z /\ u \in Int /\ z \in Int
      BY <1>1, <1>2, PlacesAre
    <3> QED
      BY <3>1
  <2> QED
    BY <2>1
<1>4. ~(z < d)
  BY <1>1, <1>2, PlacesAre
<1> QED
  BY <1>1, <1>3, <1>4 DEF z, us

LEMMA RangeUses ==
  ASSUME NEW r, NEW rs \in SUBSET Places, NEW ws, NEW d \in Places
  PROVE  /\ RangeOf(r, rs, ws, d).uses = Cardinality(Reach(rs, ws, d))
         /\ Reach(rs, ws, d) = {} => RangeOf(r, rs, ws, d).uses = 0
         /\ Reach(rs, ws, d) # {} => RangeOf(r, rs, ws, d).uses # 0
<1> DEFINE us == Reach(rs, ws, d)
<1>1. us \in SUBSET Places
  BY ReachType
<1>2. Cardinality(us) = 0 <=> us = {}
  BY <1>1, PlacesFinite, FS_EmptySet
<1>3. RangeOf(r, rs, ws, d).uses = Cardinality(us)
  BY DEF RangeOf
<1> HIDE DEF us
<1> QED
  BY <1>2, <1>3 DEF us

\* Of two ranges that overlap, the one that begins later destroys the other's value.
LEMMA OverlapClobbers ==
  ASSUME NEW r, NEW rr \in SUBSET Places, NEW wr \in SUBSET Places, NEW e \in Begins(rr, wr),
         NEW q, NEW rq \in SUBSET Places, NEW wq \in SUBSET Places, NEW d \in Begins(rq, wq),
         ~(d < e), d < RangeOf(r, rr, wr, e).last, e < RangeOf(q, rq, wq, d).last
  PROVE  /\ Reach(rr, wr, d) # {}
         /\ d = BEFORE => Reach(rq, wq, BEFORE) # {}
         /\ d # BEFORE => d \in wq /\ (d \in wr => Reach(rq, wq, d) # {})
<1> DEFINE u == RangeOf(r, rr, wr, e).last
           v == RangeOf(q, rq, wq, d).last
<1>1. e \in Places /\ d \in Places /\ (d = BEFORE \/ d \in wq)
  BY BeginsType
<1>2. /\ u \in Places /\ (Reach(rr, wr, e) = {} => u = e)
      /\ Reach(rr, wr, e) # {} => u \in Reach(rr, wr, e)
  BY <1>1, RangeEnd
<1>3. v \in Places /\ (Reach(rq, wq, d) = {} => v = d)
  BY <1>1, RangeEnd
<1>4. d < u /\ e < v
  OBVIOUS
<1> HIDE DEF u, v
<1>5. e \in Int /\ d \in Int /\ u \in Int /\ v \in Int /\ BEFORE <= e /\ BEFORE <= d
  BY <1>1, <1>2, <1>3, PlacesAre
<1>6. u \in Reach(rr, wr, e)
  BY <1>2, <1>4, <1>5
<1>7. u \in rr /\ \A k \in wr : ~(e < k /\ k < u)
  BY <1>6 DEF Reach
<1>8. \A k \in wr : ~(d < k /\ k < u)
  <2>1. \A k \in wr : k \in Int
    BY PlacesAre
  <2> QED
    BY <1>5, <1>7, <2>1
<1>9. u \in Reach(rr, wr, d)
  BY <1>4, <1>7, <1>8 DEF Reach
<1>10. ASSUME d = BEFORE \/ d \in wr
       PROVE  Reach(rq, wq, d) # {}
  <2>1. e = d
    BY <1>4, <1>5, <1>7, <1>10, PlacesAre
  <2> QED
    BY <1>3, <1>4, <1>5, <2>1
<1> QED
  BY <1>1, <1>9, <1>10

\* A value that is destroyed has a range that overlaps that of the new value.
LEMMA ClobberOverlaps ==
  ASSUME NEW r, NEW rr \in SUBSET Places, NEW wr \in SUBSET Places,
         NEW q, NEW rq \in SUBSET Places, NEW wq \in SUBSET Places, NEW i \in Places,
         Reach(rq, wq, i) # {},
         i = BEFORE => Reach(rr, wr, BEFORE) # {},
         i # BEFORE => i \in wr /\ (i \in wq => Reach(rr, wr, i) # {})
  PROVE  /\ i \in Begins(rr, wr)
         /\ \E d \in Begins(rq, wq) : /\ d < RangeOf(r, rr, wr, i).last
                                      /\ i < RangeOf(q, rq, wq, d).last
<1> DEFINE K == {k \in wq \cup {BEFORE} : k <= i}
           v == RangeOf(r, rr, wr, i).last
<1>1. i \in Begins(rr, wr)
  BY BeginsType
<1>2. BEFORE \in Int /\ BEFORE \in Places /\ i \in Int /\ BEFORE <= i
  BY PlacesAre
<1>3. K \in SUBSET Places /\ K # {} /\ AFTER \in Nat
  BY <1>2, PlacesAre
<1>4. PICK d \in K : \A k \in K : k <= d
  BY <1>3, Greatest DEF Places
<1>5. d \in Places /\ d \in Int /\ d <= i
  BY <1>3, <1>4, PlacesAre
<1>6. PICK u \in Reach(rq, wq, i) : TRUE
  OBVIOUS
<1>7. u \in rq /\ i < u /\ (\A k \in wq : ~(i < k /\ k < u)) /\ u \in Int
  BY <1>6, PlacesAre DEF Reach
<1>8. ASSUME NEW k \in wq, d < k, k < u
      PROVE  FALSE
  <2>1. k \in Int
    BY PlacesAre
  <2>2. ~(i < k)
    BY <1>7, <1>8
  <2>3. k \in K
    BY <1>2, <2>1, <2>2
  <2>4. k <= d
    BY <1>4, <2>3
  <2> QED
    BY <1>5, <1>8, <2>1, <2>4
<1>9. u \in Reach(rq, wq, d)
  BY <1>5, <1>2, <1>7, <1>8 DEF Reach
<1>10. d \in Begins(rq, wq)
  BY <1>4, <1>9, BeginsType
<1> DEFINE w == RangeOf(q, rq, wq, d).last
<1>11. w \in Places /\ ~(w < u)
  BY <1>5, <1>9, RangeEnd
<1>12. v \in Places /\ ~(v < i) /\ (Reach(rr, wr, i) # {} => v \in Reach(rr, wr, i))
  BY RangeEnd
<1> HIDE DEF w, v, K
<1>13. i < w
  BY <1>2, <1>7, <1>11, PlacesAre
<1>14. d < v
  <2>1. v \in Int
    BY <1>12, PlacesAre
  <2>2. CASE d # i
    BY <1>2, <1>5, <1>12, <2>1, <2>2
  <2>3. CASE d = i
    <3>1. d = BEFORE \/ d \in wq
      BY <1>4 DEF K
    <3>2. Reach(rr, wr, i) # {}
      BY <2>3, <3>1
    <3>3. i < v
      BY <1>12, <3>2 DEF Reach
    <3> QED
      BY <2>3, <3>3
  <2> QED
    BY <2>2, <2>3
<1> QED
  BY <1>1, <1>10, <1>13, <1>14 DEF w, v

\* live_interf() on the true ranges.
LEMMA InterfIs ==
  ASSUME NEW r \in Reg, NEW q \in Reg, NEW c, NEW bu, NEW o
  PROVE  (\E x, y \in ExactRanges(c, bu, o) : x.reg = r /\ y.reg = q /\ Overlaps(x, y))
           <=> Interfere(c, bu, o, r, q)
<1> DEFINE rd == Reads(c, bu, o)
           wr == Writes(c)
           R == ExactRanges(c, bu, o)
<1>1. rd \in PlacesOf /\ wr \in PlacesOf
  BY ReadersType
<1>2. \A p \in Reg : rd[p] \in SUBSET Places /\ wr[p] \in SUBSET Places /\ wr[p] \subseteq Index
  BY ReadersType
<1>3. \A p \in Reg : \A d : ReachedFrom(c, bu, o, p, d) = Reach(rd[p], wr[p], d)
  BY ReadersType DEF ReachedFrom
<1>4. \A p \in Reg : wr[p] = Writers(c, p)
  BY ReadersType
<1>5. \A x \in R : x.reg \in Reg => /\ x.def \in Begins(rd[x.reg], wr[x.reg])
                                  /\ x = RangeOf(x.reg, rd[x.reg], wr[x.reg], x.def)
  BY <1>1, RangeOfItself DEF ExactRanges
<1>6. \A p \in Reg : \A d \in Begins(rd[p], wr[p]) :
        /\ RangeOf(p, rd[p], wr[p], d) \in R
        /\ RangeOf(p, rd[p], wr[p], d).reg = p
        /\ RangeOf(p, rd[p], wr[p], d).def = d
  BY <1>1, RangeInList DEF ExactRanges
<1> HIDE DEF rd, wr, R
<1>7. ASSUME NEW p \in Reg, NEW s \in Reg, NEW x \in R, NEW y \in R,
             x.reg = p, y.reg = s, x.last > y.def, y.last > x.def, ~(y.def < x.def)
      PROVE  \E i \in 0..Len : Clobbers(c, bu, o, s, p, i)
  <2> DEFINE d == y.def
             e == x.def
             rp == rd[p]
             wp == wr[p]
             rs == rd[s]
             ws == wr[s]
  <2>1. /\ e \in Begins(rp, wp) /\ x = RangeOf(p, rp, wp, e)
        /\ d \in Begins(rs, ws) /\ y = RangeOf(s, rs, ws, d)
    BY <1>5, <1>7
  <2>2. rp \in SUBSET Places /\ wp \in SUBSET Places /\ rs \in SUBSET Places /\ ws \in SUBSET Places
    BY <1>2
  <2>3. ~(d < e) /\ d < RangeOf(p, rp, wp, e).last /\ e < RangeOf(s, rs, ws, d).last
    BY <1>7, <2>1
  <2>4. d \in Index \/ d = BEFORE
    BY <1>2, <2>1, BeginsType
  <2> HIDE DEF d, e, rp, wp, rs, ws
  <2>5. /\ Reach(rp, wp, d) # {}
        /\ d = BEFORE => Reach(rs, ws, BEFORE) # {}
        /\ d # BEFORE => d \in ws /\ (d \in wp => Reach(rs, ws, d) # {})
    BY <2>1, <2>2, <2>3, OverlapClobbers
  <2>6. Clobbers(c, bu, o, s, p, d)
    BY <1>3, <1>4, <2>5 DEF Clobbers, LiveAfter, rp, wp, rs, ws
  <2>7. d \in 0..Len
    BY <2>4, LenAssumption DEF Index, BEFORE
  <2> QED
    BY <2>6, <2>7
<1>8. ASSUME NEW p \in Reg, NEW s \in Reg, NEW i \in 0..Len, Clobbers(c, bu, o, p, s, i)
      PROVE  \E x, y \in R : x.reg = p /\ y.reg = s /\ x.last > y.def /\ y.last > x.def
  <2> DEFINE rp == rd[p]
             wp == wr[p]
             rs == rd[s]
             ws == wr[s]
  <2>1. rp \in SUBSET Places /\ wp \in SUBSET Places /\ rs \in SUBSET Places /\ ws \in SUBSET Places
    BY <1>2
  <2>2. i \in Places
    BY LenAssumption DEF Places, AFTER
  <2>3. /\ Reach(rs, ws, i) # {}
        /\ i = BEFORE => Reach(rp, wp, BEFORE) # {}
        /\ i # BEFORE => i \in wp /\ (i \in ws => Reach(rp, wp, i) # {})
    BY <1>3, <1>4, <1>8 DEF Clobbers, LiveAfter
  <2> HIDE DEF rp, wp, rs, ws
  <2>4. /\ i \in Begins(rp, wp)
        /\ \E d \in Begins(rs, ws) : d < RangeOf(p, rp, wp, i).last /\ i < RangeOf(s, rs, ws, d).last
    BY <2>1, <2>2, <2>3, ClobberOverlaps
  <2>5. PICK d \in Begins(rs, ws) : d < RangeOf(p, rp, wp, i).last /\ i < RangeOf(s, rs, ws, d).last
    BY <2>4
  <2>6. /\ RangeOf(p, rp, wp, i) \in R
        /\ RangeOf(p, rp, wp, i).reg = p /\ RangeOf(p, rp, wp, i).def = i
    BY <1>6, <2>4 DEF rp, wp
  <2>7. /\ RangeOf(s, rs, ws, d) \in R
        /\ RangeOf(s, rs, ws, d).reg = s /\ RangeOf(s, rs, ws, d).def = d
    BY <1>6, <2>5 DEF rs, ws
  <2> QED
    BY <2>5, <2>6, <2>7
<1>9. ASSUME NEW x \in R, NEW y \in R, x.reg = r, y.reg = q, Overlaps(x, y)
      PROVE  Interfere(c, bu, o, r, q)
  <2>1. x.def \in Places /\ y.def \in Places
    BY <1>2, <1>5, <1>9, BeginsType
  <2>2. ~(y.def < x.def) \/ ~(x.def < y.def)
    <3> DEFINE a == x.def
               b == y.def
    <3>1. a \in Int /\ b \in Int
      BY <2>1, PlacesAre
    <3> HIDE DEF a, b
    <3>2. ~(b < a) \/ ~(a < b)
      BY <3>1
    <3> QED
      BY <3>2 DEF a, b
  <2>3. CASE ~(y.def < x.def)
    BY <1>7, <1>9, <2>3 DEF Overlaps, Interfere
  <2>4. CASE ~(x.def < y.def)
    <3>1. y.last > x.def /\ x.last > y.def
      BY <1>9 DEF Overlaps
    <3> QED
      BY <1>7, <1>9, <2>4, <3>1 DEF Interfere
  <2> QED
    BY <2>2, <2>3, <2>4
<1>10. ASSUME Interfere(c, bu, o, r, q)
       PROVE  \E x, y \in R : x.reg = r /\ y.reg = q /\ Overlaps(x, y)
  <2>1. PICK i \in 0..Len : Clobbers(c, bu, o, r, q, i) \/ Clobbers(c, bu, o, q, r, i)
    BY <1>10 DEF Interfere
  <2>2. CASE Clobbers(c, bu, o, r, q, i)
    BY <1>8, <2>2 DEF Overlaps
  <2>3. CASE Clobbers(c, bu, o, q, r, i)
    <3>1. PICK x, y \in R : x.reg = q /\ y.reg = r /\ x.last > y.def /\ y.last > x.def
      BY <1>8, <2>3
    <3>2. y.reg = r /\ x.reg = q /\ Overlaps(y, x)
      BY <3>1 DEF Overlaps
    <3> QED
      BY <3>2
  <2> QED
    BY <2>1, <2>2, <2>3
<1> QED
  BY <1>9, <1>10 DEF R

\* Once a block is analysed, live_interf() gives the register allocator exactly the
\* registers whose values would destroy one another: those where a write in the
\* block (or the entry to it) overwrites a value of the other that is still needed.
THEOREM InterfRight == Spec => []InterfExact
<1>1. ASSUME RangesExact
      PROVE  InterfExact
  <2>1. ASSUME phase = "done", NEW r \in Reg \ {CC}
        PROVE  LiveInterf(ranges, r) = {q \in Reg \ {r, CC} : Interfere(code, branchUse, out, r, q)}
    <3> DEFINE R == ExactRanges(code, branchUse, out)
    <3>1. ranges = R
      BY <1>1, <2>1 DEF RangesExact
    <3>2. \A x \in R : x.reg \in Reg
      BY ReadersType, RangeOfItself DEF ExactRanges
    <3>3. \A q \in Reg : (\E x, y \in R : x.reg = r /\ y.reg = q /\ Overlaps(x, y))
                           <=> Interfere(code, branchUse, out, r, q)
      BY InterfIs
    <3> HIDE DEF R
    <3> QED
      BY <3>1, <3>2, <3>3 DEF LiveInterf
  <2> QED
    BY <2>1 DEF InterfExact
<1> QED
  BY <1>1, RangesRight, PTL

-----------------------------------------------------------------------------
\* Dead store elimination: what holds of the code.

TypesOf(c) == c \in [Index -> Insn]

\* The killed instructions read and write nothing, the others are what they were.
LEMMA KilledAre ==
  ASSUME TypesOf(code), TypesOf(code0), Remains, NEW o, NEW r
  PROVE  /\ Killed \subseteq Index
         /\ \A u \in Readers(code, branchUse, o, r) : u \notin Killed /\ u \in Readers(code0, branchUse, o, r)
         /\ \A u \in Readers(code0, branchUse, o, r) : u \in Killed \/ u \in Readers(code, branchUse, o, r)
         /\ \A k \in Writers(code, r) : k \notin Killed /\ k \in Writers(code0, r)
         /\ \A k \in Writers(code0, r) : k \in Killed \/ k \in Writers(code, r)
<1>1. NOP.use = {} /\ NOP.def = {}
  BY DEF NOP
<1>2. \A i \in Index : i \in Killed <=> code[i] = NOP
  BY DEF Killed
<1>3. \A i \in Index : i \notin Killed => code[i] = code0[i]
  BY <1>2 DEF Remains
<1>4. \A i \in Index : i \in Killed => r \notin code[i].use /\ r \notin code[i].def
  BY <1>1, <1>2
<1>5. Killed \subseteq Index
  BY DEF Killed
<1>6. BRANCH \notin Index /\ AFTER \notin Index
  BY PlacesAre
<1>7. \A k : k \in Writers(code, r) <=> k \in Index /\ r \in code[k].def
  BY DEF Writers
<1>8. \A k : k \in Writers(code0, r) <=> k \in Index /\ r \in code0[k].def
  BY DEF Writers
<1>9. \A u : u \in Readers(code, branchUse, o, r) <=>
              \/ u \in Index /\ r \in code[u].use
              \/ u = BRANCH /\ r \in branchUse
              \/ u = AFTER /\ r \in o
  BY DEF Readers
<1>10. \A u : u \in Readers(code0, branchUse, o, r) <=>
              \/ u \in Index /\ r \in code0[u].use
              \/ u = BRANCH /\ r \in branchUse
              \/ u = AFTER /\ r \in o
  BY DEF Readers
<1> HIDE DEF Killed
<1>11. \A k \in Writers(code, r) : k \notin Killed /\ k \in Writers(code0, r)
  BY <1>3, <1>4, <1>7, <1>8
<1>12. \A k \in Writers(code0, r) : k \in Killed \/ k \in Writers(code, r)
  BY <1>3, <1>7, <1>8
<1>13. \A u \in Readers(code, branchUse, o, r) : u \notin Killed /\ u \in Readers(code0, branchUse, o, r)
  BY <1>3, <1>4, <1>5, <1>6, <1>9, <1>10
<1>14. \A u \in Readers(code0, branchUse, o, r) : u \in Killed \/ u \in Readers(code, branchUse, o, r)
  BY <1>3, <1>9, <1>10
<1> QED
  BY <1>5, <1>11, <1>12, <1>13, <1>14

\* Fewer readers at the end make no instruction useful.
LEMMA UselessMono ==
  ASSUME NEW U, NEW o, NEW o2, o \subseteq o2, Useless(U, o2)
  PROVE  Useless(U, o)
<1>1. ASSUME NEW r, NEW i
      PROVE  ReachedFrom(code0, branchUse, o, r, i) \subseteq ReachedFrom(code0, branchUse, o2, r, i)
  BY DEF ReachedFrom, Reach, Readers
<1> QED
  BY <1>1 DEF Useless

\* A killable instruction whose range is known to be dead writes nothing that is read.
LEMMA KillableIsDead ==
  ASSUME TypesOf(code), Stale, stage = "scan", NEW n \in Index, Killable(n), NEW r \in code[n].def
  PROVE  ReachedFrom(code, branchUse, out, r, n) = {}
<1>1. r \in Reg /\ n \in Places
  BY InsnFields, PlacesAre DEF TypesOf
<1>2. n \in Writers(code, r)
  BY DEF Writers
<1>3. Writers(code, r) \in SUBSET Places
  BY <1>1, ReadersType
<1>4. n \in Begins(Readers(code, branchUse, out, r), Writers(code, r))
  BY <1>2, <1>3, BeginsType
<1>5. RangeByDef(ranges, r, n) # {}
  BY <1>1, <1>4 DEF Stale
<1>6. PICK x \in RangeByDef(ranges, r, n) : TRUE
  BY <1>5
<1>7. x \in ranges /\ x.reg = r /\ x.def = n /\ x.uses = 0
  BY <1>6 DEF RangeByDef, Killable, Dead
<1>8. Covers(x)
  BY <1>7 DEF Stale
<1> QED
  BY <1>7, <1>8 DEF Covers

\* Killing it takes it from the readers that the other values reach.
LEMMA KillReach ==
  ASSUME TypesOf(code), Stale, stage = "scan", NEW n \in Index, Killable(n),
         code' = [code EXCEPT ![n] = NOP], branchUse' = branchUse, out' = out, NEW r \in Reg, NEW d \in Places
  PROVE  /\ ReachedFrom(code, branchUse, out, r, d)' = ReachedFrom(code, branchUse, out, r, d) \ {n}
         /\ Writers(code, r)' = Writers(code, r) \ {n}
<1> DEFINE rs == Readers(code, branchUse, out, r)
           ws == Writers(code, r)
           rs2 == Readers(code', branchUse, out, r)
           ws2 == Writers(code', r)
<1>1. NOP.use = {} /\ NOP.def = {}
  BY DEF NOP
<1>2. \A i \in Index : code'[i] = IF i = n THEN NOP ELSE code[i]
  BY DEF TypesOf
<1>3. rs2 = rs \ {n}
  BY <1>1, <1>2, PlacesAre DEF Readers
<1>4. ws2 = ws \ {n}
  BY <1>1, <1>2 DEF Writers
<1>5. n \in ws => Reach(rs, ws, n) = {}
  BY KillableIsDead DEF ReachedFrom, Writers
<1>6. rs \in SUBSET Places /\ ws \in SUBSET Places /\ n \in Places
  BY ReadersType, PlacesAre
<1>7. ReachedFrom(code, branchUse, out, r, d)' = Reach(rs2, ws2, d)
  BY DEF ReachedFrom, Readers, Writers
<1>8. Writers(code, r)' = ws2
  BY DEF Writers
<1> HIDE DEF rs, ws, rs2, ws2
<1>9. \A p \in Places : p \in Int
  BY PlacesAre
<1>10. ASSUME NEW u \in Reach(rs \ {n}, ws \ {n}, d)
       PROVE  u \in Reach(rs, ws, d)
  <2>1. u \in rs /\ u # n /\ d < u /\ \A k \in ws \ {n} : ~(d < k /\ k < u)
    BY <1>10 DEF Reach
  <2>2. ASSUME n \in ws, d < n, n < u
        PROVE  FALSE
    <3>1. \A k \in ws : ~(n < k /\ k < u)
      <4>1. ASSUME NEW k \in ws, n < k, k < u
            PROVE  FALSE
        <5>1. k \in Int /\ n \in Int /\ d \in Int /\ k # n
          BY <1>6, <1>9, <4>1
        <5>2. d < k
          BY <2>2, <4>1, <5>1
        <5> QED
          BY <2>1, <4>1, <5>1, <5>2
      <4> QED
        BY <4>1
    <3>2. u \in Reach(rs, ws, n)
      BY <2>1, <2>2, <3>1 DEF Reach
    <3> QED
      BY <1>5, <2>2, <3>2
  <2> QED
    BY <2>1, <2>2 DEF Reach
<1>11. Reach(rs \ {n}, ws \ {n}, d) = Reach(rs, ws, d) \ {n}
  <2>1. n \notin Reach(rs \ {n}, ws \ {n}, d)
    BY DEF Reach
  <2>2. ASSUME NEW u \in Reach(rs, ws, d) \ {n}
        PROVE  u \in Reach(rs \ {n}, ws \ {n}, d)
    BY DEF Reach
  <2> QED
    BY <1>10, <2>1, <2>2
<1> QED
  BY <1>3, <1>4, <1>7, <1>8, <1>11 DEF rs, ws, ReachedFrom

\* live_kill_insn() goes through the ranges in the order of the list.
LEMMA BeforeIrreflexive ==
  ASSUME NEW x, x.reg \in Reg, x.def \in Places
  PROVE  ~Before(x, x)
<1> DEFINE N == Cardinality(Reg)
           Right(f) == f \in [Reg -> 1..N] /\ \A r, q \in Reg : f[r] = f[q] => r = q
<1>1. \E f : Right(f)
  <2>1. PICK n \in Nat : ExistsBijection(1..n, Reg)
    BY RegFinite, FS_NatBijection
  <2>2. N = n
    BY <2>1, FS_CountingElements
  <2>3. PICK g \in Bijection(1..n, Reg) : TRUE
    BY <2>1 DEF ExistsBijection
  <2>4. g \in [1..n -> Reg] /\ \A r \in Reg : \E k \in 1..n : g[k] = r
    BY <2>3 DEF Bijection, Injection, Surjection
  <2> DEFINE f == [r \in Reg |-> CHOOSE k \in 1..n : g[k] = r]
  <2>5. \A r \in Reg : f[r] \in 1..n /\ g[f[r]] = r
    BY <2>4
  <2>6. f \in [Reg -> 1..n]
    BY <2>5
  <2> HIDE DEF f, N
  <2>7. \A r, q \in Reg : f[r] = f[q] => r = q
    BY <2>5, Zenon
  <2>8. Right(f)
    BY <2>2, <2>6, <2>7
  <2> QED
    BY <2>8
<1>2. order \in [Reg -> 1..N]
  BY <1>1 DEF order
<1>3. N \in Nat
  BY RegFinite, FS_CardinalityType
<1>4. order[x.reg] \in 1..N
  BY <1>2
<1>5. ~(order[x.reg] < order[x.reg])
  <2> DEFINE k == order[x.reg]
  <2>1. k \in Int
    BY <1>3, <1>4
  <2> HIDE DEF k
  <2>2. ~(k < k)
    BY <2>1
  <2> QED
    BY <2>2 DEF k
<1>6. ~(x.def < x.def)
  <2> DEFINE k == x.def
  <2>1. k \in Int
    BY PlacesAre
  <2> HIDE DEF k
  <2>2. ~(k < k)
    BY <2>1
  <2> QED
    BY <2>2 DEF k
<1> QED
  BY <1>5, <1>6 DEF Before

\* What live_kill_insn() leaves: the ranges of the instruction go, those that ended
\* at it are dead now, and the others are as they were.
LEMMA KillRanges ==
  ASSUME NEW R, NEW n \in Places, \A x \in R : x.reg \in Reg /\ x.def \in Places
  PROVE  /\ \A y \in LiveKillInsn(R, n).ranges :
              \/ y \in R
              \/ \E x \in R : x.def # n /\ x.last = n /\ x.uses = 1 /\ y = Ending(x, x.def, 0)
         /\ \A x \in R : x.def # n =>
              \E y \in LiveKillInsn(R, n).ranges : y.reg = x.reg /\ y.def = x.def
         /\ LiveKillInsn(R, n).valid =>
              \A y \in LiveKillInsn(R, n).ranges :
                y.uses = 0 \/ (y \in R /\ y.last # n)
<1> DEFINE stop == {x \in R : Blocked(x, n)}
           seen == {x \in R : \A y \in stop : Before(x, y)}
           new  == (R \ seen) \cup UNION {KillOne(x, n) : x \in seen}
           K    == LiveKillInsn(R, n)
<1>1. K.ranges = new /\ K.valid = (stop = {})
  BY DEF LiveKillInsn
<1>2. \A x \in seen : x \in R /\ ~Blocked(x, n)
  BY BeforeIrreflexive
<1>3. \A x : /\ x.def = n => KillOne(x, n) = {}
             /\ x.def # n /\ x.last = n => KillOne(x, n) = {Ending(x, x.def, 0)}
             /\ x.def # n /\ x.last # n => KillOne(x, n) = {x}
  BY DEF KillOne
<1>4. \A x : ~Blocked(x, n) /\ x.def # n /\ x.last = n => x.uses = 1
  BY DEF Blocked
<1>5. \A x : Ending(x, x.def, 0).reg = x.reg /\ Ending(x, x.def, 0).def = x.def /\ Ending(x, x.def, 0).uses = 0
  BY DEF Ending
<1>6. \A y : y \in new <=> (y \in R /\ y \notin seen) \/ \E x \in seen : y \in KillOne(x, n)
  OBVIOUS
<1>7. stop = {} => seen = R
  OBVIOUS
<1>8. seen \subseteq R
  OBVIOUS
<1> HIDE DEF stop, seen, new, K
<1>9. ASSUME NEW y \in new
      PROVE  \/ y \in R
             \/ \E x \in R : x.def # n /\ x.last = n /\ x.uses = 1 /\ y = Ending(x, x.def, 0)
  <2>1. ASSUME NEW x \in seen, y \in KillOne(x, n)
        PROVE  \/ y \in R
               \/ \E z \in R : z.def # n /\ z.last = n /\ z.uses = 1 /\ y = Ending(z, z.def, 0)
    <3>1. CASE x.def # n /\ x.last = n
      BY <1>2, <1>3, <1>4, <2>1, <3>1
    <3>2. CASE ~(x.def # n /\ x.last = n)
      BY <1>2, <1>3, <2>1, <3>2
    <3> QED
      BY <3>1, <3>2
  <2> QED
    BY <1>6, <2>1
<1>10. ASSUME NEW x \in R, x.def # n
       PROVE  \E y \in new : y.reg = x.reg /\ y.def = x.def
  <2>1. CASE x \notin seen
    BY <1>6, <2>1
  <2>2. CASE x \in seen /\ x.last = n
    <3>1. Ending(x, x.def, 0) \in new
      BY <1>3, <1>6, <1>10, <2>2
    <3> QED
      BY <1>5, <3>1
  <2>3. CASE x \in seen /\ x.last # n
    <3>1. x \in new
      BY <1>3, <1>6, <1>10, <2>3
    <3> QED
      BY <3>1
  <2> QED
    BY <2>1, <2>2, <2>3
<1>11. ASSUME stop = {}, NEW y \in new
       PROVE  y.uses = 0 \/ (y \in R /\ y.last # n)
  <2>1. PICK x \in seen : y \in KillOne(x, n)
    BY <1>6, <1>7, <1>11
  <2>2. x \in R /\ x.def # n
    BY <1>3, <1>8, <2>1
  <2> QED
    BY <1>3, <1>5, <2>1, <2>2
<1> QED
  BY <1>1, <1>9, <1>10, <1>11 DEF K

\* The true ranges are as good as can be.
LEMMA ExactCovers ==
  ASSUME NEW x \in ExactRanges(code, branchUse, out)
  PROVE  x.reg \in Reg /\ x.def \in Places /\ Covers(x) /\ Tight(x)
<1> DEFINE r == x.reg
           d == x.def
           rs == Readers(code, branchUse, out, r)
           ws == Writers(code, r)
           us == Reach(rs, ws, d)
<1>1. /\ r \in Reg /\ d \in Places
      /\ x = RangeOf(r, Reads(code, branchUse, out)[r], Writes(code)[r], d)
  BY ReadersType, RangeOfItself DEF ExactRanges
<1>2. Reads(code, branchUse, out)[r] = rs /\ Writes(code)[r] = ws /\ rs \in SUBSET Places /\ ws \in SUBSET Places
  BY <1>1, ReadersType
<1>3. us \in SUBSET Places /\ ReachedFrom(code, branchUse, out, r, d) = us
  BY <1>2, ReachType DEF ReachedFrom
<1> HIDE DEF r, d, rs, ws
<1>4. x = RangeOf(r, rs, ws, d)
  BY <1>1, <1>2
<1>5. /\ RangeOf(r, rs, ws, d).last \in Places
      /\ ~(RangeOf(r, rs, ws, d).last < d)
      /\ Reach(rs, ws, d) = {} => RangeOf(r, rs, ws, d).last = d
      /\ Reach(rs, ws, d) # {} => RangeOf(r, rs, ws, d).last \in Reach(rs, ws, d)
      /\ \A u \in Reach(rs, ws, d) : ~(RangeOf(r, rs, ws, d).last < u)
  BY <1>1, <1>2, RangeEnd
<1>6. /\ RangeOf(r, rs, ws, d).uses = Cardinality(Reach(rs, ws, d))
      /\ Reach(rs, ws, d) = {} => RangeOf(r, rs, ws, d).uses = 0
      /\ Reach(rs, ws, d) # {} => RangeOf(r, rs, ws, d).uses # 0
  <2>1. rs \in SUBSET Places /\ d \in Places
    BY <1>1, <1>2
  <2> QED
    BY <2>1, RangeUses
<1>7. IsFiniteSet(us) /\ Cardinality(us) \in Nat
  BY <1>3, PlacesFinite
<1> HIDE DEF us
<1>8. ASSUME Cardinality(us) = 1
      PROVE  us \subseteq {RangeOf(r, rs, ws, d).last}
  <2>1. PICK u : us = {u}
    BY <1>7, <1>8, FS_Singleton
  <2>2. RangeOf(r, rs, ws, d).last \in us
    BY <1>5, <2>1 DEF us
  <2> QED
    BY <2>1, <2>2
<1>9. /\ x.last \in Places /\ x.uses \in Nat /\ ~(x.last < d)
      /\ \A u \in us : ~(x.last < u)
      /\ Cardinality(us) <= x.uses
      /\ x.uses = 1 => us \subseteq {x.last}
      /\ x.uses = 0 => us = {}
  BY <1>4, <1>5, <1>6, <1>7, <1>8 DEF us
<1>10. x.uses # 0 => x.last \in us
  BY <1>4, <1>5, <1>6 DEF us
<1> QED
  BY <1>1, <1>3, <1>9, <1>10 DEF Covers, Tight, r, d

\* A range goes on covering the readers when some of them go.
LEMMA CoversLess ==
  ASSUME NEW x, x.def \in Places, Covers(x), NEW us, us = ReachedFrom(code, branchUse, out, x.reg, x.def),
         NEW vs \in SUBSET us, us \in SUBSET Places
  PROVE  /\ x.last \in Places /\ x.uses \in Nat /\ ~(x.last < x.def)
         /\ \A u \in vs : ~(x.last < u)
         /\ Cardinality(vs) <= x.uses
         /\ x.uses = 1 => vs \subseteq {x.last}
         /\ x.uses = 0 => vs = {}
<1>1. /\ x.last \in Places /\ x.uses \in Nat /\ ~(x.last < x.def)
      /\ \A u \in us : ~(x.last < u)
      /\ Cardinality(us) <= x.uses
      /\ x.uses = 1 => us \subseteq {x.last}
      /\ x.uses = 0 => us = {}
  BY DEF Covers
<1>2. IsFiniteSet(us) /\ Cardinality(us) \in Nat /\ Cardinality(vs) \in Nat
  BY PlacesFinite
<1>3. Cardinality(vs) <= Cardinality(us)
  BY <1>2, FS_Subset
<1>4. Cardinality(vs) <= x.uses
  <2> DEFINE a == Cardinality(vs)
             b == Cardinality(us)
             c == x.uses
  <2>1. a \in Nat /\ b \in Nat /\ c \in Nat /\ a <= b /\ b <= c
    BY <1>1, <1>2, <1>3
  <2> HIDE DEF a, b, c
  <2>2. a <= c
    BY <2>1
  <2> QED
    BY <2>2 DEF a, c
<1> QED
  BY <1>1, <1>4

LEMMA StartStale ==
  ASSUME RInv, Start
  PROVE  Stale'
<1>1. ranges = ExactRanges(code, branchUse, out)
  BY DEF Start, RInv, RangesIInv
<1>2. UNCHANGED <<code, branchUse, out, ranges>> /\ wide' = out /\ invalidated' = FALSE
  BY DEF Start, block
<1>3. ASSUME NEW r \in Reg, NEW d \in Begins(Readers(code, branchUse, out, r), Writers(code, r))
      PROVE  RangeByDef(ranges, r, d) # {}
  <2>1. d \in Begins(Reads(code, branchUse, out)[r], Writes(code)[r])
    BY ReadersType
  <2> DEFINE x == RangeOf(r, Reads(code, branchUse, out)[r], Writes(code)[r], d)
  <2>2. x \in ranges /\ x.reg = r /\ x.def = d
    BY <1>1, <2>1, ReadersType, RangeInList DEF ExactRanges
  <2> QED
    BY <2>2 DEF RangeByDef
<1>4. \A x \in ranges : x.reg \in Reg /\ x.def \in Places /\ Covers(x) /\ Tight(x)
  BY <1>1, ExactCovers
<1>5. \A x : Covers(x)' = Covers(x) /\ Tight(x)' = Tight(x)
  BY <1>2 DEF Covers, Tight, ReachedFrom, Readers, Writers
<1>6. \A r \in Reg : \A d \in Places :
         d \in Begins(Readers(code, branchUse, out, r), Writers(code, r))'
           => RangeByDef(ranges, r, d)' # {}
  BY <1>2, <1>3 DEF Readers, Writers
<1> QED
  BY <1>2, <1>4, <1>5, <1>6 DEF Stale

LEMMA ReachedType ==
  ASSUME NEW r \in Reg, NEW c, NEW o, NEW d
  PROVE  ReachedFrom(c, branchUse, o, r, d) \in SUBSET Places
<1>1. Readers(c, branchUse, o, r) \in SUBSET Places
  BY ReadersType
<1> QED
  BY <1>1, ReachType DEF ReachedFrom

\* The ranges remain usable when live_kill_insn() has updated them.
LEMMA KillStale ==
  ASSUME RInv, TypesOf(code), Stale, Kill
  PROVE  Stale'
<1> DEFINE n == next
           K == LiveKillInsn(ranges, n)
           us(r, d) == ReachedFrom(code, branchUse, out, r, d)
<1>1. /\ stage = "scan" /\ n \in Index /\ Killable(n) /\ code' = [code EXCEPT ![n] = NOP]
      /\ ranges' = K.ranges /\ invalidated' = (invalidated \/ ~K.valid) /\ changed' = TRUE
      /\ branchUse' = branchUse /\ out' = out /\ wide' = wide
  <2>1. next \in Index
    BY LenAssumption DEF Kill, RInv, DeadTypeOK, Index
  <2> QED
    BY <2>1 DEF Kill
<1>2. /\ wide = out
      /\ \A r \in Reg : \A d \in Places :
           d \in Begins(Readers(code, branchUse, out, r), Writers(code, r)) => RangeByDef(ranges, r, d) # {}
      /\ \A x \in ranges : x.reg \in Reg /\ x.def \in Places /\ Covers(x)
      /\ ~invalidated => \A x \in ranges : Tight(x)
  BY <1>1 DEF Stale
<1>3. n \in Places /\ n # BEFORE
  BY <1>1, PlacesAre
<1> HIDE DEF n, K
<1>4. ASSUME NEW r \in Reg, NEW d \in Places
      PROVE  us(r, d)' = us(r, d) \ {n} /\ Writers(code, r)' = Writers(code, r) \ {n}
  BY <1>1, <1>4, KillReach
<1>5. ASSUME NEW r \in Reg, NEW d \in Places, d \in Begins(Readers(code, branchUse, out, r), Writers(code, r))'
      PROVE  RangeByDef(ranges, r, d)' # {}
  <2>1. Begins(Readers(code, branchUse, out, r), Writers(code, r))'
          = Writers(code, r)' \cup {e \in {BEFORE} : us(r, e)' # {}}
    BY DEF Begins, ReachedFrom
  <2>2. Begins(Readers(code, branchUse, out, r), Writers(code, r))
          = Writers(code, r) \cup {e \in {BEFORE} : us(r, e) # {}}
    BY DEF Begins, ReachedFrom
  <2> HIDE DEF us
  <2>3. d \in Begins(Readers(code, branchUse, out, r), Writers(code, r)) /\ d # n
    BY <1>3, <1>4, <1>5, <2>1, <2>2
  <2>4. PICK x \in RangeByDef(ranges, r, d) : TRUE
    BY <1>2, <2>3
  <2>5. x \in ranges /\ x.reg = r /\ x.def = d
    BY <2>4 DEF RangeByDef
  <2>6. \E y \in K.ranges : y.reg = x.reg /\ y.def = x.def
    BY <1>2, <1>3, <2>3, <2>5, KillRanges DEF K
  <2> QED
    BY <1>1, <2>5, <2>6 DEF RangeByDef
<1>6. ASSUME NEW x \in ranges
      PROVE  /\ x.reg \in Reg /\ x.def \in Places /\ Covers(x)'
             /\ Tight(x) /\ x.last # n => Tight(x)'
  <2> DEFINE vs == us(x.reg, x.def)
  <2>1. x.reg \in Reg /\ x.def \in Places /\ Covers(x)
    BY <1>2
  <2>2. vs \in SUBSET Places /\ vs' = vs \ {n}
    BY <1>4, <2>1, ReachedType
  <2>3. vs = ReachedFrom(code, branchUse, out, x.reg, x.def)
    OBVIOUS
  <2>4. Covers(x)' = (/\ x.last \in Places /\ x.uses \in Nat /\ ~(x.last < x.def)
                      /\ \A u \in vs' : ~(x.last < u)
                      /\ Cardinality(vs') <= x.uses
                      /\ x.uses = 1 => vs' \subseteq {x.last}
                      /\ x.uses = 0 => vs' = {})
    BY DEF Covers
  <2>5. Tight(x)' = (x.uses # 0 => x.last \in vs') /\ Tight(x) = (x.uses # 0 => x.last \in vs)
    BY DEF Tight
  <2> HIDE DEF vs, us
  <2>6. vs \ {n} \in SUBSET vs
    OBVIOUS
  <2>7. Covers(x)'
    BY <2>1, <2>2, <2>3, <2>4, <2>6, CoversLess
  <2> QED
    BY <2>1, <2>2, <2>5, <2>7
<1>7. ASSUME NEW x \in ranges, NEW y, x.last = n, x.uses = 1, y = Ending(x, x.def, 0)
      PROVE  y.reg \in Reg /\ y.def \in Places /\ Covers(y)'
  <2> DEFINE vs == us(x.reg, x.def)
  <2>1. x.reg \in Reg /\ x.def \in Places /\ Covers(x)
    BY <1>2
  <2>2. vs' = vs \ {n} /\ vs \subseteq {n}
    BY <1>4, <1>7, <2>1 DEF Covers
  <2>3. y.reg = x.reg /\ y.def = x.def /\ y.last = x.def /\ y.uses = 0
    BY <1>7 DEF Ending
  <2>4. Covers(y)' = (/\ y.last \in Places /\ y.uses \in Nat /\ ~(y.last < y.def)
                      /\ \A u \in vs' : ~(y.last < u)
                      /\ Cardinality(vs') <= y.uses
                      /\ y.uses = 1 => vs' \subseteq {y.last}
                      /\ y.uses = 0 => vs' = {})
    BY <2>3 DEF Covers
  <2> HIDE DEF vs, us
  <2>5. vs' = {} /\ Cardinality(vs') = 0
    BY <2>2, FS_EmptySet
  <2>6. ~(x.def < x.def)
    <3> DEFINE d == x.def
    <3>1. d \in Int
      BY <2>1, PlacesAre
    <3> HIDE DEF d
    <3>2. ~(d < d)
      BY <3>1
    <3> QED
      BY <3>2 DEF d
  <2> QED
    BY <2>1, <2>3, <2>4, <2>5, <2>6
<1>8. ASSUME NEW y \in K.ranges
      PROVE  y.reg \in Reg /\ y.def \in Places /\ Covers(y)'
  <2>1. \/ y \in ranges
        \/ \E x \in ranges : x.def # n /\ x.last = n /\ x.uses = 1 /\ y = Ending(x, x.def, 0)
    BY <1>2, <1>3, KillRanges DEF K
  <2> QED
    BY <1>6, <1>7, <2>1
<1>9. ASSUME ~invalidated', NEW y \in K.ranges
      PROVE  Tight(y)'
  <2>1. ~invalidated /\ K.valid
    BY <1>1, <1>9
  <2>2. y.uses = 0 \/ (y \in ranges /\ y.last # n)
    BY <1>2, <1>3, <2>1, KillRanges DEF K
  <2>3. CASE y.uses = 0
    BY <2>3 DEF Tight
  <2>4. CASE y \in ranges /\ y.last # n
    BY <1>2, <1>6, <2>1, <2>4
  <2> QED
    BY <2>2, <2>3, <2>4
<1> QED
  BY <1>1, <1>2, <1>5, <1>8, <1>9 DEF Stale

\* What a killable instruction writes was read by killed instructions at most.
LEMMA KillUseless ==
  ASSUME RInv, TypesOf(code), TypesOf(code0), Remains, Stale, Useless(Killed, wide), Kill
  PROVE  Remains' /\ Useless(Killed, wide)'
<1> DEFINE n == next
           from(r, i) == ReachedFrom(code0, branchUse, wide, r, i)
<1>1. /\ stage = "scan" /\ n \in Index /\ Killable(n) /\ code' = [code EXCEPT ![n] = NOP]
      /\ code0' = code0 /\ branchUse' = branchUse /\ wide' = wide
  <2>1. next \in Index
    BY LenAssumption DEF Kill, RInv, DeadTypeOK, Index
  <2> QED
    BY <2>1 DEF Kill
<1> HIDE DEF n
<1>2. \A i \in Index : code'[i] = IF i = n THEN NOP ELSE code[i]
  BY <1>1 DEF TypesOf
<1>3. Remains'
  BY <1>1, <1>2 DEF Remains
<1>4. Killed' = Killed \cup {n}
  BY <1>1, <1>2 DEF Killed
<1>5. n \notin Killed /\ code[n] = code0[n] /\ ~code0[n].side
  BY <1>1 DEF Killed, Killable, Remains
<1>6. ASSUME NEW r \in code0[n].def, NEW u \in from(r, n)
      PROVE  u \in Killed
  <2>1. wide = out /\ r \in code[n].def
    BY <1>1, <1>5, <1>6 DEF Stale
  <2>2. ReachedFrom(code, branchUse, out, r, n) = {}
    BY <1>1, <2>1, KillableIsDead
  <2>3. u \in Readers(code0, branchUse, out, r) /\ n < u /\ \A k \in Writers(code0, r) : ~(n < k /\ k < u)
    BY <1>6, <2>1 DEF ReachedFrom, Reach
  <2>4. /\ u \in Killed \/ u \in Readers(code, branchUse, out, r)
        /\ \A k \in Writers(code, r) : k \in Writers(code0, r)
    BY <2>3, KilledAre
  <2>5. u \in Readers(code, branchUse, out, r) => u \in ReachedFrom(code, branchUse, out, r, n)
    BY <2>3, <2>4 DEF ReachedFrom, Reach
  <2> QED
    BY <2>2, <2>4, <2>5
<1>7. ASSUME NEW i \in Killed
      PROVE  ~code0[i].side /\ \A r \in code0[i].def : from(r, i) \subseteq Killed
  BY DEF Useless
<1>8. \A r, i : from(r, i)' = from(r, i)
  BY <1>1 DEF ReachedFrom, Readers, Writers
<1> HIDE DEF Killed, from
<1>9. \A i \in Killed \cup {n} :
        ~code0[i].side /\ \A r \in code0[i].def : from(r, i) \subseteq Killed \cup {n}
  BY <1>5, <1>6, <1>7
<1>10. Useless(Killed, wide)'
  <2>1. Useless(Killed, wide)' = \A i \in Killed' :
          ~code0'[i].side /\ \A r \in code0'[i].def : from(r, i)' \subseteq Killed'
    BY DEF Useless, from
  <2> QED
    BY <1>1, <1>4, <1>8, <1>9, <2>1
<1> QED
  BY <1>3, <1>10

-----------------------------------------------------------------------------
\* Dead store elimination: the invariant.

LEMMA DInit == Init => DeadIInv
<1> SUFFICES ASSUME Init PROVE DeadIInv
  OBVIOUS
<1>1. RInv
  BY RInit
<1>2. code \in [Index -> Insns] /\ code0 = code /\ stage = "analyze"
  BY DEF Init, AnalyzeInit
<1>3. Remains
  BY <1>2 DEF Remains
<1>4. Stale /\ Scanned
  BY <1>2 DEF Stale, Scanned
<1>5. Useless(Killed, wide)
  BY <1>2 DEF Useless, Killed, NOP
<1> QED
  BY <1>1, <1>2, <1>3, <1>4, <1>5 DEF DeadIInv, RInv

\* What the properties of the code depend on.
LEMMA SameCode ==
  ASSUME UNCHANGED <<code, branchUse, code0>>
  PROVE  /\ Remains' = Remains /\ Killed' = Killed
         /\ \A U, o : Useless(U, o)' = Useless(U, o)
BY DEF Remains, Killed, Useless, ReachedFrom, Readers, Writers

LEMMA SameRanges ==
  ASSUME UNCHANGED <<code, branchUse, out, ranges>>
  PROVE  /\ \A i : Killable(i)' = Killable(i)
         /\ UNCHANGED <<wide, changed, invalidated>> /\ stage # "analyze" /\ Stale => Stale'
<1>1. \A i : Killable(i)' = Killable(i)
  BY DEF Killable, RangeByDef
<1>2. \A x : Covers(x)' = Covers(x) /\ Tight(x)' = Tight(x)
  BY DEF Covers, Tight, ReachedFrom, Readers, Writers
<1>3. ASSUME NEW r
      PROVE  Readers(code, branchUse, out, r)' = Readers(code, branchUse, out, r)
             /\ Writers(code, r)' = Writers(code, r)
  BY DEF Readers, Writers
<1>4. \A r, d : RangeByDef(ranges, r, d)' = RangeByDef(ranges, r, d)
  BY DEF RangeByDef
<1>5. \A r : Begins(Readers(code, branchUse, out, r), Writers(code, r))'
                = Begins(Readers(code, branchUse, out, r), Writers(code, r))
  BY <1>3 DEF Begins, Reach
<1>6. ASSUME UNCHANGED <<wide, changed, invalidated>>, stage # "analyze", Stale
      PROVE  Stale'
  <2>1. /\ wide = out /\ (invalidated => changed)
        /\ \A r \in Reg : \A d \in Places :
             d \in Begins(Readers(code, branchUse, out, r), Writers(code, r))
               => RangeByDef(ranges, r, d) # {}
        /\ \A x \in ranges : x.reg \in Reg /\ x.def \in Places /\ Covers(x)
        /\ ~invalidated => \A x \in ranges : Tight(x)
    BY <1>6 DEF Stale
  <2>2. \A r \in Reg : \A d \in Places :
             d \in Begins(Readers(code, branchUse, out, r), Writers(code, r))'
               => RangeByDef(ranges, r, d)' # {}
    BY <1>4, <1>5, <2>1
  <2>3. \A x \in ranges' : x.reg \in Reg /\ x.def \in Places /\ Covers(x)'
    BY <1>2, <2>1
  <2>4. ~invalidated' => \A x \in ranges' : Tight(x)'
    BY <1>2, <1>6, <2>1
  <2> QED
    BY <1>6, <2>1, <2>2, <2>3, <2>4 DEF Stale
<1> QED
  BY <1>1, <1>6

LEMMA DNext == DeadIInv /\ [Next]_vars => DeadIInv'
<1> SUFFICES ASSUME DeadIInv, [Next]_vars PROVE DeadIInv'
  OBVIOUS
<1>0. /\ RInv /\ TypesOf(code) /\ TypesOf(code0) /\ DeadTypeOK
      /\ Remains /\ Useless(Killed, wide) /\ Stale /\ Scanned
      /\ stage = "returned" => ~invalidated /\ \A i \in Index : ~Killable(i)
  BY DEF DeadIInv, RInv, RangesIInv, RangesTypeOK, DeadTypeOK, TypesOf
<1>1. RInv'
  BY <1>0, RNext
<1>2. \A i \in Index : ~(i < 1)
  BY LenAssumption DEF Index
<1> HIDE DEF DeadIInv
<1> SUFFICES /\ Remains' /\ Useless(Killed, wide)' /\ Stale' /\ Scanned'
             /\ (stage = "returned")' => (~invalidated /\ \A i \in Index : ~Killable(i))'
  BY <1>1 DEF DeadIInv, RInv
<1>3. CASE Analyze
  <2>1. UNCHANGED <<code, branchUse, code0>> /\ wide' = wide /\ stage' = "analyze"
    BY <1>3 DEF Analyze, deadVars, AnalyzeNext, Scan, EndLocal, Global, Final, block
  <2>2. Remains' /\ Useless(Killed, wide)'
    BY <1>0, <2>1, SameCode
  <2> QED
    BY <2>1, <2>2 DEF Stale, Scanned
<1>4. CASE Start
  <2>1. /\ UNCHANGED <<code, branchUse, code0>> /\ wide' = out /\ stage' = "scan" /\ next' = 1
        /\ out \subseteq wide
    BY <1>0, <1>4 DEF Start, block, DeadTypeOK
  <2>2. Remains' /\ Killed' = Killed /\ \A U, o : Useless(U, o)' = Useless(U, o)
    BY <1>0, <2>1, SameCode
  <2>3. Useless(Killed, out)
    BY <1>0, <2>1, UselessMono
  <2>4. Useless(Killed, wide)'
    <3>1. \A r, i : ReachedFrom(code0, branchUse, wide, r, i)' = ReachedFrom(code0, branchUse, out, r, i)
      BY <2>1 DEF ReachedFrom, Readers, Writers
    <3>2. Useless(Killed, wide)' = \A i \in Killed' :
            ~code0'[i].side
              /\ \A r \in code0'[i].def : ReachedFrom(code0, branchUse, wide, r, i)' \subseteq Killed'
      BY DEF Useless
    <3>3. \A i \in Killed :
            ~code0[i].side
              /\ \A r \in code0[i].def : ReachedFrom(code0, branchUse, out, r, i) \subseteq Killed
      BY <2>3 DEF Useless
    <3> QED
      BY <2>1, <2>2, <3>1, <3>2, <3>3
  <2>5. Stale'
    BY <1>0, <1>4, StartStale
  <2>6. Scanned'
    BY <1>2, <2>1 DEF Scanned
  <2> QED
    BY <2>1, <2>2, <2>4, <2>5, <2>6
<1>5. CASE Skip
  <2>1. /\ UNCHANGED <<code, branchUse, code0, out, ranges, wide, stage, changes, changed, invalidated>>
        /\ stage = "scan" /\ ~Killable(next) /\ next' = next + 1 /\ next \in Int
    BY <1>0, <1>5, LenAssumption DEF Skip, block, deadVars, DeadTypeOK
  <2>2. Remains' /\ Useless(Killed, wide)'
    BY <1>0, <2>1, SameCode
  <2>3. Stale' /\ \A i : Killable(i)' = Killable(i)
    BY <1>0, <2>1, SameRanges
  <2>4. ASSUME NEW i \in Index, i < next + 1
        PROVE  i < next \/ i = next
    BY <2>1, <2>4, PlacesAre
  <2>5. Scanned'
    BY <1>0, <2>1, <2>3, <2>4 DEF Scanned
  <2> QED
    BY <2>1, <2>2, <2>3, <2>5
<1>6. CASE Kill
  <2>1. Remains' /\ Useless(Killed, wide)' /\ Stale'
    BY <1>0, <1>6, KillUseless, KillStale
  <2>2. changes' = TRUE /\ stage' = "scan"
    BY <1>6 DEF Kill
  <2> QED
    BY <2>1, <2>2 DEF Scanned
<1>7. CASE Rescan
  <2>1. /\ UNCHANGED <<code, branchUse, code0, out, ranges, wide, stage, changed, invalidated>>
        /\ stage = "scan" /\ next' = 1
    BY <1>7 DEF Rescan, block
  <2>2. Remains' /\ Useless(Killed, wide)'
    BY <1>0, <2>1, SameCode
  <2>3. Stale'
    BY <1>0, <2>1, SameRanges
  <2>4. Scanned'
    BY <1>2, <2>1 DEF Scanned
  <2> QED
    BY <2>1, <2>2, <2>3, <2>4
<1>8. CASE Return
  <2>1. /\ UNCHANGED <<code, branchUse, code0, wide, changes, changed, invalidated>>
        /\ stage = "scan" /\ ~changes /\ next = Len + 1
    BY <1>8 DEF Return, block, ScanAgain
  <2>2. Remains' /\ Useless(Killed, wide)'
    BY <1>0, <2>1, SameCode
  <2>3. CASE changed /\ invalidated
    <3>1. stage' = "analyze"
      BY <1>8, <2>3 DEF Return
    <3> QED
      BY <2>2, <3>1 DEF Stale, Scanned
  <2>4. CASE ~(changed /\ invalidated)
    <3>1. stage' = "returned" /\ UNCHANGED <<ranges, out>> /\ ~invalidated
      BY <1>0, <1>8, <2>1, <2>4 DEF Return, Stale
    <3>2. Stale' /\ \A i : Killable(i)' = Killable(i)
      BY <1>0, <2>1, <3>1, SameRanges
    <3>3. \A i \in Index : i < next
      BY <2>1, LenAssumption DEF Index
    <3>4. \A i \in Index : ~Killable(i)
      BY <1>0, <2>1, <3>3 DEF Scanned
    <3> QED
      BY <2>1, <2>2, <3>1, <3>2, <3>4 DEF Scanned
  <2> QED
    BY <2>3, <2>4
<1>9. CASE UNCHANGED vars
  <2>1. /\ UNCHANGED <<code, branchUse, code0, out, ranges, wide, stage, changes, changed, invalidated, next>>
    BY <1>9 DEF vars, analyzeVars, block, deadVars
  <2>2. Remains' /\ Useless(Killed, wide)'
    BY <1>0, <2>1, SameCode
  <2>3. Stale' /\ \A i : Killable(i)' = Killable(i)
    <3>1. CASE stage = "analyze"
      BY <2>1, <3>1, SameRanges DEF Stale
    <3>2. CASE stage # "analyze"
      BY <1>0, <2>1, <3>2, SameRanges
    <3> QED
      BY <3>1, <3>2
  <2> QED
    BY <1>0, <2>1, <2>2, <2>3 DEF Scanned
<1> QED
  BY <1>3, <1>4, <1>5, <1>6, <1>7, <1>8, <1>9 DEF Next

LEMMA DInvariant == Spec => []DeadIInv
BY DInit, DNext, PTL DEF Spec

-----------------------------------------------------------------------------
\* Dead store elimination: what follows.

\* dead() kills no instruction whose effect could be seen, for every block and
\* however the ranges were updated between two analyses: what the killed ones
\* wrote was read by killed ones only.
THEOREM KilledAreUseless == Spec => []KillsOnlyUseless
<1>1. ASSUME DeadIInv
      PROVE  KillsOnlyUseless
  <2>1. Useless(Killed, wide) /\ out \subseteq wide
    BY <1>1 DEF DeadIInv, DeadTypeOK
  <2> QED
    BY <2>1, UselessMono DEF KillsOnlyUseless
<1> QED
  BY <1>1, DInvariant, PTL

\* While dead0() scans, every true range is covered by one of the list, as the
\* comment of live_kill_insn() promises.
THEOREM StaleButUsable == Spec => []Pessimistic
<1>1. ASSUME DeadIInv
      PROVE  Pessimistic
  <2>1. ASSUME stage = "scan", NEW e \in ExactRanges(code, branchUse, out)
        PROVE  \E x \in RangeByDef(ranges, e.reg, e.def) : x.last >= e.last /\ x.uses >= e.uses
    <3> DEFINE r == e.reg
               d == e.def
               rs == Readers(code, branchUse, out, r)
               ws == Writers(code, r)
               us == Reach(rs, ws, d)
    <3>1. /\ r \in Reg /\ d \in Places /\ d \in Begins(Reads(code, branchUse, out)[r], Writes(code)[r])
          /\ e = RangeOf(r, Reads(code, branchUse, out)[r], Writes(code)[r], d)
      BY ReadersType, RangeOfItself DEF ExactRanges
    <3>2. Reads(code, branchUse, out)[r] = rs /\ Writes(code)[r] = ws /\ rs \in SUBSET Places
      BY <3>1, ReadersType
    <3>3. /\ \A q \in Reg : \A p \in Places :
               p \in Begins(Readers(code, branchUse, out, q), Writers(code, q)) => RangeByDef(ranges, q, p) # {}
          /\ \A x \in ranges : x.reg \in Reg /\ x.def \in Places /\ Covers(x)
      BY <1>1, <2>1 DEF DeadIInv, Stale
    <3>4. d \in Begins(rs, ws)
      BY <3>1, <3>2
    <3>5. PICK x \in RangeByDef(ranges, r, d) : TRUE
      BY <3>1, <3>3, <3>4
    <3>6. x \in ranges /\ x.reg = r /\ x.def = d
      BY <3>5 DEF RangeByDef
    <3>7. /\ x.last \in Places /\ x.uses \in Nat /\ ~(x.last < d)
          /\ \A u \in us : ~(x.last < u)
          /\ Cardinality(us) <= x.uses
      BY <3>3, <3>6 DEF Covers, ReachedFrom
    <3> HIDE DEF r, d, rs, ws
    <3>8. e = RangeOf(r, rs, ws, d)
      BY <3>1, <3>2
    <3>9. /\ RangeOf(r, rs, ws, d).last \in Places
          /\ Reach(rs, ws, d) = {} => RangeOf(r, rs, ws, d).last = d
          /\ Reach(rs, ws, d) # {} => RangeOf(r, rs, ws, d).last \in Reach(rs, ws, d)
      BY <3>1, <3>2, RangeEnd
    <3>10. RangeOf(r, rs, ws, d).uses = Cardinality(Reach(rs, ws, d))
      <4>1. rs \in SUBSET Places /\ d \in Places
        BY <3>1, <3>2
      <4> QED
        BY <4>1, RangeUses
    <3>11. Cardinality(us) \in Nat
      <4>1. rs \in SUBSET Places
        BY <3>2
      <4> QED
        BY <4>1, ReachType, PlacesFinite
    <3>12. ~(x.last < e.last) /\ e.last \in Places
      BY <3>7, <3>8, <3>9
    <3>13. x.last >= e.last
      <4> DEFINE a == x.last
                 b == e.last
      <4>1. a \in Int /\ b \in Int /\ ~(a < b)
        BY <3>7, <3>12, PlacesAre
      <4> HIDE DEF a, b
      <4>2. a >= b
        BY <4>1
      <4> QED
        BY <4>2 DEF a, b
    <3>14. x.uses >= e.uses
      <4> DEFINE a == x.uses
                 b == Cardinality(us)
      <4>1. a \in Nat /\ b \in Nat /\ b <= a /\ e.uses = b
        BY <3>7, <3>8, <3>10, <3>11
      <4> HIDE DEF a, b
      <4>2. a >= b
        BY <4>1
      <4> QED
        BY <4>1, <4>2 DEF a
    <3>15. x \in RangeByDef(ranges, e.reg, e.def)
      BY <3>5 DEF r, d
    <3> QED
      BY <3>13, <3>14, <3>15
  <2> QED
    BY <2>1 DEF Pessimistic
<1> QED
  BY <1>1, DInvariant, PTL

\* dead() returns only when no set of useless instructions is left, although it
\* recomputes the ranges only when live_kill_insn() admits that it lost track.
THEOREM UselessAreKilled == Spec => []KillsAllUseless
<1>1. ASSUME DeadIInv
      PROVE  KillsAllUseless
  <2>1. ASSUME stage = "returned", NEW U \in SUBSET Index, Useless(U, out), ~(U \subseteq Killed)
        PROVE  FALSE
    <3>1. /\ TypesOf(code) /\ TypesOf(code0) /\ Remains /\ Useless(Killed, out)
          /\ \A x \in ranges : x.reg \in Reg /\ x.def \in Places /\ Tight(x)
          /\ \A i \in Index : ~Killable(i)
      <4>1. Useless(Killed, wide) /\ out \subseteq wide
        BY <1>1 DEF DeadIInv, DeadTypeOK
      <4> QED
        BY <1>1, <2>1, <4>1, UselessMono
           DEF DeadIInv, RangesIInv, RangesTypeOK, DeadTypeOK, TypesOf, Stale
    <3>2. AFTER \in Nat /\ U \ Killed \in SUBSET (0..AFTER) /\ U \ Killed # {}
      BY <2>1, PlacesAre DEF Places
    <3>3. PICK g \in U \ Killed : \A y \in U \ Killed : y <= g
      BY <3>2, Greatest
    <3>4. g \in Index /\ code[g] # NOP /\ code[g] = code0[g] /\ ~code0[g].side
      BY <2>1, <3>1, <3>3 DEF Killed, Remains, Useless
    <3>5. PICK r \in code[g].def : \E x \in RangeByDef(ranges, r, g) : ~Dead(x)
      BY <3>1, <3>4 DEF Killable
    <3>6. PICK x \in RangeByDef(ranges, r, g) : ~Dead(x)
      BY <3>5
    <3>7. x \in ranges /\ x.reg = r /\ x.def = g /\ x.uses # 0
      BY <3>6 DEF RangeByDef, Dead
    <3> DEFINE u == x.last
               ws0 == Writers(code0, r)
    <3>8. u \in Readers(code, branchUse, out, r) /\ g < u /\ \A k \in Writers(code, r) : ~(g < k /\ k < u)
      BY <3>1, <3>7 DEF Tight, ReachedFrom, Reach
    <3>9. /\ u \notin Killed /\ u \in Readers(code0, branchUse, out, r)
          /\ \A k \in ws0 : k \in Killed \/ k \in Writers(code, r)
      BY <3>1, <3>8, KilledAre
    <3>10. r \in Reg /\ u \in Places /\ ws0 \in SUBSET Places
      BY <3>1, <3>4, <3>8, InsnFields, ReadersType DEF TypesOf
    <3> HIDE DEF u, ws0
    <3>11. g \in Int /\ u \in Int
      BY <3>4, <3>10, PlacesAre
    \* The write before u that u read when the block was as it was given.
    <3> DEFINE W == {k \in ws0 : g < k /\ k < u}
    <3>12. CASE W = {}
      <4>1. u \in ReachedFrom(code0, branchUse, out, r, g)
        BY <3>8, <3>9, <3>12 DEF ReachedFrom, Reach, ws0
      <4>2. u \in U
        BY <2>1, <3>3, <3>4, <3>5, <4>1 DEF Useless
      <4>3. u <= g
        BY <3>3, <3>9, <4>2
      <4> QED
        BY <3>8, <3>11, <4>3
    <3>13. CASE W # {}
      <4>1. W \in SUBSET (0..AFTER)
        BY <3>10 DEF Places
      <4>2. PICK k \in W : \A y \in W : y <= k
        BY <3>2, <3>13, <4>1, Greatest
      <4>3. k \in ws0 /\ g < k /\ k < u /\ k \in Int
        BY <3>10, <4>2, PlacesAre
      <4>4. k \in Killed
        BY <3>8, <3>9, <4>3
      <4>5. ASSUME NEW y \in ws0, k < y, y < u
            PROVE  FALSE
        <5>1. y \in Int
          BY <3>10, PlacesAre
        <5>2. y \in W
          BY <3>11, <4>3, <4>5, <5>1
        <5>3. y <= k
          BY <4>2, <5>2
        <5> QED
          BY <4>3, <4>5, <5>1, <5>3
      <4>6. u \in ReachedFrom(code0, branchUse, out, r, k)
        BY <3>9, <4>3, <4>5 DEF ReachedFrom, Reach, ws0
      <4>7. r \in code0[k].def
        BY <4>3 DEF ws0, Writers
      <4> QED
        BY <3>1, <3>9, <4>4, <4>6, <4>7 DEF Useless
    <3> QED
      BY <3>12, <3>13
  <2> QED
    BY <2>1 DEF KillsAllUseless
<1> QED
  BY <1>1, DInvariant, PTL
=============================================================================
