---------------------------- MODULE DriverProofs ----------------------------
(***************************************************************************)
(* The driver, for every command line and every goal, whichever command    *)
(* fails: nothing is left behind that was not asked for, the files of the  *)
(* user are kept, and after success the result is complete.  The heart of  *)
(* the invariant is the list of temp files: at every moment what has been  *)
(* made is either a result or on the list (Tidy), and what the user named  *)
(* is not on it (Kept).                                                    *)
(***************************************************************************)
EXTENDS Driver, SequenceTheorems, TLAPS

-----------------------------------------------------------------------------

\* An object file more.
LEMMA OneMore ==
  ASSUME argv \in Seq(File), NEW l \in Seq(File), NEW n \in 1..Len(argv),
         ObjectsOf(l, n - 1), Linkable(argv[n][2])
  PROVE  ObjectsOf(Append(l, <<argv[n][1], "o">>), n)
<1> DEFINE m == Append(l, <<argv[n][1], "o">>)
<1>1. /\ Len(l) \in Nat /\ DOMAIN l = 1..Len(l) /\ DOMAIN m = 1..(Len(l) + 1)
      /\ m[Len(l) + 1] = <<argv[n][1], "o">>
      /\ \A j \in 1..Len(l) : m[j] = l[j]
  OBVIOUS
<1>2. PICK k \in [DOMAIN l -> 1..(n - 1)] :
        /\ \A i, j \in DOMAIN l : i < j => k[i] < k[j]
        /\ \A i \in 1..(n - 1) : Linkable(argv[i][2]) <=> \E j \in DOMAIN l : k[j] = i
        /\ \A j \in DOMAIN l : l[j] = <<argv[k[j]][1], "o">>
  BY DEF ObjectsOf
<1>3. n \in Nat \ {0}
  OBVIOUS
<1> HIDE DEF m
<1> DEFINE K == [j \in DOMAIN m |-> IF j = Len(l) + 1 THEN n ELSE k[j]]
<1>4. K[Len(l) + 1] = n /\ \A j \in 1..Len(l) : K[j] = k[j] /\ k[j] \in 1..(n - 1)
  BY <1>1, <1>2, SMTT(30)
<1>5. K \in [DOMAIN m -> 1..n]
  BY <1>1, <1>2, <1>3
<1> HIDE DEF K
<1>6. \A i, j \in DOMAIN m : i < j => K[i] < K[j]
  <2> SUFFICES ASSUME NEW i \in DOMAIN m, NEW j \in DOMAIN m, i < j
               PROVE  K[i] < K[j]
    OBVIOUS
  <2>1. i \in 1..Len(l)
    BY <1>1
  <2>2. CASE j = Len(l) + 1
    BY <2>1, <2>2, <1>3, <1>4
  <2>3. CASE j \in 1..Len(l)
    BY <2>1, <2>3, <1>1, <1>2, <1>4
  <2> QED
    BY <2>2, <2>3, <1>1
<1>7. \A i \in 1..n : Linkable(argv[i][2]) <=> \E j \in DOMAIN m : K[j] = i
  <2> SUFFICES ASSUME NEW i \in 1..n
               PROVE  Linkable(argv[i][2]) <=> \E j \in DOMAIN m : K[j] = i
    OBVIOUS
  <2>1. CASE i = n
    BY <2>1, <1>1, <1>4
  <2>2. CASE i \in 1..(n - 1)
    <3>1. Linkable(argv[i][2]) <=> \E j \in DOMAIN l : k[j] = i
      BY <2>2, <1>2
    <3>2. \A j \in DOMAIN m : K[j] = i <=> j \in DOMAIN l /\ k[j] = i
      BY <2>2, <1>1, <1>3, <1>4
    <3>3. DOMAIN l \subseteq DOMAIN m
      BY <1>1
    <3> QED
      BY <3>1, <3>2, <3>3, Zenon
  <2> QED
    BY <2>1, <2>2, <1>3
<1>8. \A j \in DOMAIN m : m[j] = <<argv[K[j]][1], "o">>
  BY <1>1, <1>2, <1>4, SMTT(30)
<1> QED
  BY <1>5, <1>6, <1>7, <1>8 DEF ObjectsOf, m

\* An argument that is not linked.
LEMMA NoneMore ==
  ASSUME argv \in Seq(File), NEW l \in Seq(File), NEW n \in 1..Len(argv),
         ObjectsOf(l, n - 1), ~Linkable(argv[n][2])
  PROVE  ObjectsOf(l, n)
<1>1. PICK k \in [DOMAIN l -> 1..(n - 1)] :
        /\ \A i, j \in DOMAIN l : i < j => k[i] < k[j]
        /\ \A i \in 1..(n - 1) : Linkable(argv[i][2]) <=> \E j \in DOMAIN l : k[j] = i
        /\ \A j \in DOMAIN l : l[j] = <<argv[k[j]][1], "o">>
  BY DEF ObjectsOf
<1>2. n \in Nat \ {0}
  OBVIOUS
<1>3. k \in [DOMAIN l -> 1..n]
  BY <1>1, <1>2
<1>4. \A i \in 1..n : Linkable(argv[i][2]) <=> \E j \in DOMAIN l : k[j] = i
  <2> SUFFICES ASSUME NEW i \in 1..n
               PROVE  Linkable(argv[i][2]) <=> \E j \in DOMAIN l : k[j] = i
    OBVIOUS
  <2>1. CASE i = n
    BY <2>1, <1>1, <1>2
  <2>2. CASE i \in 1..(n - 1)
    BY <2>2, <1>1
  <2> QED
    BY <2>1, <2>2, <1>2
<1> QED
  BY <1>1, <1>3, <1>4 DEF ObjectsOf

-----------------------------------------------------------------------------

LEMMA InitIInv == Init => IInv
<1> SUFFICES ASSUME Init PROVE IInv
  OBVIOUS
<1>1. argv \in Seq(File) /\ Len(argv) \in Nat \ {0}
  <2>1. PICK n \in 0..MaxArgs : argv \in [1..n -> File]
    BY DEF Init, SeqOf
  <2>2. n \in Nat /\ argv # <<>>
    BY <2>1, MaxArgsAssumption DEF Init
  <2> QED
    BY <2>1, <2>2
<1>2. argv[1] \in File /\ 1 \in DOMAIN argv
  BY <1>1
<1>3. TypeOK
  <2>1. next \in 1..(Len(argv) + 1) /\ ld \in Seq(File)
    BY <1>1 DEF Init
  <2>2. disk \in [File \cup {AOut} -> {"none", "user", "made", "partial"}]
    BY DEF Init
  <2> QED
    BY <1>1, <1>2, <2>1, <2>2 DEF Init, TypeOK
<1>4. InStage /\ Tidy /\ Kept /\ Cleaned /\ Delivered
  <2>1. \A i \in 1..Len(argv) : argv[i] \in File /\ argv[i] \in ToSet(argv)
    BY <1>1 DEF ToSet
  <2> QED
    BY <2>1 DEF Init, InStage, Tidy, Kept, Cleaned, Delivered, Exited
<1>5. SoFar
  <2>1. ObjectsOf(<<>>, 0)
    <3> DEFINE k == [j \in {} |-> 1]
    <3>1. DOMAIN <<>> = {} /\ 1..0 = {}
      OBVIOUS
    <3>2. k \in [DOMAIN <<>> -> 1..0]
      BY <3>1
    <3> QED
      BY <3>1, <3>2 DEF ObjectsOf
  <2> QED
    BY <2>1 DEF Init, SoFar
<1> QED
  BY <1>3, <1>4, <1>5 DEF IInv

-----------------------------------------------------------------------------
\* The steps, one by one.

\* What a name is after a stage.
LEMMA MorphTypes ==
  ASSUME NEW f \in File, f[2] \in {"c", "i", "s"}
  PROVE  /\ Morph(f) \in File
         /\ Morph(f) = <<f[1], Morph(f)[2]>> /\ Morph(f)[1] = f[1]
         /\ f[2] = "c" => Morph(f)[2] = "i"
         /\ f[2] = "i" => Morph(f)[2] = "s"
         /\ f[2] = "s" => Morph(f)[2] = "o"
BY DEF Morph, File, Ext

\* error(): the files on the list go, whatever else there is stays.
LEMMA AbortStep ==
  ASSUME IInv, Running, Abort
  PROVE  IInv'
<1> USE DEF IInv
<1>1. /\ argv' = argv /\ goal' = goal /\ next' = next /\ src' = src
      /\ temps' = temps /\ ld' = ld /\ pc' = "failed"
  BY DEF Abort
<1>2. DOMAIN disk = File \cup {AOut}
  BY DEF TypeOK
<1>3. /\ DOMAIN disk' = DOMAIN disk
      /\ \A f \in DOMAIN disk : disk'[f] = IF f \in temps THEN "none" ELSE disk[f]
  BY DEF Abort, Removed
<1>4. TypeOK'
  <2>1. disk' \in [File \cup {AOut} -> {"none", "user", "made", "partial"}]
    BY DEF Abort, Removed, TypeOK
  <2> QED
    BY <1>1, <2>1 DEF TypeOK
<1>5. InStage' /\ Tidy' /\ SoFar' /\ Delivered'
  BY <1>1 DEF InStage, Tidy, SoFar, Delivered, Running
<1>6. Cleaned'
  BY <1>1, <1>2, <1>3 DEF Cleaned, Tidy
<1>7. Kept'
  <2>1. \A i \in 1..Len(argv) : argv[i] \in DOMAIN disk
    BY <1>2 DEF TypeOK
  <2>2. ASSUME Distinct, NEW i \in 1..Len(argv)
        PROVE  disk'[argv[i]] = "user"
    BY <2>1, <2>2, <1>3 DEF Kept
  <2> QED
    BY <2>2, <1>1 DEF Kept, Distinct, Running
<1> QED
  BY <1>4, <1>5, <1>6, <1>7

\* run() when the command fails: the file it was to write goes too, and that is
\* not one the user named.
LEMMA RunFailsStep ==
  ASSUME IInv, Running, NEW out \in File \cup {AOut}, RunFails(out),
         Distinct => \A i \in 1..Len(argv) : argv[i] # out
  PROVE  IInv'
<1> USE DEF IInv
<1>1. /\ argv' = argv /\ goal' = goal /\ next' = next /\ src' = src
      /\ temps' = temps \cup {out} /\ ld' = ld /\ pc' = "failed"
  BY DEF RunFails
<1>2. DOMAIN disk = File \cup {AOut}
  BY DEF TypeOK
<1>3. PICK d : disk' = Removed([disk EXCEPT ![out] = d], temps \cup {out})
  BY DEF RunFails
<1>4. /\ DOMAIN disk' = DOMAIN disk
      /\ \A f \in DOMAIN disk :
           disk'[f] = IF f \in temps \cup {out} THEN "none" ELSE disk[f]
  BY <1>2, <1>3 DEF Removed
<1>5. TypeOK'
  <2>1. disk' \in [File \cup {AOut} -> {"none", "user", "made", "partial"}]
    BY <1>2, <1>3, <1>4 DEF Removed, TypeOK
  <2> QED
    BY <1>1, <2>1 DEF TypeOK
<1>6. InStage' /\ Tidy' /\ SoFar' /\ Delivered'
  BY <1>1 DEF InStage, Tidy, SoFar, Delivered, Running
<1>7. Cleaned'
  BY <1>1, <1>2, <1>4 DEF Cleaned, Tidy
<1>8. Kept'
  <2>1. \A i \in 1..Len(argv) : argv[i] \in DOMAIN disk
    BY <1>2 DEF TypeOK
  <2>2. ASSUME Distinct, NEW i \in 1..Len(argv)
        PROVE  disk'[argv[i]] = "user"
    BY <2>1, <2>2, <1>4 DEF Kept
  <2> QED
    BY <2>2, <1>1 DEF Kept, Distinct, Running
<1> QED
  BY <1>5, <1>6, <1>7, <1>8

\* The output of a stage is not a file the user named.
LEMMA NewName ==
  ASSUME IInv, pc = "stage"
  PROVE  /\ src \in File /\ src[2] \in {"c", "i", "s"} /\ next \in 1..Len(argv)
         /\ Morph(src) \in File
         /\ Distinct => \A i \in 1..Len(argv) : argv[i] # Morph(src)
<1> USE DEF IInv
<1>1. /\ next \in 1..Len(argv) /\ src \in File /\ src[1] = argv[next][1]
      /\ src[2] \in Becomes(argv[next][2])
  BY DEF InStage, TypeOK
<1>2. src[2] \in {"c", "i", "s"}
  BY <1>1 DEF Becomes
<1>3. Morph(src) \in File /\ Morph(src)[1] = src[1] /\ Morph(src)[2] # argv[next][2]
  BY <1>1, <1>2, MorphTypes DEF Becomes
<1>4. ASSUME Distinct, NEW i \in 1..Len(argv), argv[i] = Morph(src)
      PROVE  FALSE
  <2>1. i = next
    BY <1>1, <1>3, <1>4 DEF Distinct
  <2> QED
    BY <2>1, <1>3, <1>4
<1> QED
  BY <1>1, <1>2, <1>3, <1>4

LEMMA TakeStep ==
  ASSUME IInv, Take
  PROVE  IInv'
<1> USE DEF IInv
<1>1. /\ argv' = argv /\ goal' = goal /\ temps' = temps /\ disk' = disk
      /\ src' = argv[next] /\ pc = "next" /\ pc' \in {"next", "stage"}
  BY DEF Take
<1>2. next \in 1..Len(argv) /\ argv[next] \in File
  BY DEF Take, TypeOK
<1> DEFINE e == argv[next][2]
<1>3. /\ e \in {"c", "i", "s", "o", "a"}
      /\ e \in {"c", "i", "s"} => pc' = "stage" /\ next' = next /\ ld' = ld
      /\ e \in {"o", "a"} =>
           /\ pc' = "next" /\ next' = next + 1
           /\ ld' = IF e = "o" THEN Append(ld, argv[next]) ELSE ld
  BY <1>2 DEF Take, File, Ext
<1>4. TypeOK'
  <2>1. next' \in 1..(Len(argv) + 1)
    BY <1>2, <1>3 DEF TypeOK
  <2>2. Append(ld, argv[next]) \in Seq(File) /\ ld \in Seq(File)
    BY <1>2 DEF TypeOK
  <2>3. ld' \in Seq(File)
    BY <2>2, <1>3
  <2> QED
    BY <2>1, <2>3, <1>1, <1>2 DEF TypeOK
<1>5. InStage'
  <2> SUFFICES ASSUME pc' = "stage"
               PROVE  (/\ next <= Len(argv) /\ src[1] = argv[next][1]
                       /\ src[2] \in Becomes(argv[next][2])
                       /\ (Before(argv[next][2], goal) => Before(src[2], goal)))'
    BY DEF InStage
  <2>1. e \in {"c", "i", "s"} /\ next' = next
    BY <1>3
  <2>2. e \in Becomes(e)
    BY <2>1 DEF Becomes
  <2> QED
    BY <2>1, <2>2, <1>1, <1>2
<1>6. Tidy' /\ Kept' /\ Cleaned' /\ Delivered'
  BY <1>1 DEF Tidy, Kept, Cleaned, Delivered, Running, Exited, Distinct
<1>7. SoFar'
  <2>1. CASE e \in {"c", "i", "s"}
    BY <2>1, <1>1, <1>3 DEF SoFar, Running, ObjectsOf
  <2>2. CASE e \in {"o", "a"}
    <3>1. next' - 1 = next /\ \A i \in 1..next : i \in 1..(next - 1) \/ i = next
      BY <2>2, <1>2, <1>3
    <3>2. goal # "exec" => SoFar'
      BY <2>2, <3>1, <1>1 DEF SoFar, Running, Before
    <3>3. goal = "exec" => ObjectsOf(ld', next)
      <4>1. argv \in Seq(File) /\ ld \in Seq(File)
        BY DEF TypeOK
      <4>2. argv[next] = <<argv[next][1], e>>
        BY <1>2 DEF File
      <4>3. goal = "exec" => ObjectsOf(ld, next - 1)
        BY <1>1 DEF SoFar, Running
      <4>4. CASE e = "o"
        BY <4>1, <4>2, <4>3, <4>4, <1>2, <1>3, OneMore DEF Linkable
      <4>5. CASE e = "a"
        BY <4>1, <4>3, <4>5, <1>2, <1>3, NoneMore DEF Linkable
      <4> QED
        BY <2>2, <4>4, <4>5
    <3>4. goal = "exec" => ObjectsOf(ld, next - 1)'
      BY <3>1, <3>3, <1>1 DEF ObjectsOf
    <3> QED
      BY <3>2, <3>4, <1>1 DEF SoFar
  <2> QED
    BY <2>1, <2>2, <1>3
<1> QED
  BY <1>4, <1>5, <1>6, <1>7

\* A stage that succeeds.  Three things can have happened: the goal is met, an
\* object file is to be linked, or there is another stage to come.
LEMMA StageStep ==
  ASSUME IInv, Stage
  PROVE  IInv'
<1> USE DEF IInv
<1> DEFINE new == Morph(src)
           e == argv[next][2]
<1>1. /\ argv' = argv /\ goal' = goal /\ src' = new /\ pc = "stage"
      /\ disk' = [disk EXCEPT ![new] = "made"]
  BY DEF Stage
<1>2. /\ new[2] = goal => temps' = temps /\ ld' = ld /\ next' = next + 1 /\ pc' = "next"
      /\ new[2] # goal => temps' = temps \cup {new}
      /\ new[2] # goal /\ new[2] = "o" =>
           ld' = Append(ld, new) /\ next' = next + 1 /\ pc' = "next"
      /\ new[2] # goal /\ new[2] # "o" => ld' = ld /\ next' = next /\ pc' = "stage"
  BY DEF Stage
<1>3. /\ src \in File /\ src[2] \in {"c", "i", "s"} /\ next \in 1..Len(argv)
      /\ new \in File /\ (Distinct => \A i \in 1..Len(argv) : argv[i] # new)
  BY <1>1, NewName
<1>4. /\ src[1] = argv[next][1] /\ src[2] \in Becomes(e)
      /\ Before(e, goal) => Before(src[2], goal)
  BY <1>1 DEF InStage
<1>5. /\ new[1] = argv[next][1] /\ new = <<argv[next][1], new[2]>>
      /\ src[2] = "c" => new[2] = "i"
      /\ src[2] = "i" => new[2] = "s"
      /\ src[2] = "s" => new[2] = "o"
  BY <1>3, <1>4, MorphTypes
<1> HIDE DEF new, e
<1>6. DOMAIN disk = File \cup {AOut} /\ DOMAIN disk' = DOMAIN disk /\ new # AOut
      /\ \A f \in DOMAIN disk : disk'[f] = IF f = new THEN "made" ELSE disk[f]
  BY <1>1, <1>3, AOutAssumption DEF TypeOK
<1>7. pc' \in {"next", "stage"}
  BY <1>2
<1>8. TypeOK'
  <2>1. next' \in 1..(Len(argv) + 1)
    BY <1>2, <1>3
  <2>2. ld' \in Seq(File)
    <3>1. Append(ld, new) \in Seq(File) /\ ld \in Seq(File)
      BY <1>3 DEF TypeOK
    <3> QED
      BY <3>1, <1>2
  <2>3. temps' \subseteq File \cup {AOut}
    BY <1>2, <1>3 DEF TypeOK
  <2>4. disk' \in [File \cup {AOut} -> {"none", "user", "made", "partial"}]
    BY <1>1, <1>3 DEF TypeOK
  <2> QED
    BY <2>1, <2>2, <2>3, <2>4, <1>1, <1>3, <1>7 DEF TypeOK
<1>9. InStage'
  <2> SUFFICES ASSUME pc' = "stage"
               PROVE  (/\ next <= Len(argv) /\ src[1] = argv[next][1]
                       /\ src[2] \in Becomes(argv[next][2])
                       /\ (Before(argv[next][2], goal) => Before(src[2], goal)))'
    BY DEF InStage
  <2>1. next' = next /\ new[2] \in {"i", "s"} /\ new[2] # goal
    BY <1>2, <1>3, <1>5
  <2>2. new[2] \in Becomes(e)
    BY <2>1, <1>3, <1>4, <1>5 DEF Becomes
  <2>3. Before(src[2], goal) => Before(new[2], goal)
    BY <2>1, <1>3, <1>5 DEF Before
  <2> QED
    BY <2>1, <2>2, <2>3, <1>1, <1>3, <1>4, <1>5 DEF e
<1>10. Tidy'
  <2>1. Tidy /\ Running
    BY <1>1 DEF Running
  <2>2. \A f \in DOMAIN disk : disk'[f] # "partial"
    BY <2>1, <1>6 DEF Tidy
  <2>3. ASSUME NEW f \in DOMAIN disk, disk'[f] = "made"
        PROVE  f \in File /\ (f[2] = goal \/ f \in temps')
    BY <2>1, <2>3, <1>2, <1>3, <1>6 DEF Tidy
  <2>4. \A f \in temps' : f \in File /\ f[2] # goal
    BY <2>1, <1>2, <1>3 DEF Tidy
  <2> QED
    BY <2>2, <2>3, <2>4, <1>1, <1>6 DEF Tidy
<1>11. Kept'
  <2> SUFFICES ASSUME Distinct, NEW i \in 1..Len(argv)
               PROVE  disk'[argv[i]] = "user" /\ argv[i] \notin temps'
    BY <1>1 DEF Kept, Distinct
  <2>1. argv[i] \in DOMAIN disk /\ argv[i] # new
    BY <1>3, <1>6 DEF TypeOK
  <2>2. disk[argv[i]] = "user" /\ argv[i] \notin temps
    BY <1>1 DEF Kept, Running
  <2> QED
    BY <2>1, <2>2, <1>2, <1>6
<1>12. Cleaned' /\ Delivered'
  BY <1>7 DEF Cleaned, Delivered, Exited
<1>13. CASE goal = "exec"
  <2>1. ObjectsOf(ld, next - 1)
    BY <1>1, <1>13 DEF SoFar, Running
  <2>2. new[2] # goal
    BY <1>3, <1>5, <1>13
  <2>3. ASSUME new[2] = "o"
        PROVE  SoFar'
    <3>1. Linkable(argv[next][2])
      BY <1>3, <1>4 DEF Linkable, Becomes, e
    <3>2. ld' = Append(ld, <<argv[next][1], "o">>) /\ next' - 1 = next
      BY <2>2, <2>3, <1>2, <1>3, <1>5
    <3>3. ObjectsOf(ld', next)
      BY <2>1, <3>1, <3>2, <1>3, OneMore DEF TypeOK
    <3>4. ObjectsOf(ld', next' - 1)
      BY <3>2, <3>3
    <3>5. ObjectsOf(ld, next - 1)'
      BY <3>4, <1>1 DEF ObjectsOf
    <3> QED
      BY <3>5, <1>1, <1>13 DEF SoFar
  <2>4. ASSUME new[2] # "o"
        PROVE  SoFar'
    <3>1. ObjectsOf(ld, next - 1)'
      BY <2>1, <2>2, <2>4, <1>1, <1>2 DEF ObjectsOf
    <3> QED
      BY <3>1, <1>1, <1>13 DEF SoFar
  <2>5. SoFar'
    BY <2>3, <2>4
  <2> QED
    BY <2>5, <1>8, <1>9, <1>10, <1>11, <1>12
<1>14. CASE goal # "exec"
  <2>1. ASSUME NEW i \in 1..(next - 1), Before(argv[i][2], goal)
        PROVE  disk'[<<argv[i][1], goal>>] = "made"
    <3>1. disk[<<argv[i][1], goal>>] = "made"
      BY <2>1, <1>1, <1>14 DEF SoFar, Running
    <3>2. i \in 1..Len(argv) /\ goal \in {"i", "s", "o"}
      BY <1>3, <1>14 DEF TypeOK, Goals
    <3>3. argv[i] \in File
      BY <3>2 DEF TypeOK
    <3>4. <<argv[i][1], goal>> \in DOMAIN disk
      BY <3>2, <3>3, <1>6 DEF File, Ext
    <3> QED
      BY <3>1, <3>4, <1>6
  <2>2. ASSUME Before(e, goal), next' = next + 1
        PROVE  disk'[<<argv[next][1], goal>>] = "made"
    <3>1. Before(src[2], goal)
      BY <2>2, <1>4
    <3>2. goal \in {"i", "s", "o"}
      BY <1>14 DEF TypeOK, Goals
    <3>3. new[2] = goal
      BY <3>1, <3>2, <2>2, <1>2, <1>3, <1>5 DEF Before
    <3> QED
      BY <3>3, <1>3, <1>5, <1>6
  <2>3. next' = next \/ next' = next + 1
    BY <1>2
  <2>4. ASSUME NEW i \in 1..(next' - 1), Before(argv[i][2], goal)
        PROVE  disk'[<<argv[i][1], goal>>] = "made"
    <3>1. i \in 1..(next - 1) \/ (i = next /\ next' = next + 1)
      BY <2>3, <1>3
    <3> QED
      BY <3>1, <2>1, <2>2, <2>4 DEF e
  <2>5. SoFar'
    BY <2>4, <1>1, <1>14 DEF SoFar
  <2> QED
    BY <2>5, <1>8, <1>9, <1>10, <1>11, <1>12
<1> QED
  BY <1>13, <1>14

\* What has not been removed when all is done is what was asked for.
LEMMA DoneStep ==
  ASSUME IInv, Done
  PROVE  IInv'
<1> USE DEF IInv
<1>1. /\ argv' = argv /\ goal' = goal /\ next' = next /\ src' = src
      /\ temps' = temps /\ ld' = ld /\ pc' = "ok" /\ pc = "next"
      /\ next > Len(argv) /\ goal # "exec" /\ disk' = Removed(disk, temps)
  BY DEF Done
<1>2. DOMAIN disk = File \cup {AOut}
  BY DEF TypeOK
<1>3. /\ DOMAIN disk' = DOMAIN disk
      /\ \A f \in DOMAIN disk : disk'[f] = IF f \in temps THEN "none" ELSE disk[f]
  BY <1>1 DEF Removed
<1>4. TypeOK'
  <2>1. disk' \in [File \cup {AOut} -> {"none", "user", "made", "partial"}]
    BY <1>1 DEF Removed, TypeOK
  <2> QED
    BY <1>1, <2>1 DEF TypeOK
<1>5. InStage' /\ Tidy' /\ SoFar'
  BY <1>1 DEF InStage, Tidy, SoFar, Running
<1>6. Tidy /\ Running
  BY <1>1 DEF Running
<1>7. Cleaned'
  BY <1>1, <1>2, <1>3, <1>6 DEF Cleaned, Tidy
<1>8. Kept'
  <2>1. \A i \in 1..Len(argv) : argv[i] \in DOMAIN disk
    BY <1>2 DEF TypeOK
  <2>2. ASSUME Distinct, NEW i \in 1..Len(argv)
        PROVE  disk'[argv[i]] = "user"
    BY <2>1, <2>2, <1>3, <1>6 DEF Kept
  <2> QED
    BY <2>2, <1>1 DEF Kept, Distinct, Running
<1>9. Delivered'
  <2> SUFFICES ASSUME NEW i \in 1..Len(argv), Before(argv[i][2], goal)
               PROVE  disk'[<<argv[i][1], goal>>] = "made"
    BY <1>1 DEF Delivered
  <2>1. i \in 1..(next - 1)
    BY <1>1 DEF TypeOK
  <2>2. disk[<<argv[i][1], goal>>] = "made"
    BY <2>1, <1>1, <1>6 DEF SoFar
  <2>3. argv[i] \in File /\ goal \in {"i", "s", "o"}
    BY <1>1 DEF TypeOK, Goals
  <2>4. <<argv[i][1], goal>> \in DOMAIN disk
    BY <2>3, <1>2 DEF File, Ext
  <2>5. <<argv[i][1], goal>> \notin temps
    BY <1>6 DEF Tidy
  <2> QED
    BY <2>2, <2>4, <2>5, <1>3
<1> QED
  BY <1>4, <1>5, <1>7, <1>8, <1>9

LEMMA LinkStep ==
  ASSUME IInv, Link
  PROVE  IInv'
<1> USE DEF IInv
<1>1. /\ argv' = argv /\ goal' = goal /\ next' = next /\ src' = src
      /\ temps' = temps /\ ld' = ld /\ pc' = "ok" /\ pc = "next"
      /\ next > Len(argv) /\ goal = "exec"
      /\ disk' = Removed([disk EXCEPT ![AOut] = "made"], temps)
  BY DEF Link
<1>2. DOMAIN disk = File \cup {AOut}
  BY DEF TypeOK
<1>3. Tidy /\ Running /\ AOut \notin temps
  BY <1>1, AOutAssumption DEF Running, Tidy
<1>4. /\ DOMAIN disk' = DOMAIN disk
      /\ \A f \in DOMAIN disk :
           disk'[f] = IF f \in temps THEN "none" ELSE IF f = AOut THEN "made" ELSE disk[f]
  BY <1>1, <1>2 DEF Removed
<1>5. TypeOK'
  <2>1. disk' \in [File \cup {AOut} -> {"none", "user", "made", "partial"}]
    BY <1>1, <1>2, <1>4 DEF Removed, TypeOK
  <2> QED
    BY <1>1, <2>1 DEF TypeOK
<1>6. InStage' /\ Tidy' /\ SoFar'
  BY <1>1 DEF InStage, Tidy, SoFar, Running
<1>7. Cleaned'
  BY <1>1, <1>2, <1>3, <1>4 DEF Cleaned, Tidy
<1>8. Kept'
  <2>1. \A i \in 1..Len(argv) : argv[i] \in DOMAIN disk /\ argv[i] # AOut
    BY <1>2, AOutAssumption DEF TypeOK
  <2>2. ASSUME Distinct, NEW i \in 1..Len(argv)
        PROVE  disk'[argv[i]] = "user"
    BY <2>1, <2>2, <1>3, <1>4 DEF Kept
  <2> QED
    BY <2>2, <1>1 DEF Kept, Distinct, Running
<1>9. Delivered'
  <2>1. next - 1 = Len(argv)
    BY <1>1 DEF TypeOK
  <2>2. ObjectsOf(ld, Len(argv))
    BY <2>1, <1>1, <1>3 DEF SoFar
  <2>3. ObjectsOf(ld, Len(argv))'
    BY <2>2, <1>1 DEF ObjectsOf
  <2> QED
    BY <2>3, <1>1, <1>2, <1>3, <1>4 DEF Delivered
<1> QED
  BY <1>5, <1>6, <1>7, <1>8, <1>9

LEMMA Stutter ==
  ASSUME IInv, UNCHANGED vars
  PROVE  IInv'
<1> USE DEF IInv
<1>1. /\ argv' = argv /\ goal' = goal /\ next' = next /\ src' = src
      /\ temps' = temps /\ ld' = ld /\ pc' = pc /\ disk' = disk
  BY DEF vars
<1>2. \A n \in Int : ObjectsOf(ld, n)' = ObjectsOf(ld, n)
  BY <1>1 DEF ObjectsOf
<1>3. TypeOK' /\ InStage' /\ Tidy' /\ Kept' /\ Cleaned'
  BY <1>1 DEF TypeOK, InStage, Tidy, Kept, Cleaned, Running, Exited, Distinct
<1>4. ObjectsOf(ld, next - 1)' = ObjectsOf(ld, next - 1)
  BY <1>1 DEF ObjectsOf
<1>5. ObjectsOf(ld, Len(argv))' = ObjectsOf(ld, Len(argv))
  BY <1>1 DEF ObjectsOf
<1>6. SoFar'
  BY <1>1, <1>4 DEF SoFar, Running
<1>7. Delivered'
  BY <1>1, <1>5 DEF Delivered
<1> QED
  BY <1>3, <1>6, <1>7

\* The invariant of the driver.
THEOREM DriverInvariant == Spec => []IInv
<1>1. IInv /\ [Next]_vars => IInv'
  <2> SUFFICES ASSUME IInv, [Next]_vars PROVE IInv'
    OBVIOUS
  <2>1. CASE TakeUnknown
    BY <2>1, AbortStep DEF TakeUnknown, Running
  <2>2. CASE StageFails
    BY <2>2, NewName, RunFailsStep, AbortStep DEF StageFails, Running
  <2>3. CASE LinkFails
    <3>1. \A i \in 1..Len(argv) : argv[i] # AOut
      BY AOutAssumption DEF IInv, TypeOK
    <3> QED
      BY <2>3, <3>1, RunFailsStep, AbortStep DEF LinkFails, Running
  <2> QED
    BY <2>1, <2>2, <2>3, TakeStep, StageStep, LinkStep, DoneStep, Stutter DEF Next
<1> QED
  BY <1>1, InitIInv, PTL DEF Spec

\* However the driver ends, nothing half written and nothing in between is left.
THEOREM DriverCleans == Spec => []Cleaned
BY DriverInvariant, PTL DEF IInv

\* After success everything that was asked for is there, and the executable was
\* made of the object files of the whole command line, in its order.
THEOREM DriverDelivers == Spec => []Delivered
BY DriverInvariant, PTL DEF IInv

\* The files of the command line are kept, unless two names coincide.
THEOREM DriverKeepsInputs == Spec => []InputsKept
<1>1. IInv => InputsKept
  BY DEF IInv, Kept, InputsKept
<1> QED
  BY <1>1, DriverInvariant, PTL
=============================================================================
