-------------------------------- MODULE Driver --------------------------------
(***************************************************************************)
(* The driver, cc.c: takes every file on the command line through the      *)
(* preprocessor, the compiler and the assembler as far as its type and the *)
(* goal require, links the results, and removes what was only in between.  *)
(* The four programs are external: each may write its output and succeed,  *)
(* or fail, or be killed, at any point.                                    *)
(***************************************************************************)
EXTENDS Naturals, Sequences, SequencesExt

CONSTANTS
  Base,     \* names without their extension
  AOut,     \* the executable
  MaxArgs   \* bound: files on the command line

\* File types; "x" is any that type() does not know.
Ext == {"c", "i", "s", "o", "a", "x"}
Goals == {"exec", "i", "s", "o"}
File == Base \X Ext
ASSUME AOutAssumption == AOut \notin File
ASSUME MaxArgsAssumption == MaxArgs \in Nat

VARIABLES
  argv,     \* the files on the command line; fixed
  goal,     \* EXEC_FILE or the type of the result; fixed
  next,     \* the argument that is handled
  src,      \* what it has become so far
  temps,    \* the list of temp files
  ld,       \* the files to be linked, in order
  disk,     \* disk[f]: "none", "user", "made", or "partial"
  pc        \* "next", "stage", "link", "ok" or "failed"

vars == <<argv, goal, next, src, temps, ld, disk, pc>>

-----------------------------------------------------------------------------

Init ==
  /\ argv \in SeqOf(File, MaxArgs) \ {<<>>}
  /\ goal \in Goals
  /\ next = 1
  /\ src = argv[1]
  /\ temps = {} /\ ld = <<>>
  /\ disk = [f \in File \cup {AOut} |-> IF f \in ToSet(argv) THEN "user" ELSE "none"]
  /\ pc = "next"

\* morph(): the name with the extension of the next type.
\* (Fault: assembly replaces its source.)
Morph_Same(f) == <<f[1], CASE f[2] = "c" -> "i" [] OTHER -> "s">>

Morph(f) == <<f[1], CASE f[2] = "c" -> "i" [] f[2] = "i" -> "s" [] f[2] = "s" -> "o">>

\* remove_temps()
Removed(d, fs) == [f \in DOMAIN d |-> IF f \in fs THEN "none" ELSE d[f]]

\* error(), before the command is run or when it cannot be.
Abort ==
  /\ disk' = Removed(disk, temps)
  /\ pc' = "failed"
  /\ UNCHANGED <<argv, goal, next, src, temps, ld>>

\* run() when the command fails: whatever it left in its output is removed
\* too.  (Fault: it is not.)
RunFails_Leave(out) ==
  /\ \E d \in {disk[out], "none", "partial"} :
       disk' = Removed([disk EXCEPT ![out] = d], temps)
  /\ pc' = "failed"
  /\ UNCHANGED <<argv, goal, next, src, temps, ld>>

RunFails(out) ==
  /\ \E d \in {disk[out], "none", "partial"} :
       disk' = Removed([disk EXCEPT ![out] = d], temps \cup {out})
  /\ temps' = temps \cup {out}
  /\ pc' = "failed"
  /\ UNCHANGED <<argv, goal, next, src, ld>>

\* The switch on the type of the argument.  There is no case for a library.
Take ==
  /\ pc = "next" /\ next <= Len(argv)
  /\ argv[next][2] # "x"
  /\ src' = argv[next]
  /\ IF argv[next][2] \in {"c", "i", "s"} THEN pc' = "stage" /\ UNCHANGED <<ld, next>>
     ELSE /\ ld' = IF argv[next][2] = "o" THEN Append(ld, argv[next]) ELSE ld
          /\ next' = next + 1
          /\ UNCHANGED pc
  /\ UNCHANGED <<argv, goal, temps, disk>>

TakeUnknown ==
  /\ pc = "next" /\ next <= Len(argv)
  /\ argv[next][2] = "x"
  /\ Abort

\* One stage: the cases fall through until the goal is met.
\* (Fault: the result is a temp file even if it is the goal.)
Stage_Temp ==
  /\ pc = "stage"
  /\ LET new == Morph(src) IN
       /\ disk' = [disk EXCEPT ![new] = "made"]
       /\ src' = new
       /\ temps' = temps \cup {new}
       /\ IF new[2] = goal THEN next' = next + 1 /\ pc' = "next" /\ UNCHANGED ld
          ELSE IF new[2] = "o"
               THEN ld' = Append(ld, new) /\ next' = next + 1 /\ pc' = "next"
               ELSE UNCHANGED <<ld, next, pc>>
  /\ UNCHANGED <<argv, goal>>

Stage ==
  /\ pc = "stage"
  /\ LET new == Morph(src) IN
       /\ disk' = [disk EXCEPT ![new] = "made"]
       /\ src' = new
       /\ IF new[2] = goal
          THEN next' = next + 1 /\ pc' = "next" /\ UNCHANGED <<temps, ld>>
          ELSE /\ temps' = temps \cup {new}
               /\ IF new[2] = "o"
                  THEN ld' = Append(ld, new) /\ next' = next + 1 /\ pc' = "next"
                  ELSE UNCHANGED <<ld, next, pc>>
  /\ UNCHANGED <<argv, goal>>

StageFails == pc = "stage" /\ (RunFails(Morph(src)) \/ Abort)

\* All arguments are done.
Link ==
  /\ pc = "next" /\ next > Len(argv) /\ goal = "exec"
  /\ disk' = Removed([disk EXCEPT ![AOut] = "made"], temps)
  /\ pc' = "ok"
  /\ UNCHANGED <<argv, goal, next, src, temps, ld>>

LinkFails ==
  /\ pc = "next" /\ next > Len(argv) /\ goal = "exec"
  /\ RunFails(AOut) \/ Abort

Done ==
  /\ pc = "next" /\ next > Len(argv) /\ goal # "exec"
  /\ disk' = Removed(disk, temps)
  /\ pc' = "ok"
  /\ UNCHANGED <<argv, goal, next, src, temps, ld>>

Next == Take \/ TakeUnknown \/ Stage \/ StageFails \/ Link \/ LinkFails \/ Done

Spec == Init /\ [][Next]_vars

-----------------------------------------------------------------------------

Exited == pc \in {"ok", "failed"}

\* Nothing half written is left behind, and of what was written only results:
\* the executable, or files of the type that was asked for.
Cleaned ==
  Exited => \A f \in DOMAIN disk :
    /\ disk[f] # "partial"
    /\ disk[f] = "made" => f = AOut \/ f[2] = goal

\* What has to be translated to reach the goal.
Before(e, g) == e \in {"c", "i", "s"} /\
  CASE g = "i" -> e = "c" [] g = "s" -> e \in {"c", "i"} [] OTHER -> TRUE

\* What is linked.
Linkable(e) == e \in {"c", "i", "s", "o"}

\* l is the object files of the first n arguments, each once and in order: there
\* are places k[1] < k[2] < ... in the command line it takes them from.
ObjectsOf(l, n) ==
  \E k \in [DOMAIN l -> 1..n] :
    /\ \A i, j \in DOMAIN l : i < j => k[i] < k[j]
    /\ \A i \in 1..n : Linkable(argv[i][2]) <=> \E j \in DOMAIN l : k[j] = i
    /\ \A j \in DOMAIN l : l[j] = <<argv[k[j]][1], "o">>

\* After success every file that had to be translated has its result, or the
\* executable was made of the object files, each once, in the order of the
\* command line (main, cc.c:335-385).
Delivered ==
  pc = "ok" =>
    IF goal = "exec"
    THEN disk[AOut] = "made" /\ ObjectsOf(ld, Len(argv))
    ELSE \A i \in 1..Len(argv) :
           Before(argv[i][2], goal) => disk[<<argv[i][1], goal>>] = "made"

\* What the user named is not touched if no two names differ in the extension
\* only.
Distinct == \A i, j \in 1..Len(argv) : argv[i][1] = argv[j][1] => i = j
InputsKept ==
  Distinct => \A i \in 1..Len(argv) : disk[argv[i]] = "user"

-----------------------------------------------------------------------------
\* The inductive invariant the theorems of DriverProofs rest on.

Running == pc \in {"next", "stage"}

TypeOK ==
  /\ argv \in Seq(File)
  /\ goal \in Goals
  /\ next \in 1..(Len(argv) + 1)
  /\ src \in File
  /\ temps \subseteq File \cup {AOut}
  /\ ld \in Seq(File)
  /\ disk \in [File \cup {AOut} -> {"none", "user", "made", "partial"}]
  /\ pc \in {"next", "stage", "ok", "failed"}

\* What a file of type e is while it is taken through the stages.
Becomes(e) ==
  CASE e = "c" -> {"c", "i", "s"} [] e = "i" -> {"i", "s"} [] e = "s" -> {"s"}
    [] OTHER -> {}

\* In a stage src has come from the argument, and has not passed the goal.
InStage ==
  pc = "stage" =>
    /\ next <= Len(argv)
    /\ src[1] = argv[next][1]
    /\ src[2] \in Becomes(argv[next][2])
    /\ Before(argv[next][2], goal) => Before(src[2], goal)

\* What was made is a result or on the list of what is to be removed, and no
\* result is on that list.
Tidy ==
  Running =>
    /\ \A f \in DOMAIN disk :
         disk[f] # "partial" /\ (disk[f] = "made" => f \in File /\ (f[2] = goal \/ f \in temps))
    /\ \A f \in temps : f \in File /\ f[2] # goal

\* No file of the command line is on that list.
Kept ==
  Distinct => \A i \in 1..Len(argv) :
                disk[argv[i]] = "user" /\ (Running => argv[i] \notin temps)

\* The arguments before the one that is handled have been dealt with.
SoFar ==
  Running =>
    IF goal = "exec" THEN ObjectsOf(ld, next - 1)
    ELSE \A i \in 1..(next - 1) :
           Before(argv[i][2], goal) => disk[<<argv[i][1], goal>>] = "made"

IInv == TypeOK /\ InStage /\ Tidy /\ Kept /\ SoFar /\ Cleaned /\ Delivered
=============================================================================
