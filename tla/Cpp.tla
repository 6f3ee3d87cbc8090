--------------------------------- MODULE Cpp ---------------------------------
(***************************************************************************)
(* The main loop of the preprocessor (cpp/cpp.c), the stack of input files *)
(* (cpp/input.c) and the directives (cpp/directive.c): which lines are     *)
(* copied, and where the output says they come from.                       *)
(*                                                                         *)
(* The input is not fixed beforehand: whenever a line is read, it is any   *)
(* line, or the file ends.  A line is a directive, a line of text, or one  *)
(* that matters to a macro call that spans lines: it ends with the name of *)
(* a function-like macro ("fn"), or is a complete argument list ("args"),  *)
(* the beginning of one ("open") or its end ("close").  Of a text it       *)
(* matters whether it begins or ends with a string literal; of what a      *)
(* macro expands to too.                                                   *)
(***************************************************************************)
EXTENDS Integers, Sequences, FiniteSets

CONSTANTS
  Lines,       \* the lines that may occur: [kind, n, ...], n physical lines
  Main,        \* the path of the main file
  SyncWindow,  \* SYNC_WINDOW
  MaxLines,    \* bound: lines read altogether
  MaxFiles     \* bound: files open at once

\* What the fields of a line are, where its kind has them.
Kinds == {"word", "literal", "leads", "trails",
          "blank", "fn", "args", "open", "close", "pragma", "error",
          "if", "elif", "else", "endif", "include", "line"}

\* A text without string literals at its ends, one that is a literal, one that
\* begins and one that ends with a literal.
Texts == {"word", "literal", "leads", "trails"}
ASSUME LinesAssumption ==
  \A l \in Lines :
    /\ l.kind \in Kinds /\ l.n \in Nat
    /\ l.kind \in {"if", "elif"} => l.val \in BOOLEAN
    /\ l.kind \in {"args", "close"} => l.becomes \in Texts
    /\ l.kind = "line" => l.to \in Nat

VARIABLES
  input,       \* the input stack, INPUT_STACK first: path and line_no
  state,       \* the state stack: copying, saw_true, saw_else
  list,        \* the lines tokenized and not yet handled, with their origin
  pc,          \* what the loop does next
  need_sync,
  line_no,     \* the static line_no of sync(): the line the output is at
  out,         \* the output: texts, string literals, newlines and line markers
  nread,       \* lines read so far
  groups       \* the conditional groups as the language defines them

vars == <<input, state, list, pc, need_sync, line_no, out, nread, groups>>

Top == input[1]

\* A path as it is printed between quotes; one from #line has its own already.
Plain(p) == [name |-> p, quoted |-> FALSE]

\* COPYING, for a state stack.
Copies(st) == st = <<>> \/ st[1].copying

\* By the rules of the language, the current line is not skipped.
Active == groups = <<>> \/ groups[1].on

Init ==
  /\ input = <<[path |-> Plain(Main), line |-> 0]>>
  /\ state = <<>> /\ groups = <<>> /\ list = <<>>
  /\ pc = "read"
  /\ need_sync = FALSE
  /\ line_no = 1
  /\ out = <<[u |-> "mark", path |-> Plain(Main), line |-> 1], [u |-> "nl"]>>
  /\ nread = 0

\* error() removes the output.
Fail == pc' = "error" /\ out' = <<>>

-----------------------------------------------------------------------------
\* Reading.

\* concat_line() counts every physical line; the tokens belong to the last.
ReadLine(l) ==
  /\ nread < MaxLines
  /\ nread' = nread + 1
  /\ input' = [input EXCEPT ![1].line = @ + l.n]

Chunk(l) == [l |-> l, path |-> Top.path, line |-> Top.line + l.n]

\* input_tokens(INPUT_MODE_ANY) finds a line.
GetLine ==
  /\ pc = "read"
  /\ \E l \in Lines :
       /\ ReadLine(l)
       /\ IF l.kind = "blank" THEN UNCHANGED <<list, pc>>
          ELSE list' = <<Chunk(l)>> /\ pc' = "directive"
  /\ UNCHANGED <<state, need_sync, line_no, out, groups>>

\* ... or the end of an included file, and input_pop()s it: the next line is
\* in another file.  (Fault: need_sync is not set.)
SyncAfterPop_Not == need_sync

SyncAfterPop == TRUE

PopFile ==
  /\ pc \in {"read", "end"}
  /\ Len(input) > 1
  /\ input' = Tail(input)
  /\ need_sync' = SyncAfterPop
  /\ pc' = "read"
  /\ UNCHANGED <<state, list, line_no, out, nread, groups>>

\* ... or the end of the main file: directive_check().
EndMain ==
  /\ pc \in {"read", "end"}
  /\ Len(input) = 1
  /\ IF state # <<>> THEN Fail
     ELSE pc' = "done" /\ out' = Append(out, [u |-> "nl"])
  /\ UNCHANGED <<input, state, list, need_sync, line_no, nread, groups>>

-----------------------------------------------------------------------------
\* directive(), for the first line of the list.

\* state_push().  (Fault: the enclosing group is not asked.)
StatePush_Own(v) ==
  <<[copying |-> v, saw_true |-> v, saw_else |-> FALSE]>> \o state

StatePush(v) ==
  <<IF Copies(state) THEN [copying |-> v, saw_true |-> v, saw_else |-> FALSE]
    ELSE [copying |-> FALSE, saw_true |-> TRUE, saw_else |-> FALSE]>> \o state

\* do_if(), do_ifdef(), do_elif(), do_else(), do_endif() on the state stack.
NewState(l) ==
  CASE l.kind = "if"    -> StatePush(l.val)
    [] l.kind = "elif"  -> IF state[1].saw_true THEN state
                           ELSE [state EXCEPT ![1].saw_true = l.val, ![1].copying = l.val]
    [] l.kind = "else"  -> [state EXCEPT ![1].copying = ~state[1].saw_true,
                                         ![1].saw_else = TRUE]
    [] l.kind = "endif" -> Tail(state)

\* #elif, #else or #endif without #if, or after #else.
Misplaced(l) ==
  \/ l.kind \in {"elif", "else", "endif"} /\ state = <<>>
  \/ l.kind \in {"elif", "else"} /\ state # <<>> /\ state[1].saw_else

\* do_elif() does not look at the expression once a group has been true; the
\* tokens stay in the list, and are garbage to directive().
Leaves(l) == l.kind = "elif" /\ state[1].saw_true

\* The same directives by the rules of the language.
NewGroups(l) ==
  LET Alternative(v) ==
        [groups EXCEPT ![1].on = groups[1].outer /\ ~groups[1].taken /\ v,
                       ![1].taken = groups[1].taken \/ v]
  IN  CASE l.kind = "if"    -> <<[outer |-> Active, taken |-> l.val,
                                  on |-> Active /\ l.val]>> \o groups
        [] l.kind = "elif"  -> Alternative(l.val)
        [] l.kind = "else"  -> Alternative(TRUE)
        [] l.kind = "endif" -> Tail(groups)

Conditional ==
  LET l == list[1].l
  IN  /\ pc = "directive" /\ l.kind \in {"if", "elif", "else", "endif"}
      /\ list' = <<>>
      /\ IF Misplaced(l)
         THEN /\ Fail
              /\ UNCHANGED <<state, groups>>
         ELSE /\ state' = NewState(l)
              /\ groups' = NewGroups(l)
              /\ IF Copies(state') /\ Leaves(l) THEN Fail
                 ELSE pc' = "read" /\ UNCHANGED out
      /\ UNCHANGED <<input, need_sync, line_no, nread>>

\* do_include() and input_open(): whether or not COPYING.
Include ==
  LET l == list[1].l
  IN  /\ pc = "directive" /\ l.kind = "include"
      /\ list' = <<>>
      /\ \/ /\ l.exists /\ Len(input) < MaxFiles
            /\ input' = <<[path |-> Plain(l.path), line |-> 0]>> \o input
            /\ need_sync' = TRUE
            /\ pc' = "read"
            /\ UNCHANGED <<out>>
         \/ /\ ~l.exists
            /\ Fail
            /\ UNCHANGED <<input, need_sync>>
      /\ UNCHANGED <<state, line_no, nread, groups>>

\* do_line(), whether or not COPYING.  A path is taken with its quotes.
Line ==
  LET l == list[1].l
  IN  /\ pc = "directive" /\ l.kind = "line"
      /\ list' = <<>>
      /\ input' = [input EXCEPT
                     ![1].line = l.to - 1,
                     ![1].path = IF l.path = "" THEN @ ELSE [name |-> l.path, quoted |-> TRUE]]
      /\ need_sync' = TRUE
      /\ pc' = "read"
      /\ UNCHANGED <<state, line_no, out, nread, groups>>

\* #error, and a directive lookup() does not know, only when COPYING.
Reject ==
  /\ pc = "directive" /\ list[1].l.kind = "error"
  /\ list' = <<>>
  /\ IF Copies(state) THEN Fail ELSE pc' = "read" /\ UNCHANGED out
  /\ UNCHANGED <<input, state, need_sync, line_no, nread, groups>>

\* Anything else, #pragma included, passes if COPYING.
Text ==
  /\ pc = "directive"
  /\ list[1].l.kind \in Texts \cup {"pragma", "fn", "args", "open", "close"}
  /\ IF Copies(state) THEN pc' = "emit" /\ UNCHANGED list
     ELSE pc' = "read" /\ list' = <<>>
  /\ UNCHANGED <<input, state, need_sync, line_no, out, nread, groups>>

-----------------------------------------------------------------------------
\* sync(), replace() and output().

\* What sync() writes, given where the output is.
SyncUnits ==
  IF need_sync \/ line_no > Top.line \/ line_no + SyncWindow < Top.line
  THEN <<[u |-> "nl"], [u |-> "mark", path |-> Top.path, line |-> Top.line], [u |-> "nl"]>>
  ELSE [i \in 1..(Top.line - line_no) |-> [u |-> "nl"]]

\* What output() writes for a line.
Unit(v, c) == [u |-> v, path |-> c.path, line |-> c.line]

Copied(c) ==
  CASE c.l.kind = "pragma"  -> <<Unit("pragma", c)>>
    [] c.l.kind = "literal" -> <<Unit("lit", c)>>
    [] c.l.kind = "leads"   -> <<Unit("lit", c), Unit("text", c)>>
    [] c.l.kind = "trails"  -> <<Unit("text", c), Unit("lit", c)>>
    [] OTHER                -> <<Unit("text", c)>>

\* One round of the inner loop.  When replace() finds the name of a macro with
\* arguments at the end of the list, parentheses() reads ahead.
Emit ==
  /\ pc = "emit"
  /\ IF list[1].l.kind = "fn"
     THEN out' = out \o SyncUnits /\ pc' = "ahead" /\ UNCHANGED list
     ELSE out' = out \o SyncUnits \o Copied(list[1]) /\ pc' = "read" /\ list' = <<>>
  /\ need_sync' = FALSE
  /\ line_no' = Top.line
  /\ UNCHANGED <<input, state, nread, groups>>

\* The line after the name: an argument list, the beginning of one, or a line
\* of its own, in which case the name is output as it is, and the new line is
\* looked at for a directive.
Expansion(l) == [Chunk(l) EXCEPT !.l = [kind |-> l.becomes, n |-> l.n]]

\* What is left to be looked at for a directive once the name is out.
NewLine(l) == <<Chunk(l)>>

Ahead ==
  /\ pc = "ahead"
  /\ \E l \in Lines :
       /\ ReadLine(l)
       /\ CASE l.kind = "blank" -> UNCHANGED <<list, out, pc>>
            [] l.kind = "args"  -> list' = <<Expansion(l)>> /\ pc' = "emit" /\ UNCHANGED out
            [] l.kind = "open"  -> pc' = "args" /\ UNCHANGED <<list, out>>
            [] OTHER            -> /\ out' = out \o Copied(list[1])
                                   /\ list' = NewLine(l)
                                   /\ pc' = "directive"
  /\ UNCHANGED <<state, need_sync, line_no, groups>>

\* The file ends after the name.
AheadEnd ==
  /\ pc = "ahead"
  /\ out' = out \o Copied(list[1])
  /\ list' = <<>>
  /\ pc' = "end"
  /\ UNCHANGED <<input, state, need_sync, line_no, nread, groups>>

\* In the argument list everything is an argument, up to its end.
Args ==
  /\ pc = "args"
  /\ \E l \in Lines :
       /\ ReadLine(l)
       /\ IF l.kind = "close" THEN list' = <<Expansion(l)>> /\ pc' = "emit"
          ELSE UNCHANGED <<list, pc>>
  /\ UNCHANGED <<state, need_sync, line_no, out, groups>>

ArgsEnd ==
  /\ pc = "args"
  /\ Fail
  /\ UNCHANGED <<input, state, list, need_sync, line_no, nread, groups>>

Next ==
  \/ GetLine \/ PopFile \/ EndMain
  \/ Conditional \/ Include \/ Line \/ Reject \/ Text
  \/ Emit \/ Ahead \/ AheadEnd \/ Args \/ ArgsEnd

Spec == Init /\ [][Next]_vars

-----------------------------------------------------------------------------

\* Lines are copied exactly when the conditional groups of the language say so,
\* across the files they may begin and end in.
CopiesActive == pc # "error" => Copies(state) = Active /\ Len(state) = Len(groups)

-----------------------------------------------------------------------------
\* What the theorems of CppProofs rest on.

Paths ==
  {Plain(Main)}
    \cup [name : {l.path : l \in {m \in Lines : m.kind \in {"include", "line"}}},
          quoted : BOOLEAN]

Words == {[kind |-> k, n |-> l.n] : k \in Texts, l \in Lines}

InputRec == [path : Paths, line : Int]
ChunkRec == [l : Lines \cup Words, path : Paths, line : Int]
Units == {[u |-> "nl"]} \cup [u : {"mark", "text", "lit", "pragma"}, path : Paths, line : Int]
StateRec == [copying : BOOLEAN, saw_true : BOOLEAN, saw_else : BOOLEAN]
GroupRec == [outer : BOOLEAN, taken : BOOLEAN, on : BOOLEAN]

TypeOK ==
  /\ input \in Seq(InputRec) /\ input # <<>>
  /\ state \in Seq(StateRec)
  /\ groups \in Seq(GroupRec)
  /\ line_no \in Int
  /\ pc \in {"read", "directive", "emit", "ahead", "args", "end", "done", "error"}
  /\ pc \in {"directive", "emit", "ahead", "args"} =>
       /\ list \in Seq(ChunkRec) /\ list # <<>>
       /\ pc = "directive" => list[1].l \in Lines

\* Up to #else, in a group that can be copied at all cpp knows whether one of
\* its alternatives was; in another it takes it that one was.
Matches(s, g) ==
  /\ s.copying = g.on
  /\ s.saw_else \/ s.saw_true = (g.taken \/ ~g.outer)

Paired ==
  pc # "error" =>
    Len(state) = Len(groups) /\ \A i \in 1..Len(state) : Matches(state[i], groups[i])

\* Where the line that is handled comes from; a name that waits for its argument
\* list has been announced by sync().
Origin ==
  /\ pc \in {"directive", "emit", "ahead"} => list[1].path = Top.path
  /\ pc \in {"directive", "emit"} => list[1].line = Top.line
  /\ pc = "ahead" => list[1].line = line_no /\ ~need_sync

CppIInv == TypeOK /\ Paired /\ Origin
=============================================================================
