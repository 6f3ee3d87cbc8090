------------------------------- MODULE CppLex -------------------------------
(***************************************************************************)
(* The preprocessor and the lexer of the compiler proper, connected by the *)
(* file that one writes and, once the other has exited successfully, the   *)
(* other reads.  How the lexer knows where a token comes from: lex() of    *)
(* cc1/lex.c counts newlines, and interprets the line markers the          *)
(* preprocessor left in its output.                                        *)
(***************************************************************************)
EXTENDS Cpp

VARIABLES
  pos,            \* how much of the file `out' has been read
  bol,            \* the last token was a newline
  lit,            \* what strlit() is putting together: "none", "token" or "path"
  error_line_no, error_path,
  verdict         \* "lexing", "ok", or "malformed"

lex == <<pos, bol, lit, error_line_no, error_path, verdict>>
allvars == <<vars, lex>>

-----------------------------------------------------------------------------

Nowhere == [name |-> "", quoted |-> FALSE]

\* The path of a marker, and the string literals that strlit() joined with it.
Joined == [name |-> "path and literal", quoted |-> FALSE]

\* A newline token is waiting before the first.
InitLex ==
  /\ pos = 0
  /\ bol = TRUE
  /\ lit = "none"
  /\ error_line_no = 1
  /\ error_path = Nowhere
  /\ verdict = "lexing"

Unit0 == out[pos + 1]

More == verdict = "lexing" /\ pos < Len(out)

Malformed == verdict' = "malformed" /\ UNCHANGED <<bol, lit, error_line_no, error_path>>

Newline ==
  /\ More /\ Unit0.u = "nl" /\ lit = "none"
  /\ error_line_no' = error_line_no + 1
  /\ bol' = TRUE
  /\ pos' = pos + 1
  /\ UNCHANGED <<out, lit, error_path, verdict>>

\* `# n "path"': strlit() is called for the path.  A path with quotes of its own
\* is three tokens, an empty string the first.  A marker that does not begin a
\* line goes to the parser, as does one right after another.
Marker ==
  /\ More /\ Unit0.u = "mark" /\ lit = "none"
  /\ IF bol /\ ~Unit0.path.quoted
     THEN /\ error_line_no' = Unit0.line
          /\ error_path' = Unit0.path
          /\ lit' = "path"
          /\ bol' = FALSE
          /\ UNCHANGED verdict
     ELSE Malformed
  /\ pos' = pos + 1
  /\ UNCHANGED out

\* Another directive is malformed.
Hash ==
  /\ More /\ Unit0.u = "pragma" /\ lit = "none"
  /\ Malformed
  /\ pos' = pos + 1
  /\ UNCHANGED out

Token ==
  /\ More /\ Unit0.u = "text" /\ lit = "none"
  /\ bol' = FALSE
  /\ pos' = pos + 1
  /\ UNCHANGED <<out, lit, error_line_no, error_path, verdict>>

\* A string literal, or one more of those that strlit() joins.
Literal ==
  /\ More /\ Unit0.u = "lit"
  /\ lit' = IF lit = "none" THEN "token" ELSE lit
  /\ error_path' = IF lit = "path" THEN Joined ELSE error_path
  /\ bol' = FALSE
  /\ pos' = pos + 1
  /\ UNCHANGED <<out, error_line_no, verdict>>

\* Only newlines are between here and the next string literal: strlit() goes on,
\* and counts them.
Continues ==
  \E i \in (pos + 1)..Len(out) :
    out[i].u = "lit" /\ \A j \in (pos + 1)..(i - 1) : out[j].u = "nl"

Between ==
  /\ More /\ Unit0.u = "nl" /\ lit # "none" /\ Continues
  /\ error_line_no' = error_line_no + 1
  /\ pos' = pos + 1
  /\ UNCHANGED <<out, bol, lit, error_path, verdict>>

\* The token is complete.
EndLiteral ==
  /\ verdict = "lexing" /\ lit = "token" /\ ~Continues
  /\ lit' = "none"
  /\ UNCHANGED <<out, pos, bol, error_line_no, error_path, verdict>>

\* The path is: the newline that must follow it is not counted.
EndMarker ==
  /\ verdict = "lexing" /\ lit = "path" /\ ~Continues
  /\ IF pos < Len(out) /\ Unit0.u = "nl"
     THEN lit' = "none" /\ pos' = pos + 1 /\ UNCHANGED <<bol, error_line_no, error_path, verdict>>
     ELSE Malformed /\ UNCHANGED pos
  /\ UNCHANGED out

EndOfFile ==
  /\ verdict = "lexing" /\ lit = "none" /\ pos = Len(out)
  /\ verdict' = "ok"
  /\ UNCHANGED <<out, pos, bol, lit, error_line_no, error_path>>

NextLex ==
  \/ Newline \/ Marker \/ Hash \/ Token
  \/ Literal \/ Between \/ EndLiteral \/ EndMarker \/ EndOfFile

-----------------------------------------------------------------------------

InitBoth == Init /\ InitLex

NextBoth ==
  \/ Next /\ UNCHANGED lex
  \/ pc = "done" /\ NextLex
     /\ UNCHANGED <<input, state, list, pc, need_sync, line_no, nread, groups>>

SpecBoth == InitBoth /\ [][NextBoth]_allvars

\* Every token is reported where it was read, an error in it would be too: cpp's
\* markers and newlines say for each line of text what its file and line are,
\* through #include, #line, continuation lines, macro calls that span lines and
\* literals that are joined.  Only the path is not the one of the marker if a
\* literal has been joined with it.
Located ==
  More /\ Unit0.u \in {"text", "lit"} /\ lit # "path" =>
    error_line_no = Unit0.line /\ error_path \in {Unit0.path, Joined}

-----------------------------------------------------------------------------
\* What the theorems of CppProofs rest on: what the lexer will make of what has
\* been written so far.

LexRec == [bol : BOOLEAN, line : Int, path : Paths \cup {Nowhere}, lost : BOOLEAN]

\* Before anything has been read, and after one more unit: every newline counts,
\* the one that ends a marker too.  It is lost when the file is malformed.
Start == [bol |-> TRUE, line |-> 1, path |-> Nowhere, lost |-> FALSE]

After(s, x) ==
  IF s.lost THEN s
  ELSE CASE x.u = "nl"   -> [s EXCEPT !.bol = TRUE, !.line = @ + 1]
         [] x.u \in {"text", "lit"} -> [s EXCEPT !.bol = FALSE]
         [] x.u = "mark" /\ s.bol /\ ~x.path.quoted ->
              [bol |-> FALSE, line |-> x.line - 1, path |-> x.path, lost |-> FALSE]
         [] OTHER -> [s EXCEPT !.lost = TRUE]

\* It takes a token for what it is.
Right(s, x) == ~s.lost /\ x.u \in {"text", "lit"} => s.line = x.line /\ s.path = x.path

\* t[i] is the lexer after i units of o, and it was always right.
Trace(t, o) ==
  /\ t \in [0..Len(o) -> LexRec]
  /\ t[0] = Start
  /\ \A i \in 1..Len(o) : t[i] = After(t[i - 1], o[i]) /\ Right(t[i - 1], o[i])

\* Before the lexer runs, what has been written ends where line_no says, and in
\* the file that is read unless need_sync is set.
Synced(t) ==
  pc \notin {"done", "error"} /\ ~t[Len(out)].lost =>
    t[Len(out)].line = line_no /\ (need_sync \/ t[Len(out)].path = Top.path)

\* The lexer is where the trace says.  In a marker it is ahead by the newline that
\* will not be counted, and of newlines in strlit() it knows nothing.
Follows(t) ==
  /\ pos \in 0..Len(out)
  /\ pc # "done" => pos = 0
  /\ verdict = "lexing" =>
       /\ ~t[pos].lost
       /\ bol => t[pos].bol
       /\ error_line_no = t[pos].line + (IF lit = "path" THEN 1 ELSE 0)
       /\ error_path \in {t[pos].path, Joined}

Foreseen ==
  out \in Seq(Units) /\ \E t : Trace(t, out) /\ Synced(t) /\ Follows(t)

IInv == CppIInv /\ Foreseen
=============================================================================
