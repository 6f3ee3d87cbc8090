-------------------------------- MODULE CppMC --------------------------------
(***************************************************************************)
(* Instances of the preprocessor: the lines its conditionals and its line  *)
(* numbers depend on.                                                      *)
(***************************************************************************)
EXTENDS CppLex

Of(kinds) == {[kind |-> k, n |-> 1] : k \in kinds}
If == {[kind |-> "if", n |-> 1, val |-> v] : v \in BOOLEAN}
Elif == {[kind |-> "elif", n |-> 1, val |-> v] : v \in BOOLEAN}
Inc(e) == {[kind |-> "include", n |-> 1, path |-> "inc", exists |-> e]}
LineTo(p, i) == [kind |-> "line", n |-> 1, path |-> p, to |-> i]
Long == [kind |-> "word", n |-> 3]

Ends(k, v) == [kind |-> k, n |-> 1, becomes |-> v]

AllLines == Of({"word", "literal", "leads", "blank", "fn", "open",
                "else", "endif", "error", "pragma"})
            \cup {Ends("args", "trails"), Ends("close", "word")}
            \cup If \cup Elif \cup Inc(TRUE) \cup Inc(FALSE)
            \cup {Long, LineTo("", 1), LineTo("", 9), LineTo("given", 9)}
=============================================================================
