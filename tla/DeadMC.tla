------------------------------- MODULE DeadMC -------------------------------
(***************************************************************************)
(* Blocks of four instructions over two pseudo registers and the condition *)
(* codes.  The instructions are the kinds that differ in what they do to   *)
(* live ranges.                                                            *)
(***************************************************************************)
EXTENDS Dead

CONSTANTS rx, ry

LOCAL I(u, d, s) == [use |-> u, def |-> d, side |-> s]

MCInsns ==
  { I({rx}, {ry}, FALSE),       \* y := x
    I({}, {rx}, FALSE),         \* x := constant
    I({rx, ry}, {rx}, FALSE),   \* x := x + y
    I({ry}, {rx, ry}, FALSE),   \* two results, as a division has
    I({rx}, {CC}, FALSE),       \* CMP x, 0
    I({CC}, {ry}, FALSE),       \* y := SETz
    I({ry}, {rx}, TRUE) }       \* a call with a result
=============================================================================
