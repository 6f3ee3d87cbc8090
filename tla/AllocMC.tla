------------------------------- MODULE AllocMC -------------------------------
(***************************************************************************)
(* Allocating the registers of one class: every interference graph of four *)
(* pseudo registers and a physical one, with every two copies, and two     *)
(* colours.                                                                *)
(***************************************************************************)
EXTENDS Alloc

CONSTANTS a, b

OneClass == [n \in Node |-> "int"]
Sizes == [n \in Pseudo |-> IF n \in {a, b} THEN 4 ELSE 8]
=============================================================================
