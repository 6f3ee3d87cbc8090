------------------------------ MODULE TestzMC ------------------------------
(* Blocks over two registers.                                                *)
EXTENDS Testz

CCs == DOMAIN Invert

EarlyAlphabet == {CMP0(1), CMP0(2), CMP(1, 2), MOVE(1, 2), MOVE(2, 1), LOAD(1),
                  Binary("ADD", 2, 1, 2)}
                 \cup {SET(d, cc) : d \in Reg, cc \in {"Z", "NZ", "G"}}

(* The results of ANDs are in register 1. *)
MiddleAlphabet == {Binary("AND", 1, 1, 2), Binary("AND", 1, 2, 2), CMP0(1), CMP0(2), LOAD(1), MOVE(2, 1)}
                  \cup {SET(d, cc) : d \in Reg, cc \in {"Z", "G"}}

(* Register 2 is never written over while Z tells of it: a definition that   *)
(* is not tied to a use has a register of its own.                           *)
LateAlphabet == {Binary("ADDL", 1, 2, 0), Binary("SHLI", 1, 0, 0), Binary("ADDL", 1, 1, 0),
                 CMP0(1), CMP0(2), CMP(1, 2), MOVE(2, 1), SET(2, "Z"), SET(2, "NZ")}

Zs == {"", "Z", "NZ"}

MCAlphabet == [early |-> EarlyAlphabet, middle |-> MiddleAlphabet, late |-> LateAlphabet]
MCBranches == [early |-> Zs \cup {"G"}, middle |-> Zs \cup {"LE"}, late |-> Zs]

(* The results of ANDs are not live out. *)
MCLiveOut == [early |-> Reg, middle |-> {2}, late |-> Reg]
=============================================================================
