------------------------------ MODULE MCArena ------------------------------
(***************************************************************************)
(* Model checking of Arena: every sequence of node and slice requests up   *)
(* to a bound, from a first chunk so short that chunks are abandoned half  *)
(* full, grown by half (2, 3, 4, ...) and sized for a long slice. Elements *)
(* are interchangeable.                                                    *)
(***************************************************************************)
EXTENDS Arena, TLC

Elems == Permutations(Elem)
=============================================================================
