---------------------------- MODULE MCScopeTable ----------------------------
(***************************************************************************)
(* Model checking of ScopeTable: every sequence of scope operations over a *)
(* few names and a few contexts. Names are interchangeable.                *)
(***************************************************************************)
EXTENDS ScopeTable, TLC

Names == Permutations(Name)
=============================================================================
