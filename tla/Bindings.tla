------------------------------ MODULE Bindings ------------------------------
(***************************************************************************)
(* The values the resolver's symbol table is made of: declaration kinds,   *)
(* scope contexts, and the entry the table holds for a name.               *)
(***************************************************************************)
EXTENDS Integers

CONSTANTS
    Name,      \* identifier spellings
    MaxCtxt    \* largest scope context: ast.ScopeContext is an int32

ASSUME MaxCtxtAssumption == MaxCtxt \in Nat \ {0}

\* declKind: let and const declarations are recorded with the kind of a var.
declKindVar      == 0
declKindFunction == 1
declKindClass    == 2
DeclKind == {declKindVar, declKindFunction, declKindClass}

UnresolvedContext == 0
TopLevelContext   == 1
ScopeContext == UnresolvedContext .. MaxCtxt

\* symEntry: the innermost visible binding of a name. The Go zero value of the
\* struct, which a lookup of an absent key yields, stands for "no entry".
symEntry == [ctx : ScopeContext, kind : DeclKind]
NoEntry  == [ctx |-> UnresolvedContext, kind |-> declKindVar]
=============================================================================
