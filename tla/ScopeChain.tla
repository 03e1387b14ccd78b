----------------------------- MODULE ScopeChain -----------------------------
(***************************************************************************)
(* What the resolver's scopes promise: a stack of lexical scopes, each     *)
(* with a context of its own and its own map from names to declaration     *)
(* kinds. A name means what the nearest scope that declares it says. This  *)
(* is the "walk up a chain of maps" that the resolver's single table with  *)
(* an undo trail replaces (resolver/scope.go).                             *)
(***************************************************************************)
EXTENDS Bindings, FiniteSetsExt, SequencesExt

VARIABLES
    scopes,     \* the open scopes, outermost first
    nextCtxt    \* the context the next scope gets

vars == <<scopes, nextCtxt>>

Undeclared == -1

Scope == [ctx : ScopeContext, own : [Name -> DeclKind \cup {Undeclared}]]

TypeOK ==
    /\ scopes \in Seq(Scope)
    /\ nextCtxt \in TopLevelContext .. MaxCtxt

\* The scopes that declare name, and the entry the innermost of them gives it.
Declarers(name) == {d \in DOMAIN scopes : scopes[d].own[name] # Undeclared}

Lookup(name) ==
    IF Declarers(name) = {} THEN NoEntry
    ELSE LET d == Max(Declarers(name))
         IN [ctx |-> scopes[d].ctx, kind |-> scopes[d].own[name]]

Init ==
    /\ scopes = <<>>
    /\ nextCtxt = TopLevelContext

Enter ==
    /\ nextCtxt < MaxCtxt
    /\ scopes' = Append(scopes, [ctx |-> nextCtxt,
                                 own |-> [n \in Name |-> Undeclared]])
    /\ nextCtxt' = nextCtxt + 1

\* The outermost scope stays: the program's bindings outlive the traversal.
Leave ==
    /\ Len(scopes) > 1
    /\ scopes' = Front(scopes)
    /\ UNCHANGED nextCtxt

\* Last writer wins; no other scope and no other name is touched.
Bind(name, kind) ==
    /\ scopes # <<>>
    /\ scopes' = [scopes EXCEPT ![Len(scopes)].own[name] = kind]
    /\ UNCHANGED nextCtxt

Next ==
    \/ Enter
    \/ Leave
    \/ \E name \in Name, kind \in DeclKind : Bind(name, kind)

Spec == Init /\ [][Next]_vars
=============================================================================
