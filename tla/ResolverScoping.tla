-------------------------- MODULE ResolverScoping --------------------------
(***************************************************************************)
(* What Resolve leaves in the tree, compared with the scoping of the tree. *)
(***************************************************************************)
EXTENDS Resolver, Scoping

SameName(a, b) == ast[a].attr = ast[b].attr

\* Uses and declarations of one binding agree on its context, whatever order
\* the walk met them in and whatever scopes were opened and closed between
\* (scope.go: "two identifiers share a context if they refer to the same
\* binding"), for the bindings the pre-pass covers and for uses after the
\* declaration otherwise.
SameBinding ==
    done => LET s == ScopingOf(ast)
            IN \A a, b \in s.settled :
                 SameName(a, b) /\ s.binding[a] = s.binding[b]
                   => ctxOf[a] = ctxOf[b]

\* Identifiers that mean different bindings never agree, so that renaming one
\* binding cannot capture another, a free reference or a property name.
DistinctBindings ==
    done => LET s == ScopingOf(ast)
            IN \A a \in s.settled :
                 /\ \A b \in s.settled :
                      SameName(a, b) /\ s.binding[a] # s.binding[b]
                        => ctxOf[a] # ctxOf[b]
                 /\ \A b \in s.free \cup PropertyNames(ast) :
                      SameName(a, b) => ctxOf[a] # ctxOf[b]

\* The context recorded at a node that opens a scope is the one its own
\* declarations carry, so a client can find a scope's bindings from the node.
nodeContext(n) == IF ast[n].kind = "Program" THEN TopLevelContext ELSE ctxOf[n]

RecordsContext ==
    {"Program", "BlockStatement", "FunctionLiteral", "ArrowFunctionLiteral"}

ScopeNodesAgree ==
    done => LET s == ScopingOf(ast)
            IN \A d \in DOMAIN s.scope :
                 LET n == s.scope[d]
                 IN n # Free /\ ast[n].kind \in RecordsContext
                      => ctxOf[d] = nodeContext(n)

-----------------------------------------------------------------------------
\* What a comment promises without the restrictions above.

\* scope.go: "two identifiers share a context if they refer to the same
\* binding".
OneContextPerBinding ==
    done => LET s == ScopingOf(ast)
            IN \A a, b \in DOMAIN s.binding :
                 /\ SameName(a, b)
                 /\ s.binding[a] = s.binding[b]
                 /\ s.binding[a] # Free
                   => ctxOf[a] = ctxOf[b]
=============================================================================
