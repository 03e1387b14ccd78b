------------------------------ MODULE Scoping ------------------------------
(***************************************************************************)
(* Which binding an identifier of a syntax tree refers to, read off the    *)
(* tree at once and without any traversal state: the reference the         *)
(* resolver is compared with. A binding is named by the node of the scope  *)
(* that holds it. It follows the language with these conventions, which    *)
(* the resolver's own comments and tests state: a function's name (of an   *)
(* expression), parameters and body share a scope, so do a catch clause's  *)
(* parameter and body, and a function declared in a block belongs to the   *)
(* enclosing function.                                                     *)
(***************************************************************************)
EXTENDS SyntaxTree, FiniteSetsExt, SequencesExt

Free == 0

Parents(tree) ==
    [n \in DOMAIN tree |->
       IF n = 1 THEN NoNode
       ELSE CHOOSE m \in 1 .. n - 1 : n \in Range(tree[m].kids)]

AncestorsOf(tree, par) ==
    LET above[n \in DOMAIN tree] ==
            IF n = 1 THEN {} ELSE {par[n]} \cup above[par[n]]
    IN above

Identifiers(tree) == {n \in DOMAIN tree : tree[n].kind = "Identifier"}

\* The name after the dot of a member access names no binding.
PropertyNames(tree) ==
    {n \in Identifiers(tree) :
        \E m \in DOMAIN tree : /\ tree[m].kind = "MemberProperty"
                               /\ tree[m].attr = "name"
                               /\ tree[m].kids = <<n>>}

\* Node n opens a lexical scope. A body block is part of what it is the body of.
OpensScope(tree, par, n) ==
    CASE tree[n].kind \in {"Program", "FunctionLiteral", "ForStatement",
                           "ArrowFunctionLiteral", "ForInOfStatement",
                           "CatchClause", "SwitchStatement"} -> TRUE
      [] tree[n].kind = "BlockStatement" ->
           tree[par[n]].kind \notin {"FunctionLiteral", "CatchClause",
                                     "ArrowFunctionLiteral"}
      [] tree[n].kind = "ClassLiteral" ->
           /\ tree[n].kids[1] # NoNode
           /\ tree[par[n]].kind # "ClassDeclaration"
      [] OTHER -> FALSE

FunctionScopes == {"Program", "FunctionLiteral", "ArrowFunctionLiteral"}

(***************************************************************************)
(* The scoping of a tree:                                                  *)
(*   scope     identifier -> the scope it declares its name in, or Free if *)
(*             it is a reference                                           *)
(*   hoisted   the declaring identifiers that are bound before any         *)
(*             reference in their scope is looked at: all but classes,     *)
(*             loop heads and catch patterns                               *)
(*   binding   identifier -> the scope whose binding it means, or Free     *)
(*   settled   the identifiers with such a binding that either come after  *)
(*             its declaration or mean a hoisted one                       *)
(*   free      the references without a binding, outside parameter lists   *)
(***************************************************************************)
ScopingOf(tree) ==
    LET par == Parents(tree)
        above == AncestorsOf(tree, par)
        ids == Identifiers(tree) \ PropertyNames(tree)
        functionScope(n) ==
            Max({a \in above[n] : tree[a].kind \in FunctionScopes})
        lexicalScope(n) == Max({a \in above[n] : OpensScope(tree, par, a)})
        \* What a pattern's identifier belongs to.
        holder(n) == Max({a \in above[n] : tree[a].kind \notin {"Pattern", "Other"}})
        declarationOf(n) ==
            LET h == holder(n)
            IN IF tree[h].kind = "VariableDeclarator" THEN par[h] ELSE h
        scopeOf(n) ==
            LET d == declarationOf(n)
            IN CASE tree[d].kind = "VariableDeclaration" ->
                      IF tree[d].attr = "var" THEN functionScope(d)
                                              ELSE lexicalScope(d)
                 [] tree[d].kind = "ParameterList" -> par[d]
                 [] tree[d].kind = "CatchClause" -> d
                 [] tree[d].kind = "FunctionLiteral" ->
                      IF tree[par[d]].kind = "FunctionDeclaration"
                      THEN functionScope(d) ELSE d
                 [] tree[d].kind = "ClassLiteral" ->
                      IF tree[par[d]].kind = "ClassDeclaration"
                      THEN lexicalScope(par[d]) ELSE d
                 [] OTHER -> Free
        scope == [n \in ids |-> scopeOf(n)]
        \* A function's parameter expressions do not see its body's bindings.
        inParams(n, s) ==
            \E p \in above[n] : tree[p].kind = "ParameterList" /\ par[p] = s
        inBody(d, s) == Last(tree[s].kids) \in above[d]
        sees(n, s) == \E d \in ids : /\ scope[d] = s
                                     /\ tree[d].attr = tree[n].attr
                                     /\ inParams(n, s) => ~inBody(d, s)
        bindingOf(n) ==
            IF scope[n] # Free THEN scope[n]
            ELSE Max({Free} \cup {a \in above[n] : sees(n, a)})
        binding == [n \in ids |-> bindingOf(n)]
        loopHead(d) ==
            /\ tree[d].kind = "VariableDeclaration" /\ tree[d].attr # "var"
            /\ tree[par[d]].kind \in {"ForStatement", "ForInOfStatement"}
        late(d) ==
            \/ tree[d].kind = "CatchClause"
            \/ tree[d].kind = "ClassLiteral"
                 /\ tree[par[d]].kind = "ClassDeclaration"
            \/ loopHead(d)
        hoisted == {d \in ids : scope[d] # Free /\ ~late(declarationOf(d))}
        settles(d, n) == /\ scope[d] = binding[n]
                         /\ tree[d].attr = tree[n].attr
                         /\ d \in hoisted \/ d <= n
    IN [scope |-> scope, hoisted |-> hoisted, binding |-> binding,
        settled |-> {n \in ids : /\ binding[n] # Free
                                 /\ \E d \in ids : settles(d, n)},
        free |-> {n \in ids : /\ binding[n] = Free
                              /\ ~\E s \in above[n] : inParams(n, s)}]
=============================================================================
