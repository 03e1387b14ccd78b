----------------------------- MODULE SyntaxTree -----------------------------
(***************************************************************************)
(* A syntax tree as the visitors see it: a table of nodes in preorder,     *)
(* the root first. kids lists a node's children in the order               *)
(* VisitChildrenWith visits them (ast/visit.go); a child that is optional  *)
(* and absent is NoNode. A node type that no visitor modelled here treats  *)
(* specially, and that only hands its children on, is an "Other".          *)
(*                                                                         *)
(*   Program, BlockStatement   <<Statements>>                              *)
(*   Statements                the statements                              *)
(*   VariableDeclaration       the declarators; attr "var" or "let"        *)
(*   VariableDeclarator        <<Pattern, Expression or NoNode>>           *)
(*   Pattern                   <<Identifier>> or <<Other>> of Patterns and *)
(*                             Expressions (defaults, computed keys)       *)
(*   FunctionDeclaration       <<FunctionLiteral>>                         *)
(*   FunctionLiteral           <<Identifier or NoNode, ParameterList,      *)
(*                               BlockStatement>>                          *)
(*   ArrowFunctionLiteral      <<ParameterList, BlockStatement or          *)
(*                               Expression>>                              *)
(*   ParameterList             declarators, then the rest Pattern if any   *)
(*   ClassDeclaration          <<ClassLiteral>>                            *)
(*   ClassLiteral              <<Identifier or NoNode, Expression or       *)
(*                               NoNode, Other>>                           *)
(*   CatchClause               <<Pattern or NoNode, BlockStatement>>       *)
(*   ForStatement              <<VariableDeclaration, Expression or        *)
(*                               NoNode (initializer), Expression or       *)
(*                               NoNode (test), Expression or NoNode       *)
(*                               (update), statement>>                     *)
(*   ForInOfStatement          <<VariableDeclaration or Pattern,           *)
(*                               Expression, statement>>                   *)
(*   SwitchStatement           <<Expression, Other of the cases>>          *)
(*   MemberProperty            attr "computed" <<Expression>>, else        *)
(*                             <<Identifier>>                              *)
(***************************************************************************)
EXTENDS Integers, Sequences

NoNode == 0

NodeKind ==
    {"Program", "Statements", "BlockStatement", "VariableDeclaration",
     "VariableDeclarator", "Pattern", "Expression", "Identifier",
     "FunctionDeclaration", "FunctionLiteral", "ArrowFunctionLiteral",
     "ParameterList", "ClassDeclaration", "ClassLiteral", "CatchClause",
     "ForStatement", "ForInOfStatement", "SwitchStatement",
     "MemberProperty", "Other"}

Is(tree, n, kind) == n # NoNode /\ tree[n].kind = kind

\* The elements of a list that are in P, in their order.
Sublist(list, P) ==
    LET upTo[i \in 0 .. Len(list)] ==
            IF i = 0 THEN <<>>
            ELSE IF list[i] \in P THEN Append(upTo[i - 1], list[i])
            ELSE upTo[i - 1]
    IN upTo[Len(list)]

\* The children that are there, in visiting order.
Children(tree, n) == Sublist(tree[n].kids, DOMAIN tree)

\* What the visitors rely on in the table above: children are nodes of the tree,
\* and those a visitor picks out are there and of the kind it expects.
WellFormedNode(tree, n, names) ==
    LET kids == tree[n].kids
        a(kind) == tree[n].kind = kind
        there(i) == kids[i] # NoNode
        is(i, kind) == Is(tree, kids[i], kind)
        count(k) == Len(kids) = k
    IN /\ kids \in Seq(DOMAIN tree \cup {NoNode})
       /\ a("Identifier") => tree[n].attr \in names
       /\ a("Statements") => \A i \in DOMAIN kids : there(i)
       /\ a("VariableDeclaration") =>
             \A i \in DOMAIN kids : is(i, "VariableDeclarator")
       /\ a("VariableDeclarator") => count(2) /\ there(1)
       /\ a("Pattern") => count(1) /\ there(1)
       /\ a("FunctionDeclaration") =>
             /\ count(1) /\ is(1, "FunctionLiteral")
             /\ Is(tree, tree[kids[1]].kids[1], "Identifier")
       /\ a("FunctionLiteral") =>
             /\ count(3) /\ there(2) /\ is(3, "BlockStatement")
             /\ there(1) => is(1, "Identifier")
       /\ a("ArrowFunctionLiteral") => count(2) /\ there(1) /\ there(2)
       /\ a("ClassDeclaration") => count(1) /\ is(1, "ClassLiteral")
       /\ a("ClassLiteral") => /\ count(3) /\ there(3)
                               /\ there(1) => is(1, "Identifier")
       /\ a("CatchClause") => /\ count(2) /\ is(2, "BlockStatement")
                              /\ there(1) => is(1, "Pattern")
       /\ a("ForStatement") => count(4) /\ there(4)
       /\ a("ForInOfStatement") => count(3) /\ there(3)
       /\ a("SwitchStatement") => count(2) /\ there(1) /\ there(2)

WellFormedTree(tree, names) ==
    /\ 1 \in DOMAIN tree
    /\ NoNode \notin DOMAIN tree
    /\ \A n \in DOMAIN tree : WellFormedNode(tree, n, names)
=============================================================================
