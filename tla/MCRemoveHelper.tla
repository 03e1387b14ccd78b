--------------------------- MODULE MCRemoveHelper ---------------------------
(***************************************************************************)
(* Trees for the removal walk, and the nodes a client may remove.          *)
(***************************************************************************)
EXTENDS RemoveHelper, SyntaxTrees

List(kind, elems) == N(kind, "", elems)
leaf        == N("Leaf", "", <<>>)
twoVars     == N("VariableDeclaration", "",
                 <<List("VariableDeclarators", <<leaf, leaf>>)>>)
twoExprs    == N("SequenceExpression", "", <<List("Expressions", <<leaf, leaf>>)>>)
block(elems) == N("Block", "", <<List("Statements", elems)>>)

Leaves(tree) ==
    {n \in DOMAIN tree \ {1} : tree[n].kind \in {"Leaf", "Block"}}

\* Declarations and sequences that are an element of a list, alone or wrapped.
ElementTrees ==
    {Table(block(<<leaf, twoVars, block(<<leaf, Other(<<twoExprs>>), leaf>>)>>)),
     Table(block(<<Other(<<twoExprs>>), block(<<twoVars, twoVars>>), leaf>>)),
     Table(block(<<N("Class", "", <<List("ClassElements", <<leaf, block(<<leaf>>)>>)>>),
                   N("Object", "", <<List("Properties", <<leaf, leaf>>)>>)>>))}

\* A declaration that is the head of a loop with a body: for (var x;;) { a; b; }
LoopHeads ==
    {Table(block(<<Other(<<twoVars, block(<<leaf, leaf>>)>>), leaf>>))}

\* What the two sets of trees differ in.
ASSUME \A tree \in ElementTrees : RequestsComeLast(tree)
ASSUME \A tree \in LoopHeads : ~RequestsComeLast(tree)
=============================================================================
