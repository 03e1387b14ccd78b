---------------------------- MODULE RemoveHelper ----------------------------
(***************************************************************************)
(* ext.RemoveHelper (ast/ext/remove.go): a visitor that deletes nodes from *)
(* the lists of a syntax tree while it walks them. A client embeds it and  *)
(* calls Remove() in its Visit methods; one flag carries the request to    *)
(* the list loop that is visiting the node, which compacts the list in     *)
(* place. The five list types share one loop.                              *)
(*                                                                         *)
(* The tree is a node table; a list node is one of ListKinds, the only     *)
(* child of a "VariableDeclaration" or "SequenceExpression" is its list.   *)
(* The client of the model marks the nodes of marked once their children   *)
(* have been visited. The recursion is a stack of things left to do, as in *)
(* Resolver.                                                               *)
(***************************************************************************)
EXTENDS SyntaxTree, Functions

CONSTANTS
    Trees,         \* the trees to walk
    Markable(_)    \* tree -> the nodes a client may ask to remove

\* The nodes of the tree below n, n with them: in preorder those from n on up to
\* the first that is no child of one of them.
Subtree(tree, n) ==
    {m \in DOMAIN tree :
        /\ n <= m
        /\ \A j \in n + 1 .. m : \E p \in n .. j - 1 : j \in Range(tree[p].kids)}

\* A node and the trees of its children are what is below it, each once.
Preorder(tree) ==
    \A n \in DOMAIN tree :
        LET ks == tree[n].kids
        IN /\ ks \in Seq(DOMAIN tree)
           /\ Subtree(tree, n) = {n} \cup UNION {Subtree(tree, c) : c \in Range(ks)}
           /\ \A i \in DOMAIN ks : n \notin Subtree(tree, ks[i])
           /\ \A i, j \in DOMAIN ks :
                 i # j => Subtree(tree, ks[i]) \cap Subtree(tree, ks[j]) = {}

ListKinds ==
    {"Statements", "Expressions", "VariableDeclarators", "ClassElements",
     "Properties"}

\* Nodes that remove themselves have one child, a list. Their methods and those of
\* the lists are RemoveHelper's: a client asks for the removal of other nodes.
SelfRemoving == {"VariableDeclaration", "SequenceExpression"}

ASSUME RemoveAssumption ==
    \A tree \in Trees :
        /\ DOMAIN tree = 1 .. Len(tree) /\ Len(tree) \in Nat \ {0}
        /\ Subtree(tree, 1) = DOMAIN tree /\ Preorder(tree)
        /\ Markable(tree) \subseteq DOMAIN tree
        /\ \A n \in Markable(tree) : tree[n].kind \notin ListKinds \cup SelfRemoving
        /\ \A n \in DOMAIN tree : tree[n].kind \in SelfRemoving =>
              /\ Len(tree[n].kids) = 1
              /\ tree[tree[n].kids[1]].kind \in ListKinds

VARIABLES
    ast,       \* the tree as it was; never changes
    marked,    \* the nodes the client removes; never changes
    kids,      \* node -> its children now
    todo,      \* the calls and loop iterations still to be done, next first
    remove     \* RemoveHelper.remove

vars == <<ast, marked, kids, todo, remove>>

visit(n)      == [op |-> "visit", node |-> n]
mark(n)       == [op |-> "mark", node |-> n]
empty(n)      == [op |-> "empty", node |-> n]
next(n, i, w) == [op |-> "next", node |-> n, i |-> i, w |-> w]
keep(n, i, w) == [op |-> "keep", node |-> n, i |-> i, w |-> w]

Top  == Head(todo)
node == Top.node
doing(op) == todo # <<>> /\ Top.op = op
then(tasks) == todo' = tasks \o Tail(todo)

-----------------------------------------------------------------------------

\* The list methods: for each element, visit it and keep or drop it. i reads
\* and w writes.
VisitList ==
    /\ doing("visit") /\ ast[node].kind \in ListKinds
    /\ then(<<next(node, 1, 1)>>)
    /\ UNCHANGED <<kids, remove>>

\* Seeded fault: the list is not cut to the elements kept.
NextElementUncut ==
    /\ doing("next")
    /\ then(IF Top.i <= Len(kids[node])
            THEN <<visit(kids[node][Top.i]), keep(node, Top.i, Top.w)>>
            ELSE <<>>)
    /\ UNCHANGED <<kids, remove>>

\* One turn of the loop; at its end the list is cut to the elements kept.
NextElement ==
    /\ doing("next")
    /\ IF Top.i <= Len(kids[node])
       THEN /\ then(<<visit(kids[node][Top.i]), keep(node, Top.i, Top.w)>>)
            /\ UNCHANGED kids
       ELSE /\ kids' = [kids EXCEPT ![node] = SubSeq(@, 1, Top.w - 1)]
            /\ then(<<>>)
    /\ UNCHANGED remove

\* Seeded fault: the request stays pending after it was met.
KeepOrDropUncleared ==
    /\ doing("keep")
    /\ IF remove
       THEN then(<<next(node, Top.i + 1, Top.w)>>) /\ UNCHANGED kids
       ELSE /\ kids' = [kids EXCEPT ![node][Top.w] = kids[node][Top.i]]
            /\ then(<<next(node, Top.i + 1, Top.w + 1)>>)
    /\ UNCHANGED remove

\* Seeded fault: a dropped element is cut out at once, under the read index.
KeepOrDropShifts ==
    /\ doing("keep")
    /\ kids' = IF remove
               THEN [kids EXCEPT ![node] = SubSeq(@, 1, Top.i - 1)
                                           \o SubSeq(@, Top.i + 1, Len(@))]
               ELSE kids
    /\ then(<<next(node, Top.i + 1, Top.w + IF remove THEN 0 ELSE 1)>>)
    /\ remove' = FALSE

\* The element just visited stays unless its removal was requested.
KeepOrDrop ==
    /\ doing("keep")
    /\ IF remove
       THEN then(<<next(node, Top.i + 1, Top.w)>>) /\ UNCHANGED kids
       ELSE /\ kids' = [kids EXCEPT ![node][Top.w] = kids[node][Top.i]]
            /\ then(<<next(node, Top.i + 1, Top.w + 1)>>)
    /\ remove' = FALSE

\* VisitVariableDeclaration and VisitSequenceExpression: a declaration or
\* sequence left without elements removes itself.
VisitSelfRemoving ==
    /\ doing("visit")
    /\ ast[node].kind \in SelfRemoving
    /\ then(<<visit(ast[node].kids[1]), empty(node)>>)
    /\ UNCHANGED <<kids, remove>>

RemoveIfEmpty ==
    /\ doing("empty")
    /\ remove' = (remove \/ kids[ast[node].kids[1]] = <<>>)
    /\ then(<<>>)
    /\ UNCHANGED kids

\* Every other node: the client's method, which visits the children and then
\* may call Remove().
VisitOther ==
    /\ doing("visit")
    /\ ast[node].kind \notin ListKinds \cup SelfRemoving
    /\ then([i \in DOMAIN ast[node].kids |-> visit(ast[node].kids[i])]
            \o (IF node \in marked THEN <<mark(node)>> ELSE <<>>))
    /\ UNCHANGED <<kids, remove>>

Remove ==
    /\ doing("mark")
    /\ remove' = TRUE
    /\ then(<<>>)
    /\ UNCHANGED kids

-----------------------------------------------------------------------------

Init ==
    /\ ast \in Trees
    /\ marked \in SUBSET Markable(ast)
    /\ kids = [n \in DOMAIN ast |-> ast[n].kids]
    /\ todo = <<visit(1)>>
    /\ remove = FALSE

done == todo = <<>>

Next ==
    \/ /\ \/ VisitList \/ NextElement \/ KeepOrDrop \/ VisitSelfRemoving
          \/ RemoveIfEmpty \/ VisitOther \/ Remove
       /\ UNCHANGED <<ast, marked>>
    \/ done /\ UNCHANGED vars

Spec == Init /\ [][Next]_vars

-----------------------------------------------------------------------------

RemoveTypeOK ==
    /\ marked \subseteq DOMAIN ast
    /\ kids \in [DOMAIN ast -> Seq(DOMAIN ast)]
    /\ remove \in BOOLEAN

\* The elements a list should lose: what the client marked, and what holds a
\* declaration or a sequence that lost all its elements. gone is built from the
\* leaves up, as children have larger numbers than their parents.
GoneOf(tree, marks) ==
    LET gone[n \in DOMAIN tree] ==
            IF n \in marks THEN TRUE
            ELSE CASE tree[n].kind \in ListKinds -> FALSE
                   [] tree[n].kind \in SelfRemoving ->
                        \A m \in Range(tree[tree[n].kids[1]].kids) : gone[m]
                   [] OTHER -> \E m \in Range(tree[n].kids) : gone[m]
    IN {n \in DOMAIN tree : gone[n]}

Gone == GoneOf(ast, marked)
Stay == DOMAIN ast \ Gone

\* Every list ends with exactly the elements that should stay, in their order
\* ("Remove marks the current node for removal").
RemovesExactlyTheMarked ==
    done => \A n \in DOMAIN ast : ast[n].kind \in ListKinds =>
              kids[n] = Sublist(ast[n].kids, Stay)

\* remove.go: "Remove marks the current node for removal", so a list only loses
\* elements in which something was marked.
RemovesOnlyTheMarked ==
    LET holdsMark[n \in DOMAIN ast] ==
            n \in marked \/ \E m \in Range(ast[n].kids) : holdsMark[m]
    IN done => \A n \in DOMAIN ast : ast[n].kind \in ListKinds =>
                 \A m \in Range(ast[n].kids) \ Range(kids[n]) : holdsMark[m]

\* A request to remove one element is never still pending when the visit of
\* another one starts: one flag is enough for all the loops that are active.
RequestMeetsItsLoop ==
    doing("next") \/ (doing("visit") /\ ast[node].kind \in ListKinds) => ~remove

\* The nodes below n whose removal a list above n would act on.
Inner(tree, n) ==
    {m \in Subtree(tree, n) :
        \A l \in Subtree(tree, n) :
            tree[l].kind \in ListKinds => m \notin Subtree(tree, l)}

\* The nodes that may call Remove.
Askers(tree) ==
    {n \in DOMAIN tree : tree[n].kind \in SelfRemoving} \cup Markable(tree)

\* A node asks for the removal of the element it is in only below the last child
\* of each node on the way: after it the element's loop goes on.
RequestsComeLast(tree) ==
    \A n \in DOMAIN tree :
        tree[n].kind \notin ListKinds =>
            \A i \in 1 .. Len(tree[n].kids) - 1 :
                Inner(tree, tree[n].kids[i]) \cap Askers(tree) = {}

\* While a list is compacted in place, the elements that are still to be
\* visited are the list's own, and the ones kept so far are a subsequence of
\* those passed: nothing is overwritten before it is read.
CompactionInPlace ==
    \A k \in DOMAIN todo :
      LET t == todo[k]
      IN t.op \in {"next", "keep"} =>
           /\ t.w <= t.i
           /\ Len(kids[t.node]) = Len(ast[t.node].kids)
           /\ \A j \in t.i .. Len(kids[t.node]) :
                kids[t.node][j] = ast[t.node].kids[j]
           /\ \A j \in 1 .. t.w - 1 :
                \E m \in j .. t.i - 1 : kids[t.node][j] = ast[t.node].kids[m]
=============================================================================
