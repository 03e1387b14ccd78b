------------------------- MODULE RemoveHelperProofs -------------------------
(***************************************************************************)
(* Proofs about RemoveHelper, for every set of trees. A list is compacted  *)
(* while its elements are visited, and their own lists while theirs are:   *)
(* the loops do not get into each other's way because what they still have *)
(* to visit are parts of the tree that have no node in common, and none of *)
(* them a list some loop is at. One flag serves all loops as long as an    *)
(* element's removal is asked for at the end of its visit.                 *)
(***************************************************************************)
EXTENDS RemoveHelper, SequenceTheorems, TLAPS

Data == INSTANCE DataLemmas

\* What may be on the stack.
Task(tree) ==
    [op : {"visit", "mark", "empty"}, node : DOMAIN tree]
    \cup [op : {"next", "keep"}, node : DOMAIN tree, i : Nat \ {0}, w : Nat \ {0}]

isLoop(t) == t.op \in {"next", "keep"}

\* The nodes below the children of n from the i-th on.
Later(tree, n, i) ==
    UNION {Subtree(tree, tree[n].kids[j]) : j \in i .. Len(tree[n].kids)}

\* The nodes a task will come to.
Pending(tree, t) ==
    IF t.op = "visit" THEN Subtree(tree, t.node)
    ELSE IF t.op = "next" THEN Later(tree, t.node, t.i)
    ELSE IF t.op = "keep" THEN Later(tree, t.node, t.i + 1)
    ELSE {}

\* Two tasks do not meet: they come to different nodes, and neither comes to the
\* list the other one is at.
Apart(tree, t, u) ==
    /\ Pending(tree, t) \cap Pending(tree, u) = {}
    /\ isLoop(t) => t.node \notin Pending(tree, u)
    /\ isLoop(u) => u.node \notin Pending(tree, t)
    /\ isLoop(t) /\ isLoop(u) => t.node # u.node

\* Where the indices of a loop are, and what is in the list.
Compact(tree, kd, t) ==
    LET now == kd[t.node]
        old == tree[t.node].kids
    IN /\ t.w <= t.i
       /\ t.i <= Len(old) + (IF t.op = "next" THEN 1 ELSE 0)
       /\ Len(now) = Len(old)
       /\ \A j \in t.i .. Len(now) : now[j] = old[j]
       /\ \A j \in 1 .. t.w - 1 : \E m \in j .. t.i - 1 : now[j] = old[m]

\* What a task will come to is as it was.
Sound(tree, kd, t) ==
    /\ \A m \in Pending(tree, t) : kd[m] = tree[m].kids
    /\ isLoop(t) => /\ t.node \notin Pending(tree, t)
                    /\ Compact(tree, kd, t)

TypeInv ==
    /\ ast \in Trees
    /\ marked \subseteq Markable(ast)
    /\ kids \in [DOMAIN ast -> Seq(DOMAIN ast)]
    /\ todo \in Seq(Task(ast))
    /\ remove \in BOOLEAN

TasksApart(tree, td) ==
    \A k, l \in DOMAIN td : k # l => Apart(tree, td[k], td[l])

WalkInv ==
    /\ TypeInv
    /\ TasksApart(ast, todo)
    /\ \A k \in DOMAIN todo : Sound(ast, kids, todo[k])

-----------------------------------------------------------------------------
\* Trees.

Tree(tree) ==
    /\ DOMAIN tree = 1 .. Len(tree) /\ Len(tree) \in Nat \ {0}
    /\ Subtree(tree, 1) = DOMAIN tree /\ Preorder(tree)
    /\ Markable(tree) \subseteq DOMAIN tree
    /\ \A n \in Markable(tree) : tree[n].kind \notin ListKinds \cup SelfRemoving
    /\ \A n \in DOMAIN tree : tree[n].kind \in SelfRemoving =>
          /\ Len(tree[n].kids) = 1
          /\ tree[tree[n].kids[1]].kind \in ListKinds

LEMMA TreesAreTrees == \A tree \in Trees : Tree(tree)
BY RemoveAssumption DEF Tree

\* The children of a node and what is below them.
LEMMA KidsOf ==
  ASSUME NEW tree, Tree(tree), NEW n \in DOMAIN tree
  PROVE  /\ tree[n].kids \in Seq(DOMAIN tree)
         /\ Len(tree[n].kids) \in Nat
         /\ DOMAIN tree[n].kids = 1 .. Len(tree[n].kids)
         /\ \A i \in 1 .. Len(tree[n].kids) : tree[n].kids[i] \in DOMAIN tree
         /\ n \in Subtree(tree, n)
         /\ Subtree(tree, n) \subseteq DOMAIN tree
         /\ \A i \in 1 .. Len(tree[n].kids) :
               /\ Subtree(tree, tree[n].kids[i]) \subseteq Subtree(tree, n)
               /\ n \notin Subtree(tree, tree[n].kids[i])
         /\ \A i, j \in 1 .. Len(tree[n].kids) : i # j =>
               Subtree(tree, tree[n].kids[i]) \cap Subtree(tree, tree[n].kids[j]) = {}
<1>1. /\ tree[n].kids \in Seq(DOMAIN tree)
      /\ Subtree(tree, n) = {n} \cup UNION {Subtree(tree, c) : c \in Range(tree[n].kids)}
      /\ \A i \in DOMAIN tree[n].kids : n \notin Subtree(tree, tree[n].kids[i])
      /\ \A i, j \in DOMAIN tree[n].kids : i # j =>
            Subtree(tree, tree[n].kids[i]) \cap Subtree(tree, tree[n].kids[j]) = {}
  BY DEF Tree, Preorder
<1>2. /\ Len(tree[n].kids) \in Nat
      /\ DOMAIN tree[n].kids = 1 .. Len(tree[n].kids)
      /\ \A i \in 1 .. Len(tree[n].kids) : tree[n].kids[i] \in DOMAIN tree
  BY <1>1, LenProperties, ElementOfSeq
<1>3. \A i \in DOMAIN tree[n].kids : tree[n].kids[i] \in Range(tree[n].kids)
  BY DEF Range
<1>4. n \in Subtree(tree, n)
  BY <1>1
<1>5. Subtree(tree, n) \subseteq DOMAIN tree
  BY DEF Subtree
<1>6. \A i \in DOMAIN tree[n].kids : Subtree(tree, tree[n].kids[i]) \subseteq Subtree(tree, n)
  BY <1>1, <1>3
<1> QED
  BY <1>1, <1>2, <1>4, <1>5, <1>6

\* The first of the children from the i-th on, and the others.
LEMMA LaterSplits ==
  ASSUME NEW tree, Tree(tree), NEW n \in DOMAIN tree, NEW i \in Nat \ {0}
  PROVE  /\ Later(tree, n, i) \subseteq Subtree(tree, n)
         /\ n \notin Later(tree, n, i)
         /\ Later(tree, n, i + 1) \subseteq Later(tree, n, i)
         /\ i <= Len(tree[n].kids) =>
              /\ Subtree(tree, tree[n].kids[i]) \subseteq Later(tree, n, i)
              /\ Subtree(tree, tree[n].kids[i]) \cap Later(tree, n, i + 1) = {}
<1> DEFINE ks == tree[n].kids
           sub(j) == Subtree(tree, ks[j])
<1>1. /\ Len(ks) \in Nat
      /\ \A j \in 1 .. Len(ks) : sub(j) \subseteq Subtree(tree, n) /\ n \notin sub(j)
      /\ \A j, k \in 1 .. Len(ks) : j # k => sub(j) \cap sub(k) = {}
  BY KidsOf
<1>2. \A k \in Nat \ {0} : Later(tree, n, k) = UNION {sub(j) : j \in k .. Len(ks)}
  BY DEF Later
<1> HIDE DEF ks, sub
<1>3. \A k \in Nat \ {0} : k .. Len(ks) \subseteq 1 .. Len(ks)
  BY <1>1
<1>4. i + 1 \in Nat \ {0} /\ i + 1 .. Len(ks) \subseteq i .. Len(ks)
  BY <1>1
<1>5. i <= Len(ks) => i \in i .. Len(ks) /\ i \in 1 .. Len(ks) /\ i \notin i + 1 .. Len(ks)
  BY <1>1
<1>6. Later(tree, n, i) \subseteq Subtree(tree, n) /\ n \notin Later(tree, n, i)
  BY <1>1, <1>2, <1>3
<1>7. Later(tree, n, i + 1) \subseteq Later(tree, n, i)
  BY <1>2, <1>4
<1>8. i <= Len(ks) => sub(i) \subseteq Later(tree, n, i)
  BY <1>2, <1>5
<1>9. i <= Len(ks) => sub(i) \cap Later(tree, n, i + 1) = {}
  <2> SUFFICES ASSUME i <= Len(ks), NEW m \in sub(i), m \in Later(tree, n, i + 1)
               PROVE  FALSE
    OBVIOUS
  <2>1. PICK j \in i + 1 .. Len(ks) : m \in sub(j)
    BY <1>2, <1>4
  <2> QED
    BY <1>1, <1>3, <1>4, <1>5, <2>1
<1> QED
  BY <1>6, <1>7, <1>8, <1>9 DEF ks, sub

\* Pending tasks come to nodes of the tree.
LEMMA PendingInTree ==
  ASSUME NEW tree, Tree(tree), NEW t \in Task(tree)
  PROVE  /\ t.node \in DOMAIN tree
         /\ Pending(tree, t) \subseteq DOMAIN tree
         /\ isLoop(t) => t.i \in Nat \ {0} /\ t.w \in Nat \ {0}
<1>1. /\ t.node \in DOMAIN tree
      /\ isLoop(t) => t.i \in Nat \ {0} /\ t.w \in Nat \ {0}
  BY DEF Task, isLoop
<1>2. Subtree(tree, t.node) \subseteq DOMAIN tree
  BY DEF Subtree
<1>3. isLoop(t) => /\ Later(tree, t.node, t.i) \subseteq DOMAIN tree
                   /\ Later(tree, t.node, t.i + 1) \subseteq DOMAIN tree
  BY <1>1, <1>2, LaterSplits
<1> QED
  BY <1>1, <1>2, <1>3 DEF Pending, isLoop

-----------------------------------------------------------------------------
\* Replacing the task on top by others.

LEMMA Popped ==
  ASSUME NEW S, NEW td \in Seq(S), td # <<>>
  PROVE  /\ Head(td) = td[1] /\ Head(td) \in S
         /\ Len(td) \in Nat \ {0}
         /\ Tail(td) \in Seq(S) /\ Len(Tail(td)) = Len(td) - 1
         /\ \A k \in 1 .. Len(td) - 1 : Tail(td)[k] = td[k + 1]
<1>1. Len(td) \in Nat \ {0}
  BY EmptySeq
<1>2. td[1] \in S
  BY <1>1, ElementOfSeq
<1> QED
  BY <1>1, <1>2, HeadTailProperties

\* A stack whose top gives way to the tasks s.
LEMMA Replaced ==
  ASSUME NEW S, NEW td \in Seq(S), td # <<>>, NEW s \in Seq(S)
  PROVE  /\ Len(s) \in Nat /\ Len(td) \in Nat \ {0}
         /\ DOMAIN td = 1 .. Len(td) /\ DOMAIN s = 1 .. Len(s)
         /\ Len(s \o Tail(td)) = Len(s) + (Len(td) - 1)
         /\ DOMAIN (s \o Tail(td)) = 1 .. Len(s) + (Len(td) - 1)
         /\ \A k \in 1 .. Len(s) : (s \o Tail(td))[k] = s[k]
         /\ \A q \in 2 .. Len(td) : (s \o Tail(td))[Len(s) + (q - 1)] = td[q]
<1>1. /\ Len(td) \in Nat \ {0} /\ Tail(td) \in Seq(S)
      /\ Len(Tail(td)) = Len(td) - 1
      /\ \A k \in 1 .. Len(td) - 1 : Tail(td)[k] = td[k + 1]
  BY Popped
<1>2. Len(s) \in Nat /\ DOMAIN td = 1 .. Len(td) /\ DOMAIN s = 1 .. Len(s)
  BY LenProperties
<1> DEFINE c == s \o Tail(td)
<1>3. /\ Len(c) = Len(s) + Len(Tail(td)) /\ c \in Seq(S)
      /\ \A k \in 1 .. Len(s) + Len(Tail(td)) :
            c[k] = IF k <= Len(s) THEN s[k] ELSE Tail(td)[k - Len(s)]
  BY <1>1, <1>2, ConcatProperties
<1>4. DOMAIN c = 1 .. Len(c)
  BY <1>3, LenProperties
<1> HIDE DEF c
<1>5. \A k \in 1 .. Len(s) : c[k] = s[k]
  BY <1>1, <1>2, <1>3
<1>6. \A q \in 2 .. Len(td) : c[Len(s) + (q - 1)] = td[q]
  <2> SUFFICES ASSUME NEW q \in 2 .. Len(td)
               PROVE  c[Len(s) + (q - 1)] = td[q]
    OBVIOUS
  <2>1. /\ Len(s) + (q - 1) \in 1 .. Len(s) + Len(Tail(td))
        /\ ~(Len(s) + (q - 1) <= Len(s))
        /\ Len(s) + (q - 1) - Len(s) = q - 1 /\ q - 1 \in 1 .. Len(td) - 1
        /\ (q - 1) + 1 = q
    BY <1>1, <1>2
  <2>2. c[Len(s) + (q - 1)] = Tail(td)[q - 1]
    BY <1>3, <2>1
  <2> QED
    BY <1>1, <2>1, <2>2
<1> QED
  BY <1>1, <1>2, <1>3, <1>4, <1>5, <1>6 DEF c

\* What is on the stack then: a new task, or an old one other than the top.
LEMMA Pushed ==
  ASSUME NEW S, NEW td \in Seq(S), td # <<>>, NEW s \in Seq(S)
  PROVE  /\ s \o Tail(td) \in Seq(S)
         /\ \A k \in DOMAIN (s \o Tail(td)) :
               \/ k \in DOMAIN s /\ (s \o Tail(td))[k] = s[k]
               \/ /\ k \notin DOMAIN s
                  /\ k - Len(s) + 1 \in DOMAIN td \ {1}
                  /\ (s \o Tail(td))[k] = td[k - Len(s) + 1]
<1>1. /\ Len(td) \in Nat \ {0} /\ Tail(td) \in Seq(S)
      /\ Len(Tail(td)) = Len(td) - 1
      /\ \A k \in 1 .. Len(td) - 1 : Tail(td)[k] = td[k + 1]
  BY Popped
<1>2. Len(s) \in Nat /\ DOMAIN s = 1 .. Len(s) /\ DOMAIN td = 1 .. Len(td)
  BY LenProperties
<1> DEFINE c == s \o Tail(td)
<1>3. /\ c \in Seq(S)
      /\ Len(c) = Len(s) + Len(td) - 1
      /\ \A k \in 1 .. Len(s) + Len(Tail(td)) :
            c[k] = IF k <= Len(s) THEN s[k] ELSE Tail(td)[k - Len(s)]
  BY <1>1, <1>2, ConcatProperties
<1>4. DOMAIN c = 1 .. Len(s) + Len(td) - 1
  BY <1>3, LenProperties
<1> HIDE DEF c
<1>5. \A k \in DOMAIN c : k <= Len(s) => k \in DOMAIN s /\ c[k] = s[k]
  BY <1>1, <1>2, <1>3, <1>4
<1>6. \A k \in DOMAIN c : ~(k <= Len(s)) =>
          /\ k \notin DOMAIN s
          /\ k - Len(s) + 1 \in 2 .. Len(td)
          /\ c[k] = td[k - Len(s) + 1]
  <2> SUFFICES ASSUME NEW k \in DOMAIN c, ~(k <= Len(s))
               PROVE  /\ k \notin DOMAIN s
                      /\ k - Len(s) + 1 \in 2 .. Len(td)
                      /\ c[k] = td[k - Len(s) + 1]
    OBVIOUS
  <2>1. k \in 1 .. Len(s) + Len(td) - 1
    BY <1>4
  <2>2. k - Len(s) \in 1 .. Len(td) - 1 /\ k \notin 1 .. Len(s)
    BY <1>1, <1>2, <2>1
  <2>3. c[k] = Tail(td)[k - Len(s)]
    BY <1>1, <1>2, <1>3, <2>1
  <2>4. Tail(td)[k - Len(s)] = td[k - Len(s) + 1]
    BY <1>1, <2>2
  <2>5. k - Len(s) + 1 \in 2 .. Len(td)
    BY <1>1, <1>2, <2>2
  <2> QED
    BY <1>2, <2>2, <2>3, <2>4, <2>5
<1>8. 2 .. Len(td) \subseteq DOMAIN td \ {1}
  BY <1>1, <1>2
<1> QED
  BY <1>3, <1>5, <1>6, <1>8 DEF c

\* What comes to a part of what h comes to, and is at no list but h's or one that
\* h comes to, is apart from what h is apart from.
LEMMA PartStaysApart ==
  ASSUME NEW tree, NEW h, NEW t, NEW u,
         Apart(tree, h, u),
         Pending(tree, t) \subseteq Pending(tree, h),
         isLoop(t) => \/ t.node \in Pending(tree, h)
                      \/ isLoop(h) /\ t.node = h.node
  PROVE  Apart(tree, t, u) /\ Apart(tree, u, t)
BY DEF Apart

\* What a step of the walk has to show: the tasks s it puts in place of the top.
LEMMA WalkStep ==
  ASSUME WalkInv, todo # <<>>, UNCHANGED <<ast, marked>>, remove' \in BOOLEAN,
         NEW s \in Seq(Task(ast)), then(s),
         kids' \in [DOMAIN ast -> Seq(DOMAIN ast)],
         kids' = kids \/ (/\ isLoop(Top)
                          /\ \A m \in DOMAIN ast : m # node => kids'[m] = kids[m]),
         TasksApart(ast, s),
         \A k \in DOMAIN s :
            /\ Pending(ast, s[k]) \subseteq Pending(ast, Top)
            /\ isLoop(s[k]) => \/ s[k].node \in Pending(ast, Top)
                               \/ isLoop(Top) /\ s[k].node = node
            /\ Sound(ast, kids', s[k])
  PROVE  WalkInv'
<1>1. ast \in Trees /\ Tree(ast) /\ todo \in Seq(Task(ast))
  BY TreesAreTrees DEF WalkInv, TypeInv
<1> DEFINE td == s \o Tail(todo)
<1>2. todo' = td /\ ast' = ast
  BY DEF then
<1>3. /\ td \in Seq(Task(ast))
      /\ \A k \in DOMAIN td :
            \/ k \in DOMAIN s /\ td[k] = s[k]
            \/ /\ k \notin DOMAIN s /\ k - Len(s) + 1 \in DOMAIN todo \ {1}
               /\ td[k] = todo[k - Len(s) + 1]
  BY <1>1, Pushed
<1>4. Top = todo[1] /\ 1 \in DOMAIN todo
  BY <1>1, Popped, LenProperties DEF Top
<1>5. DOMAIN s \subseteq Int /\ DOMAIN td \subseteq Int /\ Len(s) \in Nat
  BY <1>3, LenProperties
<1> HIDE DEF td
<1>6. TasksApart(ast, td)
  <2> SUFFICES ASSUME NEW k \in DOMAIN td, NEW l \in DOMAIN td, k # l
               PROVE  Apart(ast, td[k], td[l])
    BY DEF TasksApart
  <2>1. CASE k \in DOMAIN s /\ td[k] = s[k] /\ l \in DOMAIN s /\ td[l] = s[l]
    BY <2>1 DEF TasksApart
  <2>2. \A p \in DOMAIN s, q \in DOMAIN todo \ {1} :
            Apart(ast, s[p], todo[q]) /\ Apart(ast, todo[q], s[p])
    <3> TAKE p \in DOMAIN s, q \in DOMAIN todo \ {1}
    <3>1. Apart(ast, Top, todo[q])
      BY <1>4 DEF WalkInv, TasksApart
    <3> QED
      BY <3>1, PartStaysApart DEF node
  <2>3. CASE ~(k \in DOMAIN s) /\ ~(l \in DOMAIN s)
    <3>1. /\ k - Len(s) + 1 \in DOMAIN todo /\ td[k] = todo[k - Len(s) + 1]
          /\ l - Len(s) + 1 \in DOMAIN todo /\ td[l] = todo[l - Len(s) + 1]
      BY <1>3, <2>3
    <3>2. k - Len(s) + 1 # l - Len(s) + 1
      BY <1>5
    <3> QED
      BY <3>1, <3>2 DEF WalkInv, TasksApart
  <2> QED
    BY <1>3, <2>1, <2>2, <2>3
<1>7. \A k \in DOMAIN td : Sound(ast, kids', td[k])
  <2> SUFFICES ASSUME NEW q \in DOMAIN todo \ {1}
               PROVE  Sound(ast, kids', todo[q])
    BY <1>3
  <2>1. Sound(ast, kids, todo[q]) /\ Apart(ast, Top, todo[q])
    BY <1>4 DEF WalkInv, TasksApart
  <2>2. todo[q] \in Task(ast)
    BY <1>1, ElementOfSeq, LenProperties
  <2>3. todo[q].node \in DOMAIN ast /\ Pending(ast, todo[q]) \subseteq DOMAIN ast
    BY <1>1, <2>2, PendingInTree
  <2>4. CASE kids' = kids
    BY <2>1, <2>4
  <2>5. CASE /\ isLoop(Top)
             /\ \A m \in DOMAIN ast : m # node => kids'[m] = kids[m]
    <3>1. /\ node \notin Pending(ast, todo[q])
          /\ isLoop(todo[q]) => todo[q].node # node
      BY <2>1, <2>5 DEF Apart, node
    <3>2. \A m \in Pending(ast, todo[q]) : kids'[m] = ast[m].kids
      BY <2>1, <2>3, <2>5, <3>1 DEF Sound
    <3>3. isLoop(todo[q]) => kids'[todo[q].node] = kids[todo[q].node]
      BY <2>3, <2>5, <3>1
    <3>4. isLoop(todo[q]) => Compact(ast, kids', todo[q])
      <4> SUFFICES ASSUME isLoop(todo[q])
                   PROVE  Compact(ast, kids', todo[q])
        OBVIOUS
      <4>1. Compact(ast, kids, todo[q])
        BY <2>1 DEF Sound
      <4> QED
        BY <3>3, <4>1 DEF Compact
    <3> QED
      BY <2>1, <3>2, <3>4 DEF Sound
  <2> QED
    BY <2>4, <2>5
<1>8. TypeInv'
  BY <1>2, <1>3 DEF WalkInv, TypeInv
<1> QED
  BY <1>2, <1>6, <1>7, <1>8 DEF WalkInv

-----------------------------------------------------------------------------
\* The steps of the walk.

LEMMA Tasks ==
  ASSUME NEW tree, NEW n \in DOMAIN tree, NEW i \in Nat \ {0}, NEW w \in Nat \ {0}
  PROVE  /\ visit(n) \in Task(tree) /\ mark(n) \in Task(tree) /\ empty(n) \in Task(tree)
         /\ next(n, i, w) \in Task(tree) /\ keep(n, i, w) \in Task(tree)
         /\ Pending(tree, visit(n)) = Subtree(tree, n)
         /\ Pending(tree, mark(n)) = {} /\ Pending(tree, empty(n)) = {}
         /\ Pending(tree, next(n, i, w)) = Later(tree, n, i)
         /\ Pending(tree, keep(n, i, w)) = Later(tree, n, i + 1)
         /\ ~isLoop(visit(n)) /\ ~isLoop(mark(n)) /\ ~isLoop(empty(n))
         /\ isLoop(next(n, i, w)) /\ isLoop(keep(n, i, w))
         /\ next(n, i, w).node = n /\ keep(n, i, w).node = n
<1>1. /\ visit(n) \in Task(tree) /\ mark(n) \in Task(tree) /\ empty(n) \in Task(tree)
      /\ next(n, i, w) \in Task(tree) /\ keep(n, i, w) \in Task(tree)
  BY DEF Task, visit, mark, empty, next, keep
<1>2. /\ Pending(tree, visit(n)) = Subtree(tree, n)
      /\ Pending(tree, mark(n)) = {} /\ Pending(tree, empty(n)) = {}
      /\ Pending(tree, next(n, i, w)) = Later(tree, n, i)
      /\ Pending(tree, keep(n, i, w)) = Later(tree, n, i + 1)
  BY DEF Pending, visit, mark, empty, next, keep
<1>3. /\ ~isLoop(visit(n)) /\ ~isLoop(mark(n)) /\ ~isLoop(empty(n))
      /\ isLoop(next(n, i, w)) /\ isLoop(keep(n, i, w))
      /\ next(n, i, w).node = n /\ keep(n, i, w).node = n
  BY DEF isLoop, visit, mark, empty, next, keep
<1> QED
  BY <1>1, <1>2, <1>3

\* A task that is no loop is sound when what it comes to is as it was.
LEMMA SoundVisit ==
  ASSUME NEW tree, NEW kd, NEW t, NEW u, Sound(tree, kd, u),
         Pending(tree, t) \subseteq Pending(tree, u), ~isLoop(t)
  PROVE  Sound(tree, kd, t)
BY DEF Sound

LEMMA TopTask ==
  ASSUME WalkInv, todo # <<>>
  PROVE  /\ ast \in Trees /\ Tree(ast)
         /\ Top \in Task(ast) /\ node \in DOMAIN ast
         /\ Sound(ast, kids, Top)
         /\ kids \in [DOMAIN ast -> Seq(DOMAIN ast)]
         /\ remove \in BOOLEAN
<1>1. ast \in Trees /\ Tree(ast) /\ todo \in Seq(Task(ast))
  BY TreesAreTrees DEF WalkInv, TypeInv
<1>2. Top = todo[1] /\ Top \in Task(ast) /\ 1 \in DOMAIN todo
  BY <1>1, Popped, LenProperties DEF Top
<1> QED
  BY <1>1, <1>2, PendingInTree DEF WalkInv, TypeInv, node

LEMMA VisitListKeeps ==
  ASSUME WalkInv, VisitList, UNCHANGED <<ast, marked>>
  PROVE  WalkInv'
<1>1. todo # <<>> /\ Top.op = "visit" /\ kids' = kids /\ remove' = remove
  BY DEF VisitList, doing
<1>2. /\ Tree(ast) /\ node \in DOMAIN ast /\ Sound(ast, kids, Top)
      /\ kids \in [DOMAIN ast -> Seq(DOMAIN ast)] /\ remove \in BOOLEAN
  BY <1>1, TopTask
<1>3. Pending(ast, Top) = Subtree(ast, node)
  BY <1>1 DEF Pending, node
<1>4. /\ Len(ast[node].kids) \in Nat /\ node \in Subtree(ast, node)
      /\ Later(ast, node, 1) \subseteq Subtree(ast, node)
      /\ node \notin Later(ast, node, 1)
  BY <1>2, KidsOf, LaterSplits
<1> DEFINE t == next(node, 1, 1)
           s == <<t>>
<1>5. /\ t \in Task(ast) /\ Pending(ast, t) = Later(ast, node, 1)
      /\ isLoop(t) /\ t.node = node
  BY <1>2, Tasks
<1>6. kids[node] = ast[node].kids
  BY <1>2, <1>3, <1>4 DEF Sound
<1>7. Compact(ast, kids, t)
  BY <1>4, <1>6 DEF Compact, next
<1>8. then(s)
  BY DEF VisitList
<1> HIDE DEF t
<1>9. Sound(ast, kids, t)
  BY <1>2, <1>3, <1>4, <1>5, <1>7 DEF Sound
<1>10. s \in Seq(Task(ast)) /\ DOMAIN s = {1} /\ s[1] = t
  BY <1>5
<1> HIDE DEF s
<1>11. TasksApart(ast, s)
  BY <1>10 DEF TasksApart
<1> QED
  BY <1>1, <1>2, <1>3, <1>4, <1>5, <1>8, <1>9, <1>10, <1>11, WalkStep

LEMMA VisitSelfRemovingKeeps ==
  ASSUME WalkInv, VisitSelfRemoving, UNCHANGED <<ast, marked>>
  PROVE  WalkInv'
<1>1. /\ todo # <<>> /\ Top.op = "visit" /\ kids' = kids /\ remove' = remove
      /\ ast[node].kind \in SelfRemoving
  BY DEF VisitSelfRemoving, doing
<1>2. /\ Tree(ast) /\ node \in DOMAIN ast /\ Sound(ast, kids, Top)
      /\ kids \in [DOMAIN ast -> Seq(DOMAIN ast)] /\ remove \in BOOLEAN
  BY <1>1, TopTask
<1>3. Pending(ast, Top) = Subtree(ast, node)
  BY <1>1 DEF Pending, node
<1> DEFINE c == ast[node].kids[1]
           t == visit(c)
           u == empty(node)
           s == <<t, u>>
<1>4. 1 \in 1 .. Len(ast[node].kids)
  <2>1. \A n \in DOMAIN ast :
            ast[n].kind \in SelfRemoving => Len(ast[n].kids) = 1
    BY <1>2 DEF Tree
  <2>2. Len(ast[node].kids) = 1
    BY <1>1, <1>2, <2>1
  <2> QED
    BY <2>2
<1>5. c \in DOMAIN ast /\ Subtree(ast, c) \subseteq Subtree(ast, node)
  BY <1>2, <1>4, KidsOf
<1>6. then(s)
  BY DEF VisitSelfRemoving
<1> HIDE DEF c
<1>7. /\ t \in Task(ast) /\ Pending(ast, t) = Subtree(ast, c) /\ ~isLoop(t)
      /\ u \in Task(ast) /\ Pending(ast, u) = {} /\ ~isLoop(u)
  BY <1>2, <1>5, Tasks
<1> HIDE DEF t, u
<1>8. Sound(ast, kids, t) /\ Sound(ast, kids, u)
  BY <1>2, <1>3, <1>5, <1>7, SoundVisit
<1>9. s \in Seq(Task(ast)) /\ DOMAIN s = {1, 2} /\ s[1] = t /\ s[2] = u
  BY <1>7
<1> HIDE DEF s
<1>10. TasksApart(ast, s)
  BY <1>7, <1>9 DEF TasksApart, Apart
<1> QED
  BY <1>1, <1>2, <1>3, <1>5, <1>6, <1>7, <1>8, <1>9, <1>10, WalkStep

\* Nothing is put in place of the top.
LEMMA EmptyTasks ==
  /\ <<>> \in Seq(Task(ast)) /\ DOMAIN <<>> = {} /\ TasksApart(ast, <<>>)
<1>1. <<>> \in Seq(Task(ast)) /\ DOMAIN <<>> = {}
  OBVIOUS
<1> QED
  BY <1>1 DEF TasksApart

LEMMA RequestsKeep ==
  ASSUME WalkInv, RemoveIfEmpty \/ Remove, UNCHANGED <<ast, marked>>
  PROVE  WalkInv'
<1>1. /\ todo # <<>> /\ kids' = kids /\ then(<<>>)
      /\ remove' \in BOOLEAN
  BY DEF RemoveIfEmpty, Remove, doing
<1>2. kids \in [DOMAIN ast -> Seq(DOMAIN ast)]
  BY <1>1, TopTask
<1> QED
  BY <1>1, <1>2, EmptyTasks, WalkStep

LEMMA NextElementKeeps ==
  ASSUME WalkInv, NextElement, UNCHANGED <<ast, marked>>
  PROVE  WalkInv'
<1> DEFINE i == Top.i
           w == Top.w
           now == kids[node]
           old == ast[node].kids
<1>1. /\ todo # <<>> /\ Top.op = "next" /\ remove' = remove /\ isLoop(Top)
  BY DEF NextElement, doing, isLoop
<1>2. /\ Tree(ast) /\ node \in DOMAIN ast /\ Sound(ast, kids, Top)
      /\ kids \in [DOMAIN ast -> Seq(DOMAIN ast)] /\ remove \in BOOLEAN
      /\ Top \in Task(ast)
  BY <1>1, TopTask
<1>3. i \in Nat \ {0} /\ w \in Nat \ {0} /\ i + 1 \in Nat \ {0}
  BY <1>1, <1>2, PendingInTree
<1>4. Pending(ast, Top) = Later(ast, node, i)
  BY <1>1 DEF Pending, node
<1>5. /\ node \notin Later(ast, node, i)
      /\ w <= i /\ i <= Len(old) + 1 /\ Len(now) = Len(old)
      /\ \A j \in i .. Len(now) : now[j] = old[j]
      /\ \A j \in 1 .. w - 1 : \E m \in j .. i - 1 : now[j] = old[m]
  BY <1>1, <1>2, <1>4 DEF Sound, Compact, node
<1>6. now \in Seq(DOMAIN ast) /\ Len(old) \in Nat
  BY <1>2, KidsOf
<1>7. CASE i <= Len(now)
  <2> DEFINE c == now[i]
             t == visit(c)
             u == keep(node, i, w)
             s == <<t, u>>
  <2>1. kids' = kids /\ then(s)
    BY <1>7 DEF NextElement
  <2>2. i \in i .. Len(now) /\ i \in 1 .. Len(old) /\ i <= Len(old)
    BY <1>3, <1>5, <1>6, <1>7
  <2>3. c = old[i]
    BY <1>5, <2>2
  <2>4. c \in DOMAIN ast
    BY <1>2, <2>2, <2>3, KidsOf
  <2>5. /\ Subtree(ast, c) \subseteq Later(ast, node, i)
        /\ Subtree(ast, c) \cap Later(ast, node, i + 1) = {}
        /\ Later(ast, node, i + 1) \subseteq Later(ast, node, i)
    BY <1>2, <1>3, <2>2, <2>3, LaterSplits
  <2>6. Compact(ast, kids, u)
    BY <1>5, <2>2 DEF Compact, keep
  <2> HIDE DEF c, i, w
  <2>7. /\ t \in Task(ast) /\ Pending(ast, t) = Subtree(ast, c) /\ ~isLoop(t)
        /\ u \in Task(ast) /\ Pending(ast, u) = Later(ast, node, i + 1)
        /\ isLoop(u) /\ u.node = node
    BY <1>2, <1>3, <2>4, Tasks
  <2> HIDE DEF t, u
  <2>8. Sound(ast, kids, t)
    BY <1>2, <1>4, <2>5, <2>7, SoundVisit
  <2>9. Sound(ast, kids, u)
    BY <1>2, <1>4, <1>5, <2>5, <2>6, <2>7 DEF Sound
  <2>10. s \in Seq(Task(ast)) /\ DOMAIN s = {1, 2} /\ s[1] = t /\ s[2] = u
    BY <2>7
  <2> HIDE DEF s
  <2>11. Apart(ast, t, u) /\ Apart(ast, u, t)
    BY <1>5, <2>5, <2>7 DEF Apart
  <2>12. TasksApart(ast, s)
    BY <2>10, <2>11 DEF TasksApart
  <2> QED
    BY <1>1, <1>2, <1>4, <2>1, <2>5, <2>7, <2>8, <2>9, <2>10, <2>12, WalkStep
<1>8. CASE ~(i <= Len(now))
  <2>1. kids' = [kids EXCEPT ![node] = SubSeq(now, 1, w - 1)] /\ then(<<>>)
    BY <1>8 DEF NextElement
  <2>2. Len(now) \in Nat /\ \A j \in 1 .. Len(now) : now[j] \in DOMAIN ast
    BY <1>6, LenProperties, ElementOfSeq
  <2>3. 1 \in Int /\ w - 1 \in Int /\ \A j \in 1 .. w - 1 : j \in 1 .. Len(now)
    BY <1>3, <1>5, <1>6
  <2>4. SubSeq(now, 1, w - 1) \in Seq(DOMAIN ast)
    <3> HIDE DEF now, w
    <3> QED
      BY <2>2, <2>3, SubSeqProperties
  <2>5. /\ kids' \in [DOMAIN ast -> Seq(DOMAIN ast)]
        /\ \A m \in DOMAIN ast : m # node => kids'[m] = kids[m]
    BY <1>2, <2>1, <2>4
  <2> QED
    BY <1>1, <1>2, <2>1, <2>5, EmptyTasks, WalkStep
<1> QED
  BY <1>7, <1>8

LEMMA KeepOrDropKeeps ==
  ASSUME WalkInv, KeepOrDrop, UNCHANGED <<ast, marked>>
  PROVE  WalkInv'
<1> DEFINE i == Top.i
           w == Top.w
           now == kids[node]
           old == ast[node].kids
<1>1. /\ todo # <<>> /\ Top.op = "keep" /\ remove' = FALSE /\ isLoop(Top)
  BY DEF KeepOrDrop, doing, isLoop
<1>2. /\ Tree(ast) /\ node \in DOMAIN ast /\ Sound(ast, kids, Top)
      /\ kids \in [DOMAIN ast -> Seq(DOMAIN ast)]
      /\ Top \in Task(ast)
  BY <1>1, TopTask
<1>3. i \in Nat \ {0} /\ w \in Nat \ {0} /\ i + 1 \in Nat \ {0} /\ w + 1 \in Nat \ {0}
  BY <1>1, <1>2, PendingInTree
<1>4. Pending(ast, Top) = Later(ast, node, i + 1)
  BY <1>1 DEF Pending, node
<1>5. /\ node \notin Later(ast, node, i + 1)
      /\ w <= i /\ i <= Len(old) /\ Len(now) = Len(old)
      /\ \A j \in i .. Len(now) : now[j] = old[j]
      /\ \A j \in 1 .. w - 1 : \E m \in j .. i - 1 : now[j] = old[m]
  BY <1>1, <1>2, <1>4 DEF Sound, Compact, node
<1>6. now \in Seq(DOMAIN ast) /\ Len(old) \in Nat
  BY <1>2, KidsOf
<1>7. \A m \in Later(ast, node, i + 1) : kids[m] = ast[m].kids
  BY <1>2, <1>4 DEF Sound
<1>8. ASSUME NEW v \in Nat \ {0},
             then(<<next(node, i + 1, v)>>),
             kids' \in [DOMAIN ast -> Seq(DOMAIN ast)],
             \A m \in DOMAIN ast : m # node => kids'[m] = kids[m],
             Compact(ast, kids', next(node, i + 1, v))
      PROVE  WalkInv'
  <2> DEFINE t == next(node, i + 1, v)
             s == <<t>>
  <2> HIDE DEF i, w
  <2>1. /\ t \in Task(ast) /\ Pending(ast, t) = Later(ast, node, i + 1)
        /\ isLoop(t) /\ t.node = node
    BY <1>2, <1>3, <1>8, Tasks
  <2>2. Pending(ast, t) \subseteq DOMAIN ast
    BY <1>2, <2>1, PendingInTree
  <2> HIDE DEF t
  <2>3. \A m \in Pending(ast, t) : kids'[m] = ast[m].kids
    BY <1>5, <1>7, <1>8, <2>1, <2>2
  <2>4. Compact(ast, kids', t)
    BY <1>8 DEF t
  <2>5. Sound(ast, kids', t)
    BY <1>5, <2>1, <2>3, <2>4 DEF Sound
  <2>6. s \in Seq(Task(ast)) /\ DOMAIN s = {1} /\ s[1] = t /\ then(s)
    BY <1>8, <2>1 DEF t
  <2> HIDE DEF s
  <2>7. TasksApart(ast, s)
    BY <2>6 DEF TasksApart
  <2> QED
    BY <1>1, <1>2, <1>4, <1>8, <2>1, <2>5, <2>6, <2>7, WalkStep
<1>9. CASE remove
  <2>1. kids' = kids /\ then(<<next(node, i + 1, w)>>)
    BY <1>9 DEF KeepOrDrop
  <2>2. Compact(ast, kids, next(node, i + 1, w))
    <3> DEFINE t == next(node, i + 1, w)
    <3> SUFFICES Compact(ast, kids, t)
      OBVIOUS
    <3>1. t.node = node /\ t.i = i + 1 /\ t.w = w /\ t.op = "next"
      BY DEF next
    <3> HIDE DEF t, i, w, now, old
    <3>2. /\ w <= i + 1 /\ i + 1 <= Len(old) + 1
          /\ \A j \in i + 1 .. Len(now) : now[j] = old[j]
          /\ \A j \in 1 .. w - 1 : \E m \in j .. (i + 1) - 1 : now[j] = old[m]
      <4>1. w <= i + 1 /\ i + 1 <= Len(old) + 1
        BY <1>3, <1>5, <1>6
      <4>2. i + 1 .. Len(now) \subseteq i .. Len(now)
        BY <1>3, <1>5, <1>6
      <4>3. \A j \in 1 .. w - 1 : j .. i - 1 \subseteq j .. (i + 1) - 1
        BY <1>3
      <4> QED
        BY <1>5, <4>1, <4>2, <4>3
    <3> QED
      BY <1>5, <3>1, <3>2 DEF Compact, now, old
  <2> QED
    BY <1>2, <1>3, <1>8, <2>1, <2>2
<1>10. CASE ~remove
  <2> DEFINE new == [now EXCEPT ![w] = now[i]]
  <2>1. /\ kids' = [kids EXCEPT ![node] = new]
        /\ then(<<next(node, i + 1, w + 1)>>)
    BY <1>10 DEF KeepOrDrop
  <2>2. w \in 1 .. Len(now) /\ i \in 1 .. Len(now) /\ i \in i .. Len(now)
    BY <1>3, <1>5, <1>6
  <2>3. now[i] = old[i] /\ now[i] \in DOMAIN ast
    BY <1>5, <1>6, <2>2, ElementOfSeq
  <2>4. /\ new \in Seq(DOMAIN ast) /\ Len(new) = Len(now)
        /\ \A j \in 1 .. Len(now) : new[j] = IF j = w THEN now[i] ELSE now[j]
    <3> HIDE DEF now, w, i
    <3> QED
      BY <1>6, <2>2, <2>3, ExceptSeq
  <2>5. /\ kids' \in [DOMAIN ast -> Seq(DOMAIN ast)]
        /\ \A m \in DOMAIN ast : m # node => kids'[m] = kids[m]
        /\ kids'[node] = new
    BY <1>2, <2>1, <2>4
  <2>6. Compact(ast, kids', next(node, i + 1, w + 1))
    <3> DEFINE t == next(node, i + 1, w + 1)
    <3> SUFFICES Compact(ast, kids', t)
      OBVIOUS
    <3>1. t.node = node /\ t.i = i + 1 /\ t.w = w + 1 /\ t.op = "next"
      BY DEF next
    <3> HIDE DEF t, i, w, now, old, new
    <3>2. w + 1 <= i + 1 /\ i + 1 <= Len(old) + 1
      BY <1>3, <1>5, <1>6
    <3>3. \A j \in i + 1 .. Len(new) : new[j] = old[j]
      <4>1. \A j \in i + 1 .. Len(new) : j \in 1 .. Len(now) /\ j \in i .. Len(now) /\ j # w
        BY <1>3, <1>5, <1>6, <2>4
      <4> QED
        BY <1>5, <2>4, <4>1
    <3>4. \A j \in 1 .. (w + 1) - 1 : \E m \in j .. (i + 1) - 1 : new[j] = old[m]
      <4> SUFFICES ASSUME NEW j \in 1 .. (w + 1) - 1
                   PROVE  \E m \in j .. (i + 1) - 1 : new[j] = old[m]
        OBVIOUS
      <4>1. CASE j = w
        <5>1. i \in j .. (i + 1) - 1
          BY <1>3, <1>5, <4>1
        <5>2. new[j] = old[i]
          BY <2>2, <2>3, <2>4, <4>1
        <5> QED
          BY <5>1, <5>2
      <4>2. CASE j # w
        <5>1. j \in 1 .. w - 1 /\ j \in 1 .. Len(now)
          BY <1>3, <1>5, <1>6, <4>2
        <5>2. PICK m \in j .. i - 1 : now[j] = old[m]
          BY <1>5, <5>1
        <5>3. m \in j .. (i + 1) - 1
          BY <1>3, <5>1, <5>2
        <5> QED
          BY <2>4, <4>2, <5>1, <5>2, <5>3
      <4> QED
        BY <4>1, <4>2
    <3>5. Len(new) = Len(old)
      BY <1>5, <2>4
    <3> QED
      BY <2>5, <3>1, <3>2, <3>3, <3>4, <3>5 DEF Compact, old
  <2> QED
    BY <1>3, <1>8, <2>1, <2>5, <2>6
<1> QED
  BY <1>9, <1>10

\* The tasks of the visit of a node n that is no list and does not remove itself:
\* the visits of its children, then its own mark.
VisitsAndMark(tree, n, marks, s) ==
    LET ks == tree[n].kids
    IN /\ Len(s) = Len(ks) + (IF n \in marks THEN 1 ELSE 0)
       /\ \A k \in 1 .. Len(ks) : s[k] = visit(ks[k])
       /\ n \in marks => s[Len(ks) + 1] = mark(n)

LEMMA OtherTasks ==
  ASSUME NEW tree, Tree(tree), NEW n \in DOMAIN tree, NEW marks
  PROVE  LET ks == tree[n].kids
             s == [i \in DOMAIN ks |-> visit(ks[i])]
                  \o (IF n \in marks THEN <<mark(n)>> ELSE <<>>)
         IN s \in Seq(Task(tree)) /\ VisitsAndMark(tree, n, marks, s)
<1> DEFINE ks == tree[n].kids
           vs == [i \in DOMAIN ks |-> visit(ks[i])]
           ms == IF n \in marks THEN <<mark(n)>> ELSE <<>>
           s == vs \o ms
<1>1. /\ Len(ks) \in Nat /\ DOMAIN ks = 1 .. Len(ks)
      /\ \A j \in 1 .. Len(ks) : ks[j] \in DOMAIN tree
  BY KidsOf
<1> HIDE DEF ks
<1>2. /\ vs \in Seq(Task(tree)) /\ Len(vs) = Len(ks)
      /\ \A j \in 1 .. Len(ks) : vs[j] = visit(ks[j])
  <2>1. \A j \in 1 .. Len(ks) : visit(ks[j]) \in Task(tree)
    BY <1>1 DEF Task, visit
  <2> QED
    BY <1>1, <2>1
<1>3. CASE n \in marks
  <2> DEFINE t == mark(n)
             one == <<t>>
  <2>1. ms = one
    BY <1>3
  <2>2. t \in Task(tree)
    BY DEF Task, mark
  <2> HIDE DEF t, ms
  <2>3. one \in Seq(Task(tree)) /\ Len(one) = 1 /\ one[1] = t
    BY <2>2
  <2> HIDE DEF one, vs
  <2>4. /\ s \in Seq(Task(tree)) /\ Len(s) = Len(vs) + Len(one)
        /\ \A k \in 1 .. Len(vs) + Len(one) :
              s[k] = IF k <= Len(vs) THEN vs[k] ELSE one[k - Len(vs)]
    BY <1>2, <2>1, <2>3, ConcatProperties
  <2>5. Len(ks) + 1 \in 1 .. Len(vs) + Len(one) /\ ~(Len(ks) + 1 <= Len(vs))
        /\ (Len(ks) + 1) - Len(vs) = 1
    BY <1>1, <1>2, <2>3
  <2>6. s[Len(ks) + 1] = t
    BY <2>3, <2>4, <2>5
  <2>7. \A k \in 1 .. Len(ks) : s[k] = vs[k]
    BY <1>1, <1>2, <2>3, <2>4
  <2> HIDE DEF s
  <2>8. VisitsAndMark(tree, n, marks, s)
    BY <1>2, <1>3, <2>3, <2>4, <2>6, <2>7 DEF VisitsAndMark, ks, t
  <2> QED
    BY <2>4, <2>8 DEF s, vs, ms, ks
<1>4. CASE n \notin marks
  <2>1. ms = <<>>
    BY <1>4
  <2> HIDE DEF vs, ms
  <2>2. s = vs
    BY <1>2, <2>1, ConcatEmptySeq
  <2> HIDE DEF s
  <2>3. VisitsAndMark(tree, n, marks, s)
    BY <1>1, <1>2, <1>4, <2>2 DEF VisitsAndMark, ks
  <2> QED
    BY <1>2, <2>2, <2>3 DEF s, vs, ms, ks
<1> QED
  BY <1>3, <1>4

LEMMA VisitOtherTasks ==
  ASSUME WalkInv, VisitOther
  PROVE  /\ todo # <<>> /\ Top.op = "visit" /\ kids' = kids /\ remove' = remove
         /\ ast[node].kind \notin ListKinds \cup SelfRemoving
         /\ \E s \in Seq(Task(ast)) : then(s) /\ VisitsAndMark(ast, node, marked, s)
<1>1. /\ todo # <<>> /\ Top.op = "visit" /\ kids' = kids /\ remove' = remove
      /\ ast[node].kind \notin ListKinds \cup SelfRemoving
      /\ then([i \in DOMAIN ast[node].kids |-> visit(ast[node].kids[i])]
              \o (IF node \in marked THEN <<mark(node)>> ELSE <<>>))
  BY DEF VisitOther, doing
<1>2. Tree(ast) /\ node \in DOMAIN ast
  BY <1>1, TopTask
<1> QED
  BY <1>1, <1>2, OtherTasks

\* Where each of these tasks comes from.
LEMMA TaskOfNode ==
  ASSUME NEW tree, Tree(tree), NEW n \in DOMAIN tree, NEW marks,
         NEW s \in Seq(Task(tree)), VisitsAndMark(tree, n, marks, s)
  PROVE  /\ DOMAIN s = 1 .. Len(s)
         /\ \A k \in DOMAIN s :
               \/ k \in 1 .. Len(tree[n].kids) /\ s[k] = visit(tree[n].kids[k])
               \/ k = Len(tree[n].kids) + 1 /\ n \in marks /\ s[k] = mark(n)
         /\ 1 .. Len(tree[n].kids) \subseteq DOMAIN s
         /\ n \in marks => Len(tree[n].kids) + 1 \in DOMAIN s
<1> DEFINE L == Len(tree[n].kids)
<1>1. L \in Nat /\ DOMAIN s = 1 .. Len(s)
  BY KidsOf, LenProperties
<1>2. /\ Len(s) = L + (IF n \in marks THEN 1 ELSE 0)
      /\ \A k \in 1 .. L : s[k] = visit(tree[n].kids[k])
      /\ n \in marks => s[L + 1] = mark(n)
  BY DEF VisitsAndMark
<1> HIDE DEF L
<1>3. \A k \in 1 .. Len(s) : k \in 1 .. L \/ (k = L + 1 /\ n \in marks)
  BY <1>1, <1>2
<1>4. 1 .. L \subseteq 1 .. Len(s) /\ (n \in marks => L + 1 \in 1 .. Len(s))
  BY <1>1, <1>2
<1> QED
  BY <1>1, <1>2, <1>3, <1>4 DEF L

LEMMA VisitOtherKeeps ==
  ASSUME WalkInv, VisitOther, UNCHANGED <<ast, marked>>
  PROVE  WalkInv'
<1> DEFINE ks == ast[node].kids
<1>1. todo # <<>> /\ Top.op = "visit" /\ kids' = kids /\ remove' = remove
  BY VisitOtherTasks
<1>2. PICK s \in Seq(Task(ast)) : then(s) /\ VisitsAndMark(ast, node, marked, s)
  BY VisitOtherTasks
<1>3. /\ Tree(ast) /\ node \in DOMAIN ast /\ Sound(ast, kids, Top)
      /\ kids \in [DOMAIN ast -> Seq(DOMAIN ast)] /\ remove \in BOOLEAN
  BY <1>1, TopTask
<1>4. Pending(ast, Top) = Subtree(ast, node)
  BY <1>1 DEF Pending, node
<1>5. /\ \A j \in 1 .. Len(ks) : ks[j] \in DOMAIN ast
      /\ \A j \in 1 .. Len(ks) : Subtree(ast, ks[j]) \subseteq Subtree(ast, node)
      /\ \A j, k \in 1 .. Len(ks) : j # k =>
            Subtree(ast, ks[j]) \cap Subtree(ast, ks[k]) = {}
  BY <1>3, KidsOf
<1>6. \A k \in DOMAIN s : \/ k \in 1 .. Len(ks) /\ s[k] = visit(ks[k])
                          \/ k = Len(ks) + 1 /\ s[k] = mark(node)
  BY <1>2, <1>3, TaskOfNode
<1> HIDE DEF ks
<1>7. /\ \A j \in 1 .. Len(ks) : /\ Pending(ast, visit(ks[j])) = Subtree(ast, ks[j])
                                 /\ ~isLoop(visit(ks[j]))
      /\ Pending(ast, mark(node)) = {} /\ ~isLoop(mark(node))
  BY <1>3, <1>5, Tasks
<1>8. TasksApart(ast, s)
  <2> SUFFICES ASSUME NEW k \in DOMAIN s, NEW l \in DOMAIN s, k # l
               PROVE  Apart(ast, s[k], s[l])
    BY DEF TasksApart
  <2>1. ~isLoop(s[k]) /\ ~isLoop(s[l])
    BY <1>6, <1>7
  <2>2. Pending(ast, s[k]) \cap Pending(ast, s[l]) = {}
    BY <1>5, <1>6, <1>7
  <2> QED
    BY <2>1, <2>2 DEF Apart
<1>9. \A k \in DOMAIN s : /\ Pending(ast, s[k]) \subseteq Pending(ast, Top)
                          /\ ~isLoop(s[k])
                          /\ Sound(ast, kids, s[k])
  <2> SUFFICES ASSUME NEW k \in DOMAIN s
               PROVE  /\ Pending(ast, s[k]) \subseteq Pending(ast, Top)
                      /\ ~isLoop(s[k])
                      /\ Sound(ast, kids, s[k])
    OBVIOUS
  <2>1. Pending(ast, s[k]) \subseteq Pending(ast, Top) /\ ~isLoop(s[k])
    BY <1>4, <1>5, <1>6, <1>7
  <2> QED
    BY <1>3, <2>1, SoundVisit
<1> QED
  BY <1>1, <1>2, <1>3, <1>8, <1>9, WalkStep

-----------------------------------------------------------------------------
\* The invariant of the walk.

LEMMA WalkInit == Init => WalkInv
<1> SUFFICES ASSUME Init
             PROVE  WalkInv
  OBVIOUS
<1>1. ast \in Trees /\ Tree(ast)
  BY TreesAreTrees DEF Init
<1>2. 1 \in DOMAIN ast
  BY <1>1 DEF Tree
<1> DEFINE t == visit(1)
<1>3. t \in Task(ast) /\ ~isLoop(t) /\ Pending(ast, t) \subseteq DOMAIN ast
  <2>1. t \in Task(ast) /\ ~isLoop(t)
    BY <1>2 DEF Task, visit, isLoop
  <2> QED
    BY <1>1, <2>1, PendingInTree
<1>4. todo = <<t>>
  BY DEF Init
<1> HIDE DEF t
<1>5. todo \in Seq(Task(ast)) /\ DOMAIN todo = {1} /\ todo[1] = t
  BY <1>3, <1>4
<1>6. kids = [n \in DOMAIN ast |-> ast[n].kids]
  BY DEF Init
<1>7. kids \in [DOMAIN ast -> Seq(DOMAIN ast)]
  <2>1. \A n \in DOMAIN ast : ast[n].kids \in Seq(DOMAIN ast)
    BY <1>1, KidsOf
  <2> QED
    BY <1>6, <2>1
<1>8. TypeInv
  BY <1>1, <1>5, <1>7 DEF TypeInv, Init
<1>9. Sound(ast, kids, t)
  BY <1>3, <1>6 DEF Sound
<1> QED
  BY <1>5, <1>8, <1>9 DEF WalkInv, TasksApart

LEMMA WalkNext == WalkInv /\ [Next]_vars => WalkInv'
<1> SUFFICES ASSUME WalkInv, [Next]_vars
             PROVE  WalkInv'
  OBVIOUS
<1>1. CASE UNCHANGED vars
  BY <1>1 DEF vars, WalkInv, TypeInv
<1>2. CASE UNCHANGED <<ast, marked>> /\ VisitList
  BY <1>2, VisitListKeeps
<1>3. CASE UNCHANGED <<ast, marked>> /\ NextElement
  BY <1>3, NextElementKeeps
<1>4. CASE UNCHANGED <<ast, marked>> /\ KeepOrDrop
  BY <1>4, KeepOrDropKeeps
<1>5. CASE UNCHANGED <<ast, marked>> /\ VisitSelfRemoving
  BY <1>5, VisitSelfRemovingKeeps
<1>6. CASE UNCHANGED <<ast, marked>> /\ (RemoveIfEmpty \/ Remove)
  BY <1>6, RequestsKeep
<1>7. CASE UNCHANGED <<ast, marked>> /\ VisitOther
  BY <1>7, VisitOtherKeeps
<1> QED
  BY <1>1, <1>2, <1>3, <1>4, <1>5, <1>6, <1>7 DEF Next

THEOREM RemoveInvariant == Spec => []WalkInv
<1> QED
  BY WalkInit, WalkNext, PTL DEF Spec

\* A list is compacted in place without losing an element that is still to be
\* read (visitList loops of remove.go), however lists are nested.
THEOREM CompactsInPlace == Spec => []CompactionInPlace
<1>1. WalkInv => CompactionInPlace
  <2> SUFFICES ASSUME WalkInv, NEW k \in DOMAIN todo, isLoop(todo[k])
               PROVE  LET t == todo[k]
                      IN /\ t.w <= t.i
                         /\ Len(kids[t.node]) = Len(ast[t.node].kids)
                         /\ \A j \in t.i .. Len(kids[t.node]) :
                              kids[t.node][j] = ast[t.node].kids[j]
                         /\ \A j \in 1 .. t.w - 1 :
                              \E m \in j .. t.i - 1 : kids[t.node][j] = ast[t.node].kids[m]
    BY DEF CompactionInPlace, isLoop
  <2> QED
    BY DEF WalkInv, Sound, Compact
<1> QED
  BY <1>1, RemoveInvariant, PTL

\* The lists, the request flag and the marks are what they should be.
THEOREM RemoveTypeCorrect == Spec => []RemoveTypeOK
<1>1. WalkInv => RemoveTypeOK
  BY TreesAreTrees DEF WalkInv, TypeInv, RemoveTypeOK, Tree
<1> QED
  BY <1>1, RemoveInvariant, PTL

-----------------------------------------------------------------------------
\* One flag for all loops.

\* A task that may leave a request to the tasks after it, and the tasks that may
\* find one.
asks(tree, t) ==
    \/ t.op \in {"mark", "empty"}
    \/ t.op = "visit" /\ Inner(tree, t.node) \cap Askers(tree) # {}
finds(t) == t.op \in {"keep", "mark", "empty"}

FoundNext(tree, td) ==
    \A k \in 1 .. Len(td) : asks(tree, td[k]) => k = Len(td) \/ finds(td[k + 1])

RequestInv ==
    /\ FoundNext(ast, todo)
    /\ remove /\ todo # <<>> => finds(Top)

\* What is below a node below n is below n.
LEMMA BelowBelow ==
  ASSUME NEW tree, Tree(tree), NEW n \in DOMAIN tree, NEW l \in Subtree(tree, n)
  PROVE  /\ Subtree(tree, l) \subseteq Subtree(tree, n)
         /\ l # n => n \notin Subtree(tree, l)
<1>1. DOMAIN tree \subseteq Int /\ l \in DOMAIN tree
  BY DEF Tree, Subtree
<1>2. /\ n <= l
      /\ \A j \in n + 1 .. l : \E p \in n .. j - 1 : j \in Range(tree[p].kids)
  BY DEF Subtree
<1>3. ASSUME NEW m \in Subtree(tree, l)
      PROVE  m \in Subtree(tree, n)
  <2>1. /\ m \in DOMAIN tree /\ l <= m
        /\ \A j \in l + 1 .. m : \E p \in l .. j - 1 : j \in Range(tree[p].kids)
    BY DEF Subtree
  <2>2. n <= m
    BY <1>1, <1>2, <2>1
  <2>3. ASSUME NEW j \in n + 1 .. m
        PROVE  \E p \in n .. j - 1 : j \in Range(tree[p].kids)
    <3>1. CASE j \in n + 1 .. l
      BY <1>2, <3>1
    <3>2. CASE j \in l + 1 .. m
      <4>1. PICK p \in l .. j - 1 : j \in Range(tree[p].kids)
        BY <2>1, <3>2
      <4>2. p \in n .. j - 1
        BY <1>1, <1>2, <4>1
      <4> QED
        BY <4>1, <4>2
    <3>3. j \in n + 1 .. l \/ j \in l + 1 .. m
      BY <1>1, <2>1
    <3> QED
      BY <3>1, <3>2, <3>3
  <2> QED
    BY <2>1, <2>2, <2>3 DEF Subtree
<1>4. l # n => n \notin Subtree(tree, l)
  <2>1. \A m \in Subtree(tree, l) : l <= m
    BY DEF Subtree
  <2> QED
    BY <1>1, <1>2, <2>1
<1> QED
  BY <1>3, <1>4

\* A list keeps the requests below it to itself; any other node passes on those of
\* its children and may add its own.
LEMMA InnerOf ==
  ASSUME NEW tree, Tree(tree), NEW n \in DOMAIN tree
  PROVE  /\ tree[n].kind \in ListKinds => Inner(tree, n) = {}
         /\ tree[n].kind \notin ListKinds => n \in Inner(tree, n)
         /\ tree[n].kind \notin ListKinds => \A i \in 1 .. Len(tree[n].kids) :
               Inner(tree, tree[n].kids[i]) \subseteq Inner(tree, n)
<1>1. /\ n \in Subtree(tree, n) /\ Subtree(tree, n) \subseteq DOMAIN tree
      /\ DOMAIN tree[n].kids = 1 .. Len(tree[n].kids)
      /\ \A i \in 1 .. Len(tree[n].kids) :
            /\ tree[n].kids[i] \in DOMAIN tree
            /\ Subtree(tree, tree[n].kids[i]) \subseteq Subtree(tree, n)
      /\ \A i, j \in 1 .. Len(tree[n].kids) : i # j =>
            Subtree(tree, tree[n].kids[i]) \cap Subtree(tree, tree[n].kids[j]) = {}
  BY KidsOf
<1>2. Subtree(tree, n) = {n} \cup UNION {Subtree(tree, c) : c \in Range(tree[n].kids)}
  BY DEF Tree, Preorder
<1>3. tree[n].kind \in ListKinds => Inner(tree, n) = {}
  BY <1>1 DEF Inner
<1>4. tree[n].kind \notin ListKinds => n \in Inner(tree, n)
  BY <1>1, BelowBelow DEF Inner
<1>5. ASSUME tree[n].kind \notin ListKinds, NEW i \in 1 .. Len(tree[n].kids),
             NEW m \in Inner(tree, tree[n].kids[i])
      PROVE  m \in Inner(tree, n)
  <2>1. /\ m \in Subtree(tree, tree[n].kids[i])
        /\ \A l \in Subtree(tree, tree[n].kids[i]) :
              tree[l].kind \in ListKinds => m \notin Subtree(tree, l)
    BY DEF Inner
  <2>2. ASSUME NEW l \in Subtree(tree, n), tree[l].kind \in ListKinds,
               m \in Subtree(tree, l)
        PROVE  FALSE
    <3>1. l # n
      BY <1>5, <2>2
    <3>2. PICK c \in Range(tree[n].kids) : l \in Subtree(tree, c)
      BY <1>2, <3>1
    <3>3. PICK j \in 1 .. Len(tree[n].kids) : c = tree[n].kids[j]
      BY <1>1, <3>2 DEF Range
    <3>4. m \in Subtree(tree, tree[n].kids[j])
      BY <1>1, <2>2, <3>2, <3>3, BelowBelow
    <3>5. j = i
      BY <1>1, <2>1, <3>4
    <3> QED
      BY <2>1, <2>2, <3>2, <3>3, <3>5
  <2>3. m \in Subtree(tree, n)
    BY <1>1, <2>1
  <2> QED
    BY <2>2, <2>3 DEF Inner
<1> QED
  BY <1>3, <1>4, <1>5

\* What a step has to show: a new task that may leave a request is followed by a
\* new one that finds it, or is the last of them and the old top was such a task.
LEMMA RequestStep ==
  ASSUME NEW tree, NEW S, NEW td \in Seq(S), td # <<>>, NEW s \in Seq(S),
         FoundNext(tree, td),
         \A k \in 1 .. Len(s) : asks(tree, s[k]) =>
            \/ k < Len(s) /\ finds(s[k + 1])
            \/ k = Len(s) /\ asks(tree, td[1])
  PROVE  FoundNext(tree, s \o Tail(td))
<1> DEFINE c == s \o Tail(td)
           a == Len(s)
           b == Len(td)
<1>2. /\ a \in Nat /\ b \in Nat \ {0}
      /\ Len(c) = a + (b - 1)
      /\ \A k \in 1 .. a : c[k] = s[k]
      /\ \A k \in 2 .. b : c[a + (k - 1)] = td[k]
  BY Replaced
<1> HIDE DEF c, a, b
<1>4. a \in Nat /\ b \in Nat \ {0} /\ Len(c) = a + (b - 1)
  BY <1>2
<1>5. \A k \in 1 .. a : c[k] = s[k]
  BY <1>2
<1>6. \A k \in 2 .. b : c[a + (k - 1)] = td[k]
  BY <1>2
<1> SUFFICES ASSUME NEW k \in 1 .. Len(c), asks(tree, c[k])
             PROVE  k = Len(c) \/ finds(c[k + 1])
  BY DEF FoundNext, c
<1>7. CASE k < a
  <2>1. k \in 1 .. a /\ k + 1 \in 1 .. a /\ k # a
    BY <1>4, <1>7
  <2> QED
    BY <1>5, <2>1 DEF a
<1>8. CASE k = a
  <2>1. k \in 1 .. a /\ ~(k < a)
    BY <1>4, <1>8
  <2>2. asks(tree, td[1])
    BY <1>5, <2>1 DEF a
  <2>3. 1 \in 1 .. b
    BY <1>4
  <2>4. b = 1 \/ finds(td[2])
    <3>1. 1 = b \/ finds(td[1 + 1])
      BY <2>2, <2>3 DEF FoundNext, b
    <3> QED
      BY <3>1
  <2>5. b = 1 => k = Len(c)
    BY <1>4, <1>8
  <2>6. b # 1 => 2 \in 2 .. b /\ a + (2 - 1) = k + 1
    BY <1>4, <1>8
  <2> QED
    BY <1>6, <2>4, <2>5, <2>6
<1>9. CASE k > a
  <2> DEFINE l == k - a + 1
  <2>1. l \in 2 .. b /\ l \in 1 .. b /\ a + (l - 1) = k
    BY <1>4, <1>9
  <2>2. l = b => k = Len(c)
    BY <1>4, <1>9
  <2>3. l # b => l + 1 \in 2 .. b /\ a + ((l + 1) - 1) = k + 1
    BY <1>4, <1>9
  <2> HIDE DEF l
  <2>4. asks(tree, td[l])
    BY <1>6, <2>1
  <2>5. l = b \/ finds(td[l + 1])
    BY <2>1, <2>4 DEF FoundNext, b
  <2> QED
    BY <1>6, <2>2, <2>3, <2>5
<1> QED
  BY <1>4, <1>7, <1>8, <1>9

\* The same of a step of the walk; the flag stays down, or the top went and may
\* have raised it.
LEMMA FlagStep ==
  ASSUME WalkInv, RequestInv, todo # <<>>, UNCHANGED ast,
         NEW s \in Seq(Task(ast)), then(s),
         \A k \in 1 .. Len(s) : asks(ast, s[k]) =>
            \/ k < Len(s) /\ finds(s[k + 1])
            \/ k = Len(s) /\ asks(ast, Top),
         ~remove' \/ (s = <<>> /\ asks(ast, Top))
  PROVE  RequestInv'
<1>1. /\ todo \in Seq(Task(ast)) /\ todo' = s \o Tail(todo)
  BY DEF WalkInv, TypeInv, then
<1>2. Top = todo[1]
  BY <1>1, Popped DEF Top
<1>3. FoundNext(ast, s \o Tail(todo))
  BY <1>1, <1>2, RequestStep DEF RequestInv
<1>4. ASSUME s = <<>>, asks(ast, Top), todo' # <<>>
      PROVE  finds(Head(todo'))
  <2>1. /\ Len(todo) \in Nat \ {0} /\ Tail(todo) \in Seq(Task(ast))
        /\ Len(Tail(todo)) = Len(todo) - 1
        /\ \A k \in 1 .. Len(todo) - 1 : Tail(todo)[k] = todo[k + 1]
    BY <1>1, Popped
  <2>2. todo' = Tail(todo)
    BY <1>1, <1>4, <2>1, ConcatEmptySeq
  <2>3. Tail(todo) # <<>>
    BY <1>4, <2>2
  <2>4. Len(Tail(todo)) \in Nat \ {0} /\ Head(Tail(todo)) = Tail(todo)[1]
    BY <2>1, <2>3, Popped
  <2>5. 1 \in 1 .. Len(todo) /\ 1 # Len(todo) /\ 1 \in 1 .. Len(todo) - 1
    BY <2>1, <2>4
  <2>6. finds(todo[1 + 1])
    BY <1>2, <1>4, <2>5 DEF RequestInv, FoundNext
  <2>7. Tail(todo)[1] = todo[1 + 1]
    BY <2>1, <2>5
  <2> QED
    BY <2>2, <2>4, <2>6, <2>7
<1>5. remove' /\ todo' # <<>> => finds(Head(todo'))
  BY <1>4
<1> QED
  BY <1>1, <1>3, <1>5 DEF RequestInv, Top

\* Nothing is asked of a loop by an iteration, nor is the flag up at the start of
\* a visit.
LEMMA FlagDown ==
  ASSUME WalkInv, RequestInv, todo # <<>>, ~finds(Top)
  PROVE  ~remove
BY DEF RequestInv

LEMMA RequestInit == Init => RequestInv
<1> SUFFICES ASSUME Init
             PROVE  RequestInv
  OBVIOUS
<1> DEFINE t == visit(1)
<1>1. todo = <<t>> /\ ~remove
  BY DEF Init
<1> HIDE DEF t
<1>2. Len(todo) = 1
  BY <1>1
<1> QED
  BY <1>1, <1>2 DEF RequestInv, FoundNext

LEMMA RequestOther ==
  ASSUME \A tree \in Trees : RequestsComeLast(tree),
         WalkInv, RequestInv, UNCHANGED <<ast, marked>>, VisitOther
  PROVE  RequestInv'
<1> DEFINE ks == ast[node].kids
<1>1. /\ todo # <<>> /\ remove' = remove /\ ~finds(Top) /\ Top.op = "visit"
      /\ ast[node].kind \notin ListKinds
  BY VisitOtherTasks DEF finds
<1>2. PICK s \in Seq(Task(ast)) : then(s) /\ VisitsAndMark(ast, node, marked, s)
  BY VisitOtherTasks
<1>3. node \in DOMAIN ast /\ ~remove /\ Tree(ast) /\ ast \in Trees
  BY <1>1, TopTask, FlagDown
<1>4. Len(ks) \in Nat
  BY <1>3, KidsOf
<1>5. /\ node \in Inner(ast, node)
      /\ \A j \in 1 .. Len(ks) : Inner(ast, ks[j]) \subseteq Inner(ast, node)
      /\ \A j \in 1 .. Len(ks) - 1 : Inner(ast, ks[j]) \cap Askers(ast) = {}
  BY <1>1, <1>3, InnerOf DEF RequestsComeLast
<1>6. node \in marked => asks(ast, Top)
  <2>1. node \in marked => node \in Askers(ast)
    BY DEF WalkInv, TypeInv, Askers
  <2> QED
    BY <1>1, <1>5, <2>1 DEF asks, node
<1>7. \A j \in 1 .. Len(ks) :
          asks(ast, visit(ks[j])) => j = Len(ks) /\ asks(ast, Top)
  <2> SUFFICES ASSUME NEW j \in 1 .. Len(ks), asks(ast, visit(ks[j]))
               PROVE  j = Len(ks) /\ asks(ast, Top)
    OBVIOUS
  <2>1. Inner(ast, ks[j]) \cap Askers(ast) # {}
    BY DEF asks, visit
  <2>2. j = Len(ks)
    <3>1. j # Len(ks) => j \in 1 .. Len(ks) - 1
      BY <1>4
    <3> QED
      BY <1>5, <2>1, <3>1
  <2>3. Inner(ast, node) \cap Askers(ast) # {}
    BY <1>5, <2>1
  <2> QED
    BY <1>1, <2>2, <2>3 DEF asks, node
<1>8. /\ Len(s) = Len(ks) + (IF node \in marked THEN 1 ELSE 0)
      /\ \A k \in 1 .. Len(ks) : s[k] = visit(ks[k])
      /\ node \in marked => s[Len(ks) + 1] = mark(node)
  BY <1>2 DEF VisitsAndMark
<1> HIDE DEF ks
<1>9. \A k \in 1 .. Len(s) : k \in 1 .. Len(ks) \/ (k = Len(ks) + 1 /\ node \in marked)
  BY <1>4, <1>8
<1>10. node \in marked => Len(s) = Len(ks) + 1 /\ Len(ks) < Len(s)
  BY <1>4, <1>8
<1>11. node \notin marked => Len(s) = Len(ks)
  BY <1>4, <1>8
<1>12. finds(mark(node))
  BY DEF finds, mark
<1>13. ASSUME NEW k \in 1 .. Len(s), asks(ast, s[k])
       PROVE  \/ k < Len(s) /\ finds(s[k + 1])
              \/ k = Len(s) /\ asks(ast, Top)
  <2>1. CASE k \in 1 .. Len(ks)
    <3>1. k = Len(ks) /\ asks(ast, Top)
      BY <1>7, <1>8, <1>13, <2>1
    <3> QED
      BY <1>8, <1>10, <1>11, <1>12, <3>1
  <2>2. CASE k = Len(ks) + 1 /\ node \in marked
    BY <1>6, <1>10, <2>2
  <2> QED
    BY <1>9, <2>1, <2>2
<1>14. ast' = ast /\ ~remove'
  BY <1>1, <1>3
<1> QED
  BY <1>1, <1>2, <1>13, <1>14, FlagStep

LEMMA RequestNext ==
  ASSUME \A tree \in Trees : RequestsComeLast(tree),
         WalkInv, RequestInv, [Next]_vars
  PROVE  RequestInv'
<1>1. CASE UNCHANGED vars
  BY <1>1 DEF vars, RequestInv, Top
<1>2. CASE UNCHANGED <<ast, marked>> /\ VisitList
  <2>1. /\ todo # <<>> /\ remove' = remove /\ ~finds(Top)
        /\ then(<<next(node, 1, 1)>>)
    BY <1>2 DEF VisitList, doing, finds
  <2>2. node \in DOMAIN ast /\ ~remove
    BY <2>1, TopTask, FlagDown
  <2> DEFINE t == next(node, 1, 1)
             s == <<t>>
  <2>3. t \in Task(ast) /\ ~asks(ast, t)
    BY <2>2 DEF Task, asks, next
  <2>4. then(s)
    BY <2>1
  <2> HIDE DEF t
  <2>5. s \in Seq(Task(ast)) /\ Len(s) = 1 /\ s[1] = t
    BY <2>3
  <2> HIDE DEF s
  <2>6. \A k \in 1 .. Len(s) : ~asks(ast, s[k])
    BY <2>3, <2>5
  <2>7. ast' = ast /\ ~remove'
    BY <1>2, <2>1, <2>2
  <2> QED
    BY <2>1, <2>4, <2>5, <2>6, <2>7, FlagStep
<1>3. CASE UNCHANGED <<ast, marked>> /\ NextElement
  <2>1. todo # <<>> /\ remove' = remove /\ ~finds(Top) /\ Top.op = "next"
    BY <1>3 DEF NextElement, doing, finds
  <2>2. /\ ~remove /\ node \in DOMAIN ast /\ Top \in Task(ast) /\ Tree(ast)
        /\ kids \in [DOMAIN ast -> Seq(DOMAIN ast)]
    BY <2>1, TopTask, FlagDown
  <2>3. Top.i \in Nat \ {0} /\ Top.w \in Nat \ {0}
    BY <2>1, <2>2, PendingInTree DEF isLoop
  <2>4. CASE Top.i <= Len(kids[node])
    <3> DEFINE c == kids[node][Top.i]
               t == visit(c)
               u == keep(node, Top.i, Top.w)
               s == <<t, u>>
    <3>1. then(s)
      BY <1>3, <2>4 DEF NextElement
    <3>2. c \in DOMAIN ast
      <4>1. kids[node] \in Seq(DOMAIN ast) /\ Len(kids[node]) \in Nat
        BY <2>2, LenProperties
      <4>2. Top.i \in 1 .. Len(kids[node])
        BY <2>3, <2>4, <4>1
      <4> QED
        BY <4>1, <4>2, ElementOfSeq
    <3> HIDE DEF c
    <3>3. t \in Task(ast) /\ u \in Task(ast)
      BY <2>2, <2>3, <3>2, Tasks
    <3>4. ~asks(ast, u) /\ finds(u)
      BY DEF asks, finds, keep
    <3> HIDE DEF t, u
    <3>5. s \in Seq(Task(ast)) /\ Len(s) = 2 /\ s[1] = t /\ s[2] = u
      BY <3>3
    <3> HIDE DEF s
    <3>6. \A k \in 1 .. Len(s) : asks(ast, s[k]) => k < Len(s) /\ finds(s[k + 1])
      <4>1. \A k \in 1 .. Len(s) : k = 1 \/ k = 2
        BY <3>5
      <4>2. 1 < Len(s) /\ s[1 + 1] = u
        BY <3>5
      <4> QED
        BY <3>4, <3>5, <4>1, <4>2
    <3>7. ast' = ast /\ ~remove'
      BY <1>3, <2>1, <2>2
    <3> QED
      BY <2>1, <2>2, <3>1, <3>5, <3>6, <3>7, FlagStep
  <2>5. CASE ~(Top.i <= Len(kids[node]))
    <3>1. then(<<>>)
      BY <1>3, <2>5 DEF NextElement
    <3>2. \A k \in 1 .. Len(<<>>) : FALSE
      OBVIOUS
    <3>3. ast' = ast /\ ~remove'
      BY <1>3, <2>1, <2>2
    <3> QED
      BY <2>1, <2>2, <3>1, <3>2, EmptyTasks, <3>3, FlagStep
  <2> QED
    BY <2>4, <2>5
<1>4. CASE UNCHANGED <<ast, marked>> /\ KeepOrDrop
  <2>1. todo # <<>> /\ ~remove' /\ Top.op = "keep"
    BY <1>4 DEF KeepOrDrop, doing
  <2>2. node \in DOMAIN ast /\ Top \in Task(ast) /\ Tree(ast)
    BY <2>1, TopTask
  <2>3. Top.i \in Nat \ {0} /\ Top.w \in Nat \ {0}
    BY <2>1, <2>2, PendingInTree DEF isLoop
  <2>4. PICK w \in Nat \ {0} : then(<<next(node, Top.i + 1, w)>>)
    <3>1. Top.w + 1 \in Nat \ {0}
      BY <2>3
    <3> QED
      BY <1>4, <2>3, <3>1 DEF KeepOrDrop
  <2> DEFINE t == next(node, Top.i + 1, w)
             s == <<t>>
  <2>5. t \in Task(ast) /\ ~asks(ast, t)
    <3>1. Top.i + 1 \in Nat \ {0}
      BY <2>3
    <3> QED
      BY <2>2, <2>4, <3>1 DEF Task, asks, next
  <2>6. then(s)
    BY <2>4
  <2> HIDE DEF t
  <2>7. s \in Seq(Task(ast)) /\ Len(s) = 1 /\ s[1] = t
    BY <2>5
  <2> HIDE DEF s
  <2>8. \A k \in 1 .. Len(s) : ~asks(ast, s[k])
    BY <2>5, <2>7
  <2>9. ast' = ast /\ ~remove'
    BY <1>4, <2>1
  <2> QED
    BY <2>1, <2>6, <2>7, <2>8, <2>9, FlagStep
<1>5. CASE UNCHANGED <<ast, marked>> /\ VisitSelfRemoving
  <2>1. /\ todo # <<>> /\ remove' = remove /\ ~finds(Top) /\ Top.op = "visit"
        /\ ast[node].kind \in SelfRemoving
    BY <1>5 DEF VisitSelfRemoving, doing, finds
  <2>2. node \in DOMAIN ast /\ ~remove /\ Tree(ast)
    BY <2>1, TopTask, FlagDown
  <2>3. asks(ast, Top)
    <3>1. ast[node].kind \notin ListKinds
      BY <2>1 DEF SelfRemoving, ListKinds
    <3>2. node \in Inner(ast, node) /\ node \in Askers(ast)
      BY <2>1, <2>2, <3>1, InnerOf DEF Askers
    <3> QED
      BY <2>1, <3>2 DEF asks, node
  <2> DEFINE c == ast[node].kids[1]
             t == visit(c)
             u == empty(node)
             s == <<t, u>>
  <2>4. then(s)
    BY <1>5 DEF VisitSelfRemoving
  <2>5. c \in DOMAIN ast
    <3>1. Len(ast[node].kids) = 1
      BY <2>1, <2>2 DEF Tree
    <3>2. 1 \in 1 .. Len(ast[node].kids)
      BY <3>1
    <3> QED
      BY <2>2, <3>2, KidsOf
  <2> HIDE DEF c
  <2>6. t \in Task(ast) /\ u \in Task(ast)
    BY <2>2, <2>5 DEF Task, visit, empty
  <2>7. finds(u)
    BY DEF finds, empty
  <2> HIDE DEF t, u
  <2>8. s \in Seq(Task(ast)) /\ Len(s) = 2 /\ s[1] = t /\ s[2] = u
    BY <2>6
  <2> HIDE DEF s
  <2>9. \A k \in 1 .. Len(s) : \/ k < Len(s) /\ finds(s[k + 1])
                               \/ k = Len(s) /\ asks(ast, Top)
    <3>1. \A k \in 1 .. Len(s) : k = 1 \/ k = 2
      BY <2>8
    <3>2. 1 < Len(s) /\ s[1 + 1] = u /\ 2 = Len(s)
      BY <2>8
    <3> QED
      BY <2>3, <2>7, <3>1, <3>2
  <2>10. ast' = ast /\ ~remove'
    BY <1>5, <2>1, <2>2
  <2> QED
    BY <2>1, <2>2, <2>4, <2>8, <2>9, <2>10, FlagStep
<1>6. CASE UNCHANGED <<ast, marked>> /\ (RemoveIfEmpty \/ Remove)
  <2>1. todo # <<>> /\ asks(ast, Top) /\ then(<<>>)
    BY <1>6 DEF RemoveIfEmpty, Remove, doing, asks
  <2>2. \A k \in 1 .. Len(<<>>) : FALSE
    OBVIOUS
  <2>3. ast' = ast
    BY <1>6
  <2> QED
    BY <2>1, <2>2, EmptyTasks, <2>3, FlagStep
<1>7. CASE UNCHANGED <<ast, marked>> /\ VisitOther
  BY <1>7, RequestOther
<1> QED
  BY <1>1, <1>2, <1>3, <1>4, <1>5, <1>6, <1>7 DEF Next

\* Where requests come last, the flag is never up when the visit of another
\* element begins: one flag serves every active loop (RemoveHelper.remove).
THEOREM RequestsMeetTheirLoops ==
  ASSUME \A tree \in Trees : RequestsComeLast(tree)
  PROVE  Spec => []RequestMeetsItsLoop
<1>1. Init => RequestInv
  BY RequestInit
<1>2. WalkInv /\ RequestInv /\ [Next]_vars => RequestInv'
  BY RequestNext
<1>3. RequestInv => RequestMeetsItsLoop
  BY DEF RequestInv, RequestMeetsItsLoop, doing, finds
<1> QED
  BY <1>1, <1>2, <1>3, RemoveInvariant, PTL DEF Spec

-----------------------------------------------------------------------------
\* A list loses what it should, and nothing else.

\* Where a loop is: the elements it has passed and kept are those that stay.
Progress(tree, kd, P, t) ==
    isLoop(t) =>
        SubSeq(kd[t.node], 1, t.w - 1) =
            Sublist(SubSeq(tree[t.node].kids, 1, t.i - 1), P)

Final(tree, kd, P, n) == kd[n] = Sublist(tree[n].kids, P)

\* Some task will come to n, or is at it.
Awaited(tree, td, n) ==
    \E k \in DOMAIN td : \/ n \in Pending(tree, td[k])
                         \/ isLoop(td[k]) /\ td[k].node = n

\* A list is still to be walked, being walked, or as it should be.
Settled(tree, kd, P, td) ==
    \A n \in DOMAIN tree :
        tree[n].kind \in ListKinds => Awaited(tree, td, n) \/ Final(tree, kd, P, n)

\* u neither comes to a node below n nor is at one.
Clear(tree, n, u) ==
    /\ Subtree(tree, n) \cap Pending(tree, u) = {}
    /\ isLoop(u) => u.node \notin Subtree(tree, n)

\* A node looks whether its list is empty when nothing below it is left to do.
EmptyLast(tree, td) ==
    \A k \in DOMAIN td : td[k].op = "empty" =>
        /\ tree[td[k].node].kind \in SelfRemoving
        /\ \A l \in DOMAIN td : k < l => Clear(tree, td[k].node, td[l])

\* A task that will have raised the flag when it is done.
raises(G, t) == t.op = "mark" \/ (t.op \in {"visit", "empty"} /\ t.node \in G)

\* No loop meets what is raised before k from the j-th task on.
Reaches(td, j, k) == \A l \in j .. k - 1 : td[l].op # "keep"

\* A loop finds the flag up exactly if the element it has visited is to go: the
\* flag is up now, or a task before the loop raises it.
FlagExact(tree, G, td, f) ==
    \A k \in DOMAIN td : td[k].op = "keep" =>
        (tree[td[k].node].kids[td[k].i] \in G <=>
            \/ f /\ Reaches(td, 1, k)
            \/ \E j \in 1 .. k - 1 : raises(G, td[j]) /\ Reaches(td, j, k))

ExactInv ==
    /\ \A k \in DOMAIN todo : Progress(ast, kids, Stay, todo[k])
    /\ Settled(ast, kids, Stay, todo)
    /\ EmptyLast(ast, todo)
    /\ FlagExact(ast, Gone, todo, remove)
-----------------------------------------------------------------------------
\* What goes.

goes(tree, marks, G, n) ==
    \/ n \in marks
    \/ /\ tree[n].kind \in SelfRemoving
       /\ \A m \in Range(tree[tree[n].kids[1]].kids) : m \in G
    \/ /\ tree[n].kind \notin ListKinds \cup SelfRemoving
       /\ \E m \in Range(tree[n].kids) : m \in G

\* GoneOf is a recursive function: a solution of its equation is the least set
\* that contains what goes when the set goes.
LEMMA GoneEquation ==
  ASSUME NEW tree, Tree(tree), NEW marks
  PROVE  /\ GoneOf(tree, marks) \subseteq DOMAIN tree
         /\ \A n \in DOMAIN tree :
               n \in GoneOf(tree, marks) <=> goes(tree, marks, GoneOf(tree, marks), n)
<1> DEFINE D == DOMAIN tree
           Phi(X) == {n \in D : goes(tree, marks, X, n)}
           M == {n \in D : \A X \in SUBSET D : Phi(X) \subseteq X => n \in X}
<1>1. \A X, Y \in SUBSET D : X \subseteq Y => Phi(X) \subseteq Phi(Y)
  BY DEF goes
<1>2. \A X \in SUBSET D : Phi(X) \in SUBSET D
  OBVIOUS
<1>3. Phi(M) = M
  <2> HIDE DEF Phi
  <2>1. M \in SUBSET D /\ \A X \in SUBSET D : Phi(X) \subseteq X => M \subseteq X
    OBVIOUS
  <2>2. \A n \in D : (\A X \in SUBSET D : Phi(X) \subseteq X => n \in X) => n \in M
    OBVIOUS
  <2> HIDE DEF M, D
  <2>3. Phi(M) \subseteq M
    <3> SUFFICES ASSUME NEW n \in Phi(M) PROVE n \in M
      OBVIOUS
    <3>1. n \in D
      BY <1>2, <2>1
    <3>2. ASSUME NEW X \in SUBSET D, Phi(X) \subseteq X PROVE n \in X
      <4>1. M \subseteq X
        BY <2>1, <3>2
      <4>2. Phi(M) \subseteq Phi(X)
        BY <1>1, <2>1, <4>1
      <4> QED
        BY <3>2, <4>2
    <3> QED
      BY <2>2, <3>1, <3>2
  <2>4. Phi(Phi(M)) \subseteq Phi(M)
    BY <1>1, <1>2, <2>1, <2>3
  <2>5. M \subseteq Phi(M)
    BY <1>2, <2>1, <2>4
  <2> QED
    BY <2>3, <2>5
<1> DEFINE rec(u) == [n \in DOMAIN tree |->
             IF n \in marks THEN TRUE
             ELSE CASE tree[n].kind \in ListKinds -> FALSE
                    [] tree[n].kind \in SelfRemoving ->
                         \A m \in Range(tree[tree[n].kids[1]].kids) : u[m]
                    [] OTHER -> \E m \in Range(tree[n].kids) : u[m]]
           value(u, n) == IF n \in marks THEN TRUE
             ELSE CASE tree[n].kind \in ListKinds -> FALSE
                    [] tree[n].kind \in SelfRemoving ->
                         \A m \in Range(tree[tree[n].kids[1]].kids) : u[m]
                    [] OTHER -> \E m \in Range(tree[n].kids) : u[m]
<1>4. \A n \in D : /\ Range(tree[n].kids) \subseteq D
                   /\ tree[n].kind \in SelfRemoving =>
                        Range(tree[tree[n].kids[1]].kids) \subseteq D
  <2>1. \A n \in D : Range(tree[n].kids) \subseteq D
    BY KidsOf DEF Range
  <2>2. \A n \in D : tree[n].kind \in SelfRemoving => tree[n].kids[1] \in D
    <3> SUFFICES ASSUME NEW n \in D, tree[n].kind \in SelfRemoving
                 PROVE  tree[n].kids[1] \in D
      OBVIOUS
    <3>1. Len(tree[n].kids) = 1
      BY DEF Tree
    <3>2. 1 \in 1 .. Len(tree[n].kids)
      BY <3>1
    <3> QED
      BY <3>2, KidsOf
  <2> QED
    BY <2>1, <2>2
<1>5. \A n : tree[n].kind \in SelfRemoving => tree[n].kind \notin ListKinds
  BY DEF SelfRemoving, ListKinds
<1>6. ASSUME NEW G, NEW u, \A n \in D : u[n] = (n \in G), NEW n \in D
      PROVE  value(u, n) = goes(tree, marks, G, n)
  <2>1. CASE n \in marks
    BY <2>1 DEF goes
  <2>2. CASE n \notin marks /\ tree[n].kind \in ListKinds
    <3>1. value(u, n) = FALSE
      BY <1>5, <2>2
    <3>2. goes(tree, marks, G, n) = FALSE
      BY <1>5, <2>2 DEF goes
    <3> QED
      BY <3>1, <3>2
  <2>3. CASE n \notin marks /\ tree[n].kind \in SelfRemoving
    <3>1. value(u, n) = \A m \in Range(tree[tree[n].kids[1]].kids) : u[m]
      BY <1>5, <2>3
    <3>2. (\A m \in Range(tree[tree[n].kids[1]].kids) : u[m])
            = \A m \in Range(tree[tree[n].kids[1]].kids) : m \in G
      BY <1>4, <1>6, <2>3
    <3>3. goes(tree, marks, G, n) = \A m \in Range(tree[tree[n].kids[1]].kids) : m \in G
      BY <2>3 DEF goes
    <3> QED
      BY <3>1, <3>2, <3>3
  <2>4. CASE n \notin marks /\ tree[n].kind \notin ListKinds \cup SelfRemoving
    <3>1. value(u, n) = \E m \in Range(tree[n].kids) : u[m]
      BY <2>4
    <3>2. (\E m \in Range(tree[n].kids) : u[m]) = \E m \in Range(tree[n].kids) : m \in G
      BY <1>4, <1>6
    <3>3. goes(tree, marks, G, n) = \E m \in Range(tree[n].kids) : m \in G
      BY <2>4 DEF goes
    <3> QED
      BY <3>1, <3>2, <3>3
  <2> QED
    BY <2>1, <2>2, <2>3, <2>4
<1>7. \E u : u = rec(u)
  <2> DEFINE f == [n \in D |-> n \in M]
  <2>1. \A n \in D : f[n] = (n \in M)
    OBVIOUS
  <2>2. \A n \in D : (n \in M) = goes(tree, marks, M, n)
    <3> HIDE DEF M
    <3>1. \A n \in D : n \in M <=> goes(tree, marks, M, n)
      BY <1>3
    <3>2. \A n \in D : goes(tree, marks, M, n) \in BOOLEAN
      BY DEF goes
    <3> QED
      BY <3>1, <3>2
  <2>3. f = [n \in D |-> value(f, n)]
    <3>1. f = [n \in D |-> f[n]]
      OBVIOUS
    <3> HIDE DEF f, M, value
    <3>2. \A n \in D : f[n] = value(f, n)
      BY <1>6, <2>1, <2>2
    <3> QED
      BY <3>1, <3>2
  <2>4. rec(f) = [n \in D |-> value(f, n)]
    <3> HIDE DEF f
    <3> QED
      OBVIOUS
  <2> HIDE DEF f, rec, value
  <2> QED
    BY <2>3, <2>4
<1> DEFINE c == CHOOSE u : u = rec(u)
<1>8. c = rec(c)
  BY <1>7
<1>9. GoneOf(tree, marks) = {n \in D : c[n]}
  BY DEF GoneOf
<1> HIDE DEF c
<1>10. \A n \in D : c[n] = value(c, n)
  BY <1>8
<1>11. \A n \in D : c[n] \in BOOLEAN
  <2> SUFFICES ASSUME NEW n \in D PROVE value(c, n) \in BOOLEAN
    BY <1>10
  <2> QED
    OBVIOUS
<1> DEFINE G == {n \in D : c[n]}
<1>12. \A n \in D : c[n] = (n \in G)
  BY <1>11
<1> HIDE DEF value, rec
<1>13. \A n \in D : (n \in G) = goes(tree, marks, G, n)
  <2> HIDE DEF G
  <2> QED
    BY <1>6, <1>10, <1>12
<1> QED
  BY <1>9, <1>13

\* What the new tasks s hand on to the tasks after them.
Raised(G, s, f) ==
    \/ f /\ Reaches(s, 1, Len(s) + 1)
    \/ \E j \in 1 .. Len(s) : raises(G, s[j]) /\ Reaches(s, j, Len(s) + 1)

\* What the top hands on.
RaisedByTop(G, t, f) == t.op # "keep" /\ (f \/ raises(G, t))

\* The loops that were waiting for the top find the flag up in the same cases
\* if what takes its place hands on what it would have.
LEMMA FlagMoves ==
  ASSUME NEW tree, NEW G, NEW S, NEW td \in Seq(S), td # <<>>, NEW s \in Seq(S),
         NEW f, NEW g,
         FlagExact(tree, G, td, f), FlagExact(tree, G, s, g),
         RaisedByTop(G, td[1], f) <=> Raised(G, s, g)
  PROVE  FlagExact(tree, G, s \o Tail(td), g)
<1> DEFINE c == s \o Tail(td)
           a == Len(s)
           b == Len(td)
<1>1. /\ a \in Nat /\ b \in Nat \ {0}
      /\ DOMAIN td = 1 .. b /\ DOMAIN s = 1 .. a /\ DOMAIN c = 1 .. a + (b - 1)
      /\ \A k \in 1 .. a : c[k] = s[k]
      /\ \A q \in 2 .. b : c[a + (q - 1)] = td[q]
  BY Replaced
<1> HIDE DEF c, a, b
<1> SUFFICES ASSUME NEW k \in 1 .. a + (b - 1), c[k].op = "keep"
             PROVE  tree[c[k].node].kids[c[k].i] \in G <=>
                      \/ g /\ Reaches(c, 1, k)
                      \/ \E j \in 1 .. k - 1 : raises(G, c[j]) /\ Reaches(c, j, k)
  BY <1>1 DEF FlagExact, c
<1>2. CASE k \in 1 .. a
  <2>1. \A j \in 1 .. k : \A l \in j .. k - 1 : l \in 1 .. a /\ c[l] = s[l]
    BY <1>1, <1>2
  <2>2. \A j \in 1 .. k : Reaches(c, j, k) <=> Reaches(s, j, k)
    BY <2>1 DEF Reaches
  <2>3. 1 \in 1 .. k /\ \A j \in 1 .. k - 1 : j \in 1 .. k /\ c[j] = s[j]
    BY <1>1, <1>2
  <2>4. c[k] = s[k]
    BY <1>1, <1>2
  <2>5. tree[s[k].node].kids[s[k].i] \in G <=>
          \/ g /\ Reaches(s, 1, k)
          \/ \E j \in 1 .. k - 1 : raises(G, s[j]) /\ Reaches(s, j, k)
    BY <1>1, <1>2, <2>4 DEF FlagExact
  <2> QED
    BY <2>2, <2>3, <2>4, <2>5
<1>3. CASE k > a
  <2> DEFINE q == k - a + 1
  <2>1. q \in 2 .. b /\ q \in 1 .. b /\ k = a + (q - 1) /\ c[k] = td[q]
    <3>1. q \in 2 .. b /\ q \in 1 .. b /\ k = a + (q - 1)
      BY <1>1, <1>3
    <3> HIDE DEF q
    <3> QED
      BY <1>1, <3>1
  <2> HIDE DEF q
  <2> DEFINE rest == Reaches(td, 2, q)
  <2>2. \A p \in 2 .. q : Reaches(c, a + (p - 1), k) <=> Reaches(td, p, q)
    <3> SUFFICES ASSUME NEW p \in 2 .. q
                 PROVE  Reaches(c, a + (p - 1), k) <=> Reaches(td, p, q)
      OBVIOUS
    <3>1. \A l \in p .. q - 1 : a + (l - 1) \in a + (p - 1) .. k - 1 /\ c[a + (l - 1)] = td[l]
      BY <1>1, <2>1
    <3>2. \A l \in a + (p - 1) .. k - 1 : (l - a) + 1 \in p .. q - 1 /\ a + (((l - a) + 1) - 1) = l
      BY <1>1, <2>1
    <3>3. \A l \in a + (p - 1) .. k - 1 : c[l] = td[(l - a) + 1]
      BY <3>1, <3>2
    <3> QED
      BY <3>1, <3>2, <3>3 DEF Reaches
  <2>3. \A j \in 1 .. a + 1 : Reaches(c, j, k) <=> Reaches(s, j, a + 1) /\ rest
    <3> SUFFICES ASSUME NEW j \in 1 .. a + 1
                 PROVE  Reaches(c, j, k) <=> Reaches(s, j, a + 1) /\ rest
      OBVIOUS
    <3>1. Reaches(c, a + 1, k) <=> rest
      <4>1. 2 \in 2 .. q /\ a + (2 - 1) = a + 1
        BY <1>1, <2>1
      <4> QED
        BY <2>2, <4>1
    <3>2. \A l \in j .. k - 1 : l \in j .. a \/ l \in a + 1 .. k - 1
      BY <1>1, <2>1
    <3>3. /\ \A l \in j .. a : l \in j .. k - 1 /\ c[l] = s[l]
          /\ \A l \in a + 1 .. k - 1 : l \in j .. k - 1
      BY <1>1, <2>1
    <3>4. (a + 1) - 1 = a
      BY <1>1
    <3>5. Reaches(s, j, a + 1) <=> \A l \in j .. a : c[l].op # "keep"
      BY <3>3, <3>4 DEF Reaches
    <3>6. Reaches(c, a + 1, k) <=> \A l \in a + 1 .. k - 1 : c[l].op # "keep"
      BY DEF Reaches
    <3>7. Reaches(c, j, k) <=> \A l \in j .. k - 1 : c[l].op # "keep"
      BY DEF Reaches
    <3> QED
      BY <3>1, <3>2, <3>3, <3>5, <3>6, <3>7
  <2>4. Reaches(td, 1, q) <=> td[1].op # "keep" /\ rest
    <3>1. \A l \in 1 .. q - 1 : l = 1 \/ l \in 2 .. q - 1
      BY <2>1
    <3>2. 1 \in 1 .. q - 1 /\ \A l \in 2 .. q - 1 : l \in 1 .. q - 1
      BY <2>1
    <3> QED
      BY <3>1, <3>2 DEF Reaches
  <2> DEFINE late == \E p \in 2 .. q - 1 : raises(G, td[p]) /\ Reaches(td, p, q)
  <2>5. tree[td[q].node].kids[td[q].i] \in G <=>
          \/ f /\ Reaches(td, 1, q)
          \/ \E p \in 1 .. q - 1 : raises(G, td[p]) /\ Reaches(td, p, q)
    BY <1>1, <2>1 DEF FlagExact
  <2>6. (\E p \in 1 .. q - 1 : raises(G, td[p]) /\ Reaches(td, p, q)) <=>
          (raises(G, td[1]) /\ Reaches(td, 1, q)) \/ late
    <3>1. \A l \in 1 .. q - 1 : l = 1 \/ l \in 2 .. q - 1
      BY <2>1
    <3>2. 1 \in 1 .. q - 1 /\ \A l \in 2 .. q - 1 : l \in 1 .. q - 1
      BY <2>1
    <3> QED
      BY <3>1, <3>2
  <2>7. (\E j \in 1 .. k - 1 : raises(G, c[j]) /\ Reaches(c, j, k)) <=>
          (\E j \in 1 .. a : raises(G, s[j]) /\ Reaches(s, j, a + 1) /\ rest) \/ late
    <3>1. \A j \in 1 .. k - 1 : \/ j \in 1 .. a
                                \/ (j - a) + 1 \in 2 .. q - 1 /\ j = a + (((j - a) + 1) - 1)
      BY <1>1, <2>1
    <3>2. /\ \A j \in 1 .. a : j \in 1 .. k - 1 /\ j \in 1 .. a + 1 /\ c[j] = s[j]
          /\ \A p \in 2 .. q - 1 : /\ a + (p - 1) \in 1 .. k - 1 /\ p \in 2 .. q
                                   /\ c[a + (p - 1)] = td[p]
      BY <1>1, <2>1
    <3>3. ASSUME NEW j \in 1 .. k - 1, raises(G, c[j]) /\ Reaches(c, j, k)
          PROVE  \/ \E i \in 1 .. a : raises(G, s[i]) /\ Reaches(s, i, a + 1) /\ rest
                 \/ late
      <4>1. CASE j \in 1 .. a
        BY <2>3, <3>2, <3>3, <4>1
      <4>2. CASE (j - a) + 1 \in 2 .. q - 1 /\ j = a + (((j - a) + 1) - 1)
        <5> DEFINE p == (j - a) + 1
        <5>1. p \in 2 .. q - 1 /\ j = a + (p - 1)
          BY <4>2
        <5> HIDE DEF p
        <5>2. raises(G, td[p]) /\ Reaches(td, p, q)
          BY <2>2, <3>2, <3>3, <5>1
        <5> QED
          BY <5>1, <5>2
      <4> QED
        BY <3>1, <4>1, <4>2
    <3>4. ASSUME NEW i \in 1 .. a, raises(G, s[i]) /\ Reaches(s, i, a + 1) /\ rest
          PROVE  \E j \in 1 .. k - 1 : raises(G, c[j]) /\ Reaches(c, j, k)
      BY <2>3, <3>2, <3>4
    <3>5. ASSUME NEW p \in 2 .. q - 1, raises(G, td[p]) /\ Reaches(td, p, q)
          PROVE  \E j \in 1 .. k - 1 : raises(G, c[j]) /\ Reaches(c, j, k)
      <4>1. raises(G, c[a + (p - 1)]) /\ Reaches(c, a + (p - 1), k)
        BY <2>2, <3>2, <3>5
      <4> QED
        BY <3>2, <4>1
    <3> QED
      BY <3>3, <3>4, <3>5
  <2>8. Reaches(c, 1, k) <=> Reaches(s, 1, a + 1) /\ rest
    <3>1. 1 \in 1 .. a + 1
      BY <1>1
    <3> QED
      BY <2>3, <3>1
  <2>9. (RaisedByTop(G, td[1], f) /\ rest) \/ late <=>
          \/ f /\ Reaches(td, 1, q)
          \/ \E p \in 1 .. q - 1 : raises(G, td[p]) /\ Reaches(td, p, q)
    <3> HIDE DEF late, rest
    <3> QED
      BY <2>4, <2>6 DEF RaisedByTop
  <2>10. (Raised(G, s, g) /\ rest) \/ late <=>
          \/ g /\ Reaches(c, 1, k)
          \/ \E j \in 1 .. k - 1 : raises(G, c[j]) /\ Reaches(c, j, k)
    <3> HIDE DEF late, rest
    <3> QED
      BY <2>7, <2>8 DEF Raised, a
  <2> HIDE DEF late, rest
  <2> QED
    BY <2>1, <2>5, <2>9, <2>10
<1> QED
  BY <1>1, <1>2, <1>3

\* What stays of a list, an element later.
LEMMA StayAppend ==
  ASSUME NEW S, NEW list \in Seq(S), NEW x \in S, NEW P
  PROVE  Sublist(Append(list, x), P) =
            IF x \in P THEN Append(Sublist(list, P), x) ELSE Sublist(list, P)
<1>1. \A l : Sublist(l, P) = Data!Sublist(l, P)
  BY DEF Sublist, Data!Sublist
<1> QED
  BY <1>1, Data!SublistAppend

LEMMA StayEmpty ==
  ASSUME NEW S, NEW list \in Seq(S), NEW P
  PROVE  Sublist(list, P) = <<>> <=> \A i \in 1 .. Len(list) : list[i] \notin P
<1>1. Sublist(list, P) = Data!Sublist(list, P)
  BY DEF Sublist, Data!Sublist
<1> QED
  BY <1>1, Data!SublistEmpty

\* A prefix with the element after it.
LEMMA PrefixGrows ==
  ASSUME NEW S, NEW s \in Seq(S), NEW i \in 1 .. Len(s)
  PROVE  /\ SubSeq(s, 1, i - 1) \in Seq(S)
         /\ s[i] \in S
         /\ SubSeq(s, 1, i) = Append(SubSeq(s, 1, i - 1), s[i])
<1>1. Len(s) \in Nat /\ i \in 0 .. Len(s) /\ i - 1 \in 0 .. Len(s)
  BY LenProperties
<1> DEFINE p == SubSeq(s, 1, i - 1)
           q == SubSeq(s, 1, i)
<1>2. /\ p \in Seq(S) /\ Len(p) = i - 1 /\ \A j \in 1 .. i - 1 : p[j] = s[j]
      /\ q \in Seq(S) /\ Len(q) = i /\ \A j \in 1 .. i : q[j] = s[j]
  BY <1>1, Data!PrefixProperties
<1> HIDE DEF p, q
<1>3. s[i] \in S
  BY <1>1, ElementOfSeq
<1> DEFINE r == Append(p, s[i])
<1>4. /\ r \in Seq(S) /\ Len(r) = (i - 1) + 1
      /\ \A j \in 1 .. i - 1 : r[j] = p[j]
      /\ r[(i - 1) + 1] = s[i]
  BY <1>2, <1>3, AppendProperties
<1> HIDE DEF r
<1>5. /\ (i - 1) + 1 = i
      /\ \A j \in 1 .. i : j = i \/ j \in 1 .. i - 1
  BY <1>1
<1>6. \A j \in 1 .. i : q[j] = r[j]
  BY <1>2, <1>4, <1>5
<1>7. q = r
  BY <1>2, <1>4, <1>5, <1>6, SeqEqual
<1> QED
  BY <1>2, <1>3, <1>7 DEF p, q, r

\* Writing an element after a prefix.
LEMMA PrefixWritten ==
  ASSUME NEW S, NEW s \in Seq(S), NEW w \in 1 .. Len(s), NEW x \in S
  PROVE  SubSeq([s EXCEPT ![w] = x], 1, w) = Append(SubSeq(s, 1, w - 1), x)
<1> DEFINE n == [s EXCEPT ![w] = x]
<1>1. Len(s) \in Nat /\ w - 1 \in 0 .. Len(s)
  BY LenProperties
<1>2. /\ n \in Seq(S) /\ Len(n) = Len(s)
      /\ \A j \in 1 .. Len(s) : n[j] = IF j = w THEN x ELSE s[j]
  BY ExceptSeq
<1> HIDE DEF n
<1>3. SubSeq(n, 1, w) = Append(SubSeq(n, 1, w - 1), x)
  BY <1>2, PrefixGrows
<1>4. SubSeq(n, 1, w - 1) = SubSeq(s, 1, w - 1)
  <2> DEFINE p == SubSeq(n, 1, w - 1)
             q == SubSeq(s, 1, w - 1)
  <2>1. /\ p \in Seq(S) /\ Len(p) = w - 1 /\ \A j \in 1 .. w - 1 : p[j] = n[j]
        /\ q \in Seq(S) /\ Len(q) = w - 1 /\ \A j \in 1 .. w - 1 : q[j] = s[j]
    BY <1>1, <1>2, Data!PrefixProperties
  <2> HIDE DEF p, q
  <2>2. \A j \in 1 .. w - 1 : j \in 1 .. Len(s) /\ j # w
    BY <1>1
  <2>3. p = q
    BY <1>2, <2>1, <2>2, SeqEqual
  <2> QED
    BY <2>3 DEF p, q
<1> QED
  BY <1>3, <1>4 DEF n

\* What a step has to show of the tasks s it puts in place of the top.
LEMMA ExactStep ==
  ASSUME WalkInv, ExactInv, todo # <<>>, UNCHANGED <<ast, marked>>,
         NEW s \in Seq(Task(ast)), then(s),
         kids' = kids \/ (/\ isLoop(Top)
                          /\ \A m \in DOMAIN ast : m # node => kids'[m] = kids[m]),
         \A k \in DOMAIN s : Progress(ast, kids', Stay, s[k]),
         \A n \in DOMAIN ast :
            /\ ast[n].kind \in ListKinds
            /\ n \in Pending(ast, Top) \/ (isLoop(Top) /\ n = node)
            => Awaited(ast, s, n) \/ Final(ast, kids', Stay, n),
         \A k \in DOMAIN s : s[k].op = "empty" =>
            /\ ast[s[k].node].kind \in SelfRemoving
            /\ Subtree(ast, s[k].node) \subseteq Pending(ast, Top)
            /\ \A l \in DOMAIN s : k < l => Clear(ast, s[k].node, s[l]),
         FlagExact(ast, Gone, s, remove'),
         RaisedByTop(Gone, Top, remove) <=> Raised(Gone, s, remove')
  PROVE  ExactInv'
<1>1. ast \in Trees /\ Tree(ast) /\ todo \in Seq(Task(ast))
  BY TreesAreTrees DEF WalkInv, TypeInv
<1> DEFINE c == s \o Tail(todo)
           a == Len(s)
           b == Len(todo)
<1>2. todo' = c /\ ast' = ast /\ Gone' = Gone /\ Stay' = Stay
  BY DEF then, Gone, Stay
<1>3. /\ a \in Nat /\ b \in Nat \ {0}
      /\ DOMAIN todo = 1 .. b /\ DOMAIN s = 1 .. a /\ DOMAIN c = 1 .. a + (b - 1)
      /\ \A k \in 1 .. a : c[k] = s[k]
      /\ \A q \in 2 .. b : c[a + (q - 1)] = todo[q]
  BY <1>1, Replaced
<1>4. Top = todo[1] /\ 1 \in 1 .. b
  BY <1>1, <1>3, Popped DEF Top
<1>5. FlagExact(ast, Gone, c, remove')
  BY <1>1, <1>4, FlagMoves DEF ExactInv
<1> HIDE DEF c, a, b
<1>6. \A k \in 1 .. a + (b - 1) :
          k \in 1 .. a \/ ((k - a) + 1 \in 2 .. b /\ k = a + (((k - a) + 1) - 1))
  BY <1>3
<1>7. \A k \in 1 .. a : k \in 1 .. a + (b - 1)
  BY <1>3
<1>8. \A q \in 2 .. b : q \in 1 .. b /\ q # 1 /\ a + (q - 1) \in 1 .. a + (b - 1)
  BY <1>3
<1>9. \A k \in 1 .. a + (b - 1) :
          \/ k \in 1 .. a /\ c[k] = s[k]
          \/ \E q \in 2 .. b : k = a + (q - 1) /\ c[k] = todo[q]
  BY <1>3, <1>6
<1>10. \A q \in 2 .. b :
          /\ Apart(ast, Top, todo[q])
          /\ todo[q].node \in DOMAIN ast
          /\ Progress(ast, kids, Stay, todo[q])
  <2> SUFFICES ASSUME NEW q \in 2 .. b
               PROVE  /\ Apart(ast, Top, todo[q])
                      /\ todo[q].node \in DOMAIN ast
                      /\ Progress(ast, kids, Stay, todo[q])
    OBVIOUS
  <2>1. Apart(ast, Top, todo[q])
    BY <1>3, <1>4, <1>8 DEF WalkInv, TasksApart
  <2>2. todo[q] \in Task(ast)
    BY <1>1, <1>3, <1>8, ElementOfSeq DEF b
  <2>3. todo[q].node \in DOMAIN ast
    BY <1>1, <2>2, PendingInTree
  <2> QED
    BY <1>3, <1>8, <2>1, <2>3 DEF ExactInv
<1>11. \A k \in DOMAIN c : Progress(ast, kids', Stay, c[k])
  <2> SUFFICES ASSUME NEW q \in 2 .. b
               PROVE  Progress(ast, kids', Stay, todo[q])
    BY <1>3, <1>9
  <2>1. CASE kids' = kids
    BY <1>10, <2>1
  <2>2. CASE /\ isLoop(Top)
             /\ \A m \in DOMAIN ast : m # node => kids'[m] = kids[m]
    <3>1. isLoop(todo[q]) => kids'[todo[q].node] = kids[todo[q].node]
      BY <1>10, <2>2 DEF Apart, node
    <3> QED
      BY <1>10, <3>1 DEF Progress
  <2> QED
    BY <2>1, <2>2
<1>12. Settled(ast, kids', Stay, c)
  <2> SUFFICES ASSUME NEW n \in DOMAIN ast, ast[n].kind \in ListKinds
               PROVE  Awaited(ast, c, n) \/ Final(ast, kids', Stay, n)
    BY DEF Settled
  <2>1. Awaited(ast, s, n) => Awaited(ast, c, n)
    BY <1>3, <1>7 DEF Awaited
  <2>2. CASE n \in Pending(ast, Top) \/ (isLoop(Top) /\ n = node)
    BY <2>1, <2>2
  <2>3. CASE ~(n \in Pending(ast, Top) \/ (isLoop(Top) /\ n = node))
    <3>1. Awaited(ast, todo, n) \/ Final(ast, kids, Stay, n)
      BY DEF ExactInv, Settled
    <3>2. CASE Awaited(ast, todo, n)
      <4>1. PICK q \in 1 .. b : \/ n \in Pending(ast, todo[q])
                                \/ isLoop(todo[q]) /\ todo[q].node = n
        BY <1>3, <3>2 DEF Awaited
      <4>2. q \in 2 .. b
        <5>1. q # 1
          BY <1>4, <2>3, <4>1 DEF node
        <5> QED
          BY <1>3, <5>1
      <4>3. a + (q - 1) \in DOMAIN c /\ c[a + (q - 1)] = todo[q]
        BY <1>3, <1>8, <4>2
      <4> QED
        BY <4>1, <4>3 DEF Awaited
    <3>3. CASE Final(ast, kids, Stay, n)
      BY <2>3, <3>3 DEF Final
    <3> QED
      BY <3>1, <3>2, <3>3
  <2> QED
    BY <2>2, <2>3
<1>13. EmptyLast(ast, c)
  <2> SUFFICES ASSUME NEW k \in 1 .. a + (b - 1), c[k].op = "empty"
               PROVE  /\ ast[c[k].node].kind \in SelfRemoving
                      /\ \A l \in 1 .. a + (b - 1) : k < l => Clear(ast, c[k].node, c[l])
    BY <1>3 DEF EmptyLast
  <2>1. CASE k \in 1 .. a /\ c[k] = s[k]
    <3>1. /\ ast[s[k].node].kind \in SelfRemoving
          /\ Subtree(ast, s[k].node) \subseteq Pending(ast, Top)
          /\ \A l \in 1 .. a : k < l => Clear(ast, s[k].node, s[l])
      BY <1>3, <2>1
    <3>2. \A q \in 2 .. b : Clear(ast, s[k].node, todo[q])
      BY <1>10, <3>1 DEF Clear, Apart
    <3> QED
      BY <1>9, <2>1, <3>1, <3>2
  <2>2. ASSUME NEW p \in 2 .. b, k = a + (p - 1), c[k] = todo[p]
        PROVE  /\ ast[c[k].node].kind \in SelfRemoving
               /\ \A l \in 1 .. a + (b - 1) : k < l => Clear(ast, c[k].node, c[l])
    <3>1. /\ ast[todo[p].node].kind \in SelfRemoving
          /\ \A q \in 1 .. b : p < q => Clear(ast, todo[p].node, todo[q])
      BY <1>3, <1>8, <2>2 DEF ExactInv, EmptyLast
    <3>2. ASSUME NEW l \in 1 .. a + (b - 1), k < l
          PROVE  Clear(ast, c[k].node, c[l])
      <4>1. ~(l \in 1 .. a)
        BY <1>3, <2>2, <3>2
      <4>2. PICK q \in 2 .. b : l = a + (q - 1) /\ c[l] = todo[q]
        BY <1>9, <4>1
      <4>3. p < q
        BY <1>3, <2>2, <3>2, <4>2
      <4> QED
        BY <1>8, <2>2, <3>1, <4>2, <4>3
    <3> QED
      BY <2>2, <3>1, <3>2
  <2> QED
    BY <1>9, <2>1, <2>2
<1> QED
  BY <1>2, <1>5, <1>11, <1>12, <1>13 DEF ExactInv

\* The nodes below n, child by child.
LEMMA LaterIs ==
  ASSUME NEW tree, Tree(tree), NEW n \in DOMAIN tree
  PROVE  /\ Subtree(tree, n) = {n} \cup Later(tree, n, 1)
         /\ \A i \in Nat \ {0} :
               /\ i <= Len(tree[n].kids) =>
                    Later(tree, n, i) = Subtree(tree, tree[n].kids[i]) \cup Later(tree, n, i + 1)
               /\ ~(i <= Len(tree[n].kids)) => Later(tree, n, i) = {}
<1> DEFINE ks == tree[n].kids
           sub(j) == Subtree(tree, ks[j])
<1>1. Len(ks) \in Nat /\ DOMAIN ks = 1 .. Len(ks)
  BY KidsOf
<1>2. \A k \in Nat \ {0} : Later(tree, n, k) = UNION {sub(j) : j \in k .. Len(ks)}
  BY DEF Later
<1>3. Subtree(tree, n) = {n} \cup UNION {Subtree(tree, c) : c \in Range(ks)}
  BY DEF Tree, Preorder
<1>4. UNION {Subtree(tree, c) : c \in Range(ks)} = UNION {sub(j) : j \in 1 .. Len(ks)}
  BY <1>1 DEF Range
<1> HIDE DEF ks, sub
<1>5. Subtree(tree, n) = {n} \cup Later(tree, n, 1)
  BY <1>2, <1>3, <1>4
<1>6. ASSUME NEW i \in Nat \ {0}, i <= Len(ks)
      PROVE  Later(tree, n, i) = sub(i) \cup Later(tree, n, i + 1)
  <2>1. i + 1 \in Nat \ {0} /\ i .. Len(ks) = {i} \cup i + 1 .. Len(ks)
    BY <1>1, <1>6
  <2> QED
    BY <1>2, <2>1
<1>7. ASSUME NEW i \in Nat \ {0}, ~(i <= Len(ks))
      PROVE  Later(tree, n, i) = {}
  <2>1. i .. Len(ks) = {}
    BY <1>1, <1>7
  <2> QED
    BY <1>2, <2>1
<1> QED
  BY <1>5, <1>6, <1>7 DEF ks, sub

\* Which nodes go, by their kinds.
LEMMA GoneKinds ==
  ASSUME TypeInv, NEW n \in DOMAIN ast
  PROVE  /\ ast[n].kind \in ListKinds => n \notin Gone
         /\ ast[n].kind \in SelfRemoving =>
              (n \in Gone <=> \A m \in Range(ast[ast[n].kids[1]].kids) : m \in Gone)
         /\ ast[n].kind \notin ListKinds \cup SelfRemoving =>
              (n \in Gone <=> n \in marked \/ \E m \in Range(ast[n].kids) : m \in Gone)
<1>1. Tree(ast) /\ marked \subseteq Markable(ast)
  BY TreesAreTrees DEF TypeInv
<1>2. n \in Gone <=> goes(ast, marked, Gone, n)
  BY <1>1, GoneEquation DEF Gone
<1>3. ast[n].kind \in ListKinds \cup SelfRemoving => n \notin marked
  BY <1>1 DEF Tree
<1>4. ~(ast[n].kind \in ListKinds /\ ast[n].kind \in SelfRemoving)
  BY DEF ListKinds, SelfRemoving
<1> QED
  BY <1>2, <1>3, <1>4 DEF goes

\* Before its first turn a loop has kept nothing.
LEMMA EmptyPrefix ==
  ASSUME NEW S, NEW s \in Seq(S), NEW P
  PROVE  SubSeq(s, 1, 0) = <<>> /\ Sublist(<<>>, P) = <<>>
<1>1. 0 \in 0 .. Len(s)
  BY LenProperties
<1>2. SubSeq(s, 1, 0) \in Seq(S) /\ Len(SubSeq(s, 1, 0)) = 0
  BY <1>1, Data!PrefixProperties
<1>3. SubSeq(s, 1, 0) = <<>>
  BY <1>2, EmptySeq
<1>4. <<>> \in Seq(S) /\ \A i \in 1 .. Len(<<>>) : <<>>[i] \notin P
  OBVIOUS
<1> QED
  BY <1>3, <1>4, StayEmpty

\* Tasks of which none is a loop waiting for its element.
LEMMA NoKeep ==
  ASSUME NEW tree, NEW G, NEW S, NEW s \in Seq(S), NEW f,
         \A k \in 1 .. Len(s) : s[k].op # "keep"
  PROVE  /\ FlagExact(tree, G, s, f)
         /\ Reaches(s, 1, Len(s) + 1)
         /\ \A j \in 1 .. Len(s) : Reaches(s, j, Len(s) + 1)
<1>1. Len(s) \in Nat /\ DOMAIN s = 1 .. Len(s)
  BY LenProperties
<1>2. \A j \in 1 .. Len(s) + 1 : Reaches(s, j, Len(s) + 1)
  <2>1. \A j \in 1 .. Len(s) + 1 : \A l \in j .. (Len(s) + 1) - 1 : l \in 1 .. Len(s)
    BY <1>1
  <2> QED
    BY <2>1 DEF Reaches
<1>3. 1 \in 1 .. Len(s) + 1 /\ \A j \in 1 .. Len(s) : j \in 1 .. Len(s) + 1
  BY <1>1
<1> QED
  BY <1>1, <1>2, <1>3 DEF FlagExact

LEMMA VisitListExact ==
  ASSUME WalkInv, RequestInv, ExactInv, VisitList, UNCHANGED <<ast, marked>>
  PROVE  ExactInv'
<1>1. /\ todo # <<>> /\ Top.op = "visit" /\ kids' = kids /\ remove' = remove
      /\ ast[node].kind \in ListKinds /\ ~finds(Top)
  BY DEF VisitList, doing, finds
<1>2. /\ Tree(ast) /\ node \in DOMAIN ast /\ ~remove /\ TypeInv
      /\ kids \in [DOMAIN ast -> Seq(DOMAIN ast)]
  BY <1>1, TopTask, FlagDown DEF WalkInv
<1> DEFINE t == next(node, 1, 1)
           s == <<t>>
<1>3. /\ t \in Task(ast) /\ Pending(ast, t) = Later(ast, node, 1)
      /\ isLoop(t) /\ t.node = node /\ t.op = "next" /\ t.i = 1 /\ t.w = 1
  BY <1>2, Tasks DEF next
<1>4. then(s)
  BY DEF VisitList
<1> HIDE DEF t
<1>5. s \in Seq(Task(ast)) /\ DOMAIN s = {1} /\ Len(s) = 1 /\ s[1] = t
  BY <1>3
<1> HIDE DEF s
<1>6. Progress(ast, kids', Stay, t)
  <2>1. /\ SubSeq(kids[node], 1, 0) = <<>> /\ SubSeq(ast[node].kids, 1, 0) = <<>>
        /\ Sublist(<<>>, Stay) = <<>>
    BY <1>2, KidsOf, EmptyPrefix
  <2>2. t.w - 1 = 0 /\ t.i - 1 = 0
    BY <1>3
  <2> QED
    BY <1>1, <1>3, <2>1, <2>2 DEF Progress
<1>7. \A n \in DOMAIN ast : n \in Pending(ast, Top) => Awaited(ast, s, n)
  <2>1. Pending(ast, Top) = {node} \cup Later(ast, node, 1)
    BY <1>1, <1>2, LaterIs DEF Pending, node
  <2> QED
    BY <1>3, <1>5, <2>1 DEF Awaited
<1>8. \A k \in 1 .. Len(s) : k = 1
  BY <1>5
<1>9. FlagExact(ast, Gone, s, remove') /\ ~Raised(Gone, s, remove')
  <2>1. \A k \in 1 .. Len(s) : s[k].op # "keep" /\ ~raises(Gone, s[k])
    BY <1>3, <1>5, <1>8 DEF raises
  <2>2. FlagExact(ast, Gone, s, remove')
    BY <1>5, <2>1, NoKeep
  <2>3. ~remove'
    BY <1>1, <1>2
  <2> QED
    BY <2>1, <2>2, <2>3 DEF Raised
<1>10. ~RaisedByTop(Gone, Top, remove)
  BY <1>1, <1>2, GoneKinds DEF RaisedByTop, raises, node
<1>11. ~isLoop(Top)
  BY <1>1 DEF isLoop
<1>12. \A k \in DOMAIN s : s[k] = t /\ s[k].op # "empty"
  BY <1>3, <1>5
<1> QED
  BY <1>1, <1>4, <1>5, <1>6, <1>7, <1>9, <1>10, <1>11, <1>12, ExactStep

LEMMA VisitSelfRemovingExact ==
  ASSUME WalkInv, ExactInv, VisitSelfRemoving, UNCHANGED <<ast, marked>>
  PROVE  ExactInv'
<1>1. /\ todo # <<>> /\ Top.op = "visit" /\ kids' = kids /\ remove' = remove
      /\ ast[node].kind \in SelfRemoving
  BY DEF VisitSelfRemoving, doing
<1>2. Tree(ast) /\ node \in DOMAIN ast /\ TypeInv
  BY <1>1, TopTask DEF WalkInv
<1> DEFINE c == ast[node].kids[1]
           t == visit(c)
           u == empty(node)
           s == <<t, u>>
<1>3. Len(ast[node].kids) = 1 /\ ast[c].kind \in ListKinds
  BY <1>1, <1>2 DEF Tree
<1>4. c \in DOMAIN ast /\ Subtree(ast, node) = {node} \cup Subtree(ast, c)
  <2>1. 1 \in 1 .. Len(ast[node].kids) /\ 1 <= Len(ast[node].kids)
        /\ ~(2 <= Len(ast[node].kids)) /\ 1 \in Nat \ {0} /\ 2 \in Nat \ {0} /\ 1 + 1 = 2
    BY <1>3
  <2>2. Later(ast, node, 2) = {}
    BY <1>2, <2>1, LaterIs
  <2>3. Later(ast, node, 1) = Subtree(ast, c) \cup Later(ast, node, 1 + 1)
    BY <1>2, <2>1, LaterIs
  <2>4. Subtree(ast, node) = {node} \cup Later(ast, node, 1)
    BY <1>2, LaterIs
  <2>5. c \in DOMAIN ast
    BY <1>2, <2>1, KidsOf
  <2> QED
    BY <2>1, <2>2, <2>3, <2>4, <2>5
<1>5. then(s)
  BY DEF VisitSelfRemoving
<1> HIDE DEF c
<1>6. /\ t \in Task(ast) /\ Pending(ast, t) = Subtree(ast, c) /\ ~isLoop(t)
      /\ u \in Task(ast) /\ ~isLoop(u)
  BY <1>2, <1>4, Tasks
<1>21. t.op = "visit" /\ t.node = c /\ u.op = "empty" /\ u.node = node
  BY DEF visit, empty
<1> HIDE DEF t, u
<1>7. s \in Seq(Task(ast)) /\ DOMAIN s = {1, 2} /\ Len(s) = 2 /\ s[1] = t /\ s[2] = u
  BY <1>6, <1>21
<1> HIDE DEF s
<1>8. \A k \in DOMAIN s : Progress(ast, kids', Stay, s[k])
  BY <1>6, <1>21, <1>7 DEF Progress
<1>9. Pending(ast, Top) = Subtree(ast, node) /\ ~isLoop(Top)
  BY <1>1 DEF Pending, node, isLoop
<1>10. \A n \in DOMAIN ast :
          ast[n].kind \in ListKinds /\ n \in Pending(ast, Top) => Awaited(ast, s, n)
  <2>1. ast[node].kind \notin ListKinds
    BY <1>1 DEF SelfRemoving, ListKinds
  <2> QED
    BY <1>4, <1>6, <1>21, <1>7, <1>9, <2>1 DEF Awaited
<1>11. \A k \in DOMAIN s : s[k].op = "empty" =>
          /\ ast[s[k].node].kind \in SelfRemoving
          /\ Subtree(ast, s[k].node) \subseteq Pending(ast, Top)
          /\ \A l \in DOMAIN s : k < l => Clear(ast, s[k].node, s[l])
  <2>1. \A l \in DOMAIN s : ~(2 < l)
    BY <1>7
  <2> QED
    BY <1>1, <1>6, <1>21, <1>7, <1>9, <2>1
<1>12. \A k \in 1 .. Len(s) : k = 1 \/ k = 2
  BY <1>7
<1>13. 1 \in 1 .. Len(s) /\ 2 \in 1 .. Len(s)
  BY <1>7
<1>14. /\ FlagExact(ast, Gone, s, remove')
       /\ Raised(Gone, s, remove') <=> remove' \/ \E k \in 1 .. Len(s) : raises(Gone, s[k])
  <2>1. \A k \in 1 .. Len(s) : s[k].op # "keep"
    BY <1>6, <1>21, <1>7, <1>12
  <2>2. FlagExact(ast, Gone, s, remove')
    BY <1>7, <2>1, NoKeep
  <2>3. /\ Reaches(s, 1, Len(s) + 1)
        /\ \A j \in 1 .. Len(s) : Reaches(s, j, Len(s) + 1)
    BY <1>7, <2>1, NoKeep
  <2> QED
    BY <2>2, <2>3 DEF Raised
<1>15. (\E k \in 1 .. Len(s) : raises(Gone, s[k])) <=> node \in Gone
  <2>1. c \notin Gone
    BY <1>2, <1>3, <1>4, GoneKinds DEF c
  <2> QED
    BY <1>6, <1>21, <1>7, <1>12, <1>13, <2>1 DEF raises
<1>16. RaisedByTop(Gone, Top, remove) <=> remove \/ node \in Gone
  BY <1>1 DEF RaisedByTop, raises, node
<1>17. remove' <=> remove
  BY <1>1
<1> QED
  BY <1>1, <1>5, <1>7, <1>8, <1>9, <1>10, <1>11, <1>14, <1>15, <1>16, <1>17, ExactStep

LEMMA RequestsExact ==
  ASSUME WalkInv, ExactInv, RemoveIfEmpty \/ Remove, UNCHANGED <<ast, marked>>
  PROVE  ExactInv'
<1>1. /\ todo # <<>> /\ kids' = kids /\ then(<<>>) /\ Top.op \in {"empty", "mark"}
  BY DEF RemoveIfEmpty, Remove, doing
<1>2. /\ Tree(ast) /\ node \in DOMAIN ast /\ TypeInv
      /\ kids \in [DOMAIN ast -> Seq(DOMAIN ast)]
  BY <1>1, TopTask DEF WalkInv
<1>3. Pending(ast, Top) = {} /\ ~isLoop(Top)
  BY <1>1 DEF Pending, isLoop
<1> DEFINE s == <<>>
<1>4. s \in Seq(Task(ast)) /\ DOMAIN s = {} /\ Len(s) = 0 /\ 1 .. Len(s) = {} /\ then(s)
  BY <1>1
<1> HIDE DEF s
<1>5. FlagExact(ast, Gone, s, remove') /\ (Raised(Gone, s, remove') <=> remove')
  <2>1. \A k \in 1 .. Len(s) : s[k].op # "keep"
    BY <1>4
  <2>2. s \in Seq(Task(ast))
    BY <1>4
  <2>3. FlagExact(ast, Gone, s, remove')
    BY <2>1, <2>2, NoKeep
  <2>4. Reaches(s, 1, Len(s) + 1)
    BY <2>1, <2>2, NoKeep
  <2> QED
    BY <1>4, <2>3, <2>4 DEF Raised
<1>6. CASE Remove
  <2>1. remove' /\ Top.op = "mark"
    BY <1>6 DEF Remove, doing
  <2>2. RaisedByTop(Gone, Top, remove)
    BY <2>1 DEF RaisedByTop, raises
  <2> QED
    BY <1>1, <1>3, <1>4, <1>5, <2>1, <2>2, ExactStep
<1>7. CASE RemoveIfEmpty
  <2> DEFINE l == ast[node].kids[1]
  <2>1. (remove' <=> (remove \/ kids[l] = <<>>)) /\ Top.op = "empty"
    BY <1>7 DEF RemoveIfEmpty, doing
  <2>2. RaisedByTop(Gone, Top, remove) <=> remove \/ node \in Gone
    BY <2>1 DEF RaisedByTop, raises, node
  <2>3. todo \in Seq(Task(ast)) /\ Top = todo[1] /\ 1 \in DOMAIN todo
        /\ DOMAIN todo \subseteq Nat \ {0}
    BY <1>1, <1>2, Popped, LenProperties DEF Top, TypeInv
  <2>4. /\ ast[node].kind \in SelfRemoving
        /\ \A q \in DOMAIN todo : 1 < q => Clear(ast, node, todo[q])
    BY <2>1, <2>3 DEF ExactInv, EmptyLast, node
  <2>5. Len(ast[node].kids) = 1 /\ ast[l].kind \in ListKinds
    BY <1>2, <2>4 DEF Tree
  <2>6. l \in DOMAIN ast /\ l \in Subtree(ast, node)
    <3>1. 1 \in 1 .. Len(ast[node].kids)
      BY <2>5
    <3>2. l \in DOMAIN ast /\ Subtree(ast, l) \subseteq Subtree(ast, node)
      BY <1>2, <3>1, KidsOf
    <3> QED
      BY <1>2, <3>2, KidsOf
  <2> HIDE DEF l
  <2>7. ~Awaited(ast, todo, l)
    <3> SUFFICES ASSUME NEW q \in DOMAIN todo,
                        \/ l \in Pending(ast, todo[q])
                        \/ isLoop(todo[q]) /\ todo[q].node = l
                 PROVE  FALSE
      BY DEF Awaited
    <3>1. q # 1
      BY <1>3, <2>3
    <3>2. 1 < q
      BY <2>3, <3>1
    <3> QED
      BY <2>4, <2>6, <3>2 DEF Clear
  <2>8. kids[l] = Sublist(ast[l].kids, Stay)
    BY <2>5, <2>6, <2>7 DEF ExactInv, Settled, Final
  <2>9. /\ ast[l].kids \in Seq(DOMAIN ast)
        /\ DOMAIN ast[l].kids = 1 .. Len(ast[l].kids)
        /\ \A i \in 1 .. Len(ast[l].kids) : ast[l].kids[i] \in DOMAIN ast
    BY <1>2, <2>6, KidsOf
  <2>10. kids[l] = <<>> <=> \A i \in 1 .. Len(ast[l].kids) : ast[l].kids[i] \notin Stay
    BY <2>8, <2>9, StayEmpty
  <2>11. kids[l] = <<>> <=> \A m \in Range(ast[l].kids) : m \in Gone
    BY <2>9, <2>10 DEF Range, Stay
  <2>12. node \in Gone <=> \A m \in Range(ast[l].kids) : m \in Gone
    BY <1>2, <2>4, GoneKinds DEF l
  <2> QED
    BY <1>1, <1>3, <1>4, <1>5, <2>1, <2>2, <2>11, <2>12, ExactStep
<1> QED
  BY <1>6, <1>7

LEMMA NextElementExact ==
  ASSUME WalkInv, RequestInv, ExactInv, NextElement, UNCHANGED <<ast, marked>>
  PROVE  ExactInv'
<1> DEFINE i == Top.i
           w == Top.w
           now == kids[node]
           old == ast[node].kids
<1>1. todo # <<>> /\ Top.op = "next" /\ remove' = remove /\ isLoop(Top) /\ ~finds(Top)
  BY DEF NextElement, doing, isLoop, finds
<1>2. /\ Tree(ast) /\ node \in DOMAIN ast /\ Sound(ast, kids, Top)
      /\ kids \in [DOMAIN ast -> Seq(DOMAIN ast)] /\ ~remove
      /\ Top \in Task(ast) /\ TypeInv
  BY <1>1, TopTask, FlagDown DEF WalkInv
<1>3. i \in Nat \ {0} /\ w \in Nat \ {0}
  BY <1>1, <1>2, PendingInTree
<1>4. Pending(ast, Top) = Later(ast, node, i)
  BY <1>1 DEF Pending, node
<1>5. /\ i <= Len(old) + 1 /\ Len(now) = Len(old)
      /\ \A j \in i .. Len(now) : now[j] = old[j]
  BY <1>1, <1>2 DEF Sound, Compact, node
<1>6. old \in Seq(DOMAIN ast) /\ Len(old) \in Nat
  BY <1>2, KidsOf
<1>7. SubSeq(now, 1, w - 1) = Sublist(SubSeq(old, 1, i - 1), Stay)
  <2>1. todo \in Seq(Task(ast)) /\ Top = todo[1] /\ 1 \in DOMAIN todo
    BY <1>1, <1>2, Popped, LenProperties DEF Top, TypeInv
  <2>2. Progress(ast, kids, Stay, Top)
    BY <2>1 DEF ExactInv
  <2> QED
    BY <1>1, <2>2 DEF Progress, node
<1>8. ~RaisedByTop(Gone, Top, remove)
  BY <1>1, <1>2 DEF RaisedByTop, raises
<1>9. CASE i <= Len(now)
  <2> DEFINE c == now[i]
             t == visit(c)
             u == keep(node, i, w)
             s == <<t, u>>
  <2>1. kids' = kids /\ then(s)
    BY <1>9 DEF NextElement
  <2>2. i \in i .. Len(now) /\ i \in 1 .. Len(old) /\ i <= Len(old)
    BY <1>3, <1>5, <1>6, <1>9
  <2>3. c = old[i] /\ c \in DOMAIN ast
    BY <1>2, <1>5, <2>2, KidsOf
  <2>4. Later(ast, node, i) = Subtree(ast, c) \cup Later(ast, node, i + 1)
    BY <1>2, <1>3, <2>2, <2>3, LaterIs
  <2>5. /\ u.op = "keep" /\ u.node = node /\ u.i = i /\ u.w = w
        /\ t.op = "visit" /\ t.node = c
    BY DEF keep, visit
  <2> HIDE DEF c, i, w
  <2>6. /\ t \in Task(ast) /\ Pending(ast, t) = Subtree(ast, c) /\ ~isLoop(t)
        /\ u \in Task(ast) /\ Pending(ast, u) = Later(ast, node, i + 1) /\ isLoop(u)
    BY <1>2, <1>3, <2>3, Tasks
  <2> HIDE DEF t, u
  <2>7. s \in Seq(Task(ast)) /\ DOMAIN s = {1, 2} /\ Len(s) = 2 /\ s[1] = t /\ s[2] = u
    BY <2>6
  <2> HIDE DEF s
  <2>8. \A k \in DOMAIN s : Progress(ast, kids', Stay, s[k])
    <3>1. Progress(ast, kids', Stay, t)
      BY <2>6 DEF Progress
    <3>2. Progress(ast, kids', Stay, u)
      BY <1>7, <2>1, <2>5 DEF Progress
    <3> QED
      BY <2>7, <3>1, <3>2
  <2>9. \A n \in DOMAIN ast :
           n \in Pending(ast, Top) \/ (isLoop(Top) /\ n = node) => Awaited(ast, s, n)
    BY <1>4, <2>4, <2>5, <2>6, <2>7 DEF Awaited
  <2>10. \A k \in DOMAIN s : s[k].op # "empty"
    BY <2>5, <2>7
  <2>11. /\ \A k \in 1 .. 2 : k = 1 \/ k = 2
         /\ \A j \in 1 .. 2 - 1 : j = 1
         /\ 1 \in 1 .. 2 - 1 /\ 1 \in 1 .. 2
         /\ 2 \in 1 .. (2 + 1) - 1 /\ 2 \in 2 .. (2 + 1) - 1
    OBVIOUS
  <2>12. Reaches(s, 1, 2)
    BY <2>5, <2>7, <2>11 DEF Reaches
  <2>13. raises(Gone, t) <=> c \in Gone
    BY <2>5 DEF raises
  <2>14. FlagExact(ast, Gone, s, remove')
    <3>1. (\E j \in 1 .. 2 - 1 : raises(Gone, s[j]) /\ Reaches(s, j, 2)) <=> c \in Gone
      BY <2>7, <2>11, <2>12, <2>13
    <3>2. ast[u.node].kids[u.i] = c
      BY <2>3, <2>5
    <3> QED
      BY <1>1, <1>2, <2>5, <2>7, <3>1, <3>2 DEF FlagExact
  <2>15. ~Raised(Gone, s, remove')
    <3>1. ~Reaches(s, 1, 2 + 1)
      BY <2>5, <2>7, <2>11 DEF Reaches
    <3>2. ~raises(Gone, u)
      BY <2>5 DEF raises
    <3> QED
      BY <2>7, <2>11, <3>1, <3>2 DEF Raised
  <2> QED
    BY <1>1, <1>8, <2>1, <2>7, <2>8, <2>9, <2>10, <2>14, <2>15, ExactStep
<1>10. CASE ~(i <= Len(now))
  <2> DEFINE s == <<>>
  <2>1. /\ kids' = [kids EXCEPT ![node] = SubSeq(now, 1, w - 1)] /\ then(s)
    BY <1>10 DEF NextElement
  <2>2. i - 1 = Len(old) /\ ~(i <= Len(old))
    BY <1>3, <1>5, <1>6, <1>10
  <2>3. SubSeq(old, 1, Len(old)) = old
    <3> DEFINE p == SubSeq(old, 1, Len(old))
    <3> HIDE DEF old
    <3>1. Len(old) \in 0 .. Len(old)
      BY <1>6
    <3>2. p \in Seq(DOMAIN ast) /\ Len(p) = Len(old) /\ \A j \in 1 .. Len(old) : p[j] = old[j]
      BY <1>6, <3>1, Data!PrefixProperties
    <3> HIDE DEF p
    <3>3. p = old
      BY <1>6, <3>2, SeqEqual
    <3> QED
      BY <3>3 DEF p
  <2>4. kids'[node] = Sublist(old, Stay)
    BY <1>2, <1>7, <2>1, <2>2, <2>3
  <2>5. \A m \in DOMAIN ast : m # node => kids'[m] = kids[m]
    BY <1>2, <2>1
  <2>6. Pending(ast, Top) = {}
    BY <1>2, <1>3, <1>4, <2>2, LaterIs
  <2>7. \A n \in DOMAIN ast :
           n \in Pending(ast, Top) \/ (isLoop(Top) /\ n = node) => Final(ast, kids', Stay, n)
    BY <2>4, <2>6 DEF Final
  <2>8. s \in Seq(Task(ast)) /\ DOMAIN s = {} /\ Len(s) = 0
    OBVIOUS
  <2> HIDE DEF s
  <2>9. 1 .. Len(s) = {}
    BY <2>8
  <2>10. FlagExact(ast, Gone, s, remove') /\ ~Raised(Gone, s, remove')
    <3>1. \A k \in 1 .. Len(s) : s[k].op # "keep"
      BY <2>9
    <3>2. s \in Seq(Task(ast))
      BY <2>8
    <3>3. FlagExact(ast, Gone, s, remove')
      BY <3>1, <3>2, NoKeep
    <3>4. ~remove'
      BY <1>1, <1>2
    <3> QED
      BY <2>9, <3>3, <3>4 DEF Raised
  <2> QED
    BY <1>1, <1>8, <2>1, <2>5, <2>7, <2>8, <2>10, ExactStep
<1> QED
  BY <1>9, <1>10

LEMMA KeepOrDropExact ==
  ASSUME WalkInv, ExactInv, KeepOrDrop, UNCHANGED <<ast, marked>>
  PROVE  ExactInv'
<1> DEFINE i == Top.i
           w == Top.w
           now == kids[node]
           old == ast[node].kids
<1>1. todo # <<>> /\ Top.op = "keep" /\ ~remove' /\ isLoop(Top)
  BY DEF KeepOrDrop, doing, isLoop
<1>2. /\ Tree(ast) /\ node \in DOMAIN ast /\ Sound(ast, kids, Top)
      /\ kids \in [DOMAIN ast -> Seq(DOMAIN ast)]
      /\ Top \in Task(ast) /\ TypeInv
  BY <1>1, TopTask DEF WalkInv
<1>3. i \in Nat \ {0} /\ w \in Nat \ {0}
  BY <1>1, <1>2, PendingInTree
<1>4. Pending(ast, Top) = Later(ast, node, i + 1)
  BY <1>1 DEF Pending, node
<1>5. /\ w <= i /\ i <= Len(old) /\ Len(now) = Len(old)
      /\ \A j \in i .. Len(now) : now[j] = old[j]
  BY <1>1, <1>2 DEF Sound, Compact, node
<1>6. old \in Seq(DOMAIN ast) /\ now \in Seq(DOMAIN ast) /\ Len(old) \in Nat
  BY <1>2, KidsOf
<1>7. todo \in Seq(Task(ast)) /\ Top = todo[1] /\ 1 \in DOMAIN todo
  BY <1>1, <1>2, Popped, LenProperties DEF Top, TypeInv
<1>8. SubSeq(now, 1, w - 1) = Sublist(SubSeq(old, 1, i - 1), Stay)
  <2>1. Progress(ast, kids, Stay, Top)
    BY <1>7 DEF ExactInv
  <2> QED
    BY <1>1, <2>1 DEF Progress, node
<1>9. old[i] \in Gone <=> remove
  <2>1. old[i] \in Gone <=>
          \/ remove /\ Reaches(todo, 1, 1)
          \/ \E j \in 1 .. 1 - 1 : raises(Gone, todo[j]) /\ Reaches(todo, j, 1)
    BY <1>1, <1>7 DEF ExactInv, FlagExact, node
  <2>2. 1 .. 1 - 1 = {}
    OBVIOUS
  <2> QED
    BY <2>1, <2>2 DEF Reaches
<1>10. ~RaisedByTop(Gone, Top, remove)
  BY <1>1 DEF RaisedByTop
<1>11. /\ SubSeq(old, 1, i - 1) \in Seq(DOMAIN ast) /\ old[i] \in DOMAIN ast
       /\ SubSeq(old, 1, i) = Append(SubSeq(old, 1, i - 1), old[i])
  <2> HIDE DEF old, i
  <2>1. i \in 1 .. Len(old)
    BY <1>3, <1>5, <1>6
  <2> QED
    BY <1>6, <2>1, PrefixGrows
<1>12. Sublist(SubSeq(old, 1, i), Stay) =
          IF remove THEN SubSeq(now, 1, w - 1) ELSE Append(SubSeq(now, 1, w - 1), old[i])
  <2> DEFINE p == SubSeq(old, 1, i - 1)
             e == old[i]
             q == SubSeq(now, 1, w - 1)
  <2>1. p \in Seq(DOMAIN ast) /\ e \in DOMAIN ast /\ q = Sublist(p, Stay)
    BY <1>8, <1>11
  <2>2. e \in Stay <=> ~remove
    BY <1>9, <2>1 DEF Stay
  <2>3. SubSeq(old, 1, i) = Append(p, e)
    BY <1>11
  <2> HIDE DEF p, e, q
  <2>4. Sublist(Append(p, e), Stay) = IF e \in Stay THEN Append(Sublist(p, Stay), e)
                                      ELSE Sublist(p, Stay)
    BY <2>1, StayAppend
  <2>5. Sublist(Append(p, e), Stay) = IF remove THEN q ELSE Append(q, e)
    BY <2>1, <2>2, <2>4
  <2>6. Sublist(SubSeq(old, 1, i), Stay) = IF remove THEN q ELSE Append(q, e)
    BY <2>3, <2>5
  <2> QED
    BY <2>6 DEF q, e
<1>13. ASSUME NEW v \in Nat \ {0},
              then(<<next(node, i + 1, v)>>),
              kids' = kids \/ \A m \in DOMAIN ast : m # node => kids'[m] = kids[m],
              SubSeq(kids'[node], 1, v - 1) = Sublist(SubSeq(old, 1, i), Stay)
       PROVE  ExactInv'
  <2> DEFINE t == next(node, i + 1, v)
             s == <<t>>
  <2>1. t.op = "next" /\ t.node = node /\ t.i = i + 1 /\ t.w = v
    BY DEF next
  <2> HIDE DEF i, w
  <2>2. i + 1 \in Nat \ {0}
    BY <1>3
  <2>3. t \in Task(ast) /\ Pending(ast, t) = Later(ast, node, i + 1) /\ isLoop(t)
    BY <1>2, <1>13, <2>2, Tasks
  <2>4. then(s)
    BY <1>13
  <2> HIDE DEF t
  <2>5. s \in Seq(Task(ast)) /\ DOMAIN s = {1} /\ Len(s) = 1 /\ s[1] = t
    BY <2>3
  <2> HIDE DEF s
  <2>6. Progress(ast, kids', Stay, t)
    <3>1. t.i - 1 = i
      BY <1>3, <2>1
    <3> QED
      BY <1>13, <2>1, <3>1 DEF Progress
  <2>7. \A n \in DOMAIN ast :
           n \in Pending(ast, Top) \/ (isLoop(Top) /\ n = node) => Awaited(ast, s, n)
    BY <1>4, <2>1, <2>3, <2>5 DEF Awaited
  <2>8. \A k \in 1 .. Len(s) : s[k].op # "keep" /\ ~raises(Gone, s[k])
    <3>1. \A k \in 1 .. 1 : k = 1
      OBVIOUS
    <3> QED
      BY <2>1, <2>5, <3>1 DEF raises
  <2>9. FlagExact(ast, Gone, s, remove') /\ ~Raised(Gone, s, remove')
    <3>1. FlagExact(ast, Gone, s, remove')
      BY <2>5, <2>8, NoKeep
    <3> QED
      BY <1>1, <2>8, <3>1 DEF Raised
  <2>10. \A k \in DOMAIN s : s[k] = t /\ s[k].op # "empty"
    BY <2>1, <2>5
  <2> QED
    BY <1>1, <1>10, <1>13, <2>4, <2>5, <2>6, <2>7, <2>9, <2>10, ExactStep
<1>14. CASE remove
  <2>1. kids' = kids /\ then(<<next(node, i + 1, w)>>)
    BY <1>14 DEF KeepOrDrop
  <2>2. SubSeq(kids'[node], 1, w - 1) = Sublist(SubSeq(old, 1, i), Stay)
    BY <1>12, <1>14, <2>1
  <2> QED
    BY <1>3, <1>13, <2>1, <2>2
<1>15. CASE ~remove
  <2> DEFINE new == [now EXCEPT ![w] = now[i]]
  <2>1. /\ kids' = [kids EXCEPT ![node] = new]
        /\ then(<<next(node, i + 1, w + 1)>>)
    BY <1>15 DEF KeepOrDrop
  <2>2. w \in 1 .. Len(now) /\ i \in 1 .. Len(now) /\ i \in i .. Len(now)
        /\ w + 1 \in Nat \ {0} /\ (w + 1) - 1 = w
    BY <1>3, <1>5, <1>6
  <2>3. now[i] = old[i] /\ now[i] \in DOMAIN ast
    BY <1>5, <1>6, <2>2, ElementOfSeq
  <2>4. SubSeq(new, 1, w) = Append(SubSeq(now, 1, w - 1), now[i])
    <3> DEFINE x == now[i]
    <3>1. x \in DOMAIN ast
      BY <2>3
    <3> HIDE DEF x, now, w
    <3>2. SubSeq([now EXCEPT ![w] = x], 1, w) = Append(SubSeq(now, 1, w - 1), x)
      BY <1>6, <2>2, <3>1, PrefixWritten
    <3> QED
      BY <3>2 DEF x
  <2>5. kids'[node] = new /\ \A m \in DOMAIN ast : m # node => kids'[m] = kids[m]
    BY <1>2, <2>1
  <2>6. SubSeq(kids'[node], 1, (w + 1) - 1) = Sublist(SubSeq(old, 1, i), Stay)
    <3>1. SubSeq(kids'[node], 1, (w + 1) - 1) = SubSeq(new, 1, w)
      <4> HIDE DEF new, w
      <4> QED
        BY <2>2, <2>5
    <3> HIDE DEF new, w, i, old, now
    <3> QED
      BY <1>12, <1>15, <2>3, <2>4, <3>1
  <2> QED
    BY <1>13, <2>1, <2>2, <2>5, <2>6
<1> QED
  BY <1>14, <1>15

LEMMA VisitOtherExact ==
  ASSUME WalkInv, ExactInv, VisitOther, UNCHANGED <<ast, marked>>
  PROVE  ExactInv'
<1> DEFINE ks == ast[node].kids
<1>1. /\ todo # <<>> /\ Top.op = "visit" /\ kids' = kids /\ remove' = remove
      /\ ast[node].kind \notin ListKinds \cup SelfRemoving
  BY VisitOtherTasks
<1>2. PICK s \in Seq(Task(ast)) : then(s) /\ VisitsAndMark(ast, node, marked, s)
  BY VisitOtherTasks
<1>3. Tree(ast) /\ node \in DOMAIN ast /\ TypeInv
  BY <1>1, TopTask DEF WalkInv
<1>4. Pending(ast, Top) = Subtree(ast, node) /\ ~isLoop(Top)
  BY <1>1 DEF Pending, node, isLoop
<1>5. /\ DOMAIN ks = 1 .. Len(ks)
      /\ Subtree(ast, node) = {node} \cup UNION {Subtree(ast, m) : m \in Range(ks)}
  BY <1>3, KidsOf DEF Tree, Preorder
<1>6. /\ DOMAIN s = 1 .. Len(s)
      /\ \A k \in DOMAIN s :
            \/ k \in 1 .. Len(ks) /\ s[k] = visit(ks[k])
            \/ k = Len(ks) + 1 /\ node \in marked /\ s[k] = mark(node)
      /\ 1 .. Len(ks) \subseteq DOMAIN s
      /\ node \in marked => Len(ks) + 1 \in DOMAIN s
  BY <1>2, <1>3, TaskOfNode
<1>7. /\ \A k \in 1 .. Len(ks) : s[k] = visit(ks[k])
      /\ node \in marked => s[Len(ks) + 1] = mark(node)
  BY <1>2 DEF VisitsAndMark
<1>8. node \in Gone <=> node \in marked \/ \E m \in Range(ks) : m \in Gone
  BY <1>1, <1>3, GoneKinds
<1>9. \A m \in Range(ks) : \E j \in 1 .. Len(ks) : m = ks[j]
  BY <1>5 DEF Range
<1>10. \A j \in 1 .. Len(ks) : ks[j] \in Range(ks)
  BY <1>5 DEF Range
<1> HIDE DEF ks
<1>11. \A k \in DOMAIN s : s[k].op \in {"visit", "mark"}
  BY <1>6 DEF visit, mark
<1>12. \A k \in DOMAIN s : /\ s[k].op # "empty" /\ s[k].op # "keep"
                           /\ Progress(ast, kids', Stay, s[k])
  BY <1>11 DEF Progress, isLoop
<1>13. \A n \in DOMAIN ast :
          ast[n].kind \in ListKinds /\ n \in Pending(ast, Top) => Awaited(ast, s, n)
  <2> SUFFICES ASSUME NEW n \in DOMAIN ast, ast[n].kind \in ListKinds,
                      n \in Pending(ast, Top)
               PROVE  Awaited(ast, s, n)
    OBVIOUS
  <2>1. n # node
    BY <1>1
  <2>2. PICK m \in Range(ks) : n \in Subtree(ast, m)
    BY <1>4, <1>5, <2>1
  <2>3. PICK j \in 1 .. Len(ks) : m = ks[j]
    BY <1>9
  <2>4. Pending(ast, visit(ks[j])) = Subtree(ast, ks[j])
    BY DEF Pending, visit
  <2> QED
    BY <1>6, <1>7, <2>2, <2>3, <2>4 DEF Awaited
<1>14. (\E k \in 1 .. Len(s) : raises(Gone, s[k])) <=> node \in Gone
  <2>1. \A j \in 1 .. Len(ks) : raises(Gone, visit(ks[j])) <=> ks[j] \in Gone
    BY DEF raises, visit
  <2>2. raises(Gone, mark(node))
    BY DEF raises, mark
  <2>3. ASSUME NEW k \in 1 .. Len(s), raises(Gone, s[k])
        PROVE  node \in Gone
    BY <1>6, <1>8, <1>10, <2>1, <2>3
  <2>4. ASSUME node \in Gone
        PROVE  \E k \in 1 .. Len(s) : raises(Gone, s[k])
    <3>1. CASE node \in marked
      BY <1>6, <1>7, <2>2, <3>1
    <3>2. CASE \E m \in Range(ks) : m \in Gone
      <4>1. PICK j \in 1 .. Len(ks) : ks[j] \in Gone
        BY <1>9, <3>2
      <4> QED
        BY <1>6, <1>7, <2>1, <4>1
    <3> QED
      BY <1>8, <2>4, <3>1, <3>2
  <2> QED
    BY <2>3, <2>4
<1>15. \A k \in 1 .. Len(s) : s[k].op # "keep"
  BY <1>6, <1>12
<1>16. /\ FlagExact(ast, Gone, s, remove')
       /\ Raised(Gone, s, remove') <=> remove' \/ \E k \in 1 .. Len(s) : raises(Gone, s[k])
  <2>1. s \in Seq(Task(ast))
    BY <1>2
  <2>2. FlagExact(ast, Gone, s, remove')
    BY <1>15, <2>1, NoKeep
  <2>3. /\ Reaches(s, 1, Len(s) + 1)
        /\ \A j \in 1 .. Len(s) : Reaches(s, j, Len(s) + 1)
    BY <1>15, <2>1, NoKeep
  <2> QED
    BY <2>2, <2>3 DEF Raised
<1>17. RaisedByTop(Gone, Top, remove) <=> remove \/ node \in Gone
  BY <1>1 DEF RaisedByTop, raises, node
<1>18. remove' <=> remove
  BY <1>1
<1> QED
  BY <1>1, <1>2, <1>4, <1>12, <1>13, <1>14, <1>16, <1>17, <1>18, ExactStep

LEMMA ExactInit == Init => ExactInv
<1> SUFFICES ASSUME Init
             PROVE  ExactInv
  OBVIOUS
<1>1. ast \in Trees /\ Tree(ast)
  BY TreesAreTrees DEF Init
<1> DEFINE t == visit(1)
<1>2. t.op = "visit" /\ t.node = 1 /\ Pending(ast, t) = Subtree(ast, 1)
  BY DEF visit, Pending
<1>3. todo = <<t>>
  BY DEF Init
<1> HIDE DEF t
<1>4. DOMAIN todo = {1} /\ todo[1] = t
  BY <1>3
<1>5. \A n \in DOMAIN ast : n \in Subtree(ast, 1)
  BY <1>1 DEF Tree
<1> QED
  BY <1>2, <1>4, <1>5 DEF ExactInv, Progress, Settled, Awaited, EmptyLast, FlagExact, isLoop

LEMMA ExactNext == WalkInv /\ RequestInv /\ ExactInv /\ [Next]_vars => ExactInv'
<1> SUFFICES ASSUME WalkInv, RequestInv, ExactInv, [Next]_vars
             PROVE  ExactInv'
  OBVIOUS
<1>1. CASE UNCHANGED vars
  BY <1>1 DEF vars, ExactInv, Stay, Gone
<1>2. CASE UNCHANGED <<ast, marked>> /\ VisitList
  BY <1>2, VisitListExact
<1>3. CASE UNCHANGED <<ast, marked>> /\ NextElement
  BY <1>3, NextElementExact
<1>4. CASE UNCHANGED <<ast, marked>> /\ KeepOrDrop
  BY <1>4, KeepOrDropExact
<1>5. CASE UNCHANGED <<ast, marked>> /\ VisitSelfRemoving
  BY <1>5, VisitSelfRemovingExact
<1>6. CASE UNCHANGED <<ast, marked>> /\ (RemoveIfEmpty \/ Remove)
  BY <1>6, RequestsExact
<1>7. CASE UNCHANGED <<ast, marked>> /\ VisitOther
  BY <1>7, VisitOtherExact
<1> QED
  BY <1>1, <1>2, <1>3, <1>4, <1>5, <1>6, <1>7 DEF Next

\* Where requests come last, every list of the tree ends with exactly the
\* elements that nothing asked to remove, in their order: an element goes if it
\* is marked, if something in it is that no list in between takes, or if it holds
\* a declaration or sequence all of whose elements go (remove.go).
THEOREM RemovesExactly ==
  ASSUME \A tree \in Trees : RequestsComeLast(tree)
  PROVE  Spec => []RemovesExactlyTheMarked
<1>1. WalkInv /\ RequestInv /\ [Next]_vars => RequestInv'
  BY RequestNext
<1>2. ExactInv => RemovesExactlyTheMarked
  <2> SUFFICES ASSUME ExactInv, todo = <<>>,
                      NEW n \in DOMAIN ast, ast[n].kind \in ListKinds
               PROVE  kids[n] = Sublist(ast[n].kids, Stay)
    BY DEF RemovesExactlyTheMarked, done
  <2>1. DOMAIN todo = {}
    OBVIOUS
  <2>2. ~Awaited(ast, todo, n)
    BY <2>1 DEF Awaited
  <2> QED
    BY <2>2 DEF ExactInv, Settled, Final
<1> QED
  BY <1>1, <1>2, RequestInit, ExactInit, ExactNext, RemoveInvariant, PTL DEF Spec
=============================================================================
