------------------------------- MODULE Arena -------------------------------
(***************************************************************************)
(* The typed bump allocator the parser builds the tree in (arena.go), and  *)
(* the constructors of nodeAllocator that allocate with it and fill in     *)
(* what they got (alloc.go). The code reaches the elements by unsafe       *)
(* pointer arithmetic: no bounds check stands between a wrong index and a  *)
(* node of the tree that was built earlier.                                *)
(*                                                                         *)
(* heap holds the Go arrays that were ever made, as sequences; an array is *)
(* its index in heap. Go counts the elements of an array from 0.           *)
(***************************************************************************)
EXTENDS Integers, Sequences

CONSTANTS
    Elem,          \* what is stored: nodes, or elements of lists
    Zero,          \* an element of a new array
    startLen,      \* length of the first chunk
    MaxHanded,     \* bound: allocations
    MaxSlice       \* bound: length of a slice

ASSUME ArenaAssumption == startLen \in Nat \ {0} /\ MaxSlice \in Nat

VARIABLES
    heap,      \* the arrays
    a,         \* arena.a: the chunk in use, or Nil
    len,       \* arena.len: its length, or the one the first chunk will have
    index,     \* arena.index: its first free element
    handed     \* history: where each allocation is and what was stored in it

arenaVars == <<heap, a, len, index, handed>>

Nil == 0

Allocation == [arr : Nat, start : Nat, val : Seq(Elem)]

ArenaTypeOK ==
    /\ heap \in Seq(Seq(Elem \cup {Zero}))
    /\ a \in 0 .. Len(heap)
    /\ len \in Nat
    /\ len = 0 => a = Nil
    /\ index \in Nat
    /\ handed \in Seq(Allocation)

\* index = len makes the first allocation take the slow path.
ArenaInit ==
    /\ heap = <<>>
    /\ a = Nil
    /\ len = startLen
    /\ index = startLen
    /\ handed = <<>>

-----------------------------------------------------------------------------

newArray(n) == [i \in 1 .. n |-> Zero]

\* arr with val stored from element start on.
filled(arr, start, val) ==
    [i \in 1 .. Len(arr) |->
        IF i - start \in 1 .. Len(val) THEN val[i - start] ELSE arr[i]]

\* The length of the chunk that follows: the initial one for the first.
grown == IF a = Nil THEN len ELSE len + len \div 2

\* Seeded fault: the chunk made for a slice may be too short for it.
grownRegardless(n) == grown

\* The same for a slice of n elements, with headroom if that is too short.
grownForSlice(n) == IF grown < n THEN n + n \div 2 ELSE grown

\* Seeded fault: a slice advances the index by one element only.
bumpByOne(val) ==
    /\ heap' = [heap EXCEPT ![a] = filled(heap[a], index, val)]
    /\ index' = index + 1
    /\ handed' = Append(handed, [arr |-> a, start |-> index, val |-> val])
    /\ UNCHANGED <<a, len>>

\* Store val behind the elements in use.
bump(val) ==
    /\ heap' = [heap EXCEPT ![a] = filled(heap[a], index, val)]
    /\ index' = index + Len(val)
    /\ handed' = Append(handed, [arr |-> a, start |-> index, val |-> val])
    /\ UNCHANGED <<a, len>>

\* Store val at the beginning of a new chunk of length n.
newChunk(n, val) ==
    /\ heap' = Append(heap, filled(newArray(n), 0, val))
    /\ a' = Len(heap) + 1
    /\ len' = n
    /\ index' = Len(val)
    /\ handed' = Append(handed, [arr |-> Len(heap) + 1, start |-> 0,
                                 val |-> val])

\* make, and the constructor's assignment to the node.
make(node) ==
    IF index = len THEN newChunk(grown, <<node>>) ELSE bump(<<node>>)

\* makeSlice, and the copy into it; an empty list allocates nothing.
makeSlice(list) ==
    IF list = <<>>
    THEN /\ handed' = Append(handed, [arr |-> Nil, start |-> 0, val |-> <<>>])
         /\ UNCHANGED <<heap, a, len, index>>
    ELSE IF index + Len(list) > len
         THEN newChunk(grownForSlice(Len(list)), list)
         ELSE bump(list)

\* Seeded fault: the arena keeps its chunk for the next parse.
rewoundArena ==
    /\ index' = 0
    /\ a # Nil
    /\ UNCHANGED <<heap, a, len, handed>>

\* getParser: the arenas of a parser are made anew for every parse.
newArena ==
    /\ a' = Nil
    /\ len' = startLen
    /\ index' = startLen
    /\ UNCHANGED <<heap, handed>>

\* putParser: the chunks stay with the tree that is in them.
dropArena ==
    /\ a' = Nil
    /\ len' = 0
    /\ index' = 0
    /\ UNCHANGED <<heap, handed>>

Lists == UNION {[1 .. n -> Elem] : n \in 0 .. MaxSlice}

ArenaNext ==
    \/ /\ Len(handed) < MaxHanded
       /\ len > 0                       \* no parser uses a dropped arena
       /\ \/ \E node \in Elem : make(node)
          \/ \E list \in Lists : makeSlice(list)
    \/ newArena
    \/ dropArena

ArenaSpec == ArenaInit /\ [][ArenaNext]_arenaVars

-----------------------------------------------------------------------------

\* Every allocation lies within its array: the unsafe pointers never leave it,
\* whatever sequence of node and slice requests the chunks had to grow for.
\* Growing by half in integers never makes a chunk without room for a node.
InBounds ==
    \A i \in 1 .. Len(handed) :
        LET h == handed[i]
        IN h.val # <<>> => /\ h.arr \in 1 .. Len(heap)
                           /\ h.start + Len(h.val) <= Len(heap[h.arr])

\* Two allocations share no element, those of different parses included.
NeverShared ==
    \A i, j \in 1 .. Len(handed) :
        LET g == handed[i]
            h == handed[j]
        IN i < j /\ g.val # <<>> /\ h.val # <<>> =>
             \/ g.arr # h.arr
             \/ g.start + Len(g.val) <= h.start
             \/ h.start + Len(h.val) <= g.start

\* What was stored in an allocation is still there: no later node or list, of
\* this parse or of another, overwrites a part of a tree.
NodesIntact ==
    \A i \in 1 .. Len(handed) :
        LET h == handed[i]
        IN \A k \in 1 .. Len(h.val) : heap[h.arr][h.start + k] = h.val[k]

-----------------------------------------------------------------------------
\* The inductive invariant: the free part of the chunk in use starts at index,
\* behind everything that was handed out of it, in order.

ChunkInUse ==
    /\ a # Nil => /\ Len(heap[a]) = len
                  /\ index <= len
    /\ a = Nil => index = len

BehindIndex ==
    \A i \in 1 .. Len(handed) :
        handed[i].val # <<>> /\ handed[i].arr = a
            => handed[i].start + Len(handed[i].val) <= index

ArenaInv ==
    /\ ArenaTypeOK
    /\ ChunkInUse
    /\ BehindIndex
    /\ InBounds
    /\ NeverShared
    /\ NodesIntact
=============================================================================
