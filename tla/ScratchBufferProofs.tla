------------------------ MODULE ScratchBufferProofs ------------------------
(***************************************************************************)
(* Proofs about Arena and ScratchBuffer, the memory of a parse.            *)
(*                                                                         *)
(* Whatever is requested of an arena in whatever order, no two parts of a  *)
(* tree share memory and nothing that was built is overwritten: an         *)
(* allocation is always placed either at index, behind all others of its   *)
(* chunk, or in a chunk of its own.                                        *)
(*                                                                         *)
(* One buffer, shared as a stack by all the builders of a parse and moved  *)
(* while they are at work, serves each of them as if it had a list of its  *)
(* own: the buffer's array is never one that a tree is in, the parts of    *)
(* the builders lie one above the other, and an array the buffer was moved *)
(* from keeps what it held.                                                *)
(***************************************************************************)
EXTENDS ScratchBuffer, DataLemmas

-----------------------------------------------------------------------------
(* The arena *)

\* What filled returns: an array of the same length, changed only where val is.
LEMMA FilledArray ==
    ASSUME NEW S, NEW arr \in Seq(S), NEW start \in Nat, NEW val \in Seq(S),
           start + Len(val) <= Len(arr)
    PROVE  /\ filled(arr, start, val) \in Seq(S)
           /\ Len(filled(arr, start, val)) = Len(arr)
           /\ \A k \in 1 .. Len(val) :
                filled(arr, start, val)[start + k] = val[k]
           /\ \A k \in 1 .. start : filled(arr, start, val)[k] = arr[k]
BY DEF filled

\* A new array has the elements asked for.
LEMMA NewArray ==
    ASSUME NEW n \in Nat
    PROVE  /\ newArray(n) \in Seq(Elem \cup {Zero})
           /\ Len(newArray(n)) = n
BY DEF newArray

\* The initial state has no chunk and no allocation.
LEMMA ArenaInitially == ArenaInit => ArenaInv
BY ArenaAssumption
   DEF ArenaInit, ArenaInv, ArenaTypeOK, ChunkInUse, BehindIndex, InBounds,
       NeverShared, NodesIntact, Allocation, Nil

\* What is known of an allocation.
LEMMA Handed ==
    ASSUME ArenaInv, NEW i \in 1 .. Len(handed)
    PROVE  /\ handed[i].start \in Nat
           /\ handed[i].val \in Seq(Elem)
           /\ Len(handed[i].val) \in Nat
           /\ handed[i].val # <<>> =>
                /\ handed[i].arr \in 1 .. Len(heap)
                /\ handed[i].start + Len(handed[i].val)
                     <= Len(heap[handed[i].arr])
                /\ handed[i].arr = a =>
                     handed[i].start + Len(handed[i].val) <= index
<1>1. handed \in Seq(Allocation)
  BY DEF ArenaInv, ArenaTypeOK
<1>2. handed[i] \in Allocation
  BY <1>1
<1>3. handed[i].start \in Nat /\ handed[i].val \in Seq(Elem)
  BY <1>2 DEF Allocation
<1>4. Len(handed[i].val) \in Nat
  BY <1>3
<1>5. handed[i].val # <<>> =>
        /\ handed[i].arr \in 1 .. Len(heap)
        /\ handed[i].start + Len(handed[i].val) <= Len(heap[handed[i].arr])
  BY DEF ArenaInv, InBounds
<1>6. handed[i].val # <<>> /\ handed[i].arr = a =>
        handed[i].start + Len(handed[i].val) <= index
  BY DEF ArenaInv, BehindIndex
<1> QED BY <1>3, <1>4, <1>5, <1>6

\* bump stores behind everything else in its chunk.
LEMMA BumpKeepsInv ==
    ASSUME ArenaInv, NEW val \in Seq(Elem), val # <<>>,
           a # Nil, index + Len(val) <= len,
           bump(val)
    PROVE  ArenaInv'
<1> DEFINE new == [arr |-> a, start |-> index, val |-> val]
           arr == filled(heap[a], index, val)
<1>1. /\ heap \in Seq(Seq(Elem \cup {Zero})) /\ a \in 1 .. Len(heap)
      /\ len \in Nat /\ index \in Nat /\ handed \in Seq(Allocation)
      /\ Len(val) \in Nat \ {0} /\ Len(heap[a]) = len
      /\ heap[a] \in Seq(Elem \cup {Zero})
      /\ val \in Seq(Elem \cup {Zero})
  BY DEF ArenaInv, ArenaTypeOK, ChunkInUse, Nil
<1>2. /\ arr \in Seq(Elem \cup {Zero})
      /\ Len(arr) = len
      /\ \A k \in 1 .. Len(val) : arr[index + k] = val[k]
      /\ \A k \in 1 .. index : arr[k] = heap[a][k]
  BY <1>1, FilledArray
<1> HIDE DEF arr
<1>3. /\ heap' = [heap EXCEPT ![a] = arr]
      /\ index' = index + Len(val) /\ a' = a /\ len' = len
      /\ handed' = Append(handed, new)
  BY DEF bump, arr
<1>4. /\ heap' \in Seq(Seq(Elem \cup {Zero})) /\ Len(heap') = Len(heap)
      /\ heap'[a] = arr
      /\ \A c \in 1 .. Len(heap) : c # a => heap'[c] = heap[c]
      /\ \A c \in 1 .. Len(heap) : Len(heap'[c]) = Len(heap[c])
  BY <1>1, <1>2, <1>3
<1>5. new \in Allocation
  BY <1>1 DEF Allocation
<1>6. /\ handed' \in Seq(Allocation) /\ Len(handed') = Len(handed) + 1
      /\ handed'[Len(handed) + 1] = new
      /\ \A i \in 1 .. Len(handed) : handed'[i] = handed[i]
  BY <1>1, <1>3, <1>5
<1>7. \A i \in 1 .. Len(handed) :
        /\ handed[i].start \in Nat /\ handed[i].val \in Seq(Elem)
        /\ Len(handed[i].val) \in Nat
        /\ handed[i].val # <<>> =>
             /\ handed[i].arr \in 1 .. Len(heap)
             /\ handed[i].start + Len(handed[i].val)
                  <= Len(heap[handed[i].arr])
             /\ handed[i].arr = a =>
                  handed[i].start + Len(handed[i].val) <= index
  BY Handed
<1>8. ArenaTypeOK'
  BY <1>1, <1>3, <1>4, <1>6 DEF ArenaInv, ArenaTypeOK
<1>9. ChunkInUse'
  BY <1>1, <1>2, <1>3, <1>4 DEF ChunkInUse
<1>10. BehindIndex'
  BY <1>1, <1>3, <1>6, <1>7 DEF BehindIndex
<1>11. InBounds'
  <2> SUFFICES ASSUME NEW i \in 1 .. Len(handed) + 1, handed'[i].val # <<>>
               PROVE  /\ handed'[i].arr \in 1 .. Len(heap')
                      /\ handed'[i].start + Len(handed'[i].val)
                           <= Len(heap'[handed'[i].arr])
    BY <1>6 DEF InBounds
  <2>1. CASE i = Len(handed) + 1
    BY <1>1, <1>2, <1>4, <1>6, <2>1
  <2>2. CASE i \in 1 .. Len(handed)
    BY <1>4, <1>6, <1>7, <2>2
  <2>3. Len(handed) \in Nat
    BY <1>1
  <2> QED BY <2>1, <2>2, <2>3
<1>12. NeverShared'
  <2> SUFFICES ASSUME NEW i \in 1 .. Len(handed) + 1,
                      NEW j \in 1 .. Len(handed) + 1,
                      i < j, handed'[i].val # <<>>, handed'[j].val # <<>>
               PROVE  \/ handed'[i].arr # handed'[j].arr
                      \/ handed'[i].start + Len(handed'[i].val)
                           <= handed'[j].start
                      \/ handed'[j].start + Len(handed'[j].val)
                           <= handed'[i].start
    BY <1>6 DEF NeverShared
  <2>1. CASE j \in 1 .. Len(handed)
    <3>1. i \in 1 .. Len(handed)
      BY <2>1
    <3>2. handed'[i] = handed[i] /\ handed'[j] = handed[j]
      BY <1>6, <2>1, <3>1
    <3> QED BY <2>1, <3>1, <3>2 DEF ArenaInv, NeverShared
  <2>2. CASE j = Len(handed) + 1
    <3>1. i \in 1 .. Len(handed) /\ handed'[i] = handed[i]
      BY <1>1, <1>6, <2>2
    <3>2. handed'[j].arr = a /\ handed'[j].start = index
      BY <1>6, <2>2
    <3> QED BY <1>7, <3>1, <3>2
  <2>3. Len(handed) \in Nat
    BY <1>1
  <2> QED BY <2>1, <2>2, <2>3
<1>13. NodesIntact'
  <2> SUFFICES ASSUME NEW i \in 1 .. Len(handed) + 1,
                      NEW k \in 1 .. Len(handed'[i].val)
               PROVE  heap'[handed'[i].arr][handed'[i].start + k]
                        = handed'[i].val[k]
    BY <1>6 DEF NodesIntact
  <2>1. CASE i = Len(handed) + 1
    BY <1>1, <1>2, <1>4, <1>6, <2>1
  <2>2. CASE i \in 1 .. Len(handed)
    <3>1. /\ k \in 1 .. Len(handed[i].val) /\ handed[i].val # <<>>
          /\ heap[handed[i].arr][handed[i].start + k] = handed[i].val[k]
      BY <1>6, <1>7, <2>2 DEF ArenaInv, NodesIntact
    <3>2. CASE handed[i].arr # a
      BY <1>4, <1>6, <1>7, <2>2, <3>1, <3>2
    <3>3. CASE handed[i].arr = a
      <4>1. handed[i].start + k \in 1 .. index
        <5>1. /\ handed[i].start \in Nat /\ Len(handed[i].val) \in Nat
              /\ handed[i].start + Len(handed[i].val) <= index
          BY <1>7, <2>2, <3>1, <3>3
        <5>2. k \in Nat /\ 1 <= k /\ k <= Len(handed[i].val)
          BY <3>1, <5>1
        <5>3. index \in Nat
          BY <1>1
        <5> QED BY <5>1, <5>2, <5>3, SMTT(30)
      <4> QED BY <1>2, <1>4, <1>6, <2>2, <3>1, <3>3, <4>1
    <3> QED BY <3>2, <3>3
  <2>3. Len(handed) \in Nat
    BY <1>1
  <2> QED BY <2>1, <2>2, <2>3
<1> QED BY <1>8, <1>9, <1>10, <1>11, <1>12, <1>13 DEF ArenaInv

\* newChunk stores in an array that nothing else is in.
LEMMA NewChunkKeepsInv ==
    ASSUME ArenaInv, NEW val \in Seq(Elem), val # <<>>,
           NEW n \in Nat, Len(val) <= n,
           newChunk(n, val)
    PROVE  ArenaInv'
<1> DEFINE new == [arr |-> Len(heap) + 1, start |-> 0, val |-> val]
           arr == filled(newArray(n), 0, val)
<1>1. /\ heap \in Seq(Seq(Elem \cup {Zero})) /\ Len(heap) \in Nat
      /\ handed \in Seq(Allocation) /\ Len(handed) \in Nat
      /\ Len(val) \in Nat \ {0} /\ val \in Seq(Elem \cup {Zero})
  BY DEF ArenaInv, ArenaTypeOK
<1>2. /\ newArray(n) \in Seq(Elem \cup {Zero}) /\ Len(newArray(n)) = n
  BY NewArray
<1>3. /\ arr \in Seq(Elem \cup {Zero})
      /\ Len(arr) = n
      /\ \A k \in 1 .. Len(val) : arr[0 + k] = val[k]
  BY <1>1, <1>2, FilledArray
<1> HIDE DEF arr
<1>4. /\ heap' = Append(heap, arr) /\ a' = Len(heap) + 1 /\ len' = n
      /\ index' = Len(val) /\ handed' = Append(handed, new)
  BY DEF newChunk, arr
<1>5. /\ heap' \in Seq(Seq(Elem \cup {Zero})) /\ Len(heap') = Len(heap) + 1
      /\ heap'[Len(heap) + 1] = arr
      /\ \A c \in 1 .. Len(heap) : heap'[c] = heap[c]
  BY <1>1, <1>3, <1>4
<1>6. new \in Allocation
  BY <1>1 DEF Allocation
<1>7. /\ handed' \in Seq(Allocation) /\ Len(handed') = Len(handed) + 1
      /\ handed'[Len(handed) + 1] = new
      /\ \A i \in 1 .. Len(handed) : handed'[i] = handed[i]
  BY <1>1, <1>4, <1>6
<1>8. \A i \in 1 .. Len(handed) :
        /\ handed[i].start \in Nat /\ Len(handed[i].val) \in Nat
        /\ handed[i].val \in Seq(Elem)
        /\ handed[i].val # <<>> =>
             /\ handed[i].arr \in 1 .. Len(heap)
             /\ handed[i].start + Len(handed[i].val)
                  <= Len(heap[handed[i].arr])
  BY Handed
<1>9. ArenaTypeOK'
  BY <1>1, <1>4, <1>5, <1>7 DEF ArenaTypeOK
<1>10. ChunkInUse'
  BY <1>1, <1>3, <1>4, <1>5 DEF ChunkInUse, Nil
<1>11. BehindIndex'
  BY <1>1, <1>4, <1>7, <1>8 DEF BehindIndex
<1>12. InBounds'
  <2> SUFFICES ASSUME NEW i \in 1 .. Len(handed) + 1, handed'[i].val # <<>>
               PROVE  /\ handed'[i].arr \in 1 .. Len(heap')
                      /\ handed'[i].start + Len(handed'[i].val)
                           <= Len(heap'[handed'[i].arr])
    BY <1>7 DEF InBounds
  <2>1. CASE i = Len(handed) + 1
    BY <1>1, <1>3, <1>5, <1>7, <2>1
  <2>2. CASE i \in 1 .. Len(handed)
    <3>1. /\ handed'[i] = handed[i] /\ handed[i].arr \in 1 .. Len(heap)
          /\ handed[i].start + Len(handed[i].val)
               <= Len(heap[handed[i].arr])
      BY <1>7, <1>8, <2>2
    <3>2. heap'[handed[i].arr] = heap[handed[i].arr]
      BY <1>5, <3>1
    <3>3. handed'[i].arr \in 1 .. Len(heap')
      BY <1>1, <1>5, <3>1
    <3> QED BY <3>1, <3>2, <3>3
  <2>3. Len(handed) \in Nat
    BY <1>1
  <2> QED BY <2>1, <2>2, <2>3
<1>13. NeverShared'
  <2> SUFFICES ASSUME NEW i \in 1 .. Len(handed) + 1,
                      NEW j \in 1 .. Len(handed) + 1,
                      i < j, handed'[i].val # <<>>, handed'[j].val # <<>>
               PROVE  \/ handed'[i].arr # handed'[j].arr
                      \/ handed'[i].start + Len(handed'[i].val)
                           <= handed'[j].start
                      \/ handed'[j].start + Len(handed'[j].val)
                           <= handed'[i].start
    BY <1>7 DEF NeverShared
  <2>1. CASE j \in 1 .. Len(handed)
    <3>1. i \in 1 .. Len(handed)
      BY <2>1
    <3>2. handed'[i] = handed[i] /\ handed'[j] = handed[j]
      BY <1>7, <2>1, <3>1
    <3> QED BY <2>1, <3>1, <3>2 DEF ArenaInv, NeverShared
  <2>2. CASE j = Len(handed) + 1
    <3>1. i \in 1 .. Len(handed) /\ handed'[i] = handed[i]
      BY <1>1, <1>7, <2>2
    <3>2. handed'[j].arr = Len(heap) + 1 /\ handed[i].arr \in 1 .. Len(heap)
      BY <1>7, <1>8, <2>2, <3>1
    <3> QED BY <1>1, <3>1, <3>2
  <2>3. Len(handed) \in Nat
    BY <1>1
  <2> QED BY <2>1, <2>2, <2>3
<1>14. NodesIntact'
  <2> SUFFICES ASSUME NEW i \in 1 .. Len(handed) + 1,
                      NEW k \in 1 .. Len(handed'[i].val)
               PROVE  heap'[handed'[i].arr][handed'[i].start + k]
                        = handed'[i].val[k]
    BY <1>7 DEF NodesIntact
  <2>1. CASE i = Len(handed) + 1
    BY <1>1, <1>3, <1>5, <1>7, <2>1
  <2>2. CASE i \in 1 .. Len(handed)
    <3>1. /\ k \in 1 .. Len(handed[i].val) /\ handed[i].val # <<>>
          /\ heap[handed[i].arr][handed[i].start + k] = handed[i].val[k]
      BY <1>7, <1>8, <2>2 DEF ArenaInv, NodesIntact
    <3> QED BY <1>5, <1>7, <1>8, <2>2, <3>1
  <2>3. Len(handed) \in Nat
    BY <1>1
  <2> QED BY <2>1, <2>2, <2>3
<1> QED BY <1>9, <1>10, <1>11, <1>12, <1>13, <1>14 DEF ArenaInv

\* make, on both of its paths.
LEMMA MakeKeepsInv ==
    ASSUME ArenaInv, len > 0, NEW node \in Elem, make(node)
    PROVE  ArenaInv'
<1>1. /\ <<node>> \in Seq(Elem) /\ <<node>> # <<>> /\ Len(<<node>>) = 1
      /\ len \in Nat /\ index \in Nat
  BY DEF ArenaInv, ArenaTypeOK
<1>2. CASE index = len
  <2>1. grown \in Nat /\ 1 <= grown /\ newChunk(grown, <<node>>)
    BY <1>1, <1>2 DEF make, grown
  <2> QED BY <1>1, <2>1, NewChunkKeepsInv
<1>3. CASE index # len
  <2>1. /\ a # Nil /\ index + 1 <= len /\ bump(<<node>>)
    BY <1>1, <1>3 DEF make, ArenaInv, ChunkInUse
  <2> QED BY <1>1, <2>1, BumpKeepsInv
<1> QED BY <1>2, <1>3

\* makeSlice: nothing is allocated for the empty list; a chunk is made where
\* the list does not fit.
LEMMA MakeSliceKeepsInv ==
    ASSUME ArenaInv, NEW list \in Seq(Elem), makeSlice(list)
    PROVE  ArenaInv'
<1>1. len \in Nat /\ index \in Nat /\ Len(list) \in Nat
  BY DEF ArenaInv, ArenaTypeOK
<1>2. CASE list = <<>>
  <2> DEFINE new == [arr |-> Nil, start |-> 0, val |-> list]
  <2>1. /\ handed' = Append(handed, new)
        /\ heap' = heap /\ a' = a /\ len' = len /\ index' = index
    BY <1>2 DEF makeSlice
  <2>2. new \in Allocation /\ handed \in Seq(Allocation)
    BY DEF Allocation, Nil, ArenaInv, ArenaTypeOK
  <2>3. /\ handed' \in Seq(Allocation) /\ Len(handed') = Len(handed) + 1
        /\ handed'[Len(handed) + 1].val = <<>>
        /\ \A i \in 1 .. Len(handed) : handed'[i] = handed[i]
    BY <1>2, <2>1, <2>2
  <2>4. \A i \in 1 .. Len(handed') :
           \/ handed'[i].val = <<>>
           \/ i \in 1 .. Len(handed) /\ handed'[i] = handed[i]
    BY <2>2, <2>3
  <2>5. ArenaTypeOK' /\ ChunkInUse'
    BY <2>1, <2>3 DEF ArenaInv, ArenaTypeOK, ChunkInUse
  <2>6. BehindIndex' /\ InBounds'
    BY <2>1, <2>4 DEF ArenaInv, BehindIndex, InBounds
  <2>7. NeverShared'
    <3> SUFFICES ASSUME NEW i \in 1 .. Len(handed'), NEW j \in 1 .. Len(handed'),
                        i < j, handed'[i].val # <<>>, handed'[j].val # <<>>
                 PROVE  \/ handed'[i].arr # handed'[j].arr
                        \/ handed'[i].start + Len(handed'[i].val)
                             <= handed'[j].start
                        \/ handed'[j].start + Len(handed'[j].val)
                             <= handed'[i].start
      BY DEF NeverShared
    <3>1. /\ i \in 1 .. Len(handed) /\ handed'[i] = handed[i]
          /\ j \in 1 .. Len(handed) /\ handed'[j] = handed[j]
      BY <2>4
    <3> QED BY <3>1 DEF ArenaInv, NeverShared
  <2>8. NodesIntact'
    BY <2>1, <2>4 DEF ArenaInv, NodesIntact
  <2> QED BY <2>5, <2>6, <2>7, <2>8 DEF ArenaInv
<1>3. CASE list # <<>> /\ index + Len(list) > len
  <2>1. newChunk(grownForSlice(Len(list)), list)
    BY <1>3 DEF makeSlice
  <2>2. /\ grownForSlice(Len(list)) \in Nat
        /\ Len(list) <= grownForSlice(Len(list))
    BY <1>1 DEF grownForSlice, grown
  <2> QED BY <1>3, <2>1, <2>2, NewChunkKeepsInv
<1>4. CASE list # <<>> /\ ~(index + Len(list) > len)
  <2>1. /\ bump(list) /\ index + Len(list) <= len /\ Len(list) > 0
    BY <1>1, <1>4 DEF makeSlice
  <2>2. a # Nil
    BY <1>1, <2>1 DEF ArenaInv, ChunkInUse
  <2> QED BY <1>4, <2>1, <2>2, BumpKeepsInv
<1> QED BY <1>2, <1>3, <1>4

\* Making an arena anew, or dropping it, touches no array; no allocation is in
\* array Nil.
LEMMA RenewalKeepsInv ==
    ASSUME ArenaInv, newArena \/ dropArena
    PROVE  ArenaInv'
<1>1. /\ heap' = heap /\ handed' = handed /\ a' = Nil
      /\ index' = len' /\ len' \in Nat
  BY ArenaAssumption DEF newArena, dropArena
<1>2. ArenaTypeOK' /\ ChunkInUse'
  BY <1>1 DEF ArenaInv, ArenaTypeOK, ChunkInUse, Nil
<1>3. InBounds' /\ NeverShared' /\ NodesIntact'
  BY <1>1 DEF ArenaInv, InBounds, NeverShared, NodesIntact
<1>4. BehindIndex'
  BY <1>1, <1>3 DEF BehindIndex, InBounds, Nil
<1> QED BY <1>2, <1>3, <1>4 DEF ArenaInv

\* The invariant of the arena, for every first chunk length and every sequence
\* of requests.
THEOREM ArenaInvariant == ArenaSpec => []ArenaInv
<1>1. ArenaInit => ArenaInv
  BY ArenaInitially
<1>2. ArenaInv /\ [ArenaNext]_arenaVars => ArenaInv'
  <2> SUFFICES ASSUME ArenaInv, [ArenaNext]_arenaVars PROVE ArenaInv'
    OBVIOUS
  <2>1. ASSUME len > 0, NEW node \in Elem, make(node) PROVE ArenaInv'
    BY <2>1, MakeKeepsInv
  <2>2. ASSUME NEW list \in Lists, makeSlice(list) PROVE ArenaInv'
    <3>1. list \in Seq(Elem)
      BY ArenaAssumption DEF Lists
    <3> QED BY <2>2, <3>1, MakeSliceKeepsInv
  <2>3. CASE newArena \/ dropArena
    BY <2>3, RenewalKeepsInv
  <2>4. CASE UNCHANGED arenaVars
    BY <2>4 DEF arenaVars, ArenaInv, ArenaTypeOK, ChunkInUse, BehindIndex,
                InBounds, NeverShared, NodesIntact
  <2> QED BY <2>1, <2>2, <2>3, <2>4 DEF ArenaNext
<1> QED BY <1>1, <1>2, PTL DEF ArenaSpec

\* arena.make and arena.makeSlice never return memory outside their chunk.
THEOREM ArenaInBounds == ArenaSpec => []InBounds
<1>1. ArenaInv => InBounds
  BY DEF ArenaInv
<1> QED BY <1>1, ArenaInvariant, PTL

\* No two nodes or lists of any tree overlap.
THEOREM ArenaNeverShares == ArenaSpec => []NeverShared
<1>1. ArenaInv => NeverShared
  BY DEF ArenaInv
<1> QED BY <1>1, ArenaInvariant, PTL

\* Nothing that was built is overwritten by what is built later.
THEOREM ArenaKeepsNodes == ArenaSpec => []NodesIntact
<1>1. ArenaInv => NodesIntact
  BY DEF ArenaInv
<1> QED BY <1>1, ArenaInvariant, PTL

-----------------------------------------------------------------------------
(* The scratch buffer *)

\* Replacing the top of a stack.
LEMMA ReplaceTop ==
    ASSUME NEW S, NEW s \in Seq(S), s # <<>>, NEW b \in S
    PROVE  /\ Append(Front(s), b) \in Seq(S)
           /\ Len(Append(Front(s), b)) = Len(s)
           /\ Append(Front(s), b)[Len(s)] = b
           /\ \A k \in 1 .. Len(s) : k < Len(s) => Append(Front(s), b)[k] = s[k]
<1>1. /\ Len(s) \in Nat \ {0}
      /\ Front(s) \in Seq(S)
      /\ Len(Front(s)) = Len(s) - 1
      /\ \A i \in 1 .. Len(s) - 1 : Front(s)[i] = s[i]
  BY FrontProperties
<1> DEFINE f == Front(s)
<1>2. /\ f \in Seq(S) /\ Len(f) = Len(s) - 1
      /\ \A i \in 1 .. Len(s) - 1 : f[i] = s[i]
  BY <1>1
<1> HIDE DEF f
<1>3. /\ Append(f, b) \in Seq(S)
      /\ Len(Append(f, b)) = Len(s)
      /\ Append(f, b)[Len(s)] = b
      /\ \A k \in 1 .. Len(s) : k < Len(s) => Append(f, b)[k] = s[k]
  BY <1>1, <1>2
<1> QED BY <1>3 DEF f

\* The elements of a slice between two positions.
LEMMA Cut ==
    ASSUME NEW S, NEW arr, NEW m \in Nat, NEW n \in Nat, m <= n,
           \A i \in 1 .. n : arr[i] \in S
    PROVE  /\ SubSeq(arr, m + 1, n) \in Seq(S)
           /\ Len(SubSeq(arr, m + 1, n)) = n - m
           /\ \A i \in 1 .. n - m : SubSeq(arr, m + 1, n)[i] = arr[m + i]
<1>1. m + 1 \in Int /\ n \in Int /\ \A i \in m + 1 .. n : arr[i] \in S
  OBVIOUS
<1>2. /\ SubSeq(arr, m + 1, n) \in Seq(S)
      /\ Len(SubSeq(arr, m + 1, n))
           = IF m + 1 <= n THEN n - (m + 1) + 1 ELSE 0
      /\ \A i \in 1 .. n - (m + 1) + 1 :
            SubSeq(arr, m + 1, n)[i] = arr[m + 1 + i - 1]
  BY <1>1, SubSeqProperties
<1>3. /\ (IF m + 1 <= n THEN n - (m + 1) + 1 ELSE 0) = n - m
      /\ n - (m + 1) + 1 = n - m
      /\ \A i \in 1 .. n - m : m + 1 + i - 1 = m + i
  OBVIOUS
<1> QED BY <1>2, <1>3

\* Slices that agree below a position agree between any two below it.
LEMMA SameCut ==
    ASSUME NEW S, NEW x, NEW y, NEW m \in Nat, NEW n \in Nat, m <= n,
           \A i \in 1 .. n : x[i] = y[i] /\ x[i] \in S
    PROVE  SubSeq(x, m + 1, n) = SubSeq(y, m + 1, n)
<1> DEFINE s == SubSeq(x, m + 1, n)
           t == SubSeq(y, m + 1, n)
<1>1. /\ s \in Seq(S) /\ Len(s) = n - m
      /\ \A i \in 1 .. n - m : s[i] = x[m + i]
  BY Cut
<1>2. /\ t \in Seq(S) /\ Len(t) = n - m
      /\ \A i \in 1 .. n - m : t[i] = y[m + i]
  BY Cut
<1> HIDE DEF s, t
<1>3. \A i \in 1 .. n - m : m + i \in 1 .. n
  OBVIOUS
<1>4. Len(s) = Len(t) /\ \A i \in 1 .. Len(s) : s[i] = t[i]
  BY <1>1, <1>2, <1>3
<1>5. s = t
  BY <1>1, <1>2, <1>4, SeqEqual
<1> QED BY <1>5 DEF s, t

\* What the invariant says, without its definitions.
LEMMA ScratchFacts ==
    ASSUME ScratchInv
    PROVE  /\ heap \in Seq(Seq(Elem \cup {Zero})) /\ Len(heap) \in Nat
           /\ a \in 0 .. Len(heap) /\ len \in Nat /\ index \in Nat
           /\ handed \in Seq(Allocation) /\ Len(handed) \in Nat
           /\ buf \in header /\ buf.arr \in Nat /\ buf.len \in Nat
           /\ builders \in Seq(builder) /\ Len(builders) \in Nat
           /\ builders = <<>> <=> Len(builders) = 0
           /\ added \in Nat
<1>1. /\ heap \in Seq(Seq(Elem \cup {Zero}))
      /\ a \in 0 .. Len(heap) /\ len \in Nat /\ index \in Nat
      /\ handed \in Seq(Allocation)
      /\ buf \in header /\ builders \in Seq(builder) /\ added \in Nat
  BY DEF ScratchInv, ScratchTypeOK, ArenaTypeOK
<1>2. Len(heap) \in Nat /\ Len(handed) \in Nat /\ Len(builders) \in Nat
  BY <1>1
<1>3. buf.arr \in Nat /\ buf.len \in Nat
  BY <1>1 DEF header
<1>4. builders = <<>> <=> Len(builders) = 0
  BY <1>1, EmptySeq
<1> QED BY <1>1, <1>2, <1>3, <1>4

\* What it says of a builder, and of where its part of the buffer ends.
LEMMA BuilderFacts ==
    ASSUME ScratchInv, NEW k \in 1 .. Len(builders)
    PROVE  /\ builders[k] \in builder
           /\ builders[k].mark \in Nat
           /\ builders[k].read \in header
           /\ upTo(k) \in Nat
           /\ builders[k].mark <= upTo(k)
           /\ upTo(k) <= buf.len
           /\ k < Len(builders) => upTo(k) <= builders[Len(builders)].mark
<1>1. /\ builders \in Seq(builder) /\ Len(builders) \in Nat
      /\ buf.len \in Nat
  BY ScratchFacts
<1>2. \A j \in 1 .. Len(builders) :
        /\ builders[j] \in builder
        /\ builders[j].mark \in Nat
        /\ builders[j].read \in header
        /\ builders[j].mark <= buf.len
        /\ \A i \in 1 .. j : builders[i].mark <= builders[j].mark
  <2>1. \A j \in 1 .. Len(builders) : builders[j] \in builder
    BY <1>1
  <2>2. \A j \in 1 .. Len(builders) :
          builders[j].mark \in Nat /\ builders[j].read \in header
    BY <2>1 DEF builder
  <2> QED BY <2>1, <2>2 DEF ScratchInv, PartsStacked
<1>3. CASE k = Len(builders)
  BY <1>1, <1>2, <1>3 DEF upTo
<1>4. CASE k # Len(builders)
  <2>1. /\ k \in 1 .. k + 1 /\ k + 1 \in 1 .. Len(builders)
        /\ k + 1 \in 1 .. Len(builders) /\ Len(builders) \in 1 .. Len(builders)
    BY <1>1, <1>4
  <2>2. upTo(k) = builders[k + 1].mark
    BY <1>4 DEF upTo
  <2> QED BY <1>2, <2>1, <2>2
<1> QED BY <1>3, <1>4

\* Arrays the arena does not use, and the tree is not in, may be written and
\* new ones made.
LEMMA OtherArrays ==
    ASSUME ArenaInv,
           heap' \in Seq(Seq(Elem \cup {Zero})), Len(heap) <= Len(heap'),
           \A c \in 1 .. Len(heap) : heap'[c] = heap[c] \/ ownArray(c),
           handed' = handed,
           \/ a' = a /\ len' = len /\ index' = index
           \/ a' = Nil /\ index' = len' /\ len' \in Nat
    PROVE  ArenaInv'
<1>1. /\ handed \in Seq(Allocation) /\ Len(heap) \in Nat /\ Len(heap') \in Nat
      /\ heap \in Seq(Seq(Elem \cup {Zero}))
      /\ a \in 0 .. Len(heap) /\ len \in Nat /\ index \in Nat
      /\ len = 0 => a = Nil
  BY DEF ArenaInv, ArenaTypeOK
<1>2. ArenaTypeOK'
  BY <1>1 DEF ArenaTypeOK, Nil
<1>3. a # Nil => heap'[a] = heap[a]
  BY <1>1 DEF ownArray, Nil
<1>4. ChunkInUse'
  BY <1>1, <1>3 DEF ArenaInv, ChunkInUse
<1>5. \A i \in 1 .. Len(handed) : handed[i].val # <<>> =>
          /\ handed[i].arr \in 1 .. Len(heap)
          /\ heap'[handed[i].arr] = heap[handed[i].arr]
  BY DEF ArenaInv, InBounds, ownArray
<1>6. InBounds'
  <2> SUFFICES ASSUME NEW i \in 1 .. Len(handed), handed[i].val # <<>>
               PROVE  /\ handed[i].arr \in 1 .. Len(heap')
                      /\ handed[i].start + Len(handed[i].val)
                           <= Len(heap'[handed[i].arr])
    BY DEF InBounds
  <2>1. handed[i].start + Len(handed[i].val) <= Len(heap[handed[i].arr])
    BY DEF ArenaInv, InBounds
  <2> QED BY <1>1, <1>5, <2>1
<1>7. BehindIndex'
  BY <1>5 DEF ArenaInv, BehindIndex, Nil
<1>8. NeverShared'
  BY DEF ArenaInv, NeverShared
<1>9. NodesIntact'
  <2> SUFFICES ASSUME NEW i \in 1 .. Len(handed),
                      NEW k \in 1 .. Len(handed[i].val)
               PROVE  heap'[handed[i].arr][handed[i].start + k]
                        = handed[i].val[k]
    BY DEF NodesIntact
  <2>1. handed[i].val # <<>>
    BY <1>1, Handed
  <2>2. heap[handed[i].arr][handed[i].start + k] = handed[i].val[k]
    BY DEF ArenaInv, NodesIntact
  <2> QED BY <1>5, <2>1, <2>2
<1> QED BY <1>2, <1>4, <1>6, <1>7, <1>8, <1>9 DEF ArenaInv

\* What makeSlice leaves as it was, and what it records.
LEMMA SliceFrame ==
    ASSUME ArenaInv, len > 0, NEW list \in Seq(Elem), makeSlice(list)
    PROVE  /\ len' > 0
           /\ handed' = Append(handed, handed'[Len(handed) + 1])
           /\ handed'[Len(handed) + 1].val = list
           /\ \A arr : ownArray(arr) =>
                 /\ heap'[arr] = heap[arr]
                 /\ arr \in 1 .. Len(heap')
                 /\ arr # a'
                 /\ handed'[Len(handed) + 1].val # <<>> =>
                        handed'[Len(handed) + 1].arr # arr
<1>1. /\ heap \in Seq(Seq(Elem \cup {Zero})) /\ Len(heap) \in Nat
      /\ handed \in Seq(Allocation) /\ Len(handed) \in Nat
      /\ len \in Nat /\ index \in Nat /\ Len(list) \in Nat
      /\ list # <<>> => Len(list) > 0
  BY EmptySeq DEF ArenaInv, ArenaTypeOK
<1>2. \A x : /\ handed' = Append(handed, x)
             => handed'[Len(handed) + 1] = x
  BY <1>1
<1>3. CASE list = <<>>
  <2>1. /\ handed' = Append(handed, [arr |-> Nil, start |-> 0, val |-> <<>>])
        /\ heap' = heap /\ a' = a /\ len' = len
    BY <1>3 DEF makeSlice
  <2>2. handed'[Len(handed) + 1] = [arr |-> Nil, start |-> 0, val |-> <<>>]
    BY <1>2, <2>1
  <2> QED BY <1>3, <2>1, <2>2 DEF ownArray
<1>4. CASE list # <<>> /\ index + Len(list) > len
  <2> DEFINE n == grownForSlice(Len(list))
             h == filled(newArray(n), 0, list)
  <2>1. n > 0
    BY <1>1, <1>4 DEF grownForSlice, grown
  <2>2. newChunk(n, list)
    BY <1>4 DEF makeSlice
  <2> HIDE DEF n
  <2>3. /\ handed' = Append(handed, [arr |-> Len(heap) + 1, start |-> 0,
                                     val |-> list])
        /\ heap' = Append(heap, h) /\ a' = Len(heap) + 1 /\ len' = n
    BY <2>2 DEF newChunk
  <2>4. handed'[Len(handed) + 1] = [arr |-> Len(heap) + 1, start |-> 0,
                                    val |-> list]
    BY <1>2, <2>3
  <2> HIDE DEF h
  <2>5. /\ Len(heap') = Len(heap) + 1
        /\ \A c \in 1 .. Len(heap) : heap'[c] = heap[c]
    BY <1>1, <2>3
  <2> QED BY <1>1, <2>1, <2>3, <2>4, <2>5 DEF ownArray
<1>5. CASE list # <<>> /\ ~(index + Len(list) > len)
  <2> DEFINE h == filled(heap[a], index, list)
  <2>1. bump(list)
    BY <1>5 DEF makeSlice
  <2>2. /\ handed' = Append(handed, [arr |-> a, start |-> index,
                                     val |-> list])
        /\ heap' = [heap EXCEPT ![a] = h] /\ a' = a /\ len' = len
    BY <2>1 DEF bump
  <2>3. handed'[Len(handed) + 1] = [arr |-> a, start |-> index, val |-> list]
    BY <1>2, <2>2
  <2> HIDE DEF h
  <2>4. /\ Len(heap') = Len(heap)
        /\ \A c \in 1 .. Len(heap) : c # a => heap'[c] = heap[c]
    BY <1>1, <2>2
  <2> QED BY <2>2, <2>3, <2>4 DEF ownArray
<1> QED BY <1>3, <1>4, <1>5

-----------------------------------------------------------------------------

\* No buffer, no builder, an arena without a chunk.
LEMMA ScratchInitially == Init => ScratchInv
<1> SUFFICES ASSUME Init PROVE ScratchInv
  OBVIOUS
<1>1. ArenaInit /\ buf = [arr |-> Nil, len |-> 0] /\ builders = <<>>
      /\ parsing = FALSE /\ added = 0
  BY DEF Init
<1>2. ArenaInv
  BY <1>1, ArenaInitially
<1>3. ScratchTypeOK
  <2>1. buf \in header /\ builders \in Seq(builder) /\ added \in Nat
    BY <1>1 DEF header, Nil
  <2>2. parsing \in BOOLEAN /\ ~parsing /\ ArenaTypeOK
    BY <1>1, <1>2 DEF ArenaInv
  <2> QED BY <2>1, <2>2 DEF ScratchTypeOK
<1>4. BufferHoldsElements /\ OneAtWork /\ PartsStacked /\ EarlyReads
      /\ NumbersLeft
  BY <1>1 DEF BufferHoldsElements, OneAtWork, PartsStacked, EarlyReads,
              NumbersLeft, between
<1> QED BY <1>2, <1>3, <1>4 DEF ScratchInv

\* A parser from the pool has an empty buffer left over, or gets a new one.
LEMMA GetParserKeepsInv ==
    ASSUME ScratchInv, getParser
    PROVE  ScratchInv'
<1>1. /\ heap \in Seq(Seq(Elem \cup {Zero})) /\ Len(heap) \in Nat
      /\ handed \in Seq(Allocation) /\ builders \in Seq(builder)
      /\ buf \in header /\ added \in Nat
  BY ScratchFacts
<1>2. builders = <<>> /\ buf.len = 0 /\ builders' = <<>>
      /\ parsing' = TRUE /\ added' = added
      /\ startLen \in Nat \ {0} /\ ArenaInv
  BY ArenaAssumption DEF getParser, ScratchInv, OneAtWork, PartsStacked
<1>3. /\ ArenaInv'
      /\ len' = startLen
      /\ buf' \in header
      /\ buf'.arr # Nil
      /\ BufferHoldsElements'
      /\ buf'.len = 0
  <2>1. CASE buf.arr # Nil /\ newArena /\ UNCHANGED buf
    <3>1. ArenaInv' /\ heap' = heap /\ a' = Nil /\ handed' = handed
          /\ len' = startLen /\ buf' = buf
      BY <1>2, <2>1, RenewalKeepsInv DEF newArena
    <3>2. BufferHoldsElements'
      BY <1>1, <1>2, <2>1, <3>1
         DEF ScratchInv, BufferHoldsElements, elements, ownArray, Nil
    <3> QED BY <1>1, <1>2, <2>1, <3>1, <3>2
  <2>2. CASE /\ heap' = Append(heap, newArray(bufCap))
             /\ buf' = [arr |-> Len(heap) + 1, len |-> 0]
             /\ a' = Nil /\ len' = startLen /\ index' = startLen
             /\ UNCHANGED handed
    <3> DEFINE new == newArray(bufCap)
    <3>1. new \in Seq(Elem \cup {Zero}) /\ Len(new) = bufCap
      BY BufferAssumption, NewArray
    <3>2. heap' = Append(heap, new)
      BY <2>2
    <3> HIDE DEF new
    <3>3. /\ heap' \in Seq(Seq(Elem \cup {Zero}))
          /\ Len(heap') = Len(heap) + 1
          /\ heap'[Len(heap) + 1] = new
          /\ \A c \in 1 .. Len(heap) : heap'[c] = heap[c]
      BY <1>1, <3>1, <3>2
    <3>4. ArenaInv'
      BY <1>1, <1>2, <2>2, <3>3, OtherArrays
    <3>5. \A i \in 1 .. Len(handed) :
             handed[i].val # <<>> => handed[i].arr # Len(heap) + 1
      BY <1>1, <1>2 DEF ArenaInv, InBounds
    <3>6. buf'.arr = Len(heap) + 1 /\ buf'.len = 0 /\ buf' \in header
      BY <1>1, <2>2 DEF header
    <3>7. elements(buf)'
      BY <1>1, <2>2, <3>1, <3>3, <3>5, <3>6, BufferAssumption
         DEF elements, ownArray, Nil
    <3>8. buf'.arr # Nil
      BY <1>1, <3>6 DEF Nil
    <3> QED BY <2>2, <3>4, <3>6, <3>7, <3>8 DEF BufferHoldsElements
  <2> QED BY <2>1, <2>2 DEF getParser
<1>4. ScratchTypeOK'
  BY <1>1, <1>2, <1>3 DEF ScratchTypeOK, ArenaInv
<1>5. OneAtWork' /\ PartsStacked' /\ EarlyReads' /\ NumbersLeft'
  BY <1>2, <1>3 DEF OneAtWork, PartsStacked, EarlyReads, NumbersLeft, between
<1> QED BY <1>3, <1>4, <1>5 DEF ScratchInv

\* The parser goes back with its buffer empty, and the arena stays behind.
LEMMA PutParserKeepsInv ==
    ASSUME ScratchInv, putParser
    PROVE  ScratchInv'
<1>1. /\ builders \in Seq(builder) /\ buf \in header /\ added \in Nat
  BY ScratchFacts
<1>2. /\ builders = <<>> /\ buf.len = 0 /\ builders' = builders
      /\ parsing' = FALSE /\ added' = added /\ ArenaInv
      /\ buf' = [buf EXCEPT !.len = 0] /\ dropArena
  BY DEF putParser, ScratchInv, PartsStacked
<1>3. buf' = buf
  BY <1>1, <1>2 DEF header
<1>4. ArenaInv' /\ heap' = heap /\ a' = Nil /\ handed' = handed
  BY <1>2, RenewalKeepsInv DEF dropArena
<1>5. BufferHoldsElements'
  BY <1>1, <1>2, <1>3, <1>4
     DEF ScratchInv, BufferHoldsElements, elements, ownArray, Nil
<1>6. ScratchTypeOK'
  BY <1>1, <1>2, <1>3, <1>4 DEF ScratchTypeOK, ArenaInv
<1>7. OneAtWork' /\ PartsStacked' /\ EarlyReads' /\ NumbersLeft'
  BY <1>2, <1>3 DEF OneAtWork, PartsStacked, EarlyReads, NumbersLeft, between
<1> QED BY <1>4, <1>5, <1>6, <1>7 DEF ScratchInv

\* A builder that starts has an empty part on top of the others.
LEMMA MarkKeepsInv ==
    ASSUME ScratchInv, Mark
    PROVE  ScratchInv'
<1> DEFINE n == Len(builders)
           b == [mark |-> buf.len, at |-> "between", read |-> buf]
<1>1. /\ builders \in Seq(builder) /\ n \in Nat
      /\ builders = <<>> <=> n = 0
      /\ buf \in header /\ buf.len \in Nat /\ added \in Nat
  BY ScratchFacts
<1>2. /\ parsing /\ ~between /\ builders' = Append(builders, b)
      /\ UNCHANGED <<heap, a, len, index, handed, buf, parsing, added>>
  BY DEF Mark, arenaVars
<1>3. b \in builder
  BY <1>1 DEF builder
<1>4. /\ builders' \in Seq(builder) /\ Len(builders') = n + 1
      /\ builders'[n + 1] = b /\ builders' # <<>>
      /\ \A k \in 1 .. n : builders'[k] = builders[k]
  BY <1>1, <1>2, <1>3
<1>5. /\ b.mark = buf.len /\ b.at = "between"
  OBVIOUS
<1> HIDE DEF b
<1>6. ScratchTypeOK' /\ ArenaInv' /\ BufferHoldsElements'
  <2>1. ScratchTypeOK'
    BY <1>2, <1>4 DEF ScratchInv, ScratchTypeOK, ArenaTypeOK
  <2>2. ArenaInv'
    BY <1>2 DEF ScratchInv, ArenaInv, ArenaTypeOK, ChunkInUse, BehindIndex,
                InBounds, NeverShared, NodesIntact
  <2>3. BufferHoldsElements'
    BY <1>2 DEF ScratchInv, BufferHoldsElements, elements, ownArray
  <2> QED BY <2>1, <2>2, <2>3
<1>7. builders # <<>> => builders[n].at # "between"
  BY <1>1, <1>2 DEF between, top, Last
<1>8. OneAtWork'
  <2>1. \A k \in 1 .. n : builders'[k].at # "between"
    BY <1>1, <1>4, <1>7 DEF ScratchInv, OneAtWork, waiting
  <2> QED BY <1>1, <1>2, <1>4, <2>1 DEF ScratchInv, OneAtWork, waiting
<1>9. PartsStacked'
  <2>1. \A k \in 1 .. n :
           /\ builders[k].mark <= buf.len
           /\ \A j \in 1 .. k : builders[j].mark <= builders[k].mark
    BY DEF ScratchInv, PartsStacked
  <2>2. builders'[1].mark = 0
    BY <1>1, <1>4, <1>5 DEF ScratchInv, PartsStacked
  <2>3. ASSUME NEW k \in 1 .. n + 1
        PROVE  /\ builders'[k].mark <= buf.len
               /\ \A j \in 1 .. k : builders'[j].mark <= builders'[k].mark
    BY <1>1, <1>4, <1>5, <2>1
  <2> QED BY <1>2, <1>4, <2>2, <2>3 DEF PartsStacked
<1>10. EarlyReads'
  <2> SUFFICES ASSUME NEW k \in 1 .. n + 1, builders'[k].at = "early"
               PROVE  /\ elements(builders[k].read)'
                      /\ builders'[k].read.len = upTo(k)'
                      /\ \A i \in 1 .. builders'[k].read.len :
                            heap'[builders'[k].read.arr][i] = heap'[buf'.arr][i]
    BY <1>4 DEF EarlyReads
  <2>1. k \in 1 .. n /\ builders'[k] = builders[k]
    BY <1>1, <1>4, <1>5
  <2>2. upTo(k)' = upTo(k)
    BY <1>1, <1>2, <1>4, <1>5, <2>1 DEF upTo
  <2>3. elements(builders[k].read)'
    BY <1>2, <2>1 DEF ScratchInv, EarlyReads, elements, ownArray
  <2> QED BY <1>2, <2>1, <2>2, <2>3 DEF ScratchInv, EarlyReads
<1>11. NumbersLeft'
  <2>1. Last(builders') = b
    BY <1>4 DEF Last
  <2>2. between'
    BY <1>4, <1>5, <2>1 DEF between, top
  <2>3. n + 1 > 1 => added + n \in Elem
    BY <1>1, <1>2 DEF ScratchInv, NumbersLeft
  <2> QED BY <1>1, <1>2, <1>4, <2>2, <2>3 DEF NumbersLeft
<1> QED BY <1>6, <1>8, <1>9, <1>10, <1>11 DEF ScratchInv

\* Going to parse an element: the header read early is that of the buffer.
LEMMA ParseElementKeepsInv ==
    ASSUME ScratchInv, ParseElement
    PROVE  ScratchInv'
<1> DEFINE n == Len(builders)
<1>1. /\ builders \in Seq(builder) /\ n \in Nat
      /\ builders = <<>> <=> n = 0
      /\ buf \in header /\ buf.len \in Nat /\ added \in Nat
  BY ScratchFacts
<1>2. PICK at \in {"early", "late"} :
        setTop([top EXCEPT !.at = at, !.read = buf])
  BY DEF ParseElement
<1>3. /\ between /\ added + n \in Elem
      /\ UNCHANGED <<heap, a, len, index, handed, buf, parsing, added>>
  BY DEF ParseElement, arenaVars
<1> DEFINE b == [top EXCEPT !.at = at, !.read = buf]
<1>4. builders # <<>> /\ n \in 1 .. n /\ top = builders[n]
      /\ top \in builder
  BY <1>1, <1>3 DEF between, top, Last
<1>5. /\ b \in builder /\ b.mark = builders[n].mark /\ b.at = at
      /\ b.read = buf
  BY <1>1, <1>4 DEF builder
<1>6. builders' = Append(Front(builders), b)
  BY <1>2 DEF setTop
<1> HIDE DEF b
<1>7. /\ builders' \in Seq(builder) /\ Len(builders') = n
      /\ builders'[n] = b
      /\ \A k \in 1 .. n : k < n => builders'[k] = builders[k]
  BY <1>1, <1>4, <1>5, <1>6, ReplaceTop
<1>8. /\ \A k \in 1 .. n : builders'[k].mark = builders[k].mark
      /\ builders' # <<>>
  BY <1>1, <1>4, <1>5, <1>7
<1>9. ScratchTypeOK' /\ ArenaInv' /\ BufferHoldsElements'
  <2>1. ScratchTypeOK'
    BY <1>3, <1>7 DEF ScratchInv, ScratchTypeOK, ArenaTypeOK
  <2>2. ArenaInv'
    BY <1>3 DEF ScratchInv, ArenaInv, ArenaTypeOK, ChunkInUse, BehindIndex,
                InBounds, NeverShared, NodesIntact
  <2>3. BufferHoldsElements'
    BY <1>3 DEF ScratchInv, BufferHoldsElements, elements, ownArray
  <2> QED BY <2>1, <2>2, <2>3
<1>10. OneAtWork'
  BY <1>3, <1>4, <1>7 DEF ScratchInv, OneAtWork, waiting
<1>11. PartsStacked'
  <2>1. 1 \in 1 .. n /\ \A k \in 1 .. n : 1 .. k \subseteq 1 .. n
    BY <1>1, <1>4
  <2> QED BY <1>1, <1>3, <1>4, <1>7, <1>8, <2>1 DEF ScratchInv, PartsStacked
<1>12. EarlyReads'
  <2> SUFFICES ASSUME NEW k \in 1 .. n, builders'[k].at = "early"
               PROVE  /\ elements(builders[k].read)'
                      /\ builders'[k].read.len = upTo(k)'
                      /\ \A i \in 1 .. builders'[k].read.len :
                            heap'[builders'[k].read.arr][i] = heap'[buf'.arr][i]
    BY <1>7 DEF EarlyReads
  <2>1. upTo(k)' = upTo(k)
    BY <1>1, <1>3, <1>7, <1>8 DEF upTo
  <2>2. CASE k = n
    <3>1. builders'[k].read = buf /\ upTo(k) = buf.len
      BY <1>5, <1>7, <2>2 DEF upTo
    <3>2. elements(buf)
      BY <1>3, <1>4 DEF ScratchInv, BufferHoldsElements, OneAtWork
    <3>3. elements(builders[k].read)'
      BY <1>3, <3>1, <3>2 DEF elements, ownArray
    <3> QED BY <1>3, <2>1, <3>1, <3>3
  <2>3. CASE k < n
    <3>1. builders'[k] = builders[k]
      BY <1>7, <2>3
    <3>2. elements(builders[k].read)'
      BY <1>3, <3>1 DEF ScratchInv, EarlyReads, elements, ownArray
    <3> QED BY <1>3, <2>1, <3>1, <3>2 DEF ScratchInv, EarlyReads
  <2> QED BY <1>1, <2>2, <2>3
<1>13. NumbersLeft'
  <2>1. Last(builders') = b
    BY <1>7 DEF Last
  <2>2. ~between'
    BY <1>2, <1>5, <2>1 DEF between, top
  <2> QED BY <1>1, <1>3, <1>7, <2>2 DEF NumbersLeft
<1> QED BY <1>9, <1>10, <1>11, <1>12, <1>13 DEF ScratchInv

\* A builder that ends takes its part off the buffer, whatever it did to the
\* arena before.
LEMMA PopKeepsInv ==
    ASSUME ScratchInv, between,
           ArenaInv', len' > 0,
           \A arr : ownArray(arr) =>
              /\ heap'[arr] = heap[arr]
              /\ arr \in 1 .. Len(heap')
              /\ arr # a'
              /\ \A i \in 1 .. Len(handed') :
                    handed'[i].val # <<>> => handed'[i].arr # arr,
           buf' = [buf EXCEPT !.len = top.mark],
           builders' = Front(builders),
           UNCHANGED <<parsing, added>>
    PROVE  ScratchInv'
<1> DEFINE n == Len(builders)
<1>1. /\ builders \in Seq(builder) /\ n \in Nat
      /\ buf \in header /\ buf.arr \in Nat /\ buf.len \in Nat
      /\ added \in Nat
  BY ScratchFacts
<1>2. builders # <<>> /\ n \in 1 .. n /\ top = builders[n] /\ n # 0
  BY <1>1 DEF between, top, Last
<1>3. /\ builders' \in Seq(builder) /\ Len(builders') = n - 1
      /\ \A k \in 1 .. n - 1 : builders'[k] = builders[k]
      /\ builders' = <<>> <=> n = 1
  <2>1. /\ builders' \in Seq(builder) /\ Len(builders') = n - 1
        /\ \A k \in 1 .. n - 1 : builders'[k] = builders[k]
    BY <1>1, <1>2, FrontProperties
  <2>2. builders' = <<>> <=> Len(builders') = 0
    BY <2>1, EmptySeq
  <2> QED BY <1>1, <2>1, <2>2
<1>4. /\ builders[n].mark \in Nat /\ builders[n].mark <= buf.len
      /\ \A k \in 1 .. n : builders[k].mark <= builders[n].mark
  <2>1. builders[n].mark \in Nat
    BY <1>2, BuilderFacts
  <2> QED BY <1>2, <2>1 DEF ScratchInv, PartsStacked
<1>5. buf' = [arr |-> buf.arr, len |-> builders[n].mark] /\ buf' \in header
  BY <1>1, <1>2, <1>4 DEF header
<1>6. parsing /\ parsing' /\ added' = added /\ buf.arr # Nil
  BY <1>2 DEF ScratchInv, OneAtWork
<1>7. ScratchTypeOK'
  BY <1>1, <1>3, <1>5 DEF ScratchInv, ScratchTypeOK, ArenaInv
<1>8. elements(buf)
  BY <1>6 DEF ScratchInv, BufferHoldsElements
<1>9. heap'[buf.arr] = heap[buf.arr]
  BY <1>8 DEF elements
<1>10. BufferHoldsElements'
  <2>1. elements(buf)'
    <3>1. ownArray(buf.arr) /\ buf'.arr = buf.arr
      BY <1>5, <1>8 DEF elements
    <3>2. ownArray(buf.arr)'
      BY <3>1 DEF ownArray
    <3>3. Len(heap[buf.arr]) \in Nat
      BY <3>1, ScratchFacts DEF ownArray
    <3>4. /\ buf'.len <= Len(heap[buf.arr])
          /\ \A i \in 1 .. buf'.len : heap[buf.arr][i] \in Elem
      BY <1>1, <1>4, <1>5, <1>8, <3>3 DEF elements
    <3> QED BY <1>9, <3>1, <3>2, <3>4 DEF elements
  <2> QED BY <1>5, <1>6, <2>1 DEF BufferHoldsElements
<1>11. OneAtWork'
  <2>1. \A k \in 1 .. n - 1 : waiting(k)
    BY <1>1, <1>2 DEF ScratchInv, OneAtWork
  <2> QED BY <1>1, <1>3, <1>5, <1>6, <2>1 DEF OneAtWork, waiting
<1>12. PartsStacked'
  <2>1. /\ n = 1 => buf'.len = 0
        /\ n # 1 => builders'[1].mark = 0
    BY <1>1, <1>2, <1>3, <1>5 DEF ScratchInv, PartsStacked
  <2>2. \A k \in 1 .. n - 1 :
          /\ builders'[k].mark <= buf'.len
          /\ \A j \in 1 .. k : builders'[j].mark <= builders'[k].mark
    <3> SUFFICES ASSUME NEW k \in 1 .. n - 1
                 PROVE  /\ builders'[k].mark <= buf'.len
                        /\ \A j \in 1 .. k :
                              builders'[j].mark <= builders'[k].mark
      OBVIOUS
    <3>1. k \in 1 .. n /\ \A j \in 1 .. k : j \in 1 .. n - 1
      BY <1>1
    <3>2. builders[k].mark <= builders[n].mark
      BY <1>4, <3>1
    <3>3. \A j \in 1 .. k : builders[j].mark <= builders[k].mark
      BY <3>1 DEF ScratchInv, PartsStacked
    <3> QED BY <1>3, <1>5, <3>1, <3>2, <3>3
  <2> QED BY <1>3, <2>1, <2>2 DEF PartsStacked
<1>13. EarlyReads'
  <2> SUFFICES ASSUME NEW k \in 1 .. n - 1, builders'[k].at = "early"
               PROVE  /\ elements(builders[k].read)'
                      /\ builders'[k].read.len = upTo(k)'
                      /\ \A i \in 1 .. builders'[k].read.len :
                            heap'[builders'[k].read.arr][i] = heap'[buf'.arr][i]
    BY <1>3 DEF EarlyReads
  <2>1. k \in 1 .. n /\ k < n /\ builders'[k] = builders[k]
    BY <1>1, <1>3
  <2>2. upTo(k)' = upTo(k)
    <3>1. CASE k = n - 1
      <4>1. upTo(k)' = builders[n].mark
        BY <1>3, <1>5, <3>1 DEF upTo
      <4>2. upTo(k) = builders[k + 1].mark /\ k + 1 = n
        BY <1>1, <2>1, <3>1 DEF upTo
      <4> QED BY <4>1, <4>2
    <3>2. CASE k # n - 1
      <4>1. k + 1 \in 1 .. n - 1
        BY <1>1, <3>2
      <4> QED BY <1>3, <2>1, <3>2, <4>1 DEF upTo
    <3> QED BY <3>1, <3>2
  <2>3. /\ elements(builders[k].read)
        /\ builders[k].read.len = upTo(k)
        /\ \A i \in 1 .. builders[k].read.len :
              heap[builders[k].read.arr][i] = heap[buf.arr][i]
    BY <2>1 DEF ScratchInv, EarlyReads
  <2>4. ownArray(builders[k].read.arr)
    BY <2>3 DEF elements
  <2>5. heap'[builders[k].read.arr] = heap[builders[k].read.arr]
    BY <2>4
  <2>6. elements(builders[k].read)'
    BY <2>1, <2>3, <2>4, <2>5 DEF elements, ownArray
  <2> QED BY <1>5, <1>9, <2>1, <2>2, <2>3, <2>5, <2>6
<1>14. NumbersLeft'
  <2>1. n > 1 => added + n - 1 \in Elem
    BY DEF ScratchInv, NumbersLeft
  <2>2. builders' # <<>> => ~between'
    <3> SUFFICES ASSUME builders' # <<>> PROVE builders'[n - 1].at # "between"
      BY <1>3 DEF between, top, Last
    <3>1. n - 1 \in 1 .. n - 1 /\ n - 1 \in 1 .. n /\ n - 1 < n
      BY <1>1, <1>2, <1>3
    <3> QED BY <1>3, <3>1 DEF ScratchInv, OneAtWork, waiting
  <2>3. builders' # <<>> => added' + Len(builders') \in Elem
    <3>1. n # 1 => n > 1
      <4>1. n \in Nat /\ n # 0
        BY <1>1, <1>2
      <4> HIDE DEF n
      <4> QED BY <4>1
    <3>2. added + (n - 1) = (added + n) - 1
      BY <1>1
    <3>3. n > 1 => (added + n) - 1 \in Elem
      BY <1>1, <2>1, <3>2
    <3> QED BY <1>3, <1>6, <3>1, <3>2, <3>3
  <2>4. between' => builders' # <<>>
    BY DEF between
  <2> QED BY <2>2, <2>3, <2>4 DEF NumbersLeft
<1> QED BY <1>7, <1>10, <1>11, <1>12, <1>13, <1>14 DEF ScratchInv

\* Giving a list up.
LEMMA DropListKeepsInv ==
    ASSUME ScratchInv, DropList
    PROVE  ScratchInv'
<1>1. /\ between /\ buf' = [buf EXCEPT !.len = top.mark]
      /\ builders' = Front(builders)
      /\ UNCHANGED <<heap, a, len, index, handed, parsing, added>>
  BY DEF DropList, arenaVars
<1>2. ArenaInv'
  BY <1>1 DEF ScratchInv, ArenaInv, ArenaTypeOK, ChunkInUse, BehindIndex,
              InBounds, NeverShared, NodesIntact
<1>3. len' > 0
  BY <1>1 DEF ScratchInv, ScratchTypeOK, OneAtWork, between
<1> QED BY <1>1, <1>2, <1>3, PopKeepsInv DEF ownArray

\* The part of the innermost builder.
LEMMA TopPart ==
    ASSUME ScratchInv, between
    PROVE  /\ above(top.mark) \in Seq(Elem)
           /\ top = builders[Len(builders)] /\ Len(builders) # 0
           /\ above(top.mark) = openLists[Len(builders)]
<1> DEFINE n == Len(builders)
<1>1. builders \in Seq(builder) /\ n \in Nat /\ buf.len \in Nat
  BY ScratchFacts
<1>2. builders # <<>> /\ n \in 1 .. n /\ top = builders[n] /\ n # 0
  BY <1>1 DEF between, top, Last
<1>3. builders[n].mark \in Nat /\ builders[n].mark <= upTo(n)
  BY <1>2, BuilderFacts
<1>4. upTo(n) = buf.len
  BY DEF upTo
<1>5. \A i \in 1 .. buf.len : heap[buf.arr][i] \in Elem
  BY <1>2 DEF ScratchInv, OneAtWork, BufferHoldsElements, elements
<1>6. SubSeq(heap[buf.arr], builders[n].mark + 1, buf.len) \in Seq(Elem)
  BY <1>1, <1>3, <1>4, <1>5, Cut
<1> QED BY <1>2, <1>4, <1>6 DEF above, openLists

\* Finishing a list: the copy goes to the arena, never into the buffer.
LEMMA FinishBufKeepsInv ==
    ASSUME ScratchInv, finishBuf
    PROVE  ScratchInv'
<1>1. /\ between /\ makeSlice(above(top.mark))
      /\ buf' = [buf EXCEPT !.len = top.mark]
      /\ builders' = Front(builders)
      /\ UNCHANGED <<parsing, added>>
  BY DEF finishBuf
<1>2. above(top.mark) \in Seq(Elem)
  BY <1>1, TopPart
<1>3. ArenaInv /\ len > 0
  BY <1>1 DEF ScratchInv, ScratchTypeOK, OneAtWork, between
<1> DEFINE list == above(top.mark)
<1> HIDE DEF list
<1>4. makeSlice(list) /\ list \in Seq(Elem)
  BY <1>1, <1>2 DEF list
<1>5. ArenaInv'
  BY <1>3, <1>4, MakeSliceKeepsInv
<1>6. /\ len' > 0
      /\ handed' = Append(handed, handed'[Len(handed) + 1])
      /\ \A arr : ownArray(arr) =>
            /\ heap'[arr] = heap[arr]
            /\ arr \in 1 .. Len(heap')
            /\ arr # a'
            /\ handed'[Len(handed) + 1].val # <<>> =>
                   handed'[Len(handed) + 1].arr # arr
  BY <1>3, <1>4, SliceFrame
<1>7. /\ Len(handed) \in Nat /\ Len(handed') = Len(handed) + 1
      /\ \A i \in 1 .. Len(handed) : handed'[i] = handed[i]
  <2>1. handed \in Seq(Allocation) /\ Len(handed) \in Nat
    BY ScratchFacts
  <2>2. \A x : /\ Len(Append(handed, x)) = Len(handed) + 1
               /\ \A i \in 1 .. Len(handed) : Append(handed, x)[i] = handed[i]
    BY <2>1
  <2> QED BY <1>6, <2>1, <2>2
<1>8. \A arr : ownArray(arr) =>
        \A i \in 1 .. Len(handed') :
           handed'[i].val # <<>> => handed'[i].arr # arr
  <2> SUFFICES ASSUME NEW arr, ownArray(arr), NEW i \in 1 .. Len(handed'),
                      handed'[i].val # <<>>
               PROVE  handed'[i].arr # arr
    OBVIOUS
  <2>1. CASE i = Len(handed) + 1
    BY <1>6, <2>1
  <2>2. CASE i # Len(handed) + 1
    BY <1>7, <2>2 DEF ownArray
  <2> QED BY <2>1, <2>2
<1> QED BY <1>1, <1>5, <1>6, <1>8, PopKeepsInv

\* The header that append works on, whenever it was read: it has the length of
\* the buffer and the elements of the buffer.
source == IF top.at = "early" THEN top.read ELSE buf

LEMMA SourceFacts ==
    ASSUME ScratchInv, builders # <<>>
    PROVE  /\ source \in header
           /\ elements(source)
           /\ source.len = buf.len
           /\ \A i \in 1 .. buf.len : heap[source.arr][i] = heap[buf.arr][i]
<1> DEFINE n == Len(builders)
<1>1. /\ builders \in Seq(builder) /\ n \in Nat
      /\ buf \in header /\ buf.len \in Nat
      /\ builders = <<>> <=> n = 0
  BY ScratchFacts
<1>2. n \in 1 .. n /\ top = builders[n]
  BY <1>1 DEF top, Last
<1>3. CASE top.at = "early"
  <2>1. source = builders[n].read
    BY <1>2, <1>3 DEF source
  <2>2. upTo(n) = buf.len
    BY DEF upTo
  <2>3. builders[n].read \in header
    BY <1>2, BuilderFacts
  <2> QED BY <1>2, <1>3, <2>1, <2>2, <2>3 DEF ScratchInv, EarlyReads
<1>4. CASE top.at # "early"
  <2>1. source = buf
    BY <1>4 DEF source
  <2>2. elements(buf)
    BY DEF ScratchInv, OneAtWork, BufferHoldsElements
  <2> QED BY <1>1, <2>1, <2>2
<1> QED BY <1>3, <1>4

\* What append does to the arrays: the buffer has the element on top of what it
\* held, and no array of the buffer's, former ones included, has changed up to
\* the length the buffer had.
LEMMA AppendedArrays ==
    ASSUME ScratchInv, AppendElement
    PROVE  /\ heap' \in Seq(Seq(Elem \cup {Zero}))
           /\ Len(heap) <= Len(heap')
           /\ \A c \in 1 .. Len(heap) : heap'[c] = heap[c] \/ ownArray(c)
           /\ \A c \in 1 .. Len(heap) :
                 /\ Len(heap'[c]) = Len(heap[c])
                 /\ \A i \in 1 .. buf.len : heap'[c][i] = heap[c][i]
           /\ buf' \in header
           /\ buf'.len = buf.len + 1
           /\ ownArray(buf.arr)'
           /\ buf'.len <= Len(heap'[buf'.arr])
           /\ \A i \in 1 .. buf.len : heap'[buf'.arr][i] = heap[buf.arr][i]
           /\ heap'[buf'.arr][buf.len + 1] = added + 1
           /\ added + 1 \in Elem
<1> DEFINE e == added + 1
<1>1. /\ heap \in Seq(Seq(Elem \cup {Zero})) /\ Len(heap) \in Nat
      /\ a \in 0 .. Len(heap)
      /\ handed \in Seq(Allocation) /\ buf.len \in Nat /\ buf.arr \in Nat
      /\ builders \in Seq(builder) /\ Len(builders) \in Nat
      /\ builders = <<>> <=> Len(builders) = 0
      /\ added \in Nat
  BY ScratchFacts
<1>2. builders # <<>> /\ ~between /\ UNCHANGED <<a, handed>>
  BY DEF AppendElement
<1>3. e \in Elem
  <2>1. added + Len(builders) \in Elem
    BY <1>2 DEF ScratchInv, NumbersLeft
  <2>2. /\ added + Len(builders) \in Nat /\ 1 <= Len(builders)
    BY <1>1, <1>2
  <2>3. added + 1 \in 1 .. added + Len(builders)
    BY <1>1, <2>2
  <2> QED BY <2>1, <2>3, BufferAssumption
<1>4. PICK b \in header : b = source
  BY <1>2, SourceFacts
<1>5. /\ b.arr \in Nat /\ b.len = buf.len /\ elements(b)
      /\ b = [arr |-> b.arr, len |-> b.len]
      /\ \A i \in 1 .. buf.len : heap[b.arr][i] = heap[buf.arr][i]
  BY <1>2, <1>4, SourceFacts DEF header
<1>6. \/ /\ b.len < Len(heap[b.arr])
         /\ heap' = [heap EXCEPT ![b.arr][b.len + 1] = e]
         /\ buf' = [b EXCEPT !.len = b.len + 1]
      \/ /\ b.len = Len(heap[b.arr])
         /\ \E n \in b.len + 1 .. 2 * b.len :
                  heap' = Append(heap, [i \in 1 .. n |->
                            IF i <= b.len THEN heap[b.arr][i]
                            ELSE IF i = b.len + 1 THEN e ELSE Zero])
         /\ buf' = [arr |-> Len(heap) + 1, len |-> b.len + 1]
  BY <1>4 DEF AppendElement, source
<1> DEFINE old == heap[b.arr]
<1>7. /\ b.arr \in 1 .. Len(heap) /\ b.arr # a /\ ownArray(b.arr)
      /\ old \in Seq(Elem \cup {Zero}) /\ Len(old) \in Nat
      /\ b.len <= Len(old)
      /\ \A i \in 1 .. b.len : old[i] \in Elem
  <2>1. ownArray(b.arr) /\ b.len <= Len(old)
        /\ \A i \in 1 .. b.len : old[i] \in Elem
    BY <1>5 DEF elements
  <2>2. b.arr \in 1 .. Len(heap) /\ b.arr # a
    BY <2>1 DEF ownArray
  <2>3. old \in Seq(Elem \cup {Zero})
    BY <1>1, <2>2
  <2>4. Len(old) \in Nat
    BY <2>3
  <2> QED BY <2>1, <2>2, <2>3, <2>4
<1>8. CASE /\ b.len < Len(old)
           /\ heap' = [heap EXCEPT ![b.arr][b.len + 1] = e]
           /\ buf' = [b EXCEPT !.len = b.len + 1]
  <2> DEFINE new == [old EXCEPT ![b.len + 1] = e]
  <2>1. heap' = [heap EXCEPT ![b.arr] = new]
    BY <1>8
  <2>2. /\ new \in Seq(Elem \cup {Zero}) /\ Len(new) = Len(old)
        /\ new[b.len + 1] = e
        /\ \A i \in 1 .. b.len : new[i] = old[i]
    <3> HIDE DEF old, e
    <3>1. b.len + 1 \in 1 .. Len(old) /\ b.len \in Nat
      BY <1>1, <1>5, <1>7, <1>8
    <3>2. \A i \in 1 .. b.len : i # b.len + 1 /\ i \in 1 .. Len(old)
      BY <1>7, <3>1
    <3> QED BY <1>3, <1>7, <3>1, <3>2
  <2> HIDE DEF new
  <2>3. /\ heap' \in Seq(Seq(Elem \cup {Zero})) /\ Len(heap') = Len(heap)
        /\ heap'[b.arr] = new
        /\ \A c \in 1 .. Len(heap) : c # b.arr => heap'[c] = heap[c]
    BY <1>1, <1>7, <2>1, <2>2
  <2>4. buf' = [arr |-> b.arr, len |-> b.len + 1]
    BY <1>5, <1>8
  <2>5. buf' \in header /\ buf'.arr = b.arr /\ buf'.len = buf.len + 1
    BY <1>1, <1>5, <2>4 DEF header
  <2>6. \A c \in 1 .. Len(heap) : heap'[c] = heap[c] \/ ownArray(c)
    BY <1>7, <2>3
  <2>7. \A c \in 1 .. Len(heap) :
          /\ Len(heap'[c]) = Len(heap[c])
          /\ \A i \in 1 .. buf.len : heap'[c][i] = heap[c][i]
    BY <1>5, <2>2, <2>3
  <2>8. ownArray(buf.arr)'
    BY <1>2, <1>7, <2>3, <2>5 DEF ownArray
  <2>9. buf'.len <= Len(heap'[buf'.arr])
    BY <1>1, <1>5, <1>7, <1>8, <2>2, <2>3, <2>5
  <2>10. heap'[buf'.arr][buf.len + 1] = e
    BY <1>5, <2>2, <2>3, <2>5
  <2>11. \A i \in 1 .. buf.len : heap'[buf'.arr][i] = heap[buf.arr][i]
    BY <1>5, <2>2, <2>3, <2>5
  <2>12. Len(heap) <= Len(heap')
    BY <1>1, <2>3
  <2> QED BY <1>3, <2>3, <2>5, <2>6, <2>7, <2>8, <2>9, <2>10, <2>11, <2>12
<1>9. ASSUME NEW n \in b.len + 1 .. 2 * b.len,
             heap' = Append(heap, [i \in 1 .. n |->
                            IF i <= b.len THEN heap[b.arr][i]
                            ELSE IF i = b.len + 1 THEN e ELSE Zero]),
             buf' = [arr |-> Len(heap) + 1, len |-> b.len + 1]
      PROVE  /\ heap' \in Seq(Seq(Elem \cup {Zero}))
             /\ Len(heap) <= Len(heap')
             /\ \A c \in 1 .. Len(heap) : heap'[c] = heap[c]
             /\ buf' \in header
             /\ buf'.len = buf.len + 1
             /\ ownArray(buf.arr)'
             /\ buf'.len <= Len(heap'[buf'.arr])
             /\ \A i \in 1 .. buf.len : heap'[buf'.arr][i] = heap[buf.arr][i]
             /\ heap'[buf'.arr][buf.len + 1] = e
  <2> DEFINE new == [i \in 1 .. n |-> IF i <= b.len THEN old[i]
                                     ELSE IF i = b.len + 1 THEN e ELSE Zero]
  <2>1. heap' = Append(heap, new)
    BY <1>9
  <2>2. /\ n \in Nat /\ b.len \in Nat /\ b.len + 1 <= n
    BY <1>1, <1>5
  <2>3. /\ new \in Seq(Elem \cup {Zero}) /\ Len(new) = n
        /\ new[b.len + 1] = e
        /\ \A i \in 1 .. b.len : new[i] = old[i]
    <3> HIDE DEF old, e
    <3>1. new \in [1 .. n -> Elem \cup {Zero}]
      BY <1>3, <1>7, <2>2
    <3>2. new \in Seq(Elem \cup {Zero}) /\ Len(new) = n
      <4> HIDE DEF new
      <4> QED BY <2>2, <3>1, FunctionIsSeq
    <3> QED BY <2>2, <3>2
  <2> HIDE DEF new
  <2>4. /\ heap' \in Seq(Seq(Elem \cup {Zero}))
        /\ Len(heap') = Len(heap) + 1
        /\ heap'[Len(heap) + 1] = new
        /\ \A c \in 1 .. Len(heap) : heap'[c] = heap[c]
    BY <1>1, <2>1, <2>3
  <2>5. /\ buf' \in header /\ buf'.arr = Len(heap) + 1
        /\ buf'.len = buf.len + 1
    BY <1>1, <1>5, <1>9 DEF header
  <2>6. \A i \in 1 .. Len(handed) :
          handed[i].val # <<>> => handed[i].arr \in 1 .. Len(heap)
    BY DEF ScratchInv, ArenaInv, InBounds
  <2>7. ownArray(buf.arr)'
    <3>1. Len(heap) + 1 \in 1 .. Len(heap') /\ Len(heap) + 1 # a
          /\ ~(Len(heap) + 1 \in 1 .. Len(heap))
      BY <1>1, <2>4
    <3> QED BY <1>2, <2>5, <2>6, <3>1 DEF ownArray
  <2>8. buf'.len <= Len(heap'[buf'.arr])
    BY <1>5, <2>2, <2>3, <2>4, <2>5
  <2>9. heap'[buf'.arr][buf.len + 1] = e
    BY <1>5, <2>3, <2>4, <2>5
  <2>10. \A i \in 1 .. buf.len : heap'[buf'.arr][i] = heap[buf.arr][i]
    BY <1>5, <2>3, <2>4, <2>5
  <2>11. Len(heap) <= Len(heap')
    BY <1>1, <2>4
  <2> QED BY <2>4, <2>5, <2>7, <2>8, <2>9, <2>10, <2>11
<1>10. CASE \E n \in b.len + 1 .. 2 * b.len :
              /\ heap' = Append(heap, [i \in 1 .. n |->
                            IF i <= b.len THEN heap[b.arr][i]
                            ELSE IF i = b.len + 1 THEN e ELSE Zero])
              /\ buf' = [arr |-> Len(heap) + 1, len |-> b.len + 1]
  <2> HIDE DEF old, e
  <2> QED BY <1>3, <1>9, <1>10 DEF e
<1> QED BY <1>6, <1>8, <1>10

\* append, from a header read before the element was parsed or after.
LEMMA AppendElementKeepsInv ==
    ASSUME ScratchInv, AppendElement
    PROVE  ScratchInv'
<1> DEFINE n == Len(builders)
           b == [top EXCEPT !.at = "between"]
<1>1. /\ heap \in Seq(Seq(Elem \cup {Zero})) /\ Len(heap) \in Nat
      /\ builders \in Seq(builder) /\ n \in Nat
      /\ builders = <<>> <=> n = 0
      /\ buf.len \in Nat /\ added \in Nat
  BY ScratchFacts
<1>2. /\ builders # <<>> /\ ~between /\ added' = added + 1
      /\ builders' = Append(Front(builders), b)
      /\ UNCHANGED <<a, len, index, handed, parsing>>
  BY DEF AppendElement, setTop
<1>3. n \in 1 .. n /\ top = builders[n] /\ top \in builder
  BY <1>1, <1>2 DEF top, Last
<1>4. b \in builder /\ b.mark = builders[n].mark /\ b.at = "between"
  BY <1>3 DEF builder
<1> HIDE DEF b
<1>5. /\ builders' \in Seq(builder) /\ Len(builders') = n
      /\ builders'[n] = b
      /\ \A k \in 1 .. n : k < n => builders'[k] = builders[k]
  BY <1>1, <1>2, <1>4, ReplaceTop
<1>6. /\ \A k \in 1 .. n : builders'[k].mark = builders[k].mark
      /\ builders' # <<>>
  BY <1>1, <1>3, <1>4, <1>5
<1>7. /\ heap' \in Seq(Seq(Elem \cup {Zero}))
      /\ Len(heap) <= Len(heap')
      /\ \A c \in 1 .. Len(heap) : heap'[c] = heap[c] \/ ownArray(c)
      /\ \A c \in 1 .. Len(heap) :
            /\ Len(heap'[c]) = Len(heap[c])
            /\ \A i \in 1 .. buf.len : heap'[c][i] = heap[c][i]
      /\ buf' \in header
      /\ buf'.len = buf.len + 1
      /\ ownArray(buf.arr)'
      /\ buf'.len <= Len(heap'[buf'.arr])
      /\ \A i \in 1 .. buf.len : heap'[buf'.arr][i] = heap[buf.arr][i]
      /\ heap'[buf'.arr][buf.len + 1] = added + 1
      /\ added + 1 \in Elem
  BY AppendedArrays
<1>8. elements(buf)
  BY <1>2 DEF ScratchInv, OneAtWork, BufferHoldsElements
<1>9. ArenaInv'
  BY <1>2, <1>7, OtherArrays DEF ScratchInv
<1>10. ScratchTypeOK'
  <2>1. ArenaTypeOK'
    BY <1>9 DEF ArenaInv
  <2>2. (parsing => len > 0) /\ parsing \in BOOLEAN
    BY DEF ScratchInv, ScratchTypeOK
  <2>3. (parsing => len > 0)' /\ parsing' \in BOOLEAN
    BY <1>2, <2>2
  <2>4. added' \in Nat
    BY <1>1, <1>2
  <2> QED BY <1>5, <1>7, <2>1, <2>3, <2>4 DEF ScratchTypeOK
<1>11. BufferHoldsElements'
  <2>1. \A i \in 1 .. buf'.len : heap'[buf'.arr][i] \in Elem
    <3> SUFFICES ASSUME NEW i \in 1 .. buf.len + 1
                 PROVE  heap'[buf'.arr][i] \in Elem
      BY <1>7
    <3>1. i = buf.len + 1 \/ i \in 1 .. buf.len
      BY <1>1
    <3>2. \A j \in 1 .. buf.len : heap[buf.arr][j] \in Elem
      BY <1>8 DEF elements
    <3> QED BY <1>7, <3>1, <3>2
  <2>2. elements(buf)'
    BY <1>7, <2>1 DEF elements
  <2>3. buf'.arr # Nil
    BY <1>7 DEF ownArray, Nil
  <2> QED BY <2>2, <2>3 DEF BufferHoldsElements
<1>12. OneAtWork'
  <2>1. parsing' /\ buf'.arr # Nil
    BY <1>2, <1>7 DEF ScratchInv, OneAtWork, ownArray, Nil
  <2> QED BY <1>5, <2>1 DEF ScratchInv, OneAtWork, waiting
<1>13. PartsStacked'
  <2>1. 1 \in 1 .. n /\ \A k \in 1 .. n : 1 .. k \subseteq 1 .. n
    BY <1>1, <1>3
  <2>2. builders'[1].mark = 0
    BY <1>2, <1>6, <2>1 DEF ScratchInv, PartsStacked
  <2>3. \A k \in 1 .. n : \A j \in 1 .. k :
           builders'[j].mark <= builders'[k].mark
    BY <1>6, <2>1 DEF ScratchInv, PartsStacked
  <2>4. \A k \in 1 .. n : builders'[k].mark <= buf'.len
    <3> SUFFICES ASSUME NEW k \in 1 .. n
                 PROVE  builders[k].mark <= buf.len + 1
      BY <1>6, <1>7
    <3>1. builders[k].mark \in Nat
      BY BuilderFacts
    <3>2. builders[k].mark <= buf.len
      BY DEF ScratchInv, PartsStacked
    <3> QED BY <1>1, <3>1, <3>2
  <2> QED BY <1>5, <1>6, <2>2, <2>3, <2>4 DEF PartsStacked
<1>14. EarlyReads'
  <2> SUFFICES ASSUME NEW k \in 1 .. n, builders'[k].at = "early"
               PROVE  /\ elements(builders[k].read)'
                      /\ builders'[k].read.len = upTo(k)'
                      /\ \A i \in 1 .. builders'[k].read.len :
                            heap'[builders'[k].read.arr][i] = heap'[buf'.arr][i]
    BY <1>5 DEF EarlyReads
  <2>1. k < n /\ builders'[k] = builders[k]
    BY <1>1, <1>4, <1>5
  <2>2. upTo(k)' = upTo(k)
    <3>1. k + 1 \in 1 .. n
      BY <1>1, <2>1
    <3> QED BY <1>5, <1>6, <2>1, <3>1 DEF upTo
  <2>3. PICK r \in header : r = builders[k].read
    BY BuilderFacts
  <2>4. /\ elements(r) /\ r.len = upTo(k) /\ r.len \in Nat
        /\ \A i \in 1 .. r.len : heap[r.arr][i] = heap[buf.arr][i]
    BY <2>1, <2>3 DEF ScratchInv, EarlyReads, header
  <2>5. r.len <= buf.len
    BY <2>4, BuilderFacts
  <2>6. 1 .. r.len \subseteq 1 .. buf.len
    BY <1>1, <2>4, <2>5
  <2>7. /\ r.arr \in 1 .. Len(heap) /\ ownArray(r.arr)
        /\ r.len <= Len(heap[r.arr])
        /\ \A i \in 1 .. r.len : heap[r.arr][i] \in Elem
    BY <2>4 DEF elements, ownArray
  <2>8. /\ Len(heap'[r.arr]) = Len(heap[r.arr])
        /\ \A i \in 1 .. r.len : heap'[r.arr][i] = heap[r.arr][i]
    BY <1>7, <2>6, <2>7
  <2>9. ownArray(r.arr)'
    BY <1>1, <1>2, <1>7, <2>7 DEF ownArray
  <2>10. elements(r)'
    BY <2>7, <2>8, <2>9 DEF elements
  <2>11. \A i \in 1 .. r.len : heap'[r.arr][i] = heap'[buf'.arr][i]
    BY <1>7, <2>4, <2>6, <2>8
  <2>12. builders'[k].read = r
    BY <2>1, <2>3
  <2> QED BY <2>2, <2>4, <2>10, <2>11, <2>12 DEF elements, ownArray
<1>15. NumbersLeft'
  <2>1. added + n \in Elem
    BY <1>2 DEF ScratchInv, NumbersLeft
  <2>2. between'
    BY <1>4, <1>5, <1>6 DEF between, top, Last
  <2>3. (added + 1) + n - 1 = added + n
    BY <1>1
  <2> QED BY <1>2, <1>5, <2>1, <2>2, <2>3 DEF NumbersLeft
<1> QED BY <1>9, <1>10, <1>11, <1>12, <1>13, <1>14, <1>15 DEF ScratchInv

LEMMA ScratchStep == ScratchInv /\ [Next]_vars => ScratchInv'
<1> SUFFICES ASSUME ScratchInv, [Next]_vars PROVE ScratchInv'
  OBVIOUS
<1>1. CASE getParser
  BY <1>1, GetParserKeepsInv
<1>2. CASE putParser
  BY <1>2, PutParserKeepsInv
<1>3. CASE Mark
  BY <1>3, MarkKeepsInv
<1>4. CASE ParseElement
  BY <1>4, ParseElementKeepsInv
<1>5. CASE AppendElement
  BY <1>5, AppendElementKeepsInv
<1>6. CASE finishBuf
  BY <1>6, FinishBufKeepsInv
<1>7. CASE DropList
  BY <1>7, DropListKeepsInv
<1>8. CASE UNCHANGED vars
  <2>1. UNCHANGED <<heap, a, len, index, handed, buf, builders, parsing, added>>
    BY <1>8 DEF vars, arenaVars
  <2>2. ArenaInv'
    BY <2>1 DEF ScratchInv, ArenaInv, ArenaTypeOK, ChunkInUse, BehindIndex,
                InBounds, NeverShared, NodesIntact
  <2>3. ScratchTypeOK'
    BY <2>1 DEF ScratchInv, ScratchTypeOK, ArenaTypeOK
  <2>4. BufferHoldsElements' /\ OneAtWork' /\ PartsStacked'
    BY <2>1 DEF ScratchInv, BufferHoldsElements, elements, ownArray,
                OneAtWork, waiting, PartsStacked
  <2>5. EarlyReads'
    BY <2>1 DEF ScratchInv, EarlyReads, elements, ownArray, upTo
  <2>6. NumbersLeft'
    BY <2>1 DEF ScratchInv, NumbersLeft, between, top, Last
  <2> QED BY <2>2, <2>3, <2>4, <2>5, <2>6 DEF ScratchInv
<1> QED BY <1>1, <1>2, <1>3, <1>4, <1>5, <1>6, <1>7, <1>8 DEF Next

\* The invariant of the buffer and its arena, for every nesting of builders,
\* every capacity and every way the array grows.
THEOREM ScratchInvariant == Spec => []ScratchInv
<1> QED BY ScratchInitially, ScratchStep, PTL DEF Spec

\* The types of the buffer's state.
THEOREM ScratchTypeCorrect == Spec => []ScratchTypeOK
<1>1. ScratchInv => ScratchTypeOK
  BY DEF ScratchInv
<1> QED BY <1>1, ScratchInvariant, PTL

\* p.xBuf = append(p.xBuf, p.parseElement()) does the same whether the operand
\* is evaluated before or after the call.
THEOREM EarlyReadsAreHarmless == Spec => []EarlyReadHarmless
<1>1. ASSUME ScratchInv PROVE EarlyReadHarmless
  <2> SUFFICES ASSUME NEW k \in 1 .. Len(builders), builders[k].at = "early"
               PROVE  /\ builders[k].read.len = upTo(k)
                      /\ SubSeq(heap[builders[k].read.arr], 1,
                                builders[k].read.len)
                           = SubSeq(heap[buf.arr], 1, builders[k].read.len)
    BY DEF EarlyReadHarmless
  <2> DEFINE r == builders[k].read
  <2>1. /\ elements(r) /\ r.len = upTo(k) /\ r.len \in Nat
        /\ \A i \in 1 .. r.len : heap[r.arr][i] = heap[buf.arr][i]
    BY <1>1, BuilderFacts DEF ScratchInv, EarlyReads
  <2>2. \A i \in 1 .. r.len : heap[r.arr][i] \in Elem
    BY <2>1 DEF elements
  <2>3. \A i \in 1 .. r.len : heap[buf.arr][i] \in Elem
    BY <2>1, <2>2
  <2> HIDE DEF r
  <2>4. \A x, y : (\A i \in 1 .. r.len : x[i] = y[i] /\ x[i] \in Elem)
           => SubSeq(x, 1, r.len) = SubSeq(y, 1, r.len)
    <3> SUFFICES ASSUME NEW x, NEW y,
                        \A i \in 1 .. r.len : x[i] = y[i] /\ x[i] \in Elem
                 PROVE  SubSeq(x, 1, r.len) = SubSeq(y, 1, r.len)
      OBVIOUS
    <3> QED BY <2>1, SameCut
  <2> QED BY <2>1, <2>2, <2>4 DEF r
<1> QED BY <1>1, ScratchInvariant, PTL

\* No parse, of a faulty source either, leaves anything in the buffer for the
\* next parse of the same parser.
THEOREM BufferIsBalanced == Spec => []BufferBalanced
<1>1. ScratchInv => BufferBalanced
  BY DEF ScratchInv, PartsStacked, BufferBalanced
<1> QED BY <1>1, ScratchInvariant, PTL

\* With the buffer writing to arrays of its own between the allocations, what
\* is in a tree is still within bounds, unshared and as it was stored.
THEOREM BufferSparesTrees ==
    Spec => [](InBounds /\ NeverShared /\ NodesIntact)
<1>1. ScratchInv => InBounds /\ NeverShared /\ NodesIntact
  BY DEF ScratchInv, ArenaInv
<1> QED BY <1>1, ScratchInvariant, PTL

-----------------------------------------------------------------------------
\* The refinement of ListBuilding: the part of the buffer between two marks is
\* the list of a builder, and the lists handed out are the lists built.

values == [i \in 1 .. Len(handed) |-> handed[i].val]

\* Part k of the buffer.
part(k) == SubSeq(heap[buf.arr], builders[k].mark + 1, upTo(k))

LEMMA FunctionOfSeq ==
    ASSUME NEW S, NEW t \in Seq(S), NEW f,
           f = [k \in 1 .. Len(t) |-> t[k]]
    PROVE  f = t
OBVIOUS

\* The open lists, one for each builder.
LEMMA Parts ==
    ASSUME ScratchInv
    PROVE  /\ openLists \in Seq(Seq(Elem))
           /\ Len(openLists) = Len(builders)
           /\ \A k \in 1 .. Len(builders) : openLists[k] = part(k)
<1> DEFINE n == Len(builders)
<1>1. n \in Nat /\ buf.len \in Nat /\ (builders = <<>> <=> n = 0)
  BY ScratchFacts
<1>2. openLists = [k \in 1 .. n |-> part(k)]
  BY DEF openLists, part
<1>3. \A k \in 1 .. n : part(k) \in Seq(Elem)
  <2> SUFFICES ASSUME NEW k \in 1 .. n PROVE part(k) \in Seq(Elem)
    OBVIOUS
  <2>1. /\ builders[k].mark \in Nat /\ upTo(k) \in Nat
        /\ builders[k].mark <= upTo(k) /\ upTo(k) <= buf.len
    BY BuilderFacts
  <2>2. builders # <<>>
    BY <1>1
  <2>3. \A i \in 1 .. buf.len : heap[buf.arr][i] \in Elem
    BY <2>2 DEF ScratchInv, OneAtWork, BufferHoldsElements, elements
  <2>4. \A i \in 1 .. upTo(k) : heap[buf.arr][i] \in Elem
    BY <1>1, <2>1, <2>3
  <2> QED BY <2>1, <2>4, Cut DEF part
<1>4. openLists \in [1 .. n -> Seq(Elem)]
  BY <1>2, <1>3
<1>5. openLists \in Seq(Seq(Elem)) /\ Len(openLists) = n
  BY <1>1, <1>4, FunctionIsSeq
<1> QED BY <1>2, <1>5

\* A builder that ends takes its part, and only its part, away.
LEMMA PopEndsList ==
    ASSUME ScratchInv, between,
           buf'.len = top.mark, builders' = Front(builders),
           heap'[buf'.arr] = heap[buf.arr]
    PROVE  /\ openLists # <<>>
           /\ openLists' = Front(openLists)
           /\ Last(openLists) = above(top.mark)
<1> DEFINE n == Len(builders)
<1>1. builders \in Seq(builder) /\ n \in Nat /\ builders # <<>>
  BY ScratchFacts DEF between
<1>2. /\ top = builders[n] /\ n # 0 /\ above(top.mark) = openLists[n]
  BY TopPart
<1>3. /\ openLists \in Seq(Seq(Elem)) /\ Len(openLists) = n
      /\ \A k \in 1 .. n : openLists[k] = part(k)
  BY Parts
<1>4. /\ Len(builders') = n - 1
      /\ \A k \in 1 .. n - 1 : builders'[k] = builders[k]
  BY <1>1, FrontProperties
<1>5. openLists # <<>>
  BY <1>1, <1>2, <1>3, EmptySeq
<1>6. /\ Front(openLists) \in Seq(Seq(Elem)) /\ Len(Front(openLists)) = n - 1
      /\ \A k \in 1 .. n - 1 : Front(openLists)[k] = openLists[k]
      /\ Last(openLists) = openLists[n]
  BY <1>3, <1>5, FrontProperties
<1>7. openLists' = [k \in 1 .. n - 1 |-> part(k)']
  BY <1>4 DEF openLists, part
<1>8. \A k \in 1 .. n - 1 : part(k)' = part(k)
  <2> SUFFICES ASSUME NEW k \in 1 .. n - 1 PROVE part(k)' = part(k)
    OBVIOUS
  <2>1. CASE k = n - 1
    <3>1. upTo(k)' = builders[n].mark
      BY <1>2, <1>4, <2>1 DEF upTo
    <3>2. upTo(k) = builders[n].mark
      <4>1. k # n /\ k + 1 = n
        BY <1>1, <2>1
      <4> QED BY <4>1 DEF upTo
    <3> QED BY <1>4, <3>1, <3>2 DEF part
  <2>2. CASE k # n - 1
    <3>1. k # n /\ k + 1 \in 1 .. n - 1
      BY <1>1, <2>2
    <3>2. upTo(k)' = upTo(k)
      BY <1>4, <2>2, <3>1 DEF upTo
    <3> QED BY <1>4, <3>2 DEF part
  <2> QED BY <2>1, <2>2
<1>9. \A k \in 1 .. n - 1 : k \in 1 .. n
  BY <1>1
<1>10. openLists' = [k \in 1 .. Len(Front(openLists)) |-> Front(openLists)[k]]
  BY <1>3, <1>6, <1>7, <1>8, <1>9
<1> QED BY <1>2, <1>5, <1>6, <1>10, FunctionOfSeq

\* What a step of the buffer does to the lists that are built.
LEMMA MarkBegins ==
    ASSUME ScratchInv, Mark
    PROVE  openLists' = Append(openLists, <<>>)
<1>0. PICK n \in Nat : n = Len(builders)
  BY ScratchFacts
<1> DEFINE b == [mark |-> buf.len, at |-> "between", read |-> buf]
<1>1. builders \in Seq(builder) /\ n = Len(builders) /\ buf \in header
      /\ buf.len \in Nat
  BY <1>0, ScratchFacts
<1>2. /\ builders' = Append(builders, b)
      /\ UNCHANGED <<heap, buf>>
  BY DEF Mark, arenaVars
<1>3. b \in builder
  BY <1>1 DEF builder
<1>4. b.mark = buf.len
  OBVIOUS
<1> HIDE DEF b
<1>5. /\ Len(builders') = n + 1 /\ builders'[n + 1] = b
      /\ \A k \in 1 .. n : builders'[k] = builders[k]
  BY <1>1, <1>2, <1>3
<1>6. /\ openLists \in Seq(Seq(Elem)) /\ Len(openLists) = n
      /\ \A k \in 1 .. n : openLists[k] = part(k)
  BY <1>0, Parts
<1>7. openLists' = [k \in 1 .. n + 1 |-> part(k)']
  BY <1>5 DEF openLists, part
<1>8. \A k \in 1 .. n : part(k)' = part(k)
  <2> SUFFICES ASSUME NEW k \in 1 .. n PROVE part(k)' = part(k)
    OBVIOUS
  <2>1. upTo(k)' = upTo(k)
    BY <1>0, <1>1, <1>2, <1>4, <1>5 DEF upTo
  <2> QED BY <1>2, <1>5, <2>1 DEF part
<1>9. part(n + 1)' = <<>>
  <2>1. part(n + 1)' = SubSeq(heap[buf.arr], buf.len + 1, buf.len)
    BY <1>2, <1>4, <1>5 DEF part, upTo
  <2> QED BY <1>1, <2>1, SubSeqEmpty
<1> DEFINE t == Append(openLists, <<>>)
<1>10. /\ t \in Seq(Seq(Elem)) /\ Len(t) = n + 1 /\ t[n + 1] = <<>>
       /\ \A k \in 1 .. n : t[k] = openLists[k]
  <2>1. <<>> \in Seq(Elem)
    OBVIOUS
  <2> QED BY <1>6, <2>1
<1> HIDE DEF t
<1>11. \A k \in 1 .. n + 1 : part(k)' = t[k]
  <2>1. \A k \in 1 .. n + 1 : k = n + 1 \/ k \in 1 .. n
    BY <1>1
  <2> QED BY <1>6, <1>8, <1>9, <1>10, <2>1
<1>12. openLists' = [k \in 1 .. Len(t) |-> t[k]]
  BY <1>7, <1>10, <1>11
<1>13. openLists' = t
  BY <1>10, <1>12, FunctionOfSeq
<1> QED BY <1>13 DEF t

LEMMA AppendAdds ==
    ASSUME ScratchInv, AppendElement
    PROVE  /\ openLists # <<>>
           /\ openLists' = Append(Front(openLists),
                                  Append(Last(openLists), added + 1))
           /\ added + 1 \in Elem
<1>0. PICK n \in Nat : n = Len(builders)
  BY ScratchFacts
<1> DEFINE b == [top EXCEPT !.at = "between"]
           e == added + 1
<1>1. /\ builders \in Seq(builder) /\ n = Len(builders)
      /\ builders = <<>> <=> n = 0
      /\ buf.len \in Nat /\ builders # <<>>
  BY <1>0, ScratchFacts DEF AppendElement
<1>2. n \in 1 .. n /\ top = builders[n] /\ top \in builder
  BY <1>1 DEF top, Last
<1>3. builders' = Append(Front(builders), b)
  BY DEF AppendElement, setTop
<1>4. b \in builder /\ b.mark = builders[n].mark
  BY <1>2 DEF builder
<1> HIDE DEF b
<1>5. /\ Len(builders') = n /\ builders'[n] = b
      /\ \A k \in 1 .. n : k < n => builders'[k] = builders[k]
  BY <1>1, <1>3, <1>4, ReplaceTop
<1>6. \A k \in 1 .. n : builders'[k].mark = builders[k].mark
  BY <1>1, <1>4, <1>5
<1>7. /\ buf'.len = buf.len + 1
      /\ \A i \in 1 .. buf.len : heap'[buf'.arr][i] = heap[buf.arr][i]
      /\ heap'[buf'.arr][buf.len + 1] = e
      /\ e \in Elem
  BY AppendedArrays
<1>8. /\ openLists \in Seq(Seq(Elem)) /\ Len(openLists) = n
      /\ \A k \in 1 .. n : openLists[k] = part(k)
  BY <1>0, Parts
<1>9. openLists # <<>>
  BY <1>1, <1>8, EmptySeq
<1>10. /\ Front(openLists) \in Seq(Seq(Elem))
       /\ Len(Front(openLists)) = n - 1
       /\ \A k \in 1 .. n - 1 : Front(openLists)[k] = openLists[k]
       /\ Last(openLists) = openLists[n] /\ Last(openLists) \in Seq(Elem)
  BY <1>8, <1>9, FrontProperties
<1>11. openLists' = [k \in 1 .. n |-> part(k)']
  BY <1>5 DEF openLists, part
<1>12. \A i \in 1 .. buf.len : heap[buf.arr][i] \in Elem
  BY <1>1 DEF ScratchInv, OneAtWork, BufferHoldsElements, elements
<1> HIDE DEF e
<1>13. ASSUME NEW k \in 1 .. n, k < n
       PROVE  part(k)' = part(k)
  <2>1. /\ builders[k].mark \in Nat /\ upTo(k) \in Nat
        /\ builders[k].mark <= upTo(k) /\ upTo(k) <= buf.len
    BY <1>1, BuilderFacts
  <2>2. upTo(k)' = upTo(k)
    <3>1. k + 1 \in 1 .. n /\ k # n
      BY <1>1, <1>13
    <3> QED BY <1>1, <1>5, <1>6, <3>1 DEF upTo
  <2>3. \A i \in 1 .. upTo(k) :
           heap'[buf'.arr][i] = heap[buf.arr][i] /\ heap'[buf'.arr][i] \in Elem
    BY <1>1, <1>7, <1>12, <2>1
  <2>4. SubSeq(heap'[buf'.arr], builders[k].mark + 1, upTo(k))
          = SubSeq(heap[buf.arr], builders[k].mark + 1, upTo(k))
    <3> DEFINE x == heap'[buf'.arr]
               y == heap[buf.arr]
               m == builders[k].mark
               u == upTo(k)
    <3>1. /\ m \in Nat /\ u \in Nat /\ m <= u
          /\ \A i \in 1 .. u : x[i] = y[i] /\ x[i] \in Elem
      BY <2>1, <2>3
    <3> HIDE DEF x, y, m, u
    <3>2. SubSeq(x, m + 1, u) = SubSeq(y, m + 1, u)
      BY <3>1, SameCut
    <3> QED BY <3>2 DEF x, y, m, u
  <2> QED BY <1>6, <2>2, <2>4 DEF part
<1>14. part(n)' = Append(part(n), e)
  <2> DEFINE m == builders[n].mark
             s == SubSeq(heap[buf.arr], m + 1, buf.len)
             x == heap'[buf'.arr]
             l == buf.len + 1
             u == SubSeq(x, m + 1, l)
  <2>1. m \in Nat /\ m <= buf.len
    <3>1. upTo(n) = buf.len
      BY <1>1 DEF upTo
    <3> QED BY <1>1, <1>2, <3>1, BuilderFacts
  <2>2. part(n) = s /\ part(n)' = u
    BY <1>1, <1>2, <1>5, <1>6, <1>7 DEF part, upTo
  <2>3. /\ l \in Nat /\ m <= l
        /\ \A i \in 1 .. l : x[i] \in Elem
    <3>1. \A i \in 1 .. l : i = l \/ i \in 1 .. buf.len
      BY <1>1
    <3>2. l \in Nat /\ m <= l
      BY <1>1, <2>1
    <3> QED BY <1>7, <1>12, <3>1, <3>2
  <2> HIDE DEF m
  <2>4. /\ s \in Seq(Elem) /\ Len(s) = buf.len - m
        /\ \A i \in 1 .. buf.len - m : s[i] = heap[buf.arr][m + i]
    BY <1>1, <1>12, <2>1, Cut
  <2>5. /\ u \in Seq(Elem) /\ Len(u) = l - m
        /\ \A i \in 1 .. l - m : u[i] = x[m + i]
    <3> HIDE DEF l, x
    <3> QED BY <2>1, <2>3, Cut
  <2> HIDE DEF s, u
  <2> DEFINE t == Append(s, e)
  <2>6. /\ t \in Seq(Elem) /\ Len(t) = Len(s) + 1 /\ t[Len(s) + 1] = e
        /\ \A i \in 1 .. Len(s) : t[i] = s[i]
    BY <1>7, <2>4
  <2> HIDE DEF t
  <2>7. Len(u) = Len(t)
    BY <1>1, <2>1, <2>4, <2>5, <2>6
  <2>8. \A i \in 1 .. Len(u) : u[i] = t[i]
    <3> SUFFICES ASSUME NEW i \in 1 .. Len(u) PROVE u[i] = t[i]
      OBVIOUS
    <3>1. i \in 1 .. l - m /\ i \in Nat
      BY <2>5
    <3>2. u[i] = heap'[buf'.arr][m + i]
      BY <2>5, <3>1
    <3>3. CASE i = Len(s) + 1
      <4>1. m + i = buf.len + 1
        BY <1>1, <2>1, <2>4, <3>3
      <4> QED BY <1>7, <2>6, <3>2, <3>3, <4>1
    <3>4. CASE i # Len(s) + 1
      <4>1. i \in 1 .. Len(s) /\ m + i \in 1 .. buf.len
        BY <1>1, <2>1, <2>4, <3>1, <3>4
      <4> QED BY <1>7, <2>4, <2>6, <3>2, <4>1
    <3> QED BY <3>3, <3>4
  <2>9. u = t
    BY <2>5, <2>6, <2>7, <2>8, SeqEqual
  <2> QED BY <2>2, <2>9 DEF t
<1> DEFINE last == Append(Last(openLists), e)
           t == Append(Front(openLists), last)
<1>15. last = part(n)' /\ last \in Seq(Elem)
  <2>1. Append(Last(openLists), e) \in Seq(Elem)
    BY <1>7, <1>10
  <2> QED BY <1>2, <1>8, <1>10, <1>14, <2>1
<1> HIDE DEF last
<1>16. /\ t \in Seq(Seq(Elem)) /\ Len(t) = n /\ t[n] = last
       /\ \A k \in 1 .. n : k < n => t[k] = openLists[k]
  <2> DEFINE f == Front(openLists)
  <2>1. /\ f \in Seq(Seq(Elem)) /\ Len(f) = n - 1
        /\ \A k \in 1 .. n - 1 : f[k] = openLists[k]
    BY <1>10
  <2> HIDE DEF f
  <2>2. /\ Append(f, last) \in Seq(Seq(Elem)) /\ Len(Append(f, last)) = n
        /\ Append(f, last)[n] = last
        /\ \A k \in 1 .. n : k < n => Append(f, last)[k] = openLists[k]
    BY <1>1, <1>15, <2>1
  <2> QED BY <2>2 DEF f
<1> HIDE DEF t
<1>17. \A k \in 1 .. n : part(k)' = t[k]
  <2> SUFFICES ASSUME NEW k \in 1 .. n PROVE part(k)' = t[k]
    OBVIOUS
  <2>1. CASE k = n
    BY <1>15, <1>16, <2>1
  <2>2. CASE k < n
    BY <1>8, <1>13, <1>16, <2>2
  <2> QED BY <1>1, <2>1, <2>2
<1>18. openLists' = [k \in 1 .. Len(t) |-> t[k]]
  BY <1>11, <1>16, <1>17
<1>19. openLists' = t
  BY <1>16, <1>18, FunctionOfSeq
<1> QED BY <1>7, <1>9, <1>19 DEF t, last, e

\* A finished list is the last of those built.
LEMMA FinishBuilds ==
    ASSUME ScratchInv, finishBuf
    PROVE  /\ openLists # <<>>
           /\ openLists' = Front(openLists)
           /\ values' = Append(values, Last(openLists))
<1>0. PICK l \in Nat : l = Len(handed)
  BY ScratchFacts
<1>1. /\ between /\ makeSlice(above(top.mark))
      /\ buf' = [buf EXCEPT !.len = top.mark]
      /\ builders' = Front(builders)
      /\ ArenaInv /\ len > 0 /\ buf \in header
      /\ handed \in Seq(Allocation)
  BY ScratchFacts
     DEF finishBuf, ScratchInv, ScratchTypeOK, OneAtWork, between
<1>2. above(top.mark) \in Seq(Elem)
  BY <1>1, TopPart
<1> DEFINE list == above(top.mark)
<1> HIDE DEF list
<1>3. /\ handed' = Append(handed, handed'[l + 1])
      /\ handed'[l + 1].val = list
      /\ ownArray(buf.arr) => heap'[buf.arr] = heap[buf.arr]
  <2>1. makeSlice(list) /\ list \in Seq(Elem)
    BY <1>1, <1>2 DEF list
  <2> QED BY <1>0, <1>1, <2>1, SliceFrame
<1>4. ownArray(buf.arr)
  BY <1>1 DEF ScratchInv, OneAtWork, BufferHoldsElements, elements, between
<1>5. buf'.len = top.mark /\ buf'.arr = buf.arr
  BY <1>1 DEF header
<1>6. heap'[buf'.arr] = heap[buf.arr]
  BY <1>3, <1>4, <1>5
<1>7. /\ openLists # <<>> /\ openLists' = Front(openLists)
      /\ Last(openLists) = list
  BY <1>1, <1>5, <1>6, PopEndsList DEF list
<1>8. /\ Len(handed') = l + 1
      /\ \A i \in 1 .. l : handed'[i] = handed[i]
  <2>1. \A x : /\ Len(Append(handed, x)) = l + 1
               /\ \A i \in 1 .. l : Append(handed, x)[i] = handed[i]
    BY <1>0, <1>1
  <2> QED BY <1>3, <2>1
<1>9. \A i \in 1 .. l : handed[i].val \in Seq(Elem)
  <2>1. \A i \in 1 .. l : handed[i] \in Allocation
    BY <1>0, <1>1
  <2> QED BY <2>1 DEF Allocation
<1>10. /\ values \in Seq(Seq(Elem)) /\ Len(values) = l
       /\ \A i \in 1 .. l : values[i] = handed[i].val
  <2>1. values = [i \in 1 .. l |-> handed[i].val]
    BY <1>0 DEF values
  <2>2. values \in [1 .. l -> Seq(Elem)]
    BY <1>9, <2>1
  <2>3. values \in Seq(Seq(Elem)) /\ Len(values) = l
    BY <2>2, FunctionIsSeq
  <2> QED BY <2>1, <2>3
<1>11. values' = [i \in 1 .. l + 1 |-> handed'[i].val]
  BY <1>8 DEF values
<1> DEFINE t == Append(values, list)
<1>12. /\ t \in Seq(Seq(Elem)) /\ Len(t) = l + 1 /\ t[l + 1] = list
       /\ \A i \in 1 .. l : t[i] = values[i]
  <2>1. list \in Seq(Elem)
    BY <1>2 DEF list
  <2> QED BY <1>10, <2>1
<1> HIDE DEF t
<1>13. \A i \in 1 .. l + 1 : handed'[i].val = t[i]
  <2>1. \A i \in 1 .. l + 1 : i = l + 1 \/ i \in 1 .. l
    OBVIOUS
  <2> QED BY <1>3, <1>8, <1>10, <1>12, <2>1
<1>14. values' = [i \in 1 .. Len(t) |-> t[i]]
  BY <1>11, <1>12, <1>13
<1>15. values' = t
  BY <1>12, <1>14, FunctionOfSeq
<1> QED BY <1>7, <1>15 DEF t

LEMMA BuildsInitially == Init => Building!Init
<1> SUFFICES ASSUME Init PROVE openLists = <<>> /\ values = <<>>
  BY DEF Building!Init, values
<1>1. builders = <<>> /\ handed = <<>>
  BY DEF Init, ArenaInit
<1>2. Len(builders) = 0 /\ Len(handed) = 0
  BY <1>1
<1> QED BY <1>2 DEF openLists, values

\* Every step of the buffer is a step of the lists, or changes none.
LEMMA BuildsStep ==
    ASSUME ScratchInv, [Next]_vars
    PROVE  [Building!Next]_(Building!vars)
<1>1. CASE getParser \/ putParser
  <2>1. builders = <<>> /\ builders' = <<>> /\ handed' = handed
    BY <1>1 DEF getParser, putParser, newArena, dropArena, ScratchInv, OneAtWork
  <2>2. Len(builders) = 0 /\ Len(builders') = 0
    BY <2>1
  <2>3. openLists = <<>> /\ openLists' = <<>>
    BY <2>2 DEF openLists
  <2> QED BY <2>1, <2>3 DEF Building!vars
<1>2. CASE Mark
  <2>1. openLists' = Append(openLists, <<>>) /\ values' = values
    BY <1>2, MarkBegins DEF Mark, arenaVars, values
  <2> QED BY <2>1 DEF Building!Next, Building!Begin, values
<1>3. CASE ParseElement
  <2>1. /\ UNCHANGED <<heap, buf, handed>>
        /\ Len(builders') = Len(builders)
        /\ \A k \in 1 .. Len(builders) : builders'[k].mark = builders[k].mark
    <3>1. /\ builders \in Seq(builder) /\ Len(builders) \in Nat
          /\ builders # <<>> /\ top = builders[Len(builders)]
      BY <1>3, ScratchFacts DEF ParseElement, between, top, Last
    <3>2. PICK at \in {"early", "late"} :
             builders' = Append(Front(builders),
                                [top EXCEPT !.at = at, !.read = buf])
      BY <1>3 DEF ParseElement, setTop
    <3> DEFINE b == [top EXCEPT !.at = at, !.read = buf]
    <3>3. b \in builder /\ b.mark = builders[Len(builders)].mark
      <4>1. /\ builders[Len(builders)] \in builder /\ buf \in header
        BY <3>1, ScratchFacts
      <4> QED BY <3>1, <4>1 DEF builder
    <3> HIDE DEF b
    <3>4. /\ Len(builders') = Len(builders)
          /\ builders'[Len(builders)] = b
          /\ \A k \in 1 .. Len(builders) :
                k < Len(builders) => builders'[k] = builders[k]
      BY <3>1, <3>2, <3>3, ReplaceTop DEF b
    <3>5. \A k \in 1 .. Len(builders) :
             k = Len(builders) \/ k < Len(builders)
      BY <3>1
    <3> QED BY <1>3, <3>3, <3>4, <3>5 DEF ParseElement, arenaVars
  <2>2. \A k \in 1 .. Len(builders) : upTo(k)' = upTo(k)
    <3>1. \A k \in 1 .. Len(builders) : k # Len(builders) =>
             k + 1 \in 1 .. Len(builders)
      BY ScratchFacts
    <3> QED BY <2>1, <3>1 DEF upTo
  <2>3. openLists' = openLists
    BY <2>1, <2>2 DEF openLists
  <2> QED BY <2>1, <2>3 DEF Building!vars
<1>4. CASE AppendElement
  <2>1. handed' = handed
    BY <1>4 DEF AppendElement
  <2>2. /\ openLists # <<>>
        /\ openLists' = Append(Front(openLists),
                               Append(Last(openLists), added + 1))
        /\ added + 1 \in Elem
    BY <1>4, AppendAdds
  <2>3. Building!Add(added + 1)
    BY <2>1, <2>2 DEF Building!Add, Building!Front, Building!Last, Front, Last
  <2> QED BY <2>2, <2>3 DEF Building!Next
<1>5. CASE finishBuf
  <2>1. Building!Finish
    BY <1>5, FinishBuilds
       DEF Building!Finish, values, Building!Front, Building!Last, Front, Last
  <2> QED BY <2>1 DEF Building!Next
<1>6. CASE DropList
  <2>1. /\ between /\ heap' = heap /\ handed' = handed
        /\ buf' = [buf EXCEPT !.len = top.mark] /\ builders' = Front(builders)
        /\ buf \in header
    BY <1>6, ScratchFacts DEF DropList, arenaVars
  <2>2. buf'.len = top.mark /\ buf'.arr = buf.arr
    BY <2>1 DEF header
  <2>3. openLists # <<>> /\ openLists' = Front(openLists)
    BY <2>1, <2>2, PopEndsList
  <2> QED BY <2>1, <2>3 DEF Building!Next, Building!Drop, Building!Front, Front
<1>7. CASE UNCHANGED vars
  <2>1. UNCHANGED <<heap, handed, buf, builders>>
    BY <1>7 DEF vars, arenaVars
  <2>2. openLists' = openLists
    BY <2>1 DEF openLists, upTo
  <2> QED BY <2>1, <2>2 DEF Building!vars
<1> QED BY <1>1, <1>2, <1>3, <1>4, <1>5, <1>6, <1>7 DEF Next

\* The shared buffer implements lists that know nothing of each other.
THEOREM BufferBuildsLists == Spec => BuildsLists
<1> QED BY BuildsInitially, BuildsStep, ScratchInvariant, PTL
        DEF Spec, BuildsLists, Building!Spec
=============================================================================
