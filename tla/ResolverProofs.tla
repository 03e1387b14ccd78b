--------------------------- MODULE ResolverProofs ---------------------------
(***************************************************************************)
(* Proofs about Resolver and, first, about the scope table it works on.    *)
(*                                                                         *)
(* The table (ScopeTable): for each operation one lemma says what it does  *)
(* to every component (the ...Effect lemmas) and one that it keeps         *)
(* Structure.                                                              *)
(*                                                                         *)
(* The walk (Resolver), for all well-formed programs: every step is a step *)
(* of the scope table or leaves it alone, so that what is proved of the    *)
(* table holds while a program is resolved. The hoister is safe to share   *)
(* because its entries are the first ones of todo and the last save among  *)
(* them is of a fresh hoister.                                             *)
(***************************************************************************)
EXTENDS Resolver, DataLemmas

\* The object pushScope opens.
opened == IF scopePool # <<>> THEN Last(scopePool) ELSE Len(heap) + 1

\* The state after pushScope, element by element.
Opened ==
    /\ opened \in 1 .. Len(heap')
    /\ Len(heap) <= Len(heap')
    /\ heap'[opened] = [parent |-> current, ctx |-> nextCtxt,
                        trailBase |-> Len(trail)]
    /\ \A o \in 1 .. Len(heap) : o # opened => heap'[o] = heap[o]
    /\ Len(chain') = Len(chain) + 1
    /\ chain'[Len(chain) + 1] = opened
    /\ \A d \in 1 .. Len(chain) : chain'[d] = chain[d] /\ chain[d] # opened
    /\ Len(scopePool') <= Len(scopePool)
    /\ \A e \in 1 .. Len(scopePool') : 
          scopePool'[e] = scopePool[e] /\ scopePool[e] # opened

\* The flat facts the type invariant gives the provers.
LEMMA Lengths ==
  ASSUME TypeOK
  PROVE /\ Len(heap) \in Nat /\ Len(chain) \in Nat /\ Len(trail) \in Nat
        /\ Len(scopePool) \in Nat
        /\ \A o \in 1 .. Len(heap) : heap[o] \in scope
        /\ \A d \in 1 .. Len(chain) : chain[d] \in 1 .. Len(heap)
        /\ \A e \in 1 .. Len(scopePool) : scopePool[e] \in 1 .. Len(heap)
        /\ \A i \in 1 .. Len(trail) : trail[i] \in trailEntry
        /\ DOMAIN chain = 1 .. Len(chain)
        /\ DOMAIN scopePool = 1 .. Len(scopePool)
        /\ chain = <<>> <=> Len(chain) = 0
BY LenProperties, ElementOfSeq, EmptySeq DEF TypeOK

\* RecyclingSafe, element by element: no scope object is in two places.
LEMMA NoAliases ==
  ASSUME TypeOK, RecyclingSafe
  PROVE  /\ \A c, d \in 1 .. Len(chain) : chain[c] = chain[d] => c = d
         /\ \A e, f \in 1 .. Len(scopePool) : scopePool[e] = scopePool[f] => e = f
         /\ \A d \in 1 .. Len(chain), e \in 1 .. Len(scopePool) :
               chain[d] # scopePool[e]
<1>1. DOMAIN chain = 1 .. Len(chain) /\ DOMAIN scopePool = 1 .. Len(scopePool)
  BY Lengths
<1>2. IsInjective(chain) /\ IsInjective(scopePool)
  BY DEF RecyclingSafe
<1>3. /\ \A c, d \in DOMAIN chain : chain[c] = chain[d] => c = d
      /\ \A e, f \in DOMAIN scopePool : scopePool[e] = scopePool[f] => e = f
  BY <1>2 DEF IsInjective
<1>4. \A d \in DOMAIN chain, e \in DOMAIN scopePool : chain[d] # scopePool[e]
  <2>1. Range(chain) \cap Range(scopePool) = {}
    BY DEF RecyclingSafe
  <2> QED
    BY <2>1 DEF Range
<1> QED
  BY <1>1, <1>3, <1>4

\* RecyclingSafe, element by element: the parent links follow the chain.
LEMMA ParentLinks ==
  ASSUME TypeOK, RecyclingSafe
  PROVE  /\ current = IF Len(chain) = 0 THEN Nil ELSE chain[Len(chain)]
         /\ \A d \in 1 .. Len(chain) :
               heap[chain[d]].parent = IF d = 1 THEN Nil ELSE chain[d - 1]
<1>1. /\ current = IF chain = <<>> THEN Nil ELSE Last(chain)
      /\ \A d \in 1 .. Depth :
            heap[chain[d]].parent = IF d = 1 THEN Nil ELSE chain[d - 1]
  BY DEF RecyclingSafe
<1>2. chain = <<>> <=> Len(chain) = 0
  BY Lengths
<1> QED
  BY <1>1, <1>2 DEF Depth, Last

\* What pushScope does, whether it recycles an object or allocates one.
LEMMA PushEffect ==
  ASSUME Structure, pushScope
  PROVE  TypeOK' /\ Opened
<1>1. TypeOK /\ RecyclingSafe
  BY DEF Structure
<1>2. /\ Len(heap) \in Nat /\ Len(chain) \in Nat /\ Len(trail) \in Nat
      /\ Len(scopePool) \in Nat
      /\ \A d \in 1 .. Len(chain) : chain[d] \in 1 .. Len(heap)
      /\ \A e \in 1 .. Len(scopePool) : scopePool[e] \in 1 .. Len(heap)
      /\ DOMAIN chain = 1 .. Len(chain)
      /\ DOMAIN scopePool = 1 .. Len(scopePool)
  BY <1>1, Lengths
<1>3. nextCtxt \in ScopeContext /\ nextCtxt' \in TopLevelContext .. MaxCtxt
  BY <1>1, MaxCtxtAssumption
     DEF TypeOK, pushScope, ScopeContext, TopLevelContext, UnresolvedContext
<1> DEFINE fresh == [parent |-> current, ctx |-> nextCtxt,
                     trailBase |-> Len(trail)]
<1>4. fresh \in scope
  BY <1>1, <1>2, <1>3 DEF TypeOK, scope
<1>5. /\ heap' = IF scopePool # <<>> THEN [heap EXCEPT ![opened] = fresh]
                                     ELSE Append(heap, fresh)
      /\ scopePool' = IF scopePool # <<>> THEN Front(scopePool) ELSE scopePool
      /\ current' = opened
      /\ chain' = Append(chain, opened)
      /\ UNCHANGED <<symbols, trail>>
  BY DEF pushScope, opened
<1> HIDE DEF fresh
<1>6. /\ heap' \in Seq(scope) /\ Len(heap) <= Len(heap')
      /\ opened \in 1 .. Len(heap')
      /\ heap'[opened] = fresh
      /\ \A o \in 1 .. Len(heap) : o # opened => heap'[o] = heap[o]
      /\ scopePool' \in Seq(1 .. Len(heap))
      /\ Len(scopePool') <= Len(scopePool) /\ Len(scopePool') \in Nat
      /\ \A d \in 1 .. Len(chain) : chain[d] # opened
      /\ \A e \in 1 .. Len(scopePool') :
            scopePool'[e] = scopePool[e] /\ scopePool[e] # opened
  <2>1. CASE scopePool # <<>>
    <3>1. /\ Len(scopePool) \in Nat \ {0}
          /\ scopePool' \in Seq(1 .. Len(heap))
          /\ Len(scopePool') = Len(scopePool) - 1
          /\ \A e \in 1 .. Len(scopePool) - 1 : scopePool'[e] = scopePool[e]
          /\ opened = scopePool[Len(scopePool)]
          /\ opened \in 1 .. Len(heap)
      BY <1>1, <1>5, <2>1, FrontProperties DEF opened, TypeOK
    <3>2. /\ heap' \in Seq(scope) /\ Len(heap') = Len(heap)
          /\ \A o \in 1 .. Len(heap) :
                heap'[o] = IF o = opened THEN fresh ELSE heap[o]
      BY <1>1, <1>4, <1>5, <2>1, <3>1, ExceptSeq DEF TypeOK
    <3>3. \A d \in 1 .. Len(chain) : chain[d] # opened
      BY <1>1, <1>2, <3>1, NoAliases
    <3>4. \A e \in 1 .. Len(scopePool) - 1 : scopePool[e] # opened
      BY <1>1, <1>2, <3>1, NoAliases
    <3> QED
      BY <1>2, <3>1, <3>2, <3>3, <3>4
  <2>2. CASE scopePool = <<>>
    <3>1. opened = Len(heap) + 1 /\ heap' = Append(heap, fresh)
          /\ scopePool' = scopePool
      BY <1>5, <2>2 DEF opened
    <3>2. /\ heap' \in Seq(scope) /\ Len(heap') = Len(heap) + 1
          /\ \A o \in 1 .. Len(heap) : heap'[o] = heap[o]
          /\ heap'[Len(heap) + 1] = fresh
      BY <1>1, <1>4, <3>1, AppendProperties DEF TypeOK
    <3>3. Len(scopePool) = 0
      BY <2>2, EmptySeq
    <3> QED
      BY <1>1, <1>2, <3>1, <3>2, <3>3 DEF TypeOK
  <2> QED
    BY <2>1, <2>2
<1>7. /\ Len(heap') \in Nat
      /\ \A o \in 1 .. Len(heap) : o \in 1 .. Len(heap')
  BY <1>2, <1>6, LenProperties
<1>8. /\ scopePool' \in Seq(1 .. Len(heap'))
      /\ chain \in Seq(1 .. Len(heap'))
  BY <1>1, <1>6, <1>7, SeqMonotonic DEF TypeOK
<1>9. /\ chain' \in Seq(1 .. Len(heap'))
      /\ Len(chain') = Len(chain) + 1
      /\ chain'[Len(chain) + 1] = opened
      /\ \A d \in 1 .. Len(chain) : chain'[d] = chain[d]
  BY <1>5, <1>6, <1>8, AppendProperties
<1>10. TypeOK'
  BY <1>1, <1>3, <1>5, <1>6, <1>7, <1>8, <1>9 DEF TypeOK
<1> QED
  BY <1>6, <1>9, <1>10 DEF Opened, fresh

\* Opening a scope keeps the structural invariant.
LEMMA PushStructure ==
  ASSUME Structure, pushScope
  PROVE  Structure'
<1>1. TypeOK /\ RecyclingSafe /\ TrailLayout
  BY DEF Structure
<1>2. TypeOK' /\ Opened
  BY PushEffect
<1>3. /\ Len(heap) \in Nat /\ Len(chain) \in Nat /\ Len(trail) \in Nat
      /\ Len(scopePool) \in Nat
      /\ \A d \in 1 .. Len(chain) : chain[d] \in 1 .. Len(heap)
      /\ \A e \in 1 .. Len(scopePool) : scopePool[e] \in 1 .. Len(heap)
      /\ DOMAIN chain = 1 .. Len(chain)
      /\ DOMAIN scopePool = 1 .. Len(scopePool)
      /\ chain = <<>> <=> Len(chain) = 0
  BY <1>1, Lengths
<1>4. /\ current' = opened /\ trail' = trail
      /\ chain' = Append(chain, opened)
      /\ chain' # <<>>
  BY DEF pushScope, opened
<1> DEFINE n == Len(chain)
<1>5. /\ Len(heap') \in Nat /\ Len(chain') = n + 1 /\ Len(trail') = Len(trail)
      /\ opened \in 1 .. Len(heap') /\ Len(heap) <= Len(heap')
      /\ heap'[opened].parent = current
      /\ heap'[opened].trailBase = Len(trail)
      /\ \A d \in 1 .. n : /\ chain'[d] = chain[d]
                           /\ heap'[chain'[d]] = heap[chain[d]]
      /\ chain'[n + 1] = opened
      /\ heap'[chain'[n + 1]] = heap'[opened]
  BY <1>2, <1>3, <1>4, LenProperties DEF Opened, TypeOK
<1>6. RecyclingSafe'
  <2>1. current' = IF chain' = <<>> THEN Nil ELSE Last(chain')
    BY <1>4, <1>5 DEF Last
  <2>2. \A d \in 1 .. n + 1 : heap'[chain'[d]].parent = IF d = 1 THEN Nil ELSE chain'[d - 1]
    <3>1. \A d \in 1 .. n : heap'[chain'[d]].parent = IF d = 1 THEN Nil ELSE chain'[d - 1]
      <4> SUFFICES ASSUME NEW d \in 1 .. n
                   PROVE  heap'[chain'[d]].parent = IF d = 1 THEN Nil ELSE chain'[d - 1]
        OBVIOUS
      <4>1. heap[chain[d]].parent = IF d = 1 THEN Nil ELSE chain[d - 1]
        BY <1>1 DEF RecyclingSafe, Depth
      <4>2. d # 1 => d - 1 \in 1 .. n
        BY <1>3
      <4> QED
        BY <1>5, <4>1, <4>2
    <3>2. current = IF n = 0 THEN Nil ELSE chain[n]
      BY <1>1, <1>3 DEF RecyclingSafe, Last
    <3>3. heap'[chain'[n + 1]].parent = IF n + 1 = 1 THEN Nil ELSE chain'[n + 1 - 1]
      BY <1>3, <1>5, <3>2
    <3>4. \A d \in 1 .. n + 1 : d \in 1 .. n \/ d = n + 1
      BY <1>3
    <3> QED
      BY <3>1, <3>3, <3>4
  <2>3. IsInjective(chain')
    <3>1. DOMAIN chain' = 1 .. n + 1
      BY <1>2, <1>5, LenProperties DEF TypeOK
    <3>2. /\ \A c, d \in 1 .. n : chain[c] = chain[d] => c = d
          /\ \A d \in 1 .. n : chain'[d] = chain[d] /\ chain[d] # opened
          /\ chain'[n + 1] = opened
      BY <1>1, <1>2, <1>5, NoAliases DEF Opened
    <3>3. n \in Nat
      BY <1>3
    <3>4. \A c, d \in 1 .. n + 1 : chain'[c] = chain'[d] => c = d
      <4> HIDE DEF n
      <4>1. \A d \in 1 .. n + 1 : d \in 1 .. n \/ d = n + 1
        BY <3>3
      <4> QED
        BY <3>2, <4>1
    <3> QED
      BY <3>1, <3>4 DEF IsInjective
  <2>4. /\ DOMAIN scopePool' = 1 .. Len(scopePool') /\ Len(scopePool') \in Nat
        /\ DOMAIN chain' = 1 .. n + 1
    BY <1>2, <1>5, LenProperties DEF TypeOK
  <2>5. \A e \in 1 .. Len(scopePool') : /\ scopePool'[e] = scopePool[e]
                                        /\ e \in 1 .. Len(scopePool)
                                        /\ scopePool[e] # opened
    <3>1. \A e \in 1 .. Len(scopePool') : /\ scopePool'[e] = scopePool[e]
                                          /\ scopePool[e] # opened
      BY <1>2 DEF Opened
    <3>2. Len(scopePool') <= Len(scopePool)
      BY <1>2 DEF Opened
    <3> DEFINE p == Len(scopePool)
               q == Len(scopePool')
    <3>3. p \in Nat /\ q \in Nat /\ q <= p
      BY <1>3, <2>4, <3>2
    <3> HIDE DEF p, q
    <3>4. \A e \in 1 .. q : e \in 1 .. p
      BY <3>3
    <3> QED
      BY <3>1, <3>4 DEF p, q
  <2>6. IsInjective(scopePool')
    BY <1>1, <2>4, <2>5, NoAliases DEF IsInjective
  <2>7. \A d \in 1 .. n + 1, e \in 1 .. Len(scopePool') : chain'[d] # scopePool'[e]
    <3>1. \A d \in 1 .. n, e \in 1 .. Len(scopePool') : chain'[d] # scopePool'[e]
      BY <1>1, <1>5, <2>5, NoAliases
    <3>2. \A e \in 1 .. Len(scopePool') : chain'[n + 1] # scopePool'[e]
      BY <1>5, <2>5
    <3>3. n \in Nat
      BY <1>3
    <3> HIDE DEF n
    <3>4. \A d \in 1 .. n + 1 : d \in 1 .. n \/ d = n + 1
      BY <3>3
    <3> QED
      BY <3>1, <3>2, <3>4
  <2>8. Range(chain') \cap Range(scopePool') = {}
    BY <2>4, <2>7 DEF Range
  <2> QED
    BY <1>5, <2>1, <2>2, <2>3, <2>6, <2>8 DEF RecyclingSafe, Depth
<1>7. /\ \A d \in 1 .. n : heap[chain[d]].trailBase <= Len(trail)
      /\ \A c, d \in 1 .. n :
            c < d => heap[chain[c]].trailBase <= heap[chain[d]].trailBase
      /\ \A d \in 1 .. n : d <= 2 => heap[chain[d]].trailBase = 0
      /\ n <= 1 => trail = <<>>
  BY <1>1 DEF TrailLayout, Depth
<1>8. n \in Nat /\ Len(trail) \in Nat /\ (trail = <<>> => Len(trail) = 0)
  BY <1>3, EmptySeq
<1>9. \A d : d = n + 1 => heap'[chain'[d]].trailBase = Len(trail)
  BY <1>5
<1> HIDE DEF n
<1>10. /\ \A d \in 1 .. n + 1 : d \in 1 .. n \/ d = n + 1
       /\ \A c, d \in 1 .. n + 1 : c < d => c \in 1 .. n
       /\ n + 1 <= 2 => n <= 1
  BY <1>8
<1>11. TrailLayout'
  <2>1. \A d \in 1 .. n + 1 : heap'[chain'[d]].trailBase <= Len(trail')
    <3>1. Len(trail) <= Len(trail)
      BY <1>8
    <3> QED
      BY <1>5, <1>7, <1>9, <1>10, <3>1
  <2>2. ASSUME NEW c \in 1 .. n + 1, NEW d \in 1 .. n + 1, c < d
        PROVE  heap'[chain'[c]].trailBase <= heap'[chain'[d]].trailBase
    <3>1. c \in 1 .. n
      BY <1>10, <2>2
    <3>2. CASE d \in 1 .. n
      BY <1>5, <1>7, <2>2, <3>1, <3>2
    <3>3. CASE d = n + 1
      BY <1>5, <1>7, <1>9, <3>1, <3>3
    <3> QED
      BY <1>10, <3>2, <3>3
  <2>3. ASSUME NEW d \in 1 .. n + 1, d <= 2
        PROVE  heap'[chain'[d]].trailBase = 0
    <3>1. CASE d \in 1 .. n
      BY <1>5, <1>7, <2>3, <3>1
    <3>2. CASE d = n + 1
      BY <1>7, <1>8, <1>9, <1>10, <2>3, <3>2
    <3> QED
      BY <1>10, <3>1, <3>2
  <2>4. n + 1 <= 1 => trail' = <<>>
    BY <1>4, <1>7, <1>8
  <2> QED
    BY <1>5, <2>1, <2>2, <2>3, <2>4 DEF TrailLayout, Depth
<1> QED
  BY <1>2, <1>6, <1>11 DEF Structure

\* The state after popScope.
Closed ==
    LET base == heap[current].trailBase
        n == Len(chain)
    IN /\ n > 1
       /\ chain[n] = current
       /\ Len(chain') = n - 1
       /\ \A d \in 1 .. n - 1 : /\ chain'[d] = chain[d]
                                /\ chain[d] # current
                                /\ heap'[chain[d]] = heap[chain[d]]
       /\ current' = chain[n - 1]
       /\ Len(heap') = Len(heap)
       /\ Len(scopePool') = Len(scopePool) + 1
       /\ \A e \in 1 .. Len(scopePool) : scopePool'[e] = scopePool[e]
       /\ scopePool'[Len(scopePool) + 1] = current
       /\ base \in 0 .. Len(trail)
       /\ Len(trail') = base
       /\ \A i \in 1 .. base : trail'[i] = trail[i]

\* Rewinding a name yields an entry of the table again.
LEMMA RewoundType ==
  ASSUME TypeOK, NEW base \in Nat, NEW name \in Name
  PROVE  Rewound(name, base) \in symEntry
<1>1. Len(trail) \in Nat /\ \A i \in 1 .. Len(trail) : trail[i] \in trailEntry
  BY Lengths
<1>2. NoEntry \in symEntry
  BY MaxCtxtAssumption
     DEF NoEntry, symEntry, ScopeContext, UnresolvedContext, DeclKind
<1>3. CASE Undo(name, base) = {}
  BY <1>3 DEF Rewound, TypeOK
<1>4. CASE Undo(name, base) # {}
  <2>1. Undo(name, base) \subseteq Nat /\ Undo(name, base) \subseteq 1 .. Len(trail)
    BY <1>1 DEF Undo
  <2>2. Min(Undo(name, base)) \in 1 .. Len(trail)
    BY <1>4, <2>1, MinProperties
  <2>3. trail[Min(Undo(name, base))] \in trailEntry
    BY <1>1, <2>2
  <2> HIDE DEF Undo
  <2> QED
    BY <1>2, <1>4, <2>3 DEF Rewound, trailEntry
<1> QED
  BY <1>3, <1>4

\* What popScope does.
LEMMA PopEffect ==
  ASSUME Structure, popScope
  PROVE  TypeOK' /\ Closed
<1>1. TypeOK /\ RecyclingSafe /\ TrailLayout
  BY DEF Structure
<1>2. /\ Len(heap) \in Nat /\ Len(chain) \in Nat /\ Len(trail) \in Nat
      /\ Len(scopePool) \in Nat
      /\ \A o \in 1 .. Len(heap) : heap[o] \in scope
      /\ \A d \in 1 .. Len(chain) : chain[d] \in 1 .. Len(heap)
      /\ chain = <<>> <=> Len(chain) = 0
  BY <1>1, Lengths
<1> DEFINE n == Len(chain)
           base == heap[current].trailBase
<1>3. /\ current # Nil /\ heap[current].parent # Nil
      /\ symbols' = [m \in Name |-> Rewound(m, base)]
      /\ trail' = SubSeq(trail, 1, base)
      /\ current' = heap[current].parent
      /\ heap' = [heap EXCEPT ![current].parent = Nil]
      /\ scopePool' = Append(scopePool, current)
      /\ chain' = Front(chain)
      /\ UNCHANGED nextCtxt
  BY DEF popScope
<1>4. n > 0 /\ current = chain[n] /\ current \in 1 .. Len(heap)
  <2>1. n \in Nat /\ n # 0 /\ current = chain[n]
    BY <1>1, <1>2, <1>3, ParentLinks
  <2> QED
    BY <1>2, <2>1
<1>5. n > 1 /\ heap[current].parent = chain[n - 1]
  <2>1. n \in 1 .. n /\ n \in Nat
    BY <1>2, <1>4
  <2>2. heap[chain[n]].parent = IF n = 1 THEN Nil ELSE chain[n - 1]
    BY <1>1, <2>1, ParentLinks
  <2>3. n # 1
    BY <1>3, <1>4, <2>2
  <2> QED
    BY <1>4, <2>1, <2>2, <2>3
<1>6. /\ chain' \in Seq(1 .. Len(heap)) /\ Len(chain') = n - 1
      /\ \A d \in 1 .. n - 1 : chain'[d] = chain[d]
  <2>1. chain \in Seq(1 .. Len(heap)) /\ chain # <<>>
    BY <1>1, <1>2, <1>4 DEF TypeOK
  <2> QED
    BY <1>3, <2>1, FrontProperties
<1>7. \A d \in 1 .. n - 1 : chain[d] # current
  BY <1>1, <1>2, <1>4, NoAliases
<1>8. base \in 0 .. Len(trail)
  <2>1. base <= Len(trail)
    BY <1>1, <1>2, <1>4 DEF TrailLayout, Depth
  <2>2. base \in Nat
    BY <1>2, <1>4 DEF scope
  <2> QED
    BY <1>2, <2>1, <2>2
<1>9. /\ trail' \in Seq(trailEntry) /\ Len(trail') = base
      /\ \A i \in 1 .. base : trail'[i] = trail[i]
  BY <1>1, <1>3, <1>8, PrefixProperties DEF TypeOK
<1>10. /\ heap' \in Seq(scope) /\ Len(heap') = Len(heap)
       /\ \A o \in 1 .. Len(heap) : o # current => heap'[o] = heap[o]
  <2> DEFINE e == [heap[current] EXCEPT !.parent = Nil]
  <2>1. e \in scope
    BY <1>2, <1>4 DEF scope, Nil
  <2>2. heap' = [heap EXCEPT ![current] = e]
    BY <1>3
  <2> HIDE DEF e
  <2> QED
    BY <1>1, <1>4, <2>1, <2>2, ExceptSeq DEF TypeOK
<1>11. /\ scopePool' \in Seq(1 .. Len(heap))
       /\ Len(scopePool') = Len(scopePool) + 1
       /\ \A e \in 1 .. Len(scopePool) : scopePool'[e] = scopePool[e]
       /\ scopePool'[Len(scopePool) + 1] = current
  BY <1>1, <1>3, <1>4, AppendProperties DEF TypeOK
<1>12. symbols' \in [Name -> symEntry]
  <2>1. base \in Nat
    BY <1>2, <1>8
  <2> HIDE DEF base
  <2> QED
    BY <1>1, <1>3, <2>1, RewoundType
<1>13. current' \in 0 .. Len(heap)
  BY <1>2, <1>3, <1>5
<1>14. TypeOK'
  BY <1>1, <1>3, <1>6, <1>9, <1>10, <1>11, <1>12, <1>13 DEF TypeOK
<1> QED
  BY <1>2, <1>3, <1>4, <1>5, <1>6, <1>7, <1>8, <1>9, <1>10, <1>11, <1>14, SMTT(30) DEF Closed

\* Closing a scope keeps the structural invariant.
LEMMA PopStructure ==
  ASSUME Structure, popScope
  PROVE  Structure'
<1>1. TypeOK /\ RecyclingSafe /\ TrailLayout
  BY DEF Structure
<1>2. TypeOK' /\ Closed
  BY PopEffect
<1> DEFINE n == Len(chain)
           p == Len(scopePool)
           base == heap[current].trailBase
<1>3. n \in Nat /\ p \in Nat /\ Len(trail) \in Nat
  BY <1>1, Lengths
<1>4. /\ n > 1 /\ chain[n] = current
      /\ Len(chain') = n - 1
      /\ \A d \in 1 .. n - 1 : /\ chain'[d] = chain[d]
                               /\ heap'[chain'[d]] = heap[chain[d]]
      /\ current' = chain[n - 1]
      /\ Len(scopePool') = p + 1
      /\ \A e \in 1 .. p : scopePool'[e] = scopePool[e]
      /\ scopePool'[p + 1] = current
      /\ base \in 0 .. Len(trail)
      /\ Len(trail') = base
  BY <1>2 DEF Closed
<1>5. /\ DOMAIN scopePool' = 1 .. p + 1
      /\ DOMAIN chain' = 1 .. n - 1
  BY <1>2, <1>4, LenProperties DEF TypeOK
<1>6. n \in 1 .. n /\ \A d \in 1 .. n - 1 : d \in 1 .. n /\ d < n
  BY <1>3, <1>4
<1>7. \A e \in 1 .. p + 1 : e \in 1 .. p \/ e = p + 1
  BY <1>3
<1>8. RecyclingSafe'
  <2>1. current' = IF chain' = <<>> THEN Nil ELSE Last(chain')
    <3>1. chain' # <<>>
      BY <1>3, <1>4, EmptySeq
    <3>2. n - 1 \in 1 .. n - 1
      BY <1>3, <1>4
    <3>3. Last(chain') = chain[n - 1]
      BY <1>4, <3>2 DEF Last
    <3> QED
      BY <1>4, <3>1, <3>3
  <2>2. \A d \in 1 .. n - 1 :
           heap'[chain'[d]].parent = IF d = 1 THEN Nil ELSE chain'[d - 1]
    <3> SUFFICES ASSUME NEW d \in 1 .. n - 1
                 PROVE  heap'[chain'[d]].parent = IF d = 1 THEN Nil ELSE chain'[d - 1]
      OBVIOUS
    <3>1. heap[chain[d]].parent = IF d = 1 THEN Nil ELSE chain[d - 1]
      BY <1>1, <1>6, ParentLinks
    <3>2. d # 1 => d - 1 \in 1 .. n - 1
      BY <1>3
    <3> QED
      BY <1>4, <3>1, <3>2
  <2>3. IsInjective(chain')
    <3>1. \A c, d \in 1 .. n - 1 : chain'[c] = chain'[d] => c = d
      BY <1>1, <1>4, <1>6, NoAliases
    <3> QED
      BY <1>5, <3>1 DEF IsInjective
  <2>4. IsInjective(scopePool')
    <3>1. \A e, f \in 1 .. p : scopePool'[e] = scopePool'[f] => e = f
      BY <1>1, <1>4, NoAliases
    <3>2. \A e \in 1 .. p : scopePool'[e] # scopePool'[p + 1]
      BY <1>1, <1>4, <1>6, NoAliases
    <3>3. \A e, f \in 1 .. p + 1 : scopePool'[e] = scopePool'[f] => e = f
      BY <1>7, <3>1, <3>2
    <3> QED
      BY <1>5, <3>3 DEF IsInjective
  <2>5. Range(chain') \cap Range(scopePool') = {}
    <3>1. \A d \in 1 .. n - 1, e \in 1 .. p : chain'[d] # scopePool'[e]
      BY <1>1, <1>4, <1>6, NoAliases
    <3>2. \A d \in 1 .. n - 1 : chain'[d] # scopePool'[p + 1]
      BY <1>2, <1>4 DEF Closed
    <3>3. \A d \in 1 .. n - 1, e \in 1 .. p + 1 : chain'[d] # scopePool'[e]
      BY <1>7, <3>1, <3>2
    <3> QED
      BY <1>5, <3>3 DEF Range
  <2> QED
    BY <1>4, <2>1, <2>2, <2>3, <2>4, <2>5 DEF RecyclingSafe, Depth
<1>9. TrailLayout'
  <2>1. \A d \in 1 .. n - 1 : heap'[chain'[d]].trailBase <= Len(trail')
    BY <1>1, <1>4, <1>6 DEF TrailLayout, Depth
  <2>2. \A c, d \in 1 .. n - 1 :
           c < d => heap'[chain'[c]].trailBase <= heap'[chain'[d]].trailBase
    BY <1>1, <1>4, <1>6 DEF TrailLayout, Depth
  <2>3. \A d \in 1 .. n - 1 : d <= 2 => heap'[chain'[d]].trailBase = 0
    BY <1>1, <1>4, <1>6 DEF TrailLayout, Depth
  <2>4. n - 1 <= 1 => trail' = <<>>
    <3> HAVE n - 1 <= 1
    <3>1. n <= 2
      BY <1>3
    <3>2. base = 0
      BY <1>1, <1>4, <1>6, <3>1 DEF TrailLayout, Depth
    <3>3. trail' \in Seq(trailEntry)
      BY <1>2 DEF TypeOK
    <3> QED
      BY <1>4, <3>2, <3>3, EmptySeq
  <2> QED
    BY <1>4, <2>1, <2>2, <2>3, <2>4 DEF TrailLayout, Depth
<1> QED
  BY <1>2, <1>8, <1>9 DEF Structure

\* The state after declare.
Declared(name, kind) ==
    LET n == Len(chain)
        ctx == heap[current].ctx
        undo == [name |-> name, prev |-> symbols[name],
                 had |-> symbols[name] # NoEntry]
    IN /\ n > 0 /\ chain[n] = current /\ current \in 1 .. Len(heap)
       /\ \A m \in Name : symbols'[m] = IF m = name THEN [ctx |-> ctx, kind |-> kind]
                                                    ELSE symbols[m]
       /\ \A i \in 1 .. Len(trail) : trail'[i] = trail[i]
       /\ \/ /\ trail' = trail
             /\ n = 1 \/ (symbols[name].ctx = ctx /\ symbols[name] # NoEntry)
          \/ /\ Len(trail') = Len(trail) + 1
             /\ trail'[Len(trail) + 1] = undo
             /\ n > 1
             /\ symbols[name].ctx # ctx \/ symbols[name] = NoEntry

\* What declare does, with or without an undo record.
LEMMA DeclareEffect ==
  ASSUME Structure, NEW name \in Name, NEW kind \in DeclKind, declare(name, kind)
  PROVE  TypeOK' /\ Declared(name, kind)
<1>1. TypeOK /\ RecyclingSafe
  BY DEF Structure
<1> DEFINE n == Len(chain)
           ctx == heap[current].ctx
           prev == symbols[name]
           had == prev # NoEntry
           undo == [name |-> name, prev |-> prev, had |-> had]
<1>2. /\ current # Nil
      /\ trail' = IF (had /\ prev.ctx = ctx) \/ rootScope THEN trail
                  ELSE Append(trail, undo)
      /\ symbols' = [symbols EXCEPT ![name] = [ctx |-> ctx, kind |-> kind]]
      /\ UNCHANGED <<heap, current, scopePool, nextCtxt, chain>>
  BY DEF declare
<1>3. n \in Nat /\ n # 0 /\ current = chain[n] /\ current \in 1 .. Len(heap)
  <2>1. n \in Nat /\ n # 0 /\ current = chain[n]
    BY <1>1, <1>2, Lengths, ParentLinks
  <2>2. n \in 1 .. n
    BY <2>1
  <2> QED
    BY <1>1, <2>1, <2>2, Lengths
<1>4. ctx \in ScopeContext
  <2>1. heap[current] \in scope
    BY <1>1, <1>3, Lengths
  <2> QED
    BY <2>1 DEF scope
<1>5. /\ symbols' \in [Name -> symEntry]
      /\ \A m \in Name : symbols'[m] = IF m = name THEN [ctx |-> ctx, kind |-> kind]
                                                   ELSE symbols[m]
  BY <1>1, <1>2, <1>4 DEF TypeOK, symEntry
<1>6. undo \in trailEntry
  BY <1>1 DEF TypeOK, trailEntry
<1>7. rootScope <=> n = 1
  <2>1. n \in 1 .. n /\ (n # 1 => n - 1 \in 1 .. n)
    <3>1. n \in Nat /\ n # 0
      BY <1>3
    <3> HIDE DEF n
    <3> QED
      BY <3>1
  <2>2. heap[current].parent = IF n = 1 THEN Nil ELSE chain[n - 1]
    BY <1>1, <1>3, <2>1, ParentLinks
  <2>3. n # 1 => chain[n - 1] # Nil
    <3>1. n # 1 => chain[n - 1] \in 1 .. Len(heap)
      BY <1>1, <2>1, Lengths
    <3> QED
      BY <3>1 DEF Nil
  <2> QED
    BY <1>2, <2>2, <2>3 DEF rootScope
<1>8. /\ Append(trail, undo) \in Seq(trailEntry)
      /\ Len(Append(trail, undo)) = Len(trail) + 1
      /\ \A i \in 1 .. Len(trail) : Append(trail, undo)[i] = trail[i]
      /\ Append(trail, undo)[Len(trail) + 1] = undo
  BY <1>1, <1>6, AppendProperties DEF TypeOK
<1> HIDE DEF undo
<1>9. trail' \in Seq(trailEntry) /\ \A i \in 1 .. Len(trail) : trail'[i] = trail[i]
  BY <1>1, <1>2, <1>8 DEF TypeOK
<1>10. TypeOK'
  BY <1>1, <1>2, <1>5, <1>9 DEF TypeOK
<1>11. \/ /\ trail' = trail
          /\ n = 1 \/ (prev.ctx = ctx /\ prev # NoEntry)
       \/ /\ Len(trail') = Len(trail) + 1
          /\ trail'[Len(trail) + 1] = undo
          /\ n > 1
          /\ prev.ctx # ctx \/ prev = NoEntry
  <2>1. n \in Nat /\ n # 0
    BY <1>3
  <2>2. CASE n = 1 \/ (had /\ prev.ctx = ctx)
    BY <1>2, <1>7, <2>2
  <2>3. CASE ~(n = 1 \/ (had /\ prev.ctx = ctx))
    <3>1. trail' = Append(trail, undo)
      BY <1>2, <1>7, <2>3
    <3>2. n > 1
      <4> HIDE DEF n
      <4> QED
        BY <2>1, <2>3
    <3>3. prev.ctx # ctx \/ prev = NoEntry
      BY <2>3
    <3> HIDE DEF n, ctx, had, prev
    <3> QED
      BY <1>8, <3>1, <3>2, <3>3
  <2> QED
    BY <2>2, <2>3
<1> QED
  BY <1>3, <1>5, <1>9, <1>10, <1>11 DEF Declared, undo

\* Declaring a name keeps the structural invariant.
LEMMA DeclareStructure ==
  ASSUME Structure, NEW name \in Name, NEW kind \in DeclKind, declare(name, kind)
  PROVE  Structure'
<1>1. TypeOK /\ RecyclingSafe /\ TrailLayout
  BY DEF Structure
<1>2. TypeOK' /\ Declared(name, kind)
  BY DeclareEffect
<1>3. UNCHANGED <<heap, current, scopePool, chain>>
  BY DEF declare
<1>4. RecyclingSafe'
  BY <1>1, <1>3 DEF RecyclingSafe, Depth
<1> DEFINE n == Len(chain)
<1>5. n \in Nat /\ Len(trail) \in Nat /\ Len(trail) <= Len(trail')
      /\ Len(trail') \in Nat /\ (n <= 1 => trail' = trail)
  BY <1>1, <1>2, Lengths, LenProperties DEF Declared, TypeOK
<1>6. \A d \in 1 .. n : heap[chain[d]].trailBase \in Nat
  <2>1. \A d \in 1 .. n : heap[chain[d]] \in scope
    BY <1>1, Lengths
  <2> QED
    BY <2>1 DEF scope
<1>7. \A d \in 1 .. n : heap[chain[d]].trailBase <= Len(trail')
  BY <1>1, <1>5, <1>6 DEF TrailLayout, Depth
<1>8. TrailLayout'
  BY <1>1, <1>3, <1>5, <1>7 DEF TrailLayout, Depth
<1> QED
  BY <1>2, <1>4, <1>8 DEF Structure

\* The structural invariant holds initially.
LEMMA InitStructure ==
  ASSUME TableInit
  PROVE  Structure
<1> USE DEF TableInit
<1>1. TypeOK
  BY EmptySeq, MaxCtxtAssumption
     DEF TypeOK, Nil, symEntry, NoEntry, ScopeContext, DeclKind,
         UnresolvedContext, TopLevelContext
<1>2. Len(<<>>) = 0 /\ DOMAIN <<>> = {}
  BY EmptySeq
<1>3. RecyclingSafe /\ TrailLayout
  BY <1>2 DEF RecyclingSafe, TrailLayout, Depth, IsInjective, Range
<1> QED
  BY <1>1, <1>3 DEF Structure

\* Every step of the table keeps its structure.
LEMMA StructureStep ==
  ASSUME Structure, [TableNext]_tableVars
  PROVE  Structure'
<1>1. CASE pushScope
  BY <1>1, PushStructure
<1>2. CASE popScope
  BY <1>2, PopStructure
<1>3. ASSUME NEW name \in Name, NEW kind \in DeclKind, declare(name, kind)
      PROVE  Structure'
  BY <1>3, DeclareStructure
<1>4. CASE UNCHANGED tableVars
  BY <1>4 DEF tableVars, Structure, TypeOK, RecyclingSafe, TrailLayout, Depth
<1> QED
  BY <1>1, <1>2, <1>3, <1>4 DEF TableNext

\* The table is well typed, recycled scope objects never alias an open one, and
\* the open scopes cut the undo trail into consecutive segments, always.
THEOREM StructureInvariant == TableSpec => []Structure
<1>1. TableInit => Structure
  BY InitStructure
<1>2. Structure /\ [TableNext]_tableVars => Structure'
  BY StructureStep
<1> QED
  BY <1>1, <1>2, PTL DEF TableSpec

\* Every value the resolver's table holds is of the type the Go code declares.
THEOREM TableAlwaysTyped == TableSpec => []TypeOK
BY StructureInvariant, PTL DEF Structure

\* A scope object on the free list is never one that is still open, whatever the
\* order of pushScope and popScope (resolver.go, scopePool).
THEOREM RecyclingAlwaysSafe == TableSpec => []RecyclingSafe
BY StructureInvariant, PTL DEF Structure
-----------------------------------------------------------------------------
(***************************************************************************)
(* What the scopes see. Visible(d, n) changes only for the innermost scope *)
(* and only for the name declared (the ...Visible lemmas). From this follow*)
(* the inductive invariant, that a lookup agrees with the walk up the      *)
(* chain, and that the table implements ScopeChain.                        *)
(***************************************************************************)

\* Rewound over an explicit table and trail, so that one lemma serves the state
\* before a step and the state after it.
UndoIn(tr, name, base) == {i \in base + 1 .. Len(tr) : tr[i].name = name}

RewoundIn(sym, tr, name, base) ==
    IF UndoIn(tr, name, base) = {} THEN sym[name]
    ELSE LET u == tr[Min(UndoIn(tr, name, base))]
         IN IF u.had THEN u.prev ELSE NoEntry

\* Rewound is RewoundIn on the table and the trail of either state.
LEMMA RewoundIsRewoundIn ==
  ASSUME NEW name, NEW base
  PROVE  /\ Rewound(name, base) = RewoundIn(symbols, trail, name, base)
         /\ Rewound(name, base)' = RewoundIn(symbols', trail', name, base)
BY DEF Rewound, RewoundIn, Undo, UndoIn

\* Rewinding restores what the oldest undo record of the name holds.
LEMMA OldestRecord ==
  ASSUME NEW sym, NEW tr, Len(tr) \in Nat, NEW name, NEW base \in Nat,
         NEW i \in base + 1 .. Len(tr), tr[i].name = name,
         \A j \in base + 1 .. Len(tr) : tr[j].name = name => i <= j
  PROVE  RewoundIn(sym, tr, name, base) =
            IF tr[i].had THEN tr[i].prev ELSE NoEntry
<1> DEFINE U == UndoIn(tr, name, base)
<1>1. U \subseteq Nat /\ i \in U /\ \A j \in U : i <= j
  BY DEF UndoIn
<1>2. Min(U) = i
  <2> HIDE DEF U
  <2>1. /\ Min(U) \in U /\ Min(U) <= i /\ i <= Min(U)
        /\ Min(U) \in Nat /\ i \in Nat
    BY <1>1, MinProperties
  <2> QED
    BY <2>1
<1>3. U # {}
  BY <1>1
<1> QED
  BY <1>2, <1>3 DEF RewoundIn

\* A name without an undo record keeps its entry.
LEMMA NoRecord ==
  ASSUME NEW sym, NEW tr, NEW name, NEW base,
         \A j \in base + 1 .. Len(tr) : tr[j].name # name
  PROVE  RewoundIn(sym, tr, name, base) = sym[name]
BY DEF RewoundIn, UndoIn

\* A name with an undo record above the base has an oldest one.
LEMMA OldestRecordExists ==
  ASSUME NEW tr, Len(tr) \in Nat, NEW name, NEW base \in Nat,
         NEW k \in base + 1 .. Len(tr), tr[k].name = name
  PROVE  \E i \in base + 1 .. Len(tr) :
            /\ tr[i].name = name /\ i <= k
            /\ \A j \in base + 1 .. Len(tr) : tr[j].name = name => i <= j
<1> DEFINE U == UndoIn(tr, name, base)
<1>1. U \subseteq Nat /\ k \in U
  BY DEF UndoIn
<1>2. PICK i \in U : \A j \in U : i <= j
  <2> HIDE DEF U
  <2> QED
    BY <1>1, LeastElement
<1> QED
  BY <1>1, <1>2 DEF UndoIn

\* Closing two scopes one after the other rewinds to the same table as
\* rewinding both at once.
LEMMA RewindInStages ==
  ASSUME NEW sym, NEW tr, Len(tr) \in Nat, NEW name,
         NEW b \in Nat, NEW c \in Nat, b <= c, c <= Len(tr),
         NEW sym2, sym2[name] = RewoundIn(sym, tr, name, c),
         NEW tr2, Len(tr2) = c, \A i \in 1 .. c : tr2[i] = tr[i]
  PROVE  RewoundIn(sym2, tr2, name, b) = RewoundIn(sym, tr, name, b)
<1>1. CASE \E k \in b + 1 .. c : tr[k].name = name
  <2>1. PICK k \in b + 1 .. c : tr[k].name = name
    BY <1>1
  <2>2. k \in b + 1 .. Len(tr)
    OBVIOUS
  <2>3. PICK i \in b + 1 .. Len(tr) :
            /\ tr[i].name = name /\ i <= k
            /\ \A j \in b + 1 .. Len(tr) : tr[j].name = name => i <= j
    BY <2>1, <2>2, OldestRecordExists, ZenonT(60)
  <2>4. RewoundIn(sym, tr, name, b) = IF tr[i].had THEN tr[i].prev ELSE NoEntry
    BY <2>3, OldestRecord
  <2>5. i \in b + 1 .. Len(tr2) /\ Len(tr2) \in Nat /\ tr2[i] = tr[i]
    BY <2>1, <2>3
  <2>6. \A j \in b + 1 .. Len(tr2) : /\ j \in b + 1 .. Len(tr)
                                     /\ tr2[j] = tr[j]
    OBVIOUS
  <2>7. RewoundIn(sym2, tr2, name, b) = IF tr2[i].had THEN tr2[i].prev ELSE NoEntry
    BY <2>3, <2>5, <2>6, OldestRecord
  <2> QED
    BY <2>4, <2>5, <2>7
<1>2. CASE \A k \in b + 1 .. c : tr[k].name # name
  <2>1. \A j \in b + 1 .. Len(tr2) : tr2[j].name # name
    BY <1>2
  <2>2. RewoundIn(sym2, tr2, name, b) = RewoundIn(sym, tr, name, c)
    BY <2>1, NoRecord
  <2>3. UndoIn(tr, name, b) = UndoIn(tr, name, c)
    BY <1>2 DEF UndoIn
  <2> QED
    BY <2>2, <2>3 DEF RewoundIn
<1> QED
  BY <1>1, <1>2

\* Recording what a name meant before it is rebound hides the rebinding from
\* every rewind to an older base.
LEMMA RecordHidesRebinding ==
  ASSUME NEW sym, NEW tr, Len(tr) \in Nat, NEW name, NEW m,
         NEW b \in Nat, b <= Len(tr),
         NEW sym2, m # name => sym2[m] = sym[m],
         NEW tr2, Len(tr2) = Len(tr) + 1,
         \A i \in 1 .. Len(tr) : tr2[i] = tr[i],
         tr2[Len(tr) + 1] = [name |-> name, prev |-> sym[name],
                             had |-> sym[name] # NoEntry]
  PROVE  RewoundIn(sym2, tr2, m, b) = RewoundIn(sym, tr, m, b)
<1> DEFINE last == Len(tr) + 1
<1>1. /\ \A j \in b + 1 .. Len(tr) : j \in b + 1 .. Len(tr2) /\ j <= last
      /\ last \in b + 1 .. Len(tr2)
      /\ \A j \in b + 1 .. Len(tr2) : j \in b + 1 .. Len(tr) \/ j = last
      /\ Len(tr2) \in Nat
      /\ \A j \in b + 1 .. Len(tr) : j \in 1 .. Len(tr)
  OBVIOUS
<1>2. /\ \A j \in b + 1 .. Len(tr) : tr2[j] = tr[j]
      /\ tr2[last] = [name |-> name, prev |-> sym[name],
                      had |-> sym[name] # NoEntry]
  BY <1>1
<1>3. tr2[last].name = name
  BY <1>2
<1>4. (IF tr2[last].had THEN tr2[last].prev ELSE NoEntry) = sym[name]
  <2>1. tr2[last].prev = sym[name]
    BY <1>2
  <2>2. tr2[last].had = (sym[name] # NoEntry)
    BY <1>2
  <2>3. CASE sym[name] = NoEntry
    BY <2>2, <2>3
  <2>4. CASE sym[name] # NoEntry
    BY <2>1, <2>2, <2>4
  <2> QED
    BY <2>3, <2>4
<1> HIDE DEF last
<1>5. CASE \E k \in b + 1 .. Len(tr) : tr[k].name = m
  <2>0. PICK k \in b + 1 .. Len(tr) : tr[k].name = m
    BY <1>5
  <2>1. PICK i \in b + 1 .. Len(tr) :
            /\ tr[i].name = m /\ i <= k
            /\ \A j \in b + 1 .. Len(tr) : tr[j].name = m => i <= j
    BY <2>0, OldestRecordExists
  <2>2. RewoundIn(sym, tr, m, b) = IF tr[i].had THEN tr[i].prev ELSE NoEntry
    BY <2>1, OldestRecord
  <2>3. \A j \in b + 1 .. Len(tr2) : tr2[j].name = m => i <= j
    <3>1. i <= last
      BY <1>1
    <3> QED
      BY <1>1, <1>2, <2>1, <3>1
  <2>4. i \in b + 1 .. Len(tr2) /\ tr2[i] = tr[i]
    BY <1>1, <1>2
  <2>5. RewoundIn(sym2, tr2, m, b) = IF tr2[i].had THEN tr2[i].prev ELSE NoEntry
    BY <1>1, <2>1, <2>3, <2>4, OldestRecord
  <2> QED
    BY <2>2, <2>4, <2>5
<1>6. CASE \A k \in b + 1 .. Len(tr) : tr[k].name # m
  <2>1. RewoundIn(sym, tr, m, b) = sym[m]
    BY <1>6, NoRecord
  <2>2. CASE m = name
    <3>1. \A j \in b + 1 .. Len(tr2) : tr2[j].name = m => last <= j
      <4>1. last <= last
        BY DEF last
      <4> QED
        BY <1>1, <1>2, <1>6, <4>1
    <3>2. RewoundIn(sym2, tr2, m, b) =
             IF tr2[last].had THEN tr2[last].prev ELSE NoEntry
      BY <1>1, <1>3, <2>2, <3>1, OldestRecord
    <3> QED
      BY <1>4, <2>1, <2>2, <3>2
  <2>3. CASE m # name
    <3>1. \A j \in b + 1 .. Len(tr2) : tr2[j].name # m
      BY <1>1, <1>2, <1>3, <1>6, <2>3
    <3>2. RewoundIn(sym2, tr2, m, b) = sym2[m]
      BY <3>1, NoRecord
    <3> QED
      BY <2>1, <2>3, <3>2
  <2> QED
    BY <2>2, <2>3
<1> QED
  BY <1>5, <1>6
-----------------------------------------------------------------------------

\* Opening a scope changes nothing an open scope sees; the new scope starts out
\* seeing what its parent sees.
LEMMA PushVisible ==
  ASSUME Structure, pushScope
  PROVE  /\ Len(chain') = Len(chain) + 1
         /\ \A d \in 1 .. Len(chain) :
              /\ ctxAt(d)' = ctxAt(d)
              /\ \A m \in Name : Visible(d, m)' = Visible(d, m)
         /\ \A d : d = Len(chain) + 1 =>
              /\ ctxAt(d)' = nextCtxt
              /\ \A m \in Name : Visible(d, m)' = symbols[m]
<1> DEFINE n == Len(chain)
<1>1. TypeOK /\ TypeOK' /\ Opened
  BY PushEffect DEF Structure
<1>2. /\ n \in Nat /\ Len(trail) \in Nat
      /\ \A d \in 1 .. n : chain[d] \in 1 .. Len(heap)
  BY <1>1, Lengths
<1>3. /\ Len(chain') = n + 1
      /\ heap'[chain'[n + 1]] = [parent |-> current, ctx |-> nextCtxt,
                                 trailBase |-> Len(trail)]
      /\ \A d \in 1 .. n : heap'[chain'[d]] = heap[chain[d]]
  BY <1>1, <1>2 DEF Opened
<1>4. symbols' = symbols /\ trail' = trail
  BY DEF pushScope
<1>5. \A m \in Name : \A b : Rewound(m, b)' = Rewound(m, b)
  BY <1>4 DEF Rewound, Undo
<1>6. \A m \in Name : Rewound(m, Len(trail)) = symbols[m]
  <2>1. \A j \in Len(trail) + 1 .. Len(trail) : FALSE
    BY <1>2
  <2>2. \A m : Undo(m, Len(trail)) = {}
    BY <2>1, Zenon DEF Undo
  <2> QED
    BY <2>2 DEF Rewound
<1> HIDE DEF n
<1>7. ASSUME NEW d \in 1 .. n, NEW m \in Name
      PROVE  Visible(d, m)' = Visible(d, m)
  <2>1. Visible(d, m)' = Rewound(m, heap'[chain'[d + 1]].trailBase)
    <3>1. d # n + 1
      BY <1>2
    <3>2. Visible(d, m)' = Rewound(m, heap[chain[d + 1]].trailBase)'
      BY <1>3, <3>1 DEF Visible, Depth
    <3> QED
      BY <3>2, <1>4 DEF Rewound, Undo
  <2>2. CASE d = n
    <3>1. heap'[chain'[d + 1]].trailBase = Len(trail)
      BY <1>3, <2>2
    <3> QED
      BY <1>6, <2>1, <2>2, <3>1 DEF Visible, Depth, n
  <2>3. CASE d # n
    <3>1. d + 1 \in 1 .. n
      BY <1>2, <2>3
    <3> QED
      BY <1>3, <2>1, <2>3, <3>1 DEF Visible, Depth, n
  <2> QED
    BY <2>2, <2>3
<1>8. ASSUME NEW d, d = n + 1
      PROVE  ctxAt(d)' = nextCtxt /\ \A m \in Name : Visible(d, m)' = symbols[m]
  BY <1>3, <1>4, <1>8 DEF ctxAt, Visible, Depth
<1>9. \A d \in 1 .. n : ctxAt(d)' = ctxAt(d)
  BY <1>3 DEF ctxAt
<1> QED
  BY <1>3, <1>7, <1>8, <1>9 DEF n

\* Closing a scope changes nothing an enclosing scope sees.
LEMMA PopVisible ==
  ASSUME Structure, popScope
  PROVE  /\ Len(chain') = Len(chain) - 1
         /\ \A d \in 1 .. Len(chain) - 1 :
              /\ ctxAt(d)' = ctxAt(d)
              /\ \A m \in Name : Visible(d, m)' = Visible(d, m)
<1> DEFINE n == Len(chain)
           base == heap[current].trailBase
<1>1. TypeOK /\ TypeOK' /\ Closed /\ TrailLayout
  BY PopEffect DEF Structure
<1>2. n \in Nat /\ Len(trail) \in Nat
  BY <1>1, Lengths
<1>3. /\ n > 1 /\ Len(chain') = n - 1 /\ chain[n] = current
      /\ \A d \in 1 .. n - 1 : heap'[chain'[d]] = heap[chain[d]]
      /\ base \in 0 .. Len(trail)
      /\ Len(trail') = base
      /\ \A i \in 1 .. base : trail'[i] = trail[i]
  BY <1>1 DEF Closed
<1>4. \A m \in Name : symbols'[m] = Rewound(m, base)
  BY DEF popScope
<1>5. \A d \in 1 .. n : heap[chain[d]].trailBase \in Nat
  <2>1. \A d \in 1 .. n : heap[chain[d]] \in scope
    BY <1>1, Lengths
  <2> QED
    BY <2>1 DEF scope
<1>6. ASSUME NEW d \in 1 .. n - 1, NEW m \in Name
      PROVE  Visible(d, m)' = Visible(d, m)
  <2>1. d + 1 \in 1 .. n /\ d # n
    <3> HIDE DEF n
    <3> QED
      BY <1>2
  <2>2. Visible(d, m) = Rewound(m, heap[chain[d + 1]].trailBase)
    BY <2>1 DEF Visible, Depth
  <2>3. CASE d = n - 1
    <3>1. Visible(d, m)' = symbols'[m]
      BY <1>3, <2>3 DEF Visible, Depth
    <3>2. chain[d + 1] = current
      <4>1. d + 1 = n
        <5> HIDE DEF n
        <5> QED
          BY <1>2, <2>3
      <4> QED
        BY <1>3, <4>1
    <3> QED
      BY <1>4, <2>2, <3>1, <3>2
  <2>4. CASE d # n - 1
    <3> DEFINE b == heap[chain[d + 1]].trailBase
    <3>1. d + 1 \in 1 .. n - 1 /\ n \in 1 .. n /\ d + 1 < n
      <4> HIDE DEF n
      <4> QED
        BY <1>2, <1>3, <2>4
    <3>2. Visible(d, m)' = Rewound(m, heap[chain[d + 1]].trailBase)'
      BY <1>3, <2>4 DEF Visible, Depth
    <3>3. heap'[chain'[d + 1]].trailBase = b
      BY <1>3, <3>1
    <3>4. Visible(d, m)' = RewoundIn(symbols', trail', m, b)
      BY <3>2, <3>3 DEF Rewound, RewoundIn, Undo, UndoIn
    <3>5. Visible(d, m) = RewoundIn(symbols, trail, m, b)
      BY <2>2, RewoundIsRewoundIn
    <3>6. b \in Nat /\ b <= base
      BY <1>1, <1>3, <1>5, <2>1, <3>1 DEF TrailLayout, Depth
    <3>7. symbols'[m] = RewoundIn(symbols, trail, m, base)
      BY <1>4, RewoundIsRewoundIn
    <3>8. base \in Nat /\ base <= Len(trail)
      <4> HIDE DEF base
      <4> QED
        BY <1>2, <1>3
    <3> HIDE DEF b, base
    <3>9. RewoundIn(symbols', trail', m, b) = RewoundIn(symbols, trail, m, b)
      BY <1>2, <1>3, <3>6, <3>7, <3>8, RewindInStages
    <3> QED
      BY <3>4, <3>5, <3>9
  <2> QED
    BY <2>3, <2>4
<1>7. \A d \in 1 .. n - 1 : ctxAt(d)' = ctxAt(d)
  BY <1>3 DEF ctxAt
<1> QED
  BY <1>3, <1>6, <1>7

\* A binding changes what its own scope sees and nothing else. Without an undo
\* record this holds because the scope already owned the name: some record of
\* the scope must then lie between it and the scopes around it.
LEMMA DeclareVisible ==
  ASSUME Structure, ContextsFresh, Layered,
         NEW name \in Name, NEW kind \in DeclKind, declare(name, kind)
  PROVE  \A d \in 1 .. Len(chain) :
            /\ ctxAt(d)' = ctxAt(d)
            /\ \A m \in Name :
                 Visible(d, m)' =
                    IF d = Len(chain) /\ m = name
                    THEN [ctx |-> ctxAt(d), kind |-> kind]
                    ELSE Visible(d, m)
<1> DEFINE n == Len(chain)
           ctx == heap[current].ctx
<1>1. TypeOK /\ TypeOK' /\ Declared(name, kind) /\ TrailLayout
  BY DeclareEffect DEF Structure
<1>2. n \in Nat /\ Len(trail) \in Nat
  BY <1>1, Lengths
<1>3. heap' = heap /\ chain' = chain /\ \A d \in 1 .. n : ctxAt(d)' = ctxAt(d)
  BY DEF declare, ctxAt
<1>4. /\ chain[n] = current /\ n > 0
      /\ \A m \in Name : symbols'[m] = IF m = name THEN [ctx |-> ctx, kind |-> kind]
                                                   ELSE symbols[m]
      /\ \A i \in 1 .. Len(trail) : trail'[i] = trail[i]
  BY <1>1 DEF Declared
<1>5. ctxAt(n) = ctx
  BY <1>4 DEF ctxAt
<1>6. \A d \in 1 .. n : /\ heap[chain[d]].trailBase \in Nat
                        /\ heap[chain[d]].trailBase <= Len(trail)
  <2>1. \A d \in 1 .. n : heap[chain[d]] \in scope
    BY <1>1, Lengths
  <2> QED
    BY <1>1, <2>1 DEF scope, TrailLayout, Depth
<1>7. ASSUME NEW d \in 1 .. n, NEW m \in Name, d # n
      PROVE  Visible(d, m)' = Visible(d, m)
  <2> DEFINE b == heap[chain[d + 1]].trailBase
  <2>1. d + 1 \in 1 .. n /\ n > 1 /\ n \in 1 .. n /\ d < n
    <3> HIDE DEF n
    <3> QED
      BY <1>2, <1>7
  <2>2. b \in Nat /\ b <= Len(trail)
    BY <1>6, <2>1
  <2>3. /\ Visible(d, m) = RewoundIn(symbols, trail, m, b)
        /\ Visible(d, m)' = RewoundIn(symbols', trail', m, b)
    BY <1>3, <1>7 DEF Visible, Depth, Rewound, RewoundIn, Undo, UndoIn
  <2>4. m # name => symbols'[m] = symbols[m]
    BY <1>4
  <2> HIDE DEF b
  <2>5. CASE trail' = trail
    <3>1. CASE \E k \in b + 1 .. Len(trail) : trail[k].name = m
      <4>1. UndoIn(trail, m, b) # {}
        BY <3>1 DEF UndoIn
      <4> QED
        BY <2>3, <2>5, <4>1 DEF RewoundIn
    <3>2. CASE \A k \in b + 1 .. Len(trail) : trail[k].name # m
      <4>1. Visible(d, m) = symbols[m] /\ Visible(d, m)' = symbols'[m]
        BY <2>3, <2>5, <3>2, NoRecord
      <4>2. m # name
        <5> SUFFICES ASSUME m = name
                     PROVE  FALSE
          OBVIOUS
        <5>1. symbols[m].ctx = ctxAt(n)
          BY <1>1, <1>5, <2>1, <2>5 DEF Declared
        <5>2. Visible(d, m).ctx <= ctxAt(d)
          BY DEF Layered, Depth
        <5>3. ctxAt(d) < ctxAt(n)
          BY <2>1 DEF ContextsFresh, Depth
        <5>4. ctxAt(d) \in Nat /\ ctxAt(n) \in Nat
          <6>1. heap[chain[d]] \in scope /\ heap[chain[n]] \in scope
            BY <1>1, <2>1, Lengths
          <6> QED
            BY <6>1, MaxCtxtAssumption DEF ctxAt, scope, ScopeContext, UnresolvedContext
        <5> QED
          BY <4>1, <5>1, <5>2, <5>3, <5>4
      <4> QED
        BY <2>4, <4>1, <4>2
    <3> QED
      BY <3>1, <3>2
  <2>6. CASE trail' # trail
    <3>1. /\ Len(trail') = Len(trail) + 1
          /\ trail'[Len(trail) + 1] =
                [name |-> name, prev |-> symbols[name],
                 had |-> symbols[name] # NoEntry]
      BY <1>1, <2>6 DEF Declared
    <3>2. RewoundIn(symbols', trail', m, b) = RewoundIn(symbols, trail, m, b)
      BY <1>2, <1>4, <2>2, <2>4, <3>1, RecordHidesRebinding
    <3> QED
      BY <2>3, <3>2
  <2> QED
    BY <2>5, <2>6
<1>8. ASSUME NEW d \in 1 .. n, NEW m \in Name
      PROVE  Visible(d, m)' = IF d = n /\ m = name
                              THEN [ctx |-> ctxAt(d), kind |-> kind]
                              ELSE Visible(d, m)
  <2>1. CASE d # n
    BY <1>7, <2>1
  <2>2. CASE d = n
    <3>1. Visible(d, m)' = symbols'[m] /\ Visible(d, m) = symbols[m]
      BY <1>3, <2>2 DEF Visible, Depth
    <3> QED
      BY <1>4, <1>5, <2>2, <3>1
  <2> QED
    BY <2>1, <2>2
<1> QED
  BY <1>3, <1>8
-----------------------------------------------------------------------------

\* Every context is a natural number.
LEMMA ContextTypes ==
  ASSUME TypeOK
  PROVE  /\ nextCtxt \in Nat /\ nextCtxt >= 1 /\ Len(chain) \in Nat
         /\ \A d \in 1 .. Len(chain) : ctxAt(d) \in Nat
         /\ \A m \in Name : symbols[m] \in symEntry /\ symbols[m].ctx \in Nat
         /\ \A i \in 1 .. Len(trail) : /\ trail[i].prev \in symEntry
                                       /\ trail[i].prev.ctx \in Nat
<1>1. ScopeContext \subseteq Nat
  BY MaxCtxtAssumption DEF ScopeContext, UnresolvedContext
<1>2. \A d \in 1 .. Len(chain) : heap[chain[d]] \in scope
  BY Lengths
<1>3. \A i \in 1 .. Len(trail) : trail[i] \in trailEntry
  BY Lengths
<1>4. nextCtxt \in Nat /\ nextCtxt >= 1 /\ Len(chain) \in Nat
  BY Lengths, MaxCtxtAssumption DEF TypeOK, TopLevelContext
<1>5. \A d \in 1 .. Len(chain) : ctxAt(d) \in Nat
  BY <1>1, <1>2 DEF ctxAt, scope
<1>6. \A m \in Name : symbols[m] \in symEntry /\ symbols[m].ctx \in Nat
  BY <1>1 DEF TypeOK, symEntry
<1>7. \A i \in 1 .. Len(trail) : /\ trail[i].prev \in symEntry
                                 /\ trail[i].prev.ctx \in Nat
  BY <1>1, <1>3 DEF trailEntry, symEntry
<1> QED
  BY <1>4, <1>5, <1>6, <1>7

\* Opening a scope keeps the inductive invariant.
LEMMA PushIInv ==
  ASSUME IInv, pushScope
  PROVE  IInv'
<1> DEFINE n == Len(chain)
<1>1. Structure /\ ContextsFresh /\ ContextsIssued /\ Layered /\ TypeOK
  BY DEF IInv, Structure
<1>2. Structure'
  BY <1>1, PushStructure
<1>3. /\ Len(chain') = n + 1
      /\ \A d \in 1 .. n : /\ ctxAt(d)' = ctxAt(d)
                           /\ \A m \in Name : Visible(d, m)' = Visible(d, m)
      /\ \A d : d = n + 1 => /\ ctxAt(d)' = nextCtxt
                             /\ \A m \in Name : Visible(d, m)' = symbols[m]
  BY <1>1, PushVisible
<1>4. nextCtxt' = nextCtxt + 1 /\ symbols' = symbols /\ trail' = trail
  BY DEF pushScope
<1>5. /\ nextCtxt \in Nat /\ nextCtxt >= 1 /\ n \in Nat
      /\ \A d \in 1 .. n : ctxAt(d) \in Nat
      /\ \A m \in Name : symbols[m] \in symEntry /\ symbols[m].ctx \in Nat
      /\ \A i \in 1 .. Len(trail) : trail[i].prev.ctx \in Nat
  BY <1>1, ContextTypes
<1>6. /\ \A d \in 1 .. n : ctxAt(d) < nextCtxt
      /\ \A c, d \in 1 .. n : c < d => ctxAt(c) < ctxAt(d)
      /\ \A m \in Name : symbols[m].ctx < nextCtxt
      /\ \A d \in 1 .. n : TopLevelContext <= ctxAt(d)
  BY <1>1 DEF ContextsFresh, ContextsIssued, Depth
<1>7. \A m \in Name : n > 0 => Visible(n, m) = symbols[m]
  BY DEF Visible, Depth
<1>8. \A m \in Name : n = 0 => symbols[m] = NoEntry
  BY <1>1 DEF Layered, Depth
<1>9. /\ \A d \in 1 .. n, m \in Name : Visible(d, m).ctx <= ctxAt(d)
      /\ \A d \in 2 .. n, m \in Name : \/ Visible(d, m).ctx = ctxAt(d)
                                       \/ Visible(d, m) = Visible(d - 1, m)
      /\ n > 0 => \A m \in Name : \/ Visible(1, m).ctx = ctxAt(1)
                                  \/ Visible(1, m) = NoEntry
  BY <1>1 DEF Layered, Depth
<1> HIDE DEF n
<1>10. \A d \in 1 .. n + 1 : d \in 1 .. n \/ d = n + 1
  BY <1>5
<1>11. ContextsFresh'
  <2>1. \A d \in 1 .. n + 1 : ctxAt(d)' < nextCtxt'
    BY <1>3, <1>4, <1>5, <1>6, <1>10
  <2>2. ASSUME NEW c \in 1 .. n + 1, NEW d \in 1 .. n + 1, c < d
        PROVE  ctxAt(c)' < ctxAt(d)'
    <3>1. c \in 1 .. n
      BY <1>5, <2>2
    <3> QED
      BY <1>3, <1>6, <1>10, <2>2, <3>1
  <2>3. \A m \in Name : symbols'[m].ctx < nextCtxt'
    BY <1>4, <1>5, <1>6
  <2> QED
    BY <1>3, <2>1, <2>2, <2>3 DEF ContextsFresh, Depth
<1>12. ContextsIssued'
  <2>1. \A m \in Name : Issued(symbols[m])'
    <3>1. \A m \in Name : Issued(symbols[m])
      BY <1>1 DEF ContextsIssued
    <3> QED
      BY <1>4, <1>5, <3>1 DEF Issued
  <2>2. \A i \in 1 .. Len(trail') : Issued(trail[i].prev)'
    <3>1. \A i \in 1 .. Len(trail) : Issued(trail[i].prev)
      BY <1>1 DEF ContextsIssued
    <3> QED
      BY <1>4, <1>5, <3>1 DEF Issued
  <2>3. \A i \in 1 .. Len(trail') : trail'[i].had <=> trail'[i].prev # NoEntry
    BY <1>1, <1>4 DEF ContextsIssued
  <2>4. \A d \in 1 .. n + 1 : TopLevelContext <= ctxAt(d)'
    BY <1>3, <1>5, <1>6, <1>10 DEF TopLevelContext
  <2> QED
    BY <1>3, <2>1, <2>2, <2>3, <2>4 DEF ContextsIssued, Depth
<1>13. Layered'
  <2>1. \A d \in 1 .. n + 1, m \in Name : Visible(d, m)'.ctx <= ctxAt(d)'
    BY <1>3, <1>5, <1>6, <1>9, <1>10
  <2>2. ASSUME NEW d \in 2 .. n + 1, NEW m \in Name
        PROVE  \/ Visible(d, m)'.ctx = ctxAt(d)'
               \/ Visible(d, m)' = Visible(d - 1, m)'
    <3>1. d - 1 \in 1 .. n /\ n > 0
      BY <1>5
    <3>2. CASE d \in 1 .. n
      <4>1. d \in 2 .. n
        BY <3>2
      <4> QED
        BY <1>3, <1>9, <3>1, <3>2, <4>1
    <3>3. CASE d = n + 1
      <4>1. d - 1 = n
        BY <1>5, <3>3
      <4>2. Visible(d - 1, m)' = Visible(n, m)
        BY <1>3, <3>1, <4>1
      <4> QED
        BY <1>3, <1>7, <3>1, <3>3, <4>2
    <3> QED
      BY <1>5, <3>2, <3>3
  <2>3. \A m \in Name : Visible(1, m)'.ctx = ctxAt(1)' \/ Visible(1, m)' = NoEntry
    <3>1. CASE n = 0
      BY <1>3, <1>8, <3>1
    <3>2. CASE n # 0
      <4>1. 1 \in 1 .. n /\ n > 0
        BY <1>5, <3>2
      <4> QED
        BY <1>3, <1>9, <4>1
    <3> QED
      BY <3>1, <3>2
  <2> QED
    BY <1>3, <1>5, <2>1, <2>2, <2>3 DEF Layered, Depth
<1> QED
  BY <1>2, <1>11, <1>12, <1>13 DEF IInv

\* Rewinding restores an entry whose context has been handed out.
LEMMA RewoundIssued ==
  ASSUME TypeOK, ContextsIssued, NEW base \in Nat, NEW m \in Name
  PROVE  Issued(Rewound(m, base))
<1>1. Issued(NoEntry)
  BY ContextTypes DEF Issued, NoEntry, UnresolvedContext
<1>2. CASE Undo(m, base) = {}
  BY <1>2 DEF Rewound, ContextsIssued
<1>3. CASE Undo(m, base) # {}
  <2>1. Undo(m, base) \subseteq Nat /\ Undo(m, base) \subseteq 1 .. Len(trail)
    <3>1. Len(trail) \in Nat
      BY Lengths
    <3> QED
      BY <3>1 DEF Undo
  <2>2. Min(Undo(m, base)) \in 1 .. Len(trail)
    BY <1>3, <2>1, MinProperties
  <2>3. Issued(trail[Min(Undo(m, base))].prev)
    BY <2>2 DEF ContextsIssued
  <2> QED
    BY <1>1, <1>3, <2>3 DEF Rewound
<1> QED
  BY <1>2, <1>3

\* Closing a scope keeps the inductive invariant.
LEMMA PopIInv ==
  ASSUME IInv, popScope
  PROVE  IInv'
<1> DEFINE n == Len(chain)
           base == heap[current].trailBase
<1>1. Structure /\ ContextsFresh /\ ContextsIssued /\ Layered /\ TypeOK
  BY DEF IInv, Structure
<1>2. Structure' /\ TypeOK'
  BY <1>1, PopStructure DEF Structure
<1>3. /\ Len(chain') = n - 1
      /\ \A d \in 1 .. n - 1 : /\ ctxAt(d)' = ctxAt(d)
                               /\ \A m \in Name : Visible(d, m)' = Visible(d, m)
  BY <1>1, PopVisible
<1>4. Closed
  BY <1>1, PopEffect
<1>5. /\ n > 1 /\ base \in 0 .. Len(trail) /\ Len(trail') = base
      /\ \A i \in 1 .. base : trail'[i] = trail[i]
  BY <1>4 DEF Closed
<1>6. n \in Nat /\ Len(trail) \in Nat
  BY <1>1, Lengths
<1>7. base \in Nat /\ \A i \in 1 .. base : i \in 1 .. Len(trail)
  <2> HIDE DEF base
  <2> QED
    BY <1>5, <1>6
<1>8. nextCtxt' = nextCtxt /\ \A m \in Name : symbols'[m] = Rewound(m, base)
  BY DEF popScope
<1>9. \A m \in Name : Issued(symbols'[m])
  BY <1>1, <1>7, <1>8, RewoundIssued
<1> HIDE DEF base
<1>10. /\ \A d \in 1 .. n : ctxAt(d) < nextCtxt
       /\ \A c, d \in 1 .. n : c < d => ctxAt(c) < ctxAt(d)
       /\ \A d \in 1 .. n : TopLevelContext <= ctxAt(d)
  BY <1>1 DEF ContextsFresh, ContextsIssued, Depth
<1>11. /\ \A d \in 1 .. n, m \in Name : Visible(d, m).ctx <= ctxAt(d)
       /\ \A d \in 2 .. n, m \in Name : \/ Visible(d, m).ctx = ctxAt(d)
                                        \/ Visible(d, m) = Visible(d - 1, m)
       /\ n > 0 => \A m \in Name : \/ Visible(1, m).ctx = ctxAt(1)
                                   \/ Visible(1, m) = NoEntry
  BY <1>1 DEF Layered, Depth
<1> HIDE DEF n
<1>12. /\ \A d \in 1 .. n - 1 : d \in 1 .. n
       /\ \A d \in 2 .. n - 1 : d \in 2 .. n /\ d \in 1 .. n - 1 /\ d - 1 \in 1 .. n - 1
       /\ 1 \in 1 .. n - 1 /\ n > 0 /\ n - 1 # 0
  BY <1>5, <1>6
<1>13. ContextsFresh'
  <2>1. \A m \in Name : symbols'[m].ctx < nextCtxt'
    BY <1>8, <1>9 DEF Issued
  <2>2. \A d \in 1 .. n - 1 : ctxAt(d)' < nextCtxt'
    BY <1>3, <1>8, <1>10, <1>12
  <2>3. \A c, d \in 1 .. n - 1 : c < d => ctxAt(c)' < ctxAt(d)'
    BY <1>3, <1>10, <1>12
  <2> QED
    BY <1>3, <2>1, <2>2, <2>3 DEF ContextsFresh, Depth
<1>14. ContextsIssued'
  <2>1. \A m \in Name : Issued(symbols[m])'
    BY <1>8, <1>9 DEF Issued
  <2>2. \A i \in 1 .. Len(trail') : Issued(trail[i].prev)'
    <3>1. \A i \in 1 .. Len(trail) : Issued(trail[i].prev)
      BY <1>1 DEF ContextsIssued
    <3> QED
      BY <1>5, <1>7, <1>8, <3>1 DEF Issued
  <2>3. \A i \in 1 .. Len(trail') : trail'[i].had <=> trail'[i].prev # NoEntry
    BY <1>1, <1>5, <1>7 DEF ContextsIssued
  <2>4. \A d \in 1 .. n - 1 : TopLevelContext <= ctxAt(d)'
    BY <1>3, <1>10, <1>12
  <2> QED
    BY <1>3, <2>1, <2>2, <2>3, <2>4 DEF ContextsIssued, Depth
<1>15. Layered'
  <2>1. \A d \in 1 .. n - 1, m \in Name : Visible(d, m)'.ctx <= ctxAt(d)'
    BY <1>3, <1>11, <1>12
  <2>2. \A d \in 2 .. n - 1, m \in Name : \/ Visible(d, m)'.ctx = ctxAt(d)'
                                          \/ Visible(d, m)' = Visible(d - 1, m)'
    BY <1>3, <1>11, <1>12
  <2>3. \A m \in Name : Visible(1, m)'.ctx = ctxAt(1)' \/ Visible(1, m)' = NoEntry
    BY <1>3, <1>11, <1>12
  <2> QED
    BY <1>3, <1>12, <2>1, <2>2, <2>3 DEF Layered, Depth
<1> QED
  BY <1>2, <1>13, <1>14, <1>15 DEF IInv

\* Declaring a name keeps the inductive invariant.
LEMMA DeclareIInv ==
  ASSUME IInv, NEW name \in Name, NEW kind \in DeclKind, declare(name, kind)
  PROVE  IInv'
<1> DEFINE n == Len(chain)
           ctx == heap[current].ctx
<1>1. Structure /\ ContextsFresh /\ ContextsIssued /\ Layered /\ TypeOK
  BY DEF IInv, Structure
<1>2. Structure' /\ TypeOK' /\ Declared(name, kind)
  BY <1>1, DeclareStructure, DeclareEffect
<1>3. \A d \in 1 .. n :
        /\ ctxAt(d)' = ctxAt(d)
        /\ \A m \in Name : Visible(d, m)' = IF d = n /\ m = name
                                            THEN [ctx |-> ctxAt(d), kind |-> kind]
                                            ELSE Visible(d, m)
  BY <1>1, DeclareVisible
<1>4. /\ n > 0 /\ chain[n] = current
      /\ \A m \in Name : symbols'[m] = IF m = name THEN [ctx |-> ctx, kind |-> kind]
                                                   ELSE symbols[m]
      /\ \A i \in 1 .. Len(trail) : trail'[i] = trail[i]
      /\ \/ trail' = trail
         \/ /\ Len(trail') = Len(trail) + 1
            /\ trail'[Len(trail) + 1] = [name |-> name, prev |-> symbols[name],
                                         had |-> symbols[name] # NoEntry]
  BY <1>2 DEF Declared
<1>5. n \in Nat /\ Len(trail) \in Nat
  BY <1>1, Lengths
<1>6. nextCtxt' = nextCtxt /\ chain' = chain
  BY DEF declare
<1>7. ctx = ctxAt(n)
  BY <1>4 DEF ctxAt
<1> HIDE DEF ctx
<1>8. /\ \A d \in 1 .. n : ctxAt(d) < nextCtxt
      /\ \A c, d \in 1 .. n : c < d => ctxAt(c) < ctxAt(d)
      /\ \A m \in Name : symbols[m].ctx < nextCtxt
      /\ \A d \in 1 .. n : TopLevelContext <= ctxAt(d)
  BY <1>1 DEF ContextsFresh, ContextsIssued, Depth
<1>9. \A d \in 1 .. n : ctxAt(d) \in Nat
  BY <1>1, ContextTypes
<1>10. /\ \A d \in 1 .. n, m \in Name : Visible(d, m).ctx <= ctxAt(d)
       /\ \A d \in 2 .. n, m \in Name : \/ Visible(d, m).ctx = ctxAt(d)
                                        \/ Visible(d, m) = Visible(d - 1, m)
       /\ n > 0 => \A m \in Name : \/ Visible(1, m).ctx = ctxAt(1)
                                   \/ Visible(1, m) = NoEntry
  BY <1>1 DEF Layered, Depth
<1>11. Len(chain') = n
  BY <1>6
<1> HIDE DEF n
<1>12. n \in 1 .. n /\ 1 \in 1 .. n /\ n # 0
       /\ \A d \in 2 .. n : d \in 1 .. n /\ d - 1 \in 1 .. n /\ d - 1 # n
  BY <1>4, <1>5
<1>13. ctx < nextCtxt /\ TopLevelContext <= ctx /\ ctx \in Nat
  BY <1>7, <1>8, <1>9, <1>12
<1>14. ContextsFresh'
  <2>1. \A m \in Name : symbols'[m].ctx < nextCtxt'
    BY <1>4, <1>6, <1>8, <1>13
  <2>2. \A d \in 1 .. n : ctxAt(d)' < nextCtxt'
    BY <1>3, <1>6, <1>8
  <2>3. \A c, d \in 1 .. n : c < d => ctxAt(c)' < ctxAt(d)'
    BY <1>3, <1>8
  <2> QED
    BY <1>11, <2>1, <2>2, <2>3 DEF ContextsFresh, Depth
<1>15. ContextsIssued'
  <2>1. \A m \in Name : Issued(symbols[m])
    BY <1>1 DEF ContextsIssued
  <2>2. \A m \in Name : Issued(symbols[m])'
    BY <1>4, <1>6, <1>13, <2>1 DEF Issued, UnresolvedContext, TopLevelContext
  <2>3. \A i \in 1 .. Len(trail) : /\ Issued(trail[i].prev)
                                   /\ trail[i].had <=> trail[i].prev # NoEntry
    BY <1>1 DEF ContextsIssued
  <2>4. ASSUME NEW i \in 1 .. Len(trail')
        PROVE  /\ Issued(trail[i].prev)'
               /\ trail'[i].had <=> trail'[i].prev # NoEntry
    <3>1. CASE i \in 1 .. Len(trail)
      <4>1. trail'[i] = trail[i]
        BY <1>4, <3>1
      <4> QED
        BY <1>6, <2>3, <3>1, <4>1 DEF Issued
    <3>2. CASE i \notin 1 .. Len(trail)
      <4>1. trail' # trail
        BY <3>2
      <4>2. i = Len(trail) + 1
        BY <1>4, <1>5, <3>2, <4>1
      <4>3. trail'[i] = [name |-> name, prev |-> symbols[name],
                         had |-> symbols[name] # NoEntry]
        BY <1>4, <4>1, <4>2
      <4>4. trail'[i].prev = symbols[name] /\ trail'[i].had = (symbols[name] # NoEntry)
        BY <4>3
      <4> QED
        BY <1>6, <2>1, <4>4 DEF Issued
    <3> QED
      BY <3>1, <3>2
  <2>5. \A d \in 1 .. n : TopLevelContext <= ctxAt(d)'
    BY <1>3, <1>8
  <2> QED
    BY <1>11, <2>2, <2>4, <2>5 DEF ContextsIssued, Depth
<1>16. Layered'
  <2>1. \A d \in 1 .. n, m \in Name : Visible(d, m)'.ctx <= ctxAt(d)'
    BY <1>3, <1>9, <1>10
  <2>2. ASSUME NEW d \in 2 .. n, NEW m \in Name
        PROVE  \/ Visible(d, m)'.ctx = ctxAt(d)'
               \/ Visible(d, m)' = Visible(d - 1, m)'
    <3>1. Visible(d - 1, m)' = Visible(d - 1, m)
      BY <1>3, <1>12
    <3>2. CASE d = n /\ m = name
      BY <1>3, <1>12, <3>2
    <3>3. CASE ~(d = n /\ m = name)
      BY <1>3, <1>10, <1>12, <3>1, <3>3
    <3> QED
      BY <3>2, <3>3
  <2>3. \A m \in Name : Visible(1, m)'.ctx = ctxAt(1)' \/ Visible(1, m)' = NoEntry
    BY <1>3, <1>4, <1>10, <1>12
  <2> QED
    BY <1>11, <1>12, <2>1, <2>2, <2>3 DEF Layered, Depth
<1> QED
  BY <1>2, <1>14, <1>15, <1>16 DEF IInv

\* The inductive invariant holds initially.
LEMMA InitIInv ==
  ASSUME TableInit
  PROVE  IInv
<1>1. Structure
  BY InitStructure
<1>2. /\ chain = <<>> /\ trail = <<>> /\ nextCtxt = TopLevelContext
      /\ \A m \in Name : symbols[m] = NoEntry
  BY DEF TableInit
<1>3. Len(chain) = 0 /\ Len(trail) = 0
  BY <1>2, EmptySeq
<1>4. ContextsFresh /\ ContextsIssued /\ Layered
  BY <1>2, <1>3 DEF ContextsFresh, ContextsIssued, Layered, Issued, Depth,
                    NoEntry, TopLevelContext, UnresolvedContext
<1> QED
  BY <1>1, <1>4 DEF IInv

\* The inductive invariant holds in every state of the table.
THEOREM InductiveInvariant == TableSpec => []IInv
<1>1. TableInit => IInv
  BY InitIInv
<1>2. IInv /\ [TableNext]_tableVars => IInv'
  <2> SUFFICES ASSUME IInv, [TableNext]_tableVars
               PROVE  IInv'
    OBVIOUS
  <2>1. CASE pushScope
    BY <2>1, PushIInv
  <2>2. CASE popScope
    BY <2>2, PopIInv
  <2>3. ASSUME NEW name \in Name, NEW kind \in DeclKind, declare(name, kind)
        PROVE  IInv'
    BY <2>3, DeclareIInv
  <2>4. CASE UNCHANGED tableVars
    <3> USE <2>4 DEF tableVars, Depth
    <3>1. Structure'
      BY DEF IInv, Structure, TypeOK, RecyclingSafe, TrailLayout
    <3>2. ContextsFresh' /\ ContextsIssued'
      BY DEF IInv, ContextsFresh, ContextsIssued, Issued, ctxAt
    <3>3. Layered'
      <4>1. \A d, m : Visible(d, m)' = Visible(d, m)
        BY DEF Visible, Rewound, Undo
      <4>2. \A d : ctxAt(d)' = ctxAt(d)
        BY DEF ctxAt
      <4> QED
        BY <4>1, <4>2 DEF IInv, Layered
    <3> QED
      BY <3>1, <3>2, <3>3 DEF IInv
  <2> QED
    BY <2>1, <2>2, <2>3, <2>4 DEF TableNext
<1> QED
  BY <1>1, <1>2, PTL DEF TableSpec

\* Scopes open at once have increasing contexts, all below the next one to hand
\* out, and no binding carries a context that has not been handed out.
THEOREM ContextsAlwaysFresh == TableSpec => []ContextsFresh
BY InductiveInvariant, PTL DEF IInv
-----------------------------------------------------------------------------

\* Below the scope that declares a name, every scope sees the same entry.
LEMMA VisibleThrough ==
  ASSUME Layered, Len(chain) \in Nat, NEW m \in Name,
         NEW lo \in 1 .. Len(chain),
         \A d \in lo + 1 .. Len(chain) : Visible(d, m).ctx # ctxAt(d)
  PROVE  \A d \in lo .. Len(chain) : Visible(d, m) = Visible(lo, m)
<1> DEFINE n == Len(chain)
           B == {d \in lo .. n : Visible(d, m) # Visible(lo, m)}
<1> SUFFICES ASSUME B # {}
             PROVE  FALSE
  OBVIOUS
<1>1. \A d \in 2 .. n : \/ Visible(d, m).ctx = ctxAt(d)
                        \/ Visible(d, m) = Visible(d - 1, m)
  BY DEF Layered, Depth
<1>2. B \subseteq Nat /\ n \in Nat
  OBVIOUS
<1>3. PICK d \in B : \A e \in B : d <= e
  <2> HIDE DEF B
  <2> QED
    BY <1>2, LeastElement
<1> HIDE DEF n
<1>4. d \in lo .. n /\ d # lo /\ Visible(d, m) # Visible(lo, m)
  BY <1>3
<1>5. d \in lo + 1 .. n /\ d \in 2 .. n /\ d - 1 \in lo .. n /\ ~(d <= d - 1)
  BY <1>2, <1>4 DEF n
<1>6. Visible(d - 1, m) = Visible(lo, m)
  BY <1>3, <1>5
<1>7. Visible(d, m).ctx # ctxAt(d)
  BY <1>5 DEF n
<1> QED
  BY <1>1, <1>4, <1>5, <1>6, <1>7

\* What a scope sees is an entry of the table.
LEMMA VisibleType ==
  ASSUME TypeOK, NEW d \in 1 .. Len(chain), NEW m \in Name
  PROVE  Visible(d, m) \in symEntry
<1>1. CASE d = Len(chain)
  BY <1>1 DEF Visible, Depth, TypeOK
<1>2. CASE d # Len(chain)
  <2>1. Len(chain) \in Nat
    BY Lengths
  <2>2. d + 1 \in 1 .. Len(chain)
    <3> DEFINE n == Len(chain)
    <3> HIDE DEF n
    <3>1. d \in 1 .. n /\ d # n /\ n \in Nat
      BY <1>2, <2>1 DEF n
    <3>2. d + 1 \in 1 .. n
      BY <3>1
    <3> QED
      BY <3>2 DEF n
  <2>3. heap[chain[d + 1]] \in scope
    BY <2>2, Lengths
  <2>4. heap[chain[d + 1]].trailBase \in Nat
    BY <2>3 DEF scope
  <2>5. Rewound(m, heap[chain[d + 1]].trailBase) \in symEntry
    BY <2>4, RewoundType
  <2> QED
    BY <1>2, <2>5 DEF Visible, Depth
<1> QED
  BY <1>1, <1>2

\* The scopes of the chain that declare a name, seen through the table.
LEMMA DeclarersOfChain ==
  ASSUME TypeOK, NEW m \in Name
  PROVE  Chain!Declarers(m) =
            {d \in 1 .. Len(chain) : Visible(d, m).ctx = ctxAt(d)}
<1>1. DOMAIN ChainOfMaps = 1 .. Len(chain)
  BY DEF ChainOfMaps, Depth
<1>2. \A d \in 1 .. Len(chain) : ChainOfMaps[d].own[m] = OwnKind(d, m)
  BY DEF ChainOfMaps, Depth
<1>3. \A d \in 1 .. Len(chain) : Visible(d, m).kind # Undeclared
  BY VisibleType DEF symEntry, DeclKind, declKindVar, declKindFunction,
                     declKindClass, Undeclared
<1>4. \A d \in 1 .. Len(chain) :
         OwnKind(d, m) # Undeclared <=> Visible(d, m).ctx = ctxAt(d)
  BY <1>3 DEF OwnKind
<1>5. Chain!Undeclared = Undeclared
  BY DEF Chain!Undeclared, Undeclared
<1> QED
  BY <1>1, <1>2, <1>4, <1>5 DEF Chain!Declarers

\* Under the inductive invariant one probe of the table finds what a walk up the
\* chain finds: the entry of the innermost declarer, or none.
LEMMA IInvLookupAgrees ==
  ASSUME IInv
  PROVE  LookupAgrees
<1>1. TypeOK /\ Layered
  BY DEF IInv, Structure
<1>2. Len(chain) \in Nat
  BY <1>1, Lengths
<1> SUFFICES ASSUME NEW m \in Name
             PROVE  symbols[m] = Chain!Lookup(m)
  BY DEF LookupAgrees, lookup
<1> DEFINE n == Len(chain)
           D == Chain!Declarers(m)
<1>3. D = {d \in 1 .. n : Visible(d, m).ctx = ctxAt(d)}
  BY <1>1, DeclarersOfChain
<1>4. n > 0 => symbols[m] = Visible(n, m)
  BY DEF Visible, Depth
<1>5. CASE D = {}
  <2>1. Chain!Lookup(m) = NoEntry
    BY <1>5 DEF Chain!Lookup, Chain!NoEntry, Chain!UnresolvedContext,
                Chain!declKindVar, NoEntry, UnresolvedContext, declKindVar
  <2>2. CASE n = 0
    BY <1>1, <2>1, <2>2 DEF Layered, Depth
  <2>3. CASE n # 0
    <3>1. 1 \in 1 .. n /\ n \in 1 .. n /\ n > 0
      <4> HIDE DEF n
      <4> QED
        BY <1>2, <2>3 DEF n
    <3>2. \A d \in 1 .. n : Visible(d, m).ctx # ctxAt(d)
      BY <1>3, <1>5
    <3>3. Visible(1, m) = NoEntry
      BY <1>1, <3>1, <3>2 DEF Layered, Depth
    <3>4. Visible(n, m) = Visible(1, m)
      BY <1>1, <1>2, <3>1, <3>2, VisibleThrough
    <3> QED
      BY <1>4, <2>1, <3>1, <3>3, <3>4
  <2> QED
    BY <2>2, <2>3
<1>6. CASE D # {}
  <2> DEFINE top == Max(D)
  <2>1. top \in D /\ \A d \in D : top >= d
    <3> HIDE DEF D
    <3> QED
      BY <1>2, <1>3, <1>6, MaxProperties
  <2>2. top \in 1 .. n /\ Visible(top, m).ctx = ctxAt(top)
    BY <1>3, <2>1
  <2>3. \A d \in top + 1 .. n : Visible(d, m).ctx # ctxAt(d)
    <3> SUFFICES ASSUME NEW d \in top + 1 .. n, Visible(d, m).ctx = ctxAt(d)
                 PROVE  FALSE
      OBVIOUS
    <3>1. d \in 1 .. n /\ ~(top >= d)
      <4> HIDE DEF top, n
      <4> QED
        BY <1>2, <2>2 DEF n
    <3> QED
      BY <1>3, <2>1, <3>1
  <2>4. Visible(n, m) = Visible(top, m)
    <3>1. n \in top .. n
      <4> HIDE DEF top, n
      <4> QED
        BY <1>2, <2>2 DEF n
    <3> HIDE DEF top
    <3> QED
      BY <1>1, <1>2, <2>2, <2>3, <3>1, VisibleThrough
  <2>5. Visible(top, m) \in symEntry
    BY <1>1, <2>2, VisibleType
  <2>6. Visible(top, m) = [ctx |-> ctxAt(top), kind |-> OwnKind(top, m)]
    BY <2>2, <2>5 DEF symEntry, OwnKind
  <2>7. Chain!Lookup(m) = [ctx |-> ChainOfMaps[top].ctx,
                           kind |-> ChainOfMaps[top].own[m]]
    <3>1. Chain!Max(D) = top
      BY DEF Chain!Max, Max
    <3> QED
      BY <1>6, <3>1 DEF Chain!Lookup
  <2>8. ChainOfMaps[top].ctx = ctxAt(top) /\ ChainOfMaps[top].own[m] = OwnKind(top, m)
    <3> HIDE DEF top
    <3> QED
      BY <2>2 DEF ChainOfMaps, Depth
  <2>9. n > 0
    <3> HIDE DEF top, n
    <3> QED
      BY <1>2, <2>2 DEF n
  <2> QED
    BY <1>4, <2>4, <2>6, <2>7, <2>8, <2>9
<1> QED
  BY <1>5, <1>6

\* A lookup (resolver.go, lookup) always answers what the nearest declaring scope
\* says, for any names and any number of scopes.
THEOREM LookupAlwaysAgrees == TableSpec => []LookupAgrees
BY InductiveInvariant, IInvLookupAgrees, PTL
-----------------------------------------------------------------------------

\* A step leaves alone what the enclosing scopes see.
LEMMA EnclosingStep ==
  ASSUME IInv, TableNext
  PROVE  \A d \in 1 .. Depth, m \in Name :
            d <= Len(chain') /\ (d < Depth \/ Depth < Len(chain'))
               => Visible(d, m)' = Visible(d, m)
<1> DEFINE n == Len(chain)
<1>1. Structure /\ ContextsFresh /\ Layered /\ TypeOK
  BY DEF IInv, Structure
<1>2. n \in Nat
  BY <1>1, Lengths
<1> SUFFICES ASSUME NEW d \in 1 .. n, NEW m \in Name, d <= Len(chain'),
                    d < n \/ n < Len(chain')
             PROVE  Visible(d, m)' = Visible(d, m)
  BY DEF Depth
<1>3. CASE pushScope
  BY <1>1, <1>3, PushVisible
<1>4. CASE popScope
  <2>1. Len(chain') = n - 1
    BY <1>1, <1>4, PopVisible
  <2>2. d \in 1 .. n - 1
    <3> HIDE DEF n
    <3> QED
      BY <1>2, <2>1
  <2> QED
    BY <1>1, <1>4, <2>2, PopVisible
<1>5. ASSUME NEW name \in Name, NEW kind \in DeclKind, declare(name, kind)
      PROVE  Visible(d, m)' = Visible(d, m)
  <2>1. Len(chain') = n
    BY <1>5 DEF declare
  <2>2. d # n
    <3> HIDE DEF n
    <3> QED
      BY <1>2, <2>1
  <2> QED
    BY <1>1, <1>5, <2>2, DeclareVisible
<1> QED
  BY <1>3, <1>4, <1>5 DEF TableNext

\* No declaration and no closing scope ever changes what an enclosing scope sees
\* (resolver.go, declare and popScope).
THEOREM EnclosingNeverDisturbed == TableSpec => EnclosingUndisturbed
<1>1. IInv /\ [TableNext]_tableVars =>
         [\A d \in 1 .. Depth, n \in Name :
            d <= Len(chain') /\ (d < Depth \/ Depth < Len(chain'))
               => Visible(d, n)' = Visible(d, n)]_tableVars
  BY EnclosingStep
<1> QED
  BY <1>1, InductiveInvariant, PTL DEF TableSpec, EnclosingUndisturbed
-----------------------------------------------------------------------------

ChainWellFormed ==
    /\ ChainOfMaps \in [1 .. Len(chain) -> Chain!Scope]
    /\ ChainOfMaps \in Seq(Chain!Scope)
    /\ Len(ChainOfMaps) = Len(chain)
    /\ \A d \in 1 .. Len(chain) :
         /\ ctxAt(d) \in Chain!ScopeContext
         /\ ChainOfMaps[d] = [ctx |-> ctxAt(d),
                              own |-> [m \in Name |-> OwnKind(d, m)]]

\* The chain of maps the table stands for is well formed.
LEMMA ChainOfMapsType ==
  ASSUME TypeOK
  PROVE  ChainWellFormed
<1>1. \A d \in 1 .. Len(chain) : ctxAt(d) \in ScopeContext
  <2>1. \A d \in 1 .. Len(chain) : heap[chain[d]] \in scope
    BY Lengths
  <2> QED
    BY <2>1 DEF ctxAt, scope
<1>2. \A d \in 1 .. Len(chain), m \in Name :
         OwnKind(d, m) \in DeclKind \cup {Undeclared}
  BY VisibleType DEF OwnKind, symEntry
<1>3. /\ Chain!ScopeContext = ScopeContext /\ Chain!DeclKind = DeclKind
      /\ Chain!Undeclared = Undeclared
  BY DEF Chain!ScopeContext, ScopeContext, Chain!DeclKind, DeclKind,
         Chain!Undeclared, Undeclared, Chain!UnresolvedContext,
         UnresolvedContext, Chain!declKindVar, Chain!declKindFunction,
         Chain!declKindClass, declKindVar, declKindFunction, declKindClass
<1>4. ChainOfMaps \in [1 .. Len(chain) -> Chain!Scope]
  BY <1>1, <1>2, <1>3 DEF ChainOfMaps, Depth, Chain!Scope
<1>5. Len(chain) \in Nat
  BY Lengths
<1>6. \A d \in 1 .. Len(chain) :
              ChainOfMaps[d] = [ctx |-> ctxAt(d),
                                own |-> [m \in Name |-> OwnKind(d, m)]]
  BY DEF ChainOfMaps, Depth
<1> QED
  BY <1>1, <1>3, <1>4, <1>5, <1>6, FunctionIsSeq DEF ChainWellFormed

\* The same in the next state.
LEMMA ChainOfMapsTypeNext == TypeOK' => ChainWellFormed'
BY ChainOfMapsType, PTL

\* pushScope is Enter.
LEMMA PushEnters ==
  ASSUME IInv, pushScope
  PROVE  Chain!Enter
<1> DEFINE n == Len(chain)
           r == [ctx |-> nextCtxt, own |-> [m \in Name |-> Undeclared]]
<1>1. Structure /\ ContextsFresh /\ TypeOK
  BY DEF IInv, Structure
<1>2. TypeOK'
  BY <1>1, PushEffect
<1>3. ChainWellFormed /\ ChainWellFormed' /\ n \in Nat
  BY <1>1, <1>2, ChainOfMapsType, ChainOfMapsTypeNext, Lengths
<1>4. /\ Len(chain') = n + 1
      /\ \A d \in 1 .. n : /\ ctxAt(d)' = ctxAt(d)
                           /\ \A m \in Name : Visible(d, m)' = Visible(d, m)
      /\ \A d : d = n + 1 => /\ ctxAt(d)' = nextCtxt
                             /\ \A m \in Name : Visible(d, m)' = symbols[m]
  BY <1>1, PushVisible
<1>5. \A d \in 1 .. n, m \in Name : OwnKind(d, m)' = OwnKind(d, m)
  BY <1>4 DEF OwnKind
<1>6. \A d : d = n + 1 => \A m \in Name : OwnKind(d, m)' = Undeclared
  <2>1. \A m \in Name : symbols[m].ctx # nextCtxt
    <3>1. \A m \in Name : symbols[m].ctx < nextCtxt
      BY <1>1 DEF ContextsFresh
    <3>2. nextCtxt \in Nat /\ \A m \in Name : symbols[m].ctx \in Nat
      BY <1>1, ContextTypes
    <3>3. \A a, b \in Nat : a < b => a # b
      OBVIOUS
    <3> QED
      BY <3>1, <3>2, <3>3
  <2> QED
    BY <1>4, <2>1 DEF OwnKind
<1>7. /\ ChainOfMaps \in Seq(Chain!Scope) /\ Len(ChainOfMaps) = n
      /\ ChainOfMaps' \in Seq(Chain!Scope) /\ Len(ChainOfMaps') = n + 1
      /\ \A d \in 1 .. n : ChainOfMaps[d] =
            [ctx |-> ctxAt(d), own |-> [m \in Name |-> OwnKind(d, m)]]
      /\ \A d \in 1 .. n + 1 : ChainOfMaps'[d] =
            [ctx |-> ctxAt(d)', own |-> [m \in Name |-> OwnKind(d, m)']]
  BY <1>3, <1>4 DEF ChainWellFormed
<1> HIDE DEF n
<1>8. \A d \in 1 .. n : ChainOfMaps'[d] = ChainOfMaps[d]
  <2> SUFFICES ASSUME NEW d \in 1 .. n
               PROVE  ChainOfMaps'[d] = ChainOfMaps[d]
    OBVIOUS
  <2>1. d \in 1 .. n + 1
    BY <1>3
  <2>2. [m \in Name |-> OwnKind(d, m)'] = [m \in Name |-> OwnKind(d, m)]
    BY <1>5
  <2> QED
    BY <1>4, <1>7, <2>1, <2>2
<1>9. ChainOfMaps'[n + 1] = r
  <2> SUFFICES ASSUME NEW d, d = n + 1
               PROVE  ChainOfMaps'[d] = r
    OBVIOUS
  <2>1. d \in 1 .. n + 1
    BY <1>3
  <2>2. [m \in Name |-> OwnKind(d, m)'] = [m \in Name |-> Undeclared]
    BY <1>6
  <2> QED
    BY <1>4, <1>7, <2>1, <2>2
<1>10. r \in Chain!Scope
  <2>1. n + 1 \in 1 .. n + 1
    BY <1>3
  <2>2. \A d \in 1 .. n + 1 : ctxAt(d)' \in Chain!ScopeContext
    BY <1>3, <1>4 DEF ChainWellFormed
  <2>3. nextCtxt \in Chain!ScopeContext
    BY <1>4, <2>1, <2>2
  <2> QED
    BY <2>3 DEF Chain!Scope, Chain!Undeclared, Undeclared
<1> HIDE DEF r
<1>11. ChainOfMaps' = Append(ChainOfMaps, r)
  <2> DEFINE a == Append(ChainOfMaps, r)
  <2>1. /\ a \in Seq(Chain!Scope) /\ Len(a) = n + 1
        /\ \A i \in 1 .. n : a[i] = ChainOfMaps[i]
        /\ a[n + 1] = r
    BY <1>7, <1>10, AppendProperties
  <2> HIDE DEF a
  <2>2. \A i \in 1 .. n + 1 : i \in 1 .. n \/ i = n + 1
    BY <1>3
  <2>3. \A i \in 1 .. n + 1 : ChainOfMaps'[i] = a[i]
    BY <1>8, <1>9, <2>1, <2>2
  <2>4. ChainOfMaps' = a
    BY <1>7, <2>1, <2>3, SeqEqual
  <2> QED
    BY <2>4 DEF a
<1> QED
  BY <1>11 DEF r, pushScope, Chain!Enter, Chain!Undeclared, Undeclared

\* popScope is Leave.
LEMMA PopLeaves ==
  ASSUME IInv, popScope
  PROVE  Chain!Leave
<1> DEFINE n == Len(chain)
<1>1. Structure /\ TypeOK
  BY DEF IInv, Structure
<1>2. TypeOK' /\ Closed
  BY <1>1, PopEffect
<1>3. ChainWellFormed /\ ChainWellFormed' /\ n \in Nat
  BY <1>1, <1>2, ChainOfMapsType, ChainOfMapsTypeNext, Lengths
<1>4. /\ n > 1 /\ Len(chain') = n - 1
      /\ \A d \in 1 .. n - 1 : /\ ctxAt(d)' = ctxAt(d)
                               /\ \A m \in Name : Visible(d, m)' = Visible(d, m)
  BY <1>1, <1>2, PopVisible DEF Closed
<1>5. \A d \in 1 .. n - 1, m \in Name : OwnKind(d, m)' = OwnKind(d, m)
  BY <1>4 DEF OwnKind
<1>6. /\ ChainOfMaps \in Seq(Chain!Scope) /\ Len(ChainOfMaps) = n
      /\ ChainOfMaps' \in Seq(Chain!Scope) /\ Len(ChainOfMaps') = n - 1
      /\ \A d \in 1 .. n : ChainOfMaps[d] =
            [ctx |-> ctxAt(d), own |-> [m \in Name |-> OwnKind(d, m)]]
      /\ \A d \in 1 .. n - 1 : ChainOfMaps'[d] =
            [ctx |-> ctxAt(d)', own |-> [m \in Name |-> OwnKind(d, m)']]
  BY <1>3, <1>4 DEF ChainWellFormed
<1> HIDE DEF n
<1>7. \A d \in 1 .. n - 1 : ChainOfMaps'[d] = ChainOfMaps[d]
  <2> SUFFICES ASSUME NEW d \in 1 .. n - 1
               PROVE  ChainOfMaps'[d] = ChainOfMaps[d]
    OBVIOUS
  <2>1. d \in 1 .. n
    BY <1>3
  <2>2. [m \in Name |-> OwnKind(d, m)'] = [m \in Name |-> OwnKind(d, m)]
    BY <1>5
  <2> QED
    BY <1>4, <1>6, <2>1, <2>2
<1>8. ChainOfMaps' = SubSeq(ChainOfMaps, 1, n - 1)
  <2>1. n - 1 \in 0 .. n
    BY <1>3, <1>4
  <2> DEFINE p == SubSeq(ChainOfMaps, 1, n - 1)
  <2>2. p \in Seq(Chain!Scope) /\ Len(p) = n - 1
        /\ \A i \in 1 .. n - 1 : p[i] = ChainOfMaps[i]
    BY <1>6, <2>1, PrefixProperties
  <2> HIDE DEF p
  <2>3. ChainOfMaps' = p
    BY <1>6, <1>7, <2>2, SeqEqual
  <2> QED
    BY <2>3 DEF p
<1>9. nextCtxt' = nextCtxt
  BY DEF popScope
<1> QED
  BY <1>4, <1>6, <1>8, <1>9 DEF Chain!Leave, Chain!Front

\* declare is Bind: the last writer of a name in a scope wins.
LEMMA DeclareBinds ==
  ASSUME IInv, NEW name \in Name, NEW kind \in DeclKind, declare(name, kind)
  PROVE  Chain!Bind(name, kind)
<1> DEFINE n == Len(chain)
           e == [ChainOfMaps EXCEPT ![n].own[name] = kind]
<1>1. Structure /\ ContextsFresh /\ Layered /\ TypeOK
  BY DEF IInv, Structure
<1>2. TypeOK' /\ Declared(name, kind)
  BY <1>1, DeclareEffect
<1>3. ChainWellFormed /\ ChainWellFormed' /\ n \in Nat
  BY <1>1, <1>2, ChainOfMapsType, ChainOfMapsTypeNext, Lengths
<1>4. chain' = chain /\ nextCtxt' = nextCtxt
  BY DEF declare
<1>5. \A d \in 1 .. n :
        /\ ctxAt(d)' = ctxAt(d)
        /\ \A m \in Name : Visible(d, m)' = IF d = n /\ m = name
                                            THEN [ctx |-> ctxAt(d), kind |-> kind]
                                            ELSE Visible(d, m)
  BY <1>1, DeclareVisible
<1>6. \A d \in 1 .. n, m \in Name :
        OwnKind(d, m)' = IF d = n /\ m = name THEN kind ELSE OwnKind(d, m)
  <2> SUFFICES ASSUME NEW d \in 1 .. n, NEW m \in Name
               PROVE  OwnKind(d, m)' = IF d = n /\ m = name THEN kind ELSE OwnKind(d, m)
    OBVIOUS
  <2>1. CASE d = n /\ m = name
    BY <1>5, <2>1 DEF OwnKind
  <2>2. CASE ~(d = n /\ m = name)
    BY <1>5, <2>2 DEF OwnKind
  <2> QED
    BY <2>1, <2>2
<1>7. n > 0
  BY <1>2 DEF Declared
<1>8. /\ ChainOfMaps \in [1 .. n -> Chain!Scope]
      /\ ChainOfMaps' \in [1 .. n -> Chain!Scope]
      /\ Len(ChainOfMaps) = n
      /\ \A d \in 1 .. n : ChainOfMaps[d] =
            [ctx |-> ctxAt(d), own |-> [m \in Name |-> OwnKind(d, m)]]
      /\ \A d \in 1 .. n : ChainOfMaps'[d] =
            [ctx |-> ctxAt(d)', own |-> [m \in Name |-> OwnKind(d, m)']]
  BY <1>3, <1>4 DEF ChainWellFormed
<1> HIDE DEF n
<1>9. \A d \in 1 .. n : ChainOfMaps'[d] = e[d]
  <2> SUFFICES ASSUME NEW d \in 1 .. n
               PROVE  ChainOfMaps'[d] = e[d]
    OBVIOUS
  <2>1. CASE d # n
    <3>1. [m \in Name |-> OwnKind(d, m)'] = [m \in Name |-> OwnKind(d, m)]
      BY <1>6, <2>1
    <3>2. e[d] = ChainOfMaps[d]
      BY <1>8, <2>1
    <3> QED
      BY <1>5, <1>8, <3>1, <3>2
  <2>2. CASE d = n
    <3>1. [m \in Name |-> OwnKind(d, m)'] =
             [[m \in Name |-> OwnKind(d, m)] EXCEPT ![name] = kind]
      BY <1>6, <2>2
    <3>2. e[d] = [ctx |-> ctxAt(d),
                  own |-> [[m \in Name |-> OwnKind(d, m)] EXCEPT ![name] = kind]]
      <4>1. e[d] = [ChainOfMaps[d] EXCEPT !.own[name] = kind]
        BY <1>8, <2>2
      <4> DEFINE own == [m \in Name |-> OwnKind(d, m)]
      <4>2. ChainOfMaps[d] = [ctx |-> ctxAt(d), own |-> own]
        BY <1>8
      <4> HIDE DEF e, own
      <4>3. e[d] = [ctx |-> ctxAt(d), own |-> [own EXCEPT ![name] = kind]]
        BY <4>1, <4>2, RebindInRecord
      <4> QED
        BY <4>3 DEF own
    <3> QED
      BY <1>5, <1>8, <3>1, <3>2
  <2> QED
    BY <2>1, <2>2
<1>10. ChainOfMaps' = e
  <2>1. DOMAIN e = 1 .. n /\ e = [d \in 1 .. n |-> e[d]]
    BY <1>8
  <2>2. ChainOfMaps' = [d \in 1 .. n |-> ChainOfMaps'[d]]
    BY <1>8
  <2> HIDE DEF e
  <2> QED
    BY <1>9, <2>1, <2>2
<1>11. ChainOfMaps # <<>>
  <2>1. Len(ChainOfMaps) # 0
    BY <1>3, <1>7, <1>8
  <2> QED
    BY <2>1, EmptySeq
<1> QED
  BY <1>4, <1>8, <1>10, <1>11 DEF Chain!Bind

\* The table, the trail and the recycled scope objects implement the chain of
\* maps: every step of the table is the corresponding step of the chain.
THEOREM TableImplementsChain == TableSpec => ChainSpec
<1>1. TableInit => Chain!Init
  <2> SUFFICES ASSUME TableInit
               PROVE  Chain!Init
    OBVIOUS
  <2>1. TypeOK
    BY InitStructure DEF Structure
  <2>2. ChainWellFormed
    BY <2>1, ChainOfMapsType
  <2>3. Len(chain) = 0
    BY EmptySeq DEF TableInit
  <2>4. ChainOfMaps = <<>>
    BY <2>2, <2>3, EmptySeq DEF ChainWellFormed
  <2> QED
    BY <2>4 DEF TableInit, Chain!Init, TopLevelContext, Chain!TopLevelContext
<1>2. IInv /\ [TableNext]_tableVars => [Chain!Next]_(Chain!vars)
  <2> SUFFICES ASSUME IInv, [TableNext]_tableVars
               PROVE  Chain!Next \/ UNCHANGED Chain!vars
    OBVIOUS
  <2>1. CASE pushScope
    BY <2>1, PushEnters DEF Chain!Next
  <2>2. CASE popScope
    BY <2>2, PopLeaves DEF Chain!Next
  <2>3. ASSUME NEW name \in Name, NEW kind \in DeclKind, declare(name, kind)
        PROVE  Chain!Next
    <3>1. kind \in Chain!DeclKind
      BY DEF Chain!DeclKind, DeclKind, Chain!declKindVar,
             Chain!declKindFunction, Chain!declKindClass, declKindVar,
             declKindFunction, declKindClass
    <3> QED
      BY <2>3, <3>1, DeclareBinds DEF Chain!Next
  <2>4. CASE UNCHANGED tableVars
    <3>1. \A d, m : Visible(d, m)' = Visible(d, m)
      BY <2>4 DEF tableVars, Visible, Rewound, Undo, Depth
    <3>2. \A d : ctxAt(d)' = ctxAt(d)
      BY <2>4 DEF tableVars, ctxAt
    <3>3. \A d, m : OwnKind(d, m)' = OwnKind(d, m)
      BY <3>1, <3>2 DEF OwnKind
    <3>4. ChainOfMaps' = ChainOfMaps
      BY <2>4, <3>2, <3>3 DEF tableVars, ChainOfMaps, Depth
    <3> QED
      BY <2>4, <3>4 DEF tableVars, Chain!vars
  <2> QED
    BY <2>1, <2>2, <2>3, <2>4 DEF TableNext
<1> QED
  BY <1>1, <1>2, InductiveInvariant, PTL DEF TableSpec, ChainSpec, Chain!Spec
-----------------------------------------------------------------------------
(***************************************************************************)
(* One undo record per name and scope. A scope has a record of a name only *)
(* while it owns the name, so declare finds the owner and adds no second.  *)
(***************************************************************************)

\* The segments of the trail lie within it.
LEMMA Segments ==
  ASSUME Structure
  PROVE  /\ Len(chain) \in Nat /\ Len(trail) \in Nat
         /\ \A d \in 1 .. Len(chain) :
               /\ recordsFrom(d) \in Nat /\ recordsFrom(d) <= Len(trail)
               /\ recordsUpTo(d) \in Nat /\ recordsUpTo(d) <= Len(trail)
               /\ records(d) \subseteq 1 .. Len(trail)
         /\ \A d \in 1 .. Len(chain) : d < Len(chain) =>
               /\ recordsUpTo(d) = recordsFrom(d + 1)
               /\ recordsUpTo(d) <= recordsFrom(Len(chain))
<1> DEFINE n == Len(chain)
<1>1. TypeOK /\ TrailLayout
  BY DEF Structure
<1>2. /\ n \in Nat /\ Len(trail) \in Nat
      /\ \A o \in 1 .. Len(heap) : heap[o] \in scope
      /\ \A d \in 1 .. n : chain[d] \in 1 .. Len(heap)
  BY <1>1, Lengths
<1>3. \A d \in 1 .. n : recordsFrom(d) \in Nat
  BY <1>2 DEF recordsFrom, scope
<1>4. /\ \A d \in 1 .. n : recordsFrom(d) <= Len(trail)
      /\ \A c, d \in 1 .. n : c < d => recordsFrom(c) <= recordsFrom(d)
  BY <1>1 DEF TrailLayout, Depth, recordsFrom
<1>5. /\ \A d \in 1 .. n : d < n => recordsUpTo(d) = recordsFrom(d + 1)
      /\ recordsUpTo(n) = Len(trail)
  BY <1>2 DEF recordsUpTo, recordsFrom, Depth
<1> HIDE DEF n
<1>6. \A d \in 1 .. n : d < n => d + 1 \in 1 .. n /\ n \in 1 .. n
  BY <1>2
<1>7. \A d \in 1 .. n : d < n => recordsUpTo(d) <= recordsFrom(n)
  <2> SUFFICES ASSUME NEW d \in 1 .. n, d < n PROVE recordsFrom(d + 1) <= recordsFrom(n)
    BY <1>5
  <2>1. CASE d + 1 = n
    BY <1>3, <1>6, <2>1
  <2>2. CASE d + 1 < n
    BY <1>4, <1>6, <2>2
  <2> QED BY <1>2, <2>1, <2>2
<1>8. \A d \in 1 .. n : recordsUpTo(d) \in Nat /\ recordsUpTo(d) <= Len(trail)
  <2> SUFFICES ASSUME NEW d \in 1 .. n
               PROVE  recordsUpTo(d) \in Nat /\ recordsUpTo(d) <= Len(trail)
    OBVIOUS
  <2>1. CASE d = n
    BY <1>2, <1>5, <2>1
  <2>2. CASE d < n
    BY <1>3, <1>4, <1>5, <1>6, <2>2
  <2> QED BY <1>2, <2>1, <2>2
<1>9. \A d \in 1 .. n : records(d) \subseteq 1 .. Len(trail)
  BY <1>2, <1>3, <1>8 DEF records
<1> QED BY <1>2, <1>3, <1>4, <1>5, <1>7, <1>8, <1>9 DEF n

\* A step that leaves the records of a scope, and what it sees, alone.
LEMMA SameRecords ==
  ASSUME UndoInv, NEW d \in 2 .. Len(chain),
         recordsFrom(d)' = recordsFrom(d), recordsUpTo(d)' = recordsUpTo(d),
         \A i \in records(d) : trail'[i] = trail[i],
         \A m \in Name : Visible(d, m)' = Visible(d, m),
         ctxAt(d)' = ctxAt(d)
  PROVE  OwnRecords(d)'
<1>1. records(d)' = records(d)
  BY DEF records
<1>2. OwnRecords(d)
  BY DEF UndoInv, Depth
<1> QED BY <1>1, <1>2 DEF OwnRecords

\* A new scope has no record yet.
LEMMA PushRecords ==
  ASSUME UndoInv, IInv', pushScope
  PROVE  UndoInv'
<1>0. PICK n \in Nat : n = Len(chain)
  BY Lengths DEF UndoInv, Depth, IInv, Structure
<1>1. /\ Structure /\ Structure' /\ TypeOK /\ Opened /\ trail' = trail
      /\ \A d \in 1 .. n : chain[d] \in 1 .. Len(heap)
  BY <1>0, PushEffect, Lengths DEF UndoInv, Depth, IInv, Structure, pushScope
<1>2. /\ Len(chain') = n + 1
      /\ \A d \in 1 .. n : recordsFrom(d)' = recordsFrom(d)
      /\ recordsFrom(n + 1)' = Len(trail)
      /\ recordsUpTo(n + 1)' = Len(trail)
  BY <1>0, <1>1 DEF Opened, recordsFrom, recordsUpTo, Depth
<1>3. \A d \in 1 .. n : recordsUpTo(d)' = recordsUpTo(d)
  <2> SUFFICES ASSUME NEW d \in 1 .. n
               PROVE  recordsUpTo(d)' = recordsUpTo(d)
    OBVIOUS
  <2>1. recordsUpTo(d)' = recordsFrom(d + 1)'
    BY <1>2 DEF recordsUpTo, recordsFrom, Depth
  <2>2. CASE d = n
    BY <1>0, <1>2, <2>1, <2>2 DEF recordsUpTo, recordsFrom, Depth
  <2>3. CASE d # n
    <3>1. d + 1 \in 1 .. n
      BY <2>3
    <3> QED BY <1>0, <1>2, <2>1, <2>3, <3>1 DEF recordsUpTo, recordsFrom, Depth
  <2> QED BY <2>2, <2>3
<1>4. \A d \in 1 .. n : /\ ctxAt(d)' = ctxAt(d)
                        /\ \A m \in Name : Visible(d, m)' = Visible(d, m)
  BY <1>0, <1>1, PushVisible
<1>5. ASSUME NEW d \in 2 .. n + 1
      PROVE  OwnRecords(d)'
  <2>1. CASE d = n + 1
    <3>1. Len(trail) \in Nat /\ (Len(trail) + 1) .. Len(trail) = {}
      BY <1>1, Lengths
    <3>2. records(d)' = {}
      BY <1>2, <2>1, <3>1 DEF records
    <3> QED BY <3>2 DEF OwnRecords
  <2>2. CASE d \in 2 .. n
    BY <1>0, <1>1, <1>2, <1>3, <1>4, <2>2, SameRecords
  <2> QED BY <2>1, <2>2
<1> QED BY <1>2, <1>5 DEF UndoInv, Depth

\* A closing scope takes its records away, and only those.
LEMMA PopRecords ==
  ASSUME UndoInv, IInv', popScope
  PROVE  UndoInv'
<1>0. PICK n \in Nat : n = Len(chain)
  BY Lengths DEF UndoInv, Depth, IInv, Structure
<1>1. Structure /\ TypeOK /\ Closed
  BY PopEffect DEF UndoInv, Depth, IInv, Structure
<1>2. /\ n > 1 /\ Len(chain') = n - 1 /\ recordsFrom(n) = Len(trail')
      /\ \A d \in 1 .. n - 1 : recordsFrom(d)' = recordsFrom(d)
      /\ \A i \in 1 .. recordsFrom(n) : trail'[i] = trail[i]
  BY <1>0, <1>1 DEF Closed, recordsFrom
<1>3. /\ \A d \in 1 .. n : recordsFrom(d) \in Nat /\ recordsUpTo(d) \in Nat
      /\ \A d \in 1 .. n : d < n => /\ recordsUpTo(d) = recordsFrom(d + 1)
                                   /\ recordsUpTo(d) <= recordsFrom(n)
  BY <1>0, <1>1, Segments
<1>4. \A d \in 1 .. n - 1 : recordsUpTo(d)' = recordsUpTo(d)
  <2> SUFFICES ASSUME NEW d \in 1 .. n - 1
               PROVE  recordsUpTo(d)' = recordsUpTo(d)
    OBVIOUS
  <2>1. d \in 1 .. n /\ d < n /\ recordsUpTo(d) = recordsFrom(d + 1)
    BY <1>3
  <2>2. CASE d = n - 1
    BY <1>2, <2>1, <2>2 DEF recordsUpTo, recordsFrom, Depth
  <2>3. CASE d # n - 1
    <3>1. d + 1 \in 1 .. n - 1
      BY <2>3
    <3> QED BY <1>2, <2>1, <2>3, <3>1 DEF recordsUpTo, recordsFrom, Depth
  <2> QED BY <2>2, <2>3
<1>5. \A d \in 1 .. n - 1 : /\ ctxAt(d)' = ctxAt(d)
                            /\ \A m \in Name : Visible(d, m)' = Visible(d, m)
  BY <1>0, <1>1, PopVisible
<1>6. ASSUME NEW d \in 2 .. n - 1
      PROVE  OwnRecords(d)'
  <2>1. d \in 1 .. n - 1 /\ d \in 1 .. n /\ d < n /\ d \in 2 .. n
    OBVIOUS
  <2>2. \A i \in records(d) : i \in 1 .. recordsFrom(n)
    BY <1>2, <1>3, <2>1 DEF records
  <2> QED BY <1>0, <1>2, <1>4, <1>5, <2>1, <2>2, SameRecords
<1> QED BY <1>2, <1>6 DEF UndoInv, Depth

\* A declaration leaves a record only where the scope did not own the name.
LEMMA DeclareRecords ==
  ASSUME UndoInv, IInv',
         NEW name \in Name, NEW kind \in DeclKind, declare(name, kind)
  PROVE  UndoInv'
<1>0. PICK n \in Nat : n = Len(chain)
  BY Lengths DEF UndoInv, Depth, IInv, Structure
<1>1. /\ Structure /\ TypeOK /\ Declared(name, kind) /\ ContextsFresh
      /\ Layered /\ ContextsIssued
      /\ chain' = chain /\ heap' = heap
  BY DeclareEffect DEF UndoInv, Depth, IInv, Structure, declare
<1>2. /\ \A d \in 1 .. n : recordsFrom(d) \in Nat /\ recordsUpTo(d) \in Nat
      /\ \A d \in 1 .. n : records(d) \subseteq 1 .. Len(trail)
      /\ Len(trail) \in Nat
  BY <1>0, <1>1, Segments
<1>3. \A d : recordsFrom(d)' = recordsFrom(d)
  BY <1>1 DEF recordsFrom
<1>4. \A d \in 1 .. n :
        /\ ctxAt(d)' = ctxAt(d)
        /\ \A m \in Name : Visible(d, m)' =
              IF d = n /\ m = name THEN [ctx |-> ctxAt(d), kind |-> kind]
                                   ELSE Visible(d, m)
  BY <1>0, <1>1, DeclareVisible
<1>5. \A i \in 1 .. Len(trail) : trail'[i] = trail[i]
  BY <1>1 DEF Declared
<1>6. ASSUME NEW d \in 2 .. n, d < n
      PROVE  OwnRecords(d)'
  <2>1. d \in 1 .. n /\ d # n
    BY <1>6
  <2>2. recordsUpTo(d)' = recordsUpTo(d)
    BY <1>0, <1>1, <2>1 DEF recordsUpTo, recordsFrom, Depth
  <2>3. \A m \in Name : Visible(d, m)' = Visible(d, m)
    BY <1>4, <2>1
  <2> QED BY <1>0, <1>2, <1>3, <1>4, <1>5, <2>1, <2>2, <2>3, SameRecords
<1>7. ASSUME n \in 2 .. n
      PROVE  OwnRecords(n)'
  <2>1. /\ n \in 1 .. n /\ OwnRecords(n)
        /\ recordsFrom(n) \in Nat /\ recordsFrom(n) <= Len(trail)
    BY <1>0, <1>1, <1>7, Segments DEF UndoInv, Depth
  <2>2. /\ recordsUpTo(n) = Len(trail) /\ recordsUpTo(n)' = Len(trail')
    BY <1>0, <1>1 DEF recordsUpTo, recordsFrom, Depth
  <2>3. /\ records(n) = recordsFrom(n) + 1 .. Len(trail)
        /\ records(n)' = recordsFrom(n) + 1 .. Len(trail')
    BY <1>3, <2>2 DEF records
  <2>4. \A m \in Name : Visible(n, m) = symbols[m]
    BY <1>0 DEF Visible, Depth
  <2>5. /\ ctxAt(n)' = ctxAt(n)
        /\ Visible(n, name)' .ctx = ctxAt(n)
        /\ \A m \in Name : m # name => Visible(n, m)' = Visible(n, m)
    BY <1>4, <2>1
  <2>6. \A i \in records(n), m \in Name :
           trail'[i].name = m => Visible(n, m)' .ctx = ctxAt(n)'
    <3> SUFFICES ASSUME NEW i \in records(n), NEW m \in Name,
                        trail'[i].name = m
                 PROVE  Visible(n, m)' .ctx = ctxAt(n)'
      OBVIOUS
    <3>1. trail[i].name = m
      BY <1>2, <1>5, <2>1
    <3>2. Visible(n, m).ctx = ctxAt(n)
      BY <2>1, <3>1 DEF OwnRecords
    <3> QED BY <2>5, <3>2
  <2>7. CASE trail' = trail
    BY <2>1, <2>3, <2>6, <2>7 DEF OwnRecords
  <2>8. CASE /\ Len(trail') = Len(trail) + 1
             /\ trail'[Len(trail) + 1].name = name
             /\ symbols[name].ctx # ctxAt(n) \/ symbols[name] = NoEntry
    <3>1. symbols[name].ctx # ctxAt(n)
      <4>1. TopLevelContext <= ctxAt(n)
        BY <1>0, <1>1, <2>1 DEF ContextsIssued, Depth
      <4>2. symbols[name] = NoEntry => symbols[name].ctx # ctxAt(n)
        BY <4>1 DEF NoEntry, TopLevelContext, UnresolvedContext
      <4> QED BY <2>8, <4>2
    <3>2. \A i \in records(n) : trail[i].name # name
      BY <2>1, <2>4, <3>1 DEF OwnRecords
    <3>3. \A i \in records(n)' : i \in records(n) \/ i = Len(trail) + 1
      BY <1>2, <2>1, <2>3, <2>8
    <3>4. \A i \in records(n) : trail'[i] = trail[i]
      BY <1>2, <1>5, <2>1
    <3>5. \A i \in records(n)', m \in Name :
             trail'[i].name = m => Visible(n, m)' .ctx = ctxAt(n)'
      BY <2>5, <2>6, <2>8, <3>3
    <3>6. \A i, j \in records(n)' : trail'[i].name = trail'[j].name => i = j
      BY <2>1, <2>8, <3>2, <3>3, <3>4 DEF OwnRecords
    <3> QED BY <3>5, <3>6 DEF OwnRecords
  <2> QED BY <1>0, <1>1, <2>7, <2>8 DEF Declared, ctxAt
<1>8. ASSUME NEW d \in 2 .. n
      PROVE  OwnRecords(d)'
  BY <1>6, <1>7
<1>9. Len(chain') = n
  BY <1>0, <1>1
<1> QED BY <1>8, <1>9 DEF UndoInv, Depth

\* The inductive invariant: IInv, and that a scope has one record, and only of
\* names it owns.
THEOREM UndoInvariant == TableSpec => []UndoInv
<1>1. TableInit => UndoInv
  <2> SUFFICES ASSUME TableInit PROVE UndoInv
    OBVIOUS
  <2>1. IInv
    BY InitIInv
  <2>2. Len(chain) = 0
    BY EmptySeq DEF TableInit
  <2>3. 2 .. Len(chain) = {}
    BY <2>2
  <2> QED BY <2>1, <2>3 DEF UndoInv, Depth
<1>2. IInv' /\ UndoInv /\ [TableNext]_tableVars => UndoInv'
  <2> SUFFICES ASSUME IInv', UndoInv, [TableNext]_tableVars PROVE UndoInv'
    OBVIOUS
  <2>1. CASE pushScope
    BY <2>1, PushRecords
  <2>2. CASE popScope
    BY <2>2, PopRecords
  <2>3. ASSUME NEW name \in Name, NEW kind \in DeclKind, declare(name, kind)
        PROVE  UndoInv'
    BY <2>3, DeclareRecords
  <2>4. CASE UNCHANGED tableVars
    <3>1. UNCHANGED <<heap, chain, trail, symbols>>
      BY <2>4 DEF tableVars
    <3>2. \A d : /\ records(d)' = records(d) /\ ctxAt(d)' = ctxAt(d)
                 /\ \A m : Visible(d, m)' = Visible(d, m)
      BY <3>1 DEF records, recordsFrom, recordsUpTo, Depth, ctxAt, Visible, Rewound,
                  Undo
    <3>3. \A d \in 2 .. Len(chain) : OwnRecords(d)'
      BY <3>1, <3>2 DEF UndoInv, Depth, OwnRecords
    <3> QED BY <3>1, <3>3 DEF UndoInv, Depth
  <2> QED BY <2>1, <2>2, <2>3, <2>4 DEF TableNext
<1> QED BY <1>1, <1>2, InductiveInvariant, PTL DEF TableSpec

\* Declaring a name again in the scope that holds it leaves no second record,
\* which would restore the scope's own binding when it closes; the program
\* scope, which nothing rewinds, has none (resolver.go, declare).
THEOREM OneUndoPerScopeAlways == TableSpec => []OneUndoPerScope
<1>1. UndoInv => OneUndoPerScope
  <2> SUFFICES ASSUME UndoInv PROVE OneUndoPerScope
    OBVIOUS
  <2>1. /\ \A d \in 1 .. Depth : d <= 2 => heap[chain[d]].trailBase = 0
        /\ Depth <= 1 => trail = <<>>
    BY DEF UndoInv, Depth, IInv, Structure, TrailLayout
  <2>2. Depth \in Nat
    BY Lengths DEF UndoInv, IInv, Structure, Depth
  <2>3. \A d \in 2 .. Depth : \A i, j \in records(d) :
           trail[i].name = trail[j].name => i = j
    BY DEF UndoInv, Depth, OwnRecords
  <2>4. Depth > 1 => 2 \in 1 .. Depth
    BY <2>2
  <2> QED BY <2>1, <2>3, <2>4
       DEF OneUndoPerScope, records, recordsFrom, recordsUpTo
<1> QED BY <1>1, UndoInvariant, PTL

-----------------------------------------------------------------------------
(* The walk *)

HoistOps == HoisterOps \cup SaveOps

\* A well-formed stack of things to do, while the hoister's fields are h.
QueueOK(tasks, h) ==
    /\ tasks \in Seq(WalkTask \cup HoistTask)
    /\ HoisterFirst(tasks)
    /\ Balanced(tasks, h)

Inv ==
    /\ Structure
    /\ ResolverTypeOK
    /\ ast \in Programs
    /\ QueueOK(todo, hoister)

-----------------------------------------------------------------------------
\* Lists.

\* One visit for each node of a list.
LEMMA VisitAllIn ==
  ASSUME NEW D, NEW T, NEW op, NEW nodes \in Seq(D),
         \A n \in D : visit(op, n) \in T
  PROVE  visitAll(op, nodes) \in Seq(T)
<1>1. /\ Len(nodes) \in Nat /\ DOMAIN nodes = 1 .. Len(nodes)
      /\ \A i \in 1 .. Len(nodes) : nodes[i] \in D
  BY LenProperties, ElementOfSeq
<1>2. visitAll(op, nodes) \in [1 .. Len(nodes) -> T]
  BY <1>1 DEF visitAll
<1> QED BY <1>1, <1>2, FunctionIsSeq

-----------------------------------------------------------------------------
\* The stack of things to do.

\* The kinds of entries tell themselves apart by their op.
LEMMA TaskOps ==
  /\ \A t \in WalkTask : t.op \notin HoistOps /\ t.op \notin SaveOps
  /\ \A t \in HoistTask : t.op \in HoistOps
  /\ \A t \in HoistTask :
       t.op \in SaveOps =>
          t.op \in {"inBlock", "kind", "catchDone"}
BY DEF WalkTask, HoistTask, HoistOps, HoisterOps, SaveOps

\* Concatenation, element by element.
LEMMA Joined ==
  ASSUME NEW T, NEW ts \in Seq(T), NEW s \in Seq(T)
  PROVE  /\ ts \o s \in Seq(T)
         /\ Len(ts) \in Nat /\ Len(s) \in Nat
         /\ Len(ts \o s) = Len(ts) + Len(s)
         /\ DOMAIN ts = 1 .. Len(ts) /\ DOMAIN s = 1 .. Len(s)
         /\ DOMAIN (ts \o s) = 1 .. Len(ts) + Len(s)
         /\ \A i \in 1 .. Len(ts) : (ts \o s)[i] = ts[i]
         /\ \A i \in 1 .. Len(s) : (ts \o s)[i + Len(ts)] = s[i]
<1>1. /\ ts \o s \in Seq(T) /\ Len(ts) \in Nat /\ Len(s) \in Nat
      /\ Len(ts \o s) = Len(ts) + Len(s)
      /\ DOMAIN ts = 1 .. Len(ts) /\ DOMAIN s = 1 .. Len(s)
  BY ConcatProperties, LenProperties
<1>2. DOMAIN (ts \o s) = 1 .. Len(ts) + Len(s)
  BY <1>1, LenProperties
<1>3. \A i \in 1 .. Len(ts) + Len(s) :
         (ts \o s)[i] = IF i <= Len(ts) THEN ts[i] ELSE s[i - Len(ts)]
  BY <1>1, ConcatProperties
<1>4. /\ \A i \in 1 .. Len(ts) : i \in 1 .. Len(ts) + Len(s) /\ i <= Len(ts)
      /\ \A i \in 1 .. Len(s) : /\ i + Len(ts) \in 1 .. Len(ts) + Len(s)
                                /\ ~ (i + Len(ts) <= Len(ts))
                                /\ (i + Len(ts)) - Len(ts) = i
  BY <1>1
<1> QED BY <1>1, <1>2, <1>3, <1>4

\* A non-empty list is its first element and the others.
LEMMA Split ==
  ASSUME NEW T, NEW s \in Seq(T), s # <<>>
  PROVE  /\ Tail(s) \in Seq(T) /\ Head(s) \in T /\ <<Head(s)>> \in Seq(T)
         /\ Len(<<Head(s)>>) = 1 /\ <<Head(s)>>[1] = Head(s)
         /\ s = <<Head(s)>> \o Tail(s)
<1>1. /\ Head(s) \in T /\ Tail(s) \in Seq(T) /\ Len(Tail(s)) = Len(s) - 1
      /\ Head(s) = s[1] /\ Len(s) \in Nat \ {0}
      /\ \A i \in 1 .. Len(s) - 1 : Tail(s)[i] = s[i + 1]
  BY HeadTailProperties, EmptySeq, LenProperties
<1>2. <<Head(s)>> \in Seq(T) /\ Len(<<Head(s)>>) = 1 /\ <<Head(s)>>[1] = Head(s)
  BY <1>1
<1> DEFINE u == <<Head(s)>> \o Tail(s)
<1>3. /\ u \in Seq(T) /\ Len(u) = Len(s) /\ u[1] = s[1]
      /\ \A i \in 1 .. Len(s) - 1 : u[i + 1] = s[i + 1]
  <2> DEFINE h == <<Head(s)>>
  <2>1. h \in Seq(T) /\ Len(h) = 1 /\ h[1] = Head(s)
    BY <1>2
  <2> HIDE DEF h
  <2>2. /\ h \o Tail(s) \in Seq(T) /\ Len(h \o Tail(s)) = 1 + Len(Tail(s))
        /\ \A i \in 1 .. 1 : (h \o Tail(s))[i] = h[i]
        /\ \A i \in 1 .. Len(Tail(s)) : (h \o Tail(s))[i + 1] = Tail(s)[i]
    BY <1>1, <2>1, Joined
  <2>3. 1 + Len(Tail(s)) = Len(s) /\ 1 \in 1 .. 1 /\ Len(Tail(s)) = Len(s) - 1
    BY <1>1
  <2> QED BY <1>1, <2>1, <2>2, <2>3 DEF h
<1> HIDE DEF u
<1>4. \A i \in 1 .. Len(s) : i = 1 \/ (i - 1 \in 1 .. Len(s) - 1 /\ (i - 1) + 1 = i)
  BY <1>1
<1>5. \A i \in 1 .. Len(s) : u[i] = s[i]
  BY <1>3, <1>4
<1>6. s = u
  BY <1>1, <1>3, <1>5, SeqEqual
<1> QED BY <1>1, <1>2, <1>6 DEF u

\* A fresh hoister is one.
LEMMA FreshFields == freshHoister \in fields
BY DEF freshHoister, fields, DeclKind

\* Without a restore to come the hoister is fresh, and may be.
LEMMA NoRestores ==
  ASSUME NEW s, \A i \in DOMAIN s : s[i].op \notin SaveOps
  PROVE  /\ Balanced(s, freshHoister)
         /\ \A h \in fields : Balanced(s, h) => h = freshHoister
<1>1. \A op \in SaveOps : pending(s, op) = {}
  BY DEF pending
<1>2. \A op \in SaveOps : \A now, fresh :
         Settled(s, op, now, fresh) <=> now = fresh
  BY <1>1 DEF Settled
<1>3. \A names : ParamsOwned(s, names) <=> names = {}
  BY <1>1 DEF ParamsOwned, SaveOps
<1>4. Balanced(s, freshHoister)
  BY <1>2, <1>3 DEF Balanced, SaveOps, freshHoister, catchFields
<1>5. ASSUME NEW h \in fields, Balanced(s, h) PROVE h = freshHoister
  <2>1. /\ h.inBlock = FALSE /\ h.kind = declKindVar
        /\ catchFields(h) = catchFields(freshHoister) /\ h.catchParamDecls = {}
    BY <1>2, <1>3, <1>5 DEF Balanced, SaveOps
  <2>2. h.inCatchBody = FALSE /\ h.excludedFromCatch = {}
    BY <2>1 DEF catchFields, freshHoister
  <2> QED BY <1>5, <2>1, <2>2 DEF fields, freshHoister
<1> QED BY <1>4, <1>5

\* Only the resolver's entries: no hoister run is under way.
LEMMA QueueOfWalk ==
  ASSUME NEW s \in Seq(WalkTask)
  PROVE  QueueOK(s, freshHoister)
<1>1. Len(s) \in Nat /\ DOMAIN s = 1 .. Len(s)
      /\ \A i \in DOMAIN s : s[i] \in WalkTask
  BY LenProperties, ElementOfSeq
<1>2. \A i \in DOMAIN s : s[i].op \notin HoistOps /\ s[i].op \notin SaveOps
  BY <1>1, TaskOps
<1>3. s \in Seq(WalkTask \cup HoistTask)
  BY <1>1, SeqMonotonic
<1>4. HoisterFirst(s)
  BY <1>2 DEF HoisterFirst, HoistOps
<1>5. Balanced(s, freshHoister)
  BY <1>2, NoRestores
<1> QED BY <1>3, <1>4, <1>5 DEF QueueOK

\* When the next entry is not the hoister's, none is.
LEMMA WalkOnly ==
  ASSUME NEW s, NEW h \in fields, QueueOK(s, h), s # <<>>,
         Head(s).op \notin HoistOps
  PROVE  s \in Seq(WalkTask) /\ Head(s) \in WalkTask
         /\ Tail(s) \in Seq(WalkTask) /\ h = freshHoister
<1> DEFINE T == WalkTask \cup HoistTask
<1>1. s \in Seq(T) /\ HoisterFirst(s) /\ Balanced(s, h)
  BY DEF QueueOK
<1>2. /\ Len(s) \in Nat \ {0} /\ DOMAIN s = 1 .. Len(s)
      /\ \A i \in DOMAIN s : s[i] \in T
      /\ Head(s) = s[1]
  <2> HIDE DEF T
  <2> QED BY <1>1, LenProperties, ElementOfSeq, EmptySeq, HeadTailProperties
<1>3. 1 \in DOMAIN s /\ \A i \in DOMAIN s : i = 1 \/ 1 < i
  BY <1>2
<1>4. \A i \in DOMAIN s : s[i].op \notin HoistOps
  BY <1>1, <1>2, <1>3 DEF HoisterFirst, HoistOps
<1>5. \A i \in DOMAIN s : s[i] \in WalkTask
  BY <1>2, <1>4, TaskOps
<1>6. s \in Seq(WalkTask)
  BY <1>1, <1>2, <1>5, FunctionIsSeq, SeqDef
<1>7. h = freshHoister
  BY <1>1, <1>4, NoRestores DEF HoistOps
<1> QED BY <1>1, <1>6, <1>7, HeadTailProperties

\* The list s is what is left of u behind its first k entries.
Behind(T, u, s, k) ==
    /\ u \in Seq(T) /\ s \in Seq(T) /\ k \in Nat
    /\ Len(u) = k + Len(s)
    /\ \A i \in 1 .. Len(s) : u[i + k] = s[i]

\* Where the restores of one kind are, in a list and in what is behind it.
LEMMA PendingShifted ==
  ASSUME NEW T, NEW u, NEW s, NEW k, Behind(T, u, s, k), NEW op
  PROVE  /\ pending(s, op) \subseteq 1 .. Len(s)
         /\ pending(u, op) \subseteq 1 .. k + Len(s)
         /\ \A a \in pending(s, op) : a + k \in pending(u, op) /\ u[a + k] = s[a]
         /\ \A b \in pending(u, op) \ (1 .. k) :
              b - k \in pending(s, op) /\ (b - k) + k = b /\ u[b] = s[b - k]
<1>1. /\ k \in Nat /\ Len(s) \in Nat
      /\ DOMAIN s = 1 .. Len(s) /\ DOMAIN u = 1 .. k + Len(s)
      /\ \A i \in 1 .. Len(s) : u[i + k] = s[i]
  BY LenProperties DEF Behind
<1>2. \A a \in 1 .. Len(s) : a + k \in 1 .. k + Len(s)
  BY <1>1
<1>3. \A b \in (1 .. k + Len(s)) \ (1 .. k) :
         b - k \in 1 .. Len(s) /\ (b - k) + k = b
  BY <1>1
<1> QED BY <1>1, <1>2, <1>3 DEF pending

\* Entries in front that are no restores of a kind make no difference to it.
LEMMA SettledShifted ==
  ASSUME NEW T, NEW u \in Seq(T), NEW s \in Seq(T), NEW k \in Nat,
         Len(u) = k + Len(s), NEW op,
         \A i \in 1 .. k : u[i].op # op,
         \A i \in 1 .. Len(s) : u[i + k] = s[i],
         NEW now, NEW fresh
  PROVE  Settled(u, op, now, fresh) <=> Settled(s, op, now, fresh)
<1> DEFINE A == pending(s, op)
           B == pending(u, op)
<1>1. Len(s) \in Nat
  BY LenProperties
<1>2. /\ A \subseteq 1 .. Len(s) /\ B \subseteq 1 .. k + Len(s)
      /\ \A a \in A : a + k \in B /\ u[a + k] = s[a]
      /\ \A b \in B : b - k \in A /\ (b - k) + k = b /\ u[b] = s[b - k]
  <2>1. \A b \in B : b \notin 1 .. k
    BY DEF pending
  <2>2. /\ A \subseteq 1 .. Len(s) /\ B \subseteq 1 .. k + Len(s)
        /\ \A a \in A : a + k \in B /\ u[a + k] = s[a]
        /\ \A b \in B \ (1 .. k) :
             b - k \in A /\ (b - k) + k = b /\ u[b] = s[b - k]
    <3>1. Behind(T, u, s, k)
      BY DEF Behind
    <3> QED BY <3>1, PendingShifted
  <2> QED BY <2>1, <2>2
<1>3. /\ Settled(s, op, now, fresh)
           <=> /\ A = {} => now = fresh
               /\ \A i \in A : (\A j \in A : j <= i) => s[i].val = fresh
      /\ Settled(u, op, now, fresh)
           <=> /\ B = {} => now = fresh
               /\ \A i \in B : (\A j \in B : j <= i) => u[i].val = fresh
  BY DEF Settled
<1> HIDE DEF A, B
<1>4. A = {} <=> B = {}
  BY <1>2
<1>5. /\ A \subseteq Nat /\ B \subseteq Nat
      /\ \A a, c \in A : a <= c <=> a + k <= c + k
      /\ \A b, c \in B : b <= c <=> b - k <= c - k
  BY <1>1, <1>2
<1>6. /\ \A a \in A : (\A j \in A : j <= a) => \A j \in B : j <= a + k
      /\ \A b \in B : (\A j \in B : j <= b) => \A j \in A : j <= b - k
  BY <1>2, <1>5
<1>7. /\ \A a \in A : (\A j \in B : j <= a + k) => \A j \in A : j <= a
      /\ \A b \in B : (\A j \in A : j <= b - k) => \A j \in B : j <= b
  BY <1>2, <1>5
<1>8. ASSUME \A i \in A : (\A j \in A : j <= i) => s[i].val = fresh
      PROVE  \A i \in B : (\A j \in B : j <= i) => u[i].val = fresh
  BY <1>2, <1>6, <1>8
<1>9. ASSUME \A i \in B : (\A j \in B : j <= i) => u[i].val = fresh
      PROVE  \A i \in A : (\A j \in A : j <= i) => s[i].val = fresh
  BY <1>2, <1>6, <1>9
<1> QED BY <1>3, <1>4, <1>8, <1>9

LEMMA ParamsShifted ==
  ASSUME NEW T, NEW u \in Seq(T), NEW s \in Seq(T), NEW k \in Nat,
         Len(u) = k + Len(s),
         \A i \in 1 .. k : u[i].op # "catchDone",
         \A i \in 1 .. Len(s) : u[i + k] = s[i],
         NEW names
  PROVE  ParamsOwned(u, names) <=> ParamsOwned(s, names)
<1> DEFINE A == pending(s, "catchDone")
           B == pending(u, "catchDone")
<1>1. Len(s) \in Nat
  BY LenProperties
<1>2. /\ A \subseteq 1 .. Len(s) /\ B \subseteq 1 .. k + Len(s)
      /\ \A a \in A : a + k \in B /\ u[a + k] = s[a]
      /\ \A b \in B : b - k \in A /\ (b - k) + k = b /\ u[b] = s[b - k]
  <2>1. \A b \in B : b \notin 1 .. k
    BY DEF pending
  <2>2. /\ A \subseteq 1 .. Len(s) /\ B \subseteq 1 .. k + Len(s)
        /\ \A a \in A : a + k \in B /\ u[a + k] = s[a]
        /\ \A b \in B \ (1 .. k) :
             b - k \in A /\ (b - k) + k = b /\ u[b] = s[b - k]
    <3>1. Behind(T, u, s, k)
      BY DEF Behind
    <3> QED BY <3>1, PendingShifted
  <2> QED BY <2>1, <2>2
<1>3. /\ ParamsOwned(s, names)
           <=> /\ names = UNION {s[i].drop : i \in A}
               /\ \A i, j \in A : i # j => s[i].drop \cap s[j].drop = {}
      /\ ParamsOwned(u, names)
           <=> /\ names = UNION {u[i].drop : i \in B}
               /\ \A i, j \in B : i # j => u[i].drop \cap u[j].drop = {}
  BY DEF ParamsOwned
<1> HIDE DEF A, B
<1>4. UNION {s[i].drop : i \in A} = UNION {u[i].drop : i \in B}
  BY <1>2
<1>5. /\ \A a, c \in A : a # c => a + k # c + k
      /\ \A b, c \in B : b # c => b - k # c - k
  BY <1>1, <1>2
<1>6. (\A i, j \in A : i # j => s[i].drop \cap s[j].drop = {})
        <=> (\A i, j \in B : i # j => u[i].drop \cap u[j].drop = {})
  <2>1. ASSUME \A i, j \in A : i # j => s[i].drop \cap s[j].drop = {},
               NEW i \in B, NEW j \in B, i # j
        PROVE  u[i].drop \cap u[j].drop = {}
    <3>1. /\ i - k \in A /\ u[i] = s[i - k]
          /\ j - k \in A /\ u[j] = s[j - k] /\ i - k # j - k
      BY <1>2, <1>5, <2>1
    <3> QED BY <2>1, <3>1
  <2>2. ASSUME \A i, j \in B : i # j => u[i].drop \cap u[j].drop = {},
               NEW i \in A, NEW j \in A, i # j
        PROVE  s[i].drop \cap s[j].drop = {}
    <3>1. /\ i + k \in B /\ u[i + k] = s[i]
          /\ j + k \in B /\ u[j + k] = s[j] /\ i + k # j + k
      BY <1>2, <1>5, <2>2
    <3> QED BY <2>2, <3>1
  <2> QED BY <2>1, <2>2
<1> QED BY <1>3, <1>4, <1>6

\* Entries in front that are no restores make no difference.
LEMMA SavesShifted ==
  ASSUME NEW T, NEW u \in Seq(T), NEW s \in Seq(T), NEW k \in Nat,
         Len(u) = k + Len(s),
         \A i \in 1 .. k : u[i].op \notin SaveOps,
         \A i \in 1 .. Len(s) : u[i + k] = s[i],
         NEW h
  PROVE  Balanced(u, h) <=> Balanced(s, h)
<1>1. \A op \in SaveOps : \A i \in 1 .. k : u[i].op # op
  OBVIOUS
<1>2. \A op \in SaveOps : \A now, fresh :
         Settled(u, op, now, fresh) <=> Settled(s, op, now, fresh)
  BY <1>1, SettledShifted
<1>3. \A names : ParamsOwned(u, names) <=> ParamsOwned(s, names)
  BY <1>1, ParamsShifted DEF SaveOps
<1> QED BY <1>2, <1>3 DEF Balanced, SaveOps

\* An entry in front of a list, and the list behind it.
LEMMA InFront ==
  ASSUME NEW T, NEW s \in Seq(T), NEW t \in T
  PROVE  /\ <<t>> \o s \in Seq(T) /\ Len(s) \in Nat
         /\ Len(<<t>> \o s) = 1 + Len(s) /\ (<<t>> \o s)[1] = t
         /\ \A i \in 1 .. Len(s) : (<<t>> \o s)[i + 1] = s[i]
<1> DEFINE h == <<t>>
<1>1. h \in Seq(T) /\ Len(h) = 1 /\ h[1] = t
  OBVIOUS
<1> HIDE DEF h
<1>2. /\ h \o s \in Seq(T) /\ Len(s) \in Nat
      /\ Len(h \o s) = Len(h) + Len(s)
      /\ \A i \in 1 .. Len(h) : (h \o s)[i] = h[i]
      /\ \A i \in 1 .. Len(s) : (h \o s)[i + Len(h)] = s[i]
  BY <1>1, Joined
<1>3. 1 \in 1 .. 1
  OBVIOUS
<1> QED BY <1>1, <1>2, <1>3 DEF h

\* The list u is t, then s.
First(T, u, t, s) == s \in Seq(T) /\ t \in T /\ u = <<t>> \o s

\* The restores of a kind when one more is put in front.
LEMMA PendingInFront ==
  ASSUME NEW T, NEW s, NEW t, NEW u, First(T, u, t, s), NEW op, t.op = op
  PROVE  /\ 1 \in pending(u, op) /\ u[1] = t
         /\ pending(s, op) \subseteq Nat \ {0}
         /\ \A a \in pending(s, op) : a + 1 \in pending(u, op) /\ u[a + 1] = s[a]
         /\ \A b \in pending(u, op) :
              b = 1 \/ (b - 1 \in pending(s, op) /\ (b - 1) + 1 = b /\ u[b] = s[b - 1])
<1>1. /\ u \in Seq(T) /\ s \in Seq(T)
      /\ Len(s) \in Nat /\ Len(u) = 1 + Len(s) /\ u[1] = t
      /\ \A i \in 1 .. Len(s) : u[i + 1] = s[i]
  BY InFront DEF First
<1>2. /\ pending(s, op) \subseteq 1 .. Len(s)
      /\ pending(u, op) \subseteq 1 .. 1 + Len(s)
      /\ \A a \in pending(s, op) : a + 1 \in pending(u, op) /\ u[a + 1] = s[a]
      /\ \A b \in pending(u, op) \ (1 .. 1) :
           b - 1 \in pending(s, op) /\ (b - 1) + 1 = b /\ u[b] = s[b - 1]
  <2>1. Behind(T, u, s, 1)
    BY <1>1 DEF Behind
  <2> QED BY <2>1, PendingShifted
<1>3. 1 \in pending(u, op)
  <2>1. DOMAIN u = 1 .. 1 + Len(s)
    BY <1>1, LenProperties
  <2>2. 1 \in 1 .. 1 + Len(s)
    BY <1>1
  <2> QED BY <1>1, <2>1, <2>2 DEF pending
<1>4. /\ 1 .. Len(s) \subseteq Nat \ {0}
      /\ \A b \in 1 .. 1 + Len(s) : b = 1 \/ b \notin 1 .. 1
  BY <1>1
<1> QED BY <1>1, <1>2, <1>3, <1>4

\* A restore in front brings the value the rest starts from.
LEMMA SettledInFront ==
  ASSUME NEW T, NEW s \in Seq(T), NEW t \in T, NEW op, t.op = op,
         NEW now, NEW fresh
  PROVE  Settled(<<t>> \o s, op, now, fresh) <=> Settled(s, op, t.val, fresh)
<1> DEFINE u == <<t>> \o s
           A == pending(s, op)
           B == pending(u, op)
<1>1. /\ 1 \in B /\ u[1] = t /\ A \subseteq Nat \ {0}
      /\ \A a \in A : a + 1 \in B /\ u[a + 1] = s[a]
      /\ \A b \in B : b = 1 \/ (b - 1 \in A /\ (b - 1) + 1 = b /\ u[b] = s[b - 1])
  <2>1. First(T, u, t, s)
    BY DEF First
  <2> HIDE DEF u
  <2> QED BY <2>1, PendingInFront
<1>2. /\ Settled(s, op, t.val, fresh)
           <=> /\ A = {} => t.val = fresh
               /\ \A i \in A : (\A j \in A : j <= i) => s[i].val = fresh
      /\ Settled(u, op, now, fresh)
           <=> /\ B = {} => now = fresh
               /\ \A i \in B : (\A j \in B : j <= i) => u[i].val = fresh
  BY DEF Settled
<1> HIDE DEF A, B, u
<1>3. (\A j \in B : j <= 1) <=> A = {}
  <2>1. \A a \in A : ~ (a + 1 <= 1)
    BY <1>1
  <2>2. A = {} => \A b \in B : b = 1
    BY <1>1
  <2>3. 1 <= 1
    OBVIOUS
  <2> QED BY <1>1, <2>1, <2>2, <2>3
<1>4. ASSUME NEW a \in A
      PROVE  (\A j \in A : j <= a) <=> (\A j \in B : j <= a + 1)
  <2>1. a \in Nat \ {0} /\ 1 <= a + 1
    BY <1>1
  <2>2. \A c \in A : c <= a <=> c + 1 <= a + 1
    BY <1>1, <2>1
  <2> QED BY <1>1, <2>1, <2>2
<1>5. (\A i \in B : (\A j \in B : j <= i) => u[i].val = fresh)
        <=> /\ A = {} => t.val = fresh
            /\ \A i \in A : (\A j \in A : j <= i) => s[i].val = fresh
  <2>1. ASSUME \A i \in B : (\A j \in B : j <= i) => u[i].val = fresh
        PROVE  /\ A = {} => t.val = fresh
               /\ \A i \in A : (\A j \in A : j <= i) => s[i].val = fresh
    BY <1>1, <1>3, <1>4, <2>1
  <2>2. ASSUME A = {} => t.val = fresh,
               \A i \in A : (\A j \in A : j <= i) => s[i].val = fresh,
               NEW i \in B, \A j \in B : j <= i
        PROVE  u[i].val = fresh
    <3>1. CASE i = 1
      BY <1>1, <1>3, <2>2, <3>1
    <3>2. CASE i # 1
      <4>1. i - 1 \in A /\ (i - 1) + 1 = i /\ u[i] = s[i - 1]
        BY <1>1, <3>2
      <4>2. \A j \in A : j <= i - 1
        BY <1>4, <2>2, <4>1
      <4> QED BY <2>2, <4>1, <4>2
    <3> QED BY <3>1, <3>2
  <2> QED BY <2>1, <2>2
<1> QED BY <1>1, <1>2, <1>5 DEF u

\* A catch clause in front owns what the clauses behind it do not.
LEMMA ParamsInFront ==
  ASSUME NEW T, NEW s \in Seq(T), NEW t \in T, t.op = "catchDone", NEW names
  PROVE  ParamsOwned(<<t>> \o s, names)
           <=> ParamsOwned(s, names \ t.drop) /\ t.drop \subseteq names
<1> DEFINE u == <<t>> \o s
           A == pending(s, "catchDone")
           B == pending(u, "catchDone")
           R == UNION {s[i].drop : i \in A}
<1>1. /\ 1 \in B /\ u[1] = t /\ A \subseteq Nat \ {0}
      /\ \A a \in A : a + 1 \in B /\ u[a + 1] = s[a]
      /\ \A b \in B : b = 1 \/ (b - 1 \in A /\ (b - 1) + 1 = b /\ u[b] = s[b - 1])
  <2>1. First(T, u, t, s)
    BY DEF First
  <2> HIDE DEF u
  <2> QED BY <2>1, PendingInFront
<1>2. /\ ParamsOwned(s, names \ t.drop)
           <=> /\ names \ t.drop = R
               /\ \A i, j \in A : i # j => s[i].drop \cap s[j].drop = {}
      /\ ParamsOwned(u, names)
           <=> /\ names = UNION {u[i].drop : i \in B}
               /\ \A i, j \in B : i # j => u[i].drop \cap u[j].drop = {}
  BY DEF ParamsOwned
<1> HIDE DEF A, B, u
<1>3. UNION {u[i].drop : i \in B} = t.drop \cup R
  <2>1. ASSUME NEW x \in t.drop \cup R PROVE \E i \in B : x \in u[i].drop
    <3>1. CASE x \in t.drop
      BY <1>1, <3>1
    <3>2. CASE x \in R
      <4>1. PICK a \in A : x \in s[a].drop
        BY <3>2 DEF R
      <4> QED BY <1>1, <4>1
    <3> QED BY <3>1, <3>2
  <2>2. ASSUME NEW i \in B, NEW x \in u[i].drop PROVE x \in t.drop \cup R
    BY <1>1, <2>2 DEF R
  <2> QED BY <2>1, <2>2
<1>4. /\ \A a \in A : a + 1 # 1
      /\ \A a, c \in A : a # c => a + 1 # c + 1
  BY <1>1
<1>5. (\A i, j \in B : i # j => u[i].drop \cap u[j].drop = {})
        <=> /\ \A i, j \in A : i # j => s[i].drop \cap s[j].drop = {}
            /\ t.drop \cap R = {}
  <2>1. ASSUME \A i, j \in B : i # j => u[i].drop \cap u[j].drop = {}
        PROVE  /\ \A i, j \in A : i # j => s[i].drop \cap s[j].drop = {}
               /\ t.drop \cap R = {}
    <3>1. \A a \in A : t.drop \cap s[a].drop = {}
      BY <1>1, <1>4, <2>1
    <3>2. \A i, j \in A : i # j => s[i].drop \cap s[j].drop = {}
      BY <1>1, <1>4, <2>1
    <3> QED BY <3>1, <3>2
  <2>2. ASSUME \A i, j \in A : i # j => s[i].drop \cap s[j].drop = {},
               t.drop \cap R = {},
               NEW i \in B, NEW j \in B, i # j
        PROVE  u[i].drop \cap u[j].drop = {}
    <3>1. \A a \in A : t.drop \cap s[a].drop = {}
      BY <2>2
    <3>2. \A b \in B : b # 1 => b - 1 \in A /\ (b - 1) + 1 = b /\ u[b] = s[b - 1]
      BY <1>1
    <3>3. CASE i = 1
      BY <1>1, <2>2, <3>1, <3>2, <3>3
    <3>4. CASE j = 1
      BY <1>1, <2>2, <3>1, <3>2, <3>4
    <3>5. CASE i # 1 /\ j # 1
      <4>1. /\ i - 1 \in A /\ (i - 1) + 1 = i /\ u[i] = s[i - 1]
            /\ j - 1 \in A /\ (j - 1) + 1 = j /\ u[j] = s[j - 1]
        BY <3>2, <3>5
      <4>2. i - 1 # j - 1
        BY <2>2, <4>1
      <4> QED BY <2>2, <4>1, <4>2
    <3> QED BY <3>3, <3>4, <3>5
  <2> QED BY <2>1, <2>2
<1> HIDE DEF R
<1>6. (names = t.drop \cup R /\ t.drop \cap R = {})
        <=> (names \ t.drop = R /\ t.drop \subseteq names)
  OBVIOUS
<1> QED BY <1>2, <1>3, <1>5, <1>6 DEF u

\* What a restore makes of each field.
LEMMA RestoredFields ==
  ASSUME NEW h \in fields, NEW t \in HoistTask, t.op \in SaveOps
  PROVE  LET g == restored(h, t) IN
         /\ g \in fields
         /\ t.op = "inBlock" =>
              /\ g.inBlock = t.val /\ g.kind = h.kind
              /\ catchFields(g) = catchFields(h)
              /\ g.catchParamDecls = h.catchParamDecls
         /\ t.op = "kind" =>
              /\ g.inBlock = h.inBlock /\ g.kind = t.val
              /\ catchFields(g) = catchFields(h)
              /\ g.catchParamDecls = h.catchParamDecls
         /\ t.op = "catchDone" =>
              /\ g.inBlock = h.inBlock /\ g.kind = h.kind
              /\ catchFields(g) = t.val
              /\ g.catchParamDecls = h.catchParamDecls \ t.drop
<1>1. CASE t.op = "inBlock"
  <2>1. t.val \in BOOLEAN
    BY <1>1 DEF HoistTask, HoisterOps
  <2>2. restored(h, t) = [h EXCEPT !.inBlock = t.val]
    BY <1>1 DEF restored
  <2> QED BY <1>1, <2>1, <2>2 DEF fields, catchFields
<1>2. CASE t.op = "kind"
  <2>1. t.val \in DeclKind
    BY <1>2 DEF HoistTask, HoisterOps
  <2>2. restored(h, t) = [h EXCEPT !.kind = t.val]
    BY <1>2 DEF restored
  <2> QED BY <1>2, <2>1, <2>2 DEF fields, catchFields
<1>3. CASE t.op = "catchDone"
  <2>1. /\ t.val \in [inCatchBody : BOOLEAN, excludedFromCatch : SUBSET Name]
        /\ t.drop \in SUBSET Name
    BY <1>3 DEF HoistTask, HoisterOps
  <2>2. restored(h, t) = [h EXCEPT !.inCatchBody = t.val.inCatchBody,
                                   !.excludedFromCatch = t.val.excludedFromCatch,
                                   !.catchParamDecls = @ \ t.drop]
    BY <1>3 DEF restored
  <2>3. /\ t.val.inCatchBody \in BOOLEAN /\ t.val.excludedFromCatch \in SUBSET Name
        /\ t.val = [inCatchBody |-> t.val.inCatchBody,
                    excludedFromCatch |-> t.val.excludedFromCatch]
    BY <2>1
  <2>4. /\ restored(h, t) \in fields
        /\ restored(h, t).inBlock = h.inBlock /\ restored(h, t).kind = h.kind
        /\ restored(h, t).inCatchBody = t.val.inCatchBody
        /\ restored(h, t).excludedFromCatch = t.val.excludedFromCatch
        /\ restored(h, t).catchParamDecls = h.catchParamDecls \ t.drop
    BY <2>1, <2>2, <2>3 DEF fields
  <2> QED BY <1>3, <2>3, <2>4 DEF catchFields
<1> QED BY <1>1, <1>2, <1>3 DEF SaveOps

\* A restore in front is balanced if what it leaves is, for the entries behind it.
LEMMA SaveInFront ==
  ASSUME NEW T, NEW s \in Seq(T), NEW t \in T, t \in HoistTask, t.op \in SaveOps,
         NEW h \in fields
  PROVE  Balanced(<<t>> \o s, h) <=>
           /\ Balanced(s, restored(h, t))
           /\ t.op = "catchDone" => t.drop \subseteq h.catchParamDecls
<1> DEFINE u == <<t>> \o s
           g == restored(h, t)
<1>1. \A op, now, fresh : t.op # op =>
         (Settled(u, op, now, fresh) <=> Settled(s, op, now, fresh))
  <2> SUFFICES ASSUME NEW op, NEW now, NEW fresh, t.op # op
               PROVE  Settled(u, op, now, fresh) <=> Settled(s, op, now, fresh)
    OBVIOUS
  <2>1. /\ u \in Seq(T) /\ Len(u) = 1 + Len(s) /\ u[1] = t
        /\ \A i \in 1 .. Len(s) : u[i + 1] = s[i]
    BY InFront
  <2> HIDE DEF u
  <2>2. \A i \in 1 .. 1 : u[i].op # op
    BY <2>1
  <2> QED BY <2>1, <2>2, SettledShifted
<1>2. \A op, now, fresh : t.op = op =>
         (Settled(u, op, now, fresh) <=> Settled(s, op, t.val, fresh))
  BY SettledInFront
<1>3. t.op # "catchDone" =>
         \A names : ParamsOwned(u, names) <=> ParamsOwned(s, names)
  <2> SUFFICES ASSUME t.op # "catchDone", NEW names
               PROVE  ParamsOwned(u, names) <=> ParamsOwned(s, names)
    OBVIOUS
  <2>1. /\ u \in Seq(T) /\ Len(u) = 1 + Len(s) /\ u[1] = t
        /\ \A i \in 1 .. Len(s) : u[i + 1] = s[i]
    BY InFront
  <2> HIDE DEF u
  <2>2. \A i \in 1 .. 1 : u[i].op # "catchDone"
    BY <2>1
  <2> QED BY <2>1, <2>2, ParamsShifted
<1>4. t.op = "catchDone" =>
         \A names : ParamsOwned(u, names)
                      <=> ParamsOwned(s, names \ t.drop) /\ t.drop \subseteq names
  BY ParamsInFront
<1>5. /\ t.op = "inBlock" =>
           /\ g.inBlock = t.val /\ g.kind = h.kind
           /\ catchFields(g) = catchFields(h)
           /\ g.catchParamDecls = h.catchParamDecls
      /\ t.op = "kind" =>
           /\ g.inBlock = h.inBlock /\ g.kind = t.val
           /\ catchFields(g) = catchFields(h)
           /\ g.catchParamDecls = h.catchParamDecls
      /\ t.op = "catchDone" =>
           /\ g.inBlock = h.inBlock /\ g.kind = h.kind
           /\ catchFields(g) = t.val
           /\ g.catchParamDecls = h.catchParamDecls \ t.drop
  BY RestoredFields
<1>6. \A q, f : Balanced(q, f) <=>
         /\ Settled(q, "inBlock", f.inBlock, FALSE)
         /\ Settled(q, "kind", f.kind, declKindVar)
         /\ Settled(q, "catchDone", catchFields(f), catchFields(freshHoister))
         /\ ParamsOwned(q, f.catchParamDecls)
  BY DEF Balanced
<1> HIDE DEF u, g
<1>7. CASE t.op = "inBlock"
  <2>1. /\ Settled(u, "inBlock", h.inBlock, FALSE) <=> Settled(s, "inBlock", g.inBlock, FALSE)
        /\ \A op \in {"kind", "catchDone"} : \A now, fresh :
             Settled(u, op, now, fresh) <=> Settled(s, op, now, fresh)
    BY <1>1, <1>2, <1>5, <1>7
  <2> QED BY <1>3, <1>5, <1>6, <1>7, <2>1 DEF u, g
<1>8. CASE t.op = "kind"
  <2>1. /\ Settled(u, "kind", h.kind, declKindVar) <=> Settled(s, "kind", g.kind, declKindVar)
        /\ \A op \in {"inBlock", "catchDone"} : \A now, fresh :
             Settled(u, op, now, fresh) <=> Settled(s, op, now, fresh)
    BY <1>1, <1>2, <1>5, <1>8
  <2> QED BY <1>3, <1>5, <1>6, <1>8, <2>1 DEF u, g
<1>9. CASE t.op = "catchDone"
  <2>1. /\ \A now, fresh : Settled(u, "catchDone", now, fresh)
                             <=> Settled(s, "catchDone", catchFields(g), fresh)
        /\ \A op \in {"inBlock", "kind"} : \A now, fresh :
             Settled(u, op, now, fresh) <=> Settled(s, op, now, fresh)
    BY <1>1, <1>2, <1>5, <1>9
  <2> QED BY <1>4, <1>5, <1>6, <1>9, <2>1 DEF u, g
<1> QED BY <1>7, <1>8, <1>9 DEF SaveOps

\* Which entries come first, in a list and in the list behind its first entry.
LEMMA FirstInTail ==
  ASSUME NEW T, NEW s \in Seq(T), s # <<>>, HoisterFirst(s)
  PROVE  HoisterFirst(Tail(s))
<1>1. /\ Len(s) \in Nat \ {0} /\ DOMAIN s = 1 .. Len(s)
      /\ DOMAIN Tail(s) = 1 .. Len(s) - 1
      /\ \A i \in 1 .. Len(s) - 1 : Tail(s)[i] = s[i + 1]
  BY HeadTailProperties, EmptySeq, LenProperties
<1>2. /\ \A i \in 1 .. Len(s) - 1 : i + 1 \in 1 .. Len(s)
      /\ \A i, j \in 1 .. Len(s) - 1 : i < j => i + 1 < j + 1
  BY <1>1
<1> QED BY <1>1, <1>2 DEF HoisterFirst

\* The hoister's entries may be put in front of any others.
LEMMA FirstInJoined ==
  ASSUME NEW T, NEW s \in Seq(T), HoisterFirst(s), NEW ts \in Seq(T),
         \A i \in 1 .. Len(ts) : ts[i].op \in HoistOps
  PROVE  HoisterFirst(ts \o s)
<1> DEFINE u == ts \o s
           k == Len(ts)
<1>1. /\ k \in Nat /\ Len(s) \in Nat
      /\ DOMAIN s = 1 .. Len(s) /\ DOMAIN u = 1 .. k + Len(s)
      /\ \A i \in 1 .. k : u[i] = ts[i]
      /\ \A i \in 1 .. Len(s) : u[i + k] = s[i]
  BY Joined
<1> HIDE DEF u
<1>2. \A i \in 1 .. k : u[i].op \in HoistOps
  BY <1>1
<1> HIDE DEF k
<1>3. \A i \in 1 .. k + Len(s) :
         i \in 1 .. k \/ (i - k \in 1 .. Len(s) /\ (i - k) + k = i /\ ~ (i <= k))
  BY <1>1
<1>4. SUFFICES ASSUME NEW i \in DOMAIN u, NEW j \in DOMAIN u, i < j,
                      u[j].op \in HoistOps
               PROVE  u[i].op \in HoistOps
  BY DEF HoisterFirst, HoistOps, u
<1>5. CASE i \in 1 .. k
  BY <1>2, <1>5
<1>6. CASE i \notin 1 .. k
  <2>1. i \in 1 .. k + Len(s) /\ j \in 1 .. k + Len(s)
    BY <1>1
  <2>2. i - k \in 1 .. Len(s) /\ (i - k) + k = i /\ ~ (i <= k)
    BY <1>3, <1>6, <2>1
  <2>3. j \notin 1 .. k
    BY <1>1, <1>4, <2>1, <2>2
  <2>4. j - k \in 1 .. Len(s) /\ (j - k) + k = j
    BY <1>3, <2>1, <2>3
  <2>5. i - k < j - k
    BY <1>1, <1>4, <2>1
  <2>6. u[i] = s[i - k] /\ u[j] = s[j - k]
    BY <1>1, <2>2, <2>4
  <2> QED BY <1>1, <1>4, <2>2, <2>4, <2>5, <2>6 DEF HoisterFirst, HoistOps
<1> QED BY <1>5, <1>6

\* An entry that is not a save is done.
LEMMA QueueTail ==
  ASSUME NEW s, NEW h, QueueOK(s, h), s # <<>>, Head(s).op \notin SaveOps
  PROVE  QueueOK(Tail(s), h)
<1> DEFINE T == WalkTask \cup HoistTask
<1>1. s \in Seq(T) /\ HoisterFirst(s) /\ Balanced(s, h)
  BY DEF QueueOK
<1> HIDE DEF T
<1>2. /\ Tail(s) \in Seq(T) /\ Len(s) = 1 + Len(Tail(s)) /\ Len(s) \in Nat \ {0}
      /\ s[1].op \notin SaveOps
      /\ \A i \in 1 .. Len(Tail(s)) : s[i + 1] = Tail(s)[i]
  <2>1. /\ Tail(s) \in Seq(T) /\ Len(Tail(s)) = Len(s) - 1 /\ Len(s) \in Nat \ {0}
        /\ Head(s) = s[1] /\ \A i \in 1 .. Len(s) - 1 : Tail(s)[i] = s[i + 1]
    BY <1>1, HeadTailProperties, EmptySeq, LenProperties
  <2>2. Len(s) = 1 + Len(Tail(s))
    BY <2>1
  <2> QED BY <2>1, <2>2
<1>3. \A i \in 1 .. 1 : s[i].op \notin SaveOps
  BY <1>2
<1>4. Balanced(Tail(s), h)
  BY <1>1, <1>2, <1>3, SavesShifted, ZenonT(60)
<1>5. HoisterFirst(Tail(s))
  BY <1>1, FirstInTail
<1> QED BY <1>2, <1>4, <1>5 DEF QueueOK, T

\* A restore is done: what is left is balanced for the fields it made.
LEMMA QueueRestore ==
  ASSUME NEW s, NEW h \in fields, QueueOK(s, h), s # <<>>, Head(s).op \in SaveOps
  PROVE  /\ QueueOK(Tail(s), restored(h, Head(s)))
         /\ restored(h, Head(s)) \in fields
<1> DEFINE T == WalkTask \cup HoistTask
           t == Head(s)
           tl == Tail(s)
<1>1. s \in Seq(T) /\ HoisterFirst(s) /\ Balanced(s, h)
  BY DEF QueueOK
<1>2. t \in T /\ tl \in Seq(T) /\ s = <<t>> \o tl
  <2> HIDE DEF T
  <2> QED BY <1>1, Split
<1>3. t \in HoistTask
  BY <1>2, TaskOps
<1>4. HoisterFirst(tl)
  <2> HIDE DEF T
  <2> QED BY <1>1, FirstInTail
<1> HIDE DEF T, t, tl
<1>5. t.op \in SaveOps
  BY DEF t
<1>6. Balanced(<<t>> \o tl, h)
  BY <1>1, <1>2
<1>7. Balanced(tl, restored(h, t))
  BY <1>2, <1>3, <1>5, <1>6, SaveInFront
<1>8. restored(h, t) \in fields
  BY <1>3, <1>5, RestoredFields
<1> QED BY <1>2, <1>4, <1>7, <1>8 DEF QueueOK, T, t, tl

\* Visits of the hoister, or other entries of its that save nothing, are put in front.
LEMMA QueueVisits ==
  ASSUME NEW s, NEW h, QueueOK(s, h), NEW ts \in Seq(HoistTask),
         \A i \in 1 .. Len(ts) : ts[i].op \notin SaveOps
  PROVE  QueueOK(ts \o s, h)
<1> DEFINE T == WalkTask \cup HoistTask
<1>1. s \in Seq(T) /\ HoisterFirst(s) /\ Balanced(s, h)
  BY DEF QueueOK
<1>2. ts \in Seq(T) /\ \A i \in 1 .. Len(ts) : ts[i].op \in HoistOps
  <2>1. \A i \in 1 .. Len(ts) : ts[i] \in HoistTask
    BY ElementOfSeq
  <2> QED BY <2>1, TaskOps, SeqMonotonic
<1> HIDE DEF T
<1> DEFINE u == ts \o s
<1>3. /\ u \in Seq(T) /\ Len(ts) \in Nat /\ Len(u) = Len(ts) + Len(s)
      /\ \A i \in 1 .. Len(ts) : u[i] = ts[i]
      /\ \A i \in 1 .. Len(s) : u[i + Len(ts)] = s[i]
  BY <1>1, <1>2, Joined
<1>4. HoisterFirst(u)
  BY <1>1, <1>2, FirstInJoined
<1> HIDE DEF u
<1>5. Balanced(u, h)
  BY <1>1, <1>3, SavesShifted
<1> QED BY <1>3, <1>4, <1>5 DEF QueueOK, T, u

\* A restore may be put in front that leads to the fields the rest expects.
LEMMA QueueSave ==
  ASSUME NEW s, NEW h \in fields, NEW t \in HoistTask, t.op \in SaveOps,
         QueueOK(s, restored(h, t)),
         t.op = "catchDone" => t.drop \subseteq h.catchParamDecls
  PROVE  QueueOK(<<t>> \o s, h)
<1> DEFINE T == WalkTask \cup HoistTask
           ts == <<t>>
<1>1. s \in Seq(T) /\ HoisterFirst(s) /\ Balanced(s, restored(h, t))
  BY DEF QueueOK
<1>2. ts \in Seq(T) /\ Len(ts) = 1 /\ ts[1] = t /\ t \in T /\ t.op \in HoistOps
  BY TaskOps
<1> HIDE DEF T
<1>3. Balanced(ts \o s, h)
  BY <1>1, <1>2, SaveInFront
<1> HIDE DEF ts
<1>4. \A i \in 1 .. Len(ts) : ts[i].op \in HoistOps
  BY <1>2
<1>5. HoisterFirst(ts \o s) /\ ts \o s \in Seq(T)
  BY <1>1, <1>2, <1>4, FirstInJoined, Joined
<1> QED BY <1>3, <1>5 DEF QueueOK, T, ts

\* In the body of a catch clause the names left out of it may change.
LEMMA QueueExcluded ==
  ASSUME NEW s, NEW h \in fields, NEW g \in fields, QueueOK(s, h), h.inCatchBody,
         g.inBlock = h.inBlock, g.kind = h.kind,
         g.catchParamDecls = h.catchParamDecls
  PROVE  QueueOK(s, g)
<1>1. Balanced(s, h)
  BY DEF QueueOK
<1>2. pending(s, "catchDone") # {}
  <2>1. catchFields(h) # catchFields(freshHoister)
    BY DEF catchFields, freshHoister
  <2> QED BY <1>1, <2>1 DEF Balanced, Settled
<1>3. Settled(s, "catchDone", catchFields(g), catchFields(freshHoister))
  BY <1>1, <1>2 DEF Balanced, Settled
<1>4. Balanced(s, g)
  BY <1>1, <1>3 DEF Balanced
<1> QED BY <1>4 DEF QueueOK

-----------------------------------------------------------------------------
\* The tree.

\* A node of the tree is well formed, and its children are nodes or absent.
LEMMA Nodes ==
  ASSUME Inv, NEW n \in DOMAIN ast
  PROVE  /\ WellFormedNode(ast, n, Name)
         /\ NoNode \notin DOMAIN ast
         /\ ast[n].kids \in Seq(DOMAIN ast \cup {NoNode})
         /\ Len(ast[n].kids) \in Nat
         /\ DOMAIN ast[n].kids = 1 .. Len(ast[n].kids)
         /\ \A i \in 1 .. Len(ast[n].kids) : ast[n].kids[i] \in DOMAIN ast \cup {NoNode}
<1>1. WellFormedTree(ast, Name)
  BY ProgramsAssumption DEF Inv
<1>2. WellFormedNode(ast, n, Name) /\ NoNode \notin DOMAIN ast
  BY <1>1 DEF WellFormedTree
<1>3. ast[n].kids \in Seq(DOMAIN ast \cup {NoNode})
  BY <1>2 DEF WellFormedNode
<1> QED BY <1>2, <1>3, LenProperties, ElementOfSeq

HoistVisit == [op : HoisterOps, node : DOMAIN ast]

\* The visits the walk and the hoister push.
LEMMA Visits ==
  /\ \A n \in DOMAIN ast, op \in {"resolve", "declare"} : visit(op, n) \in WalkTask
  /\ \A n \in DOMAIN ast, op \in HoisterOps : visit(op, n) \in HoistVisit
BY DEF visit, WalkTask, HoistVisit, HoisterOps

\* The visits of a list of nodes are entries of the resolver.
LEMMA VisitsOf ==
  ASSUME Inv, NEW list \in Seq(DOMAIN ast \cup {NoNode}), NEW P
  PROVE  /\ \A op \in {"resolve", "declare"} :
              visitAll(op, Sublist(list, P \cap DOMAIN ast)) \in Seq(WalkTask)
         /\ \A op \in HoisterOps :
              visitAll(op, Sublist(list, P \cap DOMAIN ast)) \in Seq(HoistVisit)
<1> DEFINE D == (DOMAIN ast \cup {NoNode}) \cap (P \cap DOMAIN ast)
           l == Sublist(list, P \cap DOMAIN ast)
<1>1. l \in Seq(D)
  BY SublistIn
<1>2. \A n \in D : n \in DOMAIN ast
  OBVIOUS
<1> HIDE DEF D, l
<1>3. ASSUME NEW op \in {"resolve", "declare"} PROVE visitAll(op, l) \in Seq(WalkTask)
  <2>1. \A n \in D : visit(op, n) \in WalkTask
    BY <1>2, Visits
  <2> QED BY <1>1, <2>1, VisitAllIn
<1>4. ASSUME NEW op \in HoisterOps PROVE visitAll(op, l) \in Seq(HoistVisit)
  <2>1. \A n \in D : visit(op, n) \in HoistVisit
    BY <1>2, Visits
  <2> QED BY <1>1, <2>1, VisitAllIn
<1> QED BY <1>3, <1>4 DEF l

\* So are the visits of a node's children.
LEMMA KidVisits ==
  ASSUME Inv, NEW n \in DOMAIN ast
  PROVE  /\ visitKids("resolve", n) \in Seq(WalkTask)
         /\ visitKids("declare", n) \in Seq(WalkTask)
         /\ visitKids("hoist", n) \in Seq(HoistVisit)
         /\ visitKids("hoistPattern", n) \in Seq(HoistVisit)
<1>1. ast[n].kids \in Seq(DOMAIN ast \cup {NoNode})
  BY Nodes
<1>2. DOMAIN ast \cap DOMAIN ast = DOMAIN ast
  OBVIOUS
<1>3. /\ \A op \in {"resolve", "declare"} :
           visitAll(op, Sublist(ast[n].kids, DOMAIN ast)) \in Seq(WalkTask)
      /\ \A op \in HoisterOps :
           visitAll(op, Sublist(ast[n].kids, DOMAIN ast)) \in Seq(HoistVisit)
  BY <1>1, <1>2, VisitsOf
<1> QED BY <1>3 DEF visitKids, Children, HoisterOps

\* The children of a list that may be absent.
LEMMA SomeVisits ==
  ASSUME Inv, NEW list \in Seq(DOMAIN ast \cup {NoNode})
  PROVE  visitSome("resolve", list) \in Seq(WalkTask)
<1>1. DOMAIN ast \cap DOMAIN ast = DOMAIN ast
  OBVIOUS
<1> QED BY <1>1, VisitsOf DEF visitSome

-----------------------------------------------------------------------------
\* One step.

\* What every step keeps, besides the structure of the table.
Kept ==
    /\ [TableNext]_tableVars
    /\ ctxOf' \in [DOMAIN ast -> ScopeContext]
    /\ identType' \in {identTypeRef, identTypeBinding}
    /\ declKind' \in DeclKind
    /\ hoister' \in fields
    /\ QueueOK(todo', hoister')
    /\ \A n \in DOMAIN ast :
         (/\ ast[n].kind = "Identifier"
          /\ ctxOf[n] # UnresolvedContext
          /\ ~varOfCatchParam(n))
            => ctxOf'[n] = ctxOf[n]

\* The resolver does something: no hoister run is under way.
LEMMA Walking ==
  ASSUME Inv, todo # <<>>, Top.op \notin HoistOps
  PROVE  /\ hoister = freshHoister
         /\ Top \in WalkTask
         /\ Tail(todo) \in Seq(WalkTask)
<1>1. hoister \in fields /\ QueueOK(todo, hoister)
  BY DEF Inv, ResolverTypeOK
<1> QED BY <1>1, WalkOnly DEF Top

\* A step of the resolver pushes only entries of its own.
LEMMA WalkKept ==
  ASSUME Inv, todo # <<>>, Top.op \notin HoistOps,
         NEW ts \in Seq(WalkTask), then(ts),
         hoister' \in {freshHoister, hoister},
         [TableNext]_tableVars,
         ctxOf' \in [DOMAIN ast -> ScopeContext],
         identType' \in {identTypeRef, identTypeBinding},
         declKind' \in DeclKind,
         \A n \in DOMAIN ast :
            ast[n].kind = "Identifier" /\ ctxOf[n] # UnresolvedContext
              => ctxOf'[n] = ctxOf[n]
  PROVE  Kept
<1>1. hoister = freshHoister /\ Tail(todo) \in Seq(WalkTask)
  BY Walking
<1> DEFINE q == ts \o Tail(todo)
<1>2. q \in Seq(WalkTask)
  BY <1>1, Joined
<1>3. todo' = q /\ hoister' = freshHoister
  BY <1>1 DEF then
<1> HIDE DEF q
<1>4. QueueOK(q, freshHoister)
  BY <1>2, QueueOfWalk
<1>5. QueueOK(todo', hoister')
  BY <1>3, <1>4
<1> QED BY <1>3, <1>5, FreshFields DEF Kept

\* The next entry is the resolver's visit of a node of kind k.
LEMMA Resolving ==
  ASSUME Inv, NEW k, visiting("resolve", k)
  PROVE  /\ todo # <<>> /\ Top.op \notin HoistOps
         /\ node \in DOMAIN ast /\ ast[node].kind = k
<1>1. todo # <<>> /\ Top.op = "resolve" /\ ast[node].kind = k
  BY DEF visiting
<1>2. Top.op \notin HoistOps
  BY <1>1 DEF HoistOps, HoisterOps, SaveOps
<1>3. Top \in WalkTask
  BY <1>1, <1>2, Walking
<1>4. Top.node \in DOMAIN ast
  BY <1>1, <1>3 DEF WalkTask
<1> QED BY <1>1, <1>2, <1>4 DEF node

\* What the type invariant says of each variable.
LEMMA Types ==
  ASSUME Inv
  PROVE  /\ TypeOK
         /\ ctxOf \in [DOMAIN ast -> ScopeContext]
         /\ identType \in {identTypeRef, identTypeBinding}
         /\ declKind \in DeclKind
         /\ hoister \in fields
BY DEF Inv, ResolverTypeOK

\* A scope is opened; its context is one.
LEMMA Opens ==
  ASSUME Inv, pushScope
  PROVE  [TableNext]_tableVars /\ nextCtxt \in ScopeContext
<1>1. nextCtxt \in TopLevelContext .. MaxCtxt
  BY DEF Inv, Structure, TypeOK
<1> QED BY <1>1, MaxCtxtAssumption DEF TableNext, ScopeContext, TopLevelContext, UnresolvedContext

\* Binding an identifier unless it has a context is a declaration in the table
\* or nothing, and changes no context there is.
LEMMA Modified ==
  ASSUME Inv, NEW n \in DOMAIN ast, ast[n].kind = "Identifier",
         NEW k \in DeclKind, modify(n, k)
  PROVE  /\ [TableNext]_tableVars
         /\ ctxOf' \in [DOMAIN ast -> ScopeContext]
         /\ \A m \in DOMAIN ast :
              ctxOf[m] # UnresolvedContext => ctxOf'[m] = ctxOf[m]
<1>1. ast[n].attr \in Name
  BY Nodes DEF WellFormedNode
<1>2. ctxOf \in [DOMAIN ast -> ScopeContext]
  BY Types
<1>3. CASE ctxOf[n] # UnresolvedContext
  BY <1>2, <1>3 DEF modify
<1>4. CASE ctxOf[n] = UnresolvedContext
  <2>1. declare(ast[n].attr, k) /\ ctxOf' = [ctxOf EXCEPT ![n] = currentCtx]
    BY <1>4 DEF modify
  <2>2. current # Nil
    BY <2>1 DEF declare
  <2>3. currentCtx \in ScopeContext
    <3>1. current \in 0 .. Len(heap) /\ Len(heap) \in Nat
          /\ \A o \in 1 .. Len(heap) : heap[o] \in scope
      BY Types, Lengths DEF TypeOK
    <3>2. current \in 1 .. Len(heap)
      BY <2>2, <3>1 DEF Nil
    <3> QED BY <3>1, <3>2 DEF currentCtx, scope
  <2>4. [TableNext]_tableVars
    BY <1>1, <2>1 DEF TableNext
  <2> QED BY <1>2, <1>4, <2>1, <2>3, <2>4
<1> QED BY <1>3, <1>4

\* A context that lookup answers is one.
LEMMA SeenContext ==
  ASSUME Inv, NEW name \in Name
  PROVE  lookup(name).ctx \in ScopeContext
BY Types DEF TypeOK, symEntry, lookup

\* Entries that are not visits.
LEMMA Restores ==
  /\ popTask \in WalkTask
  /\ \A t \in {identTypeRef, identTypeBinding} : identTypeTask(t) \in WalkTask
  /\ \A k \in DeclKind : declKindTask(k) \in WalkTask
  /\ \A n \in DOMAIN ast, k \in DeclKind :
       ast[n].kind = "Identifier" => modifyTask(n, k) \in WalkTask
BY DEF WalkTask, popTask, identTypeTask, declKindTask, modifyTask

\* Sequences of entries put together.
LEMMA Entries ==
  ASSUME NEW T
  PROVE  /\ <<>> \in Seq(T)
         /\ \A t \in T : <<t>> \in Seq(T)
         /\ \A t, u \in T : <<t, u>> \in Seq(T)
         /\ \A t, u, v \in T : <<t, u, v>> \in Seq(T)
         /\ \A a, b \in Seq(T) : a \o b \in Seq(T)
OBVIOUS

-----------------------------------------------------------------------------
\* The steps of the resolver.

\* Popping a scope, or the root, which is kept.
LEMMA PopScopeKept == ASSUME Inv, PopScope PROVE Kept
<1>1. todo # <<>> /\ Top.op = "popScope" /\ then(<<>>)
      /\ (popScope \/ UNCHANGED tableVars)
      /\ UNCHANGED <<ctxOf, identType, declKind, hoister>>
  BY DEF PopScope
<1>2. Top.op \notin HoistOps
  BY <1>1 DEF HoistOps, HoisterOps, SaveOps
<1>3. [TableNext]_tableVars
  BY <1>1 DEF TableNext
<1> QED BY <1>1, <1>2, <1>3, Types, Entries, WalkKept

\* An identifier without a context gets one and is declared.
LEMMA ModifyKept == ASSUME Inv, Modify PROVE Kept
<1>1. todo # <<>> /\ Top.op = "modify" /\ then(<<>>) /\ modify(node, Top.kind)
      /\ UNCHANGED <<identType, declKind, hoister>>
  BY DEF Modify
<1>2. Top.op \notin HoistOps
  BY <1>1 DEF HoistOps, HoisterOps, SaveOps
<1>3. Top \in WalkTask
  BY <1>1, <1>2, Walking
<1>4. node \in DOMAIN ast /\ ast[node].kind = "Identifier" /\ Top.kind \in DeclKind
  BY <1>1, <1>3 DEF WalkTask, node
<1>5. /\ [TableNext]_tableVars
      /\ ctxOf' \in [DOMAIN ast -> ScopeContext]
      /\ \A m \in DOMAIN ast :
           ctxOf[m] # UnresolvedContext => ctxOf'[m] = ctxOf[m]
  BY <1>1, <1>4, Modified
<1> QED BY <1>1, <1>2, <1>5, Types, Entries, WalkKept

\* The hoister gets back what was saved.
LEMMA HoisterRestored ==
  ASSUME Inv, todo # <<>>, Top.op \in SaveOps, Restore
  PROVE  hoister' \in fields /\ QueueOK(todo', hoister')
<1>1. hoister \in fields /\ QueueOK(todo, hoister)
  BY Types DEF Inv
<1>2. QueueOK(Tail(todo), restored(hoister, Top)) /\ restored(hoister, Top) \in fields
  BY <1>1, QueueRestore DEF Top
<1>3. hoister' = restored(hoister, Top) /\ todo' = Tail(todo)
  <2>1. \A s : s \in Seq(WalkTask \cup HoistTask) => <<>> \o s = s
    OBVIOUS
  <2>2. Tail(todo) \in Seq(WalkTask \cup HoistTask)
    BY <1>2 DEF QueueOK
  <2> QED BY <2>1, <2>2 DEF Restore, then
<1> QED BY <1>2, <1>3

\* A saved field comes back; the hoister's saves come off the front of todo.
LEMMA RestoreKept == ASSUME Inv, Restore PROVE Kept
<1>1. /\ todo # <<>> /\ then(<<>>)
      /\ Top.op \in {"identType", "declKind"} \cup SaveOps
      /\ identType' = IF Top.op = "identType" THEN Top.val ELSE identType
      /\ declKind' = IF Top.op = "declKind" THEN Top.val ELSE declKind
      /\ UNCHANGED <<tableVars, ctxOf>>
  BY DEF Restore
<1>2. [TableNext]_tableVars /\ ctxOf' = ctxOf
  BY <1>1
<1>3. CASE Top.op \in SaveOps
  <2>1. identType' = identType /\ declKind' = declKind
    BY <1>1, <1>3 DEF SaveOps
  <2>2. hoister' \in fields /\ QueueOK(todo', hoister')
    BY <1>1, <1>3, HoisterRestored
  <2> QED BY <1>2, <2>1, <2>2, Types DEF Kept
<1>4. CASE Top.op \notin SaveOps
  <2>1. Top.op \in {"identType", "declKind"}
    BY <1>1, <1>4 DEF SaveOps
  <2>2. Top.op \notin HoistOps
    BY <2>1 DEF HoistOps, HoisterOps, SaveOps
  <2>3. Top \in WalkTask
    BY <1>1, <2>2, Walking
  <2>4. /\ Top.op = "identType" => Top.val \in {identTypeRef, identTypeBinding}
        /\ Top.op = "declKind" => Top.val \in DeclKind
    BY <2>1, <2>3 DEF WalkTask
  <2>5. /\ identType' \in {identTypeRef, identTypeBinding}
        /\ declKind' \in DeclKind
    BY <1>1, <2>1, <2>4, Types
  <2>6. hoister' = hoister
    BY <1>4 DEF Restore
  <2> QED BY <1>1, <1>2, <2>2, <2>5, <2>6, Types, Entries, WalkKept
<1> QED BY <1>3, <1>4

\* The visits that open a scope push its end with what is in it.
LEMMA VisitProgramKept == ASSUME Inv, VisitProgram PROVE Kept
<1> DEFINE ts == visitKids("resolve", node) \o <<popTask>>
<1>1. visiting("resolve", "Program") /\ pushScope /\ then(ts)
      /\ UNCHANGED <<ctxOf, identType, declKind, hoister>>
  BY DEF VisitProgram
<1>2. todo # <<>> /\ Top.op \notin HoistOps /\ node \in DOMAIN ast
  BY <1>1, Resolving
<1>3. ts \in Seq(WalkTask)
  BY <1>2, KidVisits, Restores, Entries
<1> HIDE DEF ts
<1> QED BY <1>1, <1>2, <1>3, Opens, Types, WalkKept

\* A block also records the scope's context.
LEMMA VisitBlockStatementKept == ASSUME Inv, VisitBlockStatement PROVE Kept
<1> DEFINE ts == visitKids("resolve", node) \o <<popTask>>
<1>1. visiting("resolve", "BlockStatement") /\ pushScope /\ then(ts)
      /\ ctxOf' = [ctxOf EXCEPT ![node] = nextCtxt]
      /\ UNCHANGED <<identType, declKind, hoister>>
  BY DEF VisitBlockStatement
<1>2. todo # <<>> /\ Top.op \notin HoistOps /\ node \in DOMAIN ast
      /\ ast[node].kind = "BlockStatement"
  BY <1>1, Resolving
<1>3. ts \in Seq(WalkTask)
  BY <1>2, KidVisits, Restores, Entries
<1>4. /\ ctxOf' \in [DOMAIN ast -> ScopeContext]
      /\ \A n \in DOMAIN ast : ast[n].kind = "Identifier" => ctxOf'[n] = ctxOf[n]
  BY <1>1, <1>2, Opens, Types
<1> HIDE DEF ts
<1> QED BY <1>1, <1>2, <1>3, <1>4, Opens, Types, WalkKept

\* Parameters and body are children of well-formed functions.
LEMMA VisitFunctionLiteralKept == ASSUME Inv, VisitFunctionLiteral PROVE Kept
<1> DEFINE bind == IF kid(1) = NoNode THEN <<>>
                   ELSE <<modifyTask(kid(1), declKindFunction)>>
           head == <<identTypeTask(identTypeBinding), visit("resolve", kid(2)),
                     identTypeTask(identTypeRef)>>
           ts == bind \o head \o visitKids("resolve", kid(3))
                   \o <<identTypeTask(identType), popTask>>
<1>1. visiting("resolve", "FunctionLiteral") /\ pushScope /\ then(ts)
      /\ ctxOf' = [ctxOf EXCEPT ![node] = nextCtxt, ![kid(3)] = nextCtxt]
      /\ UNCHANGED <<identType, declKind, hoister>>
  BY DEF VisitFunctionLiteral
<1>2. todo # <<>> /\ Top.op \notin HoistOps /\ node \in DOMAIN ast
      /\ ast[node].kind = "FunctionLiteral"
  BY <1>1, Resolving
<1>3. /\ kid(1) # NoNode => kid(1) \in DOMAIN ast /\ ast[kid(1)].kind = "Identifier"
      /\ kid(2) \in DOMAIN ast
      /\ kid(3) \in DOMAIN ast /\ ast[kid(3)].kind = "BlockStatement"
  <2>1. /\ WellFormedNode(ast, node, Name)
        /\ \A i \in 1 .. Len(ast[node].kids) :
             ast[node].kids[i] \in DOMAIN ast \cup {NoNode}
    BY <1>2, Nodes
  <2>2. /\ Len(ast[node].kids) = 3 /\ kid(2) # NoNode
        /\ kid(3) # NoNode /\ ast[kid(3)].kind = "BlockStatement"
        /\ kid(1) # NoNode => ast[kid(1)].kind = "Identifier"
    BY <1>2, <2>1 DEF WellFormedNode, Is, kid
  <2> QED BY <2>1, <2>2 DEF kid
<1>4. bind \in Seq(WalkTask)
  BY <1>3, Restores, Entries DEF DeclKind
<1>5. head \in Seq(WalkTask)
  BY <1>3, Restores, Visits, Entries
<1>6. <<identTypeTask(identType), popTask>> \in Seq(WalkTask)
  BY Types, Restores, Entries
<1>7. visitKids("resolve", kid(3)) \in Seq(WalkTask)
  BY <1>3, KidVisits
<1>8. ts \in Seq(WalkTask)
  <2> HIDE DEF bind, head
  <2> QED BY <1>4, <1>5, <1>6, <1>7, Entries
<1>9. /\ ctxOf' \in [DOMAIN ast -> ScopeContext]
      /\ \A n \in DOMAIN ast : ast[n].kind = "Identifier" => ctxOf'[n] = ctxOf[n]
  BY <1>1, <1>2, <1>3, Opens, Types
<1> HIDE DEF ts
<1> QED BY <1>1, <1>2, <1>8, <1>9, Opens, Types, WalkKept

\* The children of the node that is visited.
LEMMA Kids ==
  ASSUME Inv, node \in DOMAIN ast
  PROVE  /\ WellFormedNode(ast, node, Name)
         /\ \A i \in 1 .. Len(ast[node].kids) : kid(i) \in DOMAIN ast \cup {NoNode}
BY Nodes DEF kid

\* The body of an arrow function may be a block, which is not visited itself.
LEMMA VisitArrowFunctionLiteralKept ==
  ASSUME Inv, VisitArrowFunctionLiteral PROVE Kept
<1> DEFINE block == Is(ast, kid(2), "BlockStatement")
           head == <<visit("resolve", kid(1)), identTypeTask(identTypeRef)>>
           body == IF block THEN visitKids("resolve", kid(2))
                            ELSE <<visit("resolve", kid(2))>>
           ts == head \o body \o <<identTypeTask(identType), popTask>>
<1>1. /\ visiting("resolve", "ArrowFunctionLiteral") /\ pushScope /\ then(ts)
      /\ ctxOf' = [m \in DOMAIN ctxOf |->
                     IF m = node \/ (block /\ m = kid(2)) THEN nextCtxt ELSE ctxOf[m]]
      /\ identType' = identTypeBinding
      /\ UNCHANGED <<declKind, hoister>>
  BY DEF VisitArrowFunctionLiteral
<1>2. todo # <<>> /\ Top.op \notin HoistOps /\ node \in DOMAIN ast
      /\ ast[node].kind = "ArrowFunctionLiteral"
  BY <1>1, Resolving
<1>3. kid(1) \in DOMAIN ast /\ kid(2) \in DOMAIN ast
  <2>1. Len(ast[node].kids) = 2 /\ kid(1) # NoNode /\ kid(2) # NoNode
    BY <1>2, Kids DEF WellFormedNode, kid
  <2> QED BY <1>2, <2>1, Kids
<1>4. head \in Seq(WalkTask) /\ body \in Seq(WalkTask)
      /\ <<identTypeTask(identType), popTask>> \in Seq(WalkTask)
  <2>1. head \in Seq(WalkTask)
    BY <1>3, Restores, Visits, Entries
  <2>2. body \in Seq(WalkTask)
    BY <1>3, KidVisits, Visits, Entries
  <2> QED BY <2>1, <2>2, Types, Restores, Entries
<1>5. ts \in Seq(WalkTask)
  <2> HIDE DEF body, head
  <2> QED BY <1>4, Entries
<1>6. block => ast[kid(2)].kind = "BlockStatement"
  BY DEF Is
<1>7. /\ ctxOf' \in [DOMAIN ast -> ScopeContext]
      /\ \A n \in DOMAIN ast : ast[n].kind = "Identifier" => ctxOf'[n] = ctxOf[n]
  <2> HIDE DEF block
  <2> QED BY <1>1, <1>2, <1>3, <1>6, Opens, Types
<1> HIDE DEF ts, block
<1> QED BY <1>1, <1>2, <1>5, <1>7, Opens, Types, WalkKept

\* A loop stamps the block it has as a body.
LEMMA VisitForInOfStatementKept == ASSUME Inv, VisitForInOfStatement PROVE Kept
<1> DEFINE ts == visitKids("resolve", node) \o <<identTypeTask(identType), popTask>>
<1>1. /\ visiting("resolve", "ForInOfStatement") /\ pushScope /\ then(ts)
      /\ ctxOf' = IF Is(ast, kid(3), "BlockStatement")
                  THEN [ctxOf EXCEPT ![kid(3)] = nextCtxt] ELSE ctxOf
      /\ identType' = identTypeRef
      /\ UNCHANGED <<declKind, hoister>>
  BY DEF VisitForInOfStatement
<1>2. todo # <<>> /\ Top.op \notin HoistOps /\ node \in DOMAIN ast
      /\ ast[node].kind = "ForInOfStatement"
  BY <1>1, Resolving
<1>3. ts \in Seq(WalkTask)
  <2>1. visitKids("resolve", node) \in Seq(WalkTask)
    BY <1>2, KidVisits
  <2>2. <<identTypeTask(identType), popTask>> \in Seq(WalkTask)
    BY Types, Restores, Entries
  <2> QED BY <2>1, <2>2, Entries
<1>4. kid(3) \in DOMAIN ast
  <2>1. Len(ast[node].kids) = 3 /\ kid(3) # NoNode
    BY <1>2, Kids DEF WellFormedNode, kid
  <2> QED BY <1>2, <2>1, Kids
<1>5. /\ ctxOf' \in [DOMAIN ast -> ScopeContext]
      /\ \A n \in DOMAIN ast : ast[n].kind = "Identifier" => ctxOf'[n] = ctxOf[n]
  BY <1>1, <1>4, Opens, Types DEF Is
<1> HIDE DEF ts
<1> QED BY <1>1, <1>2, <1>3, <1>5, Opens, Types, WalkKept

\* The optional parts of a for are visited if they are there.
LEMMA VisitForStatementKept == ASSUME Inv, VisitForStatement PROVE Kept
<1> DEFINE init == visitSome("resolve", <<kid(1)>>)
           head == visitSome("resolve", <<kid(2), kid(3)>>)
           rest == <<identTypeTask(identType), visit("resolve", kid(4)), popTask>>
           ts == init \o <<identTypeTask(identTypeRef)>> \o head \o rest
<1>1. /\ visiting("resolve", "ForStatement") /\ pushScope /\ then(ts)
      /\ identType' = identTypeBinding
      /\ UNCHANGED <<ctxOf, declKind, hoister>>
  BY DEF VisitForStatement
<1>2. todo # <<>> /\ Top.op \notin HoistOps /\ node \in DOMAIN ast
      /\ ast[node].kind = "ForStatement"
  BY <1>1, Resolving
<1>3. /\ kid(1) \in DOMAIN ast \cup {NoNode} /\ kid(2) \in DOMAIN ast \cup {NoNode}
      /\ kid(3) \in DOMAIN ast \cup {NoNode} /\ kid(4) \in DOMAIN ast
  <2>1. Len(ast[node].kids) = 4 /\ kid(4) # NoNode
    BY <1>2, Kids DEF WellFormedNode, kid
  <2> QED BY <1>2, <2>1, Kids
<1>4. init \in Seq(WalkTask) /\ head \in Seq(WalkTask)
  BY <1>3, SomeVisits, Entries
<1>5. rest \in Seq(WalkTask) /\ <<identTypeTask(identTypeRef)>> \in Seq(WalkTask)
  BY <1>3, Types, Restores, Visits, Entries
<1>6. ts \in Seq(WalkTask)
  <2> HIDE DEF init, head, rest
  <2> QED BY <1>4, <1>5, Entries
<1> HIDE DEF ts
<1> QED BY <1>1, <1>2, <1>6, Opens, Types, WalkKept

\* The parameter and the body share a scope.
LEMMA VisitCatchClauseKept == ASSUME Inv, VisitCatchClause PROVE Kept
<1> DEFINE param == IF kid(1) = NoNode THEN <<>>
                    ELSE <<identTypeTask(identTypeBinding), visit("resolve", kid(1)),
                           identTypeTask(identType)>>
           ts == param \o visitKids("resolve", kid(2)) \o <<popTask>>
<1>1. /\ visiting("resolve", "CatchClause") /\ pushScope /\ then(ts)
      /\ ctxOf' = [ctxOf EXCEPT ![kid(2)] = nextCtxt]
      /\ UNCHANGED <<identType, declKind, hoister>>
  BY DEF VisitCatchClause
<1>2. todo # <<>> /\ Top.op \notin HoistOps /\ node \in DOMAIN ast
      /\ ast[node].kind = "CatchClause"
  BY <1>1, Resolving
<1>3. /\ kid(1) \in DOMAIN ast \cup {NoNode}
      /\ kid(2) \in DOMAIN ast /\ ast[kid(2)].kind = "BlockStatement"
  <2>1. Len(ast[node].kids) = 2 /\ Is(ast, kid(2), "BlockStatement")
    BY <1>2, Kids DEF WellFormedNode, kid
  <2> QED BY <1>2, <2>1, Kids DEF Is
<1>4. param \in Seq(WalkTask)
  BY <1>3, Types, Restores, Visits, Entries
<1>5. ts \in Seq(WalkTask)
  <2>1. visitKids("resolve", kid(2)) \in Seq(WalkTask) /\ <<popTask>> \in Seq(WalkTask)
    BY <1>3, KidVisits, Restores, Entries
  <2> HIDE DEF param
  <2> QED BY <1>4, <2>1, Entries
<1>6. /\ ctxOf' \in [DOMAIN ast -> ScopeContext]
      /\ \A n \in DOMAIN ast : ast[n].kind = "Identifier" => ctxOf'[n] = ctxOf[n]
  BY <1>1, <1>3, Opens, Types
<1> HIDE DEF ts
<1> QED BY <1>1, <1>2, <1>5, <1>6, Opens, Types, WalkKept

\* The class's name is bound before the class is visited.
LEMMA VisitClassDeclarationKept == ASSUME Inv, VisitClassDeclaration PROVE Kept
<1> DEFINE name == ast[kid(1)].kids[1]
           bind == IF name = NoNode THEN <<>> ELSE <<modifyTask(name, declKindClass)>>
           ts == bind \o visitKids("resolve", node)
<1>1. /\ visiting("resolve", "ClassDeclaration") /\ then(ts)
      /\ UNCHANGED <<tableVars, ctxOf, identType, declKind, hoister>>
  BY DEF VisitClassDeclaration
<1>2. todo # <<>> /\ Top.op \notin HoistOps /\ node \in DOMAIN ast
      /\ ast[node].kind = "ClassDeclaration"
  BY <1>1, Resolving
<1>3. kid(1) \in DOMAIN ast /\ ast[kid(1)].kind = "ClassLiteral"
  <2>1. Len(ast[node].kids) = 1 /\ Is(ast, kid(1), "ClassLiteral")
    BY <1>2, Kids DEF WellFormedNode, kid
  <2> QED BY <1>2, <2>1, Kids DEF Is
<1>4. name # NoNode => name \in DOMAIN ast /\ ast[name].kind = "Identifier"
  <2>1. /\ WellFormedNode(ast, kid(1), Name)
        /\ \A i \in 1 .. Len(ast[kid(1)].kids) :
             ast[kid(1)].kids[i] \in DOMAIN ast \cup {NoNode}
    BY <1>3, Nodes
  <2>2. /\ Len(ast[kid(1)].kids) = 3
        /\ name # NoNode => Is(ast, name, "Identifier")
    BY <1>3, <2>1 DEF WellFormedNode
  <2> QED BY <2>1, <2>2 DEF Is
<1>5. bind \in Seq(WalkTask)
  <2> HIDE DEF name
  <2> QED BY <1>4, Restores, Entries DEF DeclKind
<1>6. ts \in Seq(WalkTask)
  <2>1. visitKids("resolve", node) \in Seq(WalkTask)
    BY <1>2, KidVisits
  <2> HIDE DEF bind
  <2> QED BY <1>5, <2>1, Entries
<1> HIDE DEF ts
<1> QED BY <1>1, <1>2, <1>6, Types, WalkKept

\* A class expression's name has a scope around the class.
LEMMA VisitClassLiteralKept == ASSUME Inv, VisitClassLiteral PROVE Kept
<1> DEFINE inner == kid(1) # NoNode /\ ctxOf[kid(1)] = UnresolvedContext
           bind == IF inner THEN <<modifyTask(kid(1), declKindClass)>> ELSE <<>>
           body == visitSome("resolve", <<kid(2), kid(3)>>)
           close == IF inner THEN <<popTask>> ELSE <<>>
           ts == bind \o body \o close
<1>1. /\ visiting("resolve", "ClassLiteral") /\ then(ts)
      /\ IF inner THEN pushScope ELSE UNCHANGED tableVars
      /\ UNCHANGED <<ctxOf, identType, declKind, hoister>>
  BY DEF VisitClassLiteral
<1>2. todo # <<>> /\ Top.op \notin HoistOps /\ node \in DOMAIN ast
      /\ ast[node].kind = "ClassLiteral"
  BY <1>1, Resolving
<1>3. /\ kid(1) # NoNode => kid(1) \in DOMAIN ast /\ ast[kid(1)].kind = "Identifier"
      /\ kid(2) \in DOMAIN ast \cup {NoNode} /\ kid(3) \in DOMAIN ast \cup {NoNode}
  <2>1. Len(ast[node].kids) = 3 /\ (kid(1) # NoNode => Is(ast, kid(1), "Identifier"))
    BY <1>2, Kids DEF WellFormedNode, kid
  <2> QED BY <1>2, <2>1, Kids DEF Is
<1>4. bind \in Seq(WalkTask)
  BY <1>3, Restores, Entries DEF DeclKind
<1>5. body \in Seq(WalkTask)
  BY <1>3, SomeVisits, Entries
<1>6. close \in Seq(WalkTask)
  BY Restores, Entries
<1>7. ts \in Seq(WalkTask)
  <2> HIDE DEF bind, body, close
  <2> QED BY <1>4, <1>5, <1>6, Entries
<1>8. [TableNext]_tableVars
  <2> HIDE DEF inner
  <2> QED BY <1>1, Opens
<1> HIDE DEF ts
<1> QED BY <1>1, <1>2, <1>7, <1>8, Types, WalkKept

\* Parameters are bindings, their defaults are not.
LEMMA VisitParameterListKept == ASSUME Inv, VisitParameterList PROVE Kept
<1> DEFINE ts == visitKids("declare", node) \o <<identTypeTask(identTypeRef)>>
                   \o visitKids("resolve", node) \o <<identTypeTask(identType)>>
<1>1. /\ visiting("resolve", "ParameterList") /\ then(ts)
      /\ UNCHANGED <<tableVars, ctxOf, identType, declKind, hoister>>
  BY DEF VisitParameterList
<1>2. todo # <<>> /\ Top.op \notin HoistOps /\ node \in DOMAIN ast
  BY <1>1, Resolving
<1>3. ts \in Seq(WalkTask)
  <2>1. /\ visitKids("declare", node) \in Seq(WalkTask)
        /\ visitKids("resolve", node) \in Seq(WalkTask)
    BY <1>2, KidVisits
  <2>2. /\ <<identTypeTask(identTypeRef)>> \in Seq(WalkTask)
        /\ <<identTypeTask(identType)>> \in Seq(WalkTask)
    BY Types, Restores, Entries
  <2> QED BY <2>1, <2>2, Entries
<1> HIDE DEF ts
<1> QED BY <1>1, <1>2, <1>3, Types, WalkKept

\* A round for each declarator, which well-formed declarations consist of.
LEMMA VisitVariableDeclarationKept ==
  ASSUME Inv, VisitVariableDeclaration PROVE Kept
<1> DEFINE rounds == visitAll("declarator", ast[node].kids)
           ts == rounds \o <<declKindTask(declKind)>>
           D == {n \in DOMAIN ast : ast[n].kind = "VariableDeclarator"}
<1>1. /\ visiting("resolve", "VariableDeclaration") /\ then(ts)
      /\ declKind' = declKindVar
      /\ UNCHANGED <<tableVars, ctxOf, identType, hoister>>
  BY DEF VisitVariableDeclaration
<1>2. todo # <<>> /\ Top.op \notin HoistOps /\ node \in DOMAIN ast
      /\ ast[node].kind = "VariableDeclaration"
  BY <1>1, Resolving
<1>3. ast[node].kids \in Seq(D)
  <2> DEFINE list == ast[node].kids
  <2>1. /\ list \in Seq(DOMAIN ast \cup {NoNode}) /\ Len(list) \in Nat
        /\ DOMAIN list = 1 .. Len(list)
        /\ \A i \in 1 .. Len(list) : list[i] \in DOMAIN ast \cup {NoNode}
        /\ WellFormedNode(ast, node, Name)
    BY <1>2, Nodes
  <2>2. \A i \in 1 .. Len(list) : Is(ast, list[i], "VariableDeclarator")
    BY <1>2, <2>1 DEF WellFormedNode
  <2> HIDE DEF list
  <2>3. \A i \in 1 .. Len(list) : list[i] \in D
    BY <2>1, <2>2 DEF Is
  <2>4. list \in [1 .. Len(list) -> D]
    BY <2>1, <2>3, SeqDef
  <2> QED BY <2>1, <2>4, FunctionIsSeq DEF list
<1>4. \A n \in D : visit("declarator", n) \in WalkTask
  BY DEF visit, WalkTask
<1>5. rounds \in Seq(WalkTask)
  <2> HIDE DEF D
  <2> QED BY <1>3, <1>4, VisitAllIn
<1>6. ts \in Seq(WalkTask)
  <2>1. <<declKindTask(declKind)>> \in Seq(WalkTask)
    BY Types, Restores, Entries
  <2> HIDE DEF rounds
  <2> QED BY <1>5, <2>1, Entries
<1>7. declKind' \in DeclKind
  BY <1>1 DEF DeclKind
<1> HIDE DEF ts
<1> QED BY <1>1, <1>2, <1>6, <1>7, Types, WalkKept

\* A round of that loop.
LEMMA DeclaratorKept == ASSUME Inv, Declarator PROVE Kept
<1> DEFINE target == <<visit("resolve", kid(1)), identTypeTask(identType)>>
           init == visitSome("resolve", <<kid(2)>>)
           ts == target \o init
<1>1. /\ todo # <<>> /\ Top.op = "declarator" /\ then(ts)
      /\ identType' = identTypeBinding
      /\ UNCHANGED <<tableVars, ctxOf, declKind, hoister>>
  BY DEF Declarator
<1>2. Top.op \notin HoistOps
  BY <1>1 DEF HoistOps, HoisterOps, SaveOps
<1>3. Top \in WalkTask
  BY <1>1, <1>2, Walking
<1>4. node \in DOMAIN ast /\ ast[node].kind = "VariableDeclarator"
  BY <1>1, <1>3 DEF WalkTask, node
<1>5. kid(1) \in DOMAIN ast /\ kid(2) \in DOMAIN ast \cup {NoNode}
  <2>1. Len(ast[node].kids) = 2 /\ kid(1) # NoNode
    BY <1>4, Kids DEF WellFormedNode, kid
  <2> QED BY <1>4, <2>1, Kids
<1>6. target \in Seq(WalkTask) /\ init \in Seq(WalkTask)
  <2>1. target \in Seq(WalkTask)
    BY <1>5, Types, Restores, Visits, Entries
  <2>2. init \in Seq(WalkTask)
    BY <1>5, SomeVisits, Entries
  <2> QED BY <2>1, <2>2
<1>7. ts \in Seq(WalkTask)
  <2> HIDE DEF target, init
  <2> QED BY <1>6, Entries
<1> HIDE DEF ts
<1> QED BY <1>1, <1>2, <1>7, Types, WalkKept

\* Identifiers in an expression are references.
LEMMA VisitExpressionKept == ASSUME Inv, VisitExpression PROVE Kept
<1> DEFINE ts == visitKids("resolve", node) \o <<identTypeTask(identType)>>
<1>1. /\ visiting("resolve", "Expression") /\ then(ts)
      /\ identType' = identTypeRef
      /\ UNCHANGED <<tableVars, ctxOf, declKind, hoister>>
  BY DEF VisitExpression
<1>2. todo # <<>> /\ Top.op \notin HoistOps /\ node \in DOMAIN ast
  BY <1>1, Resolving
<1>3. ts \in Seq(WalkTask)
  <2>1. visitKids("resolve", node) \in Seq(WalkTask)
    BY <1>2, KidVisits
  <2>2. <<identTypeTask(identType)>> \in Seq(WalkTask)
    BY Types, Restores, Entries
  <2> QED BY <2>1, <2>2, Entries
<1> HIDE DEF ts
<1> QED BY <1>1, <1>2, <1>3, Types, WalkKept

\* A reference takes a context that is visible, or declares its name.
LEMMA VisitIdentifierKept == ASSUME Inv, VisitIdentifier PROVE Kept
<1> DEFINE seen == lookup(ast[node].attr).ctx
           found == /\ ctxOf[node] = UnresolvedContext
                    /\ identType = identTypeRef
                    /\ seen # UnresolvedContext
<1>1. /\ visiting("resolve", "Identifier") /\ then(<<>>)
      /\ IF found THEN ctxOf' = [ctxOf EXCEPT ![node] = seen] /\ UNCHANGED tableVars
                  ELSE modify(node, declKind)
      /\ UNCHANGED <<identType, declKind, hoister>>
  BY DEF VisitIdentifier
<1>2. todo # <<>> /\ Top.op \notin HoistOps /\ node \in DOMAIN ast
      /\ ast[node].kind = "Identifier"
  BY <1>1, Resolving
<1>3. ast[node].attr \in Name
  BY <1>2, Kids DEF WellFormedNode
<1>4. seen \in ScopeContext
  BY <1>3, SeenContext
<1> HIDE DEF seen
<1>5. /\ [TableNext]_tableVars
      /\ ctxOf' \in [DOMAIN ast -> ScopeContext]
      /\ \A m \in DOMAIN ast :
           ctxOf[m] # UnresolvedContext => ctxOf'[m] = ctxOf[m]
  <2>1. CASE found
    BY <1>1, <1>2, <1>4, <2>1, Types
  <2>2. CASE ~ found
    <3>1. modify(node, declKind)
      BY <1>1, <2>2
    <3> QED BY <1>2, <3>1, Types, Modified
  <2> QED BY <2>1, <2>2
<1> QED BY <1>1, <1>2, <1>5, Types, Entries, WalkKept

\* A computed property is visited, a name is not.
LEMMA VisitMemberPropertyKept == ASSUME Inv, VisitMemberProperty PROVE Kept
<1> DEFINE ts == IF ast[node].attr = "computed" THEN visitKids("resolve", node)
                                                ELSE <<>>
<1>1. /\ visiting("resolve", "MemberProperty") /\ then(ts)
      /\ UNCHANGED <<tableVars, ctxOf, identType, declKind, hoister>>
  BY DEF VisitMemberProperty
<1>2. todo # <<>> /\ Top.op \notin HoistOps /\ node \in DOMAIN ast
  BY <1>1, Resolving
<1>3. ts \in Seq(WalkTask)
  BY <1>2, KidVisits, Entries
<1> HIDE DEF ts
<1> QED BY <1>1, <1>2, <1>3, Types, WalkKept

\* All other nodes hand on to their children.
LEMMA VisitChildrenKept == ASSUME Inv, VisitChildren PROVE Kept
<1> DEFINE ts == visitKids("resolve", node)
<1>1. PICK k \in resolverDefault : visiting("resolve", k)
  BY DEF VisitChildren
<1>2. then(ts) /\ UNCHANGED <<tableVars, ctxOf, identType, declKind, hoister>>
  BY DEF VisitChildren
<1>3. todo # <<>> /\ Top.op \notin HoistOps /\ node \in DOMAIN ast
  BY <1>1, Resolving
<1>4. ts \in Seq(WalkTask)
  BY <1>3, KidVisits
<1> HIDE DEF ts
<1> QED BY <1>2, <1>3, <1>4, Types, WalkKept

\* The binder stamps identifiers and passes over expressions.
LEMMA BinderVisitKept == ASSUME Inv, BinderVisit PROVE Kept
<1>1. /\ todo # <<>> /\ Top.op = "declare"
      /\ \/ /\ ast[node].kind = "Identifier"
            /\ modify(node, declKind) /\ then(<<>>)
         \/ then(<<>>) /\ UNCHANGED <<tableVars, ctxOf>>
         \/ then(visitKids("declare", node)) /\ UNCHANGED <<tableVars, ctxOf>>
      /\ UNCHANGED <<identType, declKind, hoister>>
  BY DEF BinderVisit
<1>2. Top.op \notin HoistOps
  BY <1>1 DEF HoistOps, HoisterOps, SaveOps
<1>3. Top \in WalkTask
  BY <1>1, <1>2, Walking
<1>4. node \in DOMAIN ast
  BY <1>1, <1>3 DEF WalkTask, node
<1>5. CASE ast[node].kind = "Identifier" /\ modify(node, declKind) /\ then(<<>>)
  <2>1. /\ [TableNext]_tableVars
        /\ ctxOf' \in [DOMAIN ast -> ScopeContext]
        /\ \A m \in DOMAIN ast :
             ctxOf[m] # UnresolvedContext => ctxOf'[m] = ctxOf[m]
    BY <1>4, <1>5, Types, Modified
  <2> QED BY <1>1, <1>2, <1>5, <2>1, Types, Entries, WalkKept
<1>6. CASE then(<<>>) /\ UNCHANGED <<tableVars, ctxOf>>
  BY <1>1, <1>2, <1>6, Types, Entries, WalkKept
<1>7. CASE then(visitKids("declare", node)) /\ UNCHANGED <<tableVars, ctxOf>>
  <2>1. visitKids("declare", node) \in Seq(WalkTask)
    BY <1>4, KidVisits
  <2> QED BY <1>1, <1>2, <1>7, <2>1, Types, WalkKept
<1> QED BY <1>1, <1>5, <1>6, <1>7

-----------------------------------------------------------------------------
\* The steps of the hoister.

\* Visits of the hoister may be put in front.
LEMMA QueueHoist ==
  ASSUME NEW s, NEW h, QueueOK(s, h), NEW ts \in Seq(HoistVisit)
  PROVE  QueueOK(ts \o s, h)
<1>1. \A t \in HoistVisit : t \in HoistTask /\ t.op \notin SaveOps
  BY DEF HoistVisit, HoistTask, HoisterOps, SaveOps
<1>2. ts \in Seq(HoistTask) /\ \A i \in 1 .. Len(ts) : ts[i].op \notin SaveOps
  <2>1. \A i \in 1 .. Len(ts) : ts[i] \in HoistVisit
    BY ElementOfSeq
  <2> QED BY <1>1, <2>1, SeqMonotonic
<1> QED BY <1>2, QueueVisits

\* Every statement list starts a hoister run, and none is under way then.
LEMMA VisitStatementsKept == ASSUME Inv, VisitStatements PROVE Kept
<1> DEFINE kids == visitKids("resolve", node)
           run == <<visit("hoist", node)>>
           rest == Tail(todo)
<1>1. /\ visiting("resolve", "Statements") /\ then(run \o kids)
      /\ hoister' = freshHoister
      /\ UNCHANGED <<tableVars, ctxOf, identType, declKind>>
  BY DEF VisitStatements
<1>2. todo # <<>> /\ Top.op \notin HoistOps /\ node \in DOMAIN ast
  BY <1>1, Resolving
<1>3. rest \in Seq(WalkTask)
  BY <1>2, Walking
<1>4. kids \in Seq(WalkTask) /\ run \in Seq(HoistVisit)
  BY <1>2, KidVisits, Visits, Entries DEF HoisterOps
<1>5. todo' = (run \o kids) \o rest
  BY <1>1 DEF then
<1> HIDE DEF kids, run, rest
<1>6. kids \o rest \in Seq(WalkTask)
  BY <1>3, <1>4, Entries
<1>7. QueueOK(kids \o rest, freshHoister)
  BY <1>6, QueueOfWalk
<1>8. QueueOK(run \o (kids \o rest), freshHoister)
  BY <1>4, <1>7, QueueHoist
<1>9. (run \o kids) \o rest = run \o (kids \o rest)
  <2>1. \A a \in Seq(HoistVisit), b, c \in Seq(WalkTask) :
           (a \o b) \o c = a \o (b \o c)
    OBVIOUS
  <2> QED BY <1>3, <1>4, <2>1
<1>10. QueueOK(todo', hoister')
  BY <1>1, <1>5, <1>8, <1>9
<1> QED BY <1>1, <1>10, Types, FreshFields DEF Kept

\* The next entry is a visit of the hoister's.
LEMMA Hoisting ==
  ASSUME Inv, todo # <<>>, Top.op \in HoisterOps
  PROVE  /\ node \in DOMAIN ast
         /\ QueueOK(Tail(todo), hoister)
         /\ Tail(todo) \in Seq(WalkTask \cup HoistTask)
<1>1. QueueOK(todo, hoister)
  BY DEF Inv
<1>2. Top \in WalkTask \cup HoistTask
  <2>1. todo \in Seq(WalkTask \cup HoistTask)
    BY <1>1 DEF QueueOK
  <2> QED BY <2>1, Split DEF Top
<1>3. Top.op \notin SaveOps /\ Top.op \in HoistOps
  BY DEF HoisterOps, SaveOps, HoistOps
<1>4. Top \in HoistTask
  BY <1>2, <1>3, TaskOps
<1>5. node \in DOMAIN ast
  BY <1>4 DEF HoistTask, HoisterOps, node
<1>6. QueueOK(Tail(todo), hoister)
  BY <1>1, <1>3, QueueTail DEF Top
<1> QED BY <1>5, <1>6 DEF QueueOK

\* The next entry is the hoister's visit of a node of kind k.
LEMMA HoistVisiting ==
  ASSUME Inv, NEW k, visiting("hoist", k)
  PROVE  /\ todo # <<>> /\ Top.op \in HoisterOps
         /\ node \in DOMAIN ast /\ ast[node].kind = k
<1>1. todo # <<>> /\ Top.op = "hoist" /\ ast[node].kind = k
  BY DEF visiting
<1>2. Top.op \in HoisterOps
  BY <1>1 DEF HoisterOps
<1> QED BY <1>1, <1>2, Hoisting

\* A step of the hoister that binds nothing.
LEMMA HoistKept ==
  ASSUME Inv, hoister' \in fields, QueueOK(todo', hoister'),
         UNCHANGED <<tableVars, ctxOf, identType, declKind>>
  PROVE  Kept
BY Types DEF Kept

\* Such a step that pushes visits only, and leaves the fields alone.
LEMMA HoistVisitsKept ==
  ASSUME Inv, todo # <<>>, Top.op \in HoisterOps,
         NEW ts \in Seq(HoistVisit), then(ts),
         UNCHANGED <<tableVars, ctxOf, identType, declKind, hoister>>
  PROVE  Kept
<1>1. QueueOK(Tail(todo), hoister)
  BY Hoisting
<1>2. QueueOK(ts \o Tail(todo), hoister)
  BY <1>1, QueueHoist
<1>3. QueueOK(todo', hoister') /\ hoister' \in fields
  BY <1>2, Types DEF then
<1> QED BY <1>3, HoistKept

\* A list in front of a list in front of a list.
LEMMA Regroup ==
  ASSUME NEW T, NEW a \in Seq(T), NEW b \in Seq(T), NEW c \in Seq(T)
  PROVE  (a \o b) \o c = a \o (b \o c)
OBVIOUS

\* Visits, then a restore that leads back to the fields as they are.
LEMMA VisitsThenRestore ==
  ASSUME Inv, todo # <<>>, Top.op \in HoisterOps, hoister' \in fields,
         NEW ts \in Seq(HoistVisit), NEW t \in HoistTask, t.op \in SaveOps,
         then(ts \o <<t>>), restored(hoister', t) = hoister,
         t.op = "catchDone" => t.drop \subseteq hoister'.catchParamDecls
  PROVE  QueueOK(todo', hoister')
<1> DEFINE T == WalkTask \cup HoistTask
           rest == Tail(todo)
           save == <<t>>
           g == hoister'
<1>1. QueueOK(rest, hoister) /\ rest \in Seq(T)
  BY Hoisting
<1>2. ts \in Seq(T) /\ save \in Seq(T)
  <2>1. HoistVisit \subseteq T /\ t \in T
    BY DEF HoistVisit, HoistTask
  <2> HIDE DEF T
  <2> QED BY <2>1, SeqMonotonic, Entries
<1> HIDE DEF T, rest, g
<1>3. QueueOK(save \o rest, g)
  <2>1. g \in fields /\ restored(g, t) = hoister
        /\ (t.op = "catchDone" => t.drop \subseteq g.catchParamDecls)
    BY DEF g
  <2> QED BY <1>1, <2>1, QueueSave
<1> HIDE DEF save
<1>4. QueueOK(ts \o (save \o rest), g)
  BY <1>3, QueueHoist
<1>5. (ts \o save) \o rest = ts \o (save \o rest)
  BY <1>1, <1>2, Regroup
<1>6. todo' = (ts \o save) \o rest
  BY DEF then, save, rest
<1>7. QueueOK(todo', g)
  BY <1>4, <1>5, <1>6
<1> QED BY <1>7 DEF g

\* The steps of the hoister: functions first, then the others.
LEMMA HoistStatementsKept == ASSUME Inv, HoistStatements PROVE Kept
<1> DEFINE list == ast[node].kids
           first == {m \in DOMAIN ast :
                       ast[m].kind \in {"VariableDeclaration", "FunctionDeclaration"}}
           order == Sublist(list, first) \o Sublist(list, DOMAIN ast \ first)
           ts == visitAll("hoist", order)
<1>1. /\ visiting("hoist", "Statements") /\ then(ts)
      /\ UNCHANGED <<tableVars, ctxOf, identType, declKind, hoister>>
  BY DEF HoistStatements
<1>2. todo # <<>> /\ Top.op \in HoisterOps /\ node \in DOMAIN ast
  BY <1>1, HoistVisiting
<1>3. order \in Seq(DOMAIN ast)
  <2>1. list \in Seq(DOMAIN ast \cup {NoNode})
    BY <1>2, Nodes
  <2> HIDE DEF list, first
  <2>2. /\ Sublist(list, first) \in Seq((DOMAIN ast \cup {NoNode}) \cap first)
        /\ Sublist(list, DOMAIN ast \ first)
             \in Seq((DOMAIN ast \cup {NoNode}) \cap (DOMAIN ast \ first))
    BY <2>1, SublistIn
  <2>3. first \subseteq DOMAIN ast
    BY DEF first
  <2>4. /\ (DOMAIN ast \cup {NoNode}) \cap first \subseteq DOMAIN ast
        /\ (DOMAIN ast \cup {NoNode}) \cap (DOMAIN ast \ first) \subseteq DOMAIN ast
    BY <2>3
  <2>5. /\ Sublist(list, first) \in Seq(DOMAIN ast)
        /\ Sublist(list, DOMAIN ast \ first) \in Seq(DOMAIN ast)
    BY <2>2, <2>4, SeqMonotonic
  <2> QED BY <2>5, Entries
<1> HIDE DEF order
<1>4. ts \in Seq(HoistVisit)
  <2>1. \A n \in DOMAIN ast : visit("hoist", n) \in HoistVisit
    BY Visits DEF HoisterOps
  <2> QED BY <1>3, <2>1, VisitAllIn
<1> HIDE DEF ts
<1> QED BY <1>1, <1>2, <1>4, HoistVisitsKept

\* A block saves inBlock around its children.
LEMMA HoistBlockStatementKept == ASSUME Inv, HoistBlockStatement PROVE Kept
<1> DEFINE ts == visitKids("hoist", node)
           t == inBlockTask(hoister.inBlock)
<1>1. /\ visiting("hoist", "BlockStatement") /\ then(ts \o <<t>>)
      /\ hoister' = [hoister EXCEPT !.inBlock = TRUE]
      /\ UNCHANGED <<tableVars, ctxOf, identType, declKind>>
  BY DEF HoistBlockStatement
<1>2. todo # <<>> /\ Top.op \in HoisterOps /\ node \in DOMAIN ast
  BY <1>1, HoistVisiting
<1>3. ts \in Seq(HoistVisit)
  BY <1>2, KidVisits
<1>4. hoister' \in fields
  BY <1>1, Types DEF fields
<1>5. /\ t \in HoistTask /\ t.op \in SaveOps /\ t.op # "catchDone"
      /\ restored(hoister', t) = hoister
  <2>1. t.op = "inBlock" /\ t.val = hoister.inBlock
    BY DEF inBlockTask
  <2>2. hoister \in fields /\ t \in HoistTask
    BY Types DEF fields, inBlockTask, HoistTask
  <2>3. restored(hoister', t) = [hoister' EXCEPT !.inBlock = hoister.inBlock]
    BY <2>1 DEF restored
  <2>4. [hoister' EXCEPT !.inBlock = hoister.inBlock] = hoister
    BY <1>1, <2>2 DEF fields
  <2> QED BY <2>1, <2>2, <2>3, <2>4 DEF SaveOps
<1> HIDE DEF ts, t
<1>6. QueueOK(todo', hoister')
  BY <1>1, <1>2, <1>3, <1>4, <1>5, VisitsThenRestore
<1> QED BY <1>1, <1>4, <1>6, HoistKept

\* A var, or a declaration outside of blocks, is hoisted.
LEMMA HoistVariableDeclarationKept ==
  ASSUME Inv, HoistVariableDeclaration PROVE Kept
<1> DEFINE ts == visitKids("hoist", node)
           t == kindTask(hoister.kind)
<1>1. /\ visiting("hoist", "VariableDeclaration")
      /\ \/ then(<<>>) /\ UNCHANGED hoister
         \/ /\ then(ts \o <<t>>)
            /\ hoister' = [hoister EXCEPT !.kind = declKindVar]
      /\ UNCHANGED <<tableVars, ctxOf, identType, declKind>>
  BY DEF HoistVariableDeclaration
<1>2. todo # <<>> /\ Top.op \in HoisterOps /\ node \in DOMAIN ast
  BY <1>1, HoistVisiting
<1>3. CASE then(<<>>) /\ UNCHANGED hoister
  BY <1>1, <1>2, <1>3, Entries, HoistVisitsKept
<1>4. CASE /\ then(ts \o <<t>>)
           /\ hoister' = [hoister EXCEPT !.kind = declKindVar]
  <2>1. ts \in Seq(HoistVisit)
    BY <1>2, KidVisits
  <2>2. hoister' \in fields
    BY <1>4, Types DEF fields, DeclKind
  <2>3. /\ t \in HoistTask /\ t.op \in SaveOps /\ t.op # "catchDone"
        /\ restored(hoister', t) = hoister
    <3>1. t.op = "kind" /\ t.val = hoister.kind
      BY DEF kindTask
    <3>2. hoister \in fields /\ t \in HoistTask
      BY Types DEF fields, kindTask, HoistTask
    <3>3. restored(hoister', t) = [hoister' EXCEPT !.kind = hoister.kind]
      BY <3>1 DEF restored
    <3>4. [hoister' EXCEPT !.kind = hoister.kind] = hoister
      BY <1>4, <3>2 DEF fields
    <3> QED BY <3>1, <3>2, <3>3, <3>4 DEF SaveOps
  <2>4. QueueOK(todo', hoister')
    <3> HIDE DEF ts, t
    <3> QED BY <1>2, <1>4, <2>1, <2>2, <2>3, VisitsThenRestore
  <2> QED BY <1>1, <2>2, <2>4, HoistKept
<1> QED BY <1>1, <1>3, <1>4

\* A pattern is left to the binder.
LEMMA HoistPatternKept == ASSUME Inv, HoistPattern PROVE Kept
<1> DEFINE ts == <<visit("hoistPattern", node)>>
<1>1. /\ visiting("hoist", "Pattern") /\ then(ts)
      /\ UNCHANGED <<tableVars, ctxOf, identType, declKind, hoister>>
  BY DEF HoistPattern
<1>2. todo # <<>> /\ Top.op \in HoisterOps /\ node \in DOMAIN ast
  BY <1>1, HoistVisiting
<1>3. ts \in Seq(HoistVisit)
  BY <1>2, Visits, Entries DEF HoisterOps
<1> HIDE DEF ts
<1> QED BY <1>1, <1>2, <1>3, HoistVisitsKept

\* Functions and expressions are passed over, the rest hands on.
LEMMA HoistChildrenKept == ASSUME Inv, HoistChildren PROVE Kept
<1> DEFINE ts == IF ast[node].kind \in hoisterSkips THEN <<>>
                                                    ELSE visitKids("hoist", node)
<1>1. PICK k \in hoisterSkips \cup hoisterDefault : visiting("hoist", k)
  BY DEF HoistChildren
<1>2. then(ts) /\ UNCHANGED <<tableVars, ctxOf, identType, declKind, hoister>>
  BY DEF HoistChildren
<1>3. todo # <<>> /\ Top.op \in HoisterOps /\ node \in DOMAIN ast
  BY <1>1, HoistVisiting
<1>4. ts \in Seq(HoistVisit)
  BY <1>3, KidVisits, Entries
<1> HIDE DEF ts
<1> QED BY <1>2, <1>3, <1>4, HoistVisitsKept

\* A function is hoisted as a function, and kind put back.
LEMMA HoistFunctionDeclarationKept ==
  ASSUME Inv, HoistFunctionDeclaration PROVE Kept
<1> DEFINE name == ast[kid(1)].kids[1]
<1>1. /\ visiting("hoist", "FunctionDeclaration") /\ then(<<>>)
      /\ UNCHANGED <<tableVars, ctxOf>> \/ modify(name, declKindFunction)
      /\ UNCHANGED <<identType, declKind, hoister>>
  BY DEF HoistFunctionDeclaration
<1>2. todo # <<>> /\ Top.op \in HoisterOps /\ node \in DOMAIN ast
      /\ ast[node].kind = "FunctionDeclaration"
  BY <1>1, HoistVisiting
<1>3. name \in DOMAIN ast /\ ast[name].kind = "Identifier"
  <2>1. /\ Len(ast[node].kids) = 1 /\ Is(ast, kid(1), "FunctionLiteral")
        /\ Is(ast, name, "Identifier")
    BY <1>2, Kids DEF WellFormedNode, kid
  <2>2. kid(1) \in DOMAIN ast /\ ast[kid(1)].kind = "FunctionLiteral"
    BY <1>2, <2>1, Kids DEF Is
  <2>3. /\ WellFormedNode(ast, kid(1), Name)
        /\ \A i \in 1 .. Len(ast[kid(1)].kids) :
             ast[kid(1)].kids[i] \in DOMAIN ast \cup {NoNode}
    BY <2>2, Nodes
  <2>4. Len(ast[kid(1)].kids) = 3
    BY <2>2, <2>3 DEF WellFormedNode
  <2> QED BY <2>1, <2>3, <2>4 DEF Is
<1>4. CASE UNCHANGED <<tableVars, ctxOf>>
  BY <1>1, <1>2, <1>4, Entries, HoistVisitsKept
<1>5. CASE modify(name, declKindFunction)
  <2> HIDE DEF name
  <2>1. /\ [TableNext]_tableVars
        /\ ctxOf' \in [DOMAIN ast -> ScopeContext]
        /\ \A m \in DOMAIN ast :
             ctxOf[m] # UnresolvedContext => ctxOf'[m] = ctxOf[m]
    BY <1>3, <1>5, Modified DEF DeclKind
  <2>2. QueueOK(Tail(todo), hoister) /\ Tail(todo) \in Seq(WalkTask \cup HoistTask)
    BY <1>2, Hoisting
  <2>3. todo' = Tail(todo)
    <3>1. \A q \in Seq(WalkTask \cup HoistTask) : <<>> \o q = q
      OBVIOUS
    <3> QED BY <1>1, <2>2, <3>1 DEF then
  <2> QED BY <1>1, <2>1, <2>2, <2>3, Types DEF Kept
<1> QED BY <1>1, <1>4, <1>5

\* Two entries are one in front of the other.
LEMMA Pair ==
  ASSUME NEW T, NEW a \in T, NEW b \in T
  PROVE  <<a>> \o <<b>> = <<a, b>>
<1> DEFINE u == <<a>>
           v == <<b>>
           w == <<a, b>>
<1>1. /\ u \in Seq(T) /\ v \in Seq(T) /\ w \in Seq(T)
      /\ Len(u) = 1 /\ Len(v) = 1 /\ Len(w) = 2
      /\ u[1] = a /\ w[1] = a /\ v[1] = b /\ w[2] = b
  OBVIOUS
<1> HIDE DEF u, v, w
<1>2. /\ u \o v \in Seq(T) /\ Len(u \o v) = 2
      /\ \A i \in 1 .. 2 : (u \o v)[i] = IF i <= 1 THEN u[i] ELSE v[i - 1]
  BY <1>1, ConcatProperties
<1>3. (u \o v)[1] = u[1] /\ (u \o v)[2] = v[1]
  <2>1. 1 \in 1 .. 2 /\ 2 \in 1 .. 2 /\ 1 <= 1 /\ ~ (2 <= 1) /\ 2 - 1 = 1
    OBVIOUS
  <2> QED BY <2>1, <1>2
<1>4. \A i \in 1 .. 2 : i = 1 \/ i = 2
  OBVIOUS
<1>5. \A i \in 1 .. 2 : (u \o v)[i] = w[i]
  BY <1>1, <1>3, <1>4
<1>6. u \o v = w
  BY <1>1, <1>2, <1>5, SeqEqual
<1> QED BY <1>6 DEF u, v, w

\* What a catch clause adds to catchParamDecls is taken out again at its end.
LEMMA HoistCatchClauseKept == ASSUME Inv, HoistCatchClause PROVE Kept
<1> DEFINE id == ast[kid(1)].kids[1]
           plain == kid(1) # NoNode /\ Is(ast, id, "Identifier")
           param == IF plain THEN {ast[id].attr} ELSE {}
           t == catchTask(catchFields(hoister), param \ hoister.catchParamDecls)
           body == <<visit("hoist", kid(2))>>
           g == hoister'
<1>1. /\ visiting("hoist", "CatchClause")
      /\ hoister' = [hoister EXCEPT !.excludedFromCatch = {},
                                    !.inCatchBody = TRUE,
                                    !.catchParamDecls = @ \cup param]
      /\ then(<<visit("hoist", kid(2)), t>>)
      /\ UNCHANGED <<tableVars, ctxOf, identType, declKind>>
  BY DEF HoistCatchClause
<1>2. todo # <<>> /\ Top.op \in HoisterOps /\ node \in DOMAIN ast
      /\ ast[node].kind = "CatchClause"
  BY <1>1, HoistVisiting
<1>3. /\ kid(1) # NoNode => kid(1) \in DOMAIN ast /\ ast[kid(1)].kind = "Pattern"
      /\ kid(2) \in DOMAIN ast
  <2>1. /\ Len(ast[node].kids) = 2 /\ Is(ast, kid(2), "BlockStatement")
        /\ kid(1) # NoNode => Is(ast, kid(1), "Pattern")
    BY <1>2, Kids DEF WellFormedNode, kid
  <2> QED BY <1>2, <2>1, Kids DEF Is
<1>4. param \subseteq Name
  <2> SUFFICES ASSUME plain PROVE ast[id].attr \in Name
    OBVIOUS
  <2>1. kid(1) \in DOMAIN ast /\ ast[kid(1)].kind = "Pattern"
    BY <1>3
  <2>2. /\ WellFormedNode(ast, kid(1), Name)
        /\ \A i \in 1 .. Len(ast[kid(1)].kids) :
             ast[kid(1)].kids[i] \in DOMAIN ast \cup {NoNode}
    BY <2>1, Nodes
  <2>3. Len(ast[kid(1)].kids) = 1
    BY <2>1, <2>2 DEF WellFormedNode
  <2>4. id \in DOMAIN ast /\ ast[id].kind = "Identifier"
    BY <2>2, <2>3 DEF Is
  <2> HIDE DEF id
  <2> QED BY <2>4, Nodes DEF WellFormedNode
<1> HIDE DEF param, plain, id
<1>5. hoister \in fields /\ hoister.catchParamDecls \subseteq Name
  BY Types DEF fields
<1>6. g \in fields /\ g.catchParamDecls = hoister.catchParamDecls \cup param
      /\ g.inBlock = hoister.inBlock /\ g.kind = hoister.kind
  BY <1>1, <1>4, <1>5 DEF fields
<1>7. /\ t \in HoistTask /\ t.op = "catchDone" /\ t.val = catchFields(hoister)
      /\ t.drop = param \ hoister.catchParamDecls
  BY <1>4, <1>5 DEF catchTask, catchFields, HoistTask, fields
<1>8. restored(g, t) = hoister
  <2> HIDE DEF g, t
  <2>1. restored(g, t) = [g EXCEPT !.inCatchBody = hoister.inCatchBody,
                                   !.excludedFromCatch = hoister.excludedFromCatch,
                                   !.catchParamDecls = @ \ t.drop]
    BY <1>7 DEF restored, catchFields
  <2>2. g.catchParamDecls \ t.drop = hoister.catchParamDecls
    BY <1>6, <1>7
  <2> QED BY <1>5, <1>6, <2>1, <2>2 DEF fields
<1>9. body \in Seq(HoistVisit)
  BY <1>3, Visits, Entries DEF HoisterOps
<1>10. <<visit("hoist", kid(2)), t>> = body \o <<t>>
  <2> DEFINE v == visit("hoist", kid(2))
             T == HoistVisit \cup HoistTask
  <2>1. v \in T /\ t \in T
    BY <1>3, <1>7, Visits DEF HoisterOps
  <2> HIDE DEF v, t, T
  <2>2. <<v>> \o <<t>> = <<v, t>>
    BY <2>1, Pair
  <2> QED BY <2>2 DEF v
<1> HIDE DEF body, t
<1>11. QueueOK(todo', hoister')
  <2>1. t.drop \subseteq hoister'.catchParamDecls /\ t.op \in SaveOps
    BY <1>6, <1>7 DEF SaveOps
  <2>2. then(body \o <<t>>)
    BY <1>1, <1>10
  <2>3. hoister' \in fields /\ restored(hoister', t) = hoister
    BY <1>6, <1>8
  <2> QED BY <1>2, <1>7, <1>9, <2>1, <2>2, <2>3, VisitsThenRestore
<1> QED BY <1>1, <1>6, <1>11, HoistKept

\* Three entries.
LEMMA Triple ==
  ASSUME NEW T, NEW a \in T, NEW b \in T, NEW c \in T
  PROVE  <<a>> \o (<<b>> \o <<c>>) = <<a, b, c>>
<1> DEFINE u == <<a>>
           v == <<b, c>>
           w == <<a, b, c>>
<1>1. /\ u \in Seq(T) /\ v \in Seq(T) /\ w \in Seq(T)
      /\ Len(u) = 1 /\ Len(v) = 2 /\ Len(w) = 3
      /\ u[1] = a /\ w[1] = a /\ v[1] = b /\ w[2] = b /\ v[2] = c /\ w[3] = c
  OBVIOUS
<1>0. <<b>> \o <<c>> = v
  BY Pair
<1> HIDE DEF u, v, w
<1>2. /\ u \o v \in Seq(T) /\ Len(u \o v) = 3
      /\ \A i \in 1 .. 3 : (u \o v)[i] = IF i <= 1 THEN u[i] ELSE v[i - 1]
  <2>1. \A r, q \in Seq(T) :
           /\ r \o q \in Seq(T) /\ Len(r \o q) = Len(r) + Len(q)
           /\ \A i \in 1 .. Len(r) + Len(q) :
                (r \o q)[i] = IF i <= Len(r) THEN r[i] ELSE q[i - Len(r)]
    BY ConcatProperties
  <2>2. 1 + 2 = 3
    OBVIOUS
  <2>3. u \in Seq(T) /\ v \in Seq(T) /\ Len(u) = 1 /\ Len(v) = 2
    BY <1>1
  <2>4. u \o v \in Seq(T) /\ Len(u \o v) = Len(u) + Len(v)
    BY <2>1, <2>3
  <2>5. \A i \in 1 .. Len(u) + Len(v) :
           (u \o v)[i] = IF i <= Len(u) THEN u[i] ELSE v[i - Len(u)]
    BY <2>1, <2>3
  <2>6. Len(u) + Len(v) = 3
    BY <2>2, <2>3
  <2> QED BY <2>3, <2>4, <2>5, <2>6
<1>3. (u \o v)[1] = u[1] /\ (u \o v)[2] = v[1] /\ (u \o v)[3] = v[2]
  <2>1. /\ 1 \in 1 .. 3 /\ 2 \in 1 .. 3 /\ 3 \in 1 .. 3
        /\ 1 <= 1 /\ ~ (2 <= 1) /\ 2 - 1 = 1 /\ ~ (3 <= 1) /\ 3 - 1 = 2
    OBVIOUS
  <2> QED BY <2>1, <1>2
<1>4. \A i \in 1 .. 3 : i = 1 \/ i = 2 \/ i = 3
  OBVIOUS
<1>5. \A i \in 1 .. 3 : (u \o v)[i] = w[i]
  BY <1>1, <1>3, <1>4
<1>6. u \o v = w
  BY <1>1, <1>2, <1>5, SeqEqual
<1> QED BY <1>0, <1>6 DEF u, w

\* Visiting a body with inBlock set leaves the fields as they were.
LEMMA BlockBody ==
  ASSUME Inv, NEW s, QueueOK(s, hoister), NEW n \in DOMAIN ast
  PROVE  /\ hoistBlockBody(n) \in Seq(WalkTask \cup HoistTask)
         /\ QueueOK(hoistBlockBody(n) \o s, hoister)
<1> DEFINE T == WalkTask \cup HoistTask
           g == [hoister EXCEPT !.inBlock = TRUE]
           a == inBlockTask(TRUE)
           b == visit("hoist", n)
           c == inBlockTask(hoister.inBlock)
<1>1. hoister \in fields /\ g \in fields
  BY Types DEF fields
<1>2. a \in T /\ b \in HoistVisit /\ b \in T /\ c \in T
  <2>1. HoistVisit \subseteq T /\ b \in HoistVisit
    BY Visits DEF HoistVisit, HoistTask, HoisterOps
  <2> HIDE DEF g
  <2>2. a \in T /\ c \in T
    BY <1>1 DEF inBlockTask, HoistTask, fields
  <2> QED BY <2>1, <2>2
<1>3. s \in Seq(T)
  BY DEF QueueOK
<1>4. /\ a \in HoistTask /\ a.op = "inBlock" /\ restored(hoister, a) = g
      /\ c \in HoistTask /\ c.op = "inBlock" /\ restored(g, c) = hoister
  <2>1. /\ a.op = "inBlock" /\ a.val = TRUE
        /\ c.op = "inBlock" /\ c.val = hoister.inBlock
    BY DEF inBlockTask
  <2>2. a \in HoistTask /\ c \in HoistTask
    BY <1>1 DEF inBlockTask, HoistTask, fields
  <2>3. restored(hoister, a) = g
    BY <2>1 DEF restored
  <2>4. restored(g, c) = [g EXCEPT !.inBlock = hoister.inBlock]
    BY <2>1 DEF restored
  <2>5. [g EXCEPT !.inBlock = hoister.inBlock] = hoister
    BY <1>1 DEF fields
  <2> QED BY <2>1, <2>2, <2>3, <2>4, <2>5
<1> HIDE DEF g, T, a, c
<1>41. QueueOK(<<c>> \o s, g)
  <2>1. c.op \in SaveOps /\ c.op # "catchDone"
    BY <1>4 DEF SaveOps
  <2> QED BY <1>1, <1>4, <2>1, QueueSave
<1>5. QueueOK(<<b>> \o (<<c>> \o s), g)
  <2>1. <<b>> \in Seq(HoistVisit)
    BY <1>2, Entries
  <2> HIDE DEF b
  <2> QED BY <1>41, <2>1, QueueHoist
<1> HIDE DEF b
<1>6. QueueOK(<<a>> \o (<<b>> \o (<<c>> \o s)), hoister)
  <2>1. a.op \in SaveOps /\ a.op # "catchDone"
    BY <1>4 DEF SaveOps
  <2> QED BY <1>1, <1>4, <1>5, <2>1, QueueSave
<1>7. hoistBlockBody(n) = <<a, b, c>>
  BY DEF hoistBlockBody, a, b, c
<1>8. /\ <<a, b, c>> \in Seq(T)
      /\ <<a>> \in Seq(T) /\ <<b>> \in Seq(T) /\ <<c>> \in Seq(T)
      /\ <<a, b, c>> = <<a>> \o (<<b>> \o <<c>>)
  <2>1. a \in T /\ b \in T /\ c \in T
    BY <1>2
  <2>2. <<a>> \o (<<b>> \o <<c>>) = <<a, b, c>>
    BY <2>1, Triple
  <2>3. /\ <<a, b, c>> \in Seq(T)
        /\ <<a>> \in Seq(T) /\ <<b>> \in Seq(T) /\ <<c>> \in Seq(T)
    BY <2>1, Entries
  <2> QED BY <2>2, <2>3
<1>9. <<a, b, c>> \o s = <<a>> \o (<<b>> \o (<<c>> \o s))
  <2>1. <<b>> \o <<c>> \in Seq(T)
    BY <1>8, Entries
  <2>2. (<<a>> \o (<<b>> \o <<c>>)) \o s = <<a>> \o ((<<b>> \o <<c>>) \o s)
    BY <1>3, <1>8, <2>1, Regroup
  <2>3. (<<b>> \o <<c>>) \o s = <<b>> \o (<<c>> \o s)
    BY <1>3, <1>8, Regroup
  <2> QED BY <1>8, <2>2, <2>3
<1> QED BY <1>6, <1>7, <1>8, <1>9 DEF T

\* A visit or none, then a body.
LEMMA VisitsThenBody ==
  ASSUME Inv, todo # <<>>, Top.op \in HoisterOps,
         NEW ts \in Seq(HoistVisit), NEW n \in DOMAIN ast,
         then(ts \o hoistBlockBody(n)),
         UNCHANGED <<tableVars, ctxOf, identType, declKind, hoister>>
  PROVE  Kept
<1> DEFINE T == WalkTask \cup HoistTask
           rest == Tail(todo)
           body == hoistBlockBody(n)
<1>1. QueueOK(rest, hoister) /\ rest \in Seq(T)
  BY Hoisting
<1>2. body \in Seq(T) /\ QueueOK(body \o rest, hoister)
  BY <1>1, BlockBody
<1>3. ts \in Seq(T)
  <2>1. HoistVisit \subseteq T
    BY DEF HoistVisit, HoistTask
  <2> QED BY <2>1, SeqMonotonic
<1>4. todo' = (ts \o body) \o rest
  BY DEF then
<1> HIDE DEF T, rest, body
<1>5. (ts \o body) \o rest = ts \o (body \o rest)
  BY <1>1, <1>2, <1>3, Regroup
<1>6. QueueOK(ts \o (body \o rest), hoister)
  BY <1>2, QueueHoist
<1>7. QueueOK(todo', hoister') /\ hoister' \in fields
  BY <1>4, <1>5, <1>6, Types
<1> QED BY <1>7, HoistKept

\* A loop hoists its head's var, and its body as a block's.
LEMMA HoistLoopKept == ASSUME Inv, HoistLoop PROVE Kept
<1> DEFINE head == kid(1)
           isVar == Is(ast, head, "VariableDeclaration") /\ ast[head].attr = "var"
           ts == IF isVar THEN <<visit("hoist", head)>> ELSE <<>>
           body == Last(ast[node].kids)
<1>1. PICK k \in {"ForStatement", "ForInOfStatement"} : visiting("hoist", k)
  BY DEF HoistLoop
<1>2. /\ then(ts \o hoistBlockBody(body))
      /\ UNCHANGED <<tableVars, ctxOf, identType, declKind, hoister>>
  BY DEF HoistLoop
<1>3. todo # <<>> /\ Top.op \in HoisterOps /\ node \in DOMAIN ast
      /\ ast[node].kind \in {"ForStatement", "ForInOfStatement"}
  BY <1>1, HoistVisiting
<1>4. /\ WellFormedNode(ast, node, Name)
      /\ \A i \in 1 .. Len(ast[node].kids) : kid(i) \in DOMAIN ast \cup {NoNode}
  BY <1>3, Kids
<1>5. \/ Len(ast[node].kids) = 4 /\ kid(4) # NoNode
      \/ Len(ast[node].kids) = 3 /\ kid(3) # NoNode
  BY <1>3, <1>4 DEF WellFormedNode, kid
<1>6. body = kid(Len(ast[node].kids))
  BY DEF Last, kid
<1>7. body \in DOMAIN ast /\ head \in DOMAIN ast \cup {NoNode}
  <2>1. \A l \in {3, 4} : 1 \in 1 .. l /\ l \in 1 .. l
    OBVIOUS
  <2>2. CASE Len(ast[node].kids) = 4 /\ kid(4) # NoNode
    <3>1. body = kid(4)
      BY <1>6, <2>2
    <3>2. kid(4) \in DOMAIN ast \cup {NoNode} /\ kid(1) \in DOMAIN ast \cup {NoNode}
      BY <1>4, <2>1, <2>2
    <3> QED BY <2>2, <3>1, <3>2
  <2>3. CASE Len(ast[node].kids) = 3 /\ kid(3) # NoNode
    <3>1. body = kid(3)
      BY <1>6, <2>3
    <3>2. kid(3) \in DOMAIN ast \cup {NoNode} /\ kid(1) \in DOMAIN ast \cup {NoNode}
      BY <1>4, <2>1, <2>3
    <3> QED BY <2>3, <3>1, <3>2
  <2> QED BY <1>5, <2>2, <2>3
<1>8. ts \in Seq(HoistVisit)
  <2>1. isVar => head \in DOMAIN ast
    BY <1>7 DEF Is
  <2> QED BY <2>1, Visits, Entries DEF HoisterOps
<1> HIDE DEF ts, body
<1> QED BY <1>2, <1>3, <1>7, <1>8, VisitsThenBody

\* The cases of a switch are hoisted as a block's.
LEMMA HoistSwitchStatementKept == ASSUME Inv, HoistSwitchStatement PROVE Kept
<1> DEFINE ts == <<visit("hoist", kid(1))>>
<1>1. /\ visiting("hoist", "SwitchStatement")
      /\ then(ts \o hoistBlockBody(kid(2)))
      /\ UNCHANGED <<tableVars, ctxOf, identType, declKind, hoister>>
  BY DEF HoistSwitchStatement
<1>2. todo # <<>> /\ Top.op \in HoisterOps /\ node \in DOMAIN ast
      /\ ast[node].kind = "SwitchStatement"
  BY <1>1, HoistVisiting
<1>3. kid(1) \in DOMAIN ast /\ kid(2) \in DOMAIN ast
  <2>1. Len(ast[node].kids) = 2 /\ kid(1) # NoNode /\ kid(2) # NoNode
    BY <1>2, Kids DEF WellFormedNode, kid
  <2> QED BY <1>2, <2>1, Kids
<1>4. ts \in Seq(HoistVisit)
  BY <1>3, Visits, Entries DEF HoisterOps
<1> HIDE DEF ts
<1> QED BY <1>1, <1>2, <1>3, <1>4, VisitsThenBody

\* addIdentifier and the visit around it.
LEMMA HoistBinderVisitKept == ASSUME Inv, HoistBinderVisit PROVE Kept
<1> DEFINE name == ast[node].attr
           isParam == name \in hoister.catchParamDecls
           seen == lookup(name).ctx
           rest == Tail(todo)
<1>1. /\ todo # <<>> /\ Top.op = "hoistPattern"
      /\ UNCHANGED <<identType, declKind>>
  BY DEF HoistBinderVisit
<1>2. Top.op \in HoisterOps
  BY <1>1 DEF HoisterOps
<1>3. node \in DOMAIN ast /\ QueueOK(rest, hoister)
      /\ rest \in Seq(WalkTask \cup HoistTask)
  BY <1>1, <1>2, Hoisting
<1>4. then(<<>>) => todo' = rest
  <2>1. \A q \in Seq(WalkTask \cup HoistTask) : <<>> \o q = q
    OBVIOUS
  <2> QED BY <1>3, <2>1 DEF then
<1>5. \/ ast[node].kind = "Identifier" /\ addIdentifier(node) /\ then(<<>>)
      \/ then(<<>>) /\ UNCHANGED <<tableVars, ctxOf, hoister>>
      \/ then(visitKids("hoistPattern", node)) /\ UNCHANGED <<tableVars, ctxOf, hoister>>
  BY DEF HoistBinderVisit
<1>6. CASE then(<<>>) /\ UNCHANGED <<tableVars, ctxOf, hoister>>
  BY <1>1, <1>2, <1>6, Entries, HoistVisitsKept
<1>7. CASE then(visitKids("hoistPattern", node)) /\ UNCHANGED <<tableVars, ctxOf, hoister>>
  <2>1. visitKids("hoistPattern", node) \in Seq(HoistVisit)
    BY <1>3, KidVisits
  <2> QED BY <1>1, <1>2, <1>7, <2>1, HoistVisitsKept
<1>8. CASE ast[node].kind = "Identifier" /\ addIdentifier(node) /\ then(<<>>)
  <2>1. name \in Name
    BY <1>3, <1>8, Kids DEF WellFormedNode
  <2>2. \/ /\ hoister.inCatchBody /\ isParam
           /\ ctxOf' = [ctxOf EXCEPT ![node] = seen]
           /\ UNCHANGED <<tableVars, hoister>>
        \/ UNCHANGED <<tableVars, ctxOf, hoister>>
        \/ /\ modify(node, hoister.kind)
           /\ hoister' = IF hoister.inCatchBody
                         THEN [hoister EXCEPT !.excludedFromCatch = @ \cup {name}]
                         ELSE hoister
    BY <1>8 DEF addIdentifier
  <2>3. CASE /\ hoister.inCatchBody /\ isParam
             /\ ctxOf' = [ctxOf EXCEPT ![node] = seen]
             /\ UNCHANGED <<tableVars, hoister>>
    <3>1. seen \in ScopeContext
      BY <2>1, SeenContext
    <3> HIDE DEF seen
    <3>2. varOfCatchParam(node)
      BY <1>1, <2>3 DEF varOfCatchParam
    <3>3. ctxOf' \in [DOMAIN ast -> ScopeContext]
          /\ \A m \in DOMAIN ast : m # node => ctxOf'[m] = ctxOf[m]
      BY <2>3, <3>1, Types
    <3>4. QueueOK(todo', hoister')
      BY <1>3, <1>4, <1>8, <2>3
    <3> QED BY <1>1, <2>3, <3>2, <3>3, <3>4, Types DEF Kept
  <2>4. CASE UNCHANGED <<tableVars, ctxOf, hoister>>
    BY <1>1, <1>2, <1>8, <2>4, Entries, HoistVisitsKept
  <2>5. CASE /\ modify(node, hoister.kind)
             /\ hoister' = IF hoister.inCatchBody
                           THEN [hoister EXCEPT !.excludedFromCatch = @ \cup {name}]
                           ELSE hoister
    <3> HIDE DEF name
    <3>1. hoister \in fields /\ hoister.kind \in DeclKind
      BY Types DEF fields
    <3>2. /\ [TableNext]_tableVars
          /\ ctxOf' \in [DOMAIN ast -> ScopeContext]
          /\ \A m \in DOMAIN ast :
               ctxOf[m] # UnresolvedContext => ctxOf'[m] = ctxOf[m]
      BY <1>3, <1>8, <2>5, <3>1, Modified
    <3> DEFINE g == hoister'
    <3>3. /\ g \in fields /\ g.catchParamDecls = hoister.catchParamDecls
          /\ g.inBlock = hoister.inBlock /\ g.kind = hoister.kind
          /\ hoister.inCatchBody \/ g = hoister
      BY <2>1, <2>5, <3>1 DEF fields
    <3> HIDE DEF g
    <3>4. QueueOK(rest, g)
      <4>1. CASE g = hoister
        BY <1>3, <4>1
      <4>2. CASE hoister.inCatchBody
        <5> HIDE DEF rest
        <5> QED BY <1>3, <3>1, <3>3, <4>2, QueueExcluded
      <4> QED BY <3>3, <4>1, <4>2
    <3>5. QueueOK(todo', hoister')
      BY <1>4, <1>8, <3>4 DEF g
    <3> QED BY <1>1, <3>2, <3>3, <3>5, Types DEF Kept, g
  <2> QED BY <2>2, <2>3, <2>4, <2>5
<1> QED BY <1>5, <1>6, <1>7, <1>8
-----------------------------------------------------------------------------
(***************************************************************************)
(* The specification.                                                      *)
(***************************************************************************)

\* It holds of a program that is about to be resolved.
LEMMA InitInv == Init => Inv
<1> SUFFICES ASSUME Init PROVE Inv
  OBVIOUS
<1>1. Structure
  BY InitStructure DEF Init
<1>2. ast \in Programs /\ 1 \in DOMAIN ast
  BY ProgramsAssumption DEF Init, WellFormedTree
<1>3. ResolverTypeOK
  <2>1. UnresolvedContext \in ScopeContext
    BY MaxCtxtAssumption DEF UnresolvedContext, ScopeContext, TopLevelContext
  <2>2. ctxOf \in [DOMAIN ast -> ScopeContext]
    BY <2>1 DEF Init
  <2>3. TypeOK
    BY <1>1 DEF Structure
  <2> QED BY <2>2, <2>3, FreshFields
          DEF ResolverTypeOK, Init, DeclKind, identTypeRef, identTypeBinding
<1>4. QueueOK(todo, hoister)
  <2> DEFINE t == visit("resolve", 1)
  <2>1. t \in WalkTask
    BY <1>2 DEF WalkTask, visit
  <2>2. todo = <<t>> /\ hoister = freshHoister
    BY DEF Init
  <2> HIDE DEF t
  <2>3. todo \in Seq(WalkTask)
    BY <2>1, <2>2, Entries
  <2> QED BY <2>2, <2>3, QueueOfWalk
<1> QED BY <1>1, <1>2, <1>3, <1>4 DEF Inv

\* Whatever the resolver does next.
LEMMA ResolveKept == ASSUME Inv, Resolve PROVE Kept
BY PopScopeKept, ModifyKept, RestoreKept, VisitProgramKept,
   VisitBlockStatementKept, VisitFunctionLiteralKept,
   VisitArrowFunctionLiteralKept, VisitForInOfStatementKept,
   VisitForStatementKept, VisitCatchClauseKept, VisitClassDeclarationKept,
   VisitClassLiteralKept, VisitParameterListKept, VisitStatementsKept,
   VisitVariableDeclarationKept, DeclaratorKept, VisitExpressionKept,
   VisitIdentifierKept, VisitMemberPropertyKept, VisitChildrenKept,
   BinderVisitKept, HoistStatementsKept, HoistBlockStatementKept,
   HoistCatchClauseKept, HoistLoopKept, HoistSwitchStatementKept,
   HoistVariableDeclarationKept, HoistFunctionDeclarationKept,
   HoistPatternKept, HoistChildrenKept, HoistBinderVisitKept
   DEF Resolve

\* Every step is the walk's or nothing happens; the tree stays.
LEMMA StepKept ==
  ASSUME Inv, [Next]_vars
  PROVE  Kept /\ UNCHANGED ast
<1>1. CASE Resolve /\ UNCHANGED ast
  BY <1>1, ResolveKept
<1>2. CASE UNCHANGED vars
  BY <1>2, Types DEF Inv, Kept, vars, tableVars
<1> QED BY <1>1, <1>2 DEF Next

\* Every step keeps the invariant.
LEMMA StepInv ==
  ASSUME Inv, [Next]_vars
  PROVE  Inv'
<1>1. Kept /\ ast' = ast
  BY StepKept
<1>2. Structure'
  BY <1>1, StructureStep DEF Inv, Kept
<1>3. ResolverTypeOK'
  BY <1>1, <1>2 DEF ResolverTypeOK, Kept, Structure
<1>4. QueueOK(todo, hoister)'
  BY <1>1 DEF Kept, QueueOK, WalkTask, HoistTask
<1> QED BY <1>1, <1>2, <1>3, <1>4 DEF Inv

\* So it always holds.
LEMMA InvAlways == Spec => []Inv
<1>1. Inv /\ [Next]_vars => Inv'
  BY StepInv
<1> QED BY <1>1, InitInv, PTL DEF Spec

\* The stack of calls of the resolver is well formed at every moment, for every
\* program: the entries are of the resolver's or of the hoister's, a hoister's
\* run is on top of the walk that started it, and each run gives back the
\* hoister's fields (resolver.go, VisitStatements; hoister.go, the deferred
\* restores).
THEOREM ResolverInvariant == Spec => []ResolverInv
<1>1. Inv => ResolverInv
  BY DEF Inv, QueueOK, ResolverInv
<1> QED BY <1>1, InvAlways, PTL

\* The shared hoister may be reset at each list of statements: no run of it is
\* suspended underneath the resolver, and between runs it is as it was reset
\* (resolver.go, VisitStatements).
THEOREM HoisterRunsApart == Spec => []HoisterRunsNeverOverlap
<1>1. Inv => HoisterRunsNeverOverlap
  <2> SUFFICES ASSUME Inv PROVE HoisterRunsNeverOverlap
    OBVIOUS
  <2> DEFINE hoisters == HoisterOps \cup SaveOps
             walkers == ResolverOps \cup {"popScope", "modify"}
  <2>1. HoisterFirst(todo) /\ Balanced(todo, hoister)
    BY DEF Inv, QueueOK
  <2>3. \A op \in walkers : op \notin hoisters
    BY DEF ResolverOps, HoisterOps, SaveOps
  <2>4. \A i, j \in DOMAIN todo :
          i < j /\ todo[i].op \in walkers => todo[j].op \notin hoisters
    <3>1. \A i, j \in DOMAIN todo :
            i < j /\ todo[j].op \in hoisters => todo[i].op \in hoisters
      BY <2>1 DEF HoisterFirst
    <3> HIDE DEF hoisters, walkers
    <3> QED BY <2>3, <3>1
  <2>5. (\A i \in DOMAIN todo : todo[i].op \notin hoisters)
          => hoister = freshHoister
    <3> SUFFICES ASSUME \A i \in DOMAIN todo : todo[i].op \notin hoisters
                 PROVE  hoister = freshHoister
      OBVIOUS
    <3>1. \A i \in DOMAIN todo : todo[i].op \notin SaveOps
      OBVIOUS
    <3>2. hoister \in fields
      BY Types
    <3> QED BY <2>1, <3>1, <3>2, NoRestores
  <2> QED BY <2>4, <2>5 DEF HoisterRunsNeverOverlap
<1> QED BY <1>1, InvAlways, PTL

\* Resolving a program is a run of the scope table: each step of the walk is one
\* of pushScope, popScope and declare, or leaves the table alone.
THEOREM ResolverRunsTable == Spec => TableSpec
<1>1. Init => TableInit
  BY DEF Init
<1>2. Inv /\ [Next]_vars => [TableNext]_tableVars
  BY StepKept DEF Kept
<1> QED BY <1>1, <1>2, InvAlways, PTL DEF Spec, TableSpec

\* While a program is resolved, what lookup answers for a name is the binding the
\* innermost scope that declares it gave it (resolver.go, lookup).
COROLLARY ResolverLooksUpRight == Spec => []LookupAgrees
BY ResolverRunsTable, LookupAlwaysAgrees, PTL

\* While a program is resolved, the table is the chain of scopes it stands for.
COROLLARY ResolverImplementsChain == Spec => ChainSpec
BY ResolverRunsTable, TableImplementsChain, PTL

\* An identifier keeps the context it was given, however many hoister runs and
\* binders come by it (resolver.go, modify; hoister.go, addIdentifier).
THEOREM ContextsKept == Spec => ResolvedOnce
<1>1. Inv /\ [Next]_vars =>
        [\A n \in DOMAIN ast :
           (/\ ast[n].kind = "Identifier"
            /\ ctxOf[n] # UnresolvedContext
            /\ ~varOfCatchParam(n))
              => ctxOf'[n] = ctxOf[n]]_vars
  BY StepKept DEF Kept
<1> QED BY <1>1, InvAlways, PTL DEF Spec, ResolvedOnce
=============================================================================
