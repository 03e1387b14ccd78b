----------------------------- MODULE DataLemmas -----------------------------
(***************************************************************************)
(* Facts about sequences, minima and records that the proofs cite and the  *)
(* library does not state.                                                 *)
(***************************************************************************)
EXTENDS SyntaxTree, SequencesExt, FiniteSetsExt, SequenceTheorems,
        FiniteSetTheorems, WellFoundedInduction, TLAPS

\* A prefix of a sequence: its length and its elements.
LEMMA PrefixProperties ==
  ASSUME NEW S, NEW s \in Seq(S), NEW k \in 0 .. Len(s)
  PROVE  /\ SubSeq(s, 1, k) \in Seq(S)
         /\ Len(SubSeq(s, 1, k)) = k
         /\ \A i \in 1 .. k : SubSeq(s, 1, k)[i] = s[i]
<1>1. Len(s) \in Nat /\ k \in Int /\ 1 \in Int
  BY LenProperties
<1>2. \A i \in 1 .. k : s[i] \in S
  BY <1>1, ElementOfSeq
<1> QED
  BY <1>1, <1>2, SubSeqProperties

\* A sequence without its last element, and that element (the pop of a Go slice).
LEMMA FrontProperties ==
  ASSUME NEW S, NEW s \in Seq(S), s # <<>>
  PROVE  /\ Len(s) \in Nat \ {0}
         /\ Front(s) \in Seq(S)
         /\ Len(Front(s)) = Len(s) - 1
         /\ \A i \in 1 .. Len(s) - 1 : Front(s)[i] = s[i]
         /\ Last(s) = s[Len(s)]
         /\ Last(s) \in S
<1>1. Len(s) \in Nat \ {0}
  BY EmptySeq
<1>2. Len(s) - 1 \in 0 .. Len(s) /\ Len(s) \in 1 .. Len(s)
  BY <1>1
<1>3. s[Len(s)] \in S
  BY <1>2, ElementOfSeq
<1> QED
  BY <1>1, <1>2, <1>3, PrefixProperties DEF Front, Last

\* Every nonempty set of naturals has a least element. Its intervals 0 .. x are
\* finite sets, on which strict inclusion is well founded.
LEMMA LeastElement ==
  ASSUME NEW S, S \subseteq Nat, S # {}
  PROVE  \E x \in S : \A y \in S : x <= y
<1> DEFINE Iv == {0 .. x : x \in S}
<1>1. Iv \subseteq FiniteSubsetsOf(Nat)
  <2>1. \A x \in S : 0 .. x \subseteq Nat /\ IsFiniteSet(0 .. x)
    BY FS_Interval
  <2> QED
    BY <2>1 DEF FiniteSubsetsOf
<1>2. Iv # {}
  OBVIOUS
<1>3. IsWellFoundedOn(StrictSubsetOrdering(Nat), FiniteSubsetsOf(Nat))
  BY FS_StrictSubsetOrderingWellFounded
<1>4. PICK I \in Iv : \A J \in Iv : ~ (<<J, I>> \in StrictSubsetOrdering(Nat))
  <2> HIDE DEF Iv
  <2> QED
    BY <1>1, <1>2, <1>3, WFMin
<1>5. PICK x \in S : I = 0 .. x
  BY <1>4
<1>6. \A y \in S : y < x => /\ 0 .. y \subseteq Nat /\ 0 .. x \subseteq Nat
                            /\ 0 .. y \subseteq 0 .. x /\ 0 .. y # 0 .. x
  OBVIOUS
<1>7. \A y \in S : y < x => <<0 .. y, 0 .. x>> \in StrictSubsetOrdering(Nat)
  BY <1>6 DEF StrictSubsetOrdering
<1>8. \A y \in S : 0 .. y \in Iv
  OBVIOUS
<1>9. \A y \in S : ~ (y < x)
  <2> HIDE DEF Iv
  <2> QED
    BY <1>4, <1>5, <1>7, <1>8
<1> HIDE DEF Iv
<1> QED
  BY <1>9

\* What Min, a CHOOSE, returns.
LEMMA MinProperties ==
  ASSUME NEW S, S \subseteq Nat, S # {}
  PROVE  /\ Min(S) \in S
         /\ \A y \in S : Min(S) <= y
BY LeastElement DEF Min

\* What Max returns on a set of bounded naturals.
LEMMA MaxProperties ==
  ASSUME NEW S, NEW k \in Nat, S \subseteq 1 .. k, S # {}
  PROVE  /\ Max(S) \in S
         /\ \A y \in S : Max(S) >= y
<1> DEFINE R == {k - y : y \in S}
<1>1. R \subseteq Nat /\ R # {}
  <2>1. \A y \in S : y \in 1 .. k
    OBVIOUS
  <2>2. \A y \in 1 .. k : k - y \in Nat
    OBVIOUS
  <2> QED
    BY <2>1, <2>2
<1>2. PICK r \in R : \A q \in R : r <= q
  <2> HIDE DEF R
  <2> QED
    BY <1>1, LeastElement
<1>3. PICK x \in S : r = k - x
  BY <1>2
<1>4. \A y \in S : k - y \in R
  OBVIOUS
<1>5. \A y \in S : x >= y
  <2> SUFFICES ASSUME NEW y \in S
               PROVE  x >= y
    OBVIOUS
  <2>1. k - x <= k - y
    BY <1>2, <1>3, <1>4
  <2> QED
    BY <2>1
<1> QED
  BY <1>3, <1>5 DEF Max

\* A function on 1 .. k is a sequence of length k.
LEMMA FunctionIsSeq ==
  ASSUME NEW S, NEW k \in Nat, NEW f \in [1 .. k -> S]
  PROVE  f \in Seq(S) /\ Len(f) = k
<1>1. f \in Seq(S)
  BY SeqDef
<1>2. DOMAIN f = 1 .. Len(f) /\ Len(f) \in Nat
  BY <1>1, LenProperties
<1>3. 1 .. k = 1 .. Len(f)
  BY <1>2
<1>4. \A l \in Nat : 1 .. k = 1 .. l => k = l
  <2> SUFFICES ASSUME NEW l \in Nat, 1 .. k = 1 .. l
               PROVE  k = l
    OBVIOUS
  <2>1. \A j \in Nat : j \in 1 .. k <=> j \in 1 .. l
    OBVIOUS
  <2>2. k # 0 => k \in 1 .. k
    OBVIOUS
  <2>3. l # 0 => l \in 1 .. l
    OBVIOUS
  <2> QED
    BY <2>1, <2>2, <2>3
<1> QED
  BY <1>1, <1>2, <1>3, <1>4

\* Updating one entry of the map a scope record holds.
LEMMA RebindInRecord ==
  ASSUME NEW c, NEW own, NEW name, NEW kind,
         NEW r, r = [ctx |-> c, own |-> own]
  PROVE  [r EXCEPT !.own[name] = kind] =
            [ctx |-> c, own |-> [own EXCEPT ![name] = kind]]
OBVIOUS

\* How Sublist goes through a list.
Steps(S, list, P, c) ==
    /\ c \in [0 .. Len(list) -> Seq(S \cap P)]
    /\ c[0] = <<>>
    /\ \A i \in 1 .. Len(list) :
          c[i] = IF list[i] \in P THEN Append(c[i - 1], list[i]) ELSE c[i - 1]
    /\ c[Len(list)] = Sublist(list, P)

\* Sublist is a recursive function: that it exists is shown by induction on the
\* length.
LEMMA SublistSteps ==
  ASSUME NEW S, NEW list \in Seq(S), NEW P
  PROVE  \E c : Steps(S, list, P, c)
<1> DEFINE L == Len(list)
           T == Seq(S \cap P)
           next(i, u) == IF list[i] \in P THEN Append(u, list[i]) ELSE u
           Upto(k, f) == /\ f \in [0 .. k -> T]
                         /\ f[0] = <<>>
                         /\ \A i \in 1 .. k : f[i] = next(i, f[i - 1])
<1>1. L \in Nat /\ \A i \in 1 .. L : list[i] \in S
  BY LenProperties, ElementOfSeq
<1>2. <<>> \in T
  OBVIOUS
<1>3. \A i \in 1 .. L : \A u \in T : next(i, u) \in T
  BY <1>1
<1> HIDE DEF T, next, L
<1>4. \E f : Upto(L, f)
  <2> DEFINE Bad == {k \in 0 .. L : ~ \E f : Upto(k, f)}
  <2>1. Bad \subseteq Nat
    BY <1>1
  <2>2. ASSUME Bad # {} PROVE FALSE
    <3>1. PICK k \in Bad : \A l \in Bad : k <= l
      <4> HIDE DEF Bad
      <4> QED BY <2>1, <2>2, LeastElement
    <3>2. k \in 0 .. L /\ ~ \E f : Upto(k, f)
      BY <3>1
    <3>3. CASE k = 0
      <4> DEFINE f0 == [i \in 0 .. 0 |-> <<>>]
      <4>1. f0 \in [0 .. 0 -> T] /\ f0[0] = <<>> /\ 1 .. 0 = {}
        BY <1>2
      <4>2. Upto(0, f0)
        BY <4>1
      <4> QED BY <3>2, <3>3, <4>2
    <3>4. CASE k # 0
      <4>1. k - 1 \in 0 .. L /\ k \in 1 .. L /\ k \in Nat /\ ~ (k <= k - 1)
        BY <1>1, <3>2, <3>4
      <4>2. k - 1 \notin Bad
        BY <3>1, <4>1
      <4>3. PICK f : Upto(k - 1, f)
        BY <4>1, <4>2
      <4> DEFINE g == [i \in 0 .. k |-> IF i = k THEN next(k, f[k - 1]) ELSE f[i]]
      <4>4. /\ k - 1 \in 0 .. k - 1 /\ 0 \in 0 .. k - 1 /\ 0 \in 0 .. k
            /\ \A i \in 0 .. k : i # k => i \in 0 .. k - 1
            /\ \A i \in 1 .. k : /\ i - 1 \in 0 .. k /\ i - 1 # k /\ i \in 0 .. k
                                 /\ i # k => i \in 1 .. k - 1
        BY <4>1, <3>4
      <4>5. /\ f \in [0 .. k - 1 -> T] /\ f[0] = <<>>
            /\ \A i \in 1 .. k - 1 : f[i] = next(i, f[i - 1])
        BY <4>3
      <4>6. g \in [0 .. k -> T]
        BY <4>1, <4>4, <4>5, <1>3
      <4>7. g[0] = <<>>
        BY <4>4, <4>5, <3>4
      <4>8. \A i \in 1 .. k : g[i] = next(i, g[i - 1])
        <5> SUFFICES ASSUME NEW i \in 1 .. k PROVE g[i] = next(i, g[i - 1])
          OBVIOUS
        <5>1. g[i - 1] = f[i - 1]
          BY <4>4
        <5>2. g[i] = next(i, f[i - 1])
          BY <4>4, <4>5
        <5> QED BY <5>1, <5>2
      <4> HIDE DEF g
      <4>9. Upto(k, g)
        BY <4>6, <4>7, <4>8
      <4> QED BY <3>2, <4>9
    <3> QED BY <3>3, <3>4
  <2>3. L \in 0 .. L
    BY <1>1
  <2> QED BY <2>2, <2>3
<1>5. PICK f : Upto(L, f)
  BY <1>4
<1> DEFINE rec(u) == [i \in 0 .. L |-> IF i = 0 THEN <<>>
                        ELSE IF list[i] \in P THEN Append(u[i - 1], list[i])
                        ELSE u[i - 1]]
<1>6. f = rec(f)
  <2>1. \A i \in 0 .. L : i = 0 \/ i \in 1 .. L
    BY <1>1
  <2>2. \A i \in 0 .. L : f[i] = IF i = 0 THEN <<>>
                        ELSE IF list[i] \in P THEN Append(f[i - 1], list[i])
                        ELSE f[i - 1]
    BY <1>5, <2>1 DEF next
  <2> QED BY <1>5, <2>2
<1> DEFINE c == CHOOSE u : u = rec(u)
<1>7. c = rec(c)
  BY <1>6
<1>8. Sublist(list, P) = c[L]
  BY DEF Sublist, L
<1> HIDE DEF c
<1>9. \A i \in 0 .. L : c[i] \in T
  <2> DEFINE Bad == {i \in 0 .. L : c[i] \notin T}
  <2>1. Bad \subseteq Nat
    BY <1>1
  <2>2. ASSUME Bad # {} PROVE FALSE
    <3>1. PICK k \in Bad : \A l \in Bad : k <= l
      <4> HIDE DEF Bad
      <4> QED BY <2>1, <2>2, LeastElement
    <3>2. k \in 0 .. L /\ c[k] \notin T
      BY <3>1
    <3>3. k # 0
      BY <1>2, <1>7, <3>2
    <3>4. k - 1 \in 0 .. L /\ k \in 1 .. L /\ ~ (k <= k - 1)
      BY <1>1, <3>2, <3>3
    <3>5. c[k - 1] \in T
      BY <3>1, <3>4
    <3>6. c[k] = next(k, c[k - 1])
      BY <1>7, <3>2, <3>3 DEF next
    <3> QED BY <1>3, <3>2, <3>4, <3>5, <3>6
  <2> QED BY <2>2
<1>10. L \in 0 .. L
  BY <1>1
<1>11. c \in [0 .. L -> T]
  BY <1>7, <1>9
<1>12. 0 \in 0 .. L /\ \A i \in 1 .. L : i \in 0 .. L /\ i # 0
  BY <1>1
<1>13. c[0] = <<>> /\ \A i \in 1 .. L :
          c[i] = IF list[i] \in P THEN Append(c[i - 1], list[i]) ELSE c[i - 1]
  BY <1>7, <1>12
<1> QED BY <1>8, <1>11, <1>13 DEF T, L, Steps

\* It returns a list of elements in P.
LEMMA SublistIn ==
  ASSUME NEW S, NEW list \in Seq(S), NEW P
  PROVE  Sublist(list, P) \in Seq(S \cap P)
<1>1. Len(list) \in Nat /\ Len(list) \in 0 .. Len(list)
  BY LenProperties
<1>2. PICK c : Steps(S, list, P, c)
  BY SublistSteps
<1> QED BY <1>1, <1>2 DEF Steps

\* A further element is added at the end if it is in P.
LEMMA SublistAppend ==
  ASSUME NEW S, NEW list \in Seq(S), NEW x \in S, NEW P
  PROVE  Sublist(Append(list, x), P) =
            IF x \in P THEN Append(Sublist(list, P), x) ELSE Sublist(list, P)
<1> DEFINE L == Len(list)
           more == Append(list, x)
<1>1. /\ L \in Nat /\ more \in Seq(S) /\ Len(more) = L + 1 /\ more[L + 1] = x
      /\ \A i \in 1 .. L : more[i] = list[i]
  BY AppendProperties, LenProperties
<1> HIDE DEF more
<1>20. PICK c : Steps(S, list, P, c)
  BY SublistSteps
<1>30. PICK d : Steps(S, more, P, d)
  BY <1>1, SublistSteps
<1>2. /\ c[0] = <<>>
      /\ \A i \in 1 .. L :
            c[i] = IF list[i] \in P THEN Append(c[i - 1], list[i]) ELSE c[i - 1]
      /\ c[L] = Sublist(list, P)
  BY <1>20 DEF Steps
<1>3. /\ d[0] = <<>>
      /\ \A i \in 1 .. L + 1 :
            d[i] = IF more[i] \in P THEN Append(d[i - 1], more[i]) ELSE d[i - 1]
      /\ d[L + 1] = Sublist(more, P)
  BY <1>1, <1>30 DEF Steps
<1> HIDE DEF L
<1>4. \A i \in 0 .. L : d[i] = c[i]
  <2> DEFINE Bad == {i \in 0 .. L : d[i] # c[i]}
  <2>1. Bad \subseteq Nat
    BY <1>1
  <2>2. ASSUME Bad # {} PROVE FALSE
    <3>1. PICK k \in Bad : \A l \in Bad : k <= l
      <4> HIDE DEF Bad
      <4> QED BY <2>1, <2>2, LeastElement
    <3>2. k \in 0 .. L /\ d[k] # c[k]
      BY <3>1
    <3>3. k # 0
      BY <1>2, <1>3, <3>2
    <3>4. k - 1 \in 0 .. L /\ k \in 1 .. L /\ k \in 1 .. L + 1 /\ ~ (k <= k - 1)
      BY <1>1, <3>2, <3>3
    <3>5. d[k - 1] = c[k - 1]
      BY <3>1, <3>4
    <3> QED BY <1>1, <1>2, <1>3, <3>2, <3>4, <3>5
  <2> QED BY <2>2
<1>5. L \in 0 .. L /\ L + 1 \in 1 .. L + 1 /\ (L + 1) - 1 = L
  BY <1>1
<1>6. d[L + 1] = IF x \in P THEN Append(d[L], x) ELSE d[L]
  BY <1>1, <1>3, <1>5
<1> QED BY <1>2, <1>3, <1>4, <1>5, <1>6 DEF more

\* Nothing is left exactly if nothing is in P.
LEMMA SublistEmpty ==
  ASSUME NEW S, NEW list \in Seq(S), NEW P
  PROVE  Sublist(list, P) = <<>> <=> \A i \in 1 .. Len(list) : list[i] \notin P
<1> DEFINE L == Len(list)
           T == Seq(S \cap P)
<1>1. L \in Nat /\ \A i \in 1 .. L : list[i] \in S
  BY LenProperties, ElementOfSeq
<1>20. PICK c : Steps(S, list, P, c)
  BY SublistSteps
<1>2. /\ c \in [0 .. L -> T]
      /\ c[0] = <<>>
      /\ \A i \in 1 .. L :
            c[i] = IF list[i] \in P THEN Append(c[i - 1], list[i]) ELSE c[i - 1]
      /\ c[L] = Sublist(list, P)
  BY <1>20 DEF Steps
<1>3. \A u \in T, y \in S \cap P : Append(u, y) # <<>>
  <2> TAKE u \in T, y \in S \cap P
  <2>1. Len(Append(u, y)) = Len(u) + 1 /\ Len(u) \in Nat /\ Len(<<>>) = 0
    BY AppendProperties, LenProperties
  <2> QED BY <2>1
<1> HIDE DEF L, T
<1> DEFINE none(i) == \A j \in 1 .. i : list[j] \notin P
<1>4. \A i \in 0 .. L : c[i] = <<>> <=> none(i)
  <2> DEFINE Bad == {i \in 0 .. L : ~ (c[i] = <<>> <=> none(i))}
  <2>1. Bad \subseteq Nat
    BY <1>1
  <2>2. ASSUME Bad # {} PROVE FALSE
    <3>1. PICK k \in Bad : \A l \in Bad : k <= l
      <4> HIDE DEF Bad
      <4> QED BY <2>1, <2>2, LeastElement
    <3>2. k \in 0 .. L /\ ~ (c[k] = <<>> <=> none(k))
      BY <3>1
    <3>3. k # 0
      <4>1. none(0)
        OBVIOUS
      <4> QED BY <1>2, <3>2, <4>1
    <3>4. k - 1 \in 0 .. L /\ k \in 1 .. L /\ ~ (k <= k - 1)
      BY <1>1, <3>2, <3>3
    <3>5. c[k - 1] = <<>> <=> none(k - 1)
      BY <3>1, <3>4
    <3>6. none(k) <=> none(k - 1) /\ list[k] \notin P
      <4>1. \A j \in 1 .. k : j = k \/ j \in 1 .. k - 1
        BY <1>1, <3>4
      <4>2. \A j \in 1 .. k - 1 : j \in 1 .. k
        BY <1>1, <3>4
      <4>3. k \in 1 .. k
        BY <1>1, <3>4
      <4> QED BY <4>1, <4>2, <4>3
    <3>7. c[k - 1] \in T /\ list[k] \in S
      BY <1>1, <1>2, <3>4
    <3> HIDE DEF none
    <3> QED BY <1>2, <1>3, <3>2, <3>4, <3>5, <3>6, <3>7
  <2> QED BY <2>2
<1>5. L \in 0 .. L
  BY <1>1
<1> QED BY <1>2, <1>4, <1>5 DEF L

=============================================================================
