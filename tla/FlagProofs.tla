----------------------------- MODULE FlagProofs -----------------------------
(***************************************************************************)
(* The flags of the parser's scope follow the calls being made, on every   *)
(* text without an error: FlagsFollowCalls of Parser.                      *)
(*                                                                         *)
(* What the stack says a flag is (FlagOf) is compared with what the scope  *)
(* has (Agree), and with what the entries that will put a flag back have   *)
(* saved (FlagLocal), in every function on the stack. After an error       *)
(* allowIn may be left off by the head of a for, in the function that has  *)
(* the error only: D holds the depths of the functions where it was not,   *)
(* and a parser put back to a state before the error is back at a depth of *)
(* which D says that nothing was lost, for between a statement and an      *)
(* expression it is part of lies a function (Layered).                     *)
(***************************************************************************)
EXTENDS ParserProofs
-----------------------------------------------------------------------------
(* What the stack says of the flags *)

Toggles  == Tracked \ {"labels"}
Switches == {"allowIn", "inIteration", "inSwitch"}

\* The flags a call turned on for the calls above it, and will put back.
Sets(e) ==
    IF e.at = "PutBack" THEN DOMAIN e.flags \cap Tracked
    ELSE IF e.at \in ParamKinds THEN {"inFuncParams"} ELSE {}

\* The entries of the function on top, down to its end.
Own(t)     == {i \in 1 .. Len(t) : \A j \in Enders(t) : i <= j}
Held(t, f) == \E i \in Own(t) : f \in Sets(t[i])
Blocked(t) == \E i \in Own(t) : /\ t[i].at \in Heads
                                /\ \A j \in Own(t) : "allowIn" \in Sets(t[j]) => i < j
Labels(t)  == {i \in Own(t) : t[i].at = "LabelledMade"}
Rank(t, i) == Cardinality({j \in Labels(t) : i <= j})

On(t, f) ==
    CASE f = "inFunction" -> Depth(t) # 0
      [] f = "allowIn"    -> ~Blocked(t)
      [] OTHER            -> Held(t, f)
FlagOf(t, f) == IF On(t, f) THEN TRUE ELSE FALSE

Named(list, t) ==
    /\ IsList(list) /\ Len(list) = Cardinality(Labels(t))
    /\ \A i \in Labels(t) : list[Rank(t, i)] = t[i].label.name

LEMMA GrownOwn ==
    ASSUME NEW u, NEW t, Grown(u, t), \A e \in Added(u, t) : e.at # "FunctionEnd",
           NEW k, k = Len(u) - Len(t)
    PROVE  /\ k \in Nat /\ Len(t) \in Nat
           /\ \A i \in Own(u) : \/ i \in 1 .. k /\ u[i] \in Added(u, t)
                                \/ i - k \in Own(t) /\ u[i] = t[i - k] /\ i = (i - k) + k
           /\ \A i \in Own(t) : i + k \in Own(u) /\ u[i + k] = t[i] /\ i \in 1 .. Len(t)
           /\ \A i \in 1 .. k : i \in Own(u) /\ u[i] \in Added(u, t)
<1>1. /\ k \in Nat /\ Len(t) \in Nat /\ Len(u) \in Nat
      /\ \A i \in 1 .. Len(u) :
            \/ i \in 1 .. k /\ u[i] \in Added(u, t)
            \/ i - k \in 1 .. Len(t) /\ u[i] = t[i - k]
      /\ \A i \in 1 .. Len(t) : i + k \in 1 .. Len(u) /\ u[i + k] = t[i]
  BY GrownParts
<1>2. \A j \in Enders(u) : j - k \in Enders(t)
  BY <1>1 DEF Enders
<1>3. \A j \in Enders(t) : j + k \in Enders(u) /\ j \in 1 .. Len(t)
  BY <1>1 DEF Enders
<1>4. \A j \in Enders(u) : j \in 1 .. Len(u)
  BY DEF Enders
<1>5. \A i \in 1 .. k : i \in Own(u) /\ u[i] \in Added(u, t)
  <2>1. \A i \in 1 .. k : i \in 1 .. Len(u) /\ u[i] \in Added(u, t)
    BY <1>1 DEF Added
  <2>2. \A i \in 1 .. k : \A j \in Enders(u) : i <= j
    BY <1>1, <1>2, <1>4 DEF Enders
  <2> QED BY <2>1, <2>2 DEF Own
<1>6. ASSUME NEW i \in Own(t)
      PROVE  i + k \in Own(u) /\ u[i + k] = t[i] /\ i \in 1 .. Len(t)
  <2>1. i \in 1 .. Len(t) /\ \A j \in Enders(t) : i <= j
    BY DEF Own
  <2>2. \A j \in Enders(u) : i + k <= j
    BY <1>1, <1>2, <1>4, <2>1
  <2> QED BY <1>1, <2>1, <2>2 DEF Own
<1>7. ASSUME NEW i \in Own(u)
      PROVE  \/ i \in 1 .. k /\ u[i] \in Added(u, t)
             \/ i - k \in Own(t) /\ u[i] = t[i - k] /\ i = (i - k) + k
  <2>1. i \in 1 .. Len(u) /\ \A j \in Enders(u) : i <= j
    BY DEF Own
  <2>2. \A j \in Enders(t) : i - k <= j
    BY <1>1, <1>3, <2>1
  <2> QED BY <1>1, <2>1, <2>2 DEF Own
<1> QED BY <1>1, <1>5, <1>6, <1>7

LEMMA GrownHeld ==
    ASSUME NEW u, NEW t, Grown(u, t), \A e \in Added(u, t) : e.at # "FunctionEnd"
    PROVE  /\ \A f : Held(u, f) <=> Held(t, f) \/ \E e \in Added(u, t) : f \in Sets(e)
           /\ (\A e \in Added(u, t) : "allowIn" \notin Sets(e))
              => (Blocked(u) <=> Blocked(t) \/ \E e \in Added(u, t) : e.at \in Heads)
           /\ (\E e \in Added(u, t) : "allowIn" \in Sets(e))
              /\ (\A e \in Added(u, t) : e.at \notin Heads)
              => ~Blocked(u)
<1>1. PICK k : k = Len(u) - Len(t)
  OBVIOUS
<1>2. /\ k \in Nat /\ Len(t) \in Nat
      /\ \A i \in Own(u) : \/ i \in 1 .. k /\ u[i] \in Added(u, t)
                           \/ i - k \in Own(t) /\ u[i] = t[i - k] /\ i = (i - k) + k
      /\ \A i \in Own(t) : i + k \in Own(u) /\ u[i + k] = t[i] /\ i \in 1 .. Len(t)
      /\ \A i \in 1 .. k : i \in Own(u) /\ u[i] \in Added(u, t)
  BY <1>1, GrownOwn
<1>3. \A e \in Added(u, t) : \E i \in 1 .. k : e = u[i] /\ i \in Own(u)
  BY <1>1, <1>2 DEF Added
<1>4. \A i \in Own(u) : i \in 1 .. Len(u)
  BY DEF Own
<1>5. \A f : Held(u, f) <=> Held(t, f) \/ \E e \in Added(u, t) : f \in Sets(e)
  BY <1>2, <1>3 DEF Held
<1>6. ASSUME \A e \in Added(u, t) : "allowIn" \notin Sets(e)
      PROVE  Blocked(u) <=> Blocked(t) \/ \E e \in Added(u, t) : e.at \in Heads
  <2>1. ASSUME Blocked(u) PROVE Blocked(t) \/ \E e \in Added(u, t) : e.at \in Heads
    <3>1. PICK i \in Own(u) : /\ u[i].at \in Heads
                              /\ \A j \in Own(u) : "allowIn" \in Sets(u[j]) => i < j
      BY <2>1 DEF Blocked
    <3>2. CASE i \in 1 .. k /\ u[i] \in Added(u, t)
      BY <3>1, <3>2
    <3>3. CASE i - k \in Own(t) /\ u[i] = t[i - k] /\ i = (i - k) + k
      <4>1. \A j \in Own(t) : "allowIn" \in Sets(t[j]) => i < j + k
        BY <1>2, <3>1
      <4>2. i \in Int
        BY <1>4, <3>1
      <4>3. \A j \in Own(t) : "allowIn" \in Sets(t[j]) => i - k < j
        BY <1>2, <4>1, <4>2
      <4> QED BY <3>1, <3>3, <4>3 DEF Blocked
    <3> QED BY <1>2, <3>2, <3>3
  <2>2. ASSUME Blocked(t) PROVE Blocked(u)
    <3>1. PICK i \in Own(t) : /\ t[i].at \in Heads
                              /\ \A j \in Own(t) : "allowIn" \in Sets(t[j]) => i < j
      BY <2>2 DEF Blocked
    <3>2. \A j \in Own(u) : "allowIn" \in Sets(u[j]) => i + k < j
      <4> SUFFICES ASSUME NEW j \in Own(u), "allowIn" \in Sets(u[j]) PROVE i + k < j
        OBVIOUS
      <4>1. j - k \in Own(t) /\ u[j] = t[j - k] /\ j \in 1 .. Len(u)
        BY <1>2, <1>4, <1>6
      <4>2. "allowIn" \in Sets(t[j - k])
        BY <4>1
      <4>3. i < j - k
        BY <3>1, <4>1, <4>2
      <4>4. i \in 1 .. Len(t)
        BY DEF Own
      <4> QED BY <1>2, <4>1, <4>3, <4>4
    <3> QED BY <1>2, <3>1, <3>2 DEF Blocked
  <2>3. ASSUME NEW e \in Added(u, t), e.at \in Heads PROVE Blocked(u)
    <3>1. PICK i \in 1 .. k : e = u[i] /\ i \in Own(u)
      BY <1>3
    <3>2. \A j \in Own(u) : "allowIn" \in Sets(u[j]) => i < j
      <4> SUFFICES ASSUME NEW j \in Own(u), "allowIn" \in Sets(u[j]) PROVE i < j
        OBVIOUS
      <4>1. j - k \in Own(t) /\ j \in Int
        BY <1>2, <1>4, <1>6
      <4>2. j - k \in 1 .. Len(t)
        BY <1>2, <4>1
      <4> QED BY <1>2, <3>1, <4>1, <4>2
    <3> QED BY <2>3, <3>1, <3>2 DEF Blocked
  <2> QED BY <2>1, <2>2, <2>3
<1>7. ASSUME NEW e \in Added(u, t), "allowIn" \in Sets(e),
             \A x \in Added(u, t) : x.at \notin Heads
      PROVE  ~Blocked(u)
  <2>1. PICK j \in 1 .. k : e = u[j] /\ j \in Own(u)
    BY <1>3
  <2>2. \A i \in Own(u) : u[i].at \in Heads => i - k \in 1 .. Len(t) /\ i \in Int
    BY <1>2, <1>4, <1>7
  <2>3. \A i \in Own(u) : u[i].at \in Heads => ~(i < j)
    BY <1>2, <2>1, <2>2
  <2> QED BY <1>7, <2>1, <2>3 DEF Blocked
<1> QED BY <1>5, <1>6, <1>7

LEMMA LabelsFinite ==
    ASSUME NEW t, Len(t) \in Nat
    PROVE  /\ IsFiniteSet(Labels(t)) /\ Cardinality(Labels(t)) \in Nat
           /\ Labels(t) \in SUBSET (1 .. Len(t))
           /\ \A i \in Labels(t) : Rank(t, i) \in 1 .. Cardinality(Labels(t))
<1>1. Labels(t) \in SUBSET (1 .. Len(t))
  BY DEF Labels, Own
<1>2. IsFiniteSet(Labels(t)) /\ Cardinality(Labels(t)) \in Nat
  <2>1. PICK n \in Nat : n = Len(t)
    OBVIOUS
  <2>2. Labels(t) \in SUBSET (1 .. n)
    BY <1>1, <2>1
  <2> QED BY <2>2, ShiftedSet
<1>3. ASSUME NEW i \in Labels(t) PROVE Rank(t, i) \in 1 .. Cardinality(Labels(t))
  <2> DEFINE A == {j \in Labels(t) : i <= j}
  <2>1. A \subseteq Labels(t) /\ i \in A
    BY <1>1
  <2> HIDE DEF A
  <2>2. IsFiniteSet(A) /\ Cardinality(A) <= Cardinality(Labels(t))
    BY <1>2, <2>1, FS_Subset
  <2>3. Cardinality(A) \in Nat /\ Cardinality(A) # 0
    BY <2>1, <2>2, FS_CardinalityType, FS_EmptySet
  <2>4. Cardinality(A) \in 1 .. Cardinality(Labels(t))
    BY <1>2, <2>2, <2>3
  <2> QED BY <2>4 DEF Rank, A
<1> QED BY <1>1, <1>2, <1>3

LEMMA GrownNamed ==
    ASSUME NEW u, NEW t, Grown(u, t),
           \A e \in Added(u, t) : e.at # "FunctionEnd" /\ e.at # "LabelledMade"
    PROVE  \A list : Named(list, u) <=> Named(list, t)
<1>0. PICK k : k = Len(u) - Len(t)
  OBVIOUS
<1>1. PICK n : n = Len(t)
  OBVIOUS
<1>9. \A e \in Added(u, t) : e.at # "FunctionEnd"
  OBVIOUS
<1>2. /\ k \in Nat /\ Len(t) \in Nat
      /\ \A i \in Own(u) : \/ i \in 1 .. k /\ u[i] \in Added(u, t)
                           \/ i - k \in Own(t) /\ u[i] = t[i - k] /\ i = (i - k) + k
      /\ \A i \in Own(t) : i + k \in Own(u) /\ u[i + k] = t[i] /\ i \in 1 .. Len(t)
  BY <1>0, <1>9, GrownOwn
<1>3. \A i \in Labels(u) : i - k \in Labels(t) /\ u[i] = t[i - k] /\ i = (i - k) + k
  BY <1>2 DEF Labels
<1>4. \A i \in Labels(t) : i + k \in Labels(u) /\ u[i + k] = t[i] /\ i \in 1 .. n
  BY <1>1, <1>2 DEF Labels
<1>5. Labels(u) = {i + k : i \in Labels(t)}
  BY <1>3, <1>4
<1>6. Cardinality(Labels(u)) = Cardinality(Labels(t))
  <2>1. Labels(t) \in SUBSET (1 .. n)
    BY <1>4
  <2>2. n \in Nat
    BY <1>1, <1>2
  <2>3. Cardinality({i + k : i \in Labels(t)}) = Cardinality(Labels(t))
    BY <1>2, <2>1, <2>2, ShiftedSet
  <2> QED BY <1>5, <2>3
<1>7. ASSUME NEW i \in Labels(t) PROVE Rank(u, i + k) = Rank(t, i)
  <2> DEFINE A == {j \in Labels(t) : i <= j}
             B == {j \in Labels(u) : i + k <= j}
  <2>1. i \in Int
    BY <1>4
  <2>2. \A j \in Labels(t) : (i <= j <=> i + k <= j + k)
    <3>1. \A j \in Labels(t) : j \in Int
      BY <1>4
    <3> HIDE DEF A, B
    <3> QED BY <1>2, <2>1, <3>1
  <2>3. B = {j + k : j \in A}
    BY <1>5, <2>2
  <2>4. A \in SUBSET (1 .. n)
    BY <1>4
  <2> HIDE DEF A, B
  <2>5. Cardinality(B) = Cardinality(A)
    BY <1>1, <1>2, <2>3, <2>4, ShiftedSet
  <2> QED BY <2>5 DEF Rank, A, B
<1>8. ASSUME NEW list PROVE Named(list, u) <=> Named(list, t)
  <2>1. ASSUME Named(list, u) PROVE Named(list, t)
    BY <1>4, <1>6, <1>7, <2>1 DEF Named
  <2>2. ASSUME Named(list, t) PROVE Named(list, u)
    <3>1. \A i \in Labels(u) : list[Rank(u, i)] = u[i].label.name
      <4> SUFFICES ASSUME NEW i \in Labels(u) PROVE list[Rank(u, i)] = u[i].label.name
        OBVIOUS
      <4>1. PICK j \in Labels(t) : i = j + k
        BY <1>5
      <4>2. u[i] = t[j] /\ Rank(u, i) = Rank(t, j)
        BY <1>4, <1>7, <4>1
      <4> QED BY <2>2, <4>2 DEF Named
    <3> QED BY <1>6, <2>2, <3>1 DEF Named
  <2> QED BY <2>1, <2>2
<1> QED BY <1>8
-----------------------------------------------------------------------------
(* Entries put on the stack *)

\* The flag with one more entry on the stack.
Over(e, t, f) ==
    IF f \in Sets(e) THEN TRUE
    ELSE IF f = "allowIn" /\ e.at \in Heads THEN FALSE ELSE FlagOf(t, f)

Mild(e) ==
    /\ "at" \in DOMAIN e /\ e.at \notin Heads \cup ParamKinds \cup {"FunctionEnd", "LabelledMade"}
    /\ e.at = "PutBack" => DOMAIN e.flags \cap Tracked = {}

Alike(u, t) ==
    /\ Depth(u) = Depth(t)
    /\ \A f \in Toggles : FlagOf(u, f) = FlagOf(t, f)
    /\ \A list : Named(list, u) <=> Named(list, t)

LEMMA MildAlike ==
    ASSUME NEW u, NEW t, Grown(u, t), \A e \in Added(u, t) : Mild(e)
    PROVE  Alike(u, t) /\ Depth(t) \in Nat
<1>1. \A e \in Added(u, t) : e.at # "FunctionEnd" /\ e.at # "LabelledMade"
  BY DEF Mild
<1>2. \A e \in Added(u, t) : Sets(e) = {} /\ e.at \notin Heads
  BY DEF Mild, Sets
<1>3. Depth(u) = Depth(t) /\ Depth(t) \in Nat
  BY <1>1, DepthOver
<1>4. \A list : Named(list, u) <=> Named(list, t)
  BY <1>1, GrownNamed
<1>5. /\ \A f : Held(u, f) <=> Held(t, f)
      /\ Blocked(u) <=> Blocked(t)
  BY <1>1, <1>2, GrownHeld
<1>6. \A f \in Toggles : On(u, f) <=> On(t, f)
  BY <1>3, <1>5 DEF On
<1>7. \A f \in Toggles : FlagOf(u, f) = FlagOf(t, f)
  BY <1>6 DEF FlagOf
<1> QED BY <1>3, <1>4, <1>7 DEF Alike

LEMMA OverTop ==
    ASSUME NEW u, NEW t, NEW e, Grown(u, t), Added(u, t) = {e}, e.at # "FunctionEnd",
           Sets(e) \subseteq Switches \cup {"inFuncParams"}
    PROVE  /\ Depth(u) = Depth(t) /\ Depth(t) \in Nat
           /\ \A f \in Toggles : FlagOf(u, f) = Over(e, t, f)
           /\ e.at # "LabelledMade" => \A list : Named(list, u) <=> Named(list, t)
<1>1. \A x \in Added(u, t) : x.at # "FunctionEnd"
  OBVIOUS
<1>2. Depth(u) = Depth(t) /\ Depth(t) \in Nat
  BY <1>1, DepthOver
<1>3. e.at # "LabelledMade" => \A list : Named(list, u) <=> Named(list, t)
  BY <1>1, GrownNamed
<1>4. \A f : Held(u, f) <=> Held(t, f) \/ f \in Sets(e)
  BY <1>1, GrownHeld
<1>5. "allowIn" \in Sets(e) => e.at \notin Heads
  BY DEF Sets, Heads, ParamKinds
<1>6. /\ "allowIn" \in Sets(e) => ~Blocked(u)
      /\ "allowIn" \notin Sets(e) => (Blocked(u) <=> Blocked(t) \/ e.at \in Heads)
  BY <1>1, <1>5, GrownHeld
<1>7. ASSUME NEW f \in Toggles PROVE FlagOf(u, f) = Over(e, t, f)
  <2>1. CASE f = "inFunction"
    <3>1. f \notin Sets(e)
      BY <2>1 DEF Switches
    <3> QED BY <1>2, <2>1, <3>1 DEF FlagOf, On, Over
  <2>2. CASE f = "allowIn"
    BY <1>6, <2>2 DEF FlagOf, On, Over
  <2>3. CASE f # "inFunction" /\ f # "allowIn"
    BY <1>4, <2>3 DEF FlagOf, On, Over
  <2> QED BY <2>1, <2>2, <2>3
<1> QED BY <1>2, <1>3, <1>7

-----------------------------------------------------------------------------
(* The part of a stack below some entry *)

LEMMA AfterIn ==
    ASSUME NEW S, NEW t \in Seq(S), NEW m \in 0 .. Len(t)
    PROVE  /\ After(t, m) \in Seq(S) /\ Len(After(t, m)) = Len(t) - m
           /\ \A j \in 1 .. Len(t) - m : After(t, m)[j] = t[m + j]
BY SubSeqProperties DEF After

LEMMA AfterList ==
    ASSUME NEW t, IsList(t), NEW i \in 0 .. Len(t)
    PROVE  /\ IsList(After(t, i)) /\ Len(After(t, i)) = Len(t) - i
           /\ \A j \in 1 .. Len(t) - i : After(t, i)[j] = t[i + j]
           /\ \A j \in 0 .. Len(t) - i : After(After(t, i), j) = After(t, i + j)
<1>1. PICK S, n : S = Range(t) /\ n = Len(t)
  OBVIOUS
<1>2. t \in Seq(S) /\ n \in Nat
  BY <1>1, ListElim
<1>3. PICK s : s = After(t, i)
  OBVIOUS
<1>4. s \in Seq(S) /\ Len(s) = n - i /\ \A j \in 1 .. n - i : s[j] = t[i + j]
  BY <1>1, <1>2, <1>3, AfterIn
<1>5. IsList(s)
  BY <1>4, ListIntro
<1>6. ASSUME NEW j \in 0 .. n - i PROVE After(s, j) = After(t, i + j)
  <2>1. j \in 0 .. Len(s) /\ i + j \in 0 .. Len(t) /\ (n - i) - j = n - (i + j)
    BY <1>1, <1>2, <1>4
  <2>2. PICK k : k = n - (i + j)
    OBVIOUS
  <2>3. /\ After(s, j) \in Seq(S) /\ Len(After(s, j)) = k
        /\ \A m \in 1 .. k : After(s, j)[m] = s[j + m]
    <3>1. k = Len(s) - j
      BY <1>4, <2>1, <2>2
    <3>2. /\ After(s, j) \in Seq(S) /\ Len(After(s, j)) = Len(s) - j
          /\ \A m \in 1 .. Len(s) - j : After(s, j)[m] = s[j + m]
      <4>1. s \in Seq(S) /\ j \in 0 .. Len(s)
        BY <1>4, <2>1
      <4> QED BY <4>1, AfterIn
    <3> QED BY <3>1, <3>2, Zenon
  <2>4. /\ After(t, i + j) \in Seq(S) /\ Len(After(t, i + j)) = k
        /\ \A m \in 1 .. k : After(t, i + j)[m] = t[(i + j) + m]
    BY <1>1, <1>2, <2>1, <2>2, AfterIn
  <2>5. ASSUME NEW m \in 1 .. k PROVE s[j + m] = t[(i + j) + m]
    <3>1. j + m \in 1 .. n - i /\ i + (j + m) = (i + j) + m
      BY <1>1, <1>2, <2>2
    <3> QED BY <1>4, <3>1
  <2>6. \A m \in 1 .. k : After(s, j)[m] = After(t, i + j)[m]
    BY <2>3, <2>4, <2>5
  <2> QED BY <2>3, <2>4, <2>6, SeqEqual
<1> QED BY <1>1, <1>3, <1>4, <1>5, <1>6

\* A stack cut between the entries put on another.
LEMMA GrownCut ==
    ASSUME NEW u, NEW t, Grown(u, t), NEW m \in 0 .. Len(u) - Len(t)
    PROVE  /\ Grown(After(u, m), t)
           /\ Added(After(u, m), t) = {u[i] : i \in m + 1 .. Len(u) - Len(t)}
           /\ Grown(u, After(u, m)) /\ Added(u, After(u, m)) = {u[i] : i \in 1 .. m}
<1>1. PICK k, n : k = Len(u) - Len(t) /\ n = Len(u)
  OBVIOUS
<1>2. /\ k \in Nat /\ n \in Nat /\ Len(t) = n - k /\ Len(t) \in Nat /\ IsList(u) /\ IsList(t)
      /\ After(u, k) = t
      /\ \A i \in 1 .. Len(t) : u[i + k] = t[i] /\ After(u, i + k) = After(t, i)
  <2>1. Len(t) \in Nat /\ Len(u) \in Nat /\ k \in Nat
    BY <1>1, GrownParts
  <2> QED BY <1>1, <2>1 DEF Grown
<1>3. m \in 0 .. n /\ m \in 0 .. k
  BY <1>1, <1>2
<1>4. PICK s : s = After(u, m)
  OBVIOUS
<1>5. /\ IsList(s) /\ Len(s) = n - m
      /\ \A j \in 1 .. n - m : s[j] = u[m + j]
      /\ \A j \in 0 .. n - m : After(s, j) = After(u, m + j)
  BY <1>1, <1>2, <1>3, <1>4, AfterList
<1>6. Len(s) - Len(t) = k - m /\ Len(u) - Len(s) = m /\ k - m \in Nat /\ m \in Nat
  BY <1>1, <1>2, <1>3, <1>5
<1>7. Grown(s, t)
  <2>1. After(s, k - m) = t
    <3>1. k - m \in 0 .. n - m /\ m + (k - m) = k
      BY <1>2, <1>3
    <3> QED BY <1>2, <1>5, <3>1
  <2>2. ASSUME NEW i \in 1 .. Len(t)
        PROVE  s[i + (k - m)] = t[i] /\ After(s, i + (k - m)) = After(t, i)
    <3>1. i + (k - m) \in 1 .. n - m /\ m + (i + (k - m)) = i + k
          /\ i + (k - m) \in 0 .. n - m
      BY <1>2, <1>3
    <3> QED BY <1>2, <1>5, <3>1
  <2> QED BY <1>2, <1>5, <1>6, <2>1, <2>2 DEF Grown
<1>8. Added(s, t) = {u[i] : i \in m + 1 .. k}
  <2>1. \A i \in 1 .. k - m : s[i] = u[m + i] /\ m + i \in m + 1 .. k
    BY <1>2, <1>3, <1>5
  <2>2. \A i \in m + 1 .. k : i - m \in 1 .. k - m /\ m + (i - m) = i
    BY <1>2, <1>3
  <2>3. Added(s, t) = {s[i] : i \in 1 .. k - m}
    BY <1>6 DEF Added
  <2> QED BY <2>1, <2>2, <2>3
<1>9. Grown(u, s)
  <2>1. \A i \in 1 .. n - m : u[i + m] = s[i] /\ After(u, i + m) = After(s, i)
    <3>1. \A i \in 1 .. n - m : i + m = m + i /\ i \in 0 .. n - m
      BY <1>2, <1>3
    <3> QED BY <1>5, <3>1
  <2> QED BY <1>2, <1>4, <1>5, <1>6, <2>1 DEF Grown
<1>10. Added(u, s) = {u[i] : i \in 1 .. m}
  BY <1>6 DEF Added
<1> QED BY <1>1, <1>4, <1>7, <1>8, <1>9, <1>10

\* Below an entry there are no more functions, below the end of one fewer.
LEMMA DepthBelow ==
    ASSUME NEW t, IsList(t), NEW i \in 0 .. Len(t)
    PROVE  /\ Depth(t) \in Nat /\ Depth(After(t, i)) \in Nat
           /\ Depth(After(t, i)) <= Depth(t)
           /\ (\E k \in Enders(t) : k <= i) => Depth(After(t, i)) < Depth(t)
<1>1. PICK s, n : s = After(t, i) /\ n = Len(t)
  OBVIOUS
<1>2. n \in Nat
  BY <1>1, ListElim
<1>3. Len(s) = n - i /\ n - i \in Nat /\ i \in Nat /\ \A j \in 1 .. n - i : s[j] = t[i + j]
  <2>1. Len(s) = Len(t) - i /\ \A j \in 1 .. Len(t) - i : s[j] = t[i + j]
    BY <1>1, AfterList
  <2> QED BY <1>1, <1>2, <2>1
<1> DEFINE B == {j + i : j \in Enders(s)}
<1>4. B \subseteq Enders(t) /\ \A k \in B : ~(k <= i)
  <2>1. \A j \in Enders(s) : j \in 1 .. n - i /\ t[i + j].at = "FunctionEnd"
    BY <1>3 DEF Enders
  <2>2. \A j \in 1 .. n - i : j + i \in 1 .. n /\ j + i = i + j /\ ~(j + i <= i)
    BY <1>2, <1>3
  <2> QED BY <1>1, <2>1, <2>2 DEF Enders
<1>5. Cardinality(B) = Depth(s) /\ Depth(s) \in Nat
  <2>1. Enders(s) \in SUBSET (1 .. n - i)
    BY <1>3 DEF Enders
  <2>2. PICK l \in Nat : l = n - i
    BY <1>3
  <2> HIDE DEF B
  <2>3. Enders(s) \in SUBSET (1 .. l)
    BY <2>1, <2>2
  <2>4. Cardinality({j + i : j \in Enders(s)}) = Cardinality(Enders(s))
        /\ Cardinality(Enders(s)) \in Nat
    BY <1>3, <2>3, ShiftedSet
  <2> QED BY <2>4 DEF Depth, B
<1>6. IsFiniteSet(Enders(t)) /\ Depth(t) \in Nat
  <2>1. Enders(t) \in SUBSET (1 .. n)
    BY <1>1 DEF Enders
  <2> QED BY <1>2, <2>1, ShiftedSet, FS_CardinalityType DEF Depth
<1> HIDE DEF B
<1>7. Cardinality(B) <= Cardinality(Enders(t))
      /\ (Cardinality(B) = Cardinality(Enders(t)) => B = Enders(t))
  BY <1>4, <1>6, FS_Subset
<1>8. (\E k \in Enders(t) : k <= i) => B # Enders(t)
  BY <1>4
<1> QED BY <1>1, <1>5, <1>6, <1>7, <1>8 DEF Depth
-----------------------------------------------------------------------------
(* What the entries of the stack know of the flags *)

\* Where an error left `in` off, nothing is claimed of it: D holds the numbers of the
\* functions in which it is right.
Claimed(f, t, D) == f = "allowIn" => Depth(t) \in D

Agree(s, t, D) ==
    /\ \A f \in Toggles : Claimed(f, t, D) => s[f] = FlagOf(t, f)
    /\ Named(s.labels, t)

FlagLocal(e, t, S, D) ==
    /\ e.at = "PutBack" =>
          \A f \in DOMAIN e.flags \cap Tracked :
             f \in Switches /\ (Claimed(f, t, D) => e.flags[f] = FlagOf(t, f))
    /\ e.at \in ParamKinds =>
          DOMAIN e.flags = {"inFuncParams"} /\ e.flags["inFuncParams"] = FlagOf(t, "inFuncParams")
    /\ e.at \in Heads => (Claimed("allowIn", t, D) => e.allowIn = FlagOf(t, "allowIn"))
    /\ e.at \in StateKinds => (~e.state.errors => 0 .. Depth(t) \subseteq D)
    /\ e.at = "FunctionEnd" => Agree(S[Len(S) - Depth(t)], t, D)

FlagFrames(t, S, D) == \A i \in 1 .. Len(t) : FlagLocal(t[i], After(t, i), S, D)

\* Between a statement and an expression it is part of lies a function.
Layered(t) ==
    \A i, j \in 1 .. Len(t) :
       t[i].at \in StmtKinds /\ t[j].at \in StateKinds /\ i < j
       => \E k \in Enders(t) : i < k /\ k < j

FlagsInv(q, t, D) ==
    /\ FlagFrames(t, q.scopes, D) /\ Agree(q.scopes[1], t, D)
    /\ ~q.errors => 0 .. Depth(t) \subseteq D

LEMMA LocalAlike ==
    ASSUME NEW u, NEW t, Alike(u, t)
    PROVE  /\ \A e, S, D : FlagLocal(e, t, S, D) => FlagLocal(e, u, S, D)
           /\ \A s, D : Agree(s, u, D) <=> Agree(s, t, D)
<1>1. /\ Depth(u) = Depth(t)
      /\ \A f \in Toggles : FlagOf(u, f) = FlagOf(t, f)
      /\ \A list : Named(list, u) <=> Named(list, t)
  BY DEF Alike
<1>2. \A f, D : Claimed(f, u, D) <=> Claimed(f, t, D)
  BY <1>1 DEF Claimed
<1>3. \A s, D : Agree(s, u, D) <=> Agree(s, t, D)
  BY <1>1, <1>2 DEF Agree
<1>4. /\ \A f \in Switches : FlagOf(u, f) = FlagOf(t, f)
      /\ FlagOf(u, "inFuncParams") = FlagOf(t, "inFuncParams")
      /\ FlagOf(u, "allowIn") = FlagOf(t, "allowIn")
  BY <1>1 DEF Switches, Toggles, Tracked
<1>5. ASSUME NEW e, NEW S, NEW D, FlagLocal(e, t, S, D) PROVE FlagLocal(e, u, S, D)
  BY <1>1, <1>2, <1>3, <1>4, <1>5 DEF FlagLocal
<1> QED BY <1>3, <1>5

LEMMA FramesGrown ==
    ASSUME NEW u, NEW t, Grown(u, t), NEW S, NEW D
    PROVE  FlagFrames(u, S, D) <=>
           /\ FlagFrames(t, S, D)
           /\ \A i \in 1 .. Len(u) - Len(t) : FlagLocal(u[i], After(u, i), S, D)
<1>1. PICK k : k = Len(u) - Len(t)
  OBVIOUS
<1>2. /\ k \in Nat /\ Len(t) \in Nat /\ Len(u) \in Nat
      /\ \A i \in 1 .. Len(u) :
            \/ i \in 1 .. k
            \/ i - k \in 1 .. Len(t) /\ u[i] = t[i - k] /\ After(u, i) = After(t, i - k)
      /\ \A i \in 1 .. Len(t) :
            i + k \in 1 .. Len(u) /\ u[i + k] = t[i] /\ After(u, i + k) = After(t, i)
  BY <1>1, GrownParts
<1>3. \A i \in 1 .. k : i \in 1 .. Len(u)
  BY <1>1, <1>2
<1>4. ASSUME FlagFrames(u, S, D)
      PROVE  FlagFrames(t, S, D) /\ \A i \in 1 .. k : FlagLocal(u[i], After(u, i), S, D)
  <2>1. ASSUME NEW i \in 1 .. Len(t) PROVE FlagLocal(t[i], After(t, i), S, D)
    <3>1. PICK j \in 1 .. Len(u) : u[j] = t[i] /\ After(u, j) = After(t, i)
      BY <1>2
    <3>2. FlagLocal(u[j], After(u, j), S, D)
      BY <1>4 DEF FlagFrames
    <3> QED BY <3>1, <3>2
  <2>2. \A i \in 1 .. k : FlagLocal(u[i], After(u, i), S, D)
    BY <1>3, <1>4 DEF FlagFrames
  <2> QED BY <2>1, <2>2 DEF FlagFrames
<1>5. ASSUME FlagFrames(t, S, D), \A i \in 1 .. k : FlagLocal(u[i], After(u, i), S, D)
      PROVE  FlagFrames(u, S, D)
  <2> SUFFICES ASSUME NEW i \in 1 .. Len(u) PROVE FlagLocal(u[i], After(u, i), S, D)
    BY DEF FlagFrames
  <2>1. CASE i \in 1 .. k
    BY <1>5, <2>1
  <2>2. CASE i - k \in 1 .. Len(t) /\ u[i] = t[i - k] /\ After(u, i) = After(t, i - k)
    <3>1. FlagLocal(t[i - k], After(t, i - k), S, D)
      BY <1>5, <2>2 DEF FlagFrames
    <3> QED BY <2>2, <3>1
  <2> QED BY <1>2, <2>1, <2>2
<1> QED BY <1>1, <1>4, <1>5

LEMMA MildLocal ==
    ASSUME NEW e, Mild(e), NEW t, NEW S, NEW D,
           e.at \in StateKinds => (~e.state.errors => 0 .. Depth(t) \subseteq D)
    PROVE  FlagLocal(e, t, S, D)
BY DEF Mild, FlagLocal

LEMMA MildFrames ==
    ASSUME NEW u, NEW t, Grown(u, t), NEW S, NEW D, FlagFrames(t, S, D),
           \A e \in Added(u, t) :
              /\ Mild(e)
              /\ e.at \in StateKinds => (~e.state.errors => 0 .. Depth(t) \subseteq D)
    PROVE  FlagFrames(u, S, D)
<1> SUFFICES ASSUME NEW i \in 1 .. Len(u) - Len(t)
             PROVE  FlagLocal(u[i], After(u, i), S, D)
  BY FramesGrown
<1>1. u[i] \in Added(u, t) /\ Len(u) - Len(t) \in Nat
  BY DEF Added, Grown
<1>2. i \in 0 .. Len(u) - Len(t)
  BY <1>1
<1>3. Grown(After(u, i), t) /\ \A e \in Added(After(u, i), t) : Mild(e)
  <2>1. \A j \in i + 1 .. Len(u) - Len(t) : j \in 1 .. Len(u) - Len(t)
    BY <1>1
  <2>2. \A j \in i + 1 .. Len(u) - Len(t) : Mild(u[j])
    BY <2>1 DEF Added
  <2> QED BY <1>2, <2>2, GrownCut
<1>4. Depth(After(u, i)) = Depth(t)
  BY <1>3, MildAlike DEF Alike
<1> QED BY <1>1, <1>4, MildLocal

\* The frames do not depend on the scope of the function on top, nor on what is claimed
\* of a function that is not around.
LEMMA FramesAgain ==
    ASSUME NEW t, IsList(t), NEW S, NEW D, FlagFrames(t, S, D), NEW R, NEW C,
           \A d \in 0 .. Depth(t) - 1 : R[Len(R) - d] = S[Len(S) - d],
           \A d \in 0 .. Depth(t) : d \in C => d \in D,
           \A i \in 1 .. Len(t) :
              t[i].at \in StateKinds => (0 .. Depth(After(t, i)) \subseteq D
                                         => 0 .. Depth(After(t, i)) \subseteq C)
    PROVE  FlagFrames(t, R, C)
<1> SUFFICES ASSUME NEW i \in 1 .. Len(t) PROVE FlagLocal(t[i], After(t, i), R, C)
  BY DEF FlagFrames
<1>1. FlagLocal(t[i], After(t, i), S, D)
  BY DEF FlagFrames
<1>2. PICK e, s : e = t[i] /\ s = After(t, i)
  OBVIOUS
<1>3. i \in 0 .. Len(t) /\ Len(t) \in Nat
  BY ListElim
<1>4. Depth(s) \in Nat /\ Depth(t) \in Nat /\ Depth(s) <= Depth(t)
      /\ (e.at = "FunctionEnd" => Depth(s) < Depth(t))
  <2>1. e.at = "FunctionEnd" => \E k \in Enders(t) : k <= i
    BY <1>2, <1>3 DEF Enders
  <2> QED BY <1>2, <1>3, <2>1, DepthBelow
<1>5. \A f : Claimed(f, s, C) => Claimed(f, s, D)
  <2>1. Depth(s) \in C => Depth(s) \in D
    BY <1>4
  <2> QED BY <2>1 DEF Claimed
<1>6. \A r : Agree(r, s, D) => Agree(r, s, C)
  BY <1>5 DEF Agree
<1>7. e.at = "FunctionEnd" => R[Len(R) - Depth(s)] = S[Len(S) - Depth(s)]
  <2>1. e.at = "FunctionEnd" => Depth(s) \in 0 .. Depth(t) - 1
    BY <1>4
  <2> QED BY <2>1
<1>8. e.at \in StateKinds => (0 .. Depth(s) \subseteq D => 0 .. Depth(s) \subseteq C)
  BY <1>2
<1>9. FlagLocal(e, s, S, D)
  BY <1>1, <1>2
<1>10. FlagLocal(e, s, R, C)
  BY <1>5, <1>6, <1>7, <1>8, <1>9 DEF FlagLocal
<1> QED BY <1>2, <1>10
-----------------------------------------------------------------------------
(* Steps seen from the flags *)

\* What r makes of the scope of q.
Tunes(q, r, flags) ==
    /\ Len(r.scopes) = Len(q.scopes)
    /\ \A k \in 2 .. Len(q.scopes) : r.scopes[k] = q.scopes[k]
    /\ \A f \in Tracked :
          r.scopes[1][f] = IF f \in DOMAIN flags THEN flags[f] ELSE q.scopes[1][f]

SetsFew(e) == Sets(e) \subseteq Switches \cup {"inFuncParams"}

LEMMA LocalSets ==
    ASSUME NEW e, NEW t, NEW S, NEW D, FlagLocal(e, t, S, D)
    PROVE  SetsFew(e)
BY DEF FlagLocal, Sets, SetsFew

\* Of the entries put on t, e alone knows of the flags.
Lone(u, t, e) ==
    /\ Grown(u, t) /\ e.at \notin {"FunctionEnd", "LabelledMade"}
    /\ \E m \in 1 .. Len(u) - Len(t) :
          /\ e = u[m]
          /\ \A i \in 1 .. Len(u) - Len(t) :
                i # m => Mild(u[i]) /\ u[i].at \notin StateKinds

LEMMA OneFlagged ==
    ASSUME NEW u, NEW t, NEW e, Lone(u, t, e), NEW R, NEW D, NEW s, FlagFrames(t, R, D),
           FlagLocal(e, t, R, D), Named(s.labels, t),
           \A f \in Toggles : Claimed(f, t, D) => s[f] = Over(e, t, f)
    PROVE  FlagFrames(u, R, D) /\ Agree(s, u, D) /\ Depth(u) = Depth(t)
<1>0. PICK m \in 1 .. Len(u) - Len(t) :
         /\ e = u[m]
         /\ \A i \in 1 .. Len(u) - Len(t) : i # m => Mild(u[i]) /\ u[i].at \notin StateKinds
  BY DEF Lone
<1> Grown(u, t) /\ e.at \notin {"FunctionEnd", "LabelledMade"}
  BY DEF Lone
<1>1. PICK k : k = Len(u) - Len(t)
  OBVIOUS
<1>2. k \in Nat /\ m \in 1 .. k /\ m \in 0 .. k /\ m - 1 \in 0 .. k
  BY <1>0, <1>1 DEF Grown
<1>3. PICK v, w : v = After(u, m) /\ w = After(u, m - 1)
  OBVIOUS
<1>4. Grown(v, t) /\ \A x \in Added(v, t) : Mild(x) /\ x.at \notin StateKinds
  <2>1. Grown(v, t) /\ Added(v, t) = {u[i] : i \in m + 1 .. k}
    BY <1>1, <1>2, <1>3, GrownCut
  <2>2. \A i \in m + 1 .. k : i \in 1 .. k /\ i # m
    BY <1>2
  <2> QED BY <1>0, <1>1, <2>1, <2>2
<1>5. Grown(u, w) /\ \A x \in Added(u, w) : Mild(x) /\ x.at \notin StateKinds
  <2>1. Grown(u, w) /\ Added(u, w) = {u[i] : i \in 1 .. m - 1}
    BY <1>1, <1>2, <1>3, GrownCut
  <2>2. \A i \in 1 .. m - 1 : i \in 1 .. k /\ i # m
    BY <1>2
  <2> QED BY <1>0, <1>1, <2>1, <2>2
<1>6. Grown(w, v) /\ Added(w, v) = {e} /\ Len(w) - Len(v) = 1 /\ w[1] = e /\ After(w, 1) = v
  <2>1. Grown(w, t)
    BY <1>1, <1>2, <1>3, GrownCut
  <2>2. PICK n : n = Len(u)
    OBVIOUS
  <2>3. IsList(u) /\ n \in Nat /\ m - 1 \in 0 .. n /\ 1 \in 1 .. n - (m - 1)
        /\ (m - 1) + 1 = m /\ Len(t) = n - k /\ Len(t) \in Nat
    <3>1. Len(u) \in Nat /\ Len(t) \in Nat /\ IsList(u)
      BY GrownParts DEF Grown
    <3> QED BY <1>1, <1>2, <2>2, <3>1
  <2>4. Len(w) = n - (m - 1) /\ w[1] = u[m] /\ After(w, 1) = After(u, m)
    <3>1. /\ Len(w) = Len(u) - (m - 1)
          /\ \A j \in 1 .. Len(u) - (m - 1) : w[j] = u[(m - 1) + j]
          /\ \A j \in 0 .. Len(u) - (m - 1) : After(w, j) = After(u, (m - 1) + j)
      BY <1>3, <2>2, <2>3, AfterList
    <3>2. 1 \in 0 .. Len(u) - (m - 1)
      BY <2>2, <2>3
    <3> QED BY <2>2, <2>3, <3>1, <3>2
  <2>5. 1 \in 0 .. Len(w) - Len(t)
    BY <1>2, <2>3, <2>4
  <2>6. Grown(w, After(w, 1)) /\ Added(w, After(w, 1)) = {w[i] : i \in 1 .. 1}
    BY <2>1, <2>5, GrownCut
  <2>7. Len(v) = n - m
    <3>1. m \in 0 .. Len(u)
      BY <2>2, <2>3, <1>2
    <3> QED BY <1>3, <2>2, <2>3, <3>1, AfterList
  <2>8. Len(w) - Len(v) = 1
    BY <1>2, <2>3, <2>4, <2>7
  <2>9. {w[i] : i \in 1 .. 1} = {w[1]}
    OBVIOUS
  <2> QED BY <1>0, <1>3, <2>4, <2>6, <2>8, <2>9
<1>7. Alike(v, t) /\ Alike(u, w)
  BY <1>4, <1>5, MildAlike
<1>8. FlagFrames(v, R, D)
  BY <1>4, MildFrames
<1>9. FlagLocal(e, v, R, D) /\ SetsFew(e)
  BY <1>7, LocalAlike, LocalSets
<1>10. FlagFrames(w, R, D)
  <2>1. \A i \in 1 .. Len(w) - Len(v) : FlagLocal(w[i], After(w, i), R, D)
    <3>1. \A i \in 1 .. Len(w) - Len(v) : i = 1
      BY <1>6
    <3> QED BY <1>6, <1>9, <3>1
  <2> QED BY <1>6, <1>8, <2>1, FramesGrown
<1>11. FlagFrames(u, R, D)
  BY <1>5, <1>10, MildFrames
<1>12. /\ Depth(w) = Depth(v)
       /\ \A f \in Toggles : FlagOf(w, f) = Over(e, v, f)
       /\ \A list : Named(list, w) <=> Named(list, v)
  BY <1>6, <1>9, OverTop DEF SetsFew
<1>13. Depth(u) = Depth(t)
  BY <1>7, <1>12 DEF Alike
<1>14. \A f \in Toggles : FlagOf(u, f) = Over(e, t, f)
  BY <1>7, <1>12 DEF Alike, Over
<1>15. Named(s.labels, u)
  BY <1>7, <1>12 DEF Alike
<1>16. \A f : Claimed(f, u, D) <=> Claimed(f, t, D)
  BY <1>13 DEF Claimed
<1>17. Agree(s, u, D)
  BY <1>14, <1>15, <1>16 DEF Agree
<1> QED BY <1>11, <1>13, <1>17

LEMMA NoneFlagged ==
    ASSUME NEW u, NEW t, Grown(u, t), NEW R, NEW D, NEW s, FlagFrames(t, R, D), Agree(s, t, D),
           \A e \in Added(u, t) :
              /\ Mild(e)
              /\ e.at \in StateKinds => (~e.state.errors => 0 .. Depth(t) \subseteq D)
    PROVE  FlagFrames(u, R, D) /\ Agree(s, u, D) /\ Depth(u) = Depth(t)
<1>1. Alike(u, t)
  BY MildAlike
<1> QED BY <1>1, MildFrames, LocalAlike DEF Alike

\* What the invariant says of the entry on top.
LEMMA Before ==
    ASSUME Sound, todo # <<>>, Top.at # "FunctionEnd", NEW D, FlagsInv(p, todo, D)
    PROVE  /\ FlagFrames(Tail(todo), p.scopes, D) /\ FlagLocal(Top, Tail(todo), p.scopes, D)
           /\ Depth(todo) = Depth(Tail(todo))
           /\ \A f \in Toggles :
                 Claimed(f, Tail(todo), D) => p.scopes[1][f] = Over(Top, Tail(todo), f)
           /\ Top.at # "LabelledMade" => Named(p.scopes[1].labels, Tail(todo))
           /\ ~p.errors => 0 .. Depth(Tail(todo)) \subseteq D
<1>1. PICK u, t : u = todo /\ t = Tail(todo)
  OBVIOUS
<1>2. PICK e : e = Top
  OBVIOUS
<1>3. IsList(u) /\ u # <<>> /\ e = Head(u) /\ t = Tail(u)
  BY <1>1, <1>2 DEF Sound, Shape, Top
<1>4. Grown(u, t) /\ Added(u, t) = {e} /\ Len(u) - Len(t) = 1 /\ e = u[1] /\ After(u, 1) = t
  <2>1. Len(t) = Len(u) - 1 /\ Len(u) \in Nat \ {0} /\ e = u[1]
    BY <1>3, Popped
  <2>2. Grown(u, t) /\ Added(u, t) = {e}
    BY <1>3, GrownTail
  <2>3. Len(u) - Len(t) = 1
    BY <2>1
  <2>4. After(u, 1) = t
    BY <2>2, <2>3 DEF Grown
  <2> QED BY <2>1, <2>2, <2>3, <2>4
<1>5. PICK S : S = p.scopes
  OBVIOUS
<1>6. FlagFrames(u, S, D) /\ Agree(S[1], u, D) /\ (~p.errors => 0 .. Depth(u) \subseteq D)
  BY <1>1, <1>5 DEF FlagsInv
<1>7. FlagFrames(t, S, D) /\ FlagLocal(e, t, S, D)
  <2>1. 1 \in 1 .. Len(u) - Len(t)
    BY <1>4
  <2>2. FlagFrames(t, S, D) /\ FlagLocal(u[1], After(u, 1), S, D)
    BY <1>4, <1>6, <2>1, FramesGrown
  <2> QED BY <1>4, <2>2
<1>8. SetsFew(e)
  BY <1>7, LocalSets
<1>9. e.at # "FunctionEnd"
  BY <1>2
<1>10. /\ Depth(u) = Depth(t)
       /\ \A f \in Toggles : FlagOf(u, f) = Over(e, t, f)
       /\ e.at # "LabelledMade" => \A list : Named(list, u) <=> Named(list, t)
  BY <1>4, <1>8, <1>9, OverTop DEF SetsFew
<1>11. \A f \in Toggles : Claimed(f, t, D) => S[1][f] = Over(e, t, f)
  BY <1>6, <1>10 DEF Agree, Claimed
<1>12. e.at # "LabelledMade" => Named(S[1].labels, t)
  BY <1>6, <1>10 DEF Agree
<1>13. ~p.errors => 0 .. Depth(t) \subseteq D
  BY <1>6, <1>10
<1> QED BY <1>1, <1>2, <1>5, <1>7, <1>10, <1>11, <1>12, <1>13
LEMMA FramesKept ==
    ASSUME NEW t, IsList(t), NEW S, NEW R, NEW D, FlagFrames(t, S, D),
           Len(S) = 1 + Depth(t), Len(R) = Len(S), \A k \in 2 .. Len(S) : R[k] = S[k]
    PROVE  FlagFrames(t, R, D)
<1>1. Depth(t) \in Nat
  <2>1. 0 \in 0 .. Len(t)
    BY ListElim
  <2> QED BY <2>1, DepthBelow
<1>2. \A d \in 0 .. Depth(t) - 1 : R[Len(R) - d] = S[Len(S) - d]
  <2>1. \A d \in 0 .. Depth(t) - 1 : Len(S) - d \in 2 .. Len(S)
    BY <1>1
  <2> QED BY <2>1
<1> QED BY <1>2, FramesAgain

\* A step that leaves no flag set for the calls below: what it puts back is right there.
LEMMA TunedBack ==
    ASSUME Sound, todo # <<>>, Top.at \notin {"FunctionEnd", "LabelledMade"},
           Balanced(p, todo), NEW D, FlagsInv(p, todo, D), NEW flags, Tunes(p, p', flags),
           p.errors => p'.errors, p.errors \in BOOLEAN, p'.errors \in BOOLEAN,
           Grown(todo', Tail(todo)),
           \A e \in Added(todo', Tail(todo)) : Mild(e) /\ e.at \notin StateKinds,
           "labels" \notin DOMAIN flags,
           \A f \in Toggles :
              IF f \in DOMAIN flags
              THEN Claimed(f, Tail(todo), D) => flags[f] = FlagOf(Tail(todo), f)
              ELSE Over(Top, Tail(todo), f) = FlagOf(Tail(todo), f)
    PROVE  FlagsInv(p', todo', D)
<1>1. PICK t : t = Tail(todo)
  OBVIOUS
<1>2. PICK u : u = todo'
  OBVIOUS
<1>3. PICK q : q = p'
  OBVIOUS
<1>4. /\ FlagFrames(t, p.scopes, D) /\ Depth(todo) = Depth(t)
      /\ \A f \in Toggles : Claimed(f, t, D) => p.scopes[1][f] = Over(Top, t, f)
      /\ Named(p.scopes[1].labels, t)
      /\ ~p.errors => 0 .. Depth(t) \subseteq D
  BY <1>1, Before
<1>5. Grown(u, t) /\ IsList(t) /\ \A e \in Added(u, t) : Mild(e) /\ e.at \notin StateKinds
  BY <1>1, <1>2 DEF Grown
<1>6. FlagFrames(t, q.scopes, D)
  BY <1>3, <1>4, <1>5, FramesKept DEF Tunes, Balanced
<1>7. \A f \in Toggles : f \in Tracked /\ f # "labels"
  BY DEF Toggles
<1>8. \A f \in Toggles : Claimed(f, t, D) => q.scopes[1][f] = FlagOf(t, f)
  BY <1>1, <1>3, <1>4, <1>7 DEF Tunes
<1>9. q.scopes[1].labels = p.scopes[1].labels
  BY <1>3 DEF Tunes, Tracked
<1>10. Agree(q.scopes[1], t, D)
  BY <1>4, <1>8, <1>9 DEF Agree
<1>11. FlagFrames(u, q.scopes, D) /\ Agree(q.scopes[1], u, D) /\ Depth(u) = Depth(t)
  BY <1>5, <1>6, <1>10, NoneFlagged
<1>12. ~q.errors => 0 .. Depth(u) \subseteq D
  BY <1>3, <1>4, <1>11
<1> QED BY <1>2, <1>3, <1>11, <1>12 DEF FlagsInv

\* A step that sets flags for the calls it makes, with an entry that knows of it.
LEMMA TunedOver ==
    ASSUME Sound, todo # <<>>, Top.at \notin {"FunctionEnd", "LabelledMade"},
           Balanced(p, todo), NEW D, FlagsInv(p, todo, D), NEW flags, Tunes(p, p', flags),
           p.errors => p'.errors, p.errors \in BOOLEAN, p'.errors \in BOOLEAN,
           NEW e, Lone(todo', Tail(todo), e),
           FlagLocal(e, Tail(todo), p.scopes, D),
           "labels" \notin DOMAIN flags,
           \A f \in Toggles :
              IF f \in DOMAIN flags
              THEN Claimed(f, Tail(todo), D) => flags[f] = Over(e, Tail(todo), f)
              ELSE Over(Top, Tail(todo), f) = Over(e, Tail(todo), f)
    PROVE  FlagsInv(p', todo', D)
<1>1. PICK t : t = Tail(todo)
  OBVIOUS
<1>2. PICK u : u = todo'
  OBVIOUS
<1>3. PICK q : q = p'
  OBVIOUS
<1>4. /\ FlagFrames(t, p.scopes, D) /\ Depth(todo) = Depth(t)
      /\ \A f \in Toggles : Claimed(f, t, D) => p.scopes[1][f] = Over(Top, t, f)
      /\ Named(p.scopes[1].labels, t)
      /\ ~p.errors => 0 .. Depth(t) \subseteq D
  BY <1>1, Before
<1>5. Lone(u, t, e) /\ IsList(t)
  <2>1. Lone(u, t, e)
    BY <1>1, <1>2
  <2>2. Grown(u, t)
    BY <2>1 DEF Lone
  <2> QED BY <2>1, <2>2 DEF Grown
<1>6. FlagFrames(t, q.scopes, D)
  BY <1>3, <1>4, <1>5, FramesKept DEF Tunes, Balanced
<1>7. \A f \in Toggles : f \in Tracked /\ f # "labels"
  BY DEF Toggles
<1>8. \A f \in Toggles : Claimed(f, t, D) => q.scopes[1][f] = Over(e, t, f)
  BY <1>1, <1>3, <1>4, <1>7 DEF Tunes
<1>9. q.scopes[1].labels = p.scopes[1].labels
  BY <1>3 DEF Tunes, Tracked
<1>10. Named(q.scopes[1].labels, t)
  BY <1>4, <1>9
<1>11. FlagLocal(e, t, q.scopes, D)
  <2>1. FlagLocal(e, t, p.scopes, D)
    BY <1>1
  <2>2. e.at # "FunctionEnd"
    BY <1>5 DEF Lone
  <2> QED BY <2>1, <2>2 DEF FlagLocal
<1>12. FlagFrames(u, q.scopes, D) /\ Agree(q.scopes[1], u, D) /\ Depth(u) = Depth(t)
  BY <1>5, <1>6, <1>8, <1>10, <1>11, OneFlagged
<1>13. ~q.errors => 0 .. Depth(u) \subseteq D
  BY <1>3, <1>4, <1>12
<1> QED BY <1>2, <1>3, <1>12, <1>13 DEF FlagsInv

-----------------------------------------------------------------------------
(* The scope after the helpers *)

LEMMA TunesQuiet ==
    ASSUME NEW q, NEW r, NEW s, NEW flags
    PROVE  /\ SameFlags(q, q)
           /\ SameFlags(q, r) /\ SameFlags(r, s) => SameFlags(q, s)
           /\ SameFlags(q, r) /\ Tunes(r, s, flags) => Tunes(q, s, flags)
           /\ Tunes(q, r, flags) /\ SameFlags(r, s) => Tunes(q, s, flags)
           /\ SameFlags(q, r) /\ DOMAIN flags \cap Tracked = {} => Tunes(q, r, flags)
BY DEF SameFlags, Tunes

LEMMA TunesWith ==
    ASSUME NEW q, WellFormed(q), IsText, NEW flags
    PROVE  /\ Tunes(q, with(q, flags), flags)
           /\ DOMAIN flags \cap Tracked = {} => SameFlags(q, with(q, flags))
<1>1. Tracked \subseteq FlagNames
  BY DEF Tracked, FlagNames
<1>2. Tunes(q, with(q, flags), flags)
  BY <1>1, WithReads DEF Tunes
<1>3. DOMAIN flags \cap Tracked = {} => SameFlags(q, with(q, flags))
  BY WithReads DEF Quiet, Reads
<1> QED BY <1>2, <1>3
-----------------------------------------------------------------------------
(* Steps on which no flag depends *)

LEMMA FlagsSteady ==
    ASSUME NEW q, NEW r, NEW a, NEW u, NEW t, NEW D, FlagsInv(q, a, D), Balanced(q, a),
           Grown(a, t), \A e \in Added(a, t) : Mild(e),
           Grown(u, t),
           \A e \in Added(u, t) :
              /\ Mild(e)
              /\ e.at \in StateKinds => (~e.state.errors => 0 .. Depth(t) \subseteq D),
           SameFlags(q, r), ~r.errors => 0 .. Depth(t) \subseteq D
    PROVE  FlagsInv(r, u, D)
<1>1. PICK S, R : S = q.scopes /\ R = r.scopes
  OBVIOUS
<1>2. FlagFrames(a, S, D) /\ Agree(S[1], a, D) /\ Len(S) = 1 + Depth(a)
  BY <1>1 DEF FlagsInv, Balanced
<1>3. Alike(a, t)
  BY MildAlike
<1>4. FlagFrames(t, S, D) /\ Agree(S[1], t, D) /\ Len(S) = 1 + Depth(t)
  BY <1>2, <1>3, FramesGrown, LocalAlike DEF Alike
<1>5. /\ Len(R) = Len(S) /\ \A k \in 2 .. Len(S) : R[k] = S[k]
      /\ \A f \in Tracked : R[1][f] = S[1][f]
  BY <1>1 DEF SameFlags
<1>6. FlagFrames(t, R, D)
  BY <1>4, <1>5, FramesKept DEF Grown
<1>7. R[1].labels = S[1].labels /\ \A f \in Toggles : R[1][f] = S[1][f]
  BY <1>5 DEF Tracked, Toggles
<1>8. Agree(R[1], t, D)
  BY <1>4, <1>7 DEF Agree
<1>9. FlagFrames(u, R, D) /\ Agree(R[1], u, D) /\ Depth(u) = Depth(t)
  BY <1>6, <1>8, NoneFlagged
<1> QED BY <1>1, <1>9 DEF FlagsInv

LEMMA MildKinds ==
    /\ \A e : "at" \in DOMAIN e /\ e.at \in ExprKinds \cup PlainStmts \cup ListParts
                                           \cup ListKinds \cup CaseKinds \cup StateKinds
              => Mild(e)
    /\ \A e, top : Calm(e, top) => Mild(e) /\ e.at \notin StateKinds
    /\ \A e : Calmer(e) => Mild(e) /\ e.at \notin StateKinds
<1>1. \A kind \in ExprKinds \cup PlainStmts \cup ListParts \cup ListKinds \cup CaseKinds
                  \cup StateKinds :
         kind \notin Heads \cup ParamKinds \cup {"FunctionEnd", "LabelledMade", "PutBack"}
  BY DEF ExprKinds, PlainStmts, ListParts, ListKinds, CaseKinds, StateKinds, MarkKinds,
         MemberKinds, Heads, ParamKinds
<1>2. \A kind \in ExprKinds \cup PlainStmts \cup ListParts \cup CaseKinds \cup {"PutBack"} :
         kind \notin StateKinds
  BY DEF ExprKinds, PlainStmts, ListParts, CaseKinds, StateKinds, MarkKinds, MemberKinds
<1>3. \A e : "at" \in DOMAIN e /\ e.at \in ExprKinds \cup PlainStmts \cup ListParts
                                           \cup ListKinds \cup CaseKinds \cup StateKinds
             => Mild(e)
  BY <1>1 DEF Mild
<1>4. \A e : "at" \in DOMAIN e /\ e.at = "PutBack" /\ DOMAIN e.flags \cap Tracked = {}
             => Mild(e)
  BY DEF Mild, Heads, ParamKinds
<1>5. "CaseBody" \in CaseKinds
  BY DEF CaseKinds
<1>6. \A e, top : Calm(e, top) => Mild(e) /\ e.at \notin StateKinds
  BY <1>2, <1>3, <1>4, <1>5 DEF Calm
<1>7. \A e : Calmer(e) => Mild(e) /\ e.at \notin StateKinds
  BY <1>2, <1>3, <1>4 DEF Calmer
<1> QED BY <1>3, <1>6, <1>7

LEMMA TopMild ==
    ASSUME Sound, todo # <<>>,
           Top.at \in ExprKinds \cup PlainStmts \cup ListParts
                      \cup ListKinds \cup CaseKinds \cup StateKinds
    PROVE  Mild(Top) /\ Grown(todo, Tail(todo)) /\ Added(todo, Tail(todo)) = {Top}
<1>1. "at" \in DOMAIN Top /\ IsList(todo)
  BY TopPopped DEF Sound, Shape
<1>2. Grown(todo, Tail(todo)) /\ Added(todo, Tail(todo)) = {Top}
  BY <1>1, GrownTail DEF Top
<1> QED BY <1>1, <1>2, MildKinds

LEMMA CalmFlags ==
    ASSUME Sound, Balanced(p, todo), NEW D, FlagsInv(p, todo, D), CalmStep
    PROVE  FlagsInv(p', todo', D)
<1>1. /\ todo # <<>> /\ Top.at \in ExprKinds \cup PlainStmts \cup ListParts
      /\ Further(p, p') /\ SameFlags(p, p')
      /\ Grown(todo', Tail(todo)) /\ \A e \in Added(todo', Tail(todo)) : Calm(e, Top.at)
  BY DEF CalmStep, CalmTops, Reads
<1>2. Mild(Top) /\ Grown(todo, Tail(todo)) /\ Added(todo, Tail(todo)) = {Top}
  BY <1>1, TopMild
<1>3. \A e \in Added(todo', Tail(todo)) : Mild(e) /\ e.at \notin StateKinds
  BY <1>1, MildKinds
<1>4. PICK t, u, r : t = Tail(todo) /\ u = todo' /\ r = p'
  OBVIOUS
<1>5. Depth(todo) = Depth(t)
  BY <1>1, <1>2, <1>4, DepthTop DEF Mild
<1>6. ~r.errors => 0 .. Depth(t) \subseteq D
  <2>1. p.errors => r.errors
    BY <1>1, <1>4 DEF Further
  <2> QED BY <1>5, <2>1 DEF FlagsInv
<1>7. FlagsInv(r, u, D)
  BY <1>1, <1>2, <1>3, <1>4, <1>6, FlagsSteady
<1> QED BY <1>4, <1>7

LEMMA AddedOneTwo ==
    ASSUME NEW u, NEW t, Len(u) - Len(t) \in {1, 2}
    PROVE  \A e \in Added(u, t) : e = u[1] \/ (Len(u) - Len(t) = 2 /\ e = u[2])
BY DEF Added

LEMMA StatementsAdd ==
    ASSUME StatementsStep
    PROVE  \A e \in Added(todo', Tail(todo)) : Mild(e) /\ e.at \notin StateKinds
<1>1. \A e \in Added(todo', Tail(todo)) :
         "at" \in DOMAIN e /\ e.at \in PlainStmts \cup ListKinds \cup CaseKinds
  <2>1. CASE OpensStep \/ TakesStep \/ AddsStep
    <3>1. Len(todo') - Len(Tail(todo)) \in {1, 2}
      BY <2>1 DEF OpensStep, TakesStep, AddsStep
    <3>2. \A e \in Added(todo', Tail(todo)) :
             e = todo'[1] \/ (Len(todo') - Len(Tail(todo)) = 2 /\ e = todo'[2])
      <4>1. PICK u, t : u = todo' /\ t = Tail(todo)
        OBVIOUS
      <4>2. Len(u) - Len(t) \in {1, 2}
        BY <3>1, <4>1
      <4>3. \A e \in Added(u, t) : e = u[1] \/ (Len(u) - Len(t) = 2 /\ e = u[2])
        BY <4>2, AddedOneTwo
      <4> QED BY <4>1, <4>3
    <3>3. /\ "at" \in DOMAIN todo'[1]
          /\ todo'[1].at \in {"NextStatement", "ListedStatement", "Statement"}
      BY <2>1 DEF OpensStep, TakesStep, AddsStep, StatementFrame, Fits
    <3>4. Len(todo') - Len(Tail(todo)) = 2
          => /\ "at" \in DOMAIN todo'[2]
             /\ todo'[2].at \in {"BlockMade", "CaseMade", "ListedStatement"}
      <4>1. CASE AddsStep
        BY <4>1 DEF AddsStep
      <4>2. CASE OpensStep \/ TakesStep
        BY <4>2 DEF OpensStep, TakesStep, StatementFrame, Fits
      <4> QED BY <2>1, <4>1, <4>2
    <3>5. {"NextStatement", "ListedStatement", "Statement", "BlockMade", "CaseMade"}
          \subseteq PlainStmts \cup ListKinds \cup CaseKinds
      BY DEF PlainStmts, ListKinds, CaseKinds
    <3> QED BY <3>2, <3>3, <3>4, <3>5
  <2>2. CASE EndsStep
    BY <2>2 DEF EndsStep
  <2> QED BY <2>1, <2>2 DEF StatementsStep
<1>2. \A e \in Added(todo', Tail(todo)) : Mild(e) /\ e.at \notin StateKinds
  <2>1. (PlainStmts \cup ListKinds \cup CaseKinds) \cap StateKinds = {}
    BY DEF PlainStmts, ListKinds, CaseKinds, StateKinds
  <2> QED BY <1>1, <2>1, MildKinds
<1> QED BY <1>2

LEMMA StatementsFlags ==
    ASSUME Sound, Balanced(p, todo), NEW D, FlagsInv(p, todo, D), StatementsStep
    PROVE  FlagsInv(p', todo', D)
<1>1. /\ todo # <<>> /\ Top.at \in PlainStmts \cup ListKinds \cup CaseKinds
      /\ Further(p, p') /\ SameFlags(p, p') /\ Grown(todo', Tail(todo))
  BY DEF StatementsStep, OpensStep, TakesStep, AddsStep, EndsStep, Quiet, Sized, Reads,
         PlainStmts, ListKinds, CaseKinds
<1>2. Mild(Top) /\ Grown(todo, Tail(todo)) /\ Added(todo, Tail(todo)) = {Top}
  BY <1>1, TopMild
<1>4. \A e \in Added(todo', Tail(todo)) : Mild(e) /\ e.at \notin StateKinds
  BY StatementsAdd
<1>5. PICK t, u, r : t = Tail(todo) /\ u = todo' /\ r = p'
  OBVIOUS
<1>6. Depth(todo) = Depth(t)
  BY <1>1, <1>2, <1>5, DepthTop DEF Mild
<1>7. ~r.errors => 0 .. Depth(t) \subseteq D
  <2>1. p.errors => r.errors
    BY <1>1, <1>5 DEF Further
  <2> QED BY <1>6, <2>1 DEF FlagsInv
<1>8. FlagsInv(r, u, D)
  BY <1>1, <1>2, <1>4, <1>5, <1>7, FlagsSteady
<1> QED BY <1>5, <1>8

LEMMA PatchFlags ==
    ASSUME Sound, Balanced(p, todo), NEW D, FlagsInv(p, todo, D), PatchStep
    PROVE  FlagsInv(p', todo', D)
<1>1. PICK s, d, e : s = Tail(todo) /\ d = Head(s) /\ e = todo'[1]
  OBVIOUS
<1>2. PICK t, u, r : t = Tail(s) /\ u = todo' /\ r = p'
  OBVIOUS
<1>3. /\ todo # <<>> /\ Top.at \in {"Field", "CaseMade"} /\ Further(p, r) /\ SameFlags(p, r)
      /\ s # <<>> /\ d.at \in PatchKinds /\ Grown(u, t) /\ Added(u, t) = {e}
      /\ "at" \in DOMAIN e /\ e.at \in {"ClassEnd", "NextCase"}
  BY <1>1, <1>2 DEF PatchStep, Quiet, Reads
<1>4. {"Field", "CaseMade", "NextMember", "NextCase", "ClassEnd"}
      \subseteq ExprKinds \cup PlainStmts \cup ListParts \cup CaseKinds
  BY DEF PlainStmts, CaseKinds, ListParts, MemberKinds, MarkKinds, ParamKinds, ListKinds
<1>5. Mild(Top) /\ Grown(todo, s) /\ Added(todo, s) = {Top}
  BY <1>1, <1>3, <1>4, TopMild
<1>6. Mild(e) /\ e.at \notin StateKinds
  BY <1>3, <1>4, MildKinds DEF StateKinds
<1>7. Mild(d) /\ Grown(s, t) /\ Added(s, t) = {d}
  <2>1. Shape(s)
    BY <1>1, <1>3, TopPopped
  <2>2. IsList(s) /\ Local(d, t)
    <3>1. IsList(s) /\ s # <<>>
      BY <1>3, <2>1 DEF Shape
    <3>2. Local(Head(s), Tail(s))
      BY <2>1, <3>1, ShapePopped
    <3> QED BY <1>1, <1>2, <3>1, <3>2, Zenon
  <2>3. "at" \in DOMAIN d
    BY <2>2 DEF Local
  <2>4. Grown(s, t) /\ Added(s, t) = {d}
    BY <1>1, <1>2, <1>3, <2>2, GrownTail
  <2> QED BY <1>3, <1>4, <2>3, <2>4, MildKinds DEF PatchKinds
<1>8. Depth(todo) = Depth(s)
  BY <1>1, <1>3, <1>5, DepthTop DEF Mild
<1>9. Depth(s) = Depth(t)
  BY <1>7, MildAlike DEF Alike
<1>10. ~p.errors => 0 .. Depth(s) \subseteq D
  BY <1>8 DEF FlagsInv
<1>11. ~r.errors => 0 .. Depth(t) \subseteq D
  <2>1. p.errors => r.errors
    BY <1>3 DEF Further
  <2> QED BY <1>9, <1>10, <2>1
<1>12. SameFlags(p, p)
  BY DEF SameFlags
<1>13. Grown(s, s) /\ Added(s, s) = {}
  <2>1. IsList(s)
    BY <1>5 DEF Grown
  <2> QED BY <2>1, GrownSelf
<1>14. FlagsInv(p, s, D)
  BY <1>5, <1>10, <1>12, <1>13, FlagsSteady
<1>15. Balanced(p, s)
  BY <1>8 DEF Balanced
<1>16. FlagsInv(r, u, D)
  BY <1>3, <1>6, <1>7, <1>11, <1>14, <1>15, FlagsSteady
<1> QED BY <1>2, <1>16

LEMMA StatesFlags ==
    ASSUME Sound, Balanced(p, todo), NEW D, FlagsInv(p, todo, D), StatesStep
    PROVE  FlagsInv(p', todo', D)
<1>1. PICK t, u, r : t = Tail(todo) /\ u = todo' /\ r = p'
  OBVIOUS
<1>2. /\ todo # <<>> /\ Top.at \in ExprKinds \cup StateKinds
      /\ SameFlags(p, r) /\ Grown(u, t)
  BY <1>1 DEF StatesStep, SavesStep, DropsStep, BackStep, Quiet, Reads, ExprKinds
<1>3. Mild(Top) /\ Grown(todo, t) /\ Added(todo, t) = {Top}
  BY <1>1, <1>2, TopMild
<1>4. Depth(todo) = Depth(t)
  BY <1>1, <1>2, <1>3, DepthTop DEF Mild
<1>5. ~p.errors => 0 .. Depth(t) \subseteq D
  BY <1>4 DEF FlagsInv
<1>6. CASE SavesStep
  <2>1. (p.errors => r.errors) /\ Mark(p).errors = p.errors /\ Mark(r).errors = r.errors
    BY <1>1, <1>6 DEF SavesStep, Quiet, Reads, Further, Mark
  <2>2. /\ Len(u) - Len(t) = 2 /\ "at" \in DOMAIN u[1] /\ u[1].at \in {"Conditional", "Assignment"}
        /\ "at" \in DOMAIN u[2] /\ u[2].at \in StateKinds
        /\ u[2].state = Mark(p) \/ u[2].state = Mark(r)
    BY <1>1, <1>6 DEF SavesStep, Fits
  <2>3. \A e \in Added(u, t) : e = u[1] \/ e = u[2]
    BY <2>2, AddedOneTwo
  <2>4. Mild(u[1]) /\ u[1].at \notin StateKinds /\ Mild(u[2])
    <3>1. {"Conditional", "Assignment"} \subseteq ExprKinds /\ ExprKinds \cap StateKinds = {}
      BY DEF ExprKinds, StateKinds
    <3> QED BY <2>2, <3>1, MildKinds
  <2>5. ~u[2].state.errors => 0 .. Depth(t) \subseteq D
    BY <1>5, <2>1, <2>2
  <2>6. \A e \in Added(u, t) :
           /\ Mild(e)
           /\ e.at \in StateKinds => (~e.state.errors => 0 .. Depth(t) \subseteq D)
    BY <2>3, <2>4, <2>5
  <2>7. ~r.errors => 0 .. Depth(t) \subseteq D
    BY <1>5, <2>1
  <2>8. FlagsInv(r, u, D)
    BY <1>2, <1>3, <2>6, <2>7, FlagsSteady
  <2> QED BY <1>1, <2>8
<1>7. CASE DropsStep \/ BackStep
  <2>1. Top.at \in StateKinds /\ \A e \in Added(u, t) : Mild(e) /\ e.at \notin StateKinds
    BY <1>1, <1>7, MildKinds DEF DropsStep, BackStep
  <2>2. ~r.errors => 0 .. Depth(t) \subseteq D
    <3>1. CASE DropsStep
      <4>1. p.errors => r.errors
        BY <1>1, <3>1 DEF DropsStep, Quiet, Reads, Further
      <4> QED BY <1>5, <4>1
    <3>2. CASE BackStep
      <4>1. r.errors = Top.state.errors
        BY <1>1, <3>2 DEF BackStep
      <4>2. FlagLocal(Top, t, p.scopes, D)
        <5>1. Top.at # "FunctionEnd"
          BY <1>3 DEF Mild
        <5> QED BY <1>1, <1>2, <5>1, Before
      <4> QED BY <2>1, <4>1, <4>2 DEF FlagLocal
    <3> QED BY <1>7, <3>1, <3>2
  <2>3. FlagsInv(r, u, D)
    BY <1>2, <1>3, <2>1, <2>2, FlagsSteady
  <2> QED BY <1>1, <2>3
<1> QED BY <1>6, <1>7 DEF StatesStep
-----------------------------------------------------------------------------
(* Statements and the expressions they are part of *)

LEMMA LayeredOver ==
    ASSUME NEW a, NEW u, NEW t, Layered(a), Grown(a, t), Grown(u, t),
           \/ \A e \in Added(u, t) : e.at \notin StmtKinds
           \/ /\ \A e \in Added(u, t) : e.at \notin StateKinds
              /\ \A e \in Added(a, t) : e.at # "FunctionEnd"
              /\ Len(a) # Len(t) /\ a[1].at \in StmtKinds
    PROVE  Layered(u)
<1>1. PICK k, l : k = Len(u) - Len(t) /\ l = Len(a) - Len(t)
  OBVIOUS
<1>2. /\ k \in Nat /\ l \in Nat /\ Len(t) \in Nat /\ Len(u) = Len(t) + k /\ Len(a) = Len(t) + l
  BY <1>1, GrownParts
<1>3. /\ \A i \in 1 .. Len(u) : \/ i \in 1 .. k /\ u[i] \in Added(u, t)
                                \/ i - k \in 1 .. Len(t) /\ u[i] = t[i - k]
      /\ \A i \in 1 .. Len(t) : i + k \in 1 .. Len(u) /\ u[i + k] = t[i]
  BY <1>1, GrownParts
<1>4. /\ \A i \in 1 .. Len(a) : \/ i \in 1 .. l /\ a[i] \in Added(a, t)
                                \/ i - l \in 1 .. Len(t) /\ a[i] = t[i - l]
      /\ \A i \in 1 .. Len(t) : i + l \in 1 .. Len(a) /\ a[i + l] = t[i]
  BY <1>1, GrownParts
<1>5. \A n \in Enders(t) : n + k \in Enders(u) /\ n \in 1 .. Len(t)
  BY <1>3 DEF Enders
<1> SUFFICES ASSUME NEW i \in 1 .. Len(u), NEW j \in 1 .. Len(u),
                    u[i].at \in StmtKinds, u[j].at \in StateKinds, i < j
             PROVE  \E n \in Enders(u) : i < n /\ n < j
  BY DEF Layered
<1>6. CASE i - k \in 1 .. Len(t) /\ u[i] = t[i - k]
  <2>1. j - k \in 1 .. Len(t) /\ u[j] = t[j - k] /\ i - k < j - k
    BY <1>2, <1>3, <1>6
  <2>2. PICK x, y : x = (i - k) + l /\ y = (j - k) + l
    OBVIOUS
  <2>3. x \in 1 .. Len(a) /\ y \in 1 .. Len(a) /\ a[x] = u[i] /\ a[y] = u[j] /\ x < y /\ l < x
    BY <1>2, <1>4, <1>6, <2>1, <2>2
  <2>4. PICK n \in Enders(a) : x < n /\ n < y
    BY <2>3 DEF Layered
  <2>5. n \in 1 .. Len(a) /\ a[n].at = "FunctionEnd"
    BY DEF Enders
  <2>6. n - l \in 1 .. Len(t) /\ a[n] = t[n - l]
    BY <1>2, <1>4, <2>3, <2>4, <2>5
  <2>7. (n - l) + k \in Enders(u)
    BY <1>5, <2>5, <2>6 DEF Enders
  <2>8. i < (n - l) + k /\ (n - l) + k < j
    BY <1>2, <2>2, <2>4, <2>5
  <2> QED BY <2>7, <2>8
<1>7. CASE i \in 1 .. k /\ u[i] \in Added(u, t)
  <2>1. /\ \A e \in Added(u, t) : e.at \notin StateKinds
        /\ \A e \in Added(a, t) : e.at # "FunctionEnd"
        /\ Len(a) # Len(t) /\ a[1].at \in StmtKinds
    BY <1>7
  <2>2. j - k \in 1 .. Len(t) /\ u[j] = t[j - k]
    BY <1>3, <2>1
  <2>3. PICK y : y = (j - k) + l
    OBVIOUS
  <2>4. 1 \in 1 .. Len(a) /\ y \in 1 .. Len(a) /\ a[y] = u[j] /\ 1 < y
    BY <1>2, <1>4, <2>1, <2>2, <2>3
  <2>5. PICK n \in Enders(a) : 1 < n /\ n < y
    BY <2>1, <2>4 DEF Layered
  <2>6. n \in 1 .. Len(a) /\ a[n].at = "FunctionEnd"
    BY DEF Enders
  <2>7. n - l \in 1 .. Len(t) /\ a[n] = t[n - l]
    BY <1>4, <2>1, <2>6
  <2>8. (n - l) + k \in Enders(u)
    BY <1>5, <2>6, <2>7 DEF Enders
  <2>9. i < (n - l) + k /\ (n - l) + k < j
    BY <1>2, <1>7, <2>3, <2>5, <2>6, <2>7
  <2> QED BY <2>8, <2>9
<1> QED BY <1>3, <1>6, <1>7

\* A function begins.
LEMMA LayeredUnder ==
    ASSUME NEW u, NEW t, Layered(t), Grown(u, t), Len(u) - Len(t) = 2,
           u[1].at \notin StateKinds, u[2].at = "FunctionEnd"
    PROVE  Layered(u)
<1>1. Len(u) \in Nat /\ Len(t) \in Nat /\ Len(u) = Len(t) + 2
  BY GrownParts
<1>2. /\ \A i \in 1 .. Len(u) : i = 1 \/ i = 2 \/ (i - 2 \in 1 .. Len(t) /\ u[i] = t[i - 2])
      /\ \A i \in 1 .. Len(t) : i + 2 \in 1 .. Len(u) /\ u[i + 2] = t[i]
  <2>1. PICK k : k = Len(u) - Len(t)
    OBVIOUS
  <2>2. /\ \A i \in 1 .. Len(u) : i \in 1 .. k \/ (i - k \in 1 .. Len(t) /\ u[i] = t[i - k])
        /\ \A i \in 1 .. Len(t) : i + k \in 1 .. Len(u) /\ u[i + k] = t[i]
    BY <2>1, GrownParts
  <2>3. k = 2
    BY <2>1
  <2> QED BY <2>2, <2>3
<1>3. 2 \in Enders(u) /\ \A n \in Enders(t) : n + 2 \in Enders(u) /\ n \in 1 .. Len(t)
  BY <1>1, <1>2 DEF Enders
<1>4. "FunctionEnd" \notin StmtKinds \cup StateKinds
  BY DEF StmtKinds, StateKinds, PlainStmts, ListKinds, CaseKinds, Heads
<1> SUFFICES ASSUME NEW i \in 1 .. Len(u), NEW j \in 1 .. Len(u),
                    u[i].at \in StmtKinds, u[j].at \in StateKinds, i < j
             PROVE  \E n \in Enders(u) : i < n /\ n < j
  BY DEF Layered
<1>5. j - 2 \in 1 .. Len(t) /\ u[j] = t[j - 2]
  BY <1>2, <1>4
<1>6. CASE i = 1
  <2>1. i < 2 /\ 2 < j
    BY <1>5, <1>6
  <2> QED BY <1>3, <2>1
<1>7. CASE i - 2 \in 1 .. Len(t) /\ u[i] = t[i - 2]
  <2>1. i - 2 < j - 2
    OBVIOUS
  <2>2. PICK n \in Enders(t) : i - 2 < n /\ n < j - 2
    BY <1>5, <1>7, <2>1 DEF Layered
  <2>3. n + 2 \in Enders(u) /\ i < n + 2 /\ n + 2 < j
    BY <1>3, <2>2
  <2> QED BY <2>3
<1>8. i # 2
  BY <1>4
<1> QED BY <1>2, <1>6, <1>7, <1>8

LEMMA TopGrown ==
    ASSUME Sound, todo # <<>>
    PROVE  /\ Grown(todo, Tail(todo)) /\ Added(todo, Tail(todo)) = {Top}
           /\ Len(todo) # Len(Tail(todo)) /\ todo[1] = Top
<1>1. IsList(todo)
  BY DEF Sound, Shape
<1>2. Grown(todo, Tail(todo)) /\ Added(todo, Tail(todo)) = {Top}
  BY <1>1, GrownTail DEF Top
<1>3. Len(todo) # Len(Tail(todo)) /\ todo[1] = Top
  BY <1>1, Popped DEF Top
<1> QED BY <1>2, <1>3

\* Steps of statements, and of anything else.
LEMMA StepLayered ==
    ASSUME Sound, todo # <<>>, Layered(todo), Grown(todo', Tail(todo)),
           \/ \A e \in Added(todo', Tail(todo)) : e.at \notin StmtKinds
           \/ /\ Top.at \in StmtKinds
              /\ \A e \in Added(todo', Tail(todo)) : e.at \notin StateKinds
    PROVE  Layered(todo')
<1>1. "FunctionEnd" \notin StmtKinds
  BY DEF StmtKinds, PlainStmts, ListKinds, CaseKinds, Heads
<1>2. PICK a, t, u : a = todo /\ t = Tail(todo) /\ u = todo'
  OBVIOUS
<1>3. Layered(a) /\ Grown(a, t) /\ Grown(u, t) /\ Added(a, t) = {Top} /\ Len(a) # Len(t)
      /\ a[1] = Top
  BY <1>2, TopGrown
<1>4. \/ \A e \in Added(u, t) : e.at \notin StmtKinds
      \/ Top.at \in StmtKinds /\ \A e \in Added(u, t) : e.at \notin StateKinds
  BY <1>2
<1>5. Layered(u)
  BY <1>1, <1>3, <1>4, LayeredOver
<1> QED BY <1>2, <1>5

LEMMA NoStatement ==
    /\ ExprKinds \cap StmtKinds = {} /\ ListParts \cap StmtKinds = {}
    /\ StateKinds \cap StmtKinds = {} /\ ParamKinds \cap StmtKinds = {}
    /\ "PutBack" \notin StmtKinds /\ "FunctionEnd" \notin StmtKinds
BY DEF ExprKinds, StmtKinds, PlainStmts, ListKinds, CaseKinds, Heads, ListParts, MarkKinds,
       ParamKinds, MemberKinds, StateKinds

LEMMA CalmLayered ==
    ASSUME Sound, Layered(todo), CalmStep
    PROVE  Layered(todo')
<1>1. /\ todo # <<>> /\ Grown(todo', Tail(todo))
      /\ \A e \in Added(todo', Tail(todo)) : Calm(e, Top.at)
  BY DEF CalmStep
<1>2. CASE Top.at \in StmtKinds
  <2>1. \A e \in Added(todo', Tail(todo)) : e.at \notin StateKinds
    BY <1>1, MildKinds
  <2> QED BY <1>1, <1>2, <2>1, StepLayered
<1>3. CASE Top.at \notin StmtKinds
  <2>1. \A e \in Added(todo', Tail(todo)) : e.at \notin StmtKinds
    BY <1>1, <1>3, NoStatement DEF Calm
  <2> QED BY <1>1, <2>1, StepLayered
<1> QED BY <1>2, <1>3

\* A step of a statement that sets flags.
LEMMA OnLayered ==
    ASSUME Sound, Layered(todo), OnStep, Top.at \in StmtKinds
    PROVE  Layered(todo')
<1>1. todo # <<>> /\ Grown(todo', Tail(todo)) /\ \A e \in Added(todo', Tail(todo)) : Kept(e)
  BY DEF OnStep
<1>2. \A e \in Added(todo', Tail(todo)) : e.at \notin StateKinds
  BY <1>1 DEF Kept
<1> QED BY <1>1, <1>2, StepLayered

LEMMA StatementsLayered ==
    ASSUME Sound, Layered(todo), StatementsStep
    PROVE  Layered(todo')
<1>1. todo # <<>> /\ Top.at \in StmtKinds /\ Grown(todo', Tail(todo))
  BY DEF StatementsStep, OpensStep, TakesStep, AddsStep, EndsStep, StmtKinds, PlainStmts,
         ListKinds, CaseKinds
<1>2. \A e \in Added(todo', Tail(todo)) : e.at \notin StateKinds
  BY StatementsAdd
<1> QED BY <1>1, <1>2, StepLayered

LEMMA PatchLayered ==
    ASSUME Sound, Layered(todo), PatchStep
    PROVE  Layered(todo')
<1>1. PICK s, d, e : s = Tail(todo) /\ d = Head(s) /\ e = todo'[1]
  OBVIOUS
<1>2. PICK a, t, u : a = todo /\ t = Tail(s) /\ u = todo'
  OBVIOUS
<1>3. /\ todo # <<>> /\ Top.at \in {"Field", "CaseMade"} /\ s # <<>>
      /\ Grown(u, t) /\ Added(u, t) = {e}
      /\ \/ d.at = "NextMember" /\ e.at = "ClassEnd"
         \/ d.at = "NextCase" /\ e.at = "NextCase"
  BY <1>1, <1>2 DEF PatchStep
<1>4. Shape(s) /\ IsList(s)
  BY <1>1, <1>3, TopPopped
<1>5. Layered(s)
  <2>1. Grown(s, s) /\ Added(s, s) = {}
    BY <1>4, GrownSelf
  <2>2. Layered(a) /\ Grown(a, s)
    BY <1>1, <1>2, <1>3, TopGrown
  <2> QED BY <2>1, <2>2, LayeredOver
<1>6. Grown(s, t) /\ Added(s, t) = {d} /\ s[1] = d /\ Len(s) # Len(t)
  <2>1. Grown(s, t) /\ Added(s, t) = {d}
    BY <1>1, <1>2, <1>3, <1>4, GrownTail
  <2>2. s[1] = d /\ Len(s) # Len(t)
    BY <1>1, <1>2, <1>3, <1>4, Popped
  <2> QED BY <2>1, <2>2
<1>7. CASE d.at = "NextMember" /\ e.at = "ClassEnd"
  <2>1. "ClassEnd" \notin StmtKinds
    BY DEF StmtKinds, PlainStmts, ListKinds, CaseKinds, Heads
  <2>2. Layered(u)
    BY <1>3, <1>5, <1>6, <1>7, <2>1, LayeredOver
  <2> QED BY <1>2, <2>2
<1>8. CASE d.at = "NextCase" /\ e.at = "NextCase"
  <2>1. "NextCase" \in StmtKinds /\ "NextCase" \notin StateKinds
    BY DEF StmtKinds, PlainStmts, StateKinds
  <2>2. Layered(u)
    BY <1>3, <1>5, <1>6, <1>8, <2>1, LayeredOver
  <2> QED BY <1>2, <2>2
<1> QED BY <1>3, <1>7, <1>8

LEMMA StatesLayered ==
    ASSUME Sound, Layered(todo), StatesStep
    PROVE  Layered(todo')
<1>1. todo # <<>> /\ Grown(todo', Tail(todo))
  BY DEF StatesStep, SavesStep, DropsStep, BackStep
<1>2. \A e \in Added(todo', Tail(todo)) : e.at \notin StmtKinds
  <2>1. CASE SavesStep
    <3>1. PICK u, t : u = todo' /\ t = Tail(todo)
      OBVIOUS
    <3>2. Len(u) - Len(t) = 2 /\ u[1].at \in ExprKinds /\ u[2].at \in StateKinds
      BY <2>1, <3>1 DEF SavesStep, ExprKinds
    <3>3. \A e \in Added(u, t) : e = u[1] \/ e = u[2]
      BY <3>2, AddedOneTwo
    <3>4. \A e \in Added(u, t) : e.at \notin StmtKinds
      BY <3>2, <3>3, NoStatement
    <3> QED BY <3>1, <3>4
  <2>2. CASE DropsStep \/ BackStep
    <3>1. \A e \in Added(todo', Tail(todo)) : Calmer(e)
      BY <2>2 DEF DropsStep, BackStep
    <3> QED BY <3>1, NoStatement DEF Calmer
  <2> QED BY <2>1, <2>2 DEF StatesStep
<1> QED BY <1>1, <1>2, StepLayered
-----------------------------------------------------------------------------
(* Steps that set flags: how they end *)

LEMMA OnFacts ==
    ASSUME Sound, OnStep
    PROVE  /\ todo # <<>> /\ p.errors \in BOOLEAN /\ p'.errors \in BOOLEAN
           /\ p.errors => p'.errors
           /\ Grown(todo', Tail(todo))
           /\ \A e \in Added(todo', Tail(todo)) : e.at \notin StateKinds
BY DEF OnStep, Further, WellFormed, Kept

LEMMA OnBack ==
    ASSUME Sound, OnStep, Top.at \notin {"FunctionEnd", "LabelledMade"},
           Balanced(p, todo), NEW D, FlagsInv(p, todo, D), NEW flags, Tunes(p, p', flags),
           \A e \in Added(todo', Tail(todo)) : Mild(e), "labels" \notin DOMAIN flags,
           \A f \in Toggles :
              IF f \in DOMAIN flags
              THEN Claimed(f, Tail(todo), D) => flags[f] = FlagOf(Tail(todo), f)
              ELSE Over(Top, Tail(todo), f) = FlagOf(Tail(todo), f)
    PROVE  FlagsInv(p', todo', D)
BY OnFacts, TunedBack

LEMMA OnOver ==
    ASSUME Sound, OnStep, Top.at \notin {"FunctionEnd", "LabelledMade"},
           Balanced(p, todo), NEW D, FlagsInv(p, todo, D), NEW flags, Tunes(p, p', flags),
           NEW e, Lone(todo', Tail(todo), e), FlagLocal(e, Tail(todo), p.scopes, D),
           "labels" \notin DOMAIN flags,
           \A f \in Toggles :
              IF f \in DOMAIN flags
              THEN Claimed(f, Tail(todo), D) => flags[f] = Over(e, Tail(todo), f)
              ELSE Over(Top, Tail(todo), f) = Over(e, Tail(todo), f)
    PROVE  FlagsInv(p', todo', D)
BY OnFacts, TunedOver

LEMMA OnPlain ==
    ASSUME Sound, OnStep, Mild(Top), Balanced(p, todo), NEW D, FlagsInv(p, todo, D),
           SameFlags(p, p'), \A e \in Added(todo', Tail(todo)) : Mild(e)
    PROVE  FlagsInv(p', todo', D)
<1>1. PICK t, u, r : t = Tail(todo) /\ u = todo' /\ r = p'
  OBVIOUS
<1>2. /\ todo # <<>> /\ (p.errors => r.errors) /\ Grown(u, t)
      /\ \A e \in Added(u, t) : Mild(e) /\ e.at \notin StateKinds
  BY <1>1, OnFacts
<1>3. Grown(todo, t) /\ Added(todo, t) = {Top}
  BY <1>1, <1>2, TopGrown
<1>4. Depth(todo) = Depth(t)
  BY <1>1, <1>2, DepthTop DEF Mild
<1>5. ~r.errors => 0 .. Depth(t) \subseteq D
  BY <1>2, <1>4 DEF FlagsInv
<1>6. FlagsInv(r, u, D)
  BY <1>1, <1>2, <1>3, <1>5, FlagsSteady
<1> QED BY <1>1, <1>6

LEMMA MildOver ==
    ASSUME NEW e, Mild(e), NEW t
    PROVE  \A f \in Tracked : Over(e, t, f) = FlagOf(t, f)
<1>1. Sets(e) = {} /\ e.at \notin Heads
  BY DEF Mild, Sets
<1> QED BY <1>1 DEF Over

\* A flag turned on for the calls above, saved in an entry below them.
LEMMA OnSwitch ==
    ASSUME Sound, OnStep, Mild(Top), Balanced(p, todo), NEW D, FlagsInv(p, todo, D),
           NEW n \in Switches, NEW flags, DOMAIN flags \cap Tracked = {n}, flags[n] = TRUE,
           Tunes(p, p', flags), NEW e, Lone(todo', Tail(todo), e),
           e.at = "PutBack", DOMAIN e.flags \cap Tracked = {n}, e.flags[n] = p.scopes[1][n]
    PROVE  FlagsInv(p', todo', D)
<1>1. PICK t : t = Tail(todo)
  OBVIOUS
<1>2. todo # <<>> /\ Top.at \notin {"FunctionEnd", "LabelledMade"}
  BY OnFacts DEF Mild
<1>3. \A f \in Toggles : Claimed(f, t, D) => p.scopes[1][f] = Over(Top, t, f)
  BY <1>1, <1>2, Before
<1>4. n \in Toggles /\ Toggles \subseteq Tracked /\ n # "labels" /\ "labels" \in Tracked
  BY DEF Switches, Toggles, Tracked
<1>5. \A f \in Toggles : Over(Top, t, f) = FlagOf(t, f)
  BY <1>4, MildOver
<1>6. Sets(e) = {n} /\ e.at \notin Heads \cup ParamKinds \cup StateKinds
  BY DEF Sets, Heads, ParamKinds, StateKinds
<1>7. FlagLocal(e, t, p.scopes, D)
  BY <1>3, <1>4, <1>5, <1>6 DEF FlagLocal
<1>8. \A f \in Toggles :
         IF f \in DOMAIN flags
         THEN Claimed(f, t, D) => flags[f] = Over(e, t, f)
         ELSE Over(Top, t, f) = Over(e, t, f)
  <2>1. \A f \in Toggles : Over(e, t, f) = IF f = n THEN TRUE ELSE FlagOf(t, f)
    BY <1>6 DEF Over
  <2>2. \A f \in Toggles : f \in DOMAIN flags <=> f = n
    BY <1>4
  <2> QED BY <1>5, <2>1, <2>2
<1>9. "labels" \notin DOMAIN flags
  BY <1>4
<1> QED BY <1>1, <1>2, <1>7, <1>8, <1>9, OnOver

LEMMA LoneLed ==
    ASSUME Sound, todo # <<>>, NEW q, NEW es, Row(es), Leads(q, es), NEW m \in DOMAIN es,
           es[m].at \notin {"FunctionEnd", "LabelledMade"},
           \A i \in DOMAIN es : i # m => Mild(es[i]) /\ es[i].at \notin StateKinds
    PROVE  p' = q /\ Lone(todo', Tail(todo), es[m])
<1>1. PICK t, u : t = Tail(todo) /\ u = todo'
  OBVIOUS
<1>2. p' = q /\ Grown(u, t)
  BY <1>1, Led
<1>3. Len(u) - Len(t) = Len(es) /\ \A i \in DOMAIN es : u[i] = es[i]
  BY <1>1, LedAt
<1>4. DOMAIN es = 1 .. Len(es)
  BY RowIsList
<1>5. Lone(u, t, es[m])
  BY <1>2, <1>3, <1>4 DEF Lone
<1> QED BY <1>1, <1>2, <1>5

LEMMA MildLed ==
    ASSUME Sound, todo # <<>>, NEW q, NEW es, Row(es), Leads(q, es),
           \A i \in DOMAIN es : Mild(es[i])
    PROVE  p' = q /\ \A e \in Added(todo', Tail(todo)) : Mild(e)
BY Led

\* The scope after what was read.
LEMMA ReadsTunes ==
    ASSUME Sound, NEW q, Reads(p, q), NEW flags
    PROVE  Tunes(p, with(q, flags), flags) /\ SameFlags(p, q)
<1>1. WellFormed(q) /\ SameFlags(p, q) /\ IsText
  BY DEF Reads, Further, Sound
<1>2. Tunes(q, with(q, flags), flags)
  BY <1>1, TunesWith
<1> QED BY <1>1, <1>2, TunesQuiet

LEMMA Saved ==
    ASSUME NEW n
    PROVE  /\ putBack(saved({n})).at = "PutBack"
           /\ n \in Tracked => DOMAIN putBack(saved({n})).flags \cap Tracked = {n}
           /\ putBack(saved({n})).flags[n] = p.scopes[1][n]
           /\ "at" \in DOMAIN putBack(saved({n}))
           /\ n \in Tracked => DOMAIN Flag(n, TRUE) \cap Tracked = {n}
           /\ Flag(n, TRUE)[n] = TRUE
BY DEF putBack, saved, Flag, Scope

LEMMA RowsMade ==
    ASSUME NEW a, NEW b, NEW c
    PROVE  /\ Row(<<a>>) /\ DOMAIN <<a>> = {1} /\ <<a>>[1] = a
           /\ Row(<<a, b>>) /\ DOMAIN <<a, b>> = {1, 2} /\ <<a, b>>[1] = a /\ <<a, b>>[2] = b
           /\ Row(<<a, b, c>>) /\ DOMAIN <<a, b, c>> = {1, 2, 3}
           /\ <<a, b, c>>[1] = a /\ <<a, b, c>>[2] = b /\ <<a, b, c>>[3] = c
BY DEF Row

LEMMA RowThree ==
    ASSUME NEW a, NEW b, NEW c, NEW es, es = <<a, b, c>>
    PROVE  Row(es) /\ DOMAIN es = {1, 2, 3} /\ es[1] = a /\ es[2] = b /\ es[3] = c
BY DEF Row

\* An entry of an expression or of a statement.
Common(e) == "at" \in DOMAIN e /\ e.at \in ExprKinds \cup PlainStmts

LEMMA CommonMild ==
    ASSUME NEW e, Common(e)
    PROVE  Mild(e) /\ e.at \notin StateKinds
<1>1. (ExprKinds \cup PlainStmts) \cap StateKinds = {}
  BY DEF ExprKinds, PlainStmts, StateKinds
<1> QED BY <1>1, MildKinds DEF Common
-----------------------------------------------------------------------------
(* Expressions that set flags *)

LEMMA QuietSame ==
    ASSUME Sound
    PROVE  /\ Quiet(p, p) /\ Reads(p, p) /\ SameFlags(p, p)
           /\ \A q : Quiet(p, q) => Reads(p, q) /\ SameFlags(p, q)
BY QuietSelf DEF Sound, Quiet, Reads

LEMMA FlagsPutBack ==
    ASSUME Sound, OnStep, Balanced(p, todo), NEW D, FlagsInv(p, todo, D), PutBack
    PROVE  FlagsInv(p', todo', D)
<1>1. todo # <<>> /\ Top.at = "PutBack" /\ Top.at \notin {"FunctionEnd", "LabelledMade"}
  BY DEF PutBack, at
<1>2. PICK t, flags : t = Tail(todo) /\ flags = Top.flags
  OBVIOUS
<1>3. Ends(with(p, flags))
  BY <1>2, Ways, Zenon DEF PutBack
<1>4. p' = with(p, flags) /\ Added(todo', Tail(todo)) = {}
  BY <1>1, <1>3, Ended
<1>5. Tunes(p, p', flags)
  BY <1>4, QuietSame, ReadsTunes
<1>6. FlagLocal(Top, t, p.scopes, D)
  BY <1>1, <1>2, Before
<1>7. /\ \A f \in DOMAIN flags \cap Tracked :
            f \in Switches /\ (Claimed(f, t, D) => flags[f] = FlagOf(t, f))
      /\ Sets(Top) = DOMAIN flags \cap Tracked
  BY <1>1, <1>2, <1>6 DEF FlagLocal, Sets
<1>8. "labels" \notin DOMAIN flags
  BY <1>7 DEF Switches, Tracked
<1>9. "PutBack" \notin Heads /\ Toggles \subseteq Tracked
  BY DEF Heads, Toggles
<1>10. \A f \in Toggles :
          IF f \in DOMAIN flags
          THEN Claimed(f, t, D) => flags[f] = FlagOf(t, f)
          ELSE Over(Top, t, f) = FlagOf(t, f)
  BY <1>1, <1>7, <1>9 DEF Over
<1>11. \A e \in Added(todo', Tail(todo)) : Mild(e)
  BY <1>4
<1> QED BY <1>1, <1>2, <1>5, <1>8, <1>10, <1>11, OnBack

LEMMA FlagsConditionalRest ==
    ASSUME Sound, OnStep, Balanced(p, todo), NEW D, FlagsInv(p, todo, D), ConditionalRest
    PROVE  FlagsInv(p', todo', D)
<1>1. todo # <<>> /\ Top.at = "ConditionalRest"
  BY DEF ConditionalRest, at
<1> DEFINE flags == Flag("allowIn", TRUE)
           q == with(NextToken(p), flags)
           a == F("Assignment")
           b == putBack(saved({"allowIn"}))
           c == [at |-> "Alternate", test |-> result]
           es == <<a, b, c>>
<1>2. Ends(p) \/ Leads(q, es)
  BY Ways, ZenonT(30) DEF ConditionalRest
<1>3. Common(a) /\ Common(c)
  BY DEF F, Common, ExprKinds
<1>4. "allowIn" \in Switches /\ "allowIn" \in Tracked
  BY DEF Switches, Tracked
<1>5. /\ b.at = "PutBack" /\ DOMAIN b.flags \cap Tracked = {"allowIn"}
      /\ b.flags["allowIn"] = p.scopes[1]["allowIn"]
      /\ DOMAIN flags \cap Tracked = {"allowIn"} /\ flags["allowIn"] = TRUE
  BY <1>4, Saved
<1> HIDE DEF a, b, c, flags
<1>6. Reads(p, NextToken(p))
  BY QuietSame, QuietNextToken
<1>7. Tunes(p, q, flags)
  BY <1>6, ReadsTunes
<1> HIDE DEF q
<1>8. Row(es) /\ DOMAIN es = {1, 2, 3} /\ es[1] = a /\ es[2] = b /\ es[3] = c
  BY RowThree
<1> HIDE DEF es
<1>9. Mild(Top)
  <2>1. Common(Top)
    BY <1>1, TopPopped DEF Common, ExprKinds
  <2> QED BY <2>1, CommonMild
<1>10. CASE Ends(p)
  <2>1. p' = p /\ Added(todo', Tail(todo)) = {}
    BY <1>1, <1>10, Ended
  <2>2. SameFlags(p, p')
    BY <2>1, QuietSame
  <2> QED BY <1>9, <2>1, <2>2, OnPlain
<1>11. CASE Leads(q, es)
  <2>1. Mild(a) /\ Mild(c) /\ a.at \notin StateKinds /\ c.at \notin StateKinds
    BY <1>3, CommonMild
  <2>2. p' = q /\ Lone(todo', Tail(todo), b)
    <3>1. p' = q /\ Lone(todo', Tail(todo), es[2])
      BY <1>1, <1>5, <1>8, <1>11, <2>1, LoneLed
    <3> QED BY <1>8, <3>1
  <2> QED BY <1>4, <1>5, <1>7, <1>9, <2>2, OnSwitch
<1> QED BY <1>2, <1>10, <1>11

LEMMA FlagsLeftHandSide ==
    ASSUME Sound, OnStep, Balanced(p, todo), NEW D, FlagsInv(p, todo, D), LeftHandSide
    PROVE  FlagsInv(p', todo', D)
<1>1. todo # <<>> /\ Top.at = "LeftHandSide"
  BY DEF LeftHandSide, at
<1> DEFINE flags == Flag("allowIn", TRUE)
           q == with(p, flags)
           a == base(p)
           b == [at |-> "Links", calls |-> TRUE, chain |-> FALSE]
           c == putBack(saved({"allowIn"}))
           es == <<a, b, c>>
<1>2. Leads(q, es)
  BY Ways, ZenonT(30) DEF LeftHandSide
<1>3. Common(a) /\ Common(b)
  BY DEF F, base, Common, ExprKinds
<1>4. "allowIn" \in Switches /\ "allowIn" \in Tracked
  BY DEF Switches, Tracked
<1>5. /\ c.at = "PutBack" /\ DOMAIN c.flags \cap Tracked = {"allowIn"}
      /\ c.flags["allowIn"] = p.scopes[1]["allowIn"]
      /\ DOMAIN flags \cap Tracked = {"allowIn"} /\ flags["allowIn"] = TRUE
  BY <1>4, Saved
<1> HIDE DEF a, b, c, flags
<1>7. Tunes(p, q, flags)
  BY QuietSame, ReadsTunes
<1> HIDE DEF q
<1>8. Row(es) /\ DOMAIN es = {1, 2, 3} /\ es[1] = a /\ es[2] = b /\ es[3] = c
  BY RowThree
<1> HIDE DEF es
<1>9. Mild(Top)
  <2>1. Common(Top)
    BY <1>1, TopPopped DEF Common, ExprKinds
  <2> QED BY <2>1, CommonMild
<1>10. Mild(a) /\ Mild(b) /\ a.at \notin StateKinds /\ b.at \notin StateKinds
  BY <1>3, CommonMild
<1>11. p' = q /\ Lone(todo', Tail(todo), c)
  <2>1. p' = q /\ Lone(todo', Tail(todo), es[3])
    BY <1>1, <1>2, <1>5, <1>8, <1>10, LoneLed
  <2> QED BY <1>8, <2>1
<1> QED BY <1>4, <1>5, <1>7, <1>9, <1>11, OnSwitch

-----------------------------------------------------------------------------
(* Parameters *)

LEMMA ParamOver ==
    ASSUME Top.at \in ParamKinds, NEW t
    PROVE  \A f \in Toggles :
              Over(Top, t, f) = IF f = "inFuncParams" THEN TRUE ELSE FlagOf(t, f)
<1>1. Sets(Top) = {"inFuncParams"} /\ Top.at \notin Heads
  BY DEF Sets, ParamKinds, Heads
<1> QED BY <1>1 DEF Over

LEMMA ParamBack ==
    ASSUME Sound, OnStep, Balanced(p, todo), NEW D, FlagsInv(p, todo, D), Top.at \in ParamKinds,
           NEW q, Reads(p, q), Ends(with(q, Top.flags))
    PROVE  FlagsInv(p', todo', D)
<1>1. todo # <<>> /\ Top.at \notin {"FunctionEnd", "LabelledMade"}
  BY OnFacts DEF ParamKinds
<1>2. PICK t, flags : t = Tail(todo) /\ flags = Top.flags
  OBVIOUS
<1>4. p' = with(q, flags) /\ Added(todo', Tail(todo)) = {}
  BY <1>1, <1>2, Ended
<1>5. Tunes(p, p', flags)
  BY <1>4, ReadsTunes
<1>6. FlagLocal(Top, t, p.scopes, D)
  BY <1>1, <1>2, Before
<1>7. DOMAIN flags = {"inFuncParams"} /\ flags["inFuncParams"] = FlagOf(t, "inFuncParams")
  BY <1>2, <1>6 DEF FlagLocal
<1>8. "labels" \notin DOMAIN flags
  BY <1>7
<1>10. \A f \in Toggles :
          IF f \in DOMAIN flags
          THEN Claimed(f, t, D) => flags[f] = FlagOf(t, f)
          ELSE Over(Top, t, f) = FlagOf(t, f)
  BY <1>7, ParamOver
<1>11. \A e \in Added(todo', Tail(todo)) : Mild(e)
  BY <1>4
<1> QED BY <1>1, <1>2, <1>5, <1>8, <1>10, <1>11, OnBack

LEMMA ParamOn ==
    ASSUME Sound, OnStep, Balanced(p, todo), NEW D, FlagsInv(p, todo, D), Top.at \in ParamKinds,
           NEW q, Reads(p, q), NEW es, Row(es), Leads(q, es), NEW m \in DOMAIN es,
           es[m].at \in ParamKinds, es[m].flags = Top.flags,
           \A i \in DOMAIN es : i # m => Common(es[i])
    PROVE  FlagsInv(p', todo', D)
<1>1. /\ todo # <<>> /\ Top.at \notin {"FunctionEnd", "LabelledMade"}
      /\ es[m].at \notin {"FunctionEnd", "LabelledMade", "PutBack"} \cup Heads \cup StateKinds
  BY OnFacts DEF ParamKinds, Heads, StateKinds
<1>2. PICK t, e : t = Tail(todo) /\ e = es[m]
  OBVIOUS
<1>3. p' = q /\ Lone(todo', Tail(todo), e)
  BY <1>1, <1>2, CommonMild, LoneLed
<1>4. FlagLocal(Top, t, p.scopes, D)
  BY <1>1, <1>2, Before
<1>5. FlagLocal(e, t, p.scopes, D)
  BY <1>1, <1>2, <1>4 DEF FlagLocal
<1> DEFINE flags == [f \in {} |-> f]
<1>6. DOMAIN flags = {} /\ DOMAIN flags \cap Tracked = {}
  OBVIOUS
<1> HIDE DEF flags
<1>7. Tunes(p, p', flags)
  BY <1>3, <1>6, TunesQuiet DEF Reads
<1>8. \A f \in Toggles : Over(Top, t, f) = Over(e, t, f)
  <2>1. Sets(e) = {"inFuncParams"}
    BY <1>1, <1>2 DEF Sets
  <2>2. \A f \in Toggles : Over(e, t, f) = IF f = "inFuncParams" THEN TRUE ELSE FlagOf(t, f)
    BY <1>1, <1>2, <2>1 DEF Over
  <2> QED BY <2>2, ParamOver
<1> QED BY <1>1, <1>2, <1>3, <1>5, <1>6, <1>7, <1>8, OnOver

LEMMA FlagsFinish ==
    ASSUME Sound, OnStep, Balanced(p, todo), InOrder(p, todo), NEW D, FlagsInv(p, todo, D),
           Top.at \in ParamKinds, NEW q, Longer(q, "declBuf"), NEW rest1,
           finishParameters(q, rest1)
    PROVE  FlagsInv(p', todo', D)
<1> DEFINE c == Cut(q, "declBuf", Top.mark)
           r == Expect(c, ")")
           s == with(r, Top.flags)
<1>1. Ends(s)
  BY Ways, ZenonT(30) DEF finishParameters
<1>2. "declBuf" \in Buffers /\ Top.mark \in 0 .. Len(p["declBuf"])
  BY OnFacts, ParamState
<1>3. Sized(c, "declBuf", Top.mark)
  BY <1>2, LongerAfter
<1> HIDE DEF c
<1>4. Sized(r, "declBuf", Top.mark)
  BY <1>2, <1>3, SizedClosing
<1>5. Reads(p, r)
  BY <1>4 DEF Sized
<1> HIDE DEF r
<1> QED BY <1>1, <1>5, ParamBack

LEMMA LongerReads ==
    ASSUME NEW q, NEW b, Longer(q, b)
    PROVE  Reads(p, q)
BY DEF Longer, Sized

LEMMA FlagsNextParameter ==
    ASSUME Sound, OnStep, Balanced(p, todo), InOrder(p, todo), NEW D, FlagsInv(p, todo, D),
           NextParameter
    PROVE  FlagsInv(p', todo', D)
<1>1. todo # <<>> /\ Top.at = "NextParameter" /\ Top.at \in ParamKinds
  BY DEF NextParameter, at, ParamKinds
<1>2. "declBuf" \in Buffers /\ Longer(p, "declBuf") /\ "flags" \in DOMAIN Top /\ "at" \in DOMAIN Top
  BY <1>1, ParamState
<1> DEFINE a == F("Assignment")
           b == F("Declaration")
           x == [Top EXCEPT !.at = "RestParameter"]
           y == [Top EXCEPT !.at = "ParameterMade"]
           es == <<a, x>>
           fs == <<b, y>>
<1>3. finishParameters(p, None) \/ Leads(NextToken(p), es) \/ Leads(p, fs)
  BY Ways, ZenonT(30) DEF NextParameter
<1>4. x.at \in ParamKinds /\ x.flags = Top.flags /\ y.at \in ParamKinds /\ y.flags = Top.flags
  BY <1>2 DEF ParamKinds
<1>5. Common(a) /\ Common(b)
  BY DEF F, ExprKinds, Common
<1> HIDE DEF a, b, x, y
<1>6. /\ Row(es) /\ DOMAIN es = {1, 2} /\ es[1] = a /\ es[2] = x
      /\ Row(fs) /\ DOMAIN fs = {1, 2} /\ fs[1] = b /\ fs[2] = y
  BY RowsMade
<1> HIDE DEF es, fs
<1>7. Reads(p, p) /\ Reads(p, NextToken(p))
  BY <1>2, LongerAfter, LongerReads
<1>8. CASE finishParameters(p, None)
  BY <1>1, <1>2, <1>8, FlagsFinish
<1>9. CASE Leads(NextToken(p), es)
  <2>1. 2 \in DOMAIN es /\ es[2].at \in ParamKinds /\ es[2].flags = Top.flags
        /\ \A i \in DOMAIN es : i # 2 => Common(es[i])
    BY <1>4, <1>5, <1>6
  <2> QED BY <1>1, <1>6, <1>7, <1>9, <2>1, ParamOn
<1>10. CASE Leads(p, fs)
  <2>1. 2 \in DOMAIN fs /\ fs[2].at \in ParamKinds /\ fs[2].flags = Top.flags
        /\ \A i \in DOMAIN fs : i # 2 => Common(fs[i])
    BY <1>4, <1>5, <1>6
  <2> QED BY <1>1, <1>6, <1>7, <1>10, <2>1, ParamOn
<1> QED BY <1>3, <1>8, <1>9, <1>10

LEMMA FlagsParameterMade ==
    ASSUME Sound, OnStep, Balanced(p, todo), InOrder(p, todo), NEW D, FlagsInv(p, todo, D),
           ParameterMade
    PROVE  FlagsInv(p', todo', D)
<1>1. todo # <<>> /\ Top.at = "ParameterMade" /\ Top.at \in ParamKinds
  BY DEF ParameterMade, at, ParamKinds
<1>2. "declBuf" \in Buffers /\ Longer(p, "declBuf") /\ "flags" \in DOMAIN Top /\ "at" \in DOMAIN Top
  BY <1>1, ParamState
<1> DEFINE r == Push(p, "declBuf", result)
           q == separated(r, ")")
           e == [Top EXCEPT !.at = "NextParameter"]
           es == <<e>>
<1>3. Leads(q, es)
  BY Ways, ZenonT(30) DEF ParameterMade
<1>4. e.at \in ParamKinds /\ e.flags = Top.flags
  BY <1>2 DEF ParamKinds
<1> HIDE DEF e
<1>5. Row(es) /\ DOMAIN es = {1} /\ es[1] = e
  BY RowsMade
<1> HIDE DEF es
<1>6. Longer(r, "declBuf")
  BY <1>2, LongerAfter
<1> HIDE DEF r
<1>7. Longer(q, "declBuf")
  BY <1>2, <1>6, LongerAfter DEF separated
<1> HIDE DEF q
<1>8. Reads(p, q)
  BY <1>7, LongerReads
<1>9. 1 \in DOMAIN es /\ es[1].at \in ParamKinds /\ es[1].flags = Top.flags
      /\ \A i \in DOMAIN es : i # 1 => Common(es[i])
  BY <1>4, <1>5
<1> QED BY <1>1, <1>3, <1>5, <1>8, <1>9, ParamOn

LEMMA FlagsRestParameter ==
    ASSUME Sound, OnStep, Balanced(p, todo), InOrder(p, todo), NEW D, FlagsInv(p, todo, D),
           RestParameter
    PROVE  FlagsInv(p', todo', D)
<1>1. todo # <<>> /\ Top.at = "RestParameter" /\ Top.at \in ParamKinds
  BY DEF RestParameter, at, ParamKinds
<1>2. "declBuf" \in Buffers /\ Longer(p, "declBuf")
  BY <1>1, ParamState
<1> DEFINE pat == PatternFrom(result, "binding", Scope(p).allowAwait)
           q == ErrorIf(p, ~pat.ok)
<1>3. finishParameters(q, pat.value)
  BY Zenon DEF RestParameter
<1>4. Longer(q, "declBuf")
  <2> HIDE DEF pat
  <2> QED BY <1>2, LongerAfter
<1> HIDE DEF q, pat
<1> QED BY <1>1, <1>3, <1>4, FlagsFinish

LEMMA FlagsParameterList ==
    ASSUME Sound, OnStep, Balanced(p, todo), NEW D, FlagsInv(p, todo, D), ParameterList
    PROVE  FlagsInv(p', todo', D)
<1>1. todo # <<>> /\ Top.at = "Parameters" /\ Top.at \notin {"FunctionEnd", "LabelledMade"}
  BY DEF ParameterList, at
<1> DEFINE n == Len(p["declBuf"])
           r == Expect(p, "(")
           flags == Flag("inFuncParams", TRUE)
           q == with(r, flags)
           e == [at |-> "NextParameter", mark |-> n, flags |-> saved({"inFuncParams"})]
           es == <<e>>
<1>2. Leads(q, es)
  <2>1. n = Len(p.declBuf)
    OBVIOUS
  <2> QED BY <2>1, Ways, ZenonT(30) DEF ParameterList
<1>3. /\ e.at = "NextParameter" /\ DOMAIN e.flags = {"inFuncParams"}
      /\ e.flags["inFuncParams"] = p.scopes[1]["inFuncParams"]
  BY DEF saved, Scope
<1>4. DOMAIN flags = {"inFuncParams"} /\ flags["inFuncParams"] = TRUE
  BY DEF Flag
<1> HIDE DEF e, flags
<1>5. Row(es) /\ DOMAIN es = {1} /\ es[1] = e
  BY RowsMade
<1> HIDE DEF es
<1>6. Reads(p, r)
  BY QuietSame, QuietExpect
<1> HIDE DEF r
<1>7. Tunes(p, q, flags)
  BY <1>6, ReadsTunes
<1> HIDE DEF q
<1>8. p' = q /\ Lone(todo', Tail(todo), e)
  <2>1. p' = q /\ Lone(todo', Tail(todo), es[1])
    BY <1>1, <1>2, <1>3, <1>5, LoneLed
  <2> QED BY <1>5, <2>1
<1>9. PICK t : t = Tail(todo)
  OBVIOUS
<1>10. Mild(Top)
  <2>1. Common(Top)
    BY <1>1, TopPopped DEF Common, ExprKinds
  <2> QED BY <2>1, CommonMild
<1>11. "inFuncParams" \in Toggles /\ Toggles \subseteq Tracked
  BY DEF Toggles, Tracked
<1>12. \A f \in Toggles : Over(Top, t, f) = FlagOf(t, f)
  BY <1>10, <1>11, MildOver
<1>13. \A f \in Toggles : Claimed(f, t, D) => p.scopes[1][f] = Over(Top, t, f)
  BY <1>1, <1>9, Before
<1>14. e.flags["inFuncParams"] = FlagOf(t, "inFuncParams")
  BY <1>3, <1>11, <1>12, <1>13 DEF Claimed
<1>15. e.at \in ParamKinds /\ e.at \notin Heads \cup StateKinds \cup {"PutBack", "FunctionEnd"}
  BY <1>3 DEF ParamKinds, Heads, StateKinds
<1>16. FlagLocal(e, t, p.scopes, D)
  BY <1>3, <1>14, <1>15 DEF FlagLocal
<1>17. \A f \in Toggles :
          IF f \in DOMAIN flags
          THEN Claimed(f, t, D) => flags[f] = Over(e, t, f)
          ELSE Over(Top, t, f) = Over(e, t, f)
  <2>1. Sets(e) = {"inFuncParams"}
    BY <1>15 DEF Sets
  <2>2. \A f \in Toggles : Over(e, t, f) = IF f = "inFuncParams" THEN TRUE ELSE FlagOf(t, f)
    BY <1>15, <2>1 DEF Over
  <2> QED BY <1>4, <1>12, <2>2
<1>18. "labels" \notin DOMAIN flags
  BY <1>4
<1> QED BY <1>1, <1>7, <1>8, <1>9, <1>16, <1>17, <1>18, OnOver
-----------------------------------------------------------------------------
(* Functions *)

\* In a function that has just begun nothing is set.
LEMMA BareFunction ==
    ASSUME NEW u, NEW t, Grown(u, t), Len(u) - Len(t) = 2, Mild(u[1]), u[2].at = "FunctionEnd"
    PROVE  /\ Depth(u) = Depth(t) + 1 /\ Depth(t) \in Nat
           /\ \A f \in Toggles :
                 FlagOf(u, f) = IF f \in {"allowIn", "inFunction"} THEN TRUE ELSE FALSE
           /\ Named(<<>>, u)
<1>1. Len(u) \in Nat /\ Len(t) \in Nat /\ Len(u) = Len(t) + 2
  BY GrownParts
<1>2. Depth(u) = Depth(t) + 1 /\ Depth(t) \in Nat
  <2>1. PICK k : k = 2
    OBVIOUS
  <2>2. k = Len(u) - Len(t) /\ k # 0 /\ u[k].at = "FunctionEnd"
        /\ \A i \in 1 .. k - 1 : u[i].at # "FunctionEnd"
    BY <2>1 DEF Mild
  <2> QED BY <2>2, DepthFrame
<1>3. 2 \in Enders(u)
  BY <1>1 DEF Enders
<1>4. \A i \in Own(u) : i = 1 \/ i = 2
  BY <1>1, <1>3 DEF Own
<1>5. \A i \in Own(u) : Sets(u[i]) = {} /\ u[i].at \notin Heads \cup {"LabelledMade"}
  <2>1. Sets(u[1]) = {} /\ u[1].at \notin Heads \cup {"LabelledMade"}
    BY DEF Mild, Sets
  <2>2. Sets(u[2]) = {} /\ u[2].at \notin Heads \cup {"LabelledMade"}
    BY DEF Sets, ParamKinds, Heads
  <2> QED BY <1>4, <2>1, <2>2
<1>6. ~Blocked(u) /\ \A f : ~Held(u, f)
  BY <1>5 DEF Blocked, Held
<1>7. \A f \in Toggles : FlagOf(u, f) = IF f \in {"allowIn", "inFunction"} THEN TRUE ELSE FALSE
  BY <1>2, <1>6 DEF FlagOf, On
<1>8. Labels(u) = {}
  BY <1>5 DEF Labels
<1>9. Named(<<>>, u)
  <2>1. <<>> \in Seq({}) /\ Len(<<>>) = 0
    OBVIOUS
  <2>3. IsList(<<>>)
    BY <2>1, ListIntro
  <2>2. Cardinality({}) = 0
    BY FS_EmptySet
  <2> QED BY <1>8, <2>1, <2>2, <2>3 DEF Named
<1> QED BY <1>2, <1>7, <1>9

LEMMA FlagsFunctionBlock ==
    ASSUME Sound, OnStep, Balanced(p, todo), NEW D, FlagsInv(p, todo, D), Layered(todo),
           FunctionBlock
    PROVE  FlagsInv(p', todo', D \cup {Depth(todo) + 1}) /\ Layered(todo')
<1>1. todo # <<>> /\ Top.at = "FunctionBlock" /\ WellFormed(p) /\ IsText
  BY DEF FunctionBlock, at, Sound
<1> DEFINE r == OpenScope(p)
           s == [scope0 EXCEPT !.inFunction = TRUE, !.inAsync = Top.async,
                               !.allowAwait = Top.allowAwait, !.allowYield = Top.allowYield]
           q == SetScope(r, s)
           a == F("Block")
           b == F("FunctionEnd")
           es == <<a, b>>
<1>2. Leads(q, es)
  BY Ways, ZenonT(30) DEF FunctionBlock
<1>3. Common(a) /\ b.at = "FunctionEnd" /\ a.at \notin StateKinds
  BY DEF F, Common, PlainStmts, StateKinds
<1> HIDE DEF a, b
<1>4. /\ Further(p, r) /\ Len(r.scopes) = Len(p.scopes) + 1
      /\ \A k \in 1 .. Len(p.scopes) : r.scopes[k + 1] = p.scopes[k]
  BY <1>1, OpenScopeReads
<1> HIDE DEF r
<1>5. /\ DOMAIN s = FlagNames /\ s.labels = <<>>
      /\ \A f \in Toggles : s[f] = IF f \in {"allowIn", "inFunction"} THEN TRUE ELSE FALSE
  <2>1. DOMAIN s = FlagNames
    BY DEF scope0, FlagNames
  <2>2. /\ s.labels = <<>> /\ s.allowIn = TRUE /\ s.inFunction = TRUE /\ s.inIteration = FALSE
        /\ s.inSwitch = FALSE /\ s.inFuncParams = FALSE
    BY DEF scope0
  <2> HIDE DEF s
  <2> QED BY <2>1, <2>2 DEF Toggles, Tracked
<1> HIDE DEF s
<1>6. WellFormed(r)
  BY <1>4 DEF Further
<1>7. /\ Further(r, q) /\ Len(q.scopes) = Len(r.scopes) /\ q.scopes[1] = s
      /\ \A k \in 2 .. Len(r.scopes) : q.scopes[k] = r.scopes[k]
  BY <1>1, <1>5, <1>6, SetScopeReads
<1> HIDE DEF q
<1>8. PICK t, u, d : t = Tail(todo) /\ u = todo' /\ d = Depth(todo)
  OBVIOUS
<1>9. Row(es) /\ DOMAIN es = {1, 2} /\ es[1] = a /\ es[2] = b
  BY RowsMade
<1>10. Len(es) = 2
  OBVIOUS
<1> HIDE DEF es
<1>11. p' = q /\ Grown(u, t)
  BY <1>1, <1>2, <1>8, <1>9, Led
<1>12. Len(u) - Len(t) = 2 /\ u[1] = a /\ u[2] = b
  <2>1. Len(todo') - Len(Tail(todo)) = Len(es) /\ \A i \in DOMAIN es : todo'[i] = es[i]
    BY <1>1, <1>2, <1>9, LedAt
  <2>2. Len(todo') - Len(Tail(todo)) = 2 /\ todo'[1] = a /\ todo'[2] = b
    BY <1>9, <1>10, <2>1
  <2> QED BY <1>8, <2>2, Zenon
<1>13. Mild(a)
  BY <1>3, CommonMild
<1>14. /\ Depth(u) = Depth(t) + 1 /\ Depth(t) \in Nat
       /\ \A f \in Toggles : FlagOf(u, f) = IF f \in {"allowIn", "inFunction"} THEN TRUE ELSE FALSE
       /\ Named(<<>>, u)
  BY <1>3, <1>11, <1>12, <1>13, BareFunction
<1>15. PICK S, R, C : S = p.scopes /\ R = q.scopes /\ C = D \cup {d + 1}
  OBVIOUS
<1>16. /\ FlagFrames(t, S, D) /\ d = Depth(t)
       /\ \A f \in Toggles : Claimed(f, t, D) => S[1][f] = Over(Top, t, f)
       /\ Named(S[1].labels, t)
       /\ ~p.errors => 0 .. d \subseteq D
  BY <1>1, <1>8, <1>15, Before
<1>17. d \in Nat /\ Len(S) = 1 + d /\ Len(R) = 2 + d
       /\ \A k \in 1 .. Len(S) : R[k + 1] = S[k]
  <2>1. d \in Nat /\ Len(S) = 1 + d
    BY <1>8, <1>14, <1>15, <1>16 DEF Balanced
  <2>2. Len(R) = 2 + d
    BY <1>4, <1>7, <1>15, <2>1
  <2>3. \A k \in 1 .. Len(S) : k + 1 \in 2 .. Len(r.scopes)
    BY <1>4, <1>15, <2>1
  <2> QED BY <1>4, <1>7, <1>15, <2>1, <2>2, <2>3
<1>18. \A x \in 0 .. d : x \in C <=> x \in D
  BY <1>15, <1>17
<1>19. FlagFrames(t, R, C)
  <2>1. IsList(t)
    BY <1>11 DEF Grown
  <2>2. \A x \in 0 .. Depth(t) - 1 : R[Len(R) - x] = S[Len(S) - x]
    <3> SUFFICES ASSUME NEW x \in 0 .. d - 1 PROVE R[Len(R) - x] = S[Len(S) - x]
      BY <1>16
    <3>1. Len(S) - x \in 1 .. Len(S) /\ (Len(S) - x) + 1 = Len(R) - x
      BY <1>17
    <3> QED BY <1>17, <3>1
  <2>3. \A x \in 0 .. Depth(t) : x \in C => x \in D
    BY <1>16, <1>18
  <2>4. \A i \in 1 .. Len(t) :
           t[i].at \in StateKinds => (0 .. Depth(After(t, i)) \subseteq D
                                      => 0 .. Depth(After(t, i)) \subseteq C)
    BY <1>15
  <2> QED BY <1>16, <2>1, <2>2, <2>3, <2>4, FramesAgain
<1>20. Agree(S[1], t, C)
  <2>1. Mild(Top)
    <3>1. Common(Top)
      BY <1>1, TopPopped DEF Common, ExprKinds
    <3> QED BY <3>1, CommonMild
  <2>2. \A f \in Toggles : Over(Top, t, f) = FlagOf(t, f)
    BY <2>1, MildOver DEF Toggles
  <2>3. \A f : Claimed(f, t, C) => Claimed(f, t, D)
    BY <1>16, <1>17, <1>18 DEF Claimed
  <2> QED BY <1>16, <2>2, <2>3 DEF Agree
<1>21. FlagLocal(b, t, R, C)
  <2>1. R[Len(R) - Depth(t)] = S[1]
    <3>1. 1 \in 1 .. Len(S) /\ Len(R) - Depth(t) = 1 + 1
      BY <1>16, <1>17
    <3> QED BY <1>17, <3>1
  <2>2. b.at \notin ParamKinds \cup Heads \cup StateKinds \cup {"PutBack"}
    BY <1>3 DEF ParamKinds, Heads, StateKinds
  <2> QED BY <1>20, <2>1, <2>2 DEF FlagLocal
<1>22. FlagFrames(u, R, C)
  <2>1. \A i \in 1 .. Len(u) - Len(t) : i = 1 \/ i = 2
    BY <1>12
  <2>2. FlagLocal(u[1], After(u, 1), R, C)
    BY <1>3, <1>12, <1>13, MildLocal
  <2>3. FlagLocal(u[2], After(u, 2), R, C)
    <3>1. After(u, 2) = t
      BY <1>11, <1>12 DEF Grown
    <3> QED BY <1>12, <1>21, <3>1
  <2>4. \A i \in 1 .. Len(u) - Len(t) : FlagLocal(u[i], After(u, i), R, C)
    BY <2>1, <2>2, <2>3
  <2> QED BY <1>11, <1>19, <2>4, FramesGrown
<1>23. Agree(R[1], u, C)
  <2>1. R[1] = s
    BY <1>7, <1>15
  <2> QED BY <1>5, <1>14, <2>1 DEF Agree
<1>24. ~q.errors => 0 .. Depth(u) \subseteq C
  <2>1. p.errors => q.errors
    BY <1>4, <1>7 DEF Further
  <2>2. \A x \in 0 .. Depth(u) : x \in 0 .. d \/ x = d + 1
    BY <1>14, <1>16
  <2> QED BY <1>15, <1>16, <2>1, <2>2
<1>25. FlagsInv(q, u, C)
  BY <1>15, <1>22, <1>23, <1>24 DEF FlagsInv
<1>26. Layered(u)
  <2>1. Layered(t)
    <3>1. Grown(todo, t) /\ Grown(t, t) /\ Added(t, t) = {}
      BY <1>1, <1>8, <1>11, TopGrown, GrownSelf DEF Grown
    <3> QED BY <3>1, LayeredOver
  <2> QED BY <1>3, <1>11, <1>12, <2>1, LayeredUnder
<1> QED BY <1>8, <1>11, <1>15, <1>25, <1>26

LEMMA FlagsFunctionEnd ==
    ASSUME Sound, OnStep, Balanced(p, todo), NEW D, FlagsInv(p, todo, D), FunctionEnd
    PROVE  FlagsInv(p', todo', D)
<1>1. todo # <<>> /\ Top.at = "FunctionEnd" /\ WellFormed(p) /\ IsText
  BY DEF FunctionEnd, at, Sound
<1> DEFINE q == CloseScope(p)
<1>2. Ends(q)
  BY Ways, ZenonT(30) DEF FunctionEnd
<1>3. PICK d, t, u, w : d = Depth(Tail(todo)) /\ t = Tail(todo) /\ u = todo' /\ w = todo
  OBVIOUS
<1>4. Depth(w) = d + 1 /\ d \in Nat /\ Len(p.scopes) = 2 + d
  BY <1>1, <1>3, DepthTop DEF Balanced
<1>5. /\ Further(p, q) /\ Len(q.scopes) = Len(p.scopes) - 1
      /\ \A k \in 1 .. Len(q.scopes) : q.scopes[k] = p.scopes[k + 1]
  <2>1. Len(p.scopes) # 1
    BY <1>4
  <2> QED BY <1>1, <2>1, CloseScopeReads
<1> HIDE DEF q
<1>6. p' = q /\ Grown(u, t) /\ Added(u, t) = {}
  BY <1>1, <1>2, <1>3, Ended
<1>7. PICK S, R : S = p.scopes /\ R = q.scopes
  OBVIOUS
<1>8. Len(S) = 2 + d /\ Len(R) = 1 + d /\ \A k \in 1 .. 1 + d : R[k] = S[k + 1]
  BY <1>4, <1>5, <1>7
<1>9. FlagFrames(t, S, D) /\ FlagLocal(Top, t, S, D)
  <2>1. Grown(w, t) /\ Len(w) - Len(t) = 1 /\ w[1] = Top /\ After(w, 1) = t
    <3>1. IsList(w) /\ w # <<>> /\ t = Tail(w)
      BY <1>1, <1>3 DEF Sound, Shape
    <3>2. Len(t) = Len(w) - 1 /\ Len(w) \in Nat \ {0} /\ w[1] = Head(w)
      BY <3>1, Popped
    <3>3. Grown(w, t) /\ w[1] = Top
      BY <1>1, <1>3, TopGrown
    <3>4. Len(w) - Len(t) = 1
      BY <3>2
    <3> QED BY <3>3, <3>4 DEF Grown
  <2>2. FlagFrames(w, S, D)
    BY <1>3, <1>7 DEF FlagsInv
  <2>3. 1 \in 1 .. Len(w) - Len(t)
    BY <2>1
  <2>4. FlagFrames(t, S, D) /\ FlagLocal(w[1], After(w, 1), S, D)
    BY <2>1, <2>2, <2>3, FramesGrown
  <2> QED BY <2>1, <2>4
<1>10. Agree(R[1], t, D)
  <2>1. Agree(S[Len(S) - Depth(t)], t, D)
    BY <1>1, <1>9 DEF FlagLocal
  <2>2. Len(S) - Depth(t) = 1 + 1 /\ 1 \in 1 .. 1 + d
    BY <1>3, <1>4, <1>8
  <2> QED BY <1>8, <2>1, <2>2
<1>11. FlagFrames(t, R, D)
  <2>1. IsList(t)
    BY <1>6 DEF Grown
  <2>2. \A x \in 0 .. Depth(t) - 1 : R[Len(R) - x] = S[Len(S) - x]
    <3> SUFFICES ASSUME NEW x \in 0 .. d - 1 PROVE R[Len(R) - x] = S[Len(S) - x]
      BY <1>3
    <3>1. Len(R) - x \in 1 .. 1 + d /\ (Len(R) - x) + 1 = Len(S) - x
      BY <1>4, <1>8
    <3> QED BY <1>8, <3>1
  <2> QED BY <1>9, <2>1, <2>2, FramesAgain
<1>12. FlagFrames(u, R, D) /\ Agree(R[1], u, D) /\ Depth(u) = Depth(t)
  BY <1>6, <1>10, <1>11, NoneFlagged
<1>13. ~q.errors => 0 .. Depth(u) \subseteq D
  <2>1. p.errors => q.errors
    BY <1>5 DEF Further
  <2>2. ~p.errors => 0 .. d + 1 \subseteq D
    BY <1>3, <1>4 DEF FlagsInv
  <2>3. 0 .. d \subseteq 0 .. d + 1
    BY <1>4
  <2> QED BY <1>3, <1>12, <2>1, <2>2, <2>3
<1>14. FlagsInv(q, u, D)
  BY <1>7, <1>12, <1>13 DEF FlagsInv
<1> QED BY <1>3, <1>6, <1>14
-----------------------------------------------------------------------------
(* Statements that set flags *)

LEMMA LoopFlags ==
    ASSUME NEW q
    PROVE  LET flags == [f \in {"inIteration", "allowLet"} |-> f = "inIteration"]
               b     == putBack([f \in {"inIteration"} |-> Scope(q).inIteration]) IN
           /\ iterate(q).q = with(q, flags) /\ iterate(q).entries = <<F("Statement"), b>>
           /\ DOMAIN flags \cap Tracked = {"inIteration"} /\ flags["inIteration"] = TRUE
           /\ b.at = "PutBack" /\ DOMAIN b.flags \cap Tracked = {"inIteration"}
           /\ b.flags["inIteration"] = q.scopes[1]["inIteration"]
           /\ "inIteration" \in Switches /\ "inIteration" \in Tracked
BY DEF iterate, putBack, Scope, Tracked, Switches

LEMMA FlagsIterate ==
    ASSUME Sound, OnStep, Balanced(p, todo), NEW D, FlagsInv(p, todo, D), Common(Top),
           NEW q, Reads(p, q), NEW c, Common(c),
           Leads(iterate(q).q, iterate(q).entries \o <<c>>)
    PROVE  FlagsInv(p', todo', D)
<1> DEFINE flags == [f \in {"inIteration", "allowLet"} |-> f = "inIteration"]
           a == F("Statement")
           b == putBack([f \in {"inIteration"} |-> Scope(q).inIteration])
           es == <<a, b, c>>
           r == with(q, flags)
<1>1. /\ iterate(q).q = r /\ iterate(q).entries = <<a, b>>
      /\ DOMAIN flags \cap Tracked = {"inIteration"} /\ flags["inIteration"] = TRUE
      /\ b.at = "PutBack" /\ DOMAIN b.flags \cap Tracked = {"inIteration"}
      /\ b.flags["inIteration"] = q.scopes[1]["inIteration"]
      /\ "inIteration" \in Switches /\ "inIteration" \in Tracked
  BY LoopFlags
<1>2. Common(a)
  BY DEF F, Common, PlainStmts
<1>3. Tunes(p, r, flags) /\ SameFlags(p, q)
  BY ReadsTunes
<1> HIDE DEF a, b, flags, r
<1>4. Leads(r, es)
  BY <1>1, RowOfThree
<1>5. Row(es) /\ DOMAIN es = {1, 2, 3} /\ es[1] = a /\ es[2] = b /\ es[3] = c
  BY RowThree
<1> HIDE DEF es
<1>6. Mild(a) /\ Mild(c) /\ Mild(Top) /\ a.at \notin StateKinds /\ c.at \notin StateKinds
  BY <1>2, CommonMild
<1>7. p' = r /\ Lone(todo', Tail(todo), b)
  <2>1. p' = r /\ Lone(todo', Tail(todo), es[2])
    BY <1>1, <1>4, <1>5, <1>6, OnFacts, LoneLed
  <2> QED BY <1>5, <2>1
<1>8. b.flags["inIteration"] = p.scopes[1]["inIteration"]
  BY <1>1, <1>3 DEF SameFlags
<1> QED BY <1>1, <1>3, <1>6, <1>7, <1>8, OnSwitch

\* A statement alone, or a block.
LEMMA BodyFlags ==
    ASSUME NEW q, WellFormed(q), IsText
    PROVE  /\ SameFlags(q, body(q).q) /\ SameFlags(q, alone(q)) /\ Common(body(q).entry)
<1>1. body(q).q \in {q, alone(q)} /\ body(q).entry \in {F("Block"), F("Statement")}
  BY DEF body
<1>2. Common(F("Block")) /\ Common(F("Statement"))
  BY DEF F, Common, PlainStmts
<1>3. DOMAIN Flag("allowLet", FALSE) \cap Tracked = {}
  BY DEF Flag, Tracked
<1>4. SameFlags(q, alone(q)) /\ SameFlags(q, q)
  BY <1>3, TunesWith, TunesQuiet DEF alone
<1> QED BY <1>1, <1>2, <1>4

LEMMA CommonTop ==
    ASSUME Sound, todo # <<>>, Top.at \in ExprKinds \cup PlainStmts
    PROVE  Common(Top) /\ Mild(Top)
BY TopPopped, CommonMild DEF Common

LEMMA FlagsDoStatement ==
    ASSUME Sound, OnStep, Balanced(p, todo), NEW D, FlagsInv(p, todo, D), DoStatement
    PROVE  FlagsInv(p', todo', D)
<1>1. todo # <<>> /\ Top.at = "do"
  BY DEF DoStatement, at
<1> DEFINE flags == Flag("inIteration", TRUE)
           w == with(p, flags)
           r == NextToken(w)
           q == body(r)
           b == F("DoHead")
           c == putBack(saved({"inIteration"}))
           a == q.entry
           es == <<a, b, c>>
<1>2. Leads(q.q, es)
  BY Ways, ZenonT(30) DEF DoStatement
<1>3. Common(b)
  BY DEF F, Common, PlainStmts
<1>4. "inIteration" \in Switches /\ "inIteration" \in Tracked
  BY DEF Switches, Tracked
<1>5. /\ c.at = "PutBack" /\ DOMAIN c.flags \cap Tracked = {"inIteration"}
      /\ c.flags["inIteration"] = p.scopes[1]["inIteration"]
      /\ DOMAIN flags \cap Tracked = {"inIteration"} /\ flags["inIteration"] = TRUE
  BY <1>4, Saved
<1> HIDE DEF b, c, flags
<1>6. Tunes(p, w, flags) /\ WellFormed(w) /\ IsText
  <2>1. Tunes(p, w, flags)
    BY QuietSame, ReadsTunes
  <2>2. WellFormed(p) /\ IsText
    BY DEF Sound
  <2>3. Further(p, w)
    BY <2>2, WithReads
  <2> QED BY <2>1, <2>2, <2>3 DEF Further
<1> HIDE DEF w
<1>7. SameFlags(w, r) /\ WellFormed(r)
  BY <1>6, NextTokenQuiet DEF Quiet, Reads, Further
<1> HIDE DEF r
<1>8. SameFlags(r, q.q) /\ Common(a)
  BY <1>6, <1>7, BodyFlags
<1>9. Tunes(p, q.q, flags)
  BY <1>6, <1>7, <1>8, TunesQuiet
<1> HIDE DEF q, a
<1>10. Row(es) /\ DOMAIN es = {1, 2, 3} /\ es[1] = a /\ es[2] = b /\ es[3] = c
  BY RowThree
<1> HIDE DEF es
<1>11. Mild(a) /\ Mild(b) /\ a.at \notin StateKinds /\ b.at \notin StateKinds /\ Mild(Top)
  BY <1>1, <1>3, <1>8, CommonMild, CommonTop DEF PlainStmts
<1>12. p' = q.q /\ Lone(todo', Tail(todo), c)
  <2>1. p' = q.q /\ Lone(todo', Tail(todo), es[3])
    BY <1>1, <1>2, <1>5, <1>10, <1>11, LoneLed
  <2> QED BY <1>10, <2>1
<1> QED BY <1>4, <1>5, <1>9, <1>11, <1>12, OnSwitch

LEMMA FlagsAlone ==
    ASSUME Sound, OnStep, Balanced(p, todo), NEW D, FlagsInv(p, todo, D), Common(Top),
           NEW q, Reads(p, q), NEW r, SameFlags(q, r), NEW a, Common(a), NEW b, Common(b),
           Leads(r, <<a, b>>)
    PROVE  FlagsInv(p', todo', D)
<1> DEFINE es == <<a, b>>
<1>1. Row(es) /\ DOMAIN es = {1, 2} /\ es[1] = a /\ es[2] = b
  BY RowsMade
<1>2. Leads(r, es)
  OBVIOUS
<1> HIDE DEF es
<1>3. Mild(a) /\ Mild(b) /\ Mild(Top)
  BY CommonMild
<1>4. p' = r /\ \A e \in Added(todo', Tail(todo)) : Mild(e)
  BY <1>1, <1>2, <1>3, OnFacts, MildLed
<1>5. SameFlags(p, r)
  BY TunesQuiet DEF Reads
<1> QED BY <1>3, <1>4, <1>5, OnPlain

LEMMA FlagsHeadMade ==
    ASSUME Sound, OnStep, Balanced(p, todo), NEW D, FlagsInv(p, todo, D), HeadMade
    PROVE  FlagsInv(p', todo', D)
<1>1. todo # <<>> /\ Top.at = "HeadMade"
  BY DEF HeadMade, at
<1> DEFINE q == Expect(p, ")")
           made(w) == [at |-> w, test |-> result]
           n == [at |-> "NextCase", discriminant |-> result, cases |-> <<>>]
           b == putBack(saved({"inSwitch"}))
           flags == Flag("inSwitch", TRUE)
           r == Expect(q, "{")
           s == with(r, flags)
           x == made("IfElse")
           y == made("WhileMade")
           z == made("WithMade")
           a == F("Statement")
           es == <<n, b>>
<1>2. \/ Leads(body(q).q, <<body(q).entry, x>>)
      \/ Leads(iterate(q).q, iterate(q).entries \o <<y>>)
      \/ Leads(alone(q), <<a, z>>)
      \/ Leads(s, es)
  BY Ways, ZenonT(60) DEF HeadMade
<1>3. Common(a) /\ Common(n) /\ Common(x) /\ Common(y) /\ Common(z)
  BY DEF F, Common, PlainStmts
<1>4. "inSwitch" \in Switches /\ "inSwitch" \in Tracked
  BY DEF Switches, Tracked
<1>5. /\ b.at = "PutBack" /\ DOMAIN b.flags \cap Tracked = {"inSwitch"}
      /\ b.flags["inSwitch"] = p.scopes[1]["inSwitch"]
      /\ DOMAIN flags \cap Tracked = {"inSwitch"} /\ flags["inSwitch"] = TRUE
  BY <1>4, Saved
<1> HIDE DEF a, b, n, x, y, z, flags
<1>6. Quiet(p, q)
  BY QuietSame, QuietExpect
<1> HIDE DEF q
<1>7. Reads(p, q) /\ Reads(p, r)
  BY <1>6, QuietSame, QuietExpect
<1> HIDE DEF r
<1>8. Tunes(p, s, flags)
  BY <1>7, ReadsTunes
<1> HIDE DEF s
<1>9. SameFlags(q, body(q).q) /\ SameFlags(q, alone(q)) /\ Common(body(q).entry)
  BY <1>7, BodyFlags DEF Sound, Reads, Further
<1>10. Common(Top) /\ Mild(Top)
  BY <1>1, CommonTop DEF PlainStmts
<1>11. CASE Leads(body(q).q, <<body(q).entry, x>>)
  BY <1>3, <1>7, <1>9, <1>10, <1>11, FlagsAlone
<1>12. CASE Leads(iterate(q).q, iterate(q).entries \o <<y>>)
  BY <1>3, <1>7, <1>10, <1>12, FlagsIterate
<1>13. CASE Leads(alone(q), <<a, z>>)
  BY <1>3, <1>7, <1>9, <1>10, <1>13, FlagsAlone
<1>14. CASE Leads(s, es)
  <2>1. Row(es) /\ DOMAIN es = {1, 2} /\ es[1] = n /\ es[2] = b
    BY RowsMade
  <2> HIDE DEF es
  <2>2. Mild(n) /\ n.at \notin StateKinds
    BY <1>3, CommonMild
  <2>3. p' = s /\ Lone(todo', Tail(todo), b)
    <3>1. p' = s /\ Lone(todo', Tail(todo), es[2])
      BY <1>1, <1>5, <1>14, <2>1, <2>2, LoneLed
    <3> QED BY <2>1, <3>1
  <2> QED BY <1>4, <1>5, <1>8, <1>10, <2>3, OnSwitch
<1> QED BY <1>2, <1>11, <1>12, <1>13, <1>14

LEMMA FlagsForEach ==
    ASSUME Sound, OnStep, Balanced(p, todo), NEW D, FlagsInv(p, todo, D), ForEach
    PROVE  FlagsInv(p', todo', D)
<1>1. todo # <<>> /\ Top.at = "ForEach"
  BY DEF ForEach, at
<1> DEFINE r == Expect(p, ")")
           c == [at |-> "ForEachMade", loop |-> Top, source |-> result]
<1>2. Leads(iterate(r).q, iterate(r).entries \o <<c>>)
  BY Ways, ZenonT(30) DEF ForEach
<1>3. Common(c)
  BY DEF Common, PlainStmts
<1> HIDE DEF c
<1>4. Reads(p, r)
  BY QuietSame, QuietExpect
<1> HIDE DEF r
<1>5. Common(Top)
  BY <1>1, CommonTop DEF PlainStmts
<1> QED BY <1>2, <1>3, <1>4, <1>5, FlagsIterate

LEMMA FlagsForUpdate ==
    ASSUME Sound, OnStep, Balanced(p, todo), NEW D, FlagsInv(p, todo, D), ForUpdate
    PROVE  FlagsInv(p', todo', D)
<1>1. todo # <<>> /\ Top.at = "ForUpdate"
  BY DEF ForUpdate, at
<1> DEFINE r == Expect(p, ")")
           c == [at |-> "ForMade", init |-> Top.init, test |-> Top.test, update |-> result]
<1>2. Leads(iterate(r).q, iterate(r).entries \o <<c>>)
  BY Ways, ZenonT(30) DEF ForUpdate
<1>3. Common(c)
  BY DEF Common, PlainStmts
<1> HIDE DEF c
<1>4. Reads(p, r)
  BY QuietSame, QuietExpect
<1> HIDE DEF r
<1>5. Common(Top)
  BY <1>1, CommonTop DEF PlainStmts
<1> QED BY <1>2, <1>3, <1>4, <1>5, FlagsIterate
-----------------------------------------------------------------------------
(* The head of a for *)

LEMMA HeadFacts ==
    ASSUME Sound, todo # <<>>, Top.at \in Heads, NEW D, FlagsInv(p, todo, D)
    PROVE  LET t == Tail(todo) IN
           /\ \A f \in Toggles : Over(Top, t, f) = IF f = "allowIn" THEN FALSE ELSE FlagOf(t, f)
           /\ Claimed("allowIn", t, D) => Top.allowIn = FlagOf(t, "allowIn")
           /\ Top.at \notin {"FunctionEnd", "LabelledMade"}
<1>1. Sets(Top) = {} /\ Top.at \notin {"FunctionEnd", "LabelledMade"}
  BY DEF Sets, Heads, ParamKinds
<1>2. FlagLocal(Top, Tail(todo), p.scopes, D)
  BY <1>1, Before
<1> QED BY <1>1, <1>2 DEF Over, FlagLocal

LEMMA HeadBack ==
    ASSUME Sound, OnStep, Balanced(p, todo), NEW D, FlagsInv(p, todo, D), Top.at \in Heads,
           Tunes(p, p', Flag("allowIn", Top.allowIn)),
           \A e \in Added(todo', Tail(todo)) : Mild(e)
    PROVE  FlagsInv(p', todo', D)
<1>1. PICK t, flags : t = Tail(todo) /\ flags = Flag("allowIn", Top.allowIn)
  OBVIOUS
<1>2. DOMAIN flags = {"allowIn"} /\ flags["allowIn"] = Top.allowIn
  BY <1>1 DEF Flag
<1>3. /\ \A f \in Toggles : Over(Top, t, f) = IF f = "allowIn" THEN FALSE ELSE FlagOf(t, f)
      /\ Claimed("allowIn", t, D) => Top.allowIn = FlagOf(t, "allowIn")
      /\ Top.at \notin {"FunctionEnd", "LabelledMade"}
  BY <1>1, OnFacts, HeadFacts
<1>4. \A f \in Toggles :
         IF f \in DOMAIN flags
         THEN Claimed(f, t, D) => flags[f] = FlagOf(t, f)
         ELSE Over(Top, t, f) = FlagOf(t, f)
  BY <1>2, <1>3
<1>5. "labels" \notin DOMAIN flags
  BY <1>2
<1> QED BY <1>1, <1>3, <1>4, <1>5, OnBack

LEMMA FlagsForInto ==
    ASSUME Sound, OnStep, Balanced(p, todo), NEW D, FlagsInv(p, todo, D), Top.at \in Heads,
           NEW q, Quiet(p, q), NEW into, forInto(q, into)
    PROVE  FlagsInv(p', todo', D)
<1> DEFINE n == NextToken(q)
           flags == Flag("allowIn", Top.allowIn)
           r == with(n, flags)
           s == ErrorIf(r, Top.await)
           a == F("Expression")
           b == F("Assignment")
           x == [at |-> "ForEach", word |-> "in", into |-> into]
           y == [at |-> "ForEach", word |-> "of", into |-> into, await |-> Top.await]
           es == <<a, x>>
           fs == <<b, y>>
<1>1. Leads(s, es) \/ Leads(r, fs)
  BY Ways, ZenonT(30) DEF forInto
<1>2. Common(a) /\ Common(b) /\ Common(x) /\ Common(y)
  BY DEF F, Common, PlainStmts, ExprKinds
<1> HIDE DEF a, b, x, y
<1>3. Reads(p, n)
  BY QuietNextToken, QuietSame
<1> HIDE DEF n
<1>4. Tunes(p, r, flags) /\ WellFormed(r) /\ IsText
  <2>1. WellFormed(n) /\ IsText
    BY <1>3 DEF Reads, Further, Sound
  <2>2. Further(n, r)
    BY <2>1, WithReads
  <2> QED BY <1>3, <2>1, <2>2, ReadsTunes DEF Further
<1> HIDE DEF r
<1>5. Tunes(p, s, flags)
  <2>1. SameFlags(r, s)
    BY <1>4, ErrorQuiet, TunesQuiet DEF ErrorIf, Quiet, Reads
  <2> QED BY <1>4, <2>1, TunesQuiet
<1> HIDE DEF s, flags
<1>6. Mild(a) /\ Mild(b) /\ Mild(x) /\ Mild(y)
  BY <1>2, CommonMild
<1>7. /\ Row(es) /\ DOMAIN es = {1, 2} /\ es[1] = a /\ es[2] = x
      /\ Row(fs) /\ DOMAIN fs = {1, 2} /\ fs[1] = b /\ fs[2] = y
  BY RowsMade
<1> HIDE DEF es, fs
<1>8. (p' = s \/ p' = r) /\ \A e \in Added(todo', Tail(todo)) : Mild(e)
  BY <1>1, <1>6, <1>7, OnFacts, MildLed
<1>9. Tunes(p, p', flags)
  BY <1>4, <1>5, <1>8
<1> QED BY <1>8, <1>9, HeadBack DEF flags

LEMMA FlagsForDeclared ==
    ASSUME Sound, OnStep, Balanced(p, todo), NEW D, FlagsInv(p, todo, D), ForDeclared
    PROVE  FlagsInv(p', todo', D)
<1>1. todo # <<>> /\ Top.at = "ForDeclared" /\ Top.at \in Heads /\ "at" \in DOMAIN Top
  BY TopPopped DEF ForDeclared, at, Heads
<1> DEFINE list == result.list
           q == ErrorIf(p, missesInit(list))
           flags == Flag("allowIn", Top.allowIn)
           r == with(q, flags)
           s == ErrorIf(p, list[1].initializer # None)
           into == VarDecl(Top.word, list)
           a == [Top EXCEPT !.at = "ForInit"]
           es == <<a>>
<1>2. forInto(s, into) \/ Leads(r, es)
  BY Ways, ZenonT(30) DEF ForDeclared
<1>3. Common(a)
  BY <1>1 DEF Common, PlainStmts
<1> HIDE DEF a, into
<1>4. Quiet(p, q) /\ Quiet(p, s)
  BY QuietSame, QuietErrorIf
<1> HIDE DEF q, s
<1>5. CASE forInto(s, into)
  BY <1>1, <1>4, <1>5, FlagsForInto
<1>6. CASE Leads(r, es)
  <2>1. Tunes(p, r, flags)
    BY <1>4, QuietSame, ReadsTunes
  <2> HIDE DEF r, flags
  <2>2. Row(es) /\ DOMAIN es = {1} /\ es[1] = a
    BY RowsMade
  <2> HIDE DEF es
  <2>3. p' = r /\ \A e \in Added(todo', Tail(todo)) : Mild(e)
    BY <1>1, <1>3, <1>6, <2>2, CommonMild, MildLed
  <2> QED BY <1>1, <2>1, <2>3, HeadBack DEF flags
<1> QED BY <1>2, <1>5, <1>6

\* The error on which `in` stays off: of the function it is in nothing is claimed from
\* here on, and no state in it to go back to is older.
LEMMA FlagsLost ==
    ASSUME Sound, OnStep, Balanced(p, todo), NEW D, FlagsInv(p, todo, D), Layered(todo),
           Top.at \in Heads, NEW q, SameFlags(p, q), q.errors, Ends(q)
    PROVE  FlagsInv(p', todo', D \ {Depth(todo)})
<1>1. todo # <<>> /\ Top.at \notin {"FunctionEnd", "LabelledMade"}
  BY OnFacts DEF Heads
<1>2. PICK t, u, w, d : t = Tail(todo) /\ u = todo' /\ w = todo /\ d = Depth(todo)
  OBVIOUS
<1>3. PICK S, R, C : S = p.scopes /\ R = q.scopes /\ C = D \ {d}
  OBVIOUS
<1>4. p' = q /\ Grown(u, t) /\ Added(u, t) = {}
  BY <1>1, <1>2, Ended
<1>5. /\ FlagFrames(t, S, D) /\ d = Depth(t)
      /\ \A f \in Toggles : Claimed(f, t, D) => S[1][f] = Over(Top, t, f)
      /\ Named(S[1].labels, t)
  BY <1>1, <1>2, <1>3, Before
<1>6. \A f \in Toggles : Over(Top, t, f) = IF f = "allowIn" THEN FALSE ELSE FlagOf(t, f)
  BY <1>1, <1>2, HeadFacts
<1>7. IsList(t) /\ Len(t) \in Nat /\ Grown(w, t) /\ Len(w) = Len(t) + 1 /\ w[1] = Top
      /\ \A i \in 1 .. Len(t) : w[i + 1] = t[i]
  <2>1. IsList(w) /\ w # <<>> /\ t = Tail(w)
    BY <1>1, <1>2 DEF Sound, Shape
  <2>2. Len(t) = Len(w) - 1 /\ Len(w) \in Nat \ {0}
    BY <2>1, Popped
  <2>3. Grown(w, t) /\ w[1] = Top
    BY <1>1, <1>2, TopGrown
  <2>4. Len(w) - Len(t) = 1
    BY <2>2
  <2> QED BY <2>2, <2>3, <2>4 DEF Grown
<1>8. ASSUME NEW i \in 1 .. Len(t), t[i].at \in StateKinds
      PROVE  Depth(After(t, i)) \in Nat /\ Depth(After(t, i)) < d
  <2>1. w[1].at \in StmtKinds /\ w[i + 1].at \in StateKinds /\ 1 < i + 1
        /\ 1 \in 1 .. Len(w) /\ i + 1 \in 1 .. Len(w)
    BY <1>7, <1>8 DEF StmtKinds
  <2>2. PICK k \in Enders(w) : 1 < k /\ k < i + 1
    BY <1>2, <2>1 DEF Layered
  <2>3. k \in 1 .. Len(w) /\ w[k].at = "FunctionEnd"
    BY DEF Enders
  <2>4. PICK j : j = k - 1
    OBVIOUS
  <2>5. j \in 1 .. Len(t) /\ k = j + 1 /\ j <= i
    BY <1>7, <2>2, <2>3, <2>4
  <2>6. j \in Enders(t)
    BY <1>7, <2>3, <2>5 DEF Enders
  <2>7. i \in 0 .. Len(t)
    BY <1>7
  <2> QED BY <1>5, <1>7, <2>5, <2>6, <2>7, DepthBelow
<1>9. FlagFrames(t, S, C)
  <2>1. \A i \in 1 .. Len(t) :
           t[i].at \in StateKinds => (0 .. Depth(After(t, i)) \subseteq D
                                      => 0 .. Depth(After(t, i)) \subseteq C)
    <3> SUFFICES ASSUME NEW i \in 1 .. Len(t), t[i].at \in StateKinds,
                        0 .. Depth(After(t, i)) \subseteq D
                 PROVE  0 .. Depth(After(t, i)) \subseteq C
      OBVIOUS
    <3>1. Depth(After(t, i)) \in Nat /\ Depth(After(t, i)) < d
      BY <1>8
    <3>2. d \notin 0 .. Depth(After(t, i))
      BY <3>1
    <3> QED BY <1>3, <3>2
  <2>2. \A x \in 0 .. Depth(t) : x \in C => x \in D
    BY <1>3
  <2>3. \A x \in 0 .. Depth(t) - 1 : S[Len(S) - x] = S[Len(S) - x]
    OBVIOUS
  <2> QED BY <1>5, <1>7, <2>1, <2>2, <2>3, FramesAgain
<1>10. /\ Len(S) = 1 + Depth(t) /\ Len(R) = Len(S) /\ \A k \in 2 .. Len(S) : R[k] = S[k]
       /\ \A f \in Tracked : R[1][f] = S[1][f]
  BY <1>2, <1>3, <1>5 DEF Balanced, SameFlags
<1>11. FlagFrames(t, R, C)
  BY <1>7, <1>9, <1>10, FramesKept
<1>12. Agree(R[1], t, C)
  <2>1. \A f \in Toggles : Claimed(f, t, C) => f # "allowIn"
    BY <1>3, <1>5 DEF Claimed
  <2>2. \A f \in Toggles : f # "allowIn" => S[1][f] = FlagOf(t, f)
    BY <1>5, <1>6 DEF Claimed
  <2>3. \A f \in Toggles : R[1][f] = S[1][f]
    BY <1>10 DEF Toggles
  <2>4. R[1].labels = S[1].labels
    BY <1>10 DEF Tracked
  <2> QED BY <1>5, <2>1, <2>2, <2>3, <2>4 DEF Agree
<1>13. FlagFrames(u, R, C) /\ Agree(R[1], u, C)
  BY <1>4, <1>11, <1>12, NoneFlagged
<1>14. FlagsInv(q, u, C)
  BY <1>3, <1>13 DEF FlagsInv
<1> QED BY <1>2, <1>3, <1>4, <1>14

LEMMA FlagsForExpression ==
    ASSUME Sound, OnStep, Balanced(p, todo), NEW D, FlagsInv(p, todo, D), Layered(todo),
           ForExpression
    PROVE  \E C : FlagsInv(p', todo', C)
<1>1. todo # <<>> /\ Top.at = "ForExpression" /\ Top.at \in Heads /\ "at" \in DOMAIN Top
  BY TopPopped DEF ForExpression, at, Heads
<1> DEFINE target == PatternFrom(result, "assign", FALSE)
           q == ErrorIf(p, ~target.ok)
           flags == Flag("allowIn", Top.allowIn)
           r == with(p, flags)
           n == Error(NextToken(p))
           s == NextStatement(n)
           into == target.value
           a == [Top EXCEPT !.at = "ForInit"]
           es == <<a>>
<1>2. forInto(q, into) \/ Leads(r, es) \/ Ends(s)
  BY Ways, ZenonT(30) DEF ForExpression
<1>3. Common(a)
  BY <1>1 DEF Common, PlainStmts
<1> HIDE DEF a, into
<1>4. Quiet(p, q)
  <2> HIDE DEF target
  <2> QED BY QuietSame, QuietErrorIf
<1> HIDE DEF q
<1>5. CASE forInto(q, into)
  BY <1>1, <1>4, <1>5, FlagsForInto
<1>6. CASE Leads(r, es)
  <2>1. Tunes(p, r, flags)
    BY QuietSame, ReadsTunes
  <2> HIDE DEF r, flags
  <2>2. Row(es) /\ DOMAIN es = {1} /\ es[1] = a
    BY RowsMade
  <2> HIDE DEF es
  <2>3. p' = r /\ \A e \in Added(todo', Tail(todo)) : Mild(e)
    BY <1>1, <1>3, <1>6, <2>2, CommonMild, MildLed
  <2> QED BY <1>1, <2>1, <2>3, HeadBack DEF flags
<1>7. CASE Ends(s)
  <2>1. Quiet(p, NextToken(p))
    BY QuietSame, QuietNextToken
  <2>2. Quiet(p, n)
    BY <2>1, QuietError
  <2>3. n.errors
    <3>1. WellFormed(NextToken(p))
      BY <2>1 DEF Quiet, Reads, Further
    <3> QED BY <3>1, HelperFields DEF WellFormed, StateFields, Error
  <2> HIDE DEF n
  <2>4. Quiet(p, s)
    BY <2>2, QuietNextStatement
  <2>5. s.errors
    <3>1. WellFormed(n) /\ IsText
      BY <2>2 DEF Quiet, Reads, Further, Sound
    <3> QED BY <2>3, <3>1, NextStatementQuiet DEF Quiet, Reads, Further
  <2> HIDE DEF s
  <2>6. SameFlags(p, s)
    BY <2>4, QuietSame
  <2> QED BY <1>1, <1>7, <2>5, <2>6, FlagsLost
<1> QED BY <1>2, <1>5, <1>6, <1>7

\* The head is parsed without `in`.
LEMMA FlagsForStatement ==
    ASSUME Sound, OnStep, Balanced(p, todo), NEW D, FlagsInv(p, todo, D), ForStatement
    PROVE  FlagsInv(p', todo', D)
<1>1. todo # <<>> /\ Top.at = "for" /\ Common(Top) /\ Mild(Top)
  BY CommonTop DEF ForStatement, at, PlainStmts
<1> DEFINE q     == NextToken(p)
           await == Kind(q) = "await"
           r     == IF await THEN NextToken(ErrorIf(q, ~Scope(q).allowAwait)) ELSE q
           s     == Expect(r, "(")
           head(w) == [at |-> w, await |-> await, word |-> Kind(s),
                       allowIn |-> Scope(s).allowIn]
           h == head("ForInit")
           d == head("ForDeclared")
           x == head("ForExpression")
           a == F("Declarations")
           b == F("Expression")
           n == NextToken(s)
           flags == Flag("allowIn", FALSE)
           v == with(n, flags)
           w == with(s, flags)
           es == <<a, d>>
           fs == <<b, x>>
           gs == <<h>>
<1>2. Leads(s, gs) \/ Leads(v, es) \/ Leads(w, fs)
  <2>1. noIn(NextToken(s)) = v /\ noIn(s) = w
    BY DEF noIn
  <2>2. Leads(s, <<h>>) \/ Leads(noIn(NextToken(s)), <<a, d>>) \/ Leads(noIn(s), <<b, x>>)
    BY Ways, ZenonT(60) DEF ForStatement
  <2> QED BY <2>1, <2>2
<1>3. Common(h) /\ Common(a) /\ Common(b)
  BY DEF F, Common, PlainStmts, ExprKinds
<1>4. /\ d.at \in Heads /\ d.allowIn = Scope(s).allowIn
      /\ x.at \in Heads /\ x.allowIn = Scope(s).allowIn
  BY DEF Heads
<1> HIDE DEF h, d, x, a, b
<1>5. Quiet(p, s) /\ Quiet(p, n)
  <2>1. Quiet(p, q)
    BY QuietSame, QuietNextToken
  <2> HIDE DEF q
  <2>2. Quiet(p, r)
    BY <2>1, QuietErrorIf, QuietNextToken
  <2> HIDE DEF r
  <2> QED BY <2>2, QuietExpect, QuietNextToken
<1> HIDE DEF s
<1>6. Reads(p, s) /\ Reads(p, n) /\ SameFlags(p, s)
  BY <1>5, QuietSame
<1> HIDE DEF n
<1>7. Tunes(p, v, flags) /\ Tunes(p, w, flags)
  BY <1>6, ReadsTunes
<1>8. DOMAIN flags = {"allowIn"} /\ flags["allowIn"] = FALSE
  BY DEF Flag
<1> HIDE DEF v, w, flags
<1>9. PICK t : t = Tail(todo)
  OBVIOUS
<1>10. Toggles \subseteq Tracked /\ "allowIn" \in Toggles
  BY DEF Toggles, Tracked
<1>11. /\ \A f \in Toggles : Over(Top, t, f) = FlagOf(t, f)
       /\ \A f \in Toggles : Claimed(f, t, D) => p.scopes[1][f] = Over(Top, t, f)
  BY <1>1, <1>9, <1>10, MildOver, Before DEF Mild
<1>12. Claimed("allowIn", t, D) => Scope(s).allowIn = FlagOf(t, "allowIn")
  BY <1>6, <1>10, <1>11 DEF Scope, SameFlags
<1>13. ASSUME NEW e, e.at \in Heads, e.allowIn = Scope(s).allowIn,
              NEW c, Common(c), NEW y, Tunes(p, y, flags), Leads(y, <<c, e>>)
       PROVE  FlagsInv(p', todo', D)
  <2>1. e.at \notin ParamKinds \cup StateKinds \cup {"PutBack", "FunctionEnd", "LabelledMade"}
    BY <1>13 DEF Heads, ParamKinds, StateKinds
  <2>2. FlagLocal(e, t, p.scopes, D)
    BY <1>12, <1>13, <2>1 DEF FlagLocal
  <2>3. p' = y /\ Lone(todo', Tail(todo), e)
    <3> DEFINE ks == <<c, e>>
    <3>1. Row(ks) /\ DOMAIN ks = {1, 2} /\ ks[1] = c /\ ks[2] = e
      BY RowsMade
    <3>2. Leads(y, ks)
      BY <1>13
    <3> HIDE DEF ks
    <3>3. Mild(c) /\ c.at \notin StateKinds
      BY <1>13, CommonMild
    <3>4. p' = y /\ Lone(todo', Tail(todo), ks[2])
      BY <1>1, <2>1, <3>1, <3>2, <3>3, LoneLed
    <3> QED BY <3>1, <3>4
  <2>4. Sets(e) = {}
    BY <2>1 DEF Sets
  <2>5. \A f \in Toggles :
           IF f \in DOMAIN flags
           THEN Claimed(f, t, D) => flags[f] = Over(e, t, f)
           ELSE Over(Top, t, f) = Over(e, t, f)
    BY <1>8, <1>11, <1>13, <2>4 DEF Over
  <2>6. "labels" \notin DOMAIN flags /\ Top.at \notin {"FunctionEnd", "LabelledMade"}
    BY <1>1, <1>8
  <2>7. Tunes(p, p', flags)
    BY <1>13, <2>3
  <2> QED BY <1>9, <2>2, <2>3, <2>5, <2>6, <2>7, OnOver
<1>14. CASE Leads(s, gs)
  <2>1. Row(gs) /\ DOMAIN gs = {1} /\ gs[1] = h
    BY RowsMade
  <2> HIDE DEF gs
  <2>2. p' = s /\ \A e \in Added(todo', Tail(todo)) : Mild(e)
    BY <1>1, <1>3, <1>14, <2>1, CommonMild, MildLed
  <2> QED BY <1>1, <1>6, <2>2, OnPlain
<1>15. CASE Leads(v, es)
  BY <1>3, <1>4, <1>7, <1>13, <1>15
<1>16. CASE Leads(w, fs)
  BY <1>3, <1>4, <1>7, <1>13, <1>16
<1> QED BY <1>2, <1>14, <1>15, <1>16
-----------------------------------------------------------------------------
(* Labels *)

LEMMA LabelsPushed ==
    ASSUME NEW w, NEW t, Grown(w, t), Len(w) - Len(t) = 1, w[1].at = "LabelledMade"
    PROVE  /\ Labels(w) = {1} \cup {i + 1 : i \in Labels(t)}
           /\ Cardinality(Labels(t)) \in Nat
           /\ Cardinality(Labels(w)) = Cardinality(Labels(t)) + 1
           /\ Rank(w, 1) = Cardinality(Labels(w))
           /\ \A i \in Labels(t) : /\ Rank(w, i + 1) = Rank(t, i) /\ w[i + 1] = t[i]
                                   /\ Rank(t, i) \in 1 .. Cardinality(Labels(t))
<1>0. PICK k : k = Len(w) - Len(t)
  OBVIOUS
<1>1. PICK n : n = Len(t)
  OBVIOUS
<1>2. k = 1 /\ \A e \in Added(w, t) : e = w[1]
  BY <1>0 DEF Added
<1>3. /\ n \in Nat
      /\ \A i \in Own(w) : \/ i \in 1 .. k
                           \/ i - k \in Own(t) /\ w[i] = t[i - k] /\ i = (i - k) + k
      /\ \A i \in Own(t) : i + k \in Own(w) /\ w[i + k] = t[i] /\ i \in 1 .. n
      /\ \A i \in 1 .. k : i \in Own(w)
  <2>1. \A e \in Added(w, t) : e.at # "FunctionEnd"
    BY <1>2
  <2> QED BY <1>0, <1>1, <2>1, GrownOwn
<1>4. /\ \A i \in Own(w) : \/ i = 1
                           \/ i - 1 \in Own(t) /\ w[i] = t[i - 1] /\ i = (i - 1) + 1
      /\ \A i \in Own(t) : i + 1 \in Own(w) /\ w[i + 1] = t[i] /\ i \in 1 .. n
      /\ 1 \in Own(w)
  BY <1>2, <1>3
<1>5. \A i \in Labels(w) : i = 1 \/ (i - 1 \in Labels(t) /\ i = (i - 1) + 1)
  BY <1>4 DEF Labels
<1>6. \A i \in Labels(t) : i + 1 \in Labels(w) /\ w[i + 1] = t[i] /\ i \in 1 .. n
  BY <1>4 DEF Labels
<1>7. 1 \in Labels(w)
  BY <1>4 DEF Labels
<1> DEFINE B == {i + 1 : i \in Labels(t)}
<1>8. Labels(w) = {1} \cup B
  BY <1>5, <1>6, <1>7
<1>9. Labels(t) \in SUBSET (1 .. n)
  BY <1>6
<1>10. IsFiniteSet(B) /\ Cardinality(B) = Cardinality(Labels(t)) /\ Cardinality(B) \in Nat
  <2>1. n \in Nat /\ k \in Nat
    BY <1>2, <1>3
  <2>2. /\ IsFiniteSet({i + k : i \in Labels(t)})
        /\ Cardinality({i + k : i \in Labels(t)}) = Cardinality(Labels(t))
        /\ Cardinality(Labels(t)) \in Nat
    BY <1>9, <2>1, ShiftedSet
  <2>3. B = {i + k : i \in Labels(t)}
    BY <1>2
  <2> QED BY <2>2, <2>3
<1>11. 1 \notin B /\ \A i \in B : 1 <= i
  BY <1>6
<1> HIDE DEF B
<1>12. Cardinality(Labels(w)) = Cardinality(Labels(t)) + 1
  <2>1. B \cup {1} = Labels(w)
    BY <1>8
  <2>2. Cardinality(B \cup {1}) = Cardinality(B) + 1
    BY <1>10, <1>11, FS_AddElement
  <2> QED BY <1>10, <2>1, <2>2
<1>13. Rank(w, 1) = Cardinality(Labels(w))
  <2>1. {j \in Labels(w) : 1 <= j} = Labels(w)
    BY <1>8, <1>11
  <2> QED BY <2>1 DEF Rank
<1>14. ASSUME NEW i \in Labels(t) PROVE Rank(w, i + 1) = Rank(t, i)
  <2> DEFINE A == {j \in Labels(t) : i <= j}
             C == {j \in Labels(w) : i + 1 <= j}
  <2>1. i \in Int /\ 1 <= i
    BY <1>6
  <2>2. \A j \in Labels(t) : (i <= j <=> i + 1 <= j + 1)
    <3>1. \A j \in Labels(t) : j \in Int
      BY <1>6
    <3> QED BY <2>1, <3>1
  <2>3. C = {j + 1 : j \in A}
    <3>1. \A j \in C : \E x \in A : j = x + 1
      <4> SUFFICES ASSUME NEW j \in Labels(w), i + 1 <= j PROVE \E x \in A : j = x + 1
        OBVIOUS
      <4>1. j # 1
        BY <2>1
      <4>2. j - 1 \in Labels(t) /\ j = (j - 1) + 1
        BY <1>5, <4>1
      <4> QED BY <2>2, <4>2
    <3>2. \A x \in A : x + 1 \in C
      BY <1>6, <2>2
    <3> QED BY <3>1, <3>2
  <2>4. A \in SUBSET (1 .. n)
    BY <1>6
  <2> HIDE DEF A, C
  <2>5. Cardinality(C) = Cardinality(A)
    <3>1. n \in Nat /\ k \in Nat
      BY <1>2, <1>3
    <3>2. Cardinality({j + k : j \in A}) = Cardinality(A)
      BY <2>4, <3>1, ShiftedSet
    <3>3. C = {j + k : j \in A}
      BY <1>2, <2>3
    <3> QED BY <3>2, <3>3
  <2> QED BY <2>5 DEF Rank, A, C
<1>15. \A i \in Labels(t) : Rank(t, i) \in 1 .. Cardinality(Labels(t))
  BY <1>1, <1>3, LabelsFinite
<1> QED BY <1>6, <1>8, <1>10, <1>12, <1>13, <1>14, <1>15 DEF B

LEMMA NamedPush ==
    ASSUME NEW w, NEW t, Grown(w, t), Len(w) - Len(t) = 1, w[1].at = "LabelledMade",
           NEW list, Named(list, t), NEW name, name = w[1].label.name
    PROVE  Named(Append(list, name), w)
<1>1. PICK more, c : more = Append(list, name) /\ c = Cardinality(Labels(t))
  OBVIOUS
<1>2. IsList(list) /\ Len(list) = c /\ \A i \in Labels(t) : list[Rank(t, i)] = t[i].label.name
  BY <1>1 DEF Named
<1>3. /\ Labels(w) = {1} \cup {i + 1 : i \in Labels(t)}
      /\ c \in Nat /\ Cardinality(Labels(w)) = c + 1 /\ Rank(w, 1) = c + 1
      /\ \A i \in Labels(t) :
            Rank(w, i + 1) = Rank(t, i) /\ w[i + 1] = t[i] /\ Rank(t, i) \in 1 .. c
  BY <1>1, LabelsPushed
<1>4. /\ IsList(more) /\ Len(more) = c + 1 /\ more[c + 1] = name
      /\ \A i \in 1 .. c : more[i] = list[i]
  BY <1>1, <1>2, AppendList
<1>5. ASSUME NEW i \in Labels(w) PROVE more[Rank(w, i)] = w[i].label.name
  <2>1. CASE i = 1
    BY <1>3, <1>4, <2>1
  <2>2. CASE i \in {j + 1 : j \in Labels(t)}
    <3>1. PICK j \in Labels(t) : i = j + 1
      BY <2>2
    <3>2. Rank(w, i) = Rank(t, j) /\ w[i] = t[j] /\ Rank(t, j) \in 1 .. c
      BY <1>3, <3>1
    <3> QED BY <1>2, <1>4, <3>2
  <2> QED BY <1>3, <2>1, <2>2
<1> QED BY <1>1, <1>3, <1>4, <1>5 DEF Named

LEMMA NamedPop ==
    ASSUME NEW w, NEW t, Grown(w, t), Len(w) - Len(t) = 1, w[1].at = "LabelledMade",
           NEW list, Named(list, w)
    PROVE  Named(Front(list), t)
<1>1. PICK less, c : less = Front(list) /\ c = Cardinality(Labels(t))
  OBVIOUS
<1>2. /\ Labels(w) = {1} \cup {i + 1 : i \in Labels(t)}
      /\ c \in Nat /\ Cardinality(Labels(w)) = c + 1
      /\ \A i \in Labels(t) :
            Rank(w, i + 1) = Rank(t, i) /\ w[i + 1] = t[i] /\ Rank(t, i) \in 1 .. c
  BY <1>1, LabelsPushed
<1>3. IsList(list) /\ Len(list) = c + 1 /\ \A i \in Labels(w) : list[Rank(w, i)] = w[i].label.name
  BY <1>2 DEF Named
<1>4. IsList(less) /\ Len(less) = c /\ \A i \in 1 .. c : less[i] = list[i]
  <2>1. PICK S : S = Range(list)
    OBVIOUS
  <2>2. list \in Seq(S) /\ list # <<>>
    BY <1>2, <1>3, <2>1, ListElim
  <2>3. less \in Seq(S) /\ Len(less) = c /\ \A i \in 1 .. c : less[i] = list[i]
    <3>1. Front(list) \in Seq(S) /\ Len(Front(list)) = Len(list) - 1
          /\ \A i \in 1 .. Len(list) - 1 : Front(list)[i] = list[i]
      BY <2>2, FrontProperties
    <3>2. Len(list) - 1 = c
      BY <1>2, <1>3
    <3> QED BY <1>1, <3>1, <3>2
  <2> QED BY <2>3, ListIntro
<1>5. ASSUME NEW i \in Labels(t) PROVE less[Rank(t, i)] = t[i].label.name
  <2>1. /\ i + 1 \in Labels(w) /\ Rank(w, i + 1) = Rank(t, i) /\ w[i + 1] = t[i]
        /\ Rank(t, i) \in 1 .. c
    BY <1>2
  <2> QED BY <1>3, <1>4, <2>1
<1> QED BY <1>1, <1>4, <1>5 DEF Named
-----------------------------------------------------------------------------
(* Labelled statements *)

\* A step that keeps the flags, adds a label and puts its entry on the stack.
LabelBelow(name, a, b) ==
    /\ Len(p'.scopes) = Len(p.scopes)
    /\ \A k \in 2 .. Len(p.scopes) : p'.scopes[k] = p.scopes[k]
    /\ \A f \in Toggles : p'.scopes[1][f] = p.scopes[1][f]
    /\ p'.scopes[1].labels = Append(p.scopes[1].labels, name)
    /\ Grown(todo', Tail(todo)) /\ Len(todo') - Len(Tail(todo)) = 2
    /\ todo'[1] = a /\ todo'[2] = b
    /\ Common(a) /\ b.at = "LabelledMade" /\ b.label.name = name

LEMMA FlagsLabel ==
    ASSUME Sound, OnStep, Balanced(p, todo), NEW D, FlagsInv(p, todo, D), Common(Top),
           NEW name, NEW a, NEW b, LabelBelow(name, a, b)
    PROVE  FlagsInv(p', todo', D)
<1>1. PICK t, u, S, R : t = Tail(todo) /\ u = todo' /\ S = p.scopes /\ R = p'.scopes
  OBVIOUS
<1>2. /\ todo # <<>> /\ Mild(Top) /\ Top.at \notin {"FunctionEnd", "LabelledMade"}
      /\ Mild(a) /\ a.at \notin StateKinds
  BY OnFacts, CommonMild DEF LabelBelow, Mild
<1>3. /\ FlagFrames(t, S, D) /\ Depth(todo) = Depth(t)
      /\ \A f \in Toggles : Claimed(f, t, D) => S[1][f] = Over(Top, t, f)
      /\ Named(S[1].labels, t)
      /\ ~p.errors => 0 .. Depth(t) \subseteq D
  BY <1>1, <1>2, Before
<1>4. Toggles \subseteq Tracked
  BY DEF Toggles
<1>5. \A f \in Toggles : Claimed(f, t, D) => S[1][f] = FlagOf(t, f)
  BY <1>2, <1>3, <1>4, MildOver
<1>6. /\ Grown(u, t) /\ Len(u) - Len(t) = 2 /\ u[1] = a /\ u[2] = b
      /\ Common(a) /\ b.at = "LabelledMade" /\ b.label.name = name
      /\ Len(R) = Len(S) /\ \A k \in 2 .. Len(S) : R[k] = S[k]
      /\ \A f \in Toggles : R[1][f] = S[1][f]
      /\ R[1].labels = Append(S[1].labels, name)
  BY <1>1 DEF LabelBelow
<1>7. PICK w : w = After(u, 1)
  OBVIOUS
<1>8. /\ Grown(w, t) /\ Grown(u, w)
      /\ Added(w, t) = {b} /\ Added(u, w) = {a}
  <2>1. 1 \in 0 .. Len(u) - Len(t)
    BY <1>6
  <2>2. /\ Grown(w, t) /\ Added(w, t) = {u[i] : i \in 1 + 1 .. Len(u) - Len(t)}
        /\ Grown(u, w) /\ Added(u, w) = {u[i] : i \in 1 .. 1}
    BY <1>6, <1>7, <2>1, GrownCut
  <2>3. {u[i] : i \in 1 + 1 .. Len(u) - Len(t)} = {b} /\ {u[i] : i \in 1 .. 1} = {a}
    BY <1>6
  <2> QED BY <2>2, <2>3
<1>9. Len(w) - Len(t) = 1 /\ w[1] = b /\ After(w, 1) = t
  <2>1. Len(u) \in Nat /\ Len(t) \in Nat /\ IsList(u)
    BY <1>6, GrownParts DEF Grown
  <2>2. 1 \in 0 .. Len(u) /\ 1 \in 1 .. Len(u) - 1
    BY <1>6, <2>1
  <2>3. Len(w) = Len(u) - 1 /\ \A j \in 1 .. Len(u) - 1 : w[j] = u[1 + j]
    BY <1>7, <2>1, <2>2, AfterList
  <2>4. Len(w) - Len(t) = 1 /\ w[1] = b
    BY <1>6, <2>1, <2>2, <2>3
  <2> QED BY <1>8, <2>4 DEF Grown
<1>10. b.at \notin Heads \cup ParamKinds \cup StateKinds \cup {"PutBack", "FunctionEnd"}
  BY <1>6 DEF Heads, ParamKinds, StateKinds
<1>11. Sets(b) = {} /\ \A f \in Toggles : Over(b, t, f) = FlagOf(t, f)
  BY <1>10 DEF Sets, Over
<1>12. /\ Depth(w) = Depth(t) /\ Depth(t) \in Nat
       /\ \A f \in Toggles : FlagOf(w, f) = FlagOf(t, f)
  <2>1. Sets(b) \subseteq Switches \cup {"inFuncParams"} /\ b.at # "FunctionEnd"
    BY <1>10, <1>11
  <2> QED BY <1>8, <1>11, <2>1, OverTop
<1>13. FlagFrames(t, R, D)
  <2>1. Len(S) = 1 + Depth(t)
    BY <1>1, <1>3 DEF Balanced
  <2>2. IsList(t)
    BY <1>6 DEF Grown
  <2> QED BY <1>3, <1>6, <2>1, <2>2, FramesKept
<1>14. FlagFrames(w, R, D)
  <2>1. FlagLocal(b, t, R, D)
    BY <1>10 DEF FlagLocal
  <2>2. \A i \in 1 .. Len(w) - Len(t) : FlagLocal(w[i], After(w, i), R, D)
    BY <1>9, <2>1
  <2> QED BY <1>8, <1>13, <2>2, FramesGrown
<1>15. Agree(R[1], w, D)
  <2>1. Named(R[1].labels, w)
    <3>1. Named(Append(S[1].labels, name), w)
      BY <1>3, <1>6, <1>8, <1>9, NamedPush
    <3> QED BY <1>6, <3>1
  <2>2. \A f : Claimed(f, w, D) <=> Claimed(f, t, D)
    BY <1>12 DEF Claimed
  <2>3. \A f \in Toggles : Claimed(f, w, D) => R[1][f] = FlagOf(w, f)
    BY <1>5, <1>6, <1>12, <2>2
  <2> QED BY <2>1, <2>3 DEF Agree
<1>16. FlagFrames(u, R, D) /\ Agree(R[1], u, D) /\ Depth(u) = Depth(w)
  BY <1>2, <1>8, <1>14, <1>15, NoneFlagged
<1>17. ~p'.errors => 0 .. Depth(u) \subseteq D
  BY <1>3, <1>12, <1>16, OnFacts
<1> QED BY <1>1, <1>16, <1>17 DEF FlagsInv

LEMMA FlagsExpressionStatement ==
    ASSUME Sound, OnStep, Balanced(p, todo), NEW D, FlagsInv(p, todo, D), ExpressionStatement
    PROVE  FlagsInv(p', todo', D)
<1>1. todo # <<>> /\ Top.at = "ExpressionStatement"
  BY DEF ExpressionStatement, at
<1> DEFINE name == result.name
           labels == Scope(p).labels
           q == ErrorIf(NextToken(p), name \in Range(labels))
           s == [Scope(q) EXCEPT !.labels = Append(labels, name), !.allowLet = FALSE]
           r == SetScope(q, s)
           a == F("Statement")
           b == [at |-> "LabelledMade", label |-> result]
           es == <<a, b>>
<1>2. Ends(RequireSemicolon(p)) \/ Leads(r, es)
  BY Ways, ZenonT(30) DEF ExpressionStatement
<1>3. Common(a) /\ b.at = "LabelledMade" /\ b.label.name = name
  BY DEF F, Common, PlainStmts
<1>4. Common(Top) /\ Mild(Top)
  BY <1>1, CommonTop DEF PlainStmts
<1>5. Reads(p, q)
  <2>1. Quiet(p, NextToken(p))
    BY QuietSame, QuietNextToken
  <2>2. Quiet(p, q)
    BY <2>1, QuietErrorIf
  <2> QED BY <2>2, QuietSame
<1>6. Row(es) /\ DOMAIN es = {1, 2} /\ es[1] = a /\ es[2] = b
  BY RowsMade
<1>7. Len(es) = 2
  OBVIOUS
<1> HIDE DEF es, a, b, q
<1>8. DOMAIN s = FlagNames /\ s.labels = Append(p.scopes[1].labels, name)
      /\ \A f \in Toggles : s[f] = p.scopes[1][f]
  <2>1. DOMAIN Scope(q) = FlagNames
    BY <1>5, ScopeOfWellFormed DEF Reads, Further
  <2>2. "labels" \in FlagNames /\ Toggles \subseteq FlagNames
        /\ \A f \in Toggles : f # "labels" /\ f # "allowLet"
    BY DEF FlagNames, Toggles, Tracked
  <2>3. DOMAIN s = FlagNames /\ s.labels = Append(p.scopes[1].labels, name)
        /\ \A f \in Toggles : s[f] = Scope(q)[f]
    BY <2>1, <2>2 DEF Scope
  <2>4. \A f \in Toggles : Scope(q)[f] = p.scopes[1][f]
    BY <1>5 DEF Reads, SameFlags, Scope, Toggles
  <2> QED BY <2>3, <2>4
<1> HIDE DEF s
<1>9. CASE Ends(RequireSemicolon(p))
  <2>1. p' = RequireSemicolon(p) /\ Added(todo', Tail(todo)) = {}
    BY <1>1, <1>9, Ended
  <2>2. SameFlags(p, p')
    <3>1. Quiet(p, RequireSemicolon(p))
      BY QuietSame, QuietSemicolon
    <3> QED BY <2>1, <3>1, QuietSame
  <2> QED BY <1>4, <2>1, <2>2, OnPlain
<1>10. CASE Leads(r, es)
  <2>1. /\ Len(r.scopes) = Len(q.scopes) /\ r.scopes[1] = s
        /\ \A k \in 2 .. Len(q.scopes) : r.scopes[k] = q.scopes[k]
    BY <1>5, <1>8, SetScopeReads DEF Reads, Further, Sound
  <2>2. Len(r.scopes) = Len(p.scopes) /\ \A k \in 2 .. Len(p.scopes) : r.scopes[k] = p.scopes[k]
    BY <1>5, <2>1 DEF Reads, SameFlags
  <2> HIDE DEF r
  <2>3. p' = r /\ Grown(todo', Tail(todo))
    BY <1>1, <1>6, <1>10, Led
  <2>4. Len(todo') - Len(Tail(todo)) = 2 /\ todo'[1] = a /\ todo'[2] = b
    <3>1. Len(todo') - Len(Tail(todo)) = Len(es) /\ \A i \in DOMAIN es : todo'[i] = es[i]
      BY <1>1, <1>6, <1>10, LedAt
    <3> QED BY <1>6, <1>7, <3>1
  <2>5. LabelBelow(name, a, b)
    BY <1>3, <1>8, <2>1, <2>2, <2>3, <2>4 DEF LabelBelow
  <2> QED BY <1>4, <2>5, FlagsLabel
<1> QED BY <1>2, <1>9, <1>10

LEMMA FlagsLabelledMade ==
    ASSUME Sound, OnStep, Balanced(p, todo), NEW D, FlagsInv(p, todo, D), LabelledMade
    PROVE  FlagsInv(p', todo', D)
<1>1. todo # <<>> /\ Top.at = "LabelledMade"
  BY DEF LabelledMade, at
<1> DEFINE s == [Scope(p) EXCEPT !.labels = Front(@)]
           r == SetScope(p, s)
<1>2. Ends(r)
  BY Ways, ZenonT(30) DEF LabelledMade
<1>3. DOMAIN s = FlagNames /\ s.labels = Front(p.scopes[1].labels)
      /\ \A f \in Toggles : s[f] = p.scopes[1][f]
  <2>1. DOMAIN Scope(p) = FlagNames
    BY ScopeOfWellFormed DEF Sound
  <2>2. "labels" \in FlagNames /\ \A f \in Toggles : f \in FlagNames /\ f # "labels"
    BY DEF FlagNames, Toggles, Tracked
  <2> QED BY <2>1, <2>2 DEF Scope
<1> HIDE DEF s
<1>4. PICK t, u, w, S, R : t = Tail(todo) /\ u = todo' /\ w = todo /\ S = p.scopes /\ R = r.scopes
  OBVIOUS
<1>5. Len(R) = Len(S) /\ R[1] = s /\ \A k \in 2 .. Len(S) : R[k] = S[k]
  BY <1>3, <1>4, SetScopeReads DEF Sound
<1> HIDE DEF r
<1>6. p' = r /\ Grown(u, t) /\ Added(u, t) = {}
  BY <1>1, <1>2, <1>4, Ended
<1>7. /\ FlagFrames(t, S, D) /\ Depth(w) = Depth(t)
      /\ \A f \in Toggles : Claimed(f, t, D) => S[1][f] = Over(Top, t, f)
      /\ ~p.errors => 0 .. Depth(t) \subseteq D
  <2>1. Top.at # "FunctionEnd"
    BY <1>1
  <2> QED BY <1>1, <1>4, <2>1, Before
<1>8. \A f \in Toggles : Over(Top, t, f) = FlagOf(t, f)
  <2>1. Top.at \notin Heads \cup ParamKinds \cup {"PutBack"}
    BY <1>1 DEF Heads, ParamKinds
  <2> QED BY <2>1 DEF Over, Sets
<1>9. Named(Front(S[1].labels), t)
  <2>1. Named(S[1].labels, w)
    BY <1>4 DEF FlagsInv, Agree
  <2>2. Grown(w, t) /\ w[1] = Top
    BY <1>1, <1>4, TopGrown
  <2>3. Len(w) - Len(t) = 1
    <3>1. IsList(w) /\ w # <<>> /\ t = Tail(w)
      BY <1>1, <1>4 DEF Sound, Shape
    <3>2. Len(t) = Len(w) - 1 /\ Len(w) \in Nat \ {0}
      BY <3>1, Popped
    <3> QED BY <3>2
  <2> QED BY <1>1, <2>1, <2>2, <2>3, NamedPop
<1>10. Agree(R[1], t, D)
  BY <1>3, <1>4, <1>5, <1>7, <1>8, <1>9 DEF Agree
<1>11. FlagFrames(t, R, D)
  <2>1. Len(S) = 1 + Depth(t)
    BY <1>4, <1>7 DEF Balanced
  <2>2. IsList(t)
    BY <1>6 DEF Grown
  <2> QED BY <1>5, <1>7, <2>1, <2>2, FramesKept
<1>12. FlagFrames(u, R, D) /\ Agree(R[1], u, D) /\ Depth(u) = Depth(t)
  BY <1>6, <1>10, <1>11, NoneFlagged
<1>13. ~p'.errors => 0 .. Depth(u) \subseteq D
  BY <1>7, <1>12, OnFacts
<1> QED BY <1>4, <1>6, <1>12, <1>13 DEF FlagsInv
-----------------------------------------------------------------------------
(* Steps of expressions that set flags put no statement on the stack *)

LEMMA EndedLayered ==
    ASSUME Sound, todo # <<>>, Layered(todo), NEW q, Ends(q)
    PROVE  Layered(todo')
<1>1. Grown(todo', Tail(todo)) /\ Added(todo', Tail(todo)) = {}
  BY Ended
<1> QED BY <1>1, StepLayered

LEMMA LedLayered ==
    ASSUME Sound, todo # <<>>, Layered(todo), NEW q, NEW es, Leads(q, es), Row(es),
           \A i \in DOMAIN es : es[i].at \notin StmtKinds
    PROVE  Layered(todo')
<1>1. Grown(todo', Tail(todo)) /\ \A e \in Added(todo', Tail(todo)) : \E i \in DOMAIN es : e = es[i]
  BY Led
<1>2. \A e \in Added(todo', Tail(todo)) : e.at \notin StmtKinds
  BY <1>1
<1> QED BY <1>1, <1>2, StepLayered

LEMMA ThreeLayered ==
    ASSUME Sound, todo # <<>>, Layered(todo), NEW q, NEW a, NEW b, NEW c, Leads(q, <<a, b, c>>),
           a.at \notin StmtKinds, b.at \notin StmtKinds, c.at \notin StmtKinds
    PROVE  Layered(todo')
<1> DEFINE es == <<a, b, c>>
<1>1. Row(es) /\ DOMAIN es = {1, 2, 3} /\ es[1] = a /\ es[2] = b /\ es[3] = c
  BY RowThree
<1>2. Leads(q, es)
  OBVIOUS
<1> HIDE DEF es
<1>3. \A i \in DOMAIN es : es[i].at \notin StmtKinds
  BY <1>1
<1> QED BY <1>1, <1>2, <1>3, LedLayered

LEMMA TwoLayered ==
    ASSUME Sound, todo # <<>>, Layered(todo), NEW q, NEW a, NEW b, Leads(q, <<a, b>>),
           a.at \notin StmtKinds, b.at \notin StmtKinds
    PROVE  Layered(todo')
<1> DEFINE es == <<a, b>>
<1>1. Row(es) /\ DOMAIN es = {1, 2} /\ es[1] = a /\ es[2] = b
  BY RowsMade
<1>2. Leads(q, es)
  OBVIOUS
<1> HIDE DEF es
<1>3. \A i \in DOMAIN es : es[i].at \notin StmtKinds
  BY <1>1
<1> QED BY <1>1, <1>2, <1>3, LedLayered

LEMMA OneLayered ==
    ASSUME Sound, todo # <<>>, Layered(todo), NEW q, NEW a, Leads(q, <<a>>), a.at \notin StmtKinds
    PROVE  Layered(todo')
<1> DEFINE es == <<a>>
<1>1. Row(es) /\ DOMAIN es = {1} /\ es[1] = a
  BY RowsMade
<1>2. Leads(q, es)
  OBVIOUS
<1> HIDE DEF es
<1>3. \A i \in DOMAIN es : es[i].at \notin StmtKinds
  BY <1>1
<1> QED BY <1>1, <1>2, <1>3, LedLayered

LEMMA NotStatements ==
    \A kind \in {"Assignment", "Alternate", "PutBack", "Links", "Primary", "New", "Declaration",
                 "NextParameter", "ParameterMade", "RestParameter"} : kind \notin StmtKinds
BY DEF StmtKinds, PlainStmts, ListKinds, CaseKinds, Heads

LEMMA LayeredConditionalRest ==
    ASSUME Sound, Layered(todo), ConditionalRest
    PROVE  Layered(todo')
<1>1. todo # <<>>
  BY DEF ConditionalRest, at
<1> DEFINE q == with(NextToken(p), Flag("allowIn", TRUE))
           a == F("Assignment")
           b == putBack(saved({"allowIn"}))
           c == [at |-> "Alternate", test |-> result]
<1>2. Ends(p) \/ Leads(q, <<a, b, c>>)
  BY Ways, ZenonT(30) DEF ConditionalRest
<1>3. a.at \notin StmtKinds /\ b.at \notin StmtKinds /\ c.at \notin StmtKinds
  BY NotStatements DEF F, putBack
<1> HIDE DEF a, b, c, q
<1> QED BY <1>1, <1>2, <1>3, EndedLayered, ThreeLayered

LEMMA LayeredLeftHandSide ==
    ASSUME Sound, Layered(todo), LeftHandSide
    PROVE  Layered(todo')
<1>1. todo # <<>>
  BY DEF LeftHandSide, at
<1> DEFINE q == with(p, Flag("allowIn", TRUE))
           a == base(p)
           b == [at |-> "Links", calls |-> TRUE, chain |-> FALSE]
           c == putBack(saved({"allowIn"}))
<1>2. Leads(q, <<a, b, c>>)
  BY Ways, ZenonT(30) DEF LeftHandSide
<1>3. a.at \notin StmtKinds /\ b.at \notin StmtKinds /\ c.at \notin StmtKinds
  BY NotStatements DEF F, base, putBack
<1> HIDE DEF a, b, c, q
<1> QED BY <1>1, <1>2, <1>3, ThreeLayered

LEMMA LayeredParameterList ==
    ASSUME Sound, Layered(todo), ParameterList
    PROVE  Layered(todo')
<1>1. todo # <<>>
  BY DEF ParameterList, at
<1> DEFINE n == Len(p["declBuf"])
           q == with(Expect(p, "("), Flag("inFuncParams", TRUE))
           e == [at |-> "NextParameter", mark |-> n, flags |-> saved({"inFuncParams"})]
<1>2. Leads(q, <<e>>)
  <2>1. n = Len(p.declBuf)
    OBVIOUS
  <2> QED BY <2>1, Ways, ZenonT(30) DEF ParameterList
<1>3. e.at \notin StmtKinds
  BY NotStatements
<1> HIDE DEF e, q
<1> QED BY <1>1, <1>2, <1>3, OneLayered

LEMMA LayeredNextParameter ==
    ASSUME Sound, Layered(todo), NextParameter
    PROVE  Layered(todo')
<1>1. todo # <<>>
  BY DEF NextParameter, at
<1>2. "at" \in DOMAIN Top
  BY <1>1, TopPopped
<1> DEFINE a == F("Assignment")
           b == F("Declaration")
           x == [Top EXCEPT !.at = "RestParameter"]
           y == [Top EXCEPT !.at = "ParameterMade"]
<1>3. finishParameters(p, None) \/ Leads(NextToken(p), <<a, x>>) \/ Leads(p, <<b, y>>)
  BY Ways, ZenonT(30) DEF NextParameter
<1>4. /\ a.at \notin StmtKinds /\ b.at \notin StmtKinds
      /\ x.at \notin StmtKinds /\ y.at \notin StmtKinds
  BY <1>2, NotStatements DEF F
<1>5. finishParameters(p, None) => \E q : Ends(q)
  BY Ways, ZenonT(30) DEF finishParameters
<1> HIDE DEF a, b, x, y
<1> QED BY <1>1, <1>3, <1>4, <1>5, EndedLayered, TwoLayered

LEMMA LayeredParameterMade ==
    ASSUME Sound, Layered(todo), ParameterMade
    PROVE  Layered(todo')
<1>1. todo # <<>>
  BY DEF ParameterMade, at
<1>2. "at" \in DOMAIN Top
  BY <1>1, TopPopped
<1> DEFINE q == separated(Push(p, "declBuf", result), ")")
           e == [Top EXCEPT !.at = "NextParameter"]
<1>3. Leads(q, <<e>>)
  BY Ways, ZenonT(30) DEF ParameterMade
<1>4. e.at \notin StmtKinds
  BY <1>2, NotStatements
<1> HIDE DEF e, q
<1> QED BY <1>1, <1>3, <1>4, OneLayered

LEMMA LayeredEnding ==
    ASSUME Sound, Layered(todo), PutBack \/ FunctionEnd \/ RestParameter
    PROVE  Layered(todo')
<1>1. todo # <<>>
  BY DEF PutBack, FunctionEnd, RestParameter, at
<1>2. PutBack => \E q : Ends(q)
  BY Ways, Zenon DEF PutBack
<1>3. FunctionEnd => \E q : Ends(q)
  BY Ways, ZenonT(30) DEF FunctionEnd
<1>4. \A q, rest1 : finishParameters(q, rest1) => \E r : Ends(r)
  BY Ways, ZenonT(30) DEF finishParameters
<1>5. RestParameter => \E q, rest1 : finishParameters(q, rest1)
  BY Zenon DEF RestParameter
<1> QED BY <1>1, <1>2, <1>3, <1>4, <1>5, EndedLayered

-----------------------------------------------------------------------------
(* Every step *)

LEMMA TunedFlags ==
    ASSUME Sound, InOrder(p, todo), Balanced(p, todo), Layered(todo), NEW D,
           FlagsInv(p, todo, D), OnStep, Tuned
    PROVE  (\E C : FlagsInv(p', todo', C)) /\ Layered(todo')
<1>1. CASE \/ PutBack \/ ConditionalRest \/ LeftHandSide \/ ParameterList \/ NextParameter
           \/ ParameterMade \/ RestParameter \/ FunctionEnd
  <2>1. FlagsInv(p', todo', D)
    BY <1>1, FlagsPutBack, FlagsConditionalRest, FlagsLeftHandSide, FlagsParameterList,
       FlagsNextParameter, FlagsParameterMade, FlagsRestParameter, FlagsFunctionEnd
  <2>2. Layered(todo')
    BY <1>1, LayeredEnding, LayeredConditionalRest, LayeredLeftHandSide, LayeredParameterList,
       LayeredNextParameter, LayeredParameterMade
  <2> QED BY <2>1, <2>2
<1>2. CASE FunctionBlock
  BY <1>2, FlagsFunctionBlock
<1>3. CASE \/ ExpressionStatement \/ LabelledMade \/ HeadMade \/ DoStatement \/ ForStatement
           \/ ForDeclared \/ ForExpression \/ ForEach \/ ForUpdate
  <2>1. \E C : FlagsInv(p', todo', C)
    BY <1>3, FlagsExpressionStatement, FlagsLabelledMade, FlagsHeadMade, FlagsDoStatement,
       FlagsForStatement, FlagsForDeclared, FlagsForExpression, FlagsForEach, FlagsForUpdate
  <2>2. Top.at \in {"ExpressionStatement", "LabelledMade", "HeadMade", "do", "for",
                    "ForDeclared", "ForExpression", "ForEach", "ForUpdate"}
    BY <1>3 DEF ExpressionStatement, LabelledMade, HeadMade, DoStatement, ForStatement,
                ForDeclared, ForExpression, ForEach, ForUpdate, at
  <2>3. Top.at \in StmtKinds
    BY <2>2 DEF StmtKinds, PlainStmts, Heads
  <2> QED BY <2>1, <2>3, OnLayered
<1> QED BY <1>1, <1>2, <1>3 DEF Tuned

Follows(q, t) == Layered(t) /\ \E D : FlagsInv(q, t, D)

LEMMA FollowsStep ==
    ASSUME Sound, InOrder(p, todo), Balanced(p, todo), Follows(p, todo), ParseStep
    PROVE  Follows(p', todo')
<1>1. AnyStep
  BY ParseExpressionSteps, ParseDefinitionSteps, ParseStatementSteps DEF ParseStep
<1>2. PICK D : FlagsInv(p, todo, D)
  BY DEF Follows
<1>3. Layered(todo)
  BY DEF Follows
<1>4. (\E C : FlagsInv(p', todo', C)) /\ Layered(todo')
  BY <1>1, <1>2, <1>3, CalmFlags, CalmLayered, PatchFlags, PatchLayered, StatementsFlags,
     StatementsLayered, StatesFlags, StatesLayered, TunedFlags DEF AnyStep
<1> QED BY <1>4 DEF Follows
-----------------------------------------------------------------------------
(* What it is at first, what it says *)

LEMMA FollowsBegins ==
    ASSUME Init
    PROVE  Follows(p, todo)
<1>1. PICK t : t = todo
  OBVIOUS
<1>2. Len(t) = 1 /\ t[1].at = "NextStatement"
  BY <1>1 DEF Init, program
<1>3. \A i \in 1 .. Len(t) : i = 1
  BY <1>2
<1>4. Enders(t) = {}
  BY <1>2, <1>3 DEF Enders
<1>5. Depth(t) = 0
  BY <1>4, FS_EmptySet DEF Depth
<1>6. /\ "NextStatement" \notin ParamKinds \cup Heads \cup StateKinds
      /\ "NextStatement" \notin {"PutBack", "FunctionEnd", "LabelledMade"}
  BY DEF ParamKinds, Heads, StateKinds
<1>7. \A i \in Own(t) : t[i].at = "NextStatement"
  BY <1>2, <1>3 DEF Own
<1>8. (\A f : ~Held(t, f)) /\ ~Blocked(t) /\ Labels(t) = {}
  BY <1>6, <1>7 DEF Held, Blocked, Labels, Sets
<1>9. PICK S, D : S = p.scopes /\ D = {0}
  OBVIOUS
<1>10. S[1] = scope0 /\ ~p.errors
  BY <1>9 DEF Init, NewParser
<1>11. FlagFrames(t, S, D)
  BY <1>2, <1>3, <1>6 DEF FlagFrames, FlagLocal
<1>12. Named(<<>>, t)
  BY <1>8, EmptyIsList, FS_EmptySet DEF Named
<1>13. ASSUME NEW f \in Toggles PROVE scope0[f] = FlagOf(t, f)
  <2>1. CASE f = "allowIn"
    <3>1. scope0.allowIn = TRUE
      BY DEF scope0
    <3> QED BY <1>8, <2>1, <3>1 DEF FlagOf, On
  <2>2. CASE f # "allowIn"
    <3>1. f \in {"inIteration", "inSwitch", "inFuncParams", "inFunction"}
      BY <2>2 DEF Toggles, Tracked
    <3>2. scope0[f] = FALSE
      BY <3>1 DEF scope0
    <3>3. ~On(t, f)
      BY <1>5, <1>8, <2>2 DEF On
    <3> QED BY <3>2, <3>3 DEF FlagOf
  <2> QED BY <2>1, <2>2
<1>14. Agree(S[1], t, D)
  <2>1. scope0.labels = <<>>
    BY DEF scope0
  <2> QED BY <1>10, <1>12, <1>13, <2>1 DEF Agree
<1>15. 0 .. Depth(t) \subseteq D
  BY <1>5, <1>9
<1>16. Layered(t)
  BY <1>3 DEF Layered
<1> QED BY <1>1, <1>9, <1>11, <1>14, <1>15, <1>16 DEF Follows, FlagsInv

LEMMA FollowsKept ==
    IInv /\ Follows(p, todo) /\ [Next]_vars => Follows(p, todo)'
<1> SUFFICES ASSUME IInv, Follows(p, todo), [Next]_vars PROVE Follows(p', todo')
  OBVIOUS
<1>1. CASE Next
  <2>1. ParseStep
    BY <1>1 DEF Next
  <2> QED BY <2>1, SoundInv, FollowsStep
<1>2. CASE UNCHANGED vars
  BY <1>2 DEF vars
<1> QED BY <1>1, <1>2

LEMMA FollowsSaid ==
    IInv /\ Follows(p, todo) => FlagsFollowCalls
<1> SUFFICES ASSUME IInv, Follows(p, todo), ~p.errors PROVE FlagsFollowCalls
  BY DEF FlagsFollowCalls
<1>1. PICK t, s : t = todo /\ s = p.scopes[1]
  OBVIOUS
<1>2. PICK D : FlagsInv(p, t, D)
  BY <1>1 DEF Follows
<1>3. IsList(t) /\ DOMAIN t = 1 .. Len(t) /\ Len(t) \in Nat
  <2>1. IsList(t)
    BY <1>1 DEF IInv, Inv, Shape
  <2> QED BY <2>1, ListElim
<1>4. Len(p.scopes) = 1 + Depth(t) /\ Depth(t) \in Nat /\ (Depth(t) = 0 <=> Enders(t) = {})
  <2>1. Len(p.scopes) = 1 + Depth(t)
    BY <1>1 DEF IInv, Inv, Balanced
  <2>2. PICK n, A : n = Len(t) /\ A = Enders(t)
    OBVIOUS
  <2>3. n \in Nat /\ A \in SUBSET (1 .. n)
    BY <1>3, <2>2 DEF Enders
  <2>4. Cardinality(A) \in Nat /\ (A = {} <=> Cardinality(A) = 0)
    BY <2>3, ShiftedSet
  <2> QED BY <2>1, <2>2, <2>4 DEF Depth
<1>5. \A f \in Toggles : s[f] = FlagOf(t, f)
  <2>1. Depth(t) \in D
    BY <1>1, <1>2, <1>4 DEF FlagsInv
  <2> QED BY <1>1, <1>2, <2>1 DEF FlagsInv, Agree, Claimed
<1>6. Named(s.labels, t)
  BY <1>1, <1>2 DEF FlagsInv, Agree
<1>7. /\ Enders(t) = {i \in DOMAIN todo : todo[i].at = "FunctionEnd"}
      /\ Own(t) = {i \in DOMAIN todo :
                     \A j \in {k \in DOMAIN todo : todo[k].at = "FunctionEnd"} : i <= j}
  BY <1>1, <1>3 DEF Enders, Own
<1> DEFINE set(f) == {i \in Own(t) : t[i].at = "PutBack" /\ f \in DOMAIN t[i].flags}
           frame(names) == {i \in Own(t) : t[i].at \in names}
<1>8. ASSUME NEW i \in Own(t), t[i].at = "PutBack" PROVE "inFuncParams" \notin DOMAIN t[i].flags
  <2>1. FlagLocal(t[i], After(t, i), p.scopes, D)
    BY <1>2, <1>8 DEF FlagsInv, FlagFrames, Own
  <2> QED BY <1>8, <2>1 DEF FlagLocal, Switches, Tracked
<1>9. \A f \in Switches : \A i \in Own(t) : f \in Sets(t[i]) <=> i \in set(f)
  <2>1. Switches \subseteq Tracked /\ "inFuncParams" \notin Switches /\ "PutBack" \notin ParamKinds
    BY DEF Switches, Tracked, ParamKinds
  <2> QED BY <2>1 DEF Sets
<1>10. \A i \in Own(t) : "inFuncParams" \in Sets(t[i]) <=> i \in frame(ParamKinds)
  <2>1. "PutBack" \notin ParamKinds
    BY DEF ParamKinds
  <2> QED BY <1>8, <2>1 DEF Sets
<1>11. s.inFunction = (Enders(t) # {})
  BY <1>4, <1>5 DEF Toggles, Tracked, FlagOf, On
<1>12. s.allowIn = ~(\E i \in frame(Heads) : \A j \in set("allowIn") : i < j)
  <2>1. Blocked(t) <=> \E i \in frame(Heads) : \A j \in set("allowIn") : i < j
    <3>1. "allowIn" \in Switches
      BY DEF Switches
    <3>2. \A j \in Own(t) : "allowIn" \in Sets(t[j]) <=> j \in set("allowIn")
      BY <1>9, <3>1
    <3> QED BY <3>2 DEF Blocked
  <2>2. s.allowIn = FlagOf(t, "allowIn")
    BY <1>5 DEF Toggles, Tracked
  <2> HIDE DEF set, frame
  <2> QED BY <2>1, <2>2 DEF FlagOf, On
<1>13. \A f \in {"inIteration", "inSwitch"} : s[f] = (set(f) # {})
  <2> SUFFICES ASSUME NEW f \in {"inIteration", "inSwitch"} PROVE s[f] = (set(f) # {})
    OBVIOUS
  <2>1. f \in Switches /\ s[f] = FlagOf(t, f) /\ f # "inFunction" /\ f # "allowIn"
    BY <1>5 DEF Switches, Toggles, Tracked
  <2>2. Held(t, f) <=> set(f) # {}
    BY <1>9, <2>1 DEF Held
  <2> HIDE DEF set
  <2> QED BY <2>1, <2>2 DEF FlagOf, On
<1>14. s.inFuncParams = (frame(ParamKinds) # {})
  <2>1. s.inFuncParams = FlagOf(t, "inFuncParams")
    BY <1>5 DEF Toggles, Tracked
  <2>2. Held(t, "inFuncParams") <=> frame(ParamKinds) # {}
    BY <1>10 DEF Held
  <2> HIDE DEF frame
  <2> QED BY <2>1, <2>2 DEF FlagOf, On
<1>15. /\ Labels(t) = frame({"LabelledMade"})
       /\ Len(s.labels) = Cardinality(Labels(t))
       /\ \A i \in Labels(t) : s.labels[Cardinality({j \in Labels(t) : i <= j})] = t[i].label.name
  BY <1>6 DEF Named, Labels, Rank
<1>16. Len(p.scopes) = 1 + Cardinality(Enders(t))
  BY <1>4 DEF Depth
<1>17. s.inIteration = (set("inIteration") # {}) /\ s.inSwitch = (set("inSwitch") # {})
  BY <1>13
<1>18. Heads = {"ForDeclared", "ForExpression"}
       /\ ParamKinds = {"NextParameter", "ParameterMade", "RestParameter"}
  BY DEF Heads, ParamKinds
<1> DEFINE ends == {i \in DOMAIN todo : todo[i].at = "FunctionEnd"}
           own  == {i \in DOMAIN todo : \A j \in ends : i <= j}
           sets(f) == {i \in own : todo[i].at = "PutBack" /\ f \in DOMAIN todo[i].flags}
           framed(names) == {i \in own : todo[i].at \in names}
           labels == framed({"LabelledMade"})
<1>19. /\ ends = Enders(t) /\ \A f : sets(f) = set(f)
       /\ \A names : framed(names) = frame(names)
  <2>1. ends = Enders(t) /\ own = Own(t)
    BY <1>7
  <2> HIDE DEF own, ends
  <2> QED BY <1>1, <2>1
<1>20. labels = Labels(t) /\ Scope(p) = s
  <2>1. labels = frame({"LabelledMade"})
    BY <1>19
  <2> QED BY <1>1, <1>15, <2>1 DEF Scope
<1>21. \A i \in labels : todo[i] = t[i]
  BY <1>1
<1> HIDE DEF ends, sets, framed, labels, set, frame
<1>22. /\ Len(p.scopes) = 1 + Cardinality(ends)
       /\ Scope(p).inFunction = (ends # {})
       /\ Scope(p).inIteration = (sets("inIteration") # {})
       /\ Scope(p).inSwitch = (sets("inSwitch") # {})
  BY <1>11, <1>16, <1>17, <1>19, <1>20
<1>23. /\ Scope(p).allowIn = ~(\E i \in framed({"ForDeclared", "ForExpression"}) :
                                  \A j \in sets("allowIn") : i < j)
       /\ Scope(p).inFuncParams =
             (framed({"NextParameter", "ParameterMade", "RestParameter"}) # {})
  BY <1>12, <1>14, <1>18, <1>19, <1>20
<1>24. /\ Len(Scope(p).labels) = Cardinality(labels)
       /\ \A i \in labels :
             Scope(p).labels[Cardinality({j \in labels : i <= j})] = todo[i].label.name
  BY <1>15, <1>20, <1>21
<1> QED
  BY <1>22, <1>23, <1>24 DEF FlagsFollowCalls, ends, own, sets, framed, labels

\* The flags of the scope (scope.go) are those of the calls being made: what each call sets by
\* hand, and puts back by hand when it returns, is never left behind nor lost on the way.
THEOREM FlagsAlwaysFollowCalls == Spec => []FlagsFollowCalls
<1>1. Init => Follows(p, todo)
  BY FollowsBegins
<1>2. IInv /\ Follows(p, todo) /\ [Next]_vars => Follows(p, todo)'
  BY FollowsKept
<1>3. IInv /\ Follows(p, todo) => FlagsFollowCalls
  BY FollowsSaid
<1> QED BY <1>1, <1>2, <1>3, AlwaysSound, PTL DEF Spec
=============================================================================
