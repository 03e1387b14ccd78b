------------------------------- MODULE Values -------------------------------
(***************************************************************************)
(* What is known of a value before the program runs (ast/ext/value.go):    *)
(* Known(v), or Unknown. The zero value of the Go struct is a known one.   *)
(* And, Or and Not compute with truth values of which some are not known.  *)
(***************************************************************************)
EXTENDS Integers, TLAPS

Known(v)      == [val |-> v, unknown |-> FALSE]
Unknown(zero) == [val |-> zero, unknown |-> TRUE]

IsKnown(v, val) == v = Known(val)

UnknownBool == Unknown(FALSE)
ZeroBool    == Known(FALSE)           \* BoolValue{}
BoolValue   == [val : BOOLEAN, unknown : BOOLEAN]

And(v, other) ==
    IF v.unknown
    THEN IF other.unknown \/ other.val THEN UnknownBool ELSE Known(FALSE)
    ELSE IF ~v.val THEN Known(FALSE) ELSE other

\* Seeded fault: what is not known is left out of the disjunction.
OrIgnoringUnknown(v, other) == IF v.unknown THEN other ELSE Known(v.val \/ other.val)

Or(v, other) ==
    IF v.unknown
    THEN IF other.unknown \/ ~other.val THEN UnknownBool ELSE Known(TRUE)
    ELSE IF v.val THEN Known(TRUE) ELSE other

Not(v) == IF v.unknown THEN v ELSE Known(~v.val)

\* The truth values that v stands for.
Meanings(v) == IF v.unknown THEN BOOLEAN ELSE {v.val}

\* Types. mayBeStr: a sum with a value of the type may be a concatenation.
NoType == "nil"
Types  == {"undefined", "null", "boolean", "string", "number", "object"}
mayBeStr(type) == type \notin {"boolean", "null", "number", "undefined"}

\* float64, as far as the casts look at it: zero, other finite numbers,
\* infinities and NaN. Quotients that are no integers keep their sign only.
Fin(n)   == [n |-> n, s |-> <<>>]
NaN      == [n |-> 0, s |-> <<"NaN">>]
Inf(sign) == [n |-> sign, s |-> <<"Infinity">>]
isNaN(f) == f.s = <<"NaN">>
Negate(f) == [f EXCEPT !.n = 0 - @]
FloatZero == Fin(0)

\* Go's != on float64: NaN differs from everything, itself included.
Differs(f, g) == isNaN(f) \/ isNaN(g) \/ f # g

-----------------------------------------------------------------------------
\* And, Or and Not lose nothing and claim nothing: a result can be true, or false,
\* exactly if values that the operands stand for make it so.

mayBe(b, v) == b \in Meanings(v)

\* What a value may be.
LEMMA MeaningsOf ==
  ASSUME NEW v \in BoolValue
  PROVE  /\ mayBe(TRUE, v)  <=> v.unknown \/ v.val
         /\ mayBe(FALSE, v) <=> v.unknown \/ ~v.val
         /\ v.val \in BOOLEAN /\ v.unknown \in BOOLEAN
<1>1. v.val \in BOOLEAN /\ v.unknown \in BOOLEAN
  BY DEF BoolValue
<1>2. CASE v.unknown
  BY <1>1, <1>2 DEF mayBe, Meanings
<1>3. CASE ~v.unknown
  BY <1>1, <1>3 DEF mayBe, Meanings
<1> QED
  BY <1>1, <1>2, <1>3

\* The values that And, Or and Not make of others.
LEMMA ResultsAreValues ==
  ASSUME NEW v \in BoolValue, NEW w \in BoolValue
  PROVE  And(v, w) \in BoolValue /\ Or(v, w) \in BoolValue /\ Not(v) \in BoolValue
BY DEF And, Or, Not, Known, Unknown, UnknownBool, BoolValue

\* And (value.go) may be true if both operands may, false if one may.
THEOREM AndIsExact ==
  \A v, w \in BoolValue :
     /\ mayBe(TRUE, And(v, w))  <=> mayBe(TRUE, v) /\ mayBe(TRUE, w)
     /\ mayBe(FALSE, And(v, w)) <=> mayBe(FALSE, v) \/ mayBe(FALSE, w)
<1> SUFFICES ASSUME NEW v \in BoolValue, NEW w \in BoolValue
             PROVE  /\ mayBe(TRUE, And(v, w))  <=> mayBe(TRUE, v) /\ mayBe(TRUE, w)
                    /\ mayBe(FALSE, And(v, w)) <=> mayBe(FALSE, v) \/ mayBe(FALSE, w)
  OBVIOUS
<1>1. And(v, w) \in BoolValue
  BY ResultsAreValues
<1>2. /\ And(v, w).unknown \/ And(v, w).val
           <=> (v.unknown \/ v.val) /\ (w.unknown \/ w.val)
      /\ And(v, w).unknown \/ ~And(v, w).val
           <=> (v.unknown \/ ~v.val) \/ (w.unknown \/ ~w.val)
  BY DEF And, Known, Unknown, UnknownBool, BoolValue
<1> QED
  BY <1>1, <1>2, MeaningsOf

\* Or (value.go) may be true if one operand may, false if both may.
THEOREM OrIsExact ==
  \A v, w \in BoolValue :
     /\ mayBe(TRUE, Or(v, w))  <=> mayBe(TRUE, v) \/ mayBe(TRUE, w)
     /\ mayBe(FALSE, Or(v, w)) <=> mayBe(FALSE, v) /\ mayBe(FALSE, w)
<1> SUFFICES ASSUME NEW v \in BoolValue, NEW w \in BoolValue
             PROVE  /\ mayBe(TRUE, Or(v, w))  <=> mayBe(TRUE, v) \/ mayBe(TRUE, w)
                    /\ mayBe(FALSE, Or(v, w)) <=> mayBe(FALSE, v) /\ mayBe(FALSE, w)
  OBVIOUS
<1>1. Or(v, w) \in BoolValue
  BY ResultsAreValues
<1>2. /\ Or(v, w).unknown \/ Or(v, w).val
           <=> (v.unknown \/ v.val) \/ (w.unknown \/ w.val)
      /\ Or(v, w).unknown \/ ~Or(v, w).val
           <=> (v.unknown \/ ~v.val) /\ (w.unknown \/ ~w.val)
  BY DEF Or, Known, Unknown, UnknownBool, BoolValue
<1> QED
  BY <1>1, <1>2, MeaningsOf

\* Not (value.go) may be true if its operand may be false, and conversely.
THEOREM NotIsExact ==
  \A v \in BoolValue :
     /\ mayBe(TRUE, Not(v))  <=> mayBe(FALSE, v)
     /\ mayBe(FALSE, Not(v)) <=> mayBe(TRUE, v)
<1> SUFFICES ASSUME NEW v \in BoolValue
             PROVE  /\ mayBe(TRUE, Not(v))  <=> mayBe(FALSE, v)
                    /\ mayBe(FALSE, Not(v)) <=> mayBe(TRUE, v)
  OBVIOUS
<1>1. Not(v) \in BoolValue
  BY ResultsAreValues
<1>2. /\ Not(v).unknown \/ Not(v).val <=> v.unknown \/ ~v.val
      /\ Not(v).unknown \/ ~Not(v).val <=> v.unknown \/ v.val
  BY DEF Not, Known, BoolValue
<1> QED
  BY <1>1, <1>2, MeaningsOf
=============================================================================
