---------------------------- MODULE ParserProofs ----------------------------
(***************************************************************************)
(* Proofs about Parser: what holds of the parser's state on every text,    *)
(* right or wrong.                                                         *)
(*                                                                         *)
(* The stack of calls under way is a list of entries, and a step replaces  *)
(* the entry on top by others. So the argument goes in three rounds. What  *)
(* the helpers of ParserState do to a state is said once, as relations     *)
(* between a state and a later one (Reads, Quiet, Sized). Each action is   *)
(* shown to be a step of one of a few forms, by these relations and by the *)
(* kinds of the entries it puts on the stack (PlainStep, ListStep, ...,    *)
(* OpensStep, BackStep). The invariants are shown of the forms, not of the *)
(* actions: an entry that no invariant is about changes nothing, so that   *)
(* what is left are the entries with a mark, a state to go back to or a    *)
(* scope.                                                                  *)
(***************************************************************************)
EXTENDS Parser, DataLemmas

-----------------------------------------------------------------------------
(* Lists and stacks *)

IsList(s) == s \in Seq(Range(s))

After(t, i) == SubSeq(t, i + 1, Len(t))

LEMMA ListIntro ==
    ASSUME NEW S, NEW s \in Seq(S)
    PROVE  IsList(s) /\ Len(s) \in Nat /\ DOMAIN s = 1 .. Len(s)
<1>1. Len(s) \in Nat /\ DOMAIN s = 1 .. Len(s)
  OBVIOUS
<1>2. \A i \in 1 .. Len(s) : s[i] \in Range(s)
  BY <1>1 DEF Range
<1>3. s = [i \in 1 .. Len(s) |-> s[i]]
  OBVIOUS
<1> QED BY <1>1, <1>2, <1>3 DEF IsList

LEMMA ListElim ==
    ASSUME NEW s, IsList(s)
    PROVE  /\ s \in Seq(Range(s)) /\ Len(s) \in Nat /\ DOMAIN s = 1 .. Len(s)
           /\ s = <<>> <=> Len(s) = 0
BY DEF IsList

LEMMA EmptyIsList == IsList(<<>>)
<1>1. <<>> \in Seq({})
  OBVIOUS
<1> QED BY <1>1, ListIntro

LEMMA AppendList ==
    ASSUME NEW s, IsList(s), NEW v
    PROVE  /\ IsList(Append(s, v))
           /\ Len(Append(s, v)) = Len(s) + 1
           /\ \A i \in 1 .. Len(s) : Append(s, v)[i] = s[i]
           /\ Append(s, v)[Len(s) + 1] = v
<1> DEFINE S == Range(s) \cup {v}
<1>1. s \in Seq(S) /\ v \in S
  BY ListElim
<1>2. Append(s, v) \in Seq(S)
  BY <1>1
<1>3. IsList(Append(s, v))
  BY <1>2, ListIntro
<1> QED BY <1>1, <1>3

LEMMA PrefixList ==
    ASSUME NEW s, IsList(s), NEW k \in 0 .. Len(s)
    PROVE  /\ IsList(SubSeq(s, 1, k)) /\ Len(SubSeq(s, 1, k)) = k
           /\ k = Len(s) => SubSeq(s, 1, k) = s
<1>1. s \in Seq(Range(s)) /\ Len(s) \in Nat
  BY ListElim
<1>2. SubSeq(s, 1, k) \in Seq(Range(s)) /\ Len(SubSeq(s, 1, k)) = k
  BY <1>1, PrefixProperties
<1>3. SubSeq(s, 1, Len(s)) = s
  BY <1>1
<1> QED BY <1>1, <1>2, <1>3, ListIntro

\* An entry on top of a stack.
LEMMA Pushed ==
    ASSUME NEW t, IsList(t), NEW e
    PROVE  LET u == <<e>> \o t
           IN  /\ IsList(u) /\ Len(u) = Len(t) + 1 /\ u # <<>>
               /\ u[1] = e /\ Head(u) = e /\ Tail(u) = t
               /\ \A i \in 1 .. Len(t) : u[i + 1] = t[i]
               /\ After(u, 1) = t
               /\ \A i \in 1 .. Len(t) : After(u, i + 1) = After(t, i)
<1> DEFINE S == Range(t) \cup {e}
           u == <<e>> \o t
<1>1. t \in Seq(S) /\ <<e>> \in Seq(S) /\ Len(t) \in Nat
  BY ListElim
<1>2. u \in Seq(S) /\ Len(u) = Len(t) + 1 /\ u[1] = e
      /\ \A i \in 1 .. Len(t) : u[i + 1] = t[i]
  BY <1>1
<1>3. IsList(u) /\ u # <<>>
  <2>1. Len(u) # 0
    BY <1>1, <1>2
  <2>2. Len(<<>>) = 0
    OBVIOUS
  <2>3. IsList(u)
    BY <1>2, ListIntro
  <2> QED BY <2>1, <2>2, <2>3
<1>4. Head(u) = e
  BY <1>2
<1>5. Tail(u) = t
  <2>1. Tail(u) \in Seq(S) /\ Len(Tail(u)) = Len(t)
        /\ \A i \in 1 .. Len(t) : Tail(u)[i] = u[i + 1]
    BY <1>1, <1>2, <1>3
  <2> QED BY <1>1, <1>2, <2>1, SeqEqual
<1>6. \A i \in 0 .. Len(t) : After(u, i + 1) = SubSeq(t, i + 1, Len(t))
  <2> SUFFICES ASSUME NEW i \in 0 .. Len(t)
               PROVE  SubSeq(u, i + 2, Len(t) + 1) = SubSeq(t, i + 1, Len(t))
    BY <1>1, <1>2 DEF After
  <2> QED BY <1>1, <1>2
<1>7. SubSeq(t, 1, Len(t)) = t
  BY <1>1
<1>8. After(u, 1) = t
  BY <1>1, <1>6, <1>7
<1> QED BY <1>2, <1>3, <1>4, <1>5, <1>6, <1>8 DEF After

\* A stack without its top.
LEMMA Popped ==
    ASSUME NEW t, IsList(t), t # <<>>
    PROVE  /\ IsList(Tail(t)) /\ Len(Tail(t)) = Len(t) - 1 /\ Len(t) \in Nat \ {0}
           /\ Head(t) = t[1] /\ t = <<t[1]>> \o Tail(t)
<1> DEFINE S == Range(t)
<1>1. t \in Seq(S) /\ Len(t) \in Nat \ {0}
  BY ListElim
<1>2. Tail(t) \in Seq(S) /\ Len(Tail(t)) = Len(t) - 1 /\ Head(t) = t[1]
      /\ \A i \in 1 .. Len(t) - 1 : Tail(t)[i] = t[i + 1]
  BY <1>1
<1>3. <<t[1]>> \o Tail(t) \in Seq(S)
  BY <1>1, <1>2
<1>4. t = <<t[1]>> \o Tail(t)
  BY <1>1, <1>2, <1>3, SeqEqual
<1> QED BY <1>1, <1>2, <1>4, ListIntro

LEMMA Pair ==
    ASSUME NEW a, NEW b
    PROVE  <<a, b>> = <<a>> \o <<b>>
<1> DEFINE S == {a, b}
<1>1. /\ <<a>> \in Seq(S) /\ <<b>> \in Seq(S)
      /\ <<a, b>> \in Seq(S)
  OBVIOUS
<1>2. <<a>> \o <<b>> \in Seq(S)
  BY <1>1
<1>3. /\ Len(<<a, b>>) = 2
      /\ Len(<<a>> \o <<b>>) = 2
      /\ \A i \in 1 .. 2 :
            <<a, b>>[i] = (<<a>> \o <<b>>)[i]
  BY <1>1
<1> QED BY <1>1, <1>2, <1>3, SeqEqual

LEMMA Triple ==
    ASSUME NEW a, NEW b, NEW c
    PROVE  <<a, b, c>> = <<a>> \o <<b, c>>
<1> DEFINE S == {a, b, c}
<1>1. /\ <<a>> \in Seq(S) /\ <<b, c>> \in Seq(S)
      /\ <<a, b, c>> \in Seq(S)
  OBVIOUS
<1>2. <<a>> \o <<b, c>> \in Seq(S)
  BY <1>1
<1>3. /\ Len(<<a, b, c>>) = 3
      /\ Len(<<a>> \o <<b, c>>) = 3
      /\ \A i \in 1 .. 3 :
            <<a, b, c>>[i] = (<<a>> \o <<b, c>>)[i]
  BY <1>1
<1> QED BY <1>1, <1>2, <1>3, SeqEqual

\* Entries put on top of a stack one by one.
LEMMA PushTwo ==
    ASSUME NEW t, IsList(t), NEW a, NEW b
    PROVE  <<a, b>> \o t = <<a>> \o (<<b>> \o t)
<1> DEFINE S == Range(t) \cup {a, b}
<1>1. t \in Seq(S) /\ <<a>> \in Seq(S) /\ <<b>> \in Seq(S)
  BY ListElim
<1>2. (<<a>> \o <<b>>) \o t = <<a>> \o (<<b>> \o t)
  <2> HIDE DEF S
  <2> QED BY <1>1, ConcatAssociative
<1>3. <<a, b>> = <<a>> \o <<b>>
  BY Pair
<1> QED BY <1>2, <1>3

LEMMA ConsThree ==
    ASSUME NEW t, IsList(t), NEW a, NEW b, NEW c
    PROVE  <<a, b, c>> \o t = <<a>> \o (<<b, c>> \o t)
<1> DEFINE S == Range(t) \cup {a, b, c}
<1>1. t \in Seq(S) /\ <<a>> \in Seq(S) /\ <<b, c>> \in Seq(S)
  BY ListElim
<1>2. (<<a>> \o <<b, c>>) \o t = <<a>> \o (<<b, c>> \o t)
  <2> HIDE DEF S
  <2> QED BY <1>1, ConcatAssociative
<1>3. <<a, b, c>> = <<a>> \o <<b, c>>
  BY Triple
<1> QED BY <1>2, <1>3

LEMMA PushThree ==
    ASSUME NEW t, IsList(t), NEW a, NEW b, NEW c
    PROVE  <<a, b, c>> \o t = <<a>> \o (<<b>> \o (<<c>> \o t))
<1>1. <<a, b, c>> \o t = <<a>> \o (<<b, c>> \o t)
  BY ConsThree
<1>2. <<b, c>> \o t = <<b>> \o (<<c>> \o t)
  BY PushTwo
<1> QED BY <1>1, <1>2

LEMMA PushNone ==
    ASSUME NEW t, IsList(t)
    PROVE  <<>> \o t = t
BY ListElim

\* Entries joined before they are put on a stack.
LEMMA JoinTwo ==
    ASSUME NEW t, IsList(t), NEW a, NEW b
    PROVE  (<<a>> \o <<b>>) \o t = <<a>> \o (<<b>> \o t)
<1>1. <<a, b>> = <<a>> \o <<b>>
  BY Pair
<1>2. <<a, b>> \o t = <<a>> \o (<<b>> \o t)
  BY PushTwo
<1> QED BY <1>1, <1>2

LEMMA JoinThree ==
    ASSUME NEW t, IsList(t), NEW a, NEW b, NEW c
    PROVE  (<<a, b>> \o <<c>>) \o t = <<a>> \o (<<b>> \o (<<c>> \o t))
<1> DEFINE S == Range(t) \cup {a, b, c}
<1>1. t \in Seq(S) /\ <<a, b>> \in Seq(S) /\ <<c>> \in Seq(S)
  BY ListElim
<1>2. (<<a, b>> \o <<c>>) \o t = <<a, b>> \o (<<c>> \o t)
  <2> HIDE DEF S
  <2> QED BY <1>1, ConcatAssociative
<1>3. IsList(<<c>> \o t)
  BY Pushed
<1> QED BY <1>2, <1>3, PushTwo

-----------------------------------------------------------------------------
(* The parser's state *)

StateFields == Buffers \cup {"pos", "token", "errors", "scopes", "recover"}
FlagNames ==
    {"allowIn", "allowLet", "inIteration", "inSwitch", "inFuncParams", "inFunction",
     "inAsync", "allowAwait", "allowYield", "labels"}

IsText    == source \in Seq([word : STRING, onNewLine : BOOLEAN])
Positions == 1 .. Len(source) + 1

TokenFits(token, pos) ==
    LET t == TokenAt(pos) IN
    \/ token = t
    \/ token = [t EXCEPT !.kind = "Identifier"] /\ t.kind \in Unreserved

WellFormed(q) ==
    /\ DOMAIN q = StateFields
    /\ q.pos \in Positions
    /\ TokenFits(q.token, q.pos)
    /\ q.errors \in BOOLEAN
    /\ q.recover \in [idx : Nat, count : 0 .. MaxSyncs]
    /\ IsList(q.scopes) /\ q.scopes # <<>>
    /\ \A k \in 1 .. Len(q.scopes) : DOMAIN q.scopes[k] = FlagNames
    /\ \A b \in Buffers : IsList(q[b])

\* Two states that agree but for some fields.
SameBut(q, r, fields) ==
    DOMAIN r = DOMAIN q /\ \A f \in DOMAIN q \ fields : r[f] = q[f]

LEMMA Fields ==
    /\ \A b \in Buffers : b \in StateFields
    /\ {"pos", "token", "errors", "scopes", "recover"} \cap Buffers = {}
BY DEF StateFields, Buffers

\* What each helper leaves as it was.
LEMMA HelperFields ==
    ASSUME NEW q, DOMAIN q = StateFields
    PROVE  /\ SameBut(q, NextToken(q), {"pos", "token"})
           /\ SameBut(q, Error(q), {"errors"}) /\ Error(q).errors = TRUE
           /\ SameBut(q, OpenScope(q), {"scopes"})
           /\ OpenScope(q).scopes = <<scope0>> \o q.scopes
           /\ SameBut(q, CloseScope(q), {"scopes"})
           /\ CloseScope(q).scopes = Tail(q.scopes)
           /\ \A s : SameBut(q, SetScope(q, s), {"scopes"})
           /\ SameBut(q, TokenToBindingId(q), {"token"})
           /\ \A m : /\ SameBut(q, Restore(q, m), {"pos", "token", "errors"})
                     /\ Restore(q, m).pos = m.pos
                     /\ Restore(q, m).token = m.token
                     /\ Restore(q, m).errors = m.errors
           /\ SameBut(q, NextStatement(q), {"pos", "token", "recover"})
BY DEF SameBut, StateFields, NextToken, Error, OpenScope, CloseScope, SetScope,
       TokenToBindingId, Restore, NextStatement

LEMMA BufferFields ==
    ASSUME NEW q, DOMAIN q = StateFields, NEW b \in Buffers, NEW v, NEW n
    PROVE  /\ SameBut(q, Push(q, b, v), {b}) /\ Push(q, b, v)[b] = Append(q[b], v)
           /\ SameBut(q, Cut(q, b, n), {b}) /\ Cut(q, b, n)[b] = SubSeq(q[b], 1, n)
BY Fields DEF SameBut, Push, Cut

-----------------------------------------------------------------------------
(* The statements that recovery may have made before it gets beyond a position. *)

Allowance(pos, rec) ==
    (MaxSyncs + 2) * (pos - 1)
    + (IF rec.idx < pos - 1 THEN 0
       ELSE IF rec.idx = pos - 1 THEN rec.count + 1 ELSE MaxSyncs + 1)

Allowed(q) == Allowance(q.pos, q.recover)

Recovery == [idx : Nat, count : 0 .. MaxSyncs]

LEMMA AllowanceGrows ==
    ASSUME NEW rec \in Recovery, NEW i \in Nat \ {0}, NEW j \in Nat \ {0}
    PROVE  /\ Allowance(i, rec) \in Nat
           /\ i < j => Allowance(i, rec) + 1 <= Allowance(j, rec)
           /\ i <= j => Allowance(i, rec) <= Allowance(j, rec)
BY DEF Allowance, Recovery, MaxSyncs

LEMMA RecoveryGrows ==
    ASSUME NEW rec \in Recovery, NEW i \in Nat \ {0},
           NEW new \in Recovery,
           \/ new.idx > rec.idx
           \/ new.idx = rec.idx /\ new.count >= rec.count
    PROVE  Allowance(i, rec) <= Allowance(i, new)
BY DEF Allowance, Recovery, MaxSyncs

-----------------------------------------------------------------------------
(* One state after another, some tokens further on *)

\* The flags that FlagsFollowCalls is about.
Tracked ==
    {"allowIn", "inIteration", "inSwitch", "inFuncParams", "inFunction", "labels"}

SameFlags(q, r) ==
    /\ Len(r.scopes) = Len(q.scopes)
    /\ \A k \in 2 .. Len(q.scopes) : r.scopes[k] = q.scopes[k]
    /\ \A f \in Tracked : r.scopes[1][f] = q.scopes[1][f]

Further(q, r) ==
    /\ WellFormed(q) /\ WellFormed(r)
    /\ q.errors => r.errors
    /\ Allowed(q) <= Allowed(r)
    /\ \A i \in Positions : Allowance(i, q.recover) <= Allowance(i, r.recover)

Reads(q, r) == Further(q, r) /\ SameFlags(q, r)

SameLengths(q, r) == \A b \in Buffers : Len(r[b]) = Len(q[b])

Quiet(q, r) == Reads(q, r) /\ SameLengths(q, r)

Past(q, r) == Allowed(q) + 1 <= Allowed(r)

LEMMA AllowedNat ==
    ASSUME NEW q, WellFormed(q), IsText
    PROVE  /\ Allowed(q) \in Nat
           /\ \A i \in Positions : Allowance(i, q.recover) \in Nat
           /\ Len(source) \in Nat /\ DOMAIN source = 1 .. Len(source)
           /\ Positions \subseteq Nat \ {0}
<1>1. Len(source) \in Nat /\ DOMAIN source = 1 .. Len(source)
  BY DEF IsText
<1>2. Positions \subseteq Nat \ {0}
  BY <1>1 DEF Positions
<1> QED BY <1>1, <1>2, AllowanceGrows DEF WellFormed, Recovery, Allowed

LEMMA QuietSelf ==
    ASSUME NEW q, WellFormed(q), IsText
    PROVE  Quiet(q, q)
BY AllowedNat DEF Quiet, Reads, Further, SameFlags, SameLengths

LEMMA QuietTrans ==
    ASSUME NEW q, NEW r, NEW s, IsText
    PROVE  /\ Reads(q, r) /\ Reads(r, s) => Reads(q, s)
           /\ Quiet(q, r) /\ Quiet(r, s) => Quiet(q, s)
           /\ Reads(q, r) /\ Reads(r, s) /\ (Past(q, r) \/ Past(r, s)) => Past(q, s)
<1>1. Further(q, r) /\ Further(r, s) => Further(q, s)
  <2> SUFFICES ASSUME Further(q, r), Further(r, s)
               PROVE  Further(q, s)
    OBVIOUS
  <2>1. WellFormed(q) /\ WellFormed(r) /\ WellFormed(s)
    BY DEF Further
  <2>2. Allowed(q) <= Allowed(s)
    BY <2>1, AllowedNat DEF Further
  <2>3. \A i \in Positions : Allowance(i, q.recover) <= Allowance(i, s.recover)
    BY <2>1, AllowedNat DEF Further
  <2> QED BY <2>1, <2>2, <2>3 DEF Further
<1>2. SameFlags(q, r) /\ SameFlags(r, s) => SameFlags(q, s)
  BY DEF SameFlags
<1>3. Further(q, r) /\ Further(r, s) /\ (Past(q, r) \/ Past(r, s)) => Past(q, s)
  <2> SUFFICES ASSUME Further(q, r), Further(r, s), Past(q, r) \/ Past(r, s)
               PROVE  Past(q, s)
    OBVIOUS
  <2>1. Allowed(q) \in Nat /\ Allowed(r) \in Nat /\ Allowed(s) \in Nat
    BY AllowedNat DEF Further
  <2> QED BY <2>1 DEF Further, Past
<1> QED BY <1>1, <1>2, <1>3 DEF Reads, Quiet, SameLengths

LEMMA SameButAlike ==
    ASSUME NEW q, NEW r, NEW fields, WellFormed(q), IsText, SameBut(q, r, fields),
           fields \subseteq {"pos", "token", "errors", "recover"},
           r.pos \in Positions, TokenFits(r.token, r.pos), r.errors \in BOOLEAN,
           q.errors => r.errors, r.recover \in Recovery,
           Allowed(q) <= Allowed(r),
           \A i \in Positions : Allowance(i, q.recover) <= Allowance(i, r.recover)
    PROVE  Quiet(q, r)
<1>1. r.scopes = q.scopes /\ \A b \in Buffers : r[b] = q[b]
  BY DEF SameBut, WellFormed, StateFields, Buffers
<1>2. WellFormed(r)
  BY <1>1 DEF SameBut, WellFormed, Recovery
<1> QED BY <1>1, <1>2 DEF Quiet, Reads, Further, SameFlags, SameLengths

LEMMA Eof ==
    ASSUME NEW q, WellFormed(q), IsText
    PROVE  /\ Kind(q) = "Eof" <=> TokenAt(q.pos).kind = "Eof"
           /\ Kind(q) # "Eof" => q.pos \in 1 .. Len(source)
           /\ TokenAt(Len(source) + 1).kind = "Eof"
           /\ \A i \in Positions : TokenFits(TokenAt(i), i)
<1>1. Len(source) \in Nat /\ DOMAIN source = 1 .. Len(source)
  BY AllowedNat
<1>2. \A i \in Positions : i \notin 1 .. Len(source) => TokenAt(i).kind = "Eof"
  BY <1>1 DEF TokenAt
<1>3. \A i \in Positions : TokenFits(TokenAt(i), i)
  BY DEF TokenFits
<1>4. \A t : [t EXCEPT !.kind = "Identifier"].kind \in {"Identifier", t.kind}
  OBVIOUS
<1>5. Kind(q) = "Eof" <=> TokenAt(q.pos).kind = "Eof"
  <2>1. TokenFits(q.token, q.pos)
    BY DEF WellFormed
  <2>2. "kind" \in DOMAIN TokenAt(q.pos)
    BY DEF TokenAt
  <2> QED BY <2>1, <2>2 DEF TokenFits, Unreserved, Kind
<1> QED BY <1>1, <1>2, <1>3, <1>5 DEF WellFormed, Positions

-----------------------------------------------------------------------------
(* What each helper does to the state *)

LEMMA NextTokenQuiet ==
    ASSUME NEW q, WellFormed(q), IsText
    PROVE  /\ Quiet(q, NextToken(q))
           /\ Kind(q) # "Eof" => Past(q, NextToken(q))
<1> DEFINE r == NextToken(q)
<1>1. SameBut(q, r, {"pos", "token"})
  BY HelperFields DEF WellFormed
<1>2. /\ r.pos = IF q.pos <= Len(source) THEN q.pos + 1 ELSE q.pos
      /\ r.token = TokenAt(r.pos)
  BY DEF NextToken, WellFormed, StateFields
<1>3. /\ Len(source) \in Nat /\ q.pos \in Positions /\ r.pos \in Positions
      /\ q.pos <= r.pos /\ (Kind(q) # "Eof" => q.pos < r.pos)
  BY <1>2, AllowedNat, Eof DEF WellFormed, Positions
<1>4. r.errors = q.errors /\ r.recover = q.recover
  BY <1>1 DEF SameBut, WellFormed, StateFields
<1>5. Allowed(q) <= Allowed(r) /\ (q.pos < r.pos => Past(q, r))
  BY <1>3, <1>4, AllowanceGrows DEF Allowed, Past, WellFormed, Recovery, Positions
<1>6. \A i \in Positions : Allowance(i, q.recover) <= Allowance(i, r.recover)
  BY <1>4, AllowedNat
<1>7. Quiet(q, r)
  <2> HIDE DEF r
  <2>1. TokenFits(r.token, r.pos)
    BY <1>2, <1>3, Eof
  <2> QED BY <1>1, <1>3, <1>4, <1>5, <1>6, <2>1, SameButAlike DEF WellFormed, Recovery
<1> QED BY <1>3, <1>5, <1>7

LEMMA ErrorQuiet ==
    ASSUME NEW q, WellFormed(q), IsText
    PROVE  Quiet(q, Error(q)) /\ Kind(Error(q)) = Kind(q)
<1> DEFINE r == Error(q)
<1>1. SameBut(q, r, {"errors"}) /\ r.errors = TRUE
  BY HelperFields DEF WellFormed
<1>2. r.pos = q.pos /\ r.token = q.token /\ r.recover = q.recover
  BY <1>1 DEF SameBut, WellFormed, StateFields
<1>3. Allowed(q) <= Allowed(r)
      /\ \A i \in Positions : Allowance(i, q.recover) <= Allowance(i, r.recover)
  BY <1>2, AllowedNat DEF Allowed
<1>4. Quiet(q, r)
  <2> HIDE DEF r
  <2> QED BY <1>1, <1>2, <1>3, SameButAlike DEF WellFormed, Recovery
<1> QED BY <1>2, <1>4 DEF Kind

LEMMA BindingIdQuiet ==
    ASSUME NEW q, WellFormed(q), IsText
    PROVE  /\ Quiet(q, TokenToBindingId(q))
           /\ Kind(q) # "Eof" => Kind(TokenToBindingId(q)) # "Eof"
<1> DEFINE r == TokenToBindingId(q)
<1>1. SameBut(q, r, {"token"})
  BY HelperFields DEF WellFormed
<1>2. r.pos = q.pos /\ r.errors = q.errors /\ r.recover = q.recover
  BY <1>1 DEF SameBut, WellFormed, StateFields
<1>3. Allowed(q) <= Allowed(r)
      /\ \A i \in Positions : Allowance(i, q.recover) <= Allowance(i, r.recover)
  BY <1>2, AllowedNat DEF Allowed
<1>4. \/ r.token = q.token
      \/ r.token = [q.token EXCEPT !.kind = "Identifier"]
         /\ Kind(q) \in {"Identifier"} \cup Unreserved
  BY DEF TokenToBindingId, IsBindingId, WellFormed, StateFields, Unreserved
<1>5. TokenFits(r.token, r.pos)
  <2>1. TokenFits(q.token, q.pos)
    BY DEF WellFormed
  <2>2. DOMAIN TokenAt(q.pos) = {"kind", "word", "onNewLine"}
    BY DEF TokenAt
  <2>3. CASE q.token = TokenAt(q.pos)
    <3>1. CASE Kind(q) = "Identifier"
      <4>1. [TokenAt(q.pos) EXCEPT !.kind = TokenAt(q.pos).kind] = TokenAt(q.pos)
        BY DEF TokenAt
      <4>2. [q.token EXCEPT !.kind = "Identifier"] = q.token
        BY <2>3, <3>1, <4>1 DEF Kind
      <4> QED BY <1>2, <1>4, <2>1, <4>2
    <3> QED BY <1>2, <1>4, <2>1, <2>3, <3>1 DEF TokenFits, Kind
  <2>4. CASE q.token = [TokenAt(q.pos) EXCEPT !.kind = "Identifier"]
    <3>1. [q.token EXCEPT !.kind = "Identifier"] = q.token
      BY <2>2, <2>4
    <3> QED BY <1>2, <1>4, <2>1, <3>1
  <2> QED BY <2>1, <2>3, <2>4 DEF TokenFits
<1>6. Quiet(q, r)
  <2> HIDE DEF r
  <2> QED BY <1>1, <1>2, <1>3, <1>5, SameButAlike DEF WellFormed, Recovery
<1>7. Kind(q) # "Eof" => Kind(r) # "Eof"
  <2>1. [q.token EXCEPT !.kind = "Identifier"].kind \in {"Identifier", Kind(q)}
    BY DEF Kind
  <2> HIDE DEF r
  <2> QED BY <1>4, <2>1 DEF Kind
<1> QED BY <1>6, <1>7

LEMMA NextStatementQuiet ==
    ASSUME NEW q, WellFormed(q), IsText
    PROVE  /\ Quiet(q, NextStatement(q))
           /\ Kind(q) # "Eof" => Past(q, NextStatement(q))
<1> DEFINE stop(i) == \/ TokenAt(i).kind = "Eof"
                      \/ TokenAt(i).kind \in SyncKinds /\ Progress(q, i)
           first(i) == i \in q.pos .. Len(source) + 1 /\ stop(i)
                       /\ \A j \in q.pos .. i - 1 : ~stop(j)
           at0 == CHOOSE i \in q.pos .. Len(source) + 1 :
                     stop(i) /\ \A j \in q.pos .. i - 1 : ~stop(j)
           r == NextStatement(q)
<1>1. Len(source) \in Nat /\ q.pos \in Nat \ {0} /\ q.pos <= Len(source) + 1
      /\ q.pos \in Positions
  BY AllowedNat DEF WellFormed, Positions
<1>2. \E i \in q.pos .. Len(source) + 1 :
         stop(i) /\ \A j \in q.pos .. i - 1 : ~stop(j)
  <2> DEFINE S == {i \in q.pos .. Len(source) + 1 : stop(i)}
  <2>1. Len(source) + 1 \in S
    BY <1>1, Eof
  <2>2. S \subseteq Nat /\ S # {}
    BY <1>1, <2>1
  <2>3. PICK i \in S : \A j \in S : i <= j
    <3> HIDE DEF S
    <3> QED BY <2>2, LeastElement
  <2>4. \A j \in q.pos .. i - 1 : j \notin S /\ j \in q.pos .. Len(source) + 1
    BY <1>1, <2>3
  <2> QED BY <2>3, <2>4
<1>3. at0 \in q.pos .. Len(source) + 1 /\ stop(at0)
  <2> HIDE DEF stop
  <2> QED BY <1>2
<1>4. /\ r.pos = at0
      /\ r.token = IF at0 = q.pos THEN q.token ELSE TokenAt(at0)
      /\ r.recover = IF TokenAt(at0).kind = "Eof" THEN q.recover
                     ELSE [idx   |-> at0 - 1,
                           count |-> IF at0 - 1 = q.recover.idx
                                     THEN q.recover.count + 1 ELSE 0]
  <2>1. r = [q EXCEPT
               !.pos = at0,
               !.token = IF at0 = q.pos THEN @ ELSE TokenAt(at0),
               !.recover = IF TokenAt(at0).kind = "Eof" THEN @
                           ELSE [idx   |-> at0 - 1,
                                 count |-> IF at0 - 1 = @.idx THEN @.count + 1 ELSE 0]]
    BY DEF NextStatement
  <2> HIDE DEF r, at0
  <2>2. r.pos = at0
    BY <2>1 DEF WellFormed, StateFields
  <2>3. r.token = IF at0 = q.pos THEN q.token ELSE TokenAt(at0)
    BY <2>1 DEF WellFormed, StateFields
  <2>4. r.recover = IF TokenAt(at0).kind = "Eof" THEN q.recover
                    ELSE [idx   |-> at0 - 1,
                          count |-> IF at0 - 1 = q.recover.idx
                                    THEN q.recover.count + 1 ELSE 0]
    BY <2>1 DEF WellFormed, StateFields
  <2> QED BY <2>2, <2>3, <2>4
<1>5. SameBut(q, r, {"pos", "token", "recover"})
  BY HelperFields DEF WellFormed
<1>6. r.errors = q.errors
  BY <1>5 DEF SameBut, WellFormed, StateFields
<1> HIDE DEF r, at0
<1>7. r.pos \in Positions /\ r.pos \in Nat \ {0} /\ q.pos <= r.pos
  BY <1>1, <1>3, <1>4 DEF Positions
<1>8. TokenFits(r.token, r.pos)
  BY <1>4, <1>7, Eof DEF WellFormed
<1>9. q.recover \in Recovery
  BY DEF WellFormed, Recovery
<1>10. /\ r.recover \in Recovery
       /\ \/ r.recover = q.recover
          \/ r.recover.idx > q.recover.idx /\ r.recover.idx = r.pos - 1
          \/ /\ r.recover.idx = q.recover.idx /\ r.recover.idx = r.pos - 1
             /\ r.recover.count = q.recover.count + 1
       /\ TokenAt(r.pos).kind = "Eof" => r.recover = q.recover
       /\ TokenAt(r.pos).kind # "Eof" => r.recover # q.recover
  <2>1. CASE TokenAt(at0).kind = "Eof"
    BY <1>4, <1>9, <2>1
  <2>2. CASE TokenAt(at0).kind # "Eof"
    <3>1. Progress(q, at0)
      BY <1>3, <2>2
    <3>2. /\ q.recover.idx \in Nat /\ q.recover.count \in 0 .. MaxSyncs
          /\ DOMAIN q.recover = {"idx", "count"}
      BY <1>9 DEF Recovery
    <3>3. CASE at0 - 1 = q.recover.idx
      <4>1. r.recover = [idx |-> at0 - 1, count |-> q.recover.count + 1]
        BY <1>4, <2>2, <3>3
      <4>2. r.recover.idx = q.recover.idx /\ r.recover.count = q.recover.count + 1
        BY <3>3, <4>1
      <4>3. q.recover.count < MaxSyncs
        BY <3>1, <3>2, <3>3 DEF Progress
      <4>4. q.recover.count + 1 \in 0 .. MaxSyncs
        BY <3>2, <4>3 DEF MaxSyncs
      <4>5. r.recover \in Recovery
        BY <3>2, <3>3, <4>1, <4>4 DEF Recovery
      <4>6. r.recover # q.recover
        BY <3>2, <4>2 DEF MaxSyncs
      <4> QED BY <1>4, <2>2, <3>3, <4>2, <4>5, <4>6
    <3>4. CASE at0 - 1 # q.recover.idx
      <4>1. r.recover = [idx |-> at0 - 1, count |-> 0]
        BY <1>4, <2>2, <3>4
      <4>2. at0 - 1 > q.recover.idx
        BY <3>1, <3>4 DEF Progress
      <4>3. r.recover \in Recovery
        BY <1>1, <1>3, <4>1 DEF Recovery, MaxSyncs
      <4>4. r.recover.idx = at0 - 1
        BY <4>1
      <4>5. r.recover # q.recover
        BY <3>4, <4>4
      <4> QED BY <1>4, <2>2, <4>2, <4>3, <4>4, <4>5
    <3> QED BY <3>3, <3>4
  <2> QED BY <2>1, <2>2
<1>11. \A i \in Positions : Allowance(i, q.recover) <= Allowance(i, r.recover)
  <2> SUFFICES ASSUME NEW i \in Positions
               PROVE  Allowance(i, q.recover) <= Allowance(i, r.recover)
    OBVIOUS
  <2>1. i \in Nat \ {0}
    BY AllowedNat
  <2>2. r.recover.idx = q.recover.idx => r.recover = q.recover
                                         \/ r.recover.count >= q.recover.count
    BY <1>9, <1>10 DEF Recovery, MaxSyncs
  <2>3. CASE r.recover = q.recover
    BY <2>3, AllowedNat
  <2>4. CASE r.recover # q.recover
    BY <1>9, <1>10, <2>1, <2>2, <2>4, RecoveryGrows
  <2> QED BY <2>3, <2>4
<1>12. Allowance(q.pos, r.recover) <= Allowed(r)
       /\ (q.pos < r.pos => Allowance(q.pos, r.recover) + 1 <= Allowed(r))
  BY <1>1, <1>7, <1>10, AllowanceGrows DEF Allowed
<1>13. /\ Allowed(q) \in Nat /\ Allowed(r) \in Nat
       /\ Allowance(q.pos, r.recover) \in Nat
       /\ Allowed(q) <= Allowance(q.pos, r.recover)
  BY <1>1, <1>7, <1>10, <1>11, AllowedNat, AllowanceGrows DEF Allowed
<1>14. Allowed(q) <= Allowed(r)
  BY <1>12, <1>13
<1>15. Quiet(q, r)
  BY <1>5, <1>6, <1>7, <1>8, <1>10, <1>11, <1>14, SameButAlike DEF WellFormed
<1>16. ASSUME Kind(q) # "Eof"
       PROVE  Past(q, r)
  <2>1. TokenAt(q.pos).kind # "Eof"
    BY <1>16, Eof
  <2>2. CASE q.pos < r.pos
    BY <1>12, <1>13, <2>2 DEF Past
  <2>3. CASE q.pos = r.pos
    <3>1. r.recover # q.recover
      BY <1>10, <2>1, <2>3
    <3>2. q.recover.idx \in Nat /\ q.recover.count \in 0 .. MaxSyncs
      BY <1>9 DEF Recovery
    <3>3. CASE r.recover.idx > q.recover.idx /\ r.recover.idx = r.pos - 1
      <4>1. r.recover.count \in Nat
        BY <1>10 DEF Recovery
      <4> QED BY <1>1, <2>3, <3>2, <3>3, <4>1 DEF Past, Allowed, Allowance, MaxSyncs
    <3>4. CASE /\ r.recover.idx = q.recover.idx /\ r.recover.idx = r.pos - 1
               /\ r.recover.count = q.recover.count + 1
      <4>1. Allowed(q) = (MaxSyncs + 2) * (q.pos - 1) + (q.recover.count + 1)
        BY <1>1, <2>3, <3>2, <3>4 DEF Allowed, Allowance
      <4>2. Allowed(r) = (MaxSyncs + 2) * (q.pos - 1) + (q.recover.count + 2)
        BY <1>1, <2>3, <3>2, <3>4 DEF Allowed, Allowance
      <4>3. (MaxSyncs + 2) * (q.pos - 1) \in Nat
        BY <1>1 DEF MaxSyncs
      <4> QED BY <3>2, <4>1, <4>2, <4>3 DEF Past
    <3> QED BY <1>10, <3>1, <3>3, <3>4
  <2> QED BY <1>1, <1>7, <2>2, <2>3
<1> QED BY <1>15, <1>16 DEF r

-----------------------------------------------------------------------------
(* Scopes and buffers *)

LEMMA ScopeOfWellFormed ==
    ASSUME NEW q, WellFormed(q)
    PROVE  /\ Len(q.scopes) \in Nat \ {0} /\ DOMAIN q.scopes = 1 .. Len(q.scopes)
           /\ DOMAIN Scope(q) = FlagNames
BY ListElim DEF WellFormed, Scope

LEMMA SetScopeReads ==
    ASSUME NEW q, WellFormed(q), IsText, NEW s, DOMAIN s = FlagNames
    PROVE  LET r == SetScope(q, s) IN
           /\ Further(q, r) /\ SameLengths(q, r) /\ Kind(r) = Kind(q)
           /\ Allowed(r) = Allowed(q) /\ r.errors = q.errors
           /\ r.stmtBuf = q.stmtBuf
           /\ Len(r.scopes) = Len(q.scopes) /\ r.scopes[1] = s
           /\ \A k \in 2 .. Len(q.scopes) : r.scopes[k] = q.scopes[k]
           /\ (\A f \in Tracked : s[f] = Scope(q)[f]) => Quiet(q, r)
<1> DEFINE r == SetScope(q, s)
<1>1. SameBut(q, r, {"scopes"})
  BY HelperFields DEF WellFormed
<1>2. /\ r.pos = q.pos /\ r.token = q.token /\ r.errors = q.errors
      /\ r.recover = q.recover /\ r.stmtBuf = q.stmtBuf /\ \A b \in Buffers : r[b] = q[b]
  BY <1>1 DEF SameBut, WellFormed, StateFields, Buffers
<1>3. r.scopes = [q.scopes EXCEPT ![1] = s]
  BY DEF SetScope, WellFormed, StateFields
<1>4. /\ r.scopes \in Seq(Range(q.scopes) \cup {s}) /\ Len(r.scopes) = Len(q.scopes)
      /\ r.scopes[1] = s /\ \A k \in 2 .. Len(q.scopes) : r.scopes[k] = q.scopes[k]
  <2> DEFINE S == Range(q.scopes) \cup {s}
  <2>1. q.scopes \in Seq(S) /\ Len(q.scopes) \in Nat \ {0}
    BY ListElim, ScopeOfWellFormed DEF WellFormed
  <2> HIDE DEF S, r
  <2>2. s \in S
    BY DEF S
  <2> QED BY <1>3, <2>1, <2>2 DEF S
<1> HIDE DEF r
<1>5. IsList(r.scopes) /\ r.scopes # <<>>
  <2>1. IsList(r.scopes)
    BY <1>4, ListIntro
  <2> QED BY <1>4, <2>1, ListElim, ScopeOfWellFormed
<1>6. \A k \in 1 .. Len(r.scopes) : DOMAIN r.scopes[k] = FlagNames
  BY <1>4, ScopeOfWellFormed DEF WellFormed
<1>7. WellFormed(r)
  BY <1>1, <1>2, <1>5, <1>6 DEF SameBut, WellFormed
<1>8. Further(q, r) /\ Allowed(r) = Allowed(q)
  BY <1>2, <1>7, AllowedNat DEF Further, Allowed
<1>9. SameLengths(q, r) /\ Kind(r) = Kind(q)
  BY <1>2 DEF SameLengths, Kind
<1> QED BY <1>2, <1>4, <1>8, <1>9 DEF r, Quiet, Reads, SameFlags, Scope

LEMMA WithReads ==
    ASSUME NEW q, WellFormed(q), IsText, NEW flags
    PROVE  LET r == with(q, flags) IN
           /\ Further(q, r) /\ SameLengths(q, r) /\ Kind(r) = Kind(q)
           /\ Allowed(r) = Allowed(q) /\ r.errors = q.errors
           /\ Len(r.scopes) = Len(q.scopes)
           /\ \A k \in 2 .. Len(q.scopes) : r.scopes[k] = q.scopes[k]
           /\ \A f \in FlagNames :
                 r.scopes[1][f] = IF f \in DOMAIN flags THEN flags[f] ELSE q.scopes[1][f]
           /\ DOMAIN flags \cap Tracked = {} => Quiet(q, r)
<1> DEFINE s == [f \in DOMAIN Scope(q) |->
                    IF f \in DOMAIN flags THEN flags[f] ELSE Scope(q)[f]]
<1>1. DOMAIN s = FlagNames /\ Tracked \subseteq FlagNames
  BY ScopeOfWellFormed DEF Tracked, FlagNames
<1>2. with(q, flags) = SetScope(q, s)
  BY DEF with
<1>3. \A f \in FlagNames : s[f] = IF f \in DOMAIN flags THEN flags[f] ELSE q.scopes[1][f]
  BY ScopeOfWellFormed DEF Scope
<1> HIDE DEF s
<1>4. DOMAIN flags \cap Tracked = {} => \A f \in Tracked : s[f] = Scope(q)[f]
  BY <1>1, <1>3 DEF Scope
<1> QED BY <1>1, <1>2, <1>3, <1>4, SetScopeReads

LEMMA PushReads ==
    ASSUME NEW q, WellFormed(q), IsText, NEW b \in Buffers, NEW v
    PROVE  LET r == Push(q, b, v) IN
           /\ Reads(q, r) /\ Kind(r) = Kind(q) /\ r.errors = q.errors
           /\ Allowed(r) = Allowed(q) /\ r.scopes = q.scopes
           /\ Len(q[b]) \in Nat /\ Len(r[b]) = Len(q[b]) + 1
           /\ \A c \in Buffers \ {b} : r[c] = q[c]
<1> DEFINE r == Push(q, b, v)
<1>1. SameBut(q, r, {b}) /\ r[b] = Append(q[b], v)
  BY BufferFields DEF WellFormed
<1>2. /\ r.pos = q.pos /\ r.token = q.token /\ r.errors = q.errors
      /\ r.recover = q.recover /\ r.scopes = q.scopes
      /\ \A c \in Buffers \ {b} : r[c] = q[c]
  BY <1>1, Fields DEF SameBut, WellFormed, StateFields
<1>3. IsList(q[b])
  BY DEF WellFormed
<1>4. IsList(r[b]) /\ Len(r[b]) = Len(q[b]) + 1 /\ Len(q[b]) \in Nat
  BY <1>1, <1>3, AppendList, ListElim
<1> HIDE DEF r
<1>5. WellFormed(r)
  BY <1>1, <1>2, <1>4 DEF SameBut, WellFormed
<1>6. Further(q, r) /\ Allowed(r) = Allowed(q)
  BY <1>2, <1>5, AllowedNat DEF Further, Allowed
<1> QED BY <1>2, <1>4, <1>6 DEF r, Reads, SameFlags, Kind

LEMMA CutReads ==
    ASSUME NEW q, WellFormed(q), IsText, NEW b \in Buffers, NEW n \in 0 .. Len(q[b])
    PROVE  LET r == Cut(q, b, n) IN
           /\ Reads(q, r) /\ Kind(r) = Kind(q) /\ r.errors = q.errors
           /\ Allowed(r) = Allowed(q) /\ r.scopes = q.scopes
           /\ Len(r[b]) = n
           /\ \A c \in Buffers \ {b} : r[c] = q[c]
<1> DEFINE r == Cut(q, b, n)
<1>1. SameBut(q, r, {b}) /\ r[b] = SubSeq(q[b], 1, n)
  BY BufferFields DEF WellFormed
<1>2. /\ r.pos = q.pos /\ r.token = q.token /\ r.errors = q.errors
      /\ r.recover = q.recover /\ r.scopes = q.scopes
      /\ \A c \in Buffers \ {b} : r[c] = q[c]
  BY <1>1, Fields DEF SameBut, WellFormed, StateFields
<1>3. IsList(q[b])
  BY DEF WellFormed
<1>4. IsList(r[b]) /\ Len(r[b]) = n
  BY <1>1, <1>3, PrefixList
<1> HIDE DEF r
<1>5. WellFormed(r)
  BY <1>1, <1>2, <1>4 DEF SameBut, WellFormed
<1>6. Further(q, r) /\ Allowed(r) = Allowed(q)
  BY <1>2, <1>5, AllowedNat DEF Further, Allowed
<1> QED BY <1>2, <1>4, <1>6 DEF r, Reads, SameFlags, Kind

-----------------------------------------------------------------------------
(* What may be read after a state is read after the ones before it. *)

LEMMA ReadNextToken ==
    ASSUME NEW q, NEW r, Reads(q, r), IsText
    PROVE  /\ Reads(q, NextToken(r)) /\ SameLengths(r, NextToken(r))
           /\ Kind(r) # "Eof" \/ Past(q, r) => Past(q, NextToken(r))
BY NextTokenQuiet, QuietTrans DEF Reads, Further, Quiet

LEMMA ReadError ==
    ASSUME NEW q, NEW r, Reads(q, r), IsText
    PROVE  /\ Reads(q, Error(r)) /\ SameLengths(r, Error(r)) /\ Kind(Error(r)) = Kind(r)
           /\ Past(q, r) => Past(q, Error(r))
BY ErrorQuiet, QuietTrans DEF Reads, Further, Quiet

LEMMA ReadErrorIf ==
    ASSUME NEW q, NEW r, Reads(q, r), IsText, NEW bad0
    PROVE  /\ Reads(q, ErrorIf(r, bad0)) /\ SameLengths(r, ErrorIf(r, bad0))
           /\ Kind(ErrorIf(r, bad0)) = Kind(r)
           /\ Past(q, r) => Past(q, ErrorIf(r, bad0))
<1>1. SameLengths(r, r)
  BY DEF SameLengths
<1> QED BY <1>1, ReadError DEF ErrorIf

LEMMA ReadExpect ==
    ASSUME NEW q, NEW r, Reads(q, r), IsText, NEW kind
    PROVE  /\ Reads(q, Expect(r, kind)) /\ SameLengths(r, Expect(r, kind))
           /\ Kind(r) # "Eof" \/ Past(q, r) => Past(q, Expect(r, kind))
<1> DEFINE s == ErrorIf(r, Kind(r) # kind)
<1>1. Reads(q, s) /\ SameLengths(r, s) /\ Kind(s) = Kind(r) /\ (Past(q, r) => Past(q, s))
  BY ReadErrorIf
<1> HIDE DEF s
<1>2. Reads(q, NextToken(s)) /\ SameLengths(s, NextToken(s))
      /\ (Kind(s) # "Eof" \/ Past(q, s) => Past(q, NextToken(s)))
  BY <1>1, ReadNextToken
<1>3. SameLengths(r, NextToken(s))
  BY <1>1, <1>2 DEF SameLengths
<1> QED BY <1>1, <1>2, <1>3 DEF s, Expect

LEMMA ReadBindingId ==
    ASSUME NEW q, NEW r, Reads(q, r), IsText
    PROVE  /\ Reads(q, TokenToBindingId(r)) /\ SameLengths(r, TokenToBindingId(r))
           /\ Kind(r) # "Eof" => Kind(TokenToBindingId(r)) # "Eof"
           /\ Past(q, r) => Past(q, TokenToBindingId(r))
BY BindingIdQuiet, QuietTrans DEF Reads, Further, Quiet

LEMMA ReadNextStatement ==
    ASSUME NEW q, NEW r, Reads(q, r), IsText
    PROVE  /\ Reads(q, NextStatement(r)) /\ SameLengths(r, NextStatement(r))
           /\ Kind(r) # "Eof" \/ Past(q, r) => Past(q, NextStatement(r))
BY NextStatementQuiet, QuietTrans DEF Reads, Further, Quiet

LEMMA ReadSemicolon ==
    ASSUME NEW q, NEW r, Reads(q, r), IsText
    PROVE  /\ Reads(q, RequireSemicolon(r)) /\ SameLengths(r, RequireSemicolon(r))
           /\ Past(q, r) => Past(q, RequireSemicolon(r))
<1>1. SameLengths(r, r)
  BY DEF SameLengths
<1> QED BY <1>1, ReadError, ReadNextToken DEF RequireSemicolon

LEMMA ReadWith ==
    ASSUME NEW q, NEW r, Reads(q, r), IsText, NEW flags, DOMAIN flags \cap Tracked = {}
    PROVE  /\ Reads(q, with(r, flags)) /\ SameLengths(r, with(r, flags))
           /\ Kind(with(r, flags)) = Kind(r)
           /\ Past(q, r) => Past(q, with(r, flags))
<1>1. Quiet(r, with(r, flags)) /\ Kind(with(r, flags)) = Kind(r)
  BY WithReads DEF Reads, Further
<1> QED BY <1>1, QuietTrans DEF Quiet

LEMMA ReadPush ==
    ASSUME NEW q, NEW r, Reads(q, r), IsText, NEW b \in Buffers, NEW v
    PROVE  /\ Reads(q, Push(r, b, v)) /\ Kind(Push(r, b, v)) = Kind(r)
           /\ Len(r[b]) \in Nat /\ Len(Push(r, b, v)[b]) = Len(r[b]) + 1
           /\ \A c \in Buffers \ {b} : Len(Push(r, b, v)[c]) = Len(r[c])
           /\ Past(q, r) => Past(q, Push(r, b, v))
<1>1. WellFormed(r)
  BY DEF Reads, Further
<1> QED BY <1>1, PushReads, QuietTrans

LEMMA ReadCut ==
    ASSUME NEW q, NEW r, Reads(q, r), IsText, NEW b \in Buffers, NEW n \in 0 .. Len(r[b])
    PROVE  /\ Reads(q, Cut(r, b, n)) /\ Kind(Cut(r, b, n)) = Kind(r)
           /\ Len(Cut(r, b, n)[b]) = n
           /\ \A c \in Buffers \ {b} : Len(Cut(r, b, n)[c]) = Len(r[c])
           /\ Past(q, r) => Past(q, Cut(r, b, n))
<1>1. WellFormed(r)
  BY DEF Reads, Further
<1> QED BY <1>1, CutReads, QuietTrans

-----------------------------------------------------------------------------
(* The entries of the stack *)

StateKinds  == {"AssignmentRest", "YieldMade"}
ListKinds   == {"NextStatement", "ListedStatement"}
ParamKinds  == {"NextParameter", "ParameterMade", "RestParameter"}
Heads       == {"ForDeclared", "ForExpression"}
MemberKinds == {"StaticBlockMade", "MemberMade", "Member", "Field"}
CaseKinds   == {"CaseBody", "CaseMade"}
MarkKinds ==
    {"SequenceElement", "NextArgument", "ArgumentMade", "NextElement", "ElementMade",
     "NextParenthesised", "ParenthesisedMade", "NextDeclaration", "NextParameter",
     "ParameterMade", "RestParameter", "NextPattern", "PatternMade", "ArrayRestMade",
     "NextBinding", "BindingMade", "NextStatement", "ListedStatement", "NextProperty",
     "PropertyMade", "NextMember", "ClassEnd"}
FlagKinds == StateKinds \cup ParamKinds \cup Heads
             \cup {"PutBack", "FunctionEnd", "LabelledMade"}

\* Entries on which nothing depends: those of expressions and definitions ...
ExprKinds ==
    {"Expression", "ExpressionRest", "Assignment", "SingleArgArrow", "Arrow",
     "ArrowMade", "AssignMade", "Yield", "Conditional", "ConditionalRest", "Alternate",
     "ConditionalMade", "Binary", "BinaryRest", "BinaryMade", "PrivateInMade", "Unary",
     "UnaryMade", "AwaitMade", "PrefixMade", "Postfix", "LeftHandSide", "New",
     "Primary", "Links", "IndexMade", "CallMade", "NewCallee", "NewMade", "SpreadMade",
     "Arguments", "ArrayLiteral", "Parenthesised", "ObjectLiteral", "Class",
     "Function", "Super", "Target", "PatternElement", "Default", "DefaultMade",
     "PropertyKey", "BindingProperty", "ShortMade", "KeyValueMade", "Declaration",
     "Initializer", "DeclarationMade", "Declarations", "Parameters", "ComputedKey",
     "Property", "Method", "ModifiedProperty", "MethodBody", "MethodMade",
     "FunctionBody", "FunctionBlock", "FunctionMade", "ClassBody"}

\* ... and those of statements.
PlainStmts ==
    {"Statement", "Block", "BlockMade", "FunctionDeclared", "ClassDeclared",
     "ExpressionStatement", "Lexical", "LexicalMade", "Headed", "HeadMade", "IfElse",
     "IfMade", "WhileMade", "WithMade", "NextCase", "do", "DoHead", "DoMade", "for",
     "ForEach", "ForEachMade", "ForInit", "ForTest", "ForUpdate", "ForMade", "Jump",
     "return", "throw", "ArgumentOf", "try", "TryCatch", "CatchBlock", "CatchMade",
     "TryFinally", "TryMade"}

\* What statements are made of, down to their own entries.
StmtKinds == PlainStmts \cup ListKinds \cup CaseKinds \cup Heads \cup {"LabelledMade"}

PlainOf(kind) == IF kind \in StmtKinds THEN ExprKinds \cup PlainStmts ELSE ExprKinds

\* Calls that consume a token, if there is one, before they return.
Fresh ==
    {"Statement", "Block", "Expression", "Assignment", "Conditional", "Binary",
     "Unary", "LeftHandSide", "New", "Primary", "Parenthesised", "ArrayLiteral",
     "ObjectLiteral", "Class", "Function", "Parameters", "Yield", "Headed", "Jump",
     "Lexical", "do", "for", "return", "throw", "try"}

MarkFits(m) ==
    /\ DOMAIN m = {"pos", "token", "errors"}
    /\ m.pos \in Positions /\ TokenFits(m.token, m.pos) /\ m.errors \in BOOLEAN

\* What an entry is and what lies directly below it.
Local(e, t) ==
    /\ "at" \in DOMAIN e
    /\ e.at \in StateKinds => MarkFits(e.state)
    /\ e.at \in MarkKinds => "mark" \in DOMAIN e
    /\ e.at \in ListKinds => "Eof" \in e.ends /\ "ends" \in DOMAIN e
    /\ e.at \in ParamKinds => "flags" \in DOMAIN e
    /\ e.at \in MemberKinds => t # <<>> /\ t[1].at = "NextMember"
    /\ e.at \in CaseKinds => t # <<>> /\ t[1].at = "NextCase"

Shape(t) == IsList(t) /\ \A i \in 1 .. Len(t) : Local(t[i], After(t, i))

Sound == WellFormed(p) /\ Shape(todo) /\ IsText

LEMMA ShapePushed ==
    ASSUME NEW t, Shape(t), NEW e, Local(e, t)
    PROVE  Shape(<<e>> \o t)
<1> DEFINE u == <<e>> \o t
<1>1. /\ IsList(u) /\ Len(u) = Len(t) + 1 /\ u[1] = e /\ Len(t) \in Nat
      /\ \A i \in 1 .. Len(t) : u[i + 1] = t[i]
      /\ After(u, 1) = t /\ \A i \in 1 .. Len(t) : After(u, i + 1) = After(t, i)
  BY Pushed, ListElim DEF Shape
<1> HIDE DEF u
<1>2. \A i \in 1 .. Len(u) : i = 1 \/ \E j \in 1 .. Len(t) : i = j + 1
  BY <1>1
<1>3. \A i \in 1 .. Len(u) : Local(u[i], After(u, i))
  BY <1>1, <1>2 DEF Shape
<1> QED BY <1>1, <1>3 DEF Shape, u

LEMMA ShapePopped ==
    ASSUME NEW t, Shape(t), t # <<>>
    PROVE  /\ Shape(Tail(t)) /\ IsList(Tail(t)) /\ t = <<Head(t)>> \o Tail(t)
           /\ Local(Head(t), Tail(t)) /\ Len(t) = Len(Tail(t)) + 1
<1>1. IsList(t)
  BY DEF Shape
<1>2. /\ IsList(Tail(t)) /\ Len(Tail(t)) = Len(t) - 1 /\ Len(t) \in Nat \ {0}
      /\ Head(t) = t[1] /\ t = <<t[1]>> \o Tail(t)
  BY <1>1, Popped
<1> DEFINE s == Tail(t)
           u == <<t[1]>> \o s
<1>3. /\ After(u, 1) = s /\ \A i \in 1 .. Len(s) : u[i + 1] = s[i]
      /\ \A i \in 1 .. Len(s) : After(u, i + 1) = After(s, i)
  <2> HIDE DEF s
  <2> QED BY <1>2, Pushed DEF s
<1>4. t = u
  BY <1>2
<1> HIDE DEF u, s
<1>5. Local(t[1], After(t, 1))
  BY <1>2 DEF Shape
<1>6. \A i \in 1 .. Len(s) : Local(s[i], After(s, i))
  <2> SUFFICES ASSUME NEW i \in 1 .. Len(s)
               PROVE  Local(s[i], After(s, i))
    OBVIOUS
  <2>1. i + 1 \in 1 .. Len(t)
    BY <1>2 DEF s
  <2>2. Local(t[i + 1], After(t, i + 1))
    BY <2>1 DEF Shape
  <2>3. t[i + 1] = s[i] /\ After(t, i + 1) = After(s, i)
    BY <1>3, <1>4
  <2> QED BY <2>2, <2>3
<1>7. After(t, 1) = s
  BY <1>3, <1>4
<1>8. IsList(s) /\ Head(t) = t[1] /\ t = <<t[1]>> \o s /\ Len(t) = Len(s) + 1
  BY <1>2 DEF s
<1>9. Shape(s)
  BY <1>6, <1>8 DEF Shape
<1> QED BY <1>5, <1>7, <1>8, <1>9 DEF s

-----------------------------------------------------------------------------
(* Entries put on a stack *)

Stack(es, t) == es \o t

\* Entries on top of a stack.
LEMMA Stacked ==
    ASSUME NEW t, IsList(t), NEW es, IsList(es), NEW u, u = Stack(es, t),
           NEW n, n = Len(es)
    PROVE  /\ IsList(u) /\ Len(u) = n + Len(t) /\ n \in Nat /\ Len(t) \in Nat
           /\ \A i \in 1 .. n : u[i] = es[i]
           /\ \A i \in 1 .. Len(t) : u[i + n] = t[i] /\ After(u, i + n) = After(t, i)
           /\ After(u, n) = t
           /\ n # 0 => u # <<>> /\ Head(u) = es[1]
<1> DEFINE S == Range(t) \cup Range(es)
<1>1. t \in Seq(S) /\ es \in Seq(S) /\ Len(t) \in Nat /\ n \in Nat
  BY ListElim
<1>2. /\ u \in Seq(S) /\ Len(u) = n + Len(t)
      /\ \A i \in 1 .. n : u[i] = es[i]
      /\ \A i \in 1 .. Len(t) : u[i + n] = t[i]
  <2> HIDE DEF S
  <2> QED BY <1>1 DEF Stack
<1>3. IsList(u)
  BY <1>2, ListIntro
<1>4. \A i \in 0 .. Len(t) : After(u, i + n) = After(t, i)
  <2> SUFFICES ASSUME NEW i \in 0 .. Len(t)
               PROVE  SubSeq(u, i + n + 1, n + Len(t)) = SubSeq(t, i + 1, Len(t))
    BY <1>1, <1>2 DEF After
  <2> HIDE DEF S
  <2>1. /\ SubSeq(u, i + n + 1, n + Len(t)) \in Seq(S)
        /\ Len(SubSeq(u, i + n + 1, n + Len(t))) = Len(t) - i
        /\ SubSeq(t, i + 1, Len(t)) \in Seq(S)
        /\ Len(SubSeq(t, i + 1, Len(t))) = Len(t) - i
        /\ \A j \in 1 .. Len(t) - i :
              /\ SubSeq(u, i + n + 1, n + Len(t))[j] = u[i + n + j]
              /\ SubSeq(t, i + 1, Len(t))[j] = t[i + j]
    BY <1>1, <1>2, SubSeqProperties
  <2>2. \A j \in 1 .. Len(t) - i : i + j \in 1 .. Len(t) /\ (i + j) + n = i + n + j
    BY <1>1
  <2>3. \A j \in 1 .. Len(t) - i : SubSeq(u, i + n + 1, n + Len(t))[j] = SubSeq(t, i + 1, Len(t))[j]
    BY <1>2, <2>1, <2>2
  <2> QED BY <2>1, <2>3, SeqEqual
<1>5. After(t, 0) = t /\ 0 + n = n
  BY <1>1 DEF After
<1>6. After(u, n) = t
  BY <1>1, <1>4, <1>5
<1>7. n # 0 => u # <<>> /\ Head(u) = es[1]
  BY <1>1, <1>2, <1>3, ListElim
<1> QED BY <1>1, <1>2, <1>3, <1>4, <1>6, <1>7

\* u is t with entries on top, and those entries.
Grown(u, t) ==
    /\ IsList(t) /\ IsList(u) /\ Len(u) - Len(t) \in Nat
    /\ After(u, Len(u) - Len(t)) = t
    /\ \A i \in 1 .. Len(t) : /\ u[i + (Len(u) - Len(t))] = t[i]
                             /\ After(u, i + (Len(u) - Len(t))) = After(t, i)

Added(u, t) == {u[i] : i \in 1 .. Len(u) - Len(t)}

\* A list of one, two or three entries.
Row(es) ==
    /\ es = [i \in DOMAIN es |-> es[i]]
    /\ \A i \in DOMAIN es : i = 1 \/ i = 2 \/ i = 3
    /\ 1 \in DOMAIN es /\ (3 \in DOMAIN es => 2 \in DOMAIN es)

LEMMA RowIsList ==
    ASSUME NEW es, Row(es)
    PROVE  /\ IsList(es) /\ Len(es) \in {1, 2, 3} /\ DOMAIN es = 1 .. Len(es)
           /\ 2 \notin DOMAIN es => Len(es) = 1
           /\ 2 \in DOMAIN es /\ 3 \notin DOMAIN es => Len(es) = 2
           /\ 3 \in DOMAIN es => Len(es) = 3
<1>1. \E n \in {1, 2, 3} :
         /\ DOMAIN es = 1 .. n
         /\ n = IF 3 \in DOMAIN es THEN 3 ELSE IF 2 \in DOMAIN es THEN 2 ELSE 1
  BY DEF Row
<1>2. es \in Seq(Range(es))
  BY <1>1 DEF Row, Range
<1>3. DOMAIN es = 1 .. Len(es)
  BY <1>2
<1> QED BY <1>1, <1>2, <1>3 DEF IsList

LEMMA GrownBy ==
    ASSUME NEW t, IsList(t), NEW es, Row(es), NEW u, u = Stack(es, t)
    PROVE  /\ Grown(u, t) /\ u # <<>> /\ Head(u) = es[1]
           /\ Len(u) - Len(t) = Len(es)
           /\ \A i \in DOMAIN es : u[i] = es[i]
           /\ \A e \in Added(u, t) : \E i \in DOMAIN es : e = es[i]
<1>1. IsList(es) /\ Len(es) \in {1, 2, 3} /\ DOMAIN es = 1 .. Len(es)
  BY RowIsList
<1>2. /\ IsList(u) /\ Len(u) = Len(es) + Len(t) /\ Len(es) \in Nat /\ Len(t) \in Nat
      /\ \A i \in 1 .. Len(es) : u[i] = es[i]
      /\ \A i \in 1 .. Len(t) : /\ u[i + Len(es)] = t[i]
                               /\ After(u, i + Len(es)) = After(t, i)
      /\ After(u, Len(es)) = t
      /\ u # <<>> /\ Head(u) = es[1]
  <2>1. PICK n : n = Len(es)
    OBVIOUS
  <2>2. n # 0
    BY <1>1, <2>1
  <2>3. /\ IsList(u) /\ Len(u) = n + Len(t) /\ n \in Nat /\ Len(t) \in Nat
        /\ \A i \in 1 .. n : u[i] = es[i]
        /\ \A i \in 1 .. Len(t) : u[i + n] = t[i] /\ After(u, i + n) = After(t, i)
        /\ After(u, n) = t
        /\ u # <<>> /\ Head(u) = es[1]
    BY <1>1, <2>1, <2>2, Stacked
  <2> QED BY <2>1, <2>3
<1>3. Len(u) - Len(t) = Len(es)
  BY <1>2
<1> QED BY <1>1, <1>2, <1>3 DEF Grown, Added

LEMMA GrownSelf ==
    ASSUME NEW t, IsList(t)
    PROVE  Grown(t, t) /\ Added(t, t) = {}
<1>1. Len(t) \in Nat /\ Len(t) - Len(t) = 0 /\ After(t, 0) = t
  BY ListElim DEF After
<1>2. \A i \in 1 .. Len(t) : i + 0 = i
  BY <1>1
<1> QED BY <1>1, <1>2 DEF Grown, Added

-----------------------------------------------------------------------------
(* How a step ends *)

LEMMA TopPopped ==
    ASSUME Sound, todo # <<>>
    PROVE  /\ IsList(Tail(todo)) /\ Shape(Tail(todo)) /\ Local(Top, Tail(todo))
           /\ todo = <<Top>> \o Tail(todo) /\ "at" \in DOMAIN Top
           /\ Quiet(p, p)
<1>1. Quiet(p, p)
  BY QuietSelf DEF Sound
<1>2. /\ IsList(Tail(todo)) /\ Shape(Tail(todo)) /\ Local(Top, Tail(todo))
      /\ todo = <<Top>> \o Tail(todo)
  BY ShapePopped DEF Sound, Top
<1> QED BY <1>1, <1>2 DEF Local

LEMMA Returned ==
    ASSUME Sound, todo # <<>>, NEW q, NEW v, return(q, v)
    PROVE  p' = q /\ Grown(todo', Tail(todo)) /\ Added(todo', Tail(todo)) = {}
BY TopPopped, GrownSelf DEF return

LEMMA Did ==
    ASSUME Sound, todo # <<>>, NEW q, NEW es, do(q, es), Row(es)
    PROVE  /\ p' = q /\ Grown(todo', Tail(todo)) /\ todo' # <<>> /\ Head(todo') = es[1]
           /\ \A e \in Added(todo', Tail(todo)) : \E i \in DOMAIN es : e = es[i]
<1>1. p' = q /\ todo' = Stack(es, Tail(todo)) /\ IsList(Tail(todo))
  BY TopPopped DEF do, Stack
<1> QED BY <1>1, GrownBy

LEMMA Gave ==
    ASSUME Sound, todo # <<>>, NEW q, NEW v, NEW es, give(q, v, es), Row(es)
    PROVE  /\ p' = q /\ Grown(todo', Tail(todo)) /\ todo' # <<>> /\ Head(todo') = es[1]
           /\ \A e \in Added(todo', Tail(todo)) : \E i \in DOMAIN es : e = es[i]
<1>1. p' = q /\ todo' = Stack(es, Tail(todo)) /\ IsList(Tail(todo))
  BY TopPopped DEF give, Stack
<1> QED BY <1>1, GrownBy

\* The ways a step may end, whatever it returns.
Leads(q, es) == do(q, es) \/ \E v : give(q, v, es)
Ends(q)      == \E v : return(q, v)

LEMMA Led ==
    ASSUME Sound, todo # <<>>, NEW q, NEW es, Leads(q, es), Row(es)
    PROVE  /\ p' = q /\ Grown(todo', Tail(todo)) /\ todo' # <<>> /\ Head(todo') = es[1]
           /\ \A e \in Added(todo', Tail(todo)) : \E i \in DOMAIN es : e = es[i]
BY Did, Gave DEF Leads

\* Where they lie.
LEMMA LedAt ==
    ASSUME Sound, todo # <<>>, NEW q, NEW es, Leads(q, es), Row(es)
    PROVE  /\ todo' = Stack(es, Tail(todo))
           /\ Len(todo') - Len(Tail(todo)) = Len(es)
           /\ \A i \in DOMAIN es : todo'[i] = es[i]
<1>1. todo' = Stack(es, Tail(todo))
  BY DEF Leads, do, give, Stack
<1>2. IsList(Tail(todo))
  BY TopPopped
<1>3. PICK t : t = Tail(todo)
  OBVIOUS
<1>4. PICK u : u = todo'
  OBVIOUS
<1>5. IsList(t) /\ u = Stack(es, t)
  BY <1>1, <1>2, <1>3, <1>4, Zenon
<1>6. Len(u) - Len(t) = Len(es) /\ \A i \in DOMAIN es : u[i] = es[i]
  <2>1. Len(u) - Len(t) = Len(es)
    BY <1>5, GrownBy
  <2>2. \A i \in DOMAIN es : u[i] = es[i]
    BY <1>5, GrownBy
  <2> QED BY <2>1, <2>2
<1> QED BY <1>1, <1>3, <1>4, <1>6, Zenon

LEMMA Ended ==
    ASSUME Sound, todo # <<>>, NEW q, Ends(q)
    PROVE  p' = q /\ Grown(todo', Tail(todo)) /\ Added(todo', Tail(todo)) = {}
BY Returned DEF Ends

LEMMA Ways ==
    ASSUME NEW q, NEW es
    PROVE  /\ do(q, es) => Leads(q, es)
           /\ \A v : give(q, v, es) => Leads(q, es)
           /\ \A v : return(q, v) => Ends(q)
BY DEF Leads, Ends

LEMMA StateAfter ==
    /\ \A q, es : do(q, es) => p' = q
    /\ \A q, v, es : give(q, v, es) => p' = q
    /\ \A q, v : return(q, v) => p' = q
    /\ \A q, es : Leads(q, es) => p' = q
    /\ \A q : Ends(q) => p' = q
BY DEF do, give, return, Leads, Ends

-----------------------------------------------------------------------------
(* Steps on which nothing depends *)

Neutral(e, kinds) ==
    /\ "at" \in DOMAIN e
    /\ e.at \in kinds \/ (e.at = "PutBack" /\ DOMAIN e.flags \cap Tracked = {})

\* A call that consumes a token has consumed one or is about to make such a call.
Progresses ==
    Top.at \in Fresh /\ Kind(p) # "Eof"
    => \/ Past(p, p')
       \/ todo' # <<>> /\ Head(todo').at \in Fresh /\ Kind(p') # "Eof"

Adds(kinds) ==
    /\ Grown(todo', Tail(todo))
    /\ \A e \in Added(todo', Tail(todo)) : Neutral(e, kinds)

PlainStep ==
    /\ todo # <<>> /\ Top.at \in ExprKinds \cup PlainStmts
    /\ Quiet(p, p')
    /\ Adds(PlainOf(Top.at))
    /\ Progresses

-----------------------------------------------------------------------------
(* Each helper after others, seen from where the step began *)

LEMMA StillQuiet ==
    ASSUME NEW q, NEW r, Quiet(p, q), Reads(p, r), SameLengths(q, r)
    PROVE  Quiet(p, r)
BY DEF Quiet, SameLengths

LEMMA QuietNextToken ==
    ASSUME Sound, NEW q, Quiet(p, q)
    PROVE  /\ Quiet(p, NextToken(q))
           /\ Kind(q) # "Eof" \/ Past(p, q) => Past(p, NextToken(q))
<1>1. Reads(p, q) /\ IsText
  BY DEF Quiet, Sound
<1> QED BY <1>1, ReadNextToken, StillQuiet

LEMMA QuietError ==
    ASSUME Sound, NEW q, Quiet(p, q)
    PROVE  /\ Quiet(p, Error(q)) /\ Kind(Error(q)) = Kind(q)
           /\ Past(p, q) => Past(p, Error(q))
<1>1. Reads(p, q) /\ IsText
  BY DEF Quiet, Sound
<1> QED BY <1>1, ReadError, StillQuiet

LEMMA QuietErrorIf ==
    ASSUME Sound, NEW q, Quiet(p, q), NEW wrong
    PROVE  /\ Quiet(p, ErrorIf(q, wrong)) /\ Kind(ErrorIf(q, wrong)) = Kind(q)
           /\ Past(p, q) => Past(p, ErrorIf(q, wrong))
<1>1. Reads(p, q) /\ IsText
  BY DEF Quiet, Sound
<1> QED BY <1>1, ReadErrorIf, StillQuiet

LEMMA QuietExpect ==
    ASSUME Sound, NEW q, Quiet(p, q), NEW kind
    PROVE  /\ Quiet(p, Expect(q, kind))
           /\ Kind(q) # "Eof" \/ Past(p, q) => Past(p, Expect(q, kind))
<1>1. Reads(p, q) /\ IsText
  BY DEF Quiet, Sound
<1> QED BY <1>1, ReadExpect, StillQuiet

LEMMA QuietBindingId ==
    ASSUME Sound, NEW q, Quiet(p, q)
    PROVE  /\ Quiet(p, TokenToBindingId(q))
           /\ Kind(q) # "Eof" => Kind(TokenToBindingId(q)) # "Eof"
           /\ Past(p, q) => Past(p, TokenToBindingId(q))
<1>1. Reads(p, q) /\ IsText
  BY DEF Quiet, Sound
<1> QED BY <1>1, ReadBindingId, StillQuiet

LEMMA QuietNextStatement ==
    ASSUME Sound, NEW q, Quiet(p, q)
    PROVE  /\ Quiet(p, NextStatement(q))
           /\ Kind(q) # "Eof" \/ Past(p, q) => Past(p, NextStatement(q))
<1>1. Reads(p, q) /\ IsText
  BY DEF Quiet, Sound
<1> QED BY <1>1, ReadNextStatement, StillQuiet

LEMMA QuietSemicolon ==
    ASSUME Sound, NEW q, Quiet(p, q)
    PROVE  /\ Quiet(p, RequireSemicolon(q))
           /\ Past(p, q) => Past(p, RequireSemicolon(q))
<1>1. Reads(p, q) /\ IsText
  BY DEF Quiet, Sound
<1> QED BY <1>1, ReadSemicolon, StillQuiet

LEMMA QuietWith ==
    ASSUME Sound, NEW q, Quiet(p, q), NEW flags, DOMAIN flags \cap Tracked = {}
    PROVE  /\ Quiet(p, with(q, flags)) /\ Kind(with(q, flags)) = Kind(q)
           /\ Past(p, q) => Past(p, with(q, flags))
<1>1. Reads(p, q) /\ IsText
  BY DEF Quiet, Sound
<1> QED BY <1>1, ReadWith, StillQuiet

\* The entries a plain step may put on the stack.
LEMMA PlainEntry ==
    ASSUME NEW e, "at" \in DOMAIN e, NEW top
    PROVE  /\ e.at \in ExprKinds => Neutral(e, PlainOf(top))
           /\ e.at \in PlainStmts /\ top \in StmtKinds => Neutral(e, PlainOf(top))
           /\ e.at = "PutBack" /\ DOMAIN e.flags \cap Tracked = {}
                 => Neutral(e, PlainOf(top))
BY DEF Neutral, PlainOf

LEMMA PlainExpression == ASSUME Sound, Expression PROVE PlainStep
<1>1. todo # <<>> /\ Top.at = "Expression" /\ Quiet(p, p)
  BY TopPopped DEF Expression, at
<1>2. \A e : "at" \in DOMAIN e /\ e.at \in {"Assignment", "ExpressionRest"} => Neutral(e, PlainOf(Top.at))
  BY <1>1, PlainEntry DEF ExprKinds
<1>4. Quiet(p, p')
  BY <1>1, StateAfter DEF Expression, F
<1>5. Adds(PlainOf(Top.at))
  BY <1>1, <1>2, Did DEF Expression, F, Row, Adds
<1>6. Progresses
  BY <1>1, Did DEF Expression, F, Row, Progresses, Fresh
<1> QED BY <1>1, <1>4, <1>5, <1>6 DEF PlainStep, ExprKinds

LEMMA PlainArrowMade == ASSUME Sound, ArrowMade PROVE PlainStep
<1>1. todo # <<>> /\ Top.at = "ArrowMade" /\ Quiet(p, p)
  BY TopPopped DEF ArrowMade, at
<1>4. Quiet(p, p')
  BY <1>1, StateAfter DEF ArrowMade
<1>5. Adds(PlainOf(Top.at))
  BY <1>1, Returned DEF ArrowMade, Row, Adds
<1>6. Progresses
  BY <1>1 DEF Progresses, Fresh
<1> QED BY <1>1, <1>4, <1>5, <1>6 DEF PlainStep, ExprKinds

LEMMA PlainAssignMade == ASSUME Sound, AssignMade PROVE PlainStep
<1>1. todo # <<>> /\ Top.at = "AssignMade" /\ Quiet(p, p)
  BY TopPopped DEF AssignMade, at
<1>4. Quiet(p, p')
  BY <1>1, StateAfter DEF AssignMade
<1>5. Adds(PlainOf(Top.at))
  BY <1>1, Returned DEF AssignMade, Row, Adds
<1>6. Progresses
  BY <1>1 DEF Progresses, Fresh
<1> QED BY <1>1, <1>4, <1>5, <1>6 DEF PlainStep, ExprKinds

LEMMA PlainConditionalExpression == ASSUME Sound, ConditionalExpression PROVE PlainStep
<1>1. todo # <<>> /\ Top.at = "Conditional" /\ Quiet(p, p)
  BY TopPopped DEF ConditionalExpression, at
<1>2. \A e : "at" \in DOMAIN e /\ e.at \in {"Binary", "ConditionalRest"} => Neutral(e, PlainOf(Top.at))
  BY <1>1, PlainEntry DEF ExprKinds
<1>4. Quiet(p, p')
  BY <1>1, StateAfter DEF ConditionalExpression, F
<1>5. Adds(PlainOf(Top.at))
  BY <1>1, <1>2, Did DEF ConditionalExpression, F, Row, Adds
<1>6. Progresses
  BY <1>1, Did DEF ConditionalExpression, F, Row, Progresses, Fresh
<1> QED BY <1>1, <1>4, <1>5, <1>6 DEF PlainStep, ExprKinds

LEMMA PlainConditionalAlternate == ASSUME Sound, ConditionalAlternate PROVE PlainStep
<1>1. todo # <<>> /\ Top.at = "Alternate" /\ Quiet(p, p)
  BY TopPopped DEF ConditionalAlternate, at
<1>2. \A e : "at" \in DOMAIN e /\ e.at \in {"Assignment", "ConditionalMade"} => Neutral(e, PlainOf(Top.at))
  BY <1>1, PlainEntry DEF ExprKinds
<1>4. Quiet(p, p')
  BY <1>1, StateAfter, QuietExpect DEF ConditionalAlternate, F
<1>5. Adds(PlainOf(Top.at))
  BY <1>1, <1>2, Did DEF ConditionalAlternate, F, Row, Adds
<1>6. Progresses
  BY <1>1 DEF Progresses, Fresh
<1> QED BY <1>1, <1>4, <1>5, <1>6 DEF PlainStep, ExprKinds

LEMMA PlainConditionalMade == ASSUME Sound, ConditionalMade PROVE PlainStep
<1>1. todo # <<>> /\ Top.at = "ConditionalMade" /\ Quiet(p, p)
  BY TopPopped DEF ConditionalMade, at
<1>4. Quiet(p, p')
  BY <1>1, StateAfter DEF ConditionalMade
<1>5. Adds(PlainOf(Top.at))
  BY <1>1, Returned DEF ConditionalMade, Row, Adds
<1>6. Progresses
  BY <1>1 DEF Progresses, Fresh
<1> QED BY <1>1, <1>4, <1>5, <1>6 DEF PlainStep, ExprKinds

LEMMA PlainBinaryOrHigher == ASSUME Sound, BinaryOrHigher PROVE PlainStep
<1>1. todo # <<>> /\ Top.at = "Binary" /\ Quiet(p, p)
  BY TopPopped DEF BinaryOrHigher, at
<1>2. \A e : "at" \in DOMAIN e /\ e.at \in {"BinaryRest", "Unary"} => Neutral(e, PlainOf(Top.at))
  BY <1>1, PlainEntry DEF ExprKinds
<1>4. Quiet(p, p')
  BY <1>1, StateAfter DEF BinaryOrHigher, F
<1>5. Adds(PlainOf(Top.at))
  BY <1>1, <1>2, Did DEF BinaryOrHigher, F, Row, Adds
<1>6. Progresses
  BY <1>1, Did DEF BinaryOrHigher, F, Row, Progresses, Fresh
<1> QED BY <1>1, <1>4, <1>5, <1>6 DEF PlainStep, ExprKinds

LEMMA PlainPrivateIn == ASSUME Sound, PrivateIn PROVE PlainStep
<1>1. todo # <<>> /\ Top.at = "Binary" /\ Quiet(p, p)
  BY TopPopped DEF PrivateIn, at
<1>2. \A e : "at" \in DOMAIN e /\ e.at \in {"Binary", "BinaryRest", "PrivateInMade"} => Neutral(e, PlainOf(Top.at))
  BY <1>1, PlainEntry DEF ExprKinds
<1>4. Quiet(p, p')
  BY <1>1, StateAfter, QuietNextToken DEF PrivateIn
<1>5. Adds(PlainOf(Top.at))
  BY <1>1, <1>2, Did, Gave DEF PrivateIn, Row, Adds
<1>6. Progresses
  BY <1>1, Did, Gave, QuietNextToken DEF PrivateIn, Row, Progresses, Fresh
<1> QED BY <1>1, <1>4, <1>5, <1>6 DEF PlainStep, ExprKinds

LEMMA PlainPrivateInMade == ASSUME Sound, PrivateInMade PROVE PlainStep
<1>1. todo # <<>> /\ Top.at = "PrivateInMade" /\ Quiet(p, p)
  BY TopPopped DEF PrivateInMade, at
<1>4. Quiet(p, p')
  BY <1>1, StateAfter DEF PrivateInMade
<1>5. Adds(PlainOf(Top.at))
  BY <1>1, Returned DEF PrivateInMade, Row, Adds
<1>6. Progresses
  BY <1>1 DEF Progresses, Fresh
<1> QED BY <1>1, <1>4, <1>5, <1>6 DEF PlainStep, ExprKinds

LEMMA PlainBinaryRest == ASSUME Sound, BinaryRest PROVE PlainStep
<1>1. todo # <<>> /\ Top.at = "BinaryRest" /\ Quiet(p, p)
  BY TopPopped DEF BinaryRest, at
<1>2. \A e : "at" \in DOMAIN e /\ e.at \in {"Binary", "BinaryMade"} => Neutral(e, PlainOf(Top.at))
  BY <1>1, PlainEntry DEF ExprKinds
<1>4. Quiet(p, p')
  BY <1>1, StateAfter, QuietNextToken DEF BinaryRest
<1>5. Adds(PlainOf(Top.at))
  BY <1>1, <1>2, Did, Returned DEF BinaryRest, Row, Adds
<1>6. Progresses
  BY <1>1 DEF Progresses, Fresh
<1> QED BY <1>1, <1>4, <1>5, <1>6 DEF PlainStep, ExprKinds

LEMMA PlainBinaryMade == ASSUME Sound, BinaryMade PROVE PlainStep
<1>1. todo # <<>> /\ Top.at = "BinaryMade" /\ Quiet(p, p)
  BY TopPopped DEF BinaryMade, at
<1>2. \A e : "at" \in DOMAIN e /\ e.at \in {"BinaryRest"} => Neutral(e, PlainOf(Top.at))
  BY <1>1, PlainEntry DEF ExprKinds
<1>4. Quiet(p, p')
  BY <1>1, StateAfter, QuietErrorIf DEF BinaryMade
<1>5. Adds(PlainOf(Top.at))
  BY <1>1, <1>2, Gave DEF BinaryMade, Row, Adds
<1>6. Progresses
  BY <1>1 DEF Progresses, Fresh
<1> QED BY <1>1, <1>4, <1>5, <1>6 DEF PlainStep, ExprKinds

LEMMA PlainUnaryExpression == ASSUME Sound, UnaryExpression PROVE PlainStep
<1>1. todo # <<>> /\ Top.at = "Unary" /\ Quiet(p, p)
  BY TopPopped DEF UnaryExpression, at
<1>2. \A e : "at" \in DOMAIN e /\ e.at \in {"AwaitMade", "LeftHandSide", "Postfix", "PrefixMade", "Unary", "UnaryMade"} => Neutral(e, PlainOf(Top.at))
  BY <1>1, PlainEntry DEF ExprKinds
<1>4. Quiet(p, p')
  BY <1>1, StateAfter, QuietNextToken, QuietError, QuietErrorIf DEF UnaryExpression, F
<1>5. Adds(PlainOf(Top.at))
  BY <1>1, <1>2, Did, Returned DEF UnaryExpression, F, Row, Adds
<1>6. Progresses
  BY <1>1, Did, Returned, QuietNextToken, QuietError, QuietErrorIf DEF UnaryExpression, F, Row, Progresses, Fresh
<1> QED BY <1>1, <1>4, <1>5, <1>6 DEF PlainStep, ExprKinds

LEMMA PlainUnaryMade == ASSUME Sound, UnaryMade PROVE PlainStep
<1>1. todo # <<>> /\ Top.at = "UnaryMade" /\ Quiet(p, p)
  BY TopPopped DEF UnaryMade, at
<1>4. Quiet(p, p')
  BY <1>1, StateAfter DEF UnaryMade
<1>5. Adds(PlainOf(Top.at))
  BY <1>1, Returned DEF UnaryMade, Row, Adds
<1>6. Progresses
  BY <1>1 DEF Progresses, Fresh
<1> QED BY <1>1, <1>4, <1>5, <1>6 DEF PlainStep, ExprKinds

LEMMA PlainAwaitMade == ASSUME Sound, AwaitMade PROVE PlainStep
<1>1. todo # <<>> /\ Top.at = "AwaitMade" /\ Quiet(p, p)
  BY TopPopped DEF AwaitMade, at
<1>4. Quiet(p, p')
  BY <1>1, StateAfter DEF AwaitMade
<1>5. Adds(PlainOf(Top.at))
  BY <1>1, Returned DEF AwaitMade, Row, Adds
<1>6. Progresses
  BY <1>1 DEF Progresses, Fresh
<1> QED BY <1>1, <1>4, <1>5, <1>6 DEF PlainStep, ExprKinds

LEMMA PlainPrefixMade == ASSUME Sound, PrefixMade PROVE PlainStep
<1>1. todo # <<>> /\ Top.at = "PrefixMade" /\ Quiet(p, p)
  BY TopPopped DEF PrefixMade, at
<1>4. Quiet(p, p')
  BY <1>1, StateAfter, QuietError, QuietNextStatement DEF PrefixMade, updates
<1>5. Adds(PlainOf(Top.at))
  BY <1>1, Returned DEF PrefixMade, updates, Row, Adds
<1>6. Progresses
  BY <1>1 DEF Progresses, Fresh
<1> QED BY <1>1, <1>4, <1>5, <1>6 DEF PlainStep, ExprKinds

LEMMA PlainPostfixMade == ASSUME Sound, PostfixMade PROVE PlainStep
<1>1. todo # <<>> /\ Top.at = "Postfix" /\ Quiet(p, p)
  BY TopPopped DEF PostfixMade, at
<1>4. Quiet(p, p')
  BY <1>1, StateAfter, QuietNextToken, QuietError, QuietNextStatement DEF PostfixMade, updates
<1>5. Adds(PlainOf(Top.at))
  BY <1>1, Returned DEF PostfixMade, updates, Row, Adds
<1>6. Progresses
  BY <1>1 DEF Progresses, Fresh
<1> QED BY <1>1, <1>4, <1>5, <1>6 DEF PlainStep, ExprKinds

LEMMA PlainIndexMade == ASSUME Sound, IndexMade PROVE PlainStep
<1>1. todo # <<>> /\ Top.at = "IndexMade" /\ Quiet(p, p)
  BY TopPopped DEF IndexMade, at
<1>4. Quiet(p, p')
  BY <1>1, StateAfter, QuietExpect DEF IndexMade
<1>5. Adds(PlainOf(Top.at))
  BY <1>1, Returned DEF IndexMade, Row, Adds
<1>6. Progresses
  BY <1>1 DEF Progresses, Fresh
<1> QED BY <1>1, <1>4, <1>5, <1>6 DEF PlainStep, ExprKinds

LEMMA PlainCallMade == ASSUME Sound, CallMade PROVE PlainStep
<1>1. todo # <<>> /\ Top.at = "CallMade" /\ Quiet(p, p)
  BY TopPopped DEF CallMade, at
<1>4. Quiet(p, p')
  BY <1>1, StateAfter DEF CallMade
<1>5. Adds(PlainOf(Top.at))
  BY <1>1, Returned DEF CallMade, Row, Adds
<1>6. Progresses
  BY <1>1 DEF Progresses, Fresh
<1> QED BY <1>1, <1>4, <1>5, <1>6 DEF PlainStep, ExprKinds

LEMMA PlainNewExpression == ASSUME Sound, NewExpression PROVE PlainStep
<1>1. todo # <<>> /\ Top.at = "New" /\ Quiet(p, p)
  BY TopPopped DEF NewExpression, at
<1>2. \A e : "at" \in DOMAIN e /\ e.at \in {"Links", "New", "NewCallee", "Primary"} => Neutral(e, PlainOf(Top.at))
  BY <1>1, PlainEntry DEF ExprKinds
<1>4. Quiet(p, p')
  BY <1>1, StateAfter, QuietNextToken, QuietError DEF NewExpression, base, F
<1>5. Adds(PlainOf(Top.at))
  BY <1>1, <1>2, Did, Returned DEF NewExpression, base, F, Row, Adds
<1>6. Progresses
  BY <1>1, Did, Returned, QuietNextToken, QuietError DEF NewExpression, base, F, Row, Progresses, Fresh
<1> QED BY <1>1, <1>4, <1>5, <1>6 DEF PlainStep, ExprKinds

LEMMA PlainNewCallee == ASSUME Sound, NewCallee PROVE PlainStep
<1>1. todo # <<>> /\ Top.at = "NewCallee" /\ Quiet(p, p)
  BY TopPopped DEF NewCallee, at
<1>2. \A e : "at" \in DOMAIN e /\ e.at \in {"Arguments", "NewMade"} => Neutral(e, PlainOf(Top.at))
  BY <1>1, PlainEntry DEF ExprKinds
<1>4. Quiet(p, p')
  BY <1>1, StateAfter DEF NewCallee, F
<1>5. Adds(PlainOf(Top.at))
  BY <1>1, <1>2, Did, Returned DEF NewCallee, F, Row, Adds
<1>6. Progresses
  BY <1>1 DEF Progresses, Fresh
<1> QED BY <1>1, <1>4, <1>5, <1>6 DEF PlainStep, ExprKinds

LEMMA PlainNewMade == ASSUME Sound, NewMade PROVE PlainStep
<1>1. todo # <<>> /\ Top.at = "NewMade" /\ Quiet(p, p)
  BY TopPopped DEF NewMade, at
<1>4. Quiet(p, p')
  BY <1>1, StateAfter DEF NewMade
<1>5. Adds(PlainOf(Top.at))
  BY <1>1, Returned DEF NewMade, Row, Adds
<1>6. Progresses
  BY <1>1 DEF Progresses, Fresh
<1> QED BY <1>1, <1>4, <1>5, <1>6 DEF PlainStep, ExprKinds

LEMMA PlainSpreadMade == ASSUME Sound, SpreadMade PROVE PlainStep
<1>1. todo # <<>> /\ Top.at = "SpreadMade" /\ Quiet(p, p)
  BY TopPopped DEF SpreadMade, at
<1>4. Quiet(p, p')
  BY <1>1, StateAfter DEF SpreadMade
<1>5. Adds(PlainOf(Top.at))
  BY <1>1, Returned DEF SpreadMade, Row, Adds
<1>6. Progresses
  BY <1>1 DEF Progresses, Fresh
<1> QED BY <1>1, <1>4, <1>5, <1>6 DEF PlainStep, ExprKinds

LEMMA PlainSuperProperty == ASSUME Sound, SuperProperty PROVE PlainStep
<1>1. todo # <<>> /\ Top.at = "Super" /\ Quiet(p, p)
  BY TopPopped DEF SuperProperty, at
<1>2. \A e : "at" \in DOMAIN e /\ e.at \in {"Arguments", "CallMade", "Expression", "IndexMade"} => Neutral(e, PlainOf(Top.at))
  BY <1>1, PlainEntry DEF ExprKinds
<1>4. Quiet(p, p')
  BY <1>1, StateAfter, QuietNextToken, QuietError, QuietNextStatement DEF SuperProperty, F
<1>5. Adds(PlainOf(Top.at))
  BY <1>1, <1>2, Did, Returned DEF SuperProperty, F, Row, Adds
<1>6. Progresses
  BY <1>1 DEF Progresses, Fresh
<1> QED BY <1>1, <1>4, <1>5, <1>6 DEF PlainStep, ExprKinds

LEMMA PlainBindingElement == ASSUME Sound, BindingElement PROVE PlainStep
<1>1. todo # <<>> /\ Top.at = "PatternElement" /\ Quiet(p, p)
  BY TopPopped DEF BindingElement, at
<1>2. \A e : "at" \in DOMAIN e /\ e.at \in {"Default", "Target"} => Neutral(e, PlainOf(Top.at))
  BY <1>1, PlainEntry DEF ExprKinds
<1>4. Quiet(p, p')
  BY <1>1, StateAfter DEF BindingElement, F
<1>5. Adds(PlainOf(Top.at))
  BY <1>1, <1>2, Did DEF BindingElement, F, Row, Adds
<1>6. Progresses
  BY <1>1 DEF Progresses, Fresh
<1> QED BY <1>1, <1>4, <1>5, <1>6 DEF PlainStep, ExprKinds

LEMMA PlainBindingDefault == ASSUME Sound, BindingDefault PROVE PlainStep
<1>1. todo # <<>> /\ Top.at = "Default" /\ Quiet(p, p)
  BY TopPopped DEF BindingDefault, at
<1>2. \A e : "at" \in DOMAIN e /\ e.at \in {"Assignment", "DefaultMade"} => Neutral(e, PlainOf(Top.at))
  BY <1>1, PlainEntry DEF ExprKinds
<1>4. Quiet(p, p')
  BY <1>1, StateAfter, QuietNextToken DEF BindingDefault, F
<1>5. Adds(PlainOf(Top.at))
  BY <1>1, <1>2, Did, Returned DEF BindingDefault, F, Row, Adds
<1>6. Progresses
  BY <1>1 DEF Progresses, Fresh
<1> QED BY <1>1, <1>4, <1>5, <1>6 DEF PlainStep, ExprKinds

LEMMA PlainDefaultMade == ASSUME Sound, DefaultMade PROVE PlainStep
<1>1. todo # <<>> /\ Top.at = "DefaultMade" /\ Quiet(p, p)
  BY TopPopped DEF DefaultMade, at
<1>4. Quiet(p, p')
  BY <1>1, StateAfter DEF DefaultMade
<1>5. Adds(PlainOf(Top.at))
  BY <1>1, Returned DEF DefaultMade, Row, Adds
<1>6. Progresses
  BY <1>1 DEF Progresses, Fresh
<1> QED BY <1>1, <1>4, <1>5, <1>6 DEF PlainStep, ExprKinds

LEMMA PlainShortMade == ASSUME Sound, ShortMade PROVE PlainStep
<1>1. todo # <<>> /\ Top.at = "ShortMade" /\ Quiet(p, p)
  BY TopPopped DEF ShortMade, at
<1>4. Quiet(p, p')
  BY <1>1, StateAfter DEF ShortMade
<1>5. Adds(PlainOf(Top.at))
  BY <1>1, Returned DEF ShortMade, Row, Adds
<1>6. Progresses
  BY <1>1 DEF Progresses, Fresh
<1> QED BY <1>1, <1>4, <1>5, <1>6 DEF PlainStep, ExprKinds

LEMMA PlainKeyValueMade == ASSUME Sound, KeyValueMade PROVE PlainStep
<1>1. todo # <<>> /\ Top.at = "KeyValueMade" /\ Quiet(p, p)
  BY TopPopped DEF KeyValueMade, at
<1>4. Quiet(p, p')
  BY <1>1, StateAfter DEF KeyValueMade
<1>5. Adds(PlainOf(Top.at))
  BY <1>1, Returned DEF KeyValueMade, Row, Adds
<1>6. Progresses
  BY <1>1 DEF Progresses, Fresh
<1> QED BY <1>1, <1>4, <1>5, <1>6 DEF PlainStep, ExprKinds

LEMMA PlainDeclaration == ASSUME Sound, Declaration PROVE PlainStep
<1>1. todo # <<>> /\ Top.at = "Declaration" /\ Quiet(p, p)
  BY TopPopped DEF Declaration, at
<1>2. \A e : "at" \in DOMAIN e /\ e.at \in {"Initializer", "Target"} => Neutral(e, PlainOf(Top.at))
  BY <1>1, PlainEntry DEF ExprKinds
<1>4. Quiet(p, p')
  BY <1>1, StateAfter DEF Declaration, F
<1>5. Adds(PlainOf(Top.at))
  BY <1>1, <1>2, Did DEF Declaration, F, Row, Adds
<1>6. Progresses
  BY <1>1 DEF Progresses, Fresh
<1> QED BY <1>1, <1>4, <1>5, <1>6 DEF PlainStep, ExprKinds

LEMMA PlainInitializer == ASSUME Sound, Initializer PROVE PlainStep
<1>1. todo # <<>> /\ Top.at = "Initializer" /\ Quiet(p, p)
  BY TopPopped DEF Initializer, at
<1>2. \A e : "at" \in DOMAIN e /\ e.at \in {"Assignment", "DeclarationMade"} => Neutral(e, PlainOf(Top.at))
  BY <1>1, PlainEntry DEF ExprKinds
<1>4. Quiet(p, p')
  BY <1>1, StateAfter, QuietNextToken DEF Initializer, F
<1>5. Adds(PlainOf(Top.at))
  BY <1>1, <1>2, Did, Returned DEF Initializer, F, Row, Adds
<1>6. Progresses
  BY <1>1 DEF Progresses, Fresh
<1> QED BY <1>1, <1>4, <1>5, <1>6 DEF PlainStep, ExprKinds

LEMMA PlainDeclarationMade == ASSUME Sound, DeclarationMade PROVE PlainStep
<1>1. todo # <<>> /\ Top.at = "DeclarationMade" /\ Quiet(p, p)
  BY TopPopped DEF DeclarationMade, at
<1>4. Quiet(p, p')
  BY <1>1, StateAfter DEF DeclarationMade
<1>5. Adds(PlainOf(Top.at))
  BY <1>1, Returned DEF DeclarationMade, Row, Adds
<1>6. Progresses
  BY <1>1 DEF Progresses, Fresh
<1> QED BY <1>1, <1>4, <1>5, <1>6 DEF PlainStep, ExprKinds

LEMMA PlainPropertyKey == ASSUME Sound, PropertyKey PROVE PlainStep
<1>1. todo # <<>> /\ Top.at = "PropertyKey" /\ Quiet(p, p)
  BY TopPopped DEF PropertyKey, at
<1>2. \A e : "at" \in DOMAIN e /\ e.at \in {"Assignment", "ComputedKey"} => Neutral(e, PlainOf(Top.at))
  BY <1>1, PlainEntry DEF ExprKinds
<1>4. Quiet(p, p')
  BY <1>1, StateAfter, QuietNextToken, QuietError DEF PropertyKey, F
<1>5. Adds(PlainOf(Top.at))
  BY <1>1, <1>2, Did, Returned DEF PropertyKey, F, Row, Adds
<1>6. Progresses
  BY <1>1 DEF Progresses, Fresh
<1> QED BY <1>1, <1>4, <1>5, <1>6 DEF PlainStep, ExprKinds

LEMMA PlainComputedKey == ASSUME Sound, ComputedKey PROVE PlainStep
<1>1. todo # <<>> /\ Top.at = "ComputedKey" /\ Quiet(p, p)
  BY TopPopped DEF ComputedKey, at
<1>4. Quiet(p, p')
  BY <1>1, StateAfter, QuietExpect DEF ComputedKey
<1>5. Adds(PlainOf(Top.at))
  BY <1>1, Returned DEF ComputedKey, Row, Adds
<1>6. Progresses
  BY <1>1 DEF Progresses, Fresh
<1> QED BY <1>1, <1>4, <1>5, <1>6 DEF PlainStep, ExprKinds

LEMMA PlainModifiedProperty == ASSUME Sound, ModifiedProperty PROVE PlainStep
<1>1. todo # <<>> /\ Top.at = "ModifiedProperty" /\ Quiet(p, p)
  BY TopPopped DEF ModifiedProperty, at
<1>2. \A e : "at" \in DOMAIN e /\ e.at \in {"Method"} => Neutral(e, PlainOf(Top.at))
  BY <1>1, PlainEntry DEF ExprKinds
<1>4. Quiet(p, p')
  BY <1>1, StateAfter DEF ModifiedProperty, method
<1>5. Adds(PlainOf(Top.at))
  BY <1>1, <1>2, Did, Returned DEF ModifiedProperty, method, Row, Adds
<1>6. Progresses
  BY <1>1 DEF Progresses, Fresh
<1> QED BY <1>1, <1>4, <1>5, <1>6 DEF PlainStep, ExprKinds

LEMMA PlainMethodMade == ASSUME Sound, MethodMade PROVE PlainStep
<1>1. todo # <<>> /\ Top.at = "MethodMade" /\ Quiet(p, p)
  BY TopPopped DEF MethodMade, at
<1>4. Quiet(p, p')
  BY <1>1, StateAfter DEF MethodMade
<1>5. Adds(PlainOf(Top.at))
  BY <1>1, Returned DEF MethodMade, Row, Adds
<1>6. Progresses
  BY <1>1 DEF Progresses, Fresh
<1> QED BY <1>1, <1>4, <1>5, <1>6 DEF PlainStep, ExprKinds

LEMMA PlainFunctionLiteral == ASSUME Sound, FunctionLiteral PROVE PlainStep
<1>1. todo # <<>> /\ Top.at = "Function" /\ Quiet(p, p)
  BY TopPopped DEF FunctionLiteral, at
<1>2. \A e : "at" \in DOMAIN e /\ e.at \in {"FunctionBody", "Parameters"} => Neutral(e, PlainOf(Top.at))
  BY <1>1, PlainEntry DEF ExprKinds
<1>3. \A f : DOMAIN f \cap Tracked = {} => Neutral(putBack(f), PlainOf(Top.at))
  BY PlainEntry DEF putBack
<1>4. Quiet(p, p')
  BY <1>1, StateAfter, QuietNextToken, QuietError, QuietBindingId, QuietWith DEF FunctionLiteral, F, saved, Tracked
<1>5. Adds(PlainOf(Top.at))
  BY <1>1, <1>2, <1>3, Did DEF FunctionLiteral, F, saved, Row, Adds, Tracked
<1>6. Progresses
  BY <1>1, Did, QuietNextToken, QuietError, QuietBindingId, QuietWith DEF FunctionLiteral, F, saved, Row, Progresses, Fresh, Tracked
<1> QED BY <1>1, <1>4, <1>5, <1>6 DEF PlainStep, ExprKinds

LEMMA PlainFunctionBody == ASSUME Sound, FunctionBody PROVE PlainStep
<1>1. todo # <<>> /\ Top.at = "FunctionBody" /\ Quiet(p, p)
  BY TopPopped DEF FunctionBody, at
<1>2. \A e : "at" \in DOMAIN e /\ e.at \in {"FunctionBlock", "FunctionMade"} => Neutral(e, PlainOf(Top.at))
  BY <1>1, PlainEntry DEF ExprKinds
<1>4. Quiet(p, p')
  BY <1>1, StateAfter DEF FunctionBody
<1>5. Adds(PlainOf(Top.at))
  BY <1>1, <1>2, Did DEF FunctionBody, Row, Adds
<1>6. Progresses
  BY <1>1 DEF Progresses, Fresh
<1> QED BY <1>1, <1>4, <1>5, <1>6 DEF PlainStep, ExprKinds

LEMMA PlainFunctionMade == ASSUME Sound, FunctionMade PROVE PlainStep
<1>1. todo # <<>> /\ Top.at = "FunctionMade" /\ Quiet(p, p)
  BY TopPopped DEF FunctionMade, at
<1>4. Quiet(p, p')
  BY <1>1, StateAfter DEF FunctionMade
<1>5. Adds(PlainOf(Top.at))
  BY <1>1, Returned DEF FunctionMade, Row, Adds
<1>6. Progresses
  BY <1>1 DEF Progresses, Fresh
<1> QED BY <1>1, <1>4, <1>5, <1>6 DEF PlainStep, ExprKinds

LEMMA PlainBlockMade == ASSUME Sound, BlockMade PROVE PlainStep
<1>1. todo # <<>> /\ Top.at = "BlockMade" /\ Quiet(p, p)
  BY TopPopped DEF BlockMade, at
<1>4. Quiet(p, p')
  BY <1>1, StateAfter, QuietExpect DEF BlockMade
<1>5. Adds(PlainOf(Top.at))
  BY <1>1, Returned DEF BlockMade, Row, Adds
<1>6. Progresses
  BY <1>1 DEF Progresses, Fresh
<1> QED BY <1>1, <1>4, <1>5, <1>6 DEF PlainStep, ExprKinds, PlainStmts

LEMMA PlainFunctionDeclared == ASSUME Sound, FunctionDeclared PROVE PlainStep
<1>1. todo # <<>> /\ Top.at = "FunctionDeclared" /\ Quiet(p, p)
  BY TopPopped DEF FunctionDeclared, at
<1>4. Quiet(p, p')
  BY <1>1, StateAfter DEF FunctionDeclared
<1>5. Adds(PlainOf(Top.at))
  BY <1>1, Returned DEF FunctionDeclared, Row, Adds
<1>6. Progresses
  BY <1>1 DEF Progresses, Fresh
<1> QED BY <1>1, <1>4, <1>5, <1>6 DEF PlainStep, ExprKinds, PlainStmts

LEMMA PlainClassDeclared == ASSUME Sound, ClassDeclared PROVE PlainStep
<1>1. todo # <<>> /\ Top.at = "ClassDeclared" /\ Quiet(p, p)
  BY TopPopped DEF ClassDeclared, at
<1>4. Quiet(p, p')
  BY <1>1, StateAfter DEF ClassDeclared
<1>5. Adds(PlainOf(Top.at))
  BY <1>1, Returned DEF ClassDeclared, Row, Adds
<1>6. Progresses
  BY <1>1 DEF Progresses, Fresh
<1> QED BY <1>1, <1>4, <1>5, <1>6 DEF PlainStep, ExprKinds, PlainStmts

LEMMA PlainLexicalDeclaration == ASSUME Sound, LexicalDeclaration PROVE PlainStep
<1>1. todo # <<>> /\ Top.at = "Lexical" /\ Quiet(p, p)
  BY TopPopped DEF LexicalDeclaration, at
<1>2. \A e : "at" \in DOMAIN e /\ e.at \in {"Declarations", "LexicalMade"} => Neutral(e, PlainOf(Top.at))
  BY <1>1, PlainEntry DEF ExprKinds, PlainStmts, StmtKinds
<1>4. Quiet(p, p')
  BY <1>1, StateAfter, QuietNextToken, QuietErrorIf DEF LexicalDeclaration, F
<1>5. Adds(PlainOf(Top.at))
  BY <1>1, <1>2, Did DEF LexicalDeclaration, F, Row, Adds
<1>6. Progresses
  BY <1>1, Did, QuietNextToken, QuietErrorIf DEF LexicalDeclaration, F, Row, Progresses, Fresh
<1> QED BY <1>1, <1>4, <1>5, <1>6 DEF PlainStep, ExprKinds, PlainStmts

LEMMA PlainLexicalMade == ASSUME Sound, LexicalMade PROVE PlainStep
<1>1. todo # <<>> /\ Top.at = "LexicalMade" /\ Quiet(p, p)
  BY TopPopped DEF LexicalMade, at
<1>4. Quiet(p, p')
  BY <1>1, StateAfter, QuietErrorIf, QuietSemicolon DEF LexicalMade, missesInit
<1>5. Adds(PlainOf(Top.at))
  BY <1>1, Returned DEF LexicalMade, missesInit, Row, Adds
<1>6. Progresses
  BY <1>1 DEF Progresses, Fresh
<1> QED BY <1>1, <1>4, <1>5, <1>6 DEF PlainStep, ExprKinds, PlainStmts

LEMMA PlainHeaded == ASSUME Sound, Headed PROVE PlainStep
<1>1. todo # <<>> /\ Top.at = "Headed" /\ Quiet(p, p)
  BY TopPopped DEF Headed, at
<1>2. \A e : "at" \in DOMAIN e /\ e.at \in {"Expression", "HeadMade"} => Neutral(e, PlainOf(Top.at))
  BY <1>1, PlainEntry DEF ExprKinds, PlainStmts, StmtKinds
<1>4. Quiet(p, p')
  BY <1>1, StateAfter, QuietNextToken, QuietExpect DEF Headed, F
<1>5. Adds(PlainOf(Top.at))
  BY <1>1, <1>2, Did DEF Headed, F, Row, Adds
<1>6. Progresses
  BY <1>1, Did, QuietNextToken, QuietExpect DEF Headed, F, Row, Progresses, Fresh
<1> QED BY <1>1, <1>4, <1>5, <1>6 DEF PlainStep, ExprKinds, PlainStmts

LEMMA PlainIfElse == ASSUME Sound, IfElse PROVE PlainStep
<1>1. todo # <<>> /\ Top.at = "IfElse" /\ Quiet(p, p)
  BY TopPopped DEF IfElse, at
<1>2. \A e : "at" \in DOMAIN e /\ e.at \in {"IfMade", "Statement"} => Neutral(e, PlainOf(Top.at))
  BY <1>1, PlainEntry DEF ExprKinds, PlainStmts, StmtKinds
<1>4. Quiet(p, p')
  BY <1>1, StateAfter, QuietNextToken, QuietWith DEF IfElse, alone, Flag, F, Tracked
<1>5. Adds(PlainOf(Top.at))
  BY <1>1, <1>2, Did, Returned DEF IfElse, alone, Flag, F, Row, Adds, Tracked
<1>6. Progresses
  BY <1>1 DEF Progresses, Fresh
<1> QED BY <1>1, <1>4, <1>5, <1>6 DEF PlainStep, ExprKinds, PlainStmts

LEMMA PlainIfMade == ASSUME Sound, IfMade PROVE PlainStep
<1>1. todo # <<>> /\ Top.at = "IfMade" /\ Quiet(p, p)
  BY TopPopped DEF IfMade, at
<1>4. Quiet(p, p')
  BY <1>1, StateAfter DEF IfMade
<1>5. Adds(PlainOf(Top.at))
  BY <1>1, Returned DEF IfMade, Row, Adds
<1>6. Progresses
  BY <1>1 DEF Progresses, Fresh
<1> QED BY <1>1, <1>4, <1>5, <1>6 DEF PlainStep, ExprKinds, PlainStmts

LEMMA PlainWhileMade == ASSUME Sound, WhileMade PROVE PlainStep
<1>1. todo # <<>> /\ Top.at = "WhileMade" /\ Quiet(p, p)
  BY TopPopped DEF WhileMade, at
<1>4. Quiet(p, p')
  BY <1>1, StateAfter DEF WhileMade
<1>5. Adds(PlainOf(Top.at))
  BY <1>1, Returned DEF WhileMade, Row, Adds
<1>6. Progresses
  BY <1>1 DEF Progresses, Fresh
<1> QED BY <1>1, <1>4, <1>5, <1>6 DEF PlainStep, ExprKinds, PlainStmts

LEMMA PlainWithMade == ASSUME Sound, WithMade PROVE PlainStep
<1>1. todo # <<>> /\ Top.at = "WithMade" /\ Quiet(p, p)
  BY TopPopped DEF WithMade, at
<1>4. Quiet(p, p')
  BY <1>1, StateAfter DEF WithMade
<1>5. Adds(PlainOf(Top.at))
  BY <1>1, Returned DEF WithMade, Row, Adds
<1>6. Progresses
  BY <1>1 DEF Progresses, Fresh
<1> QED BY <1>1, <1>4, <1>5, <1>6 DEF PlainStep, ExprKinds, PlainStmts

LEMMA PlainDoHead == ASSUME Sound, DoHead PROVE PlainStep
<1>1. todo # <<>> /\ Top.at = "DoHead" /\ Quiet(p, p)
  BY TopPopped DEF DoHead, at
<1>2. \A e : "at" \in DOMAIN e /\ e.at \in {"DoMade", "Expression"} => Neutral(e, PlainOf(Top.at))
  BY <1>1, PlainEntry DEF ExprKinds, PlainStmts, StmtKinds
<1>4. Quiet(p, p')
  BY <1>1, StateAfter, QuietExpect DEF DoHead, F
<1>5. Adds(PlainOf(Top.at))
  BY <1>1, <1>2, Did DEF DoHead, F, Row, Adds
<1>6. Progresses
  BY <1>1 DEF Progresses, Fresh
<1> QED BY <1>1, <1>4, <1>5, <1>6 DEF PlainStep, ExprKinds, PlainStmts

LEMMA PlainDoMade == ASSUME Sound, DoMade PROVE PlainStep
<1>1. todo # <<>> /\ Top.at = "DoMade" /\ Quiet(p, p)
  BY TopPopped DEF DoMade, at
<1>4. Quiet(p, p')
  BY <1>1, StateAfter, QuietNextToken, QuietExpect DEF DoMade
<1>5. Adds(PlainOf(Top.at))
  BY <1>1, Returned DEF DoMade, Row, Adds
<1>6. Progresses
  BY <1>1 DEF Progresses, Fresh
<1> QED BY <1>1, <1>4, <1>5, <1>6 DEF PlainStep, ExprKinds, PlainStmts

LEMMA PlainForEachMade == ASSUME Sound, ForEachMade PROVE PlainStep
<1>1. todo # <<>> /\ Top.at = "ForEachMade" /\ Quiet(p, p)
  BY TopPopped DEF ForEachMade, at
<1>4. Quiet(p, p')
  BY <1>1, StateAfter DEF ForEachMade
<1>5. Adds(PlainOf(Top.at))
  BY <1>1, Returned DEF ForEachMade, Row, Adds
<1>6. Progresses
  BY <1>1 DEF Progresses, Fresh
<1> QED BY <1>1, <1>4, <1>5, <1>6 DEF PlainStep, ExprKinds, PlainStmts

LEMMA PlainForMade == ASSUME Sound, ForMade PROVE PlainStep
<1>1. todo # <<>> /\ Top.at = "ForMade" /\ Quiet(p, p)
  BY TopPopped DEF ForMade, at
<1>4. Quiet(p, p')
  BY <1>1, StateAfter DEF ForMade
<1>5. Adds(PlainOf(Top.at))
  BY <1>1, Returned DEF ForMade, Row, Adds
<1>6. Progresses
  BY <1>1 DEF Progresses, Fresh
<1> QED BY <1>1, <1>4, <1>5, <1>6 DEF PlainStep, ExprKinds, PlainStmts

LEMMA PlainReturnStatement == ASSUME Sound, ReturnStatement PROVE PlainStep
<1>1. todo # <<>> /\ Top.at = "return" /\ Quiet(p, p)
  BY TopPopped DEF ReturnStatement, at
<1>2. \A e : "at" \in DOMAIN e /\ e.at \in {"ArgumentOf", "Expression"} => Neutral(e, PlainOf(Top.at))
  BY <1>1, PlainEntry DEF ExprKinds, PlainStmts, StmtKinds
<1>4. Quiet(p, p')
  BY <1>1, StateAfter, QuietNextToken, QuietError, QuietNextStatement, QuietSemicolon DEF ReturnStatement, illegal, F
<1>5. Adds(PlainOf(Top.at))
  BY <1>1, <1>2, Did, Returned DEF ReturnStatement, illegal, F, Row, Adds
<1>6. Progresses
  BY <1>1, Did, Returned, QuietNextToken, QuietError, QuietNextStatement, QuietSemicolon DEF ReturnStatement, illegal, F, Row, Progresses, Fresh
<1> QED BY <1>1, <1>4, <1>5, <1>6 DEF PlainStep, ExprKinds, PlainStmts

LEMMA PlainThrowStatement == ASSUME Sound, ThrowStatement PROVE PlainStep
<1>1. todo # <<>> /\ Top.at = "throw" /\ Quiet(p, p)
  BY TopPopped DEF ThrowStatement, at
<1>2. \A e : "at" \in DOMAIN e /\ e.at \in {"ArgumentOf", "Expression"} => Neutral(e, PlainOf(Top.at))
  BY <1>1, PlainEntry DEF ExprKinds, PlainStmts, StmtKinds
<1>4. Quiet(p, p')
  BY <1>1, StateAfter, QuietNextToken, QuietError, QuietNextStatement DEF ThrowStatement, illegal, F
<1>5. Adds(PlainOf(Top.at))
  BY <1>1, <1>2, Did, Returned DEF ThrowStatement, illegal, F, Row, Adds
<1>6. Progresses
  BY <1>1, Did, Returned, QuietNextToken, QuietError, QuietNextStatement DEF ThrowStatement, illegal, F, Row, Progresses, Fresh
<1> QED BY <1>1, <1>4, <1>5, <1>6 DEF PlainStep, ExprKinds, PlainStmts

LEMMA PlainArgumentOf == ASSUME Sound, ArgumentOf PROVE PlainStep
<1>1. todo # <<>> /\ Top.at = "ArgumentOf" /\ Quiet(p, p)
  BY TopPopped DEF ArgumentOf, at
<1>4. Quiet(p, p')
  BY <1>1, StateAfter, QuietSemicolon DEF ArgumentOf
<1>5. Adds(PlainOf(Top.at))
  BY <1>1, Returned DEF ArgumentOf, Row, Adds
<1>6. Progresses
  BY <1>1 DEF Progresses, Fresh
<1> QED BY <1>1, <1>4, <1>5, <1>6 DEF PlainStep, ExprKinds, PlainStmts

LEMMA PlainTryStatement == ASSUME Sound, TryStatement PROVE PlainStep
<1>1. todo # <<>> /\ Top.at = "try" /\ Quiet(p, p)
  BY TopPopped DEF TryStatement, at
<1>2. \A e : "at" \in DOMAIN e /\ e.at \in {"Block", "TryCatch"} => Neutral(e, PlainOf(Top.at))
  BY <1>1, PlainEntry DEF ExprKinds, PlainStmts, StmtKinds
<1>4. Quiet(p, p')
  BY <1>1, StateAfter, QuietNextToken DEF TryStatement, F
<1>5. Adds(PlainOf(Top.at))
  BY <1>1, <1>2, Did DEF TryStatement, F, Row, Adds
<1>6. Progresses
  BY <1>1, Did, QuietNextToken DEF TryStatement, F, Row, Progresses, Fresh
<1> QED BY <1>1, <1>4, <1>5, <1>6 DEF PlainStep, ExprKinds, PlainStmts

LEMMA PlainTryCatch == ASSUME Sound, TryCatch PROVE PlainStep
<1>1. todo # <<>> /\ Top.at = "TryCatch" /\ Quiet(p, p)
  BY TopPopped DEF TryCatch, at
<1>2. \A e : "at" \in DOMAIN e /\ e.at \in {"CatchBlock", "Target", "TryFinally"} => Neutral(e, PlainOf(Top.at))
  BY <1>1, PlainEntry DEF ExprKinds, PlainStmts, StmtKinds
<1>4. Quiet(p, p')
  BY <1>1, StateAfter, QuietNextToken DEF TryCatch, F
<1>5. Adds(PlainOf(Top.at))
  BY <1>1, <1>2, Did, Gave DEF TryCatch, F, Row, Adds
<1>6. Progresses
  BY <1>1 DEF Progresses, Fresh
<1> QED BY <1>1, <1>4, <1>5, <1>6 DEF PlainStep, ExprKinds, PlainStmts

LEMMA PlainCatchBlock == ASSUME Sound, CatchBlock PROVE PlainStep
<1>1. todo # <<>> /\ Top.at = "CatchBlock" /\ Quiet(p, p)
  BY TopPopped DEF CatchBlock, at
<1>2. \A e : "at" \in DOMAIN e /\ e.at \in {"Block", "CatchMade"} => Neutral(e, PlainOf(Top.at))
  BY <1>1, PlainEntry DEF ExprKinds, PlainStmts, StmtKinds
<1>4. Quiet(p, p')
  BY <1>1, StateAfter, QuietExpect DEF CatchBlock, F
<1>5. Adds(PlainOf(Top.at))
  BY <1>1, <1>2, Did DEF CatchBlock, F, Row, Adds
<1>6. Progresses
  BY <1>1 DEF Progresses, Fresh
<1> QED BY <1>1, <1>4, <1>5, <1>6 DEF PlainStep, ExprKinds, PlainStmts

LEMMA PlainCatchMade == ASSUME Sound, CatchMade PROVE PlainStep
<1>1. todo # <<>> /\ Top.at = "CatchMade" /\ Quiet(p, p)
  BY TopPopped DEF CatchMade, at
<1>2. \A e : "at" \in DOMAIN e /\ e.at \in {"TryFinally"} => Neutral(e, PlainOf(Top.at))
  BY <1>1, PlainEntry DEF ExprKinds, PlainStmts, StmtKinds
<1>4. Quiet(p, p')
  BY <1>1, StateAfter DEF CatchMade
<1>5. Adds(PlainOf(Top.at))
  BY <1>1, <1>2, Gave DEF CatchMade, Row, Adds
<1>6. Progresses
  BY <1>1 DEF Progresses, Fresh
<1> QED BY <1>1, <1>4, <1>5, <1>6 DEF PlainStep, ExprKinds, PlainStmts

LEMMA PlainTryFinally == ASSUME Sound, TryFinally PROVE PlainStep
<1>1. todo # <<>> /\ Top.at = "TryFinally" /\ Quiet(p, p)
  BY TopPopped DEF TryFinally, at
<1>2. \A e : "at" \in DOMAIN e /\ e.at \in {"Block", "TryMade"} => Neutral(e, PlainOf(Top.at))
  BY <1>1, PlainEntry DEF ExprKinds, PlainStmts, StmtKinds
<1>4. Quiet(p, p')
  BY <1>1, StateAfter, QuietNextToken, QuietError DEF TryFinally, F
<1>5. Adds(PlainOf(Top.at))
  BY <1>1, <1>2, Did, Returned DEF TryFinally, F, Row, Adds
<1>6. Progresses
  BY <1>1 DEF Progresses, Fresh
<1> QED BY <1>1, <1>4, <1>5, <1>6 DEF PlainStep, ExprKinds, PlainStmts

LEMMA PlainTryMade == ASSUME Sound, TryMade PROVE PlainStep
<1>1. todo # <<>> /\ Top.at = "TryMade" /\ Quiet(p, p)
  BY TopPopped DEF TryMade, at
<1>4. Quiet(p, p')
  BY <1>1, StateAfter DEF TryMade
<1>5. Adds(PlainOf(Top.at))
  BY <1>1, Returned DEF TryMade, Row, Adds
<1>6. Progresses
  BY <1>1 DEF Progresses, Fresh
<1> QED BY <1>1, <1>4, <1>5, <1>6 DEF PlainStep, ExprKinds, PlainStmts

LEMMA PlainPrimary == ASSUME Sound, Primary PROVE PlainStep
<1>1. todo # <<>> /\ Top.at = "Primary" /\ Quiet(p, p)
  BY TopPopped DEF Primary, at
<1>2. \/ Kind(p) # "Eof" /\ Ends(NextToken(p))
      \/ Kind(p) # "Eof" /\ Leads(NextToken(p), <<F("Super")>>)
      \/ Leads(p, <<F("Parenthesised")>>)
      \/ Leads(p, <<F("ArrayLiteral")>>)
      \/ Leads(p, <<F("ObjectLiteral")>>)
      \/ Leads(p, <<[at |-> "Class", declaration |-> FALSE]>>)
      \/ Leads(p, <<[at |-> "Function", declaration |-> FALSE]>>)
      \/ Ends(NextStatement(Error(p)))
  <2> DEFINE name == Kind(p) \in Unreserved
             first == {"Identifier", "Number", "this"}
             second == {"super", "(", "[", "{"}
             third == {"class", "function"}
  <2>1. CASE Kind(p) \in first
    BY <2>1, Ways, Zenon DEF Primary
  <2>2. CASE Kind(p) \in second
    BY <2>2, Ways, Zenon DEF Primary
  <2>3. CASE Kind(p) \in third
    BY <2>3, Ways, Zenon DEF Primary
  <2>4. CASE name
    <3>1. Kind(p) # "Eof"
      BY <2>4 DEF Unreserved
    <3> QED BY <2>4, <3>1, Ways, Zenon DEF Primary
  <2>5. CASE Kind(p) \notin first /\ Kind(p) \notin second /\ Kind(p) \notin third /\ ~name
    BY <2>5, Ways, Zenon DEF Primary
  <2> HIDE DEF name, first, second, third
  <2> QED BY <2>1, <2>2, <2>3, <2>4, <2>5
<1>3. \A e : "at" \in DOMAIN e /\ e.at \in {"Super", "Parenthesised", "ArrayLiteral", "ObjectLiteral", "Class", "Function"} => Neutral(e, PlainOf(Top.at))
  BY <1>1, PlainEntry DEF ExprKinds
<1>4. Quiet(p, p')
  BY <1>1, <1>2, StateAfter, QuietNextToken, QuietError, QuietNextStatement
<1>5. Adds(PlainOf(Top.at))
  BY <1>1, <1>2, <1>3, Led, Ended DEF Adds, Row, F
<1>6. Progresses
  BY <1>1, <1>2, Led, StateAfter, QuietNextToken, QuietError, QuietNextStatement
     DEF Progresses, Row, F, Fresh
<1> QED BY <1>1, <1>4, <1>5, <1>6 DEF PlainStep, ExprKinds

LEMMA PlainSingleArgArrow == ASSUME Sound, SingleArgArrow PROVE PlainStep
<1>1. todo # <<>> /\ Top.at = "SingleArgArrow" /\ Quiet(p, p)
  BY TopPopped DEF SingleArgArrow, at
<1>2. \A e : "at" \in DOMAIN e /\ e.at \in {"Arrow"} => Neutral(e, PlainOf(Top.at))
  BY <1>1, PlainEntry DEF ExprKinds
<1>3. \A f : DOMAIN f \cap Tracked = {} => Neutral(putBack(f), PlainOf(Top.at))
  BY PlainEntry DEF putBack
<1>4. Quiet(p, p')
  <2> DEFINE q == TokenToBindingId(with(p, Flag("allowAwait", TRUE)))
  <2>1. p' = NextToken(q) \/ p' = with(NextToken(Error(q)), saved({"allowAwait"}))
    BY StateAfter, Zenon DEF SingleArgArrow
  <2>2. Quiet(p, with(p, Flag("allowAwait", TRUE)))
    BY <1>1, QuietWith DEF Flag, Tracked
  <2>3. Quiet(p, q)
    BY <2>2, QuietBindingId
  <2>4. DOMAIN saved({"allowAwait"}) \cap Tracked = {}
    BY DEF saved, Tracked
  <2> HIDE DEF q
  <2> QED BY <2>1, <2>3, <2>4, QuietNextToken, QuietError, QuietWith
<1>5. Adds(PlainOf(Top.at))
  BY <1>1, <1>2, <1>3, Gave, Returned DEF SingleArgArrow, Flag, saved, Row, Adds, Tracked
<1>6. Progresses
  BY <1>1 DEF Progresses, Fresh
<1> QED BY <1>1, <1>4, <1>5, <1>6 DEF PlainStep, ExprKinds

LEMMA PlainArrowFunction == ASSUME Sound, ArrowFunction PROVE PlainStep
<1>1. todo # <<>> /\ Top.at = "Arrow" /\ Quiet(p, p)
  BY TopPopped DEF ArrowFunction, at
<1>2. \A e : "at" \in DOMAIN e /\ e.at \in {"ArrowMade", "Assignment", "FunctionBlock"}
             => Neutral(e, PlainOf(Top.at))
  BY <1>1, PlainEntry DEF ExprKinds
<1> DEFINE q    == Expect(p, "=>")
           flags == {"inAsync", "allowAwait", "allowYield"}
<1>3. \E a, made, block :
         /\ made.at = "ArrowMade" /\ "at" \in DOMAIN made
         /\ block.at = "FunctionBlock" /\ "at" \in DOMAIN block
         /\ \/ do(q, <<block, made>>)
            \/ do(q, <<F("Assignment"), made>>)
            \/ do(with(q, [f \in flags |-> f # "allowYield" /\ a]),
                  <<F("Assignment"), putBack(saved(flags)), made>>)
  <2> DEFINE made  == [at |-> "ArrowMade", async |-> Top.async, params |-> result]
             block == [at |-> "FunctionBlock", async |-> Top.async,
                       allowAwait |-> Top.async, allowYield |-> FALSE]
  <2>1. /\ made.at = "ArrowMade" /\ "at" \in DOMAIN made
        /\ block.at = "FunctionBlock" /\ "at" \in DOMAIN block
    OBVIOUS
  <2>2. \/ do(q, <<block, made>>)
        \/ do(q, <<F("Assignment"), made>>)
        \/ do(with(q, [f \in flags |-> f # "allowYield" /\ Top.async]),
              <<F("Assignment"), putBack(saved(flags)), made>>)
    BY Zenon DEF ArrowFunction
  <2> HIDE DEF made, block, q
  <2> QED BY <2>1, <2>2, Zenon
<1>4. Quiet(p, p')
  BY <1>1, StateAfter, QuietExpect, QuietWith DEF ArrowFunction, F, saved, Tracked
<1>5. Adds(PlainOf(Top.at))
  <2>1. Neutral(putBack(saved(flags)), PlainOf(Top.at))
    BY PlainEntry DEF putBack, saved, Tracked
  <2>2. Neutral(F("Assignment"), PlainOf(Top.at))
    BY <1>2 DEF F
  <2>3. PICK a, made, block :
         /\ made.at = "ArrowMade" /\ "at" \in DOMAIN made
         /\ block.at = "FunctionBlock" /\ "at" \in DOMAIN block
         /\ \/ do(q, <<block, made>>)
            \/ do(q, <<F("Assignment"), made>>)
            \/ do(with(q, [f \in flags |-> f # "allowYield" /\ a]),
                  <<F("Assignment"), putBack(saved(flags)), made>>)
    BY <1>3
  <2> HIDE DEF q, flags
  <2> QED BY <1>1, <1>2, <2>1, <2>2, <2>3, Did DEF Row, Adds
<1>6. Progresses
  BY <1>1 DEF Progresses, Fresh
<1> QED BY <1>1, <1>4, <1>5, <1>6 DEF PlainStep, ExprKinds

LEMMA PlainForInit == ASSUME Sound, ForInit PROVE PlainStep
<1>1. todo # <<>> /\ Top.at = "ForInit" /\ Quiet(p, p)
  BY TopPopped DEF ForInit, at
<1>2. \A e : "at" \in DOMAIN e /\ e.at \in {"ForTest", "Expression"} => Neutral(e, PlainOf(Top.at))
  BY <1>1, PlainEntry DEF ExprKinds, PlainStmts, StmtKinds
<1> DEFINE q    == Expect(ErrorIf(p, Top.await), ";")
           next == [at |-> "ForTest", init |-> result]
<1>3. Leads(q, <<next>>) \/ Leads(q, <<F("Expression"), next>>)
  BY Ways, Zenon DEF ForInit
<1>4. Quiet(p, p')
  BY <1>1, <1>3, StateAfter, QuietErrorIf, QuietExpect
<1>5. Adds(PlainOf(Top.at))
  <2>1. "at" \in DOMAIN next /\ next.at = "ForTest"
    OBVIOUS
  <2> HIDE DEF q, next
  <2> QED BY <1>1, <1>2, <1>3, <2>1, Led DEF F, Row, Adds
<1>6. Progresses
  BY <1>1 DEF Progresses, Fresh
<1> QED BY <1>1, <1>4, <1>5, <1>6 DEF PlainStep, ExprKinds, PlainStmts

LEMMA PlainForTest == ASSUME Sound, ForTest PROVE PlainStep
<1>1. todo # <<>> /\ Top.at = "ForTest" /\ Quiet(p, p)
  BY TopPopped DEF ForTest, at
<1>2. \A e : "at" \in DOMAIN e /\ e.at \in {"ForUpdate", "Expression"} => Neutral(e, PlainOf(Top.at))
  BY <1>1, PlainEntry DEF ExprKinds, PlainStmts, StmtKinds
<1> DEFINE q    == Expect(p, ";")
           next == [at |-> "ForUpdate", init |-> Top.init, test |-> result]
<1>3. Leads(q, <<next>>) \/ Leads(q, <<F("Expression"), next>>)
  BY Ways, Zenon DEF ForTest
<1>4. Quiet(p, p')
  BY <1>1, <1>3, StateAfter, QuietExpect
<1>5. Adds(PlainOf(Top.at))
  <2>1. "at" \in DOMAIN next /\ next.at = "ForUpdate"
    OBVIOUS
  <2> HIDE DEF q, next
  <2> QED BY <1>1, <1>2, <1>3, <2>1, Led DEF F, Row, Adds
<1>6. Progresses
  BY <1>1 DEF Progresses, Fresh
<1> QED BY <1>1, <1>4, <1>5, <1>6 DEF PlainStep, ExprKinds, PlainStmts

LEMMA PlainMethodDefinition == ASSUME Sound, MethodDefinition PROVE PlainStep
<1>1. todo # <<>> /\ Top.at = "Method" /\ Quiet(p, p) /\ "at" \in DOMAIN Top
  BY TopPopped DEF MethodDefinition, at
<1>2. \A e : "at" \in DOMAIN e /\ e.at \in {"Parameters", "MethodBody"} => Neutral(e, PlainOf(Top.at))
  BY <1>1, PlainEntry DEF ExprKinds
<1> DEFINE flags == [f \in {"allowYield", "allowAwait"} |->
                        IF f = "allowYield" THEN Top.generator ELSE Top.async]
           next  == [Top EXCEPT !.at = "MethodBody"]
           back  == putBack(saved({"allowYield", "allowAwait"}))
<1>3. Leads(with(p, flags), <<F("Parameters"), next, back>>)
  BY Ways, Zenon DEF MethodDefinition
<1>4. Quiet(p, p')
  <2>1. DOMAIN flags \cap Tracked = {}
    BY DEF Tracked
  <2> HIDE DEF flags, next, back
  <2> QED BY <1>1, <1>3, <2>1, StateAfter, QuietWith
<1>5. Adds(PlainOf(Top.at))
  <2>1. "at" \in DOMAIN next /\ next.at = "MethodBody"
    BY <1>1
  <2>2. Neutral(back, PlainOf(Top.at))
    BY PlainEntry DEF putBack, saved, Tracked
  <2> HIDE DEF flags, next, back
  <2> QED BY <1>1, <1>2, <1>3, <2>1, <2>2, Led DEF F, Row, Adds
<1>6. Progresses
  BY <1>1 DEF Progresses, Fresh
<1> QED BY <1>1, <1>4, <1>5, <1>6 DEF PlainStep, ExprKinds

LEMMA PlainMethodBody == ASSUME Sound, MethodBody PROVE PlainStep
<1>1. todo # <<>> /\ Top.at = "MethodBody" /\ Quiet(p, p)
  BY TopPopped DEF MethodBody, at
<1>2. \A e : "at" \in DOMAIN e /\ e.at \in {"FunctionBlock", "MethodMade"} => Neutral(e, PlainOf(Top.at))
  BY <1>1, PlainEntry DEF ExprKinds
<1> DEFINE block == [at |-> "FunctionBlock", async |-> Top.async,
                     allowAwait |-> Top.async, allowYield |-> Top.generator]
           next  == [at |-> "MethodMade", method |-> Top, params |-> result]
<1>3. \E wrong : Leads(ErrorIf(p, wrong), <<block, next>>)
  BY Ways, Zenon DEF MethodBody
<1>4. Quiet(p, p')
  <2> HIDE DEF block, next
  <2> QED BY <1>1, <1>3, StateAfter, QuietErrorIf
<1>5. Adds(PlainOf(Top.at))
  <2>1. "at" \in DOMAIN next /\ next.at = "MethodMade"
        /\ "at" \in DOMAIN block /\ block.at = "FunctionBlock"
    OBVIOUS
  <2> HIDE DEF block, next
  <2> QED BY <1>1, <1>2, <1>3, <2>1, Led DEF F, Row, Adds
<1>6. Progresses
  BY <1>1 DEF Progresses, Fresh
<1> QED BY <1>1, <1>4, <1>5, <1>6 DEF PlainStep, ExprKinds

LEMMA PlainLinks == ASSUME Sound, Links PROVE PlainStep
<1>1. todo # <<>> /\ Top.at = "Links" /\ Quiet(p, p) /\ "at" \in DOMAIN Top
  BY TopPopped DEF Links, at
<1>2. \A e : "at" \in DOMAIN e /\ e.at \in {"IndexMade", "Arguments", "CallMade", "Expression", "Links"}
             => Neutral(e, PlainOf(Top.at))
  BY <1>1, PlainEntry DEF ExprKinds
<1> DEFINE open  == [Top EXCEPT !.chain = TRUE]
           index == [at |-> "IndexMade", object |-> result]
           call  == [at |-> "CallMade", callee |-> result]
<1>3. \/ \E left : Leads(DotMember(p, left).q, <<Top>>) \/ Leads(DotMember(p, left).q, <<open>>)
      \/ Leads(NextToken(p), <<F("Expression"), index, Top>>)
      \/ Leads(p, <<F("Arguments"), call, Top>>)
      \/ Leads(NextToken(p), <<open>>)
      \/ Ends(p)
  <2> HIDE DEF Leads, Ends
  <2> QED BY Ways, ZenonT(30) DEF Links
<1>4. \A left : Quiet(p, DotMember(p, left).q)
  BY <1>1, QuietNextToken, QuietError, QuietNextStatement DEF DotMember
<1>5. Quiet(p, p')
  <2> HIDE DEF open, index, call
  <2> QED BY <1>1, <1>3, <1>4, StateAfter, QuietNextToken
<1>6. Adds(PlainOf(Top.at))
  <2>1. /\ "at" \in DOMAIN index /\ index.at = "IndexMade"
        /\ "at" \in DOMAIN call /\ call.at = "CallMade"
        /\ "at" \in DOMAIN open /\ open.at = "Links"
    BY <1>1
  <2> HIDE DEF open, index, call
  <2> QED BY <1>1, <1>2, <1>3, <2>1, Led, Ended DEF F, Row, Adds
<1>7. Progresses
  BY <1>1 DEF Progresses, Fresh
<1> QED BY <1>1, <1>5, <1>6, <1>7 DEF PlainStep, ExprKinds

LEMMA PlainBindingProperty == ASSUME Sound, BindingProperty PROVE PlainStep
<1>1. todo # <<>> /\ Top.at = "BindingProperty" /\ Quiet(p, p)
  BY TopPopped DEF BindingProperty, at
<1>2. \A e : "at" \in DOMAIN e /\ e.at \in {"ShortMade", "PatternElement", "Assignment", "KeyValueMade"}
             => Neutral(e, PlainOf(Top.at))
  BY <1>1, PlainEntry DEF ExprKinds
<1> DEFINE short == [at |-> "ShortMade", word |-> result.word]
           pair  == [at |-> "KeyValueMade", key |-> result.value]
<1>3. \/ Leads(NextToken(p), <<F("Assignment"), short>>)
      \/ Leads(NextToken(p), <<F("PatternElement"), pair>>)
      \/ Ends(p) \/ Ends(Error(p))
  BY Ways, ZenonT(30) DEF BindingProperty, shorthand
<1>4. Quiet(p, p')
  <2> HIDE DEF short, pair
  <2> QED BY <1>1, <1>3, StateAfter, QuietNextToken, QuietError
<1>5. Adds(PlainOf(Top.at))
  <2>1. /\ "at" \in DOMAIN short /\ short.at = "ShortMade"
        /\ "at" \in DOMAIN pair /\ pair.at = "KeyValueMade"
    OBVIOUS
  <2> HIDE DEF short, pair
  <2> QED BY <1>1, <1>2, <1>3, <2>1, Led, Ended DEF F, Row, Adds
<1>6. Progresses
  BY <1>1 DEF Progresses, Fresh
<1> QED BY <1>1, <1>4, <1>5, <1>6 DEF PlainStep, ExprKinds

LEMMA PlainProperty == ASSUME Sound, Property PROVE PlainStep
<1>1. todo # <<>> /\ Top.at = "Property" /\ Quiet(p, p)
  BY TopPopped DEF Property, at
<1>2. \A e : "at" \in DOMAIN e /\ e.at \in {"ShortMade", "PropertyKey", "Assignment", "KeyValueMade", "ModifiedProperty", "Method"}
             => Neutral(e, PlainOf(Top.at))
  BY <1>1, PlainEntry DEF ExprKinds
<1> DEFINE key   == result
           async == key.token = "async"
           star  == async /\ Kind(p) = "*"
           short == [at |-> "ShortMade", word |-> key.word]
           pair  == [at |-> "KeyValueMade", key |-> key.value]
           own   == method(key.value, "method", FALSE, Top.generator, FALSE)
           changed == [at |-> "ModifiedProperty", async |-> async, generator |-> star,
                       kind |-> IF async THEN "method" ELSE key.word]
<1>3. \/ Ends(p)
      \/ Leads(p, <<own>>)
      \/ Leads(NextToken(p), <<F("Assignment"), short>>)
      \/ Leads(IF star THEN NextToken(p) ELSE p, <<F("PropertyKey"), changed>>)
      \/ \E wrong : Leads(Expect(ErrorIf(p, wrong), ":"), <<F("Assignment"), pair>>)
  BY Ways, ZenonT(60) DEF Property, shorthand
<1>4. Quiet(p, p')
  <2> HIDE DEF short, pair, own, changed, star
  <2> QED BY <1>1, <1>3, StateAfter, QuietNextToken, QuietErrorIf, QuietExpect
<1>5. Adds(PlainOf(Top.at))
  <2>1. /\ "at" \in DOMAIN short /\ short.at = "ShortMade"
        /\ "at" \in DOMAIN pair /\ pair.at = "KeyValueMade"
        /\ "at" \in DOMAIN own /\ own.at = "Method"
        /\ "at" \in DOMAIN changed /\ changed.at = "ModifiedProperty"
    BY DEF method
  <2> HIDE DEF short, pair, own, changed, star
  <2> QED BY <1>1, <1>2, <1>3, <2>1, Led, Ended DEF F, Row, Adds
<1>6. Progresses
  BY <1>1 DEF Progresses, Fresh
<1> QED BY <1>1, <1>4, <1>5, <1>6 DEF PlainStep, ExprKinds

LEMMA PlainClassLiteral == ASSUME Sound, ClassLiteral PROVE PlainStep
<1>1. todo # <<>> /\ Top.at = "Class" /\ Quiet(p, p)
  BY TopPopped DEF ClassLiteral, at
<1>2. \A e : "at" \in DOMAIN e /\ e.at \in {"LeftHandSide", "ClassBody"} => Neutral(e, PlainOf(Top.at))
  BY <1>1, PlainEntry DEF ExprKinds
<1>3. \E q, r, wrong, body1 :
        /\ "at" \in DOMAIN body1 /\ body1.at = "ClassBody"
        /\ q = TokenToBindingId(NextToken(ErrorIf(p, wrong)))
        /\ r \in {q, NextToken(q), NextToken(Error(q))}
        /\ Leads(r, <<body1>>) \/ Leads(Expect(r, "extends"), <<F("LeftHandSide"), body1>>)
  <2> DEFINE q == TokenToBindingId(NextToken(ErrorIf(p, ~Scope(p).allowLet)))
             named == Kind(q) = "Identifier"
             r == CASE named -> NextToken(q)
                    [] ~named /\ Top.declaration -> NextToken(Error(q))
                    [] OTHER -> q
             body1 == [at |-> "ClassBody",
                       name |-> IF named THEN Ident(q.token.word) ELSE Ident("")]
  <2>1. "at" \in DOMAIN body1 /\ body1.at = "ClassBody"
    OBVIOUS
  <2>2. Leads(r, <<body1>>) \/ Leads(Expect(r, "extends"), <<F("LeftHandSide"), body1>>)
    BY Ways, ZenonT(60) DEF ClassLiteral
  <2> HIDE DEF q, body1
  <2>3. r \in {q, NextToken(q), NextToken(Error(q))}
    OBVIOUS
  <2> HIDE DEF r
  <2> QED BY <2>1, <2>2, <2>3, Zenon DEF q
<1>4. PICK q, r, wrong, body1 :
        /\ "at" \in DOMAIN body1 /\ body1.at = "ClassBody"
        /\ q = TokenToBindingId(NextToken(ErrorIf(p, wrong)))
        /\ r \in {q, NextToken(q), NextToken(Error(q))}
        /\ Leads(r, <<body1>>) \/ Leads(Expect(r, "extends"), <<F("LeftHandSide"), body1>>)
  BY <1>3, Zenon
<1>5. Quiet(p, r) /\ (Kind(p) # "Eof" => Past(p, r))
  BY <1>1, <1>4, QuietErrorIf, QuietNextToken, QuietBindingId, QuietError
<1>6. Quiet(p, p') /\ (Kind(p) # "Eof" => Past(p, p'))
  BY <1>4, <1>5, StateAfter, QuietExpect
<1>7. Adds(PlainOf(Top.at))
  BY <1>1, <1>2, <1>4, Led DEF F, Row, Adds
<1>8. Progresses
  BY <1>6 DEF Progresses
<1> QED BY <1>1, <1>6, <1>7, <1>8 DEF PlainStep, ExprKinds

LEMMA PlainJumpStatement == ASSUME Sound, JumpStatement PROVE PlainStep
<1>1. todo # <<>> /\ Top.at = "Jump" /\ Quiet(p, p)
  BY TopPopped DEF JumpStatement, at
<1> DEFINE q == NextToken(p)
           r == TokenToBindingId(q)
           s == NextToken(r)
<1>2. \E t \in {q, s} : \/ Ends(t) \/ Ends(Error(t)) \/ Ends(RequireSemicolon(t))
                        \/ Ends(NextStatement(Error(t)))
  <2>1. CASE CanInsertSemicolon(q)
    <3> DEFINE t == IF Kind(q) = ";" THEN s ELSE q
    <3>1. Ends(t) \/ Ends(NextStatement(Error(t)))
      BY <2>1, Ways, ZenonT(30) DEF JumpStatement, illegal
    <3>2. t \in {q, s}
      OBVIOUS
    <3> HIDE DEF t, q, s
    <3> QED BY <3>1, <3>2
  <2>2. CASE ~CanInsertSemicolon(q)
    <3>1. Ends(Error(s)) \/ Ends(NextStatement(Error(s))) \/ Ends(RequireSemicolon(s))
      BY <2>2, Ways, ZenonT(30) DEF JumpStatement, illegal
    <3> HIDE DEF q, s
    <3> QED BY <3>1
  <2> QED BY <2>1, <2>2
<1>3. /\ Quiet(p, q) /\ Quiet(p, s)
      /\ Kind(p) # "Eof" => Past(p, q) /\ Past(p, s)
  BY <1>1, QuietNextToken, QuietBindingId
<1>4. Quiet(p, p') /\ (Kind(p) # "Eof" => Past(p, p'))
  <2> HIDE DEF q, s
  <2> QED BY <1>2, <1>3, StateAfter, QuietError, QuietSemicolon, QuietNextStatement
<1>5. Adds(PlainOf(Top.at))
  BY <1>1, <1>2, Ended DEF Adds
<1>6. Progresses
  BY <1>4 DEF Progresses
<1> QED BY <1>1, <1>4, <1>5, <1>6 DEF PlainStep, PlainStmts

LEMMA PlainStatement == ASSUME Sound, Statement PROVE PlainStep
<1>1. todo # <<>> /\ Top.at = "Statement" /\ Quiet(p, p)
  BY TopPopped DEF Statement, at
<1>2. \A e : "at" \in DOMAIN e /\ e.at \in {"Headed", "Jump", "do", "for", "return", "throw", "try", "Lexical", "Block", "Expression", "ExpressionStatement", "Function", "FunctionDeclared", "Class", "ClassDeclared"}
             => Neutral(e, PlainOf(Top.at))
  BY <1>1, PlainEntry DEF ExprKinds, PlainStmts, StmtKinds
<1> DEFINE declared(a) == [at |-> a, declaration |-> TRUE]
<1>3. \/ Kind(p) = "Eof" /\ Ends(Error(p))
      \/ Kind(p) # "Eof" /\ (Ends(NextToken(p)) \/ Ends(RequireSemicolon(NextToken(p))))
      \/ Kind(p) # "Eof" /\ \/ Leads(p, <<F("Block")>>)
                            \/ Leads(p, <<F("Expression"), F("ExpressionStatement")>>)
                            \/ Leads(p, <<declared("Function"), F("FunctionDeclared")>>)
                            \/ Leads(p, <<declared("Class"), F("ClassDeclared")>>)
                            \/ \E a \in {"Headed", "Jump", "do", "for", "return", "throw", "try", "Lexical"} : Leads(p, <<F(a)>>)
  <2> DEFINE entry == StatementEntry
  <2>1. CASE Kind(p) \in {"Eof", ";", "debugger"}
    <3> HIDE DEF entry
    <3> QED BY <2>1, Ways, Zenon DEF Statement
  <2>2. CASE Kind(p) \notin {"Eof", ";", "debugger"}
    <3>1. entry \in {"{", "Headed", "Jump", "do", "for", "return", "throw", "try", "Lexical", "FunctionDeclaration", "ClassDeclaration", "ExpressionStatement"}
      BY DEF StatementEntry
    <3>2. Leads(p, CASE entry = "{" -> <<F("Block")>>
                      [] entry = "ExpressionStatement" ->
                           <<F("Expression"), F("ExpressionStatement")>>
                      [] entry = "FunctionDeclaration" ->
                           <<[at |-> "Function", declaration |-> TRUE],
                             F("FunctionDeclared")>>
                      [] entry = "ClassDeclaration" ->
                           <<[at |-> "Class", declaration |-> TRUE],
                             F("ClassDeclared")>>
                      [] OTHER -> <<F(entry)>>)
      BY <2>2, Ways, Zenon DEF Statement
    <3> HIDE DEF entry
    <3>3. CASE entry \in {"{", "ExpressionStatement"}
      BY <2>2, <3>2, <3>3, Zenon
    <3>4. CASE entry \in {"FunctionDeclaration", "ClassDeclaration"}
      BY <2>2, <3>2, <3>4, Zenon
    <3>5. CASE entry \in {"Headed", "Jump", "do", "for", "return", "throw", "try", "Lexical"}
      BY <2>2, <3>2, <3>5, Zenon
    <3> QED BY <3>1, <3>3, <3>4, <3>5
  <2> QED BY <2>1, <2>2
<1>4. Quiet(p, p')
  BY <1>1, <1>3, StateAfter, QuietNextToken, QuietError, QuietSemicolon
<1>5. Adds(PlainOf(Top.at))
  BY <1>1, <1>2, <1>3, Led, Ended DEF F, Row, Adds
<1>6. Progresses
  BY <1>1, <1>3, StateAfter, Led, QuietNextToken, QuietError, QuietSemicolon DEF F, Row, Progresses, Fresh
<1> QED BY <1>1, <1>4, <1>5, <1>6 DEF PlainStep, PlainStmts

-----------------------------------------------------------------------------
(* The marks of a buffer's frames *)

Frames(b, t) == {i \in 1 .. Len(t) : t[i].at \in MarkFrames[b]}

\* m is at or above every mark in t, and 0 if there is none.
Covers(b, m, t) ==
    /\ \A i \in Frames(b, t) : t[i].mark <= m
    /\ Frames(b, t) = {} => m = 0

\* A buffer of length n and the marks of t are in order.
Marked(b, n, t) ==
    /\ n \in Nat /\ Covers(b, n, t)
    /\ \A i \in Frames(b, t) : t[i].mark \in Nat /\ Covers(b, t[i].mark, After(t, i))

InOrder(q, t) == \A b \in Buffers : Marked(b, Len(q[b]), t)

LEMMA FrameKinds ==
    /\ \A b \in Buffers : MarkFrames[b] \subseteq MarkKinds
    /\ \A b, c \in Buffers : b # c => MarkFrames[b] \cap MarkFrames[c] = {}
    /\ \A kind \in MarkKinds : \E b \in Buffers : kind \in MarkFrames[b]
BY DEF Buffers, MarkFrames, MarkKinds

\* What lies on t of u, and what in t.
LEMMA GrownParts ==
    ASSUME NEW u, NEW t, Grown(u, t)
    PROVE  /\ Len(t) \in Nat /\ Len(u) \in Nat /\ Len(u) - Len(t) \in Nat
           /\ \A i \in 1 .. Len(u) :
                 \/ i \in 1 .. Len(u) - Len(t) /\ u[i] \in Added(u, t)
                 \/ /\ i - (Len(u) - Len(t)) \in 1 .. Len(t)
                    /\ u[i] = t[i - (Len(u) - Len(t))]
                    /\ After(u, i) = After(t, i - (Len(u) - Len(t)))
           /\ \A i \in 1 .. Len(t) :
                 /\ i + (Len(u) - Len(t)) \in 1 .. Len(u)
                 /\ u[i + (Len(u) - Len(t))] = t[i]
                 /\ After(u, i + (Len(u) - Len(t))) = After(t, i)
<1>1. Len(t) \in Nat /\ Len(u) \in Nat /\ Len(u) - Len(t) \in Nat
  BY ListElim DEF Grown
<1>2. ASSUME NEW i \in 1 .. Len(u)
      PROVE  \/ i \in 1 .. Len(u) - Len(t) /\ u[i] \in Added(u, t)
             \/ /\ i - (Len(u) - Len(t)) \in 1 .. Len(t)
                /\ u[i] = t[i - (Len(u) - Len(t))]
                /\ After(u, i) = After(t, i - (Len(u) - Len(t)))
  <2> DEFINE k == Len(u) - Len(t)
             j == i - k
  <2>1. CASE i <= k
    BY <1>1, <2>1 DEF Added
  <2>2. CASE i > k
    <3>1. j \in 1 .. Len(t) /\ j + k = i
      BY <1>1, <2>2
    <3>2. u[j + k] = t[j] /\ After(u, j + k) = After(t, j)
      BY <3>1 DEF Grown
    <3> QED BY <3>1, <3>2
  <2> QED BY <1>1, <2>1, <2>2
<1>3. \A i \in 1 .. Len(t) : i + (Len(u) - Len(t)) \in 1 .. Len(u)
  BY <1>1
<1> QED BY <1>1, <1>2, <1>3 DEF Grown

\* Entries that are no frames of the buffer change nothing.
LEMMA MarkedOver ==
    ASSUME NEW b, NEW u, NEW t, Grown(u, t),
           \A e \in Added(u, t) : e.at \notin MarkFrames[b]
    PROVE  /\ \A m : Covers(b, m, t) <=> Covers(b, m, u)
           /\ \A n : Marked(b, n, t) <=> Marked(b, n, u)
<1> DEFINE k == Len(u) - Len(t)
<1>1. k \in Nat /\ Len(t) \in Nat
  BY GrownParts
<1>2. \A i \in Frames(b, u) : /\ i - k \in Frames(b, t) /\ u[i] = t[i - k]
                              /\ After(u, i) = After(t, i - k)
  BY GrownParts DEF Frames
<1>3. \A i \in Frames(b, t) : /\ i + k \in Frames(b, u) /\ u[i + k] = t[i]
                              /\ After(u, i + k) = After(t, i)
  BY GrownParts DEF Frames
<1> HIDE DEF k
<1>4. \A m : Covers(b, m, t) <=> Covers(b, m, u)
  BY <1>2, <1>3 DEF Covers
<1> QED BY <1>2, <1>3, <1>4 DEF Marked

LEMMA LastOrBefore == \A k \in Nat : \A j \in 1 .. k : j = k \/ j \in 1 .. k - 1
OBVIOUS

\* The last entry put on t is a frame: the buffer is at its mark or beyond.
LEMMA MarkedFrame ==
    ASSUME NEW b, NEW u, NEW t, Grown(u, t), NEW k, k = Len(u) - Len(t), k # 0,
           u[k].at \in MarkFrames[b], \A i \in 1 .. k - 1 : u[i].at \notin MarkFrames[b],
           Marked(b, u[k].mark, t), NEW n \in Nat, u[k].mark <= n
    PROVE  Marked(b, n, u)
<1>1. k \in Nat \ {0} /\ Len(t) \in Nat /\ Len(u) \in Nat /\ k \in 1 .. Len(u)
  BY GrownParts
<1>2. \A i \in Frames(b, u) :
         \/ i = k
         \/ /\ i - k \in Frames(b, t) /\ u[i] = t[i - k] /\ After(u, i) = After(t, i - k)
  <2> SUFFICES ASSUME NEW i \in Frames(b, u), i # k
               PROVE  /\ i - k \in Frames(b, t) /\ u[i] = t[i - k]
                      /\ After(u, i) = After(t, i - k)
    OBVIOUS
  <2>1. i \in 1 .. Len(u) /\ u[i].at \in MarkFrames[b]
    BY DEF Frames
  <2>2. i \notin 1 .. k
    <3>1. k \in Nat
      BY <1>1
    <3>2. \A j \in 1 .. k : j # k => j \in 1 .. k - 1
      BY <3>1, LastOrBefore, Zenon
    <3> QED BY <2>1, <3>2
  <2> QED BY <2>1, <2>2, GrownParts DEF Frames
<1>3. k \in Frames(b, u)
  BY <1>1 DEF Frames
<1>4. After(u, k) = t
  BY DEF Grown
<1>5. u[k].mark \in Nat /\ Covers(b, u[k].mark, t)
  BY DEF Marked
<1>6. \A i \in Frames(b, t) : t[i].mark \in Nat /\ t[i].mark <= u[k].mark
  BY DEF Marked, Covers
<1>7. \A i \in Frames(b, u) : u[i].mark \in Nat /\ u[i].mark <= n
  BY <1>2, <1>5, <1>6
<1>8. Covers(b, n, u)
  BY <1>3, <1>7 DEF Covers
<1>9. \A i \in Frames(b, u) : Covers(b, u[i].mark, After(u, i))
  BY <1>2, <1>4, <1>5 DEF Marked
<1> QED BY <1>7, <1>8, <1>9 DEF Marked

\* Back to below a frame.
LEMMA MarkedBelow ==
    ASSUME NEW b, NEW t, IsList(t), t # <<>>, Head(t).at \in MarkFrames[b],
           NEW n, Marked(b, n, t)
    PROVE  Head(t).mark \in 0 .. n /\ Marked(b, Head(t).mark, Tail(t))
<1>1. /\ Len(t) \in Nat \ {0} /\ Head(t) = t[1] /\ t = <<t[1]>> \o Tail(t)
      /\ IsList(Tail(t)) /\ Len(Tail(t)) = Len(t) - 1
  BY Popped
<1>2. /\ After(t, 1) = Tail(t)
      /\ \A i \in 1 .. Len(Tail(t)) : t[i + 1] = Tail(t)[i] /\ After(t, i + 1) = After(Tail(t), i)
  <2> DEFINE s == Tail(t)
             u == <<t[1]>> \o s
  <2>1. /\ After(u, 1) = s
        /\ \A i \in 1 .. Len(s) : u[i + 1] = s[i] /\ After(u, i + 1) = After(s, i)
    <3> HIDE DEF s
    <3> QED BY <1>1, Pushed DEF s
  <2>2. u = t
    BY <1>1
  <2> HIDE DEF u
  <2> QED BY <2>1, <2>2
<1>3. 1 \in Frames(b, t)
  BY <1>1 DEF Frames
<1>4. t[1].mark \in Nat /\ t[1].mark <= n /\ n \in Nat /\ Covers(b, t[1].mark, Tail(t))
  BY <1>2, <1>3 DEF Marked, Covers
<1>5. \A i \in Frames(b, Tail(t)) : /\ i + 1 \in Frames(b, t) /\ t[i + 1] = Tail(t)[i]
                                    /\ After(t, i + 1) = After(Tail(t), i)
  BY <1>1, <1>2 DEF Frames
<1>6. \A i \in Frames(b, Tail(t)) :
         Tail(t)[i].mark \in Nat /\ Covers(b, Tail(t)[i].mark, After(Tail(t), i))
  BY <1>5 DEF Marked
<1>7. Head(t).mark = t[1].mark /\ t[1].mark \in 0 .. n
  BY <1>1, <1>4
<1> QED BY <1>4, <1>6, <1>7 DEF Marked

\* The stack over itself without its top.
LEMMA GrownTail ==
    ASSUME NEW t, IsList(t), t # <<>>
    PROVE  Grown(t, Tail(t)) /\ Added(t, Tail(t)) = {Head(t)}
<1>1. /\ Len(t) \in Nat \ {0} /\ Head(t) = t[1] /\ t = <<t[1]>> \o Tail(t)
      /\ IsList(Tail(t)) /\ Len(Tail(t)) = Len(t) - 1
  BY Popped
<1>2. /\ After(t, 1) = Tail(t)
      /\ \A i \in 1 .. Len(Tail(t)) : t[i + 1] = Tail(t)[i] /\ After(t, i + 1) = After(Tail(t), i)
  <2> DEFINE s == Tail(t)
             u == <<t[1]>> \o s
  <2>1. /\ After(u, 1) = s
        /\ \A i \in 1 .. Len(s) : u[i + 1] = s[i] /\ After(u, i + 1) = After(s, i)
    <3> HIDE DEF s
    <3> QED BY <1>1, Pushed DEF s
  <2>2. u = t
    BY <1>1
  <2> HIDE DEF u
  <2> QED BY <2>1, <2>2
<1>3. Len(t) - Len(Tail(t)) = 1
  BY <1>1
<1> QED BY <1>1, <1>2, <1>3 DEF Grown, Added

\* A longer buffer under which a frame is open.
LEMMA MarkedLonger ==
    ASSUME NEW b, NEW t, NEW n, Marked(b, n, t), NEW m \in Nat, m >= n, Frames(b, t) # {}
    PROVE  Marked(b, m, t)
<1>1. \A i \in Frames(b, t) : t[i].mark \in Nat /\ t[i].mark <= n /\ n \in Nat
  BY DEF Marked, Covers
<1> QED BY <1>1 DEF Marked, Covers

-----------------------------------------------------------------------------
(* Steps that open, continue and close lists *)

\* No new frame, and one of buffer b, below what else is new, with mark m.
Unframed ==
    /\ Grown(todo', Tail(todo))
    /\ \A e \in Added(todo', Tail(todo)) : e.at \notin MarkKinds

Framed(b, m) ==
    LET k == Len(todo') - Len(Tail(todo)) IN
    /\ Grown(todo', Tail(todo)) /\ k # 0
    /\ todo'[k].at \in MarkFrames[b] /\ todo'[k].mark = m
    /\ \A i \in 1 .. k - 1 : todo'[i].at \notin MarkKinds

\* q is reached from p, and only buffer b has another length, n.
Sized(q, b, n) ==
    /\ Reads(p, q) /\ Len(q[b]) = n
    /\ \A c \in Buffers \ {b} : Len(q[c]) = Len(p[c])

MarksStep ==
    /\ todo # <<>>
    /\ \/ Top.at \notin MarkKinds /\ Unframed /\ SameLengths(p, p')
       \/ \E b \in Buffers :
             /\ \A c \in Buffers \ {b} : Len(p'[c]) = Len(p[c])
             /\ \/ /\ Top.at \notin MarkKinds
                   /\ Framed(b, Len(p[b])) /\ Len(p'[b]) >= Len(p[b])
                \/ /\ Top.at \in MarkFrames[b]
                   /\ Framed(b, Top.mark) /\ Len(p'[b]) >= Len(p[b])
                \/ Top.at \in MarkFrames[b] /\ Unframed /\ Len(p'[b]) = Top.mark
                \/ /\ Top.at \notin MarkKinds /\ Unframed /\ Len(p'[b]) >= Len(p[b])
                   /\ Frames(b, Tail(todo)) # {}

LEMMA MarksKept ==
    ASSUME Sound, WellFormed(p'), InOrder(p, todo), MarksStep
    PROVE  InOrder(p', todo')
<1> SUFFICES ASSUME NEW b \in Buffers
             PROVE  Marked(b, Len(p'[b]), todo')
  BY DEF InOrder
<1>1. /\ IsList(todo) /\ todo # <<>> /\ Marked(b, Len(p[b]), todo) /\ Top = Head(todo)
      /\ Grown(todo, Tail(todo)) /\ Added(todo, Tail(todo)) = {Top}
  BY GrownTail DEF Sound, Shape, MarksStep, InOrder, Top
<1>2. Len(p'[b]) \in Nat /\ Len(p[b]) \in Nat
  BY ListElim DEF Sound, WellFormed
<1>3. Top.at \notin MarkFrames[b] => Marked(b, Len(p[b]), Tail(todo))
  BY <1>1, MarkedOver
<1>4. Top.at \in MarkFrames[b]
      => Top.mark \in 0 .. Len(p[b]) /\ Marked(b, Top.mark, Tail(todo))
  BY <1>1, MarkedBelow
<1>5. Unframed => \A n : Marked(b, n, Tail(todo)) <=> Marked(b, n, todo')
  BY MarkedOver, FrameKinds DEF Unframed
<1>6. ASSUME NEW c \in Buffers, c # b, NEW m, Framed(c, m)
      PROVE  \A n : Marked(b, n, Tail(todo)) <=> Marked(b, n, todo')
  <2> DEFINE k == Len(todo') - Len(Tail(todo))
  <2>1. ASSUME NEW e \in Added(todo', Tail(todo))
        PROVE  e.at \notin MarkFrames[b]
    <3>1. PICK i \in 1 .. k : e = todo'[i]
      BY DEF Added
    <3>2. k \in Nat
      BY <1>6, GrownParts DEF Framed
    <3>3. i = k \/ i \in 1 .. k - 1
      <4> HIDE DEF k
      <4> QED BY <3>2
    <3> QED BY <1>6, <3>1, <3>3, FrameKinds DEF Framed
  <2> QED BY <1>6, <2>1, MarkedOver DEF Framed
<1>7. ASSUME NEW m, Framed(b, m), Marked(b, m, Tail(todo)), m <= Len(p'[b])
      PROVE  Marked(b, Len(p'[b]), todo')
  <2> DEFINE k == Len(todo') - Len(Tail(todo))
  <2>1. Grown(todo', Tail(todo)) /\ k # 0 /\ todo'[k].at \in MarkFrames[b]
        /\ todo'[k].mark = m /\ \A i \in 1 .. k - 1 : todo'[i].at \notin MarkFrames[b]
    BY <1>7, FrameKinds DEF Framed
  <2> QED BY <1>2, <1>7, <2>1, MarkedFrame
<1>8. CASE Top.at \notin MarkKinds /\ Unframed /\ SameLengths(p, p')
  BY <1>3, <1>5, <1>8, FrameKinds DEF SameLengths
<1>9. ASSUME NEW c \in Buffers,
             \A d \in Buffers \ {c} : Len(p'[d]) = Len(p[d]),
             \/ /\ Top.at \notin MarkKinds
                /\ Framed(c, Len(p[c])) /\ Len(p'[c]) >= Len(p[c])
             \/ /\ Top.at \in MarkFrames[c]
                /\ Framed(c, Top.mark) /\ Len(p'[c]) >= Len(p[c])
             \/ Top.at \in MarkFrames[c] /\ Unframed /\ Len(p'[c]) = Top.mark
             \/ /\ Top.at \notin MarkKinds /\ Unframed /\ Len(p'[c]) >= Len(p[c])
                /\ Frames(c, Tail(todo)) # {}
      PROVE  Marked(b, Len(p'[b]), todo')
  <2>1. CASE c = b
    <3>1. Top.at \notin MarkKinds => Marked(b, Len(p[b]), Tail(todo))
      BY <1>3, FrameKinds
    <3>2. CASE /\ Top.at \notin MarkKinds
               /\ Framed(b, Len(p[b])) /\ Len(p'[b]) >= Len(p[b])
      BY <1>2, <1>7, <3>1, <3>2
    <3>3. CASE /\ Top.at \in MarkFrames[b]
               /\ Framed(b, Top.mark) /\ Len(p'[b]) >= Len(p[b])
      BY <1>2, <1>4, <1>7, <3>3
    <3>4. CASE Top.at \in MarkFrames[b] /\ Unframed /\ Len(p'[b]) = Top.mark
      BY <1>4, <1>5, <3>4
    <3>5. CASE /\ Top.at \notin MarkKinds /\ Unframed /\ Len(p'[b]) >= Len(p[b])
               /\ Frames(b, Tail(todo)) # {}
      BY <1>2, <1>5, <3>1, <3>5, MarkedLonger
    <3> QED BY <1>9, <2>1, <3>2, <3>3, <3>4, <3>5
  <2>2. CASE c # b
    <3>1. Len(p'[b]) = Len(p[b]) /\ Top.at \notin MarkFrames[b]
      BY <1>9, <2>2, FrameKinds
    <3> QED BY <1>3, <1>5, <1>6, <1>9, <2>2, <3>1
  <2> QED BY <2>1, <2>2
<1> QED BY <1>8, <1>9 DEF MarksStep

-----------------------------------------------------------------------------
(* How lists are built *)

LEMMA SizedSelf ==
    ASSUME Sound, NEW q, Quiet(p, q), NEW b \in Buffers
    PROVE  Sized(q, b, Len(p[b]))
BY DEF Sized, Quiet, SameLengths

LEMMA SizedAfter ==
    ASSUME Sound, NEW q, NEW b \in Buffers, NEW n, Sized(q, b, n)
    PROVE  /\ n \in Nat
           /\ Sized(NextToken(q), b, n)
           /\ Sized(Error(q), b, n)
           /\ \A wrong : Sized(ErrorIf(q, wrong), b, n)
           /\ \A kind : Sized(Expect(q, kind), b, n)
           /\ Sized(TokenToBindingId(q), b, n)
           /\ Sized(NextStatement(q), b, n)
           /\ Sized(RequireSemicolon(q), b, n)
           /\ \A v : Sized(Push(q, b, v), b, n + 1)
           /\ \A m \in 0 .. n : Sized(Cut(q, b, m), b, m)
<1>1. Reads(p, q) /\ IsText
  BY DEF Sized, Sound
<1>2. ASSUME NEW r, Reads(p, r), SameLengths(q, r)
      PROVE  Sized(r, b, n)
  BY <1>2 DEF Sized, SameLengths
<1>3. /\ Sized(NextToken(q), b, n)
      /\ Sized(Error(q), b, n)
      /\ \A wrong : Sized(ErrorIf(q, wrong), b, n)
      /\ \A kind : Sized(Expect(q, kind), b, n)
      /\ Sized(TokenToBindingId(q), b, n)
      /\ Sized(NextStatement(q), b, n)
      /\ Sized(RequireSemicolon(q), b, n)
  BY <1>1, <1>2, ReadNextToken, ReadError, ReadErrorIf, ReadExpect, ReadBindingId,
     ReadNextStatement, ReadSemicolon
<1>4. n \in Nat /\ \A v : Sized(Push(q, b, v), b, n + 1)
  BY <1>1, ReadPush DEF Sized
<1>5. \A m \in 0 .. n : Sized(Cut(q, b, m), b, m)
  BY <1>1, ReadCut DEF Sized
<1> QED BY <1>3, <1>4, <1>5

\* The two halves of Local.
Fits(e) ==
    /\ "at" \in DOMAIN e
    /\ e.at \in StateKinds => MarkFits(e.state)
    /\ e.at \in MarkKinds => "mark" \in DOMAIN e
    /\ e.at \in ListKinds => "Eof" \in e.ends /\ "ends" \in DOMAIN e
    /\ e.at \in ParamKinds => "flags" \in DOMAIN e

Sits(e, t) ==
    /\ e.at \in MemberKinds => t # <<>> /\ t[1].at = "NextMember"
    /\ e.at \in CaseKinds => t # <<>> /\ t[1].at = "NextCase"

LEMMA LocalParts ==
    \A e, t : Local(e, t) <=> Fits(e) /\ Sits(e, t)
BY DEF Local, Fits, Sits

\* What lies below an entry begins with the next one.
LEMMA AfterHead ==
    ASSUME NEW u, IsList(u), NEW i \in 1 .. Len(u), i # Len(u)
    PROVE  After(u, i) # <<>> /\ After(u, i)[1] = u[i + 1]
<1>1. u \in Seq(Range(u)) /\ Len(u) \in Nat
  BY ListElim
<1>2. Len(SubSeq(u, i + 1, Len(u))) = Len(u) - i /\ SubSeq(u, i + 1, Len(u))[1] = u[i + 1]
      /\ SubSeq(u, i + 1, Len(u)) \in Seq(Range(u))
  BY <1>1, SubSeqProperties
<1>3. PICK v : v = SubSeq(u, i + 1, Len(u))
  OBVIOUS
<1>4. Len(v) # 0 /\ v[1] = u[i + 1]
  BY <1>1, <1>2, <1>3
<1>5. v # <<>>
  BY <1>4
<1> QED BY <1>3, <1>4, <1>5 DEF After

LEMMA ShapeOver ==
    ASSUME NEW u, NEW t, Grown(u, t), Shape(t),
           \A i \in 1 .. Len(u) - Len(t) : Local(u[i], After(u, i))
    PROVE  Shape(u)
<1>1. \A i \in 1 .. Len(u) : Local(u[i], After(u, i))
  BY GrownParts DEF Shape
<1> QED BY <1>1 DEF Shape, Grown

\* Entries that need nothing below them.
LEMMA ShapeFree ==
    ASSUME NEW u, NEW t, Grown(u, t), Shape(t),
           \A e \in Added(u, t) : Fits(e) /\ e.at \notin MemberKinds \cup CaseKinds
    PROVE  Shape(u)
<1>1. \A i \in 1 .. Len(u) - Len(t) : u[i] \in Added(u, t)
  BY DEF Added
<1>2. \A i \in 1 .. Len(u) - Len(t) : Local(u[i], After(u, i))
  BY <1>1 DEF Local, Fits
<1> QED BY <1>2, ShapeOver

LEMMA ExprFits ==
    ASSUME NEW e, "at" \in DOMAIN e, e.at \in ExprKinds \cup PlainStmts \cup {"PutBack"}
    PROVE  /\ Fits(e) /\ e.at \notin MemberKinds \cup CaseKinds \cup MarkKinds
           /\ \A t : Local(e, t)
BY DEF Fits, Local, ExprKinds, PlainStmts, StateKinds, MarkKinds, ListKinds, ParamKinds,
       MemberKinds, CaseKinds

\* e is the last of es, and the others are expressions.
LastOf(es, e) ==
    /\ Row(es)
    /\ \E n \in DOMAIN es :
          /\ es[n] = e /\ n + 1 \notin DOMAIN es
          /\ \A i \in DOMAIN es : i # n => "at" \in DOMAIN es[i] /\ es[i].at \in ExprKinds

LEMMA LedLast ==
    ASSUME Sound, todo # <<>>, NEW q, NEW es, Leads(q, es), NEW e, LastOf(es, e)
    PROVE  LET k == Len(todo') - Len(Tail(todo)) IN
           /\ p' = q /\ Grown(todo', Tail(todo)) /\ k \in Nat \ {0}
           /\ todo'[k] = e
           /\ \A i \in 1 .. k - 1 : "at" \in DOMAIN todo'[i] /\ todo'[i].at \in ExprKinds
           /\ \A d \in Added(todo', Tail(todo)) :
                 d = e \/ ("at" \in DOMAIN d /\ d.at \in ExprKinds)
<1>1. Row(es) /\ DOMAIN es = 1 .. Len(es) /\ Len(es) \in {1, 2, 3}
  BY RowIsList DEF LastOf
<1>2. PICK n \in DOMAIN es :
          /\ es[n] = e /\ n + 1 \notin DOMAIN es
          /\ \A i \in DOMAIN es : i # n => "at" \in DOMAIN es[i] /\ es[i].at \in ExprKinds
  BY DEF LastOf
<1>3. PICK k : k = Len(todo') - Len(Tail(todo))
  OBVIOUS
<1>4. k = Len(es) /\ \A i \in DOMAIN es : todo'[i] = es[i]
  <2>1. Len(todo') - Len(Tail(todo)) = Len(es) /\ \A i \in DOMAIN es : todo'[i] = es[i]
    BY <1>1, LedAt
  <2> QED BY <2>1, <1>3, Zenon
<1>5. n = k /\ k \in Nat \ {0} /\ todo'[k] = e
  BY <1>1, <1>2, <1>4
<1>6. \A i \in 1 .. k - 1 : "at" \in DOMAIN todo'[i] /\ todo'[i].at \in ExprKinds
  BY <1>1, <1>2, <1>4, <1>5
<1>7. /\ p' = q /\ Grown(todo', Tail(todo))
      /\ \A d \in Added(todo', Tail(todo)) : \E i \in DOMAIN es : d = es[i]
  BY <1>1, Led
<1>8. \A d \in Added(todo', Tail(todo)) : d = e \/ ("at" \in DOMAIN d /\ d.at \in ExprKinds)
  BY <1>2, <1>7
<1> QED BY <1>3, <1>5, <1>6, <1>7, <1>8

ListParts == (MarkKinds \ (ParamKinds \cup ListKinds)) \cup MemberKinds

\* What a step that is part of a list does, apart from progress.
ListEnd ==
    /\ todo # <<>> /\ Reads(p, p') /\ Len(p'["stmtBuf"]) = Len(p["stmtBuf"])
    /\ Grown(todo', Tail(todo))
    /\ \A e \in Added(todo', Tail(todo)) : "at" \in DOMAIN e /\ e.at \in ExprKinds \cup ListParts
    /\ MarksStep /\ Shape(todo')

LEMMA PartFits ==
    ASSUME NEW e, "at" \in DOMAIN e, e.at \in ListParts \ MemberKinds, "mark" \in DOMAIN e
    PROVE  Fits(e) /\ e.at \notin MemberKinds \cup CaseKinds
BY DEF Fits, ListParts, StateKinds, MarkKinds, ListKinds, ParamKinds, MemberKinds, CaseKinds

\* A list begins, or goes on, with the frame e below a call.
LEMMA ListGoesOn ==
    ASSUME Sound, todo # <<>>, NEW b \in Buffers \ {"stmtBuf"},
           NEW q, NEW n, Sized(q, b, n), n >= Len(p[b]),
           NEW es, Leads(q, es), NEW e, LastOf(es, e),
           "at" \in DOMAIN e, "mark" \in DOMAIN e, e.at \in MarkFrames[b] \ ParamKinds,
           \/ Top.at \notin MarkKinds /\ e.mark = Len(p[b])
           \/ Top.at \in MarkFrames[b] /\ e.mark = Top.mark
    PROVE  ListEnd
<1>1. e.at \in ListParts \ MemberKinds
  BY FrameKinds DEF ListParts, ListKinds, MemberKinds, MarkFrames, Buffers
<1>2. Fits(e) /\ e.at \notin MemberKinds \cup CaseKinds
  BY <1>1, PartFits
<1>3. PICK k : k = Len(todo') - Len(Tail(todo))
  OBVIOUS
<1>4. /\ p' = q /\ Grown(todo', Tail(todo)) /\ k \in Nat \ {0} /\ todo'[k] = e
      /\ \A i \in 1 .. k - 1 : "at" \in DOMAIN todo'[i] /\ todo'[i].at \in ExprKinds
      /\ \A d \in Added(todo', Tail(todo)) :
            d = e \/ ("at" \in DOMAIN d /\ d.at \in ExprKinds)
  BY <1>3, LedLast
<1>5. Framed(b, e.mark)
  BY <1>3, <1>4, ExprFits DEF Framed
<1>6. Shape(todo')
  BY <1>2, <1>4, ExprFits, ShapeFree, TopPopped
<1>7. MarksStep
  BY <1>4, <1>5 DEF Sized, MarksStep
<1>8. "stmtBuf" \in Buffers \ {b}
  BY DEF Buffers
<1> QED BY <1>1, <1>4, <1>6, <1>7, <1>8 DEF ListEnd, Sized

\* A list ends.
LEMMA ListCloses ==
    ASSUME Sound, todo # <<>>, NEW b \in Buffers \ {"stmtBuf"}, Top.at \in MarkFrames[b],
           NEW q, Sized(q, b, Top.mark), Ends(q)
    PROVE  ListEnd
<1>1. p' = q /\ Grown(todo', Tail(todo)) /\ Added(todo', Tail(todo)) = {} /\ Shape(Tail(todo))
  BY Ended, TopPopped
<1>2. Shape(todo')
  BY <1>1, ShapeFree
<1>3. MarksStep
  BY <1>1 DEF MarksStep, Unframed, Sized
<1>4. "stmtBuf" \in Buffers \ {b}
  BY DEF Buffers
<1> QED BY <1>1, <1>2, <1>3, <1>4 DEF ListEnd, Sized

\* No list, after all.
LEMMA ListNone ==
    ASSUME Sound, todo # <<>>, Top.at \notin MarkKinds, NEW q, Quiet(p, q), Ends(q)
    PROVE  ListEnd
<1>1. p' = q /\ Grown(todo', Tail(todo)) /\ Added(todo', Tail(todo)) = {} /\ Shape(Tail(todo))
  BY Ended, TopPopped
<1>2. Shape(todo')
  BY <1>1, ShapeFree
<1>3. MarksStep
  BY <1>1 DEF MarksStep, Unframed, Quiet
<1> QED BY <1>1, <1>2, <1>3 DEF ListEnd, Quiet, SameLengths, Buffers

\* The frame on top marks a place in its buffer.
LEMMA TopMark ==
    ASSUME Sound, InOrder(p, todo), todo # <<>>, NEW b \in Buffers, Top.at \in MarkFrames[b]
    PROVE  Top.mark \in 0 .. Len(p[b]) /\ Len(p[b]) \in Nat /\ "mark" \in DOMAIN Top
<1>1. IsList(todo) /\ Marked(b, Len(p[b]), todo)
  BY DEF Sound, Shape, InOrder
<1>2. Len(p[b]) \in Nat
  BY ListElim DEF Sound, WellFormed
<1>3. Local(Top, Tail(todo))
  BY TopPopped
<1> QED BY <1>1, <1>2, <1>3, MarkedBelow, FrameKinds DEF Local, Top

-----------------------------------------------------------------------------

\* q is reached from p, and only buffer b may be longer.
Longer(q, b) == \E n : Sized(q, b, n) /\ n >= Len(p[b])

LEMMA LongerSelf ==
    ASSUME Sound, NEW q, Quiet(p, q), NEW b \in Buffers
    PROVE  Longer(q, b) /\ Len(q[b]) = Len(p[b])
<1>1. Sized(q, b, Len(p[b]))
  BY SizedSelf
<1>2. Len(p[b]) \in Nat
  BY <1>1, SizedAfter
<1> QED BY <1>1, <1>2 DEF Longer, Sized

LEMMA LongerAfter ==
    ASSUME Sound, NEW q, NEW b \in Buffers, Longer(q, b)
    PROVE  /\ Longer(NextToken(q), b)
           /\ Longer(Error(q), b)
           /\ \A wrong : Longer(ErrorIf(q, wrong), b)
           /\ \A kind : Longer(Expect(q, kind), b)
           /\ Longer(TokenToBindingId(q), b)
           /\ Longer(NextStatement(q), b)
           /\ \A v : Longer(Push(q, b, v), b)
           /\ \A m \in 0 .. Len(p[b]) : Sized(Cut(q, b, m), b, m)
<1>1. PICK n : Sized(q, b, n) /\ n >= Len(p[b])
  BY DEF Longer
<1>2. n \in Nat /\ Len(p[b]) \in Nat
  <2>1. Quiet(p, p)
    BY QuietSelf DEF Sound
  <2> QED BY <2>1, <1>1, SizedSelf, SizedAfter
<1>3. \A m \in 0 .. Len(p[b]) : m \in 0 .. n
  BY <1>1, <1>2
<1>4. n + 1 >= Len(p[b])
  BY <1>1, <1>2
<1> QED BY <1>1, <1>3, <1>4, SizedAfter DEF Longer

LEMMA SizedQuiet ==
    ASSUME NEW q, NEW b \in Buffers, Sized(q, b, Len(p[b]))
    PROVE  Quiet(p, q)
BY DEF Sized, Quiet, SameLengths

LEMMA SizedClosing ==
    ASSUME Sound, NEW q, NEW b \in Buffers, NEW n, Sized(q, b, n)
    PROVE  /\ \A kind : Sized(Expect(q, kind), b, n)
           /\ Sized(Error(q), b, n)
BY SizedAfter

\* A list begins, or goes on; it ends; it did not begin.
LEMMA GoesOn ==
    ASSUME Sound, todo # <<>>, NEW b \in Buffers \ {"stmtBuf"},
           NEW q, Longer(q, b), NEW es, Leads(q, es), NEW e, LastOf(es, e),
           "at" \in DOMAIN e, "mark" \in DOMAIN e, e.at \in MarkFrames[b] \ ParamKinds,
           \/ Top.at \notin MarkKinds /\ e.mark = Len(p[b])
           \/ Top.at \in MarkFrames[b] /\ e.mark = Top.mark
    PROVE  ListEnd
BY ListGoesOn DEF Longer

\* An element, perhaps a spread, and an entry after it.
LEMMA ElementLast ==
    ASSUME NEW q, NEW e
    PROVE  LastOf(element(q) \o <<e>>, e)
<1> DEFINE a == F("Assignment")
           s == F("SpreadMade")
<1>1. "at" \in DOMAIN a /\ a.at \in ExprKinds /\ "at" \in DOMAIN s /\ s.at \in ExprKinds
  BY DEF F, ExprKinds
<1>2. element(q) \in {<<a>>, <<a, s>>}
  BY DEF element
<1> HIDE DEF a, s
<1>3. LastOf(<<a, e>>, e) /\ LastOf(<<a, s, e>>, e)
  BY <1>1 DEF LastOf, Row
<1>4. <<a>> \o <<e>> = <<a, e>>
  BY Pair
<1>5. <<a, s>> \o <<e>> = <<a, s, e>>
  <2>1. <<a, s>> \in Seq({a, s, e}) /\ <<e>> \in Seq({a, s, e}) /\ <<a, s, e>> \in Seq({a, s, e})
    OBVIOUS
  <2>2. <<a, s>> \o <<e>> \in Seq({a, s, e}) /\ Len(<<a, s>> \o <<e>>) = 3
        /\ \A i \in 1 .. 3 : (<<a, s>> \o <<e>>)[i] = <<a, s, e>>[i]
    BY <2>1
  <2> QED BY <2>1, <2>2, SeqEqual
<1> QED BY <1>2, <1>3, <1>4, <1>5

ListTops ==
    {"ExpressionRest", "Arguments", "ArrayLiteral", "Parenthesised", "Target",
     "Declarations", "ObjectLiteral", "ClassBody"} \cup ListParts

ListStep == ListEnd /\ Top.at \in ListTops /\ Progresses

LEMMA ListExpressionRest == ASSUME Sound, InOrder(p, todo), ExpressionRest PROVE ListStep
<1>1. todo # <<>> /\ Top.at = "ExpressionRest" /\ Quiet(p, p) /\ "at" \in DOMAIN Top
  BY TopPopped DEF ExpressionRest, at
<1>2. /\ Longer(p, "exprBuf") /\ Top.at \in ListTops /\ "exprBuf" \in Buffers \ {"stmtBuf"}
      /\ Top.at \notin MarkKinds
  BY <1>1, LongerSelf DEF Buffers, ListTops, ListParts, MarkKinds, MarkFrames, ParamKinds, ListKinds
<1> DEFINE q == NextToken(Push(p, "exprBuf", result))
           e == [at |-> "SequenceElement", mark |-> Len(p.exprBuf)]
<1>4. Leads(q, <<F("Assignment"), e>>) \/ Ends(p)
  BY Ways, ZenonT(30) DEF ExpressionRest
<1>5. /\ "at" \in DOMAIN e /\ "mark" \in DOMAIN e
      /\ e.at = "SequenceElement" /\ e.mark = Len(p["exprBuf"])
      /\ e.at \in MarkFrames["exprBuf"] \ ParamKinds
  BY <1>1 DEF MarkFrames, ParamKinds
<1> HIDE DEF e
<1>6. Longer(q, "exprBuf")
  BY <1>2, LongerAfter, SizedClosing DEF skipDots, separated, keep
<1> HIDE DEF q
<1>8. ASSUME Leads(q, <<F("Assignment"), e>>) PROVE ListEnd
  <2>1. LastOf(<<F("Assignment"), e>>, e)
    BY DEF LastOf, Row, F, ExprKinds
  <2> QED BY <1>1, <1>2, <1>5, <1>6, <1>8, <2>1, GoesOn
<1>9. ASSUME Ends(p) PROVE ListEnd
  BY <1>1, <1>2, <1>9, ListNone
<1>10. Progresses
  BY <1>1 DEF Progresses, Fresh
<1> QED BY <1>2, <1>4, <1>8, <1>9, <1>10 DEF ListStep

LEMMA ListSequenceElement == ASSUME Sound, InOrder(p, todo), SequenceElement PROVE ListStep
<1>1. todo # <<>> /\ Top.at = "SequenceElement" /\ Quiet(p, p) /\ "at" \in DOMAIN Top
  BY TopPopped DEF SequenceElement, at
<1>2. /\ Longer(p, "exprBuf") /\ Top.at \in ListTops /\ "exprBuf" \in Buffers \ {"stmtBuf"}
      /\ Top.at \in MarkFrames["exprBuf"] \ ParamKinds /\ Top.at \in MarkKinds
  BY <1>1, LongerSelf DEF Buffers, ListTops, ListParts, MarkKinds, MarkFrames, ParamKinds, ListKinds
<1>3. Top.mark \in 0 .. Len(p["exprBuf"]) /\ "mark" \in DOMAIN Top
  BY <1>1, <1>2, TopMark
<1> DEFINE q == Push(p, "exprBuf", result)
<1>4. Leads(NextToken(q), <<F("Assignment"), Top>>) \/ Ends(Cut(q, "exprBuf", Top.mark))
  BY Ways, ZenonT(30) DEF SequenceElement
<1>6. Longer(NextToken(q), "exprBuf") /\ Sized(Cut(q, "exprBuf", Top.mark), "exprBuf", Top.mark)
  BY <1>2, <1>3, LongerAfter, SizedClosing DEF skipDots, separated, keep
<1> HIDE DEF q
<1>8. ASSUME Leads(NextToken(q), <<F("Assignment"), Top>>) PROVE ListEnd
  <2>1. LastOf(<<F("Assignment"), Top>>, Top)
    BY DEF LastOf, Row, F, ExprKinds
  <2> QED BY <1>1, <1>2, <1>3, <1>6, <1>8, <2>1, GoesOn
<1>9. ASSUME Ends(Cut(q, "exprBuf", Top.mark)) PROVE ListEnd
  BY <1>1, <1>2, <1>6, <1>9, ListCloses
<1>10. Progresses
  BY <1>1 DEF Progresses, Fresh
<1> QED BY <1>2, <1>4, <1>8, <1>9, <1>10 DEF ListStep

LEMMA ListArguments == ASSUME Sound, InOrder(p, todo), Arguments PROVE ListStep
<1>1. todo # <<>> /\ Top.at = "Arguments" /\ Quiet(p, p) /\ "at" \in DOMAIN Top
  BY TopPopped DEF Arguments, at
<1>2. /\ Longer(p, "exprBuf") /\ Top.at \in ListTops /\ "exprBuf" \in Buffers \ {"stmtBuf"}
      /\ Top.at \notin MarkKinds
  BY <1>1, LongerSelf DEF Buffers, ListTops, ListParts, MarkKinds, MarkFrames, ParamKinds, ListKinds
<1> DEFINE e == [at |-> "NextArgument", mark |-> Len(p.exprBuf)]
<1>4. Leads(Expect(p, "("), <<e>>)
  BY Ways, ZenonT(30) DEF Arguments
<1>5. /\ "at" \in DOMAIN e /\ "mark" \in DOMAIN e
      /\ e.at = "NextArgument" /\ e.mark = Len(p["exprBuf"])
      /\ e.at \in MarkFrames["exprBuf"] \ ParamKinds
  BY <1>1 DEF MarkFrames, ParamKinds
<1> HIDE DEF e
<1>6. Longer(Expect(p, "("), "exprBuf")
  BY <1>2, LongerAfter, SizedClosing DEF skipDots, separated, keep
<1>8. ASSUME Leads(Expect(p, "("), <<e>>) PROVE ListEnd
  <2>1. LastOf(<<e>>, e)
    BY DEF LastOf, Row, F, ExprKinds
  <2> QED BY <1>1, <1>2, <1>5, <1>6, <1>8, <2>1, GoesOn
<1>9. Progresses
  BY <1>1 DEF Progresses, Fresh
<1> QED BY <1>2, <1>4, <1>8, <1>9 DEF ListStep

LEMMA ListNextArgument == ASSUME Sound, InOrder(p, todo), NextArgument PROVE ListStep
<1>1. todo # <<>> /\ Top.at = "NextArgument" /\ Quiet(p, p) /\ "at" \in DOMAIN Top
  BY TopPopped DEF NextArgument, at
<1>2. /\ Longer(p, "exprBuf") /\ Top.at \in ListTops /\ "exprBuf" \in Buffers \ {"stmtBuf"}
      /\ Top.at \in MarkFrames["exprBuf"] \ ParamKinds /\ Top.at \in MarkKinds
  BY <1>1, LongerSelf DEF Buffers, ListTops, ListParts, MarkKinds, MarkFrames, ParamKinds, ListKinds
<1>3. Top.mark \in 0 .. Len(p["exprBuf"]) /\ "mark" \in DOMAIN Top
  BY <1>1, <1>2, TopMark
<1> DEFINE e == [Top EXCEPT !.at = "ArgumentMade"]
<1>4. Ends(Expect(Cut(p, "exprBuf", Top.mark), ")")) \/ Leads(skipDots(p), element(p) \o <<e>>)
  BY Ways, ZenonT(30) DEF NextArgument, finishArguments
<1>5. /\ "at" \in DOMAIN e /\ "mark" \in DOMAIN e
      /\ e.at = "ArgumentMade" /\ e.mark = Top.mark
      /\ e.at \in MarkFrames["exprBuf"] \ ParamKinds
  BY <1>1, <1>3 DEF MarkFrames, ParamKinds
<1> HIDE DEF e
<1>6. Sized(Expect(Cut(p, "exprBuf", Top.mark), ")"), "exprBuf", Top.mark) /\ Longer(skipDots(p), "exprBuf")
  BY <1>2, <1>3, LongerAfter, SizedClosing DEF skipDots, separated, keep
<1>8. ASSUME Ends(Expect(Cut(p, "exprBuf", Top.mark), ")")) PROVE ListEnd
  BY <1>1, <1>2, <1>6, <1>8, ListCloses
<1>9. ASSUME Leads(skipDots(p), element(p) \o <<e>>) PROVE ListEnd
  BY <1>1, <1>2, <1>3, <1>5, <1>6, <1>9, ElementLast, GoesOn
<1>10. Progresses
  BY <1>1 DEF Progresses, Fresh
<1> QED BY <1>2, <1>4, <1>8, <1>9, <1>10 DEF ListStep

LEMMA ListArgumentMade == ASSUME Sound, InOrder(p, todo), ArgumentMade PROVE ListStep
<1>1. todo # <<>> /\ Top.at = "ArgumentMade" /\ Quiet(p, p) /\ "at" \in DOMAIN Top
  BY TopPopped DEF ArgumentMade, at
<1>2. /\ Longer(p, "exprBuf") /\ Top.at \in ListTops /\ "exprBuf" \in Buffers \ {"stmtBuf"}
      /\ Top.at \in MarkFrames["exprBuf"] \ ParamKinds /\ Top.at \in MarkKinds
  BY <1>1, LongerSelf DEF Buffers, ListTops, ListParts, MarkKinds, MarkFrames, ParamKinds, ListKinds
<1>3. Top.mark \in 0 .. Len(p["exprBuf"]) /\ "mark" \in DOMAIN Top
  BY <1>1, <1>2, TopMark
<1> DEFINE q == Push(p, "exprBuf", result)
           e == [Top EXCEPT !.at = "NextArgument"]
<1>4. Leads(NextToken(q), <<e>>) \/ Ends(Expect(Cut(q, "exprBuf", Top.mark), ")"))
  BY Ways, ZenonT(30) DEF ArgumentMade, finishArguments
<1>5. /\ "at" \in DOMAIN e /\ "mark" \in DOMAIN e
      /\ e.at = "NextArgument" /\ e.mark = Top.mark
      /\ e.at \in MarkFrames["exprBuf"] \ ParamKinds
  BY <1>1, <1>3 DEF MarkFrames, ParamKinds
<1> HIDE DEF e
<1>6. Longer(NextToken(q), "exprBuf") /\ Sized(Expect(Cut(q, "exprBuf", Top.mark), ")"), "exprBuf", Top.mark)
  BY <1>2, <1>3, LongerAfter, SizedClosing DEF skipDots, separated, keep
<1> HIDE DEF q
<1>8. ASSUME Leads(NextToken(q), <<e>>) PROVE ListEnd
  <2>1. LastOf(<<e>>, e)
    BY DEF LastOf, Row, F, ExprKinds
  <2> QED BY <1>1, <1>2, <1>3, <1>5, <1>6, <1>8, <2>1, GoesOn
<1>9. ASSUME Ends(Expect(Cut(q, "exprBuf", Top.mark), ")")) PROVE ListEnd
  BY <1>1, <1>2, <1>6, <1>9, ListCloses
<1>10. Progresses
  BY <1>1 DEF Progresses, Fresh
<1> QED BY <1>2, <1>4, <1>8, <1>9, <1>10 DEF ListStep

LEMMA ListArrayLiteral == ASSUME Sound, InOrder(p, todo), ArrayLiteral PROVE ListStep
<1>1. todo # <<>> /\ Top.at = "ArrayLiteral" /\ Quiet(p, p) /\ "at" \in DOMAIN Top
  BY TopPopped DEF ArrayLiteral, at
<1>2. /\ Longer(p, "exprBuf") /\ Top.at \in ListTops /\ "exprBuf" \in Buffers \ {"stmtBuf"}
      /\ Top.at \notin MarkKinds
  BY <1>1, LongerSelf DEF Buffers, ListTops, ListParts, MarkKinds, MarkFrames, ParamKinds, ListKinds
<1> DEFINE e == [at |-> "NextElement", mark |-> Len(p.exprBuf), comma |-> FALSE]
<1>4. Leads(Expect(p, "["), <<e>>)
  BY Ways, ZenonT(30) DEF ArrayLiteral
<1>5. /\ "at" \in DOMAIN e /\ "mark" \in DOMAIN e
      /\ e.at = "NextElement" /\ e.mark = Len(p["exprBuf"])
      /\ e.at \in MarkFrames["exprBuf"] \ ParamKinds
  BY <1>1 DEF MarkFrames, ParamKinds
<1> HIDE DEF e
<1>6. Longer(Expect(p, "["), "exprBuf")
  BY <1>2, LongerAfter, SizedClosing DEF skipDots, separated, keep
<1> DEFINE next == Expect(p, "[")
<1>7. p' = next /\ (Kind(p) # "Eof" => Past(p, next))
  BY <1>1, <1>4, StateAfter, QuietNextToken, QuietExpect
<1> HIDE DEF next
<1>8. ASSUME Leads(Expect(p, "["), <<e>>) PROVE ListEnd
  <2>1. LastOf(<<e>>, e)
    BY DEF LastOf, Row, F, ExprKinds
  <2> QED BY <1>1, <1>2, <1>5, <1>6, <1>8, <2>1, GoesOn
<1>9. Progresses
  BY <1>1, <1>7 DEF Progresses
<1> QED BY <1>2, <1>4, <1>8, <1>9 DEF ListStep

LEMMA ListNextElement == ASSUME Sound, InOrder(p, todo), NextElement PROVE ListStep
<1>1. todo # <<>> /\ Top.at = "NextElement" /\ Quiet(p, p) /\ "at" \in DOMAIN Top
  BY TopPopped DEF NextElement, at
<1>2. /\ Longer(p, "exprBuf") /\ Top.at \in ListTops /\ "exprBuf" \in Buffers \ {"stmtBuf"}
      /\ Top.at \in MarkFrames["exprBuf"] \ ParamKinds /\ Top.at \in MarkKinds
  BY <1>1, LongerSelf DEF Buffers, ListTops, ListParts, MarkKinds, MarkFrames, ParamKinds, ListKinds
<1>3. Top.mark \in 0 .. Len(p["exprBuf"]) /\ "mark" \in DOMAIN Top
  BY <1>1, <1>2, TopMark
<1> DEFINE e == [Top EXCEPT !.comma = TRUE]
           d == [Top EXCEPT !.at = "ElementMade"]
<1>4. Ends(Expect(Cut(p, "exprBuf", Top.mark), "]")) \/ Leads(NextToken(Push(p, "exprBuf", None)), <<e>>) \/ Leads(skipDots(p), element(p) \o <<d>>)
  BY Ways, ZenonT(30) DEF NextElement
<1>5. /\ "at" \in DOMAIN e /\ "mark" \in DOMAIN e
      /\ e.at = "NextElement" /\ e.mark = Top.mark
      /\ e.at \in MarkFrames["exprBuf"] \ ParamKinds
      /\ "at" \in DOMAIN d /\ "mark" \in DOMAIN d
      /\ d.at = "ElementMade" /\ d.mark = Top.mark
      /\ d.at \in MarkFrames["exprBuf"] \ ParamKinds
  BY <1>1, <1>3 DEF MarkFrames, ParamKinds
<1> HIDE DEF e, d
<1>6. Sized(Expect(Cut(p, "exprBuf", Top.mark), "]"), "exprBuf", Top.mark) /\ Longer(NextToken(Push(p, "exprBuf", None)), "exprBuf") /\ Longer(skipDots(p), "exprBuf")
  BY <1>2, <1>3, LongerAfter, SizedClosing DEF skipDots, separated, keep
<1>8. ASSUME Ends(Expect(Cut(p, "exprBuf", Top.mark), "]")) PROVE ListEnd
  BY <1>1, <1>2, <1>6, <1>8, ListCloses
<1>9. ASSUME Leads(NextToken(Push(p, "exprBuf", None)), <<e>>) PROVE ListEnd
  <2>1. LastOf(<<e>>, e)
    BY DEF LastOf, Row, F, ExprKinds
  <2> QED BY <1>1, <1>2, <1>3, <1>5, <1>6, <1>9, <2>1, GoesOn
<1>10. ASSUME Leads(skipDots(p), element(p) \o <<d>>) PROVE ListEnd
  BY <1>1, <1>2, <1>3, <1>5, <1>6, <1>10, ElementLast, GoesOn
<1>11. Progresses
  BY <1>1 DEF Progresses, Fresh
<1> QED BY <1>2, <1>4, <1>8, <1>9, <1>10, <1>11 DEF ListStep

LEMMA ListElementMade == ASSUME Sound, InOrder(p, todo), ElementMade PROVE ListStep
<1>1. todo # <<>> /\ Top.at = "ElementMade" /\ Quiet(p, p) /\ "at" \in DOMAIN Top
  BY TopPopped DEF ElementMade, at
<1>2. /\ Longer(p, "exprBuf") /\ Top.at \in ListTops /\ "exprBuf" \in Buffers \ {"stmtBuf"}
      /\ Top.at \in MarkFrames["exprBuf"] \ ParamKinds /\ Top.at \in MarkKinds
  BY <1>1, LongerSelf DEF Buffers, ListTops, ListParts, MarkKinds, MarkFrames, ParamKinds, ListKinds
<1>3. Top.mark \in 0 .. Len(p["exprBuf"]) /\ "mark" \in DOMAIN Top
  BY <1>1, <1>2, TopMark
<1> DEFINE q == Push(p, "exprBuf", result)
           r == IF Kind(q) = "]" THEN q ELSE Expect(q, ",")
           e == [Top EXCEPT !.at = "NextElement", !.comma = Kind(q) = ","]
<1>4. Leads(r, <<e>>)
  BY Ways, ZenonT(30) DEF ElementMade
<1>5. /\ "at" \in DOMAIN e /\ "mark" \in DOMAIN e
      /\ e.at = "NextElement" /\ e.mark = Top.mark
      /\ e.at \in MarkFrames["exprBuf"] \ ParamKinds
  BY <1>1, <1>3 DEF MarkFrames, ParamKinds
<1> HIDE DEF e
<1>6. Longer(r, "exprBuf")
  BY <1>2, <1>3, LongerAfter, SizedClosing DEF skipDots, separated, keep
<1> HIDE DEF q, r
<1>8. ASSUME Leads(r, <<e>>) PROVE ListEnd
  <2>1. LastOf(<<e>>, e)
    BY DEF LastOf, Row, F, ExprKinds
  <2> QED BY <1>1, <1>2, <1>3, <1>5, <1>6, <1>8, <2>1, GoesOn
<1>9. Progresses
  BY <1>1 DEF Progresses, Fresh
<1> QED BY <1>2, <1>4, <1>8, <1>9 DEF ListStep

LEMMA ListNextParenthesised == ASSUME Sound, InOrder(p, todo), NextParenthesised PROVE ListStep
<1>1. todo # <<>> /\ Top.at = "NextParenthesised" /\ Quiet(p, p) /\ "at" \in DOMAIN Top
  BY TopPopped DEF NextParenthesised, at
<1>2. /\ Longer(p, "exprBuf") /\ Top.at \in ListTops /\ "exprBuf" \in Buffers \ {"stmtBuf"}
      /\ Top.at \in MarkFrames["exprBuf"] \ ParamKinds /\ Top.at \in MarkKinds
  BY <1>1, LongerSelf DEF Buffers, ListTops, ListParts, MarkKinds, MarkFrames, ParamKinds, ListKinds
<1>3. Top.mark \in 0 .. Len(p["exprBuf"]) /\ "mark" \in DOMAIN Top
  BY <1>1, <1>2, TopMark
<1> DEFINE q == skipDots(ErrorIf(p, Kind(p) = "..."))
           e == [at |-> "ParenthesisedMade", mark |-> Top.mark, dots |-> Kind(p) = "..."]
<1>4. Leads(q, <<F("Assignment"), e>>)
  BY Ways, ZenonT(30) DEF NextParenthesised
<1>5. /\ "at" \in DOMAIN e /\ "mark" \in DOMAIN e
      /\ e.at = "ParenthesisedMade" /\ e.mark = Top.mark
      /\ e.at \in MarkFrames["exprBuf"] \ ParamKinds
  BY <1>1, <1>3 DEF MarkFrames, ParamKinds
<1> HIDE DEF e
<1>6. Longer(q, "exprBuf")
  BY <1>2, <1>3, LongerAfter, SizedClosing DEF skipDots, separated, keep
<1> HIDE DEF q
<1>8. ASSUME Leads(q, <<F("Assignment"), e>>) PROVE ListEnd
  <2>1. LastOf(<<F("Assignment"), e>>, e)
    BY DEF LastOf, Row, F, ExprKinds
  <2> QED BY <1>1, <1>2, <1>3, <1>5, <1>6, <1>8, <2>1, GoesOn
<1>9. Progresses
  BY <1>1 DEF Progresses, Fresh
<1> QED BY <1>2, <1>4, <1>8, <1>9 DEF ListStep

LEMMA ListPatternMade == ASSUME Sound, InOrder(p, todo), PatternMade PROVE ListStep
<1>1. todo # <<>> /\ Top.at = "PatternMade" /\ Quiet(p, p) /\ "at" \in DOMAIN Top
  BY TopPopped DEF PatternMade, at
<1>2. /\ Longer(p, "patBuf") /\ Top.at \in ListTops /\ "patBuf" \in Buffers \ {"stmtBuf"}
      /\ Top.at \in MarkFrames["patBuf"] \ ParamKinds /\ Top.at \in MarkKinds
  BY <1>1, LongerSelf DEF Buffers, ListTops, ListParts, MarkKinds, MarkFrames, ParamKinds, ListKinds
<1>3. Top.mark \in 0 .. Len(p["patBuf"]) /\ "mark" \in DOMAIN Top
  BY <1>1, <1>2, TopMark
<1> DEFINE q == separated(Push(p, "patBuf", result), "]")
           e == [Top EXCEPT !.at = "NextPattern"]
<1>4. Leads(q, <<e>>)
  BY Ways, ZenonT(30) DEF PatternMade
<1>5. /\ "at" \in DOMAIN e /\ "mark" \in DOMAIN e
      /\ e.at = "NextPattern" /\ e.mark = Top.mark
      /\ e.at \in MarkFrames["patBuf"] \ ParamKinds
  BY <1>1, <1>3 DEF MarkFrames, ParamKinds
<1> HIDE DEF e
<1>6. Longer(q, "patBuf")
  BY <1>2, <1>3, LongerAfter, SizedClosing DEF skipDots, separated, keep
<1> HIDE DEF q
<1>8. ASSUME Leads(q, <<e>>) PROVE ListEnd
  <2>1. LastOf(<<e>>, e)
    BY DEF LastOf, Row, F, ExprKinds
  <2> QED BY <1>1, <1>2, <1>3, <1>5, <1>6, <1>8, <2>1, GoesOn
<1>9. Progresses
  BY <1>1 DEF Progresses, Fresh
<1> QED BY <1>2, <1>4, <1>8, <1>9 DEF ListStep

LEMMA ListArrayRestMade == ASSUME Sound, InOrder(p, todo), ArrayRestMade PROVE ListStep
<1>1. todo # <<>> /\ Top.at = "ArrayRestMade" /\ Quiet(p, p) /\ "at" \in DOMAIN Top
  BY TopPopped DEF ArrayRestMade, at
<1>2. /\ Longer(p, "patBuf") /\ Top.at \in ListTops /\ "patBuf" \in Buffers \ {"stmtBuf"}
      /\ Top.at \in MarkFrames["patBuf"] \ ParamKinds /\ Top.at \in MarkKinds
  BY <1>1, LongerSelf DEF Buffers, ListTops, ListParts, MarkKinds, MarkFrames, ParamKinds, ListKinds
<1>3. Top.mark \in 0 .. Len(p["patBuf"]) /\ "mark" \in DOMAIN Top
  BY <1>1, <1>2, TopMark
<1>4. Ends(Expect(Cut(p, "patBuf", Top.mark), "]"))
  BY Ways, ZenonT(30) DEF ArrayRestMade, finishArrayPattern
<1>6. Sized(Expect(Cut(p, "patBuf", Top.mark), "]"), "patBuf", Top.mark)
  BY <1>2, <1>3, LongerAfter, SizedClosing DEF skipDots, separated, keep
<1>8. ASSUME Ends(Expect(Cut(p, "patBuf", Top.mark), "]")) PROVE ListEnd
  BY <1>1, <1>2, <1>6, <1>8, ListCloses
<1>9. Progresses
  BY <1>1 DEF Progresses, Fresh
<1> QED BY <1>2, <1>4, <1>8, <1>9 DEF ListStep

LEMMA ListNextPattern == ASSUME Sound, InOrder(p, todo), NextPattern PROVE ListStep
<1>1. todo # <<>> /\ Top.at = "NextPattern" /\ Quiet(p, p) /\ "at" \in DOMAIN Top
  BY TopPopped DEF NextPattern, at
<1>2. /\ Longer(p, "patBuf") /\ Top.at \in ListTops /\ "patBuf" \in Buffers \ {"stmtBuf"}
      /\ Top.at \in MarkFrames["patBuf"] \ ParamKinds /\ Top.at \in MarkKinds
  BY <1>1, LongerSelf DEF Buffers, ListTops, ListParts, MarkKinds, MarkFrames, ParamKinds, ListKinds
<1>3. Top.mark \in 0 .. Len(p["patBuf"]) /\ "mark" \in DOMAIN Top
  BY <1>1, <1>2, TopMark
<1> DEFINE d == [Top EXCEPT !.at = "ArrayRestMade"]
           e == [Top EXCEPT !.at = "PatternMade"]
<1>4. Ends(Expect(Cut(p, "patBuf", Top.mark), "]")) \/ Leads(NextToken(Push(p, "patBuf", None)), <<Top>>) \/ Leads(NextToken(p), <<F("Target"), d>>) \/ Leads(p, <<F("PatternElement"), e>>)
  BY Ways, ZenonT(30) DEF NextPattern, finishArrayPattern
<1>5. /\ "at" \in DOMAIN d /\ "mark" \in DOMAIN d
      /\ d.at = "ArrayRestMade" /\ d.mark = Top.mark
      /\ d.at \in MarkFrames["patBuf"] \ ParamKinds
      /\ "at" \in DOMAIN e /\ "mark" \in DOMAIN e
      /\ e.at = "PatternMade" /\ e.mark = Top.mark
      /\ e.at \in MarkFrames["patBuf"] \ ParamKinds
  BY <1>1, <1>3 DEF MarkFrames, ParamKinds
<1> HIDE DEF d, e
<1>6. Sized(Expect(Cut(p, "patBuf", Top.mark), "]"), "patBuf", Top.mark) /\ Longer(NextToken(Push(p, "patBuf", None)), "patBuf") /\ Longer(NextToken(p), "patBuf")
  BY <1>2, <1>3, LongerAfter, SizedClosing DEF skipDots, separated, keep
<1>8. ASSUME Ends(Expect(Cut(p, "patBuf", Top.mark), "]")) PROVE ListEnd
  BY <1>1, <1>2, <1>6, <1>8, ListCloses
<1>9. ASSUME Leads(NextToken(Push(p, "patBuf", None)), <<Top>>) PROVE ListEnd
  <2>1. LastOf(<<Top>>, Top)
    BY DEF LastOf, Row, F, ExprKinds
  <2> QED BY <1>1, <1>2, <1>3, <1>5, <1>6, <1>9, <2>1, GoesOn
<1>10. ASSUME Leads(NextToken(p), <<F("Target"), d>>) PROVE ListEnd
  <2>1. LastOf(<<F("Target"), d>>, d)
    BY DEF LastOf, Row, F, ExprKinds
  <2> QED BY <1>1, <1>2, <1>3, <1>5, <1>6, <1>10, <2>1, GoesOn
<1>11. ASSUME Leads(p, <<F("PatternElement"), e>>) PROVE ListEnd
  <2>1. LastOf(<<F("PatternElement"), e>>, e)
    BY DEF LastOf, Row, F, ExprKinds
  <2> QED BY <1>1, <1>2, <1>3, <1>5, <1>6, <1>11, <2>1, GoesOn
<1>12. Progresses
  BY <1>1 DEF Progresses, Fresh
<1> QED BY <1>2, <1>4, <1>8, <1>9, <1>10, <1>11, <1>12 DEF ListStep

LEMMA ListBindingMade == ASSUME Sound, InOrder(p, todo), BindingMade PROVE ListStep
<1>1. todo # <<>> /\ Top.at = "BindingMade" /\ Quiet(p, p) /\ "at" \in DOMAIN Top
  BY TopPopped DEF BindingMade, at
<1>2. /\ Longer(p, "patPropBuf") /\ Top.at \in ListTops /\ "patPropBuf" \in Buffers \ {"stmtBuf"}
      /\ Top.at \in MarkFrames["patPropBuf"] \ ParamKinds /\ Top.at \in MarkKinds
  BY <1>1, LongerSelf DEF Buffers, ListTops, ListParts, MarkKinds, MarkFrames, ParamKinds, ListKinds
<1>3. Top.mark \in 0 .. Len(p["patPropBuf"]) /\ "mark" \in DOMAIN Top
  BY <1>1, <1>2, TopMark
<1> DEFINE q == separated(keep("patPropBuf", result), "}")
           e == [Top EXCEPT !.at = "NextBinding"]
<1>4. Leads(q, <<e>>)
  BY Ways, ZenonT(30) DEF BindingMade
<1>5. /\ "at" \in DOMAIN e /\ "mark" \in DOMAIN e
      /\ e.at = "NextBinding" /\ e.mark = Top.mark
      /\ e.at \in MarkFrames["patPropBuf"] \ ParamKinds
  BY <1>1, <1>3 DEF MarkFrames, ParamKinds
<1> HIDE DEF e
<1>6. Longer(q, "patPropBuf")
  BY <1>2, <1>3, LongerAfter, SizedClosing DEF skipDots, separated, keep
<1> HIDE DEF q
<1>8. ASSUME Leads(q, <<e>>) PROVE ListEnd
  <2>1. LastOf(<<e>>, e)
    BY DEF LastOf, Row, F, ExprKinds
  <2> QED BY <1>1, <1>2, <1>3, <1>5, <1>6, <1>8, <2>1, GoesOn
<1>9. Progresses
  BY <1>1 DEF Progresses, Fresh
<1> QED BY <1>2, <1>4, <1>8, <1>9 DEF ListStep

LEMMA ListDeclarationList == ASSUME Sound, InOrder(p, todo), DeclarationList PROVE ListStep
<1>1. todo # <<>> /\ Top.at = "Declarations" /\ Quiet(p, p) /\ "at" \in DOMAIN Top
  BY TopPopped DEF DeclarationList, at
<1>2. /\ Longer(p, "declBuf") /\ Top.at \in ListTops /\ "declBuf" \in Buffers \ {"stmtBuf"}
      /\ Top.at \notin MarkKinds
  BY <1>1, LongerSelf DEF Buffers, ListTops, ListParts, MarkKinds, MarkFrames, ParamKinds, ListKinds
<1> DEFINE e == [at |-> "NextDeclaration", mark |-> Len(p.declBuf)]
<1>4. Leads(p, <<F("Declaration"), e>>)
  BY Ways, ZenonT(30) DEF DeclarationList
<1>5. /\ "at" \in DOMAIN e /\ "mark" \in DOMAIN e
      /\ e.at = "NextDeclaration" /\ e.mark = Len(p["declBuf"])
      /\ e.at \in MarkFrames["declBuf"] \ ParamKinds
  BY <1>1 DEF MarkFrames, ParamKinds
<1> HIDE DEF e
<1>8. ASSUME Leads(p, <<F("Declaration"), e>>) PROVE ListEnd
  <2>1. LastOf(<<F("Declaration"), e>>, e)
    BY DEF LastOf, Row, F, ExprKinds
  <2> QED BY <1>1, <1>2, <1>5, <1>8, <2>1, GoesOn
<1>9. Progresses
  BY <1>1 DEF Progresses, Fresh
<1> QED BY <1>2, <1>4, <1>8, <1>9 DEF ListStep

LEMMA ListNextDeclaration == ASSUME Sound, InOrder(p, todo), NextDeclaration PROVE ListStep
<1>1. todo # <<>> /\ Top.at = "NextDeclaration" /\ Quiet(p, p) /\ "at" \in DOMAIN Top
  BY TopPopped DEF NextDeclaration, at
<1>2. /\ Longer(p, "declBuf") /\ Top.at \in ListTops /\ "declBuf" \in Buffers \ {"stmtBuf"}
      /\ Top.at \in MarkFrames["declBuf"] \ ParamKinds /\ Top.at \in MarkKinds
  BY <1>1, LongerSelf DEF Buffers, ListTops, ListParts, MarkKinds, MarkFrames, ParamKinds, ListKinds
<1>3. Top.mark \in 0 .. Len(p["declBuf"]) /\ "mark" \in DOMAIN Top
  BY <1>1, <1>2, TopMark
<1> DEFINE q == Push(p, "declBuf", result)
<1>4. Leads(NextToken(q), <<F("Declaration"), Top>>) \/ Ends(Cut(q, "declBuf", Top.mark))
  BY Ways, ZenonT(30) DEF NextDeclaration
<1>6. Longer(NextToken(q), "declBuf") /\ Sized(Cut(q, "declBuf", Top.mark), "declBuf", Top.mark)
  BY <1>2, <1>3, LongerAfter, SizedClosing DEF skipDots, separated, keep
<1> HIDE DEF q
<1>8. ASSUME Leads(NextToken(q), <<F("Declaration"), Top>>) PROVE ListEnd
  <2>1. LastOf(<<F("Declaration"), Top>>, Top)
    BY DEF LastOf, Row, F, ExprKinds
  <2> QED BY <1>1, <1>2, <1>3, <1>6, <1>8, <2>1, GoesOn
<1>9. ASSUME Ends(Cut(q, "declBuf", Top.mark)) PROVE ListEnd
  BY <1>1, <1>2, <1>6, <1>9, ListCloses
<1>10. Progresses
  BY <1>1 DEF Progresses, Fresh
<1> QED BY <1>2, <1>4, <1>8, <1>9, <1>10 DEF ListStep

LEMMA ListObjectLiteral == ASSUME Sound, InOrder(p, todo), ObjectLiteral PROVE ListStep
<1>1. todo # <<>> /\ Top.at = "ObjectLiteral" /\ Quiet(p, p) /\ "at" \in DOMAIN Top
  BY TopPopped DEF ObjectLiteral, at
<1>2. /\ Longer(p, "propBuf") /\ Top.at \in ListTops /\ "propBuf" \in Buffers \ {"stmtBuf"}
      /\ Top.at \notin MarkKinds
  BY <1>1, LongerSelf DEF Buffers, ListTops, ListParts, MarkKinds, MarkFrames, ParamKinds, ListKinds
<1> DEFINE e == [at |-> "NextProperty", mark |-> Len(p.propBuf)]
<1>4. Leads(NextToken(p), <<e>>)
  BY Ways, ZenonT(30) DEF ObjectLiteral
<1>5. /\ "at" \in DOMAIN e /\ "mark" \in DOMAIN e
      /\ e.at = "NextProperty" /\ e.mark = Len(p["propBuf"])
      /\ e.at \in MarkFrames["propBuf"] \ ParamKinds
  BY <1>1 DEF MarkFrames, ParamKinds
<1> HIDE DEF e
<1>6. Longer(NextToken(p), "propBuf")
  BY <1>2, LongerAfter, SizedClosing DEF skipDots, separated, keep
<1> DEFINE next == NextToken(p)
<1>7. p' = next /\ (Kind(p) # "Eof" => Past(p, next))
  BY <1>1, <1>4, StateAfter, QuietNextToken, QuietExpect
<1> HIDE DEF next
<1>8. ASSUME Leads(NextToken(p), <<e>>) PROVE ListEnd
  <2>1. LastOf(<<e>>, e)
    BY DEF LastOf, Row, F, ExprKinds
  <2> QED BY <1>1, <1>2, <1>5, <1>6, <1>8, <2>1, GoesOn
<1>9. Progresses
  BY <1>1, <1>7 DEF Progresses
<1> QED BY <1>2, <1>4, <1>8, <1>9 DEF ListStep

LEMMA ListPropertyMade == ASSUME Sound, InOrder(p, todo), PropertyMade PROVE ListStep
<1>1. todo # <<>> /\ Top.at = "PropertyMade" /\ Quiet(p, p) /\ "at" \in DOMAIN Top
  BY TopPopped DEF PropertyMade, at
<1>2. /\ Longer(p, "propBuf") /\ Top.at \in ListTops /\ "propBuf" \in Buffers \ {"stmtBuf"}
      /\ Top.at \in MarkFrames["propBuf"] \ ParamKinds /\ Top.at \in MarkKinds
  BY <1>1, LongerSelf DEF Buffers, ListTops, ListParts, MarkKinds, MarkFrames, ParamKinds, ListKinds
<1>3. Top.mark \in 0 .. Len(p["propBuf"]) /\ "mark" \in DOMAIN Top
  BY <1>1, <1>2, TopMark
<1> DEFINE q == separated(keep("propBuf", result), "}")
           e == [Top EXCEPT !.at = "NextProperty"]
<1>4. Leads(q, <<e>>)
  BY Ways, ZenonT(30) DEF PropertyMade
<1>5. /\ "at" \in DOMAIN e /\ "mark" \in DOMAIN e
      /\ e.at = "NextProperty" /\ e.mark = Top.mark
      /\ e.at \in MarkFrames["propBuf"] \ ParamKinds
  BY <1>1, <1>3 DEF MarkFrames, ParamKinds
<1> HIDE DEF e
<1>6. Longer(q, "propBuf")
  BY <1>2, <1>3, LongerAfter, SizedClosing DEF skipDots, separated, keep
<1> HIDE DEF q
<1>8. ASSUME Leads(q, <<e>>) PROVE ListEnd
  <2>1. LastOf(<<e>>, e)
    BY DEF LastOf, Row, F, ExprKinds
  <2> QED BY <1>1, <1>2, <1>3, <1>5, <1>6, <1>8, <2>1, GoesOn
<1>9. Progresses
  BY <1>1 DEF Progresses, Fresh
<1> QED BY <1>2, <1>4, <1>8, <1>9 DEF ListStep

LEMMA ListClassBody == ASSUME Sound, InOrder(p, todo), ClassBody PROVE ListStep
<1>1. todo # <<>> /\ Top.at = "ClassBody" /\ Quiet(p, p) /\ "at" \in DOMAIN Top
  BY TopPopped DEF ClassBody, at
<1>2. /\ Longer(p, "elemBuf") /\ Top.at \in ListTops /\ "elemBuf" \in Buffers \ {"stmtBuf"}
      /\ Top.at \notin MarkKinds
  BY <1>1, LongerSelf DEF Buffers, ListTops, ListParts, MarkKinds, MarkFrames, ParamKinds, ListKinds
<1> DEFINE e == [at |-> "NextMember", name |-> Top.name, superClass |-> result, mark |-> Len(p.elemBuf)]
<1>4. Leads(Expect(p, "{"), <<e>>)
  BY Ways, ZenonT(30) DEF ClassBody
<1>5. /\ "at" \in DOMAIN e /\ "mark" \in DOMAIN e
      /\ e.at = "NextMember" /\ e.mark = Len(p["elemBuf"])
      /\ e.at \in MarkFrames["elemBuf"] \ ParamKinds
  BY <1>1 DEF MarkFrames, ParamKinds
<1> HIDE DEF e
<1>6. Longer(Expect(p, "{"), "elemBuf")
  BY <1>2, LongerAfter, SizedClosing DEF skipDots, separated, keep
<1>8. ASSUME Leads(Expect(p, "{"), <<e>>) PROVE ListEnd
  <2>1. LastOf(<<e>>, e)
    BY DEF LastOf, Row, F, ExprKinds
  <2> QED BY <1>1, <1>2, <1>5, <1>6, <1>8, <2>1, GoesOn
<1>9. Progresses
  BY <1>1 DEF Progresses, Fresh
<1> QED BY <1>2, <1>4, <1>8, <1>9 DEF ListStep

LEMMA ListParenthesised == ASSUME Sound, InOrder(p, todo), Parenthesised PROVE ListStep
<1>1. todo # <<>> /\ Top.at = "Parenthesised" /\ Quiet(p, p)
  BY TopPopped DEF Parenthesised, at
<1>2. /\ Longer(p, "exprBuf") /\ Top.at \in ListTops /\ "exprBuf" \in Buffers \ {"stmtBuf"}
      /\ Top.at \notin MarkKinds
  BY <1>1, LongerSelf DEF Buffers, ListTops, MarkKinds
<1> DEFINE q == NextToken(p)
           n == Len(p["exprBuf"])
           e == [at |-> "NextParenthesised", mark |-> n]
           c == Cut(Expect(q, ")"), "exprBuf", n)
<1>3. Ends(c) \/ Ends(Error(c)) \/ Leads(q, <<e>>)
  <2>1. n = Len(p.exprBuf)
    OBVIOUS
  <2> QED BY <2>1, Ways, ZenonT(60) DEF Parenthesised, finishParenthesised
<1>4. /\ "at" \in DOMAIN e /\ "mark" \in DOMAIN e /\ e.at = "NextParenthesised" /\ e.mark = n
      /\ e.at \in MarkFrames["exprBuf"] \ ParamKinds
  BY DEF MarkFrames, ParamKinds
<1>5. n \in Nat /\ n \in 0 .. Len(p["exprBuf"])
  BY <1>1, <1>2, SizedSelf, SizedAfter
<1> HIDE DEF e
<1>6. Longer(q, "exprBuf") /\ Quiet(p, q) /\ (Kind(p) # "Eof" => Past(p, q))
  BY <1>1, <1>2, LongerAfter, QuietNextToken
<1> HIDE DEF q
<1>7. Sized(c, "exprBuf", n) /\ Sized(Error(c), "exprBuf", n)
  BY <1>2, <1>5, <1>6, LongerAfter, SizedClosing
<1>8. Quiet(p, Error(c)) /\ Quiet(p, c)
  BY <1>2, <1>7, SizedQuiet
<1>9. Kind(p) # "Eof" => Past(p, c) /\ Past(p, Error(c))
  <2>1. Quiet(p, Expect(q, ")")) /\ (Kind(p) # "Eof" => Past(p, Expect(q, ")")))
    BY <1>6, QuietExpect
  <2>2. Reads(p, Expect(q, ")")) /\ IsText /\ n \in 0 .. Len(Expect(q, ")")["exprBuf"])
    BY <1>2, <1>5, <2>1 DEF Quiet, SameLengths, Sound
  <2>3. Kind(p) # "Eof" => Past(p, c)
    BY <1>2, <2>1, <2>2, ReadCut
  <2> QED BY <1>8, <2>3, QuietError
<1> HIDE DEF c, n
<1>10. ASSUME Leads(q, <<e>>) PROVE ListEnd
  <2>1. LastOf(<<e>>, e)
    BY DEF LastOf, Row
  <2>2. e.mark = Len(p["exprBuf"])
    BY <1>4 DEF n
  <2> QED BY <1>1, <1>2, <1>4, <1>6, <1>10, <2>1, <2>2, GoesOn
<1>11. ASSUME Ends(c) \/ Ends(Error(c)) PROVE ListEnd
  BY <1>1, <1>2, <1>8, <1>11, ListNone
<1>12. Progresses
  BY <1>3, <1>6, <1>9, StateAfter DEF Progresses
<1> QED BY <1>2, <1>3, <1>10, <1>11, <1>12 DEF ListStep

LEMMA ListParenthesisedMade == ASSUME Sound, InOrder(p, todo), ParenthesisedMade PROVE ListStep
<1>1. todo # <<>> /\ Top.at = "ParenthesisedMade" /\ Quiet(p, p) /\ "at" \in DOMAIN Top
  BY TopPopped DEF ParenthesisedMade, at
<1>2. /\ Longer(p, "exprBuf") /\ Top.at \in ListTops /\ "exprBuf" \in Buffers \ {"stmtBuf"}
      /\ Top.at \in MarkFrames["exprBuf"] \ ParamKinds /\ Top.at \in MarkKinds
  BY <1>1, LongerSelf DEF Buffers, ListTops, ListParts, MarkKinds, MarkFrames, ParamKinds, ListKinds
<1>3. Top.mark \in 0 .. Len(p["exprBuf"])
  BY <1>1, <1>2, TopMark
<1> DEFINE q == Push(p, "exprBuf", IF Top.dots THEN Invalid ELSE result)
           r == NextToken(q)
           e == [at |-> "NextParenthesised", mark |-> Top.mark]
           c == Cut(Expect(q, ")"), "exprBuf", Top.mark)
           d == Cut(Expect(Error(r), ")"), "exprBuf", Top.mark)
<1>4. \/ Ends(c) \/ Ends(Error(c)) \/ Ends(d) \/ Ends(Error(d))
      \/ Leads(r, <<e>>)
  BY Ways, ZenonT(60) DEF ParenthesisedMade, finishParenthesised
<1>5. /\ "at" \in DOMAIN e /\ "mark" \in DOMAIN e /\ e.at = "NextParenthesised" /\ e.mark = Top.mark
      /\ e.at \in MarkFrames["exprBuf"] \ ParamKinds
  BY DEF MarkFrames, ParamKinds
<1> HIDE DEF e
<1>6. Longer(q, "exprBuf") /\ Longer(r, "exprBuf") /\ Longer(Error(r), "exprBuf")
  BY <1>2, LongerAfter
<1> HIDE DEF q, r
<1>7. /\ Sized(c, "exprBuf", Top.mark) /\ Sized(Error(c), "exprBuf", Top.mark)
      /\ Sized(d, "exprBuf", Top.mark) /\ Sized(Error(d), "exprBuf", Top.mark)
  BY <1>2, <1>3, <1>6, LongerAfter, SizedClosing
<1> HIDE DEF c, d
<1>8. ASSUME Leads(r, <<e>>) PROVE ListEnd
  <2>1. LastOf(<<e>>, e)
    BY DEF LastOf, Row
  <2> QED BY <1>1, <1>2, <1>5, <1>6, <1>8, <2>1, GoesOn
<1>9. ASSUME Ends(c) \/ Ends(Error(c)) \/ Ends(d) \/ Ends(Error(d)) PROVE ListEnd
  BY <1>1, <1>2, <1>7, <1>9, ListCloses
<1>10. Progresses
  BY <1>1 DEF Progresses, Fresh
<1> QED BY <1>2, <1>4, <1>8, <1>9, <1>10 DEF ListStep

LEMMA ListBindingTarget == ASSUME Sound, InOrder(p, todo), BindingTarget PROVE ListStep
<1>1. todo # <<>> /\ Top.at = "Target" /\ Quiet(p, p)
  BY TopPopped DEF BindingTarget, at
<1>2. /\ Longer(p, "patBuf") /\ Longer(p, "patPropBuf") /\ Top.at \in ListTops
      /\ {"patBuf", "patPropBuf"} \subseteq Buffers \ {"stmtBuf"}
      /\ Top.at \notin MarkKinds
  BY <1>1, LongerSelf DEF Buffers, ListTops, MarkKinds
<1> DEFINE q == TokenToBindingId(p)
           d == [at |-> "NextPattern", mark |-> Len(q.patBuf)]
           e == [at |-> "NextBinding", mark |-> Len(q.patPropBuf)]
<1>3. \/ Ends(NextToken(q)) \/ Leads(NextToken(q), <<d>>) \/ Leads(NextToken(q), <<e>>)
      \/ Ends(NextStatement(NextToken(Error(q))))
  BY Ways, ZenonT(60) DEF BindingTarget
<1>4. Quiet(p, q)
  BY <1>1, QuietBindingId
<1>5. /\ "at" \in DOMAIN d /\ "mark" \in DOMAIN d /\ d.at = "NextPattern"
      /\ d.mark = Len(p["patBuf"]) /\ d.at \in MarkFrames["patBuf"] \ ParamKinds
      /\ "at" \in DOMAIN e /\ "mark" \in DOMAIN e /\ e.at = "NextBinding"
      /\ e.mark = Len(p["patPropBuf"]) /\ e.at \in MarkFrames["patPropBuf"] \ ParamKinds
  <2>1. Len(q["patBuf"]) = Len(p["patBuf"]) /\ Len(q["patPropBuf"]) = Len(p["patPropBuf"])
    BY <1>2, <1>4 DEF Quiet, SameLengths
  <2> HIDE DEF q
  <2> QED BY <2>1 DEF MarkFrames, ParamKinds
<1> HIDE DEF d, e
<1>6. Longer(NextToken(q), "patBuf") /\ Longer(NextToken(q), "patPropBuf")
  BY <1>2, LongerAfter
<1>7. Quiet(p, NextToken(q)) /\ Quiet(p, NextStatement(NextToken(Error(q))))
  BY <1>4, QuietNextToken, QuietError, QuietNextStatement
<1> HIDE DEF q
<1>8. LastOf(<<d>>, d) /\ LastOf(<<e>>, e)
  <2>1. LastOf(<<d>>, d)
    BY DEF LastOf, Row
  <2>2. LastOf(<<e>>, e)
    BY DEF LastOf, Row
  <2> QED BY <2>1, <2>2
<1>9. ASSUME Leads(NextToken(q), <<d>>) PROVE ListEnd
  BY <1>1, <1>2, <1>5, <1>6, <1>8, <1>9, GoesOn
<1>10. ASSUME Leads(NextToken(q), <<e>>) PROVE ListEnd
  BY <1>1, <1>2, <1>5, <1>6, <1>8, <1>10, GoesOn
<1>11. ASSUME Ends(NextToken(q)) \/ Ends(NextStatement(NextToken(Error(q)))) PROVE ListEnd
  BY <1>1, <1>2, <1>7, <1>11, ListNone
<1>12. Progresses
  BY <1>1 DEF Progresses, Fresh
<1> QED BY <1>2, <1>3, <1>9, <1>10, <1>11, <1>12 DEF ListStep

LEMMA ListNextBinding == ASSUME Sound, InOrder(p, todo), NextBinding PROVE ListStep
<1>1. todo # <<>> /\ Top.at = "NextBinding" /\ Quiet(p, p) /\ "at" \in DOMAIN Top
  BY TopPopped DEF NextBinding, at
<1>2. /\ Longer(p, "patPropBuf") /\ Top.at \in ListTops /\ "patPropBuf" \in Buffers \ {"stmtBuf"}
      /\ Top.at \in MarkFrames["patPropBuf"] \ ParamKinds /\ Top.at \in MarkKinds
  BY <1>1, LongerSelf DEF Buffers, ListTops, ListParts, MarkKinds, MarkFrames, ParamKinds, ListKinds
<1>3. Top.mark \in 0 .. Len(p["patPropBuf"]) /\ "mark" \in DOMAIN Top
  BY <1>1, <1>2, TopMark
<1> DEFINE q == TokenToBindingId(NextToken(p))
           r == IF Kind(q) = "Identifier" THEN NextToken(q) ELSE Error(q)
           s == IF Kind(r) = "," THEN NextToken(r) ELSE r
           e == [Top EXCEPT !.at = "BindingMade"]
           c == Expect(Cut(p, "patPropBuf", Top.mark), "}")
           d == Expect(Cut(s, "patPropBuf", Top.mark), "}")
<1>4. \/ Ends(c) \/ Ends(d) \/ Leads(p, <<F("PropertyKey"), F("BindingProperty"), e>>)
  BY Ways, ZenonT(60) DEF NextBinding, finishObjectPattern
<1>5. /\ "at" \in DOMAIN e /\ "mark" \in DOMAIN e /\ e.at = "BindingMade" /\ e.mark = Top.mark
      /\ e.at \in MarkFrames["patPropBuf"] \ ParamKinds
  BY <1>1, <1>3 DEF MarkFrames, ParamKinds
<1> HIDE DEF e
<1>6. Longer(s, "patPropBuf")
  <2>1. Longer(q, "patPropBuf")
    BY <1>2, LongerAfter
  <2> HIDE DEF q
  <2> QED BY <1>2, <2>1, LongerAfter
<1> HIDE DEF s
<1>7. Sized(c, "patPropBuf", Top.mark) /\ Sized(d, "patPropBuf", Top.mark)
  BY <1>2, <1>3, <1>6, LongerAfter, SizedClosing
<1> HIDE DEF c, d
<1>8. ASSUME Leads(p, <<F("PropertyKey"), F("BindingProperty"), e>>) PROVE ListEnd
  <2>1. LastOf(<<F("PropertyKey"), F("BindingProperty"), e>>, e)
    BY DEF LastOf, Row, F, ExprKinds
  <2> QED BY <1>1, <1>2, <1>5, <1>8, <2>1, GoesOn
<1>9. ASSUME Ends(c) \/ Ends(d) PROVE ListEnd
  BY <1>1, <1>2, <1>7, <1>9, ListCloses
<1>10. Progresses
  BY <1>1 DEF Progresses, Fresh
<1> QED BY <1>2, <1>4, <1>8, <1>9, <1>10 DEF ListStep

LEMMA ListNextProperty == ASSUME Sound, InOrder(p, todo), NextProperty PROVE ListStep
<1>1. todo # <<>> /\ Top.at = "NextProperty" /\ Quiet(p, p) /\ "at" \in DOMAIN Top
  BY TopPopped DEF NextProperty, at
<1>2. /\ Longer(p, "propBuf") /\ Top.at \in ListTops /\ "propBuf" \in Buffers \ {"stmtBuf"}
      /\ Top.at \in MarkFrames["propBuf"] \ ParamKinds /\ Top.at \in MarkKinds
  BY <1>1, LongerSelf DEF Buffers, ListTops, ListParts, MarkKinds, MarkFrames, ParamKinds, ListKinds
<1>3. Top.mark \in 0 .. Len(p["propBuf"]) /\ "mark" \in DOMAIN Top
  BY <1>1, <1>2, TopMark
<1> DEFINE star == Kind(p) = "*"
           q == IF star THEN NextToken(p) ELSE p
           e == [Top EXCEPT !.at = "PropertyMade"]
           d == [at |-> "Property", generator |-> star]
           c == Expect(Cut(p, "propBuf", Top.mark), "}")
<1>4. \/ Ends(c) \/ Leads(NextToken(p), <<F("Assignment"), F("SpreadMade"), e>>)
      \/ Leads(q, <<F("PropertyKey"), d, e>>)
  BY Ways, ZenonT(60) DEF NextProperty
<1>5. /\ "at" \in DOMAIN e /\ "mark" \in DOMAIN e /\ e.at = "PropertyMade" /\ e.mark = Top.mark
      /\ e.at \in MarkFrames["propBuf"] \ ParamKinds
      /\ "at" \in DOMAIN d /\ d.at = "Property"
  BY <1>1, <1>3 DEF MarkFrames, ParamKinds
<1> HIDE DEF e, d
<1>6. Longer(q, "propBuf") /\ Longer(NextToken(p), "propBuf")
  BY <1>2, LongerAfter
<1> HIDE DEF q
<1>7. Sized(c, "propBuf", Top.mark)
  BY <1>2, <1>3, LongerAfter, SizedClosing
<1> HIDE DEF c
<1>8. ASSUME Leads(NextToken(p), <<F("Assignment"), F("SpreadMade"), e>>) PROVE ListEnd
  <2>1. LastOf(<<F("Assignment"), F("SpreadMade"), e>>, e)
    BY DEF LastOf, Row, F, ExprKinds
  <2> QED BY <1>1, <1>2, <1>5, <1>6, <1>8, <2>1, GoesOn
<1>9. ASSUME Leads(q, <<F("PropertyKey"), d, e>>) PROVE ListEnd
  <2>1. LastOf(<<F("PropertyKey"), d, e>>, e)
    BY <1>5 DEF LastOf, Row, F, ExprKinds
  <2> QED BY <1>1, <1>2, <1>5, <1>6, <1>9, <2>1, GoesOn
<1>10. ASSUME Ends(c) PROVE ListEnd
  BY <1>1, <1>2, <1>7, <1>10, ListCloses
<1>11. Progresses
  BY <1>1 DEF Progresses, Fresh
<1> QED BY <1>2, <1>4, <1>8, <1>9, <1>10, <1>11 DEF ListStep

LEMMA ListClassEnd == ASSUME Sound, InOrder(p, todo), ClassEnd PROVE ListStep
<1>1. todo # <<>> /\ Top.at \in {"ClassEnd", "NextMember"} /\ Quiet(p, p)
  BY TopPopped DEF ClassEnd, at
<1>2. /\ Longer(p, "elemBuf") /\ Top.at \in ListTops /\ "elemBuf" \in Buffers \ {"stmtBuf"}
      /\ Top.at \in MarkFrames["elemBuf"]
  BY <1>1, LongerSelf DEF Buffers, ListTops, ListParts, MarkKinds, MarkFrames, ParamKinds, ListKinds
<1>3. Top.mark \in 0 .. Len(p["elemBuf"])
  BY <1>1, <1>2, TopMark
<1> DEFINE c == Expect(Cut(p, "elemBuf", Top.mark), "}")
<1>4. Ends(c)
  BY Ways, ZenonT(60) DEF ClassEnd
<1>5. Sized(c, "elemBuf", Top.mark)
  BY <1>2, <1>3, LongerAfter, SizedClosing
<1> HIDE DEF c
<1>6. ListEnd
  BY <1>1, <1>2, <1>4, <1>5, ListCloses
<1>7. Progresses
  BY <1>1 DEF Progresses, Fresh
<1> QED BY <1>2, <1>6, <1>7 DEF ListStep

-----------------------------------------------------------------------------
(* The members of a class *)

LEMMA DidNone ==
    ASSUME Sound, todo # <<>>, NEW q, do(q, <<>>)
    PROVE  /\ p' = q /\ todo' = Tail(todo) /\ Shape(Tail(todo))
           /\ Grown(todo', Tail(todo)) /\ Added(todo', Tail(todo)) = {}
<1>1. IsList(Tail(todo)) /\ Shape(Tail(todo))
  BY TopPopped
<1>2. p' = q /\ todo' = <<>> \o Tail(todo)
  BY DEF do
<1>3. PICK t : t = Tail(todo)
  OBVIOUS
<1>4. todo' = t
  BY <1>1, <1>2, <1>3, PushNone, Zenon
<1>5. Grown(t, t) /\ Added(t, t) = {}
  BY <1>1, <1>3, GrownSelf
<1> QED BY <1>1, <1>2, <1>3, <1>4, <1>5, Zenon

\* A member lies on the frame of its class.
LEMMA MemberBelow ==
    ASSUME Sound, todo # <<>>, Top.at \in MemberKinds
    PROVE  /\ Tail(todo) # <<>> /\ Tail(todo)[1].at = "NextMember"
           /\ Frames("elemBuf", Tail(todo)) # {} /\ Top.at \notin MarkKinds
           /\ Top.at \in ListTops /\ Top.at \notin Fresh
<1>1. Local(Top, Tail(todo)) /\ IsList(Tail(todo))
  BY TopPopped
<1>2. PICK t : t = Tail(todo)
  OBVIOUS
<1>3. t # <<>> /\ t[1].at = "NextMember" /\ IsList(t)
  BY <1>1, <1>2 DEF Local
<1>4. Len(t) \in Nat \ {0}
  BY <1>3, Popped
<1>5. 1 \in Frames("elemBuf", t)
  BY <1>3, <1>4 DEF Frames, MarkFrames
<1> QED BY <1>2, <1>3, <1>5 DEF MemberKinds, MarkKinds, ListTops, ListParts, Fresh

\* A member is kept in the buffer.
LEMMA MemberKept ==
    ASSUME Sound, todo # <<>>, Top.at \in MemberKinds, NEW v, do(Push(p, "elemBuf", v), <<>>)
    PROVE  ListStep
<1> DEFINE q == Push(p, "elemBuf", v)
<1>1. p' = q /\ todo' = Tail(todo) /\ Shape(Tail(todo)) /\ Grown(todo', Tail(todo))
      /\ Added(todo', Tail(todo)) = {}
  BY DidNone
<1>2. "elemBuf" \in Buffers /\ "stmtBuf" \in Buffers \ {"elemBuf"} /\ Quiet(p, p)
  BY QuietSelf DEF Buffers, Sound
<1>3. Longer(q, "elemBuf")
  BY <1>2, LongerSelf, LongerAfter
<1> HIDE DEF q
<1>4. MarksStep
  BY <1>1, <1>2, <1>3, MemberBelow DEF MarksStep, Longer, Sized, Unframed
<1>5. ListEnd
  <2>1. Shape(todo')
    BY <1>1, Zenon
  <2> QED BY <1>1, <1>2, <1>3, <1>4, <2>1 DEF ListEnd, Longer, Sized
<1> QED BY <1>5, MemberBelow DEF ListStep, Progresses

LEMMA ListStaticBlockMade == ASSUME Sound, StaticBlockMade PROVE ListStep
<1>1. todo # <<>> /\ Top.at \in MemberKinds
  BY DEF StaticBlockMade, at, MemberKinds
<1> QED BY <1>1, MemberKept DEF StaticBlockMade

LEMMA ListMemberMade == ASSUME Sound, MemberMade PROVE ListStep
<1>1. todo # <<>> /\ Top.at \in MemberKinds
  BY DEF MemberMade, at, MemberKinds
<1> QED BY <1>1, MemberKept DEF MemberMade

\* A part of a member, on the frame of its class.
LEMMA MemberGoesOn ==
    ASSUME Sound, todo # <<>>, Top.at \in MemberKinds, NEW q, Quiet(p, q),
           NEW es, Leads(q, es), NEW e, Row(es),
           "at" \in DOMAIN e, e.at \in MemberKinds,
           \A i \in DOMAIN es : es[i] = e \/ ("at" \in DOMAIN es[i] /\ es[i].at \in ExprKinds),
           \A i \in DOMAIN es : es[i] = e => i + 1 \notin DOMAIN es
    PROVE  ListStep
<1>1. PICK k, t, u : k = Len(todo') - Len(Tail(todo)) /\ t = Tail(todo) /\ u = todo'
  OBVIOUS
<1>2. /\ k = Len(es) /\ DOMAIN es = 1 .. k /\ k \in {1, 2, 3}
      /\ \A i \in DOMAIN es : u[i] = es[i]
  <2>1. DOMAIN es = 1 .. Len(es) /\ Len(es) \in {1, 2, 3}
    BY RowIsList
  <2>2. Len(todo') - Len(Tail(todo)) = Len(es) /\ \A i \in DOMAIN es : todo'[i] = es[i]
    BY LedAt
  <2>3. k = Len(es)
    BY <1>1, <2>2, Zenon
  <2>4. \A i \in DOMAIN es : u[i] = es[i]
    BY <1>1, <2>2, Zenon
  <2> QED BY <2>1, <2>3, <2>4
<1>3. p' = q /\ Grown(u, t) /\ Shape(t)
      /\ \A d \in Added(u, t) : \E i \in DOMAIN es : d = es[i]
  <2>1. p' = q /\ Grown(todo', Tail(todo)) /\ Shape(Tail(todo))
        /\ \A d \in Added(todo', Tail(todo)) : \E i \in DOMAIN es : d = es[i]
    BY Led, TopPopped
  <2> QED BY <1>1, <2>1, Zenon
<1>4. t # <<>> /\ t[1].at = "NextMember"
  BY <1>1, MemberBelow
<1>5. k = Len(u) - Len(t) /\ After(u, k) = t
  BY <1>1, <1>3 DEF Grown
<1>6. ASSUME NEW i \in 1 .. k PROVE Local(u[i], After(u, i))
  <2>1. CASE es[i] = e
    <3>1. i = k
      BY <1>2, <2>1
    <3>2. e.at \notin StateKinds \cup MarkKinds \cup ListKinds \cup ParamKinds \cup CaseKinds
      BY DEF MemberKinds, StateKinds, MarkKinds, ListKinds, ParamKinds, CaseKinds
    <3> QED BY <1>2, <1>4, <1>5, <2>1, <3>1, <3>2 DEF Local
  <2>2. CASE es[i] # e
    BY <1>2, <2>2, ExprFits
  <2> QED BY <2>1, <2>2
<1>7. Shape(u)
  BY <1>3, <1>5, <1>6, ShapeOver
<1>8. \A d \in Added(u, t) : "at" \in DOMAIN d /\ d.at \in ExprKinds \cup MemberKinds
  BY <1>3
<1>9. /\ Shape(todo') /\ Grown(todo', Tail(todo))
      /\ \A d \in Added(todo', Tail(todo)) : "at" \in DOMAIN d /\ d.at \in ExprKinds \cup MemberKinds
  BY <1>1, <1>3, <1>7, <1>8, Zenon
<1>10. MarksStep
  <2>1. \A d \in Added(todo', Tail(todo)) : d.at \notin MarkKinds
    BY <1>9 DEF ExprKinds, MemberKinds, MarkKinds
  <2> QED BY <1>3, <1>9, <2>1, MemberBelow DEF MarksStep, Unframed, Quiet
<1>11. ListEnd
  BY <1>3, <1>9, <1>10 DEF ListEnd, Quiet, SameLengths, Buffers, ListParts
<1> QED BY <1>11, MemberBelow DEF ListStep, Progresses

LEMMA ListMember == ASSUME Sound, Member PROVE ListStep
<1>1. todo # <<>> /\ Top.at \in MemberKinds /\ Quiet(p, p)
  BY TopPopped DEF Member, at, MemberKinds
<1>2. \E q, a, field :
         /\ Quiet(p, q) /\ "at" \in DOMAIN a /\ a.at = "Method"
         /\ "at" \in DOMAIN field /\ field.at = "Field"
         /\ \/ do(p, <<>>)
            \/ Leads(q, <<a, F("MemberMade")>>)
            \/ Leads(NextToken(q), <<F("Expression"), field>>)
            \/ Leads(q, <<field>>)
  <2> DEFINE key     == result
             private == key.token = "PrivateIdentifier"
             kind    == IF Top.kind = "none" /\ Kind(p) = "(" THEN "method" ELSE Top.kind
             named(w) == key.word = w /\ key.token # "Illegal"
             badCtor == IF Top.static THEN private
                        ELSE kind # "method" \/ Top.async \/ Top.generator
             wrong == \/ Top.static /\ ~private /\ key.word = "prototype"
                      \/ named("constructor")
                         /\ IF kind = "none" THEN TRUE ELSE badCtor
             q == ErrorIf(p, wrong)
             field == [at |-> "Field", key |-> key.value, static |-> Top.static]
             a == method(key.value, kind, Top.async, Top.generator, Top.static)
  <2>1. \/ do(p, <<>>)
        \/ Leads(q, <<a, F("MemberMade")>>)
        \/ Leads(NextToken(q), <<F("Expression"), field>>)
        \/ Leads(q, <<field>>)
    BY Ways, ZenonT(60) DEF Member
  <2>2. "at" \in DOMAIN a /\ a.at = "Method" /\ "at" \in DOMAIN field /\ field.at = "Field"
    BY DEF method
  <2> HIDE DEF wrong, field, a
  <2>3. Quiet(p, q)
    BY <1>1, QuietErrorIf
  <2> HIDE DEF q
  <2> QED BY <2>1, <2>2, <2>3, Zenon
<1>3. PICK q, a, field :
         /\ Quiet(p, q) /\ "at" \in DOMAIN a /\ a.at = "Method"
         /\ "at" \in DOMAIN field /\ field.at = "Field"
         /\ \/ do(p, <<>>)
            \/ Leads(q, <<a, F("MemberMade")>>)
            \/ Leads(NextToken(q), <<F("Expression"), field>>)
            \/ Leads(q, <<field>>)
  BY <1>2, Zenon
<1> DEFINE m == F("MemberMade")
           x == F("Expression")
<1>4. /\ "at" \in DOMAIN m /\ m.at \in MemberKinds /\ "at" \in DOMAIN field /\ field.at \in MemberKinds
      /\ "at" \in DOMAIN a /\ a.at \in ExprKinds /\ "at" \in DOMAIN x /\ x.at \in ExprKinds
      /\ a # m /\ x # field
  BY <1>3 DEF F, MemberKinds, ExprKinds
<1> HIDE DEF m, x
<1>5. ASSUME Leads(q, <<a, m>>) PROVE ListStep
  <2> DEFINE es == <<a, m>>
  <2>1. Row(es) /\ \A i \in DOMAIN es : (es[i] = m \/ ("at" \in DOMAIN es[i] /\ es[i].at \in ExprKinds))
        /\ (es[i] = m => i + 1 \notin DOMAIN es)
    BY <1>4 DEF Row
  <2>2. Leads(q, es)
    BY <1>5
  <2> HIDE DEF es
  <2> QED BY <1>1, <1>3, <1>4, <2>1, <2>2, MemberGoesOn
<1>6. ASSUME Leads(NextToken(q), <<x, field>>) PROVE ListStep
  <2> DEFINE es == <<x, field>>
  <2>1. Row(es) /\ \A i \in DOMAIN es : (es[i] = field \/ ("at" \in DOMAIN es[i] /\ es[i].at \in ExprKinds))
        /\ (es[i] = field => i + 1 \notin DOMAIN es)
    BY <1>4 DEF Row
  <2>2. Leads(NextToken(q), es) /\ Quiet(p, NextToken(q))
    BY <1>3, <1>6, QuietNextToken
  <2> HIDE DEF es
  <2> QED BY <1>1, <1>3, <1>4, <2>1, <2>2, MemberGoesOn
<1>7. ASSUME Leads(q, <<field>>) PROVE ListStep
  <2> DEFINE es == <<field>>
  <2>1. Row(es) /\ \A i \in DOMAIN es : (es[i] = field \/ ("at" \in DOMAIN es[i] /\ es[i].at \in ExprKinds))
        /\ (es[i] = field => i + 1 \notin DOMAIN es)
    BY <1>4 DEF Row
  <2>2. Leads(q, es)
    BY <1>7
  <2> HIDE DEF es
  <2> QED BY <1>1, <1>3, <1>4, <2>1, <2>2, MemberGoesOn
<1>8. ASSUME do(p, <<>>) PROVE ListStep
  <2>1. p' = p /\ todo' = Tail(todo) /\ Shape(Tail(todo)) /\ Grown(todo', Tail(todo))
        /\ Added(todo', Tail(todo)) = {}
    BY <1>1, <1>8, DidNone
  <2>2. Shape(todo')
    BY <2>1, Zenon
  <2>3. MarksStep
    BY <1>1, <2>1, MemberBelow DEF MarksStep, Unframed, Quiet
  <2>4. ListEnd
    BY <1>1, <2>1, <2>2, <2>3 DEF ListEnd, Quiet
  <2> QED BY <1>1, <2>4, MemberBelow DEF ListStep, Progresses
<1> QED BY <1>3, <1>5, <1>6, <1>7, <1>8 DEF m, x

-----------------------------------------------------------------------------
(* Calm steps: neither statements nor flags change *)

CalmTops == ExprKinds \cup PlainStmts \cup ListParts

Calm(e, top) ==
    /\ "at" \in DOMAIN e
    /\ \/ e.at \in ExprKinds \cup ListParts
       \/ e.at \in PlainStmts \cup {"CaseBody"} /\ top \in StmtKinds
       \/ e.at = "PutBack" /\ DOMAIN e.flags \cap Tracked = {}

CalmStep ==
    /\ todo # <<>> /\ Top.at \in CalmTops
    /\ Reads(p, p') /\ Len(p'["stmtBuf"]) = Len(p["stmtBuf"])
    /\ Grown(todo', Tail(todo)) /\ \A e \in Added(todo', Tail(todo)) : Calm(e, Top.at)
    /\ Progresses /\ MarksStep /\ Shape(todo')

LEMMA ListCalm ==
    ASSUME ListStep
    PROVE  CalmStep
BY DEF ListStep, ListEnd, CalmStep, Calm, CalmTops, ListTops, ExprKinds

LEMMA PlainCalm ==
    ASSUME Sound, PlainStep
    PROVE  CalmStep
<1>1. /\ todo # <<>> /\ Top.at \in ExprKinds \cup PlainStmts /\ Quiet(p, p')
      /\ Grown(todo', Tail(todo)) /\ Progresses
      /\ \A e \in Added(todo', Tail(todo)) : Neutral(e, PlainOf(Top.at))
  BY DEF PlainStep, Adds
<1>2. \A e \in Added(todo', Tail(todo)) :
         /\ Calm(e, Top.at) /\ "at" \in DOMAIN e
         /\ e.at \in ExprKinds \cup PlainStmts \cup {"PutBack"}
  BY <1>1 DEF Neutral, PlainOf, Calm
<1>3. \A e \in Added(todo', Tail(todo)) :
         Fits(e) /\ e.at \notin MemberKinds \cup CaseKinds \cup MarkKinds
  BY <1>2, ExprFits
<1>4. Shape(todo')
  BY <1>1, <1>3, TopPopped, ShapeFree
<1>5. Top.at \notin MarkKinds
  BY <1>1 DEF ExprKinds, PlainStmts, MarkKinds
<1>6. MarksStep
  BY <1>1, <1>3, <1>5 DEF MarksStep, Unframed, Quiet
<1> QED BY <1>1, <1>2, <1>4, <1>6 DEF CalmStep, CalmTops, Quiet, SameLengths, Buffers

\* Entries each of which lies on what it needs.
LEMMA LedSits ==
    ASSUME Sound, todo # <<>>, NEW q, NEW es, Leads(q, es), Row(es),
           \A i \in DOMAIN es : Fits(es[i]),
           \A i \in DOMAIN es :
              IF i + 1 \in DOMAIN es
              THEN /\ es[i].at \in MemberKinds => es[i + 1].at = "NextMember"
                   /\ es[i].at \in CaseKinds => es[i + 1].at = "NextCase"
              ELSE es[i].at \notin MemberKinds \cup CaseKinds
    PROVE  LET k == Len(todo') - Len(Tail(todo)) IN
           /\ p' = q /\ Grown(todo', Tail(todo)) /\ Shape(todo')
           /\ k = Len(es) /\ DOMAIN es = 1 .. k
           /\ \A i \in DOMAIN es : todo'[i] = es[i]
           /\ \A e \in Added(todo', Tail(todo)) : \E i \in DOMAIN es : e = es[i]
<1>1. PICK k, t, u : k = Len(todo') - Len(Tail(todo)) /\ t = Tail(todo) /\ u = todo'
  OBVIOUS
<1>2. /\ k = Len(es) /\ DOMAIN es = 1 .. k /\ k \in {1, 2, 3}
      /\ \A i \in DOMAIN es : u[i] = es[i]
  <2>1. DOMAIN es = 1 .. Len(es) /\ Len(es) \in {1, 2, 3}
    BY RowIsList
  <2>2. Len(todo') - Len(Tail(todo)) = Len(es) /\ \A i \in DOMAIN es : todo'[i] = es[i]
    BY LedAt
  <2>3. k = Len(es)
    BY <1>1, <2>2, Zenon
  <2>4. \A i \in DOMAIN es : u[i] = es[i]
    BY <1>1, <2>2, Zenon
  <2> QED BY <2>1, <2>3, <2>4
<1>3. p' = q /\ Grown(u, t) /\ Shape(t)
      /\ \A d \in Added(u, t) : \E i \in DOMAIN es : d = es[i]
  <2>1. p' = q /\ Grown(todo', Tail(todo)) /\ Shape(Tail(todo))
        /\ \A d \in Added(todo', Tail(todo)) : \E i \in DOMAIN es : d = es[i]
    BY Led, TopPopped
  <2> QED BY <1>1, <2>1, Zenon
<1>4. k = Len(u) - Len(t) /\ IsList(u) /\ Len(u) \in Nat /\ Len(t) \in Nat
  BY <1>1, <1>3, GrownParts DEF Grown
<1>5. ASSUME NEW i \in 1 .. k PROVE Local(u[i], After(u, i))
  <2>1. i \in DOMAIN es /\ u[i] = es[i] /\ Fits(es[i])
    BY <1>2
  <2>2. CASE i + 1 \in DOMAIN es
    <3>1. i + 1 \in 1 .. k
      BY <1>2, <2>2
    <3>2. i \in 1 .. Len(u) /\ i # Len(u)
      BY <1>4, <3>1
    <3>3. After(u, i) # <<>> /\ After(u, i)[1] = es[i + 1]
      BY <1>2, <1>4, <2>2, <3>2, AfterHead
    <3>4. Sits(es[i], After(u, i))
      BY <2>1, <2>2, <3>3 DEF Sits
    <3> QED BY <2>1, <3>4, LocalParts
  <2>3. CASE i + 1 \notin DOMAIN es
    <3>1. Sits(es[i], After(u, i))
      BY <2>1, <2>3 DEF Sits
    <3> QED BY <2>1, <3>1, LocalParts
  <2> QED BY <2>2, <2>3
<1>6. Shape(u)
  BY <1>3, <1>4, <1>5, ShapeOver
<1>7. k = Len(todo') - Len(Tail(todo)) /\ Grown(todo', Tail(todo)) /\ Shape(todo')
      /\ (\A i \in DOMAIN es : todo'[i] = es[i])
      /\ \A d \in Added(todo', Tail(todo)) : \E i \in DOMAIN es : d = es[i]
  BY <1>1, <1>2, <1>3, <1>6, Zenon
<1> QED BY <1>2, <1>3, <1>7

LEMMA CalmNextCase == ASSUME Sound, NextCase PROVE CalmStep
<1>1. /\ todo # <<>> /\ Top.at = "NextCase" /\ Quiet(p, p) /\ "at" \in DOMAIN Top
      /\ IsList(Tail(todo)) /\ Shape(Tail(todo))
  BY TopPopped DEF NextCase, at
<1>2. Top.at \in CalmTops /\ Top.at \in StmtKinds /\ Top.at \notin MarkKinds /\ Fits(Top)
      /\ Top.at \in PlainStmts
  BY <1>1, ExprFits DEF CalmTops, StmtKinds, PlainStmts, MarkKinds
<1> DEFINE q == IF Kind(p) = "}" THEN NextToken(p) ELSE p
           b == F("CaseBody")
           x == F("Expression")
<1>3. Ends(q) \/ Leads(NextToken(p), <<b, Top>>) \/ Leads(Expect(p, "case"), <<x, b, Top>>)
  BY Ways, ZenonT(30) DEF NextCase
<1>4. Quiet(p, q) /\ Quiet(p, NextToken(p)) /\ Quiet(p, Expect(p, "case"))
  BY <1>1, QuietNextToken, QuietExpect
<1>5. /\ "at" \in DOMAIN b /\ b.at = "CaseBody" /\ Fits(b)
      /\ "at" \in DOMAIN x /\ x.at = "Expression" /\ Fits(x)
      /\ Calm(b, Top.at) /\ Calm(x, Top.at) /\ Calm(Top, Top.at)
      /\ {"CaseBody", "Expression", "NextCase"} \cap (MarkKinds \cup MemberKinds) = {}
      /\ {"Expression", "NextCase"} \cap CaseKinds = {} /\ b.at \notin MarkKinds
  BY <1>1, <1>2 DEF F, Fits, Calm, ExprKinds, StateKinds, MarkKinds, ListKinds, ParamKinds, MemberKinds, CaseKinds
<1> HIDE DEF q, b, x
<1>6. ASSUME NEW r, Quiet(p, r), NEW es, Leads(r, es), Row(es),
             \A i \in DOMAIN es : es[i] = b \/ es[i] = x \/ es[i] = Top,
             \A i \in DOMAIN es : IF i + 1 \in DOMAIN es THEN es[i] = b => es[i + 1] = Top
                                  ELSE es[i] # b
      PROVE  CalmStep
  <2>1. /\ p' = r /\ Grown(todo', Tail(todo)) /\ Shape(todo')
        /\ \A e \in Added(todo', Tail(todo)) : \E i \in DOMAIN es : e = es[i]
    BY <1>1, <1>2, <1>5, <1>6, LedSits
  <2>2. \A e \in Added(todo', Tail(todo)) : Calm(e, Top.at) /\ e.at \notin MarkKinds
    BY <1>2, <1>5, <1>6, <2>1
  <2>3. MarksStep
    BY <1>1, <1>2, <1>6, <2>1, <2>2 DEF MarksStep, Unframed, Quiet
  <2>4. Progresses
    BY <1>1 DEF Progresses, Fresh
  <2> QED BY <1>1, <1>2, <1>6, <2>1, <2>2, <2>3, <2>4 DEF CalmStep, Quiet, SameLengths, Buffers
<1>7. b # x /\ b # Top
  BY <1>1, <1>5
<1>8. ASSUME Leads(NextToken(p), <<b, Top>>) PROVE CalmStep
  <2> DEFINE es == <<b, Top>>
  <2>1. /\ Row(es) /\ \A i \in DOMAIN es : es[i] = b \/ es[i] = x \/ es[i] = Top
        /\ \A i \in DOMAIN es : IF i + 1 \in DOMAIN es THEN es[i] = b => es[i + 1] = Top
                                ELSE es[i] # b
    BY <1>7 DEF Row
  <2>2. Leads(NextToken(p), es)
    BY <1>8
  <2> HIDE DEF es
  <2> QED BY <1>4, <1>6, <2>1, <2>2
<1>9. ASSUME Leads(Expect(p, "case"), <<x, b, Top>>) PROVE CalmStep
  <2> DEFINE es == <<x, b, Top>>
  <2>1. /\ Row(es) /\ \A i \in DOMAIN es : es[i] = b \/ es[i] = x \/ es[i] = Top
        /\ \A i \in DOMAIN es : IF i + 1 \in DOMAIN es THEN es[i] = b => es[i + 1] = Top
                                ELSE es[i] # b
    BY <1>7 DEF Row
  <2>2. Leads(Expect(p, "case"), es)
    BY <1>9
  <2> HIDE DEF es
  <2> QED BY <1>4, <1>6, <2>1, <2>2
<1>10. ASSUME Ends(q) PROVE CalmStep
  <2>1. p' = q /\ Grown(todo', Tail(todo)) /\ Added(todo', Tail(todo)) = {}
    BY <1>1, <1>10, Ended
  <2>2. PlainStep
    BY <1>1, <1>2, <1>4, <2>1 DEF PlainStep, Adds, Progresses, Fresh
  <2> QED BY <2>2, PlainCalm
<1> QED BY <1>3, <1>8, <1>9, <1>10

LEMMA ListNextMember == ASSUME Sound, InOrder(p, todo), NextMember PROVE ListStep
<1>1. todo # <<>> /\ Top.at = "NextMember" /\ Quiet(p, p) /\ "at" \in DOMAIN Top
  BY TopPopped DEF NextMember, at
<1>2. /\ Top.at \in ListTops /\ "elemBuf" \in Buffers
      /\ Top.at \in MarkFrames["elemBuf"] /\ Top.at \in ListParts
  BY <1>1 DEF Buffers, ListTops, ListParts, MarkKinds, MarkFrames, ParamKinds, ListKinds
<1>3. Top.mark \in 0 .. Len(p["elemBuf"]) /\ "mark" \in DOMAIN Top /\ Len(p["elemBuf"]) \in Nat
  BY <1>1, <1>2, TopMark
<1>4. Fits(Top) /\ Top.at \notin MemberKinds \cup CaseKinds
  BY <1>1, <1>3 DEF Fits, StateKinds, MarkKinds, ListKinds, ParamKinds, MemberKinds, CaseKinds
<1>5. ASSUME NEW q, Quiet(p, q), NEW es, Leads(q, es), Row(es),
             \A i \in DOMAIN es :
                IF i + 1 \in DOMAIN es
                THEN /\ Fits(es[i]) /\ es[i].at \in ExprKinds \cup MemberKinds
                     /\ es[i].at \in MemberKinds => es[i + 1] = Top
                ELSE es[i] = Top
      PROVE  ListStep
  <2>1. \A i \in DOMAIN es : Fits(es[i])
    BY <1>4, <1>5
  <2>2. (ExprKinds \cup MemberKinds) \cap CaseKinds = {}
        /\ (ExprKinds \cup MemberKinds) \cap MarkKinds = {}
    BY DEF ExprKinds, MemberKinds, CaseKinds, MarkKinds
  <2>3. PICK k : k = Len(todo') - Len(Tail(todo))
    OBVIOUS
  <2>4. /\ p' = q /\ Grown(todo', Tail(todo)) /\ Shape(todo')
        /\ k = Len(es) /\ DOMAIN es = 1 .. k
        /\ \A i \in DOMAIN es : todo'[i] = es[i]
        /\ \A e \in Added(todo', Tail(todo)) : \E i \in DOMAIN es : e = es[i]
    BY <1>1, <1>4, <1>5, <2>1, <2>2, <2>3, LedSits
  <2>5. k \in {1, 2, 3}
    BY <1>5, <2>4, RowIsList
  <2>6. todo'[k] = Top /\ \A i \in 1 .. k - 1 : todo'[i].at \notin MarkKinds
    BY <1>5, <2>2, <2>4, <2>5
  <2>7. Framed("elemBuf", Top.mark)
    BY <1>2, <2>3, <2>4, <2>5, <2>6 DEF Framed
  <2>8. MarksStep
    BY <1>1, <1>2, <1>3, <1>5, <2>4, <2>7 DEF MarksStep, Quiet, SameLengths
  <2>9. \A e \in Added(todo', Tail(todo)) : "at" \in DOMAIN e /\ e.at \in ExprKinds \cup ListParts
    BY <1>1, <1>2, <1>5, <2>4 DEF Fits, ListParts
  <2>10. Progresses
    BY <1>1 DEF Progresses, Fresh
  <2> QED BY <1>1, <1>2, <1>5, <2>4, <2>8, <2>9, <2>10
          DEF ListStep, ListEnd, Quiet, SameLengths, Buffers
<1>6. \E q, r, a, m :
         /\ Quiet(p, q) /\ Quiet(p, r)
         /\ "at" \in DOMAIN a /\ a.at = "FunctionBlock" /\ "at" \in DOMAIN m /\ m.at = "Member"
         /\ \/ Leads(NextToken(p), <<Top>>)
            \/ Leads(q, <<a, F("StaticBlockMade"), Top>>)
            \/ Leads(r, <<F("PropertyKey"), m, Top>>)
  <2> DEFINE static == Kind(p) = "static" /\ PeekKind(p) \notin {"=", ";", "}", "("}
             q == IF static THEN NextToken(p) ELSE p
             modifies == PeekKind(q) \notin {";", "("}
             accessor == q.token.word \in {"get", "set"} /\ modifies
             async    == Kind(q) = "async" /\ modifies
             r == IF accessor \/ async THEN NextToken(q) ELSE q
             star == Kind(r) = "*" /\ ~accessor
             kind == CASE accessor      -> q.token.word
                       [] async \/ star -> "method"
                       [] OTHER         -> "none"
             s == IF star THEN NextToken(r) ELSE r
             a == [at |-> "FunctionBlock", async |-> FALSE, allowAwait |-> TRUE, allowYield |-> FALSE]
             m == [at |-> "Member", static |-> static, kind |-> kind, async |-> async,
                   generator |-> star]
  <2>1. \/ Leads(NextToken(p), <<Top>>)
        \/ Leads(q, <<a, F("StaticBlockMade"), Top>>)
        \/ Leads(s, <<F("PropertyKey"), m, Top>>)
    BY Ways, ZenonT(60) DEF NextMember
  <2>2. "at" \in DOMAIN a /\ a.at = "FunctionBlock" /\ "at" \in DOMAIN m /\ m.at = "Member"
    OBVIOUS
  <2> HIDE DEF static, a, m
  <2>3. Quiet(p, q)
    BY <1>1, QuietNextToken
  <2> HIDE DEF q
  <2>4. Quiet(p, r)
    <3> HIDE DEF accessor, async
    <3> QED BY <2>3, QuietNextToken
  <2> HIDE DEF r
  <2>5. Quiet(p, s)
    <3> HIDE DEF star
    <3> QED BY <2>4, QuietNextToken
  <2> HIDE DEF s
  <2> QED BY <2>1, <2>2, <2>3, <2>5, Zenon
<1>7. PICK q, r, a, m :
         /\ Quiet(p, q) /\ Quiet(p, r)
         /\ "at" \in DOMAIN a /\ a.at = "FunctionBlock" /\ "at" \in DOMAIN m /\ m.at = "Member"
         /\ \/ Leads(NextToken(p), <<Top>>)
            \/ Leads(q, <<a, F("StaticBlockMade"), Top>>)
            \/ Leads(r, <<F("PropertyKey"), m, Top>>)
  BY <1>6, Zenon
<1> DEFINE b == F("StaticBlockMade")
           x == F("PropertyKey")
<1>8. /\ Fits(a) /\ a.at \in ExprKinds /\ Fits(x) /\ x.at \in ExprKinds
      /\ Fits(b) /\ b.at \in MemberKinds /\ Fits(m) /\ m.at \in MemberKinds
      /\ ExprKinds \cap MemberKinds = {}
  BY <1>7 DEF F, Fits, ExprKinds, StateKinds, MarkKinds, ListKinds, ParamKinds, MemberKinds
<1> HIDE DEF b, x
<1>9. ASSUME Leads(NextToken(p), <<Top>>) PROVE ListStep
  <2> DEFINE es == <<Top>>
  <2>1. Row(es) /\ \A i \in DOMAIN es : i + 1 \notin DOMAIN es /\ es[i] = Top
    BY DEF Row
  <2>2. Leads(NextToken(p), es) /\ Quiet(p, NextToken(p))
    BY <1>1, <1>9, QuietNextToken
  <2> HIDE DEF es
  <2> QED BY <1>5, <2>1, <2>2
<1>10. ASSUME NEW s, Quiet(p, s), NEW c, NEW d, Leads(s, <<c, d, Top>>),
              Fits(c), c.at \in ExprKinds, Fits(d), d.at \in MemberKinds
       PROVE  ListStep
  <2> DEFINE es == <<c, d, Top>>
  <2>1. Row(es) /\ DOMAIN es = 1 .. 3 /\ es[1] = c /\ es[2] = d /\ es[3] = Top
    BY DEF Row
  <2>2. Leads(s, es)
    BY <1>10
  <2> HIDE DEF es
  <2>3. \A i \in DOMAIN es :
                IF i + 1 \in DOMAIN es
                THEN /\ Fits(es[i]) /\ es[i].at \in ExprKinds \cup MemberKinds
                     /\ es[i].at \in MemberKinds => es[i + 1] = Top
                ELSE es[i] = Top
    BY <1>8, <1>10, <2>1
  <2> QED BY <1>5, <1>10, <2>1, <2>2, <2>3
<1>11. ASSUME Leads(q, <<a, b, Top>>) PROVE ListStep
  BY <1>7, <1>8, <1>10, <1>11
<1>12. ASSUME Leads(r, <<x, m, Top>>) PROVE ListStep
  BY <1>7, <1>8, <1>10, <1>12
<1> QED BY <1>7, <1>9, <1>11, <1>12 DEF b, x

-----------------------------------------------------------------------------
(* Steps that change the entry below the top *)

LEMMA Replaced1 ==
    ASSUME NEW t, IsList(t), t # <<>>, NEW e, NEW u, u = [t EXCEPT ![1] = e]
    PROVE  u = Stack(<<e>>, Tail(t)) /\ IsList(Tail(t))
<1> DEFINE S == Range(t) \cup {e}
<1>1. t \in Seq(S) /\ Len(t) \in Nat \ {0} /\ <<e>> \in Seq(S)
  BY ListElim
<1>2. Tail(t) \in Seq(S) /\ Len(Tail(t)) = Len(t) - 1
      /\ \A i \in 1 .. Len(t) - 1 : Tail(t)[i] = t[i + 1]
  BY <1>1
<1>3. u \in Seq(S) /\ Len(u) = Len(t) /\ u[1] = e /\ \A i \in 2 .. Len(t) : u[i] = t[i]
  BY <1>1
<1> HIDE DEF S
<1>4. PICK v : v = <<e>> \o Tail(t)
  OBVIOUS
<1>5. v \in Seq(S) /\ Len(v) = Len(t) /\ v[1] = e /\ \A i \in 2 .. Len(t) : v[i] = Tail(t)[i - 1]
  BY <1>1, <1>2, <1>4
<1>6. ASSUME NEW i \in 1 .. Len(t) PROVE u[i] = v[i]
  <2>1. CASE i = 1
    BY <1>3, <1>5, <2>1
  <2>2. CASE i # 1
    <3>1. i \in 2 .. Len(t) /\ i - 1 \in 1 .. Len(t) - 1 /\ (i - 1) + 1 = i
      BY <1>1, <2>2
    <3>2. u[i] = t[i] /\ v[i] = Tail(t)[i - 1]
      BY <1>3, <1>5, <3>1
    <3>3. Tail(t)[i - 1] = t[(i - 1) + 1]
      BY <1>2, <3>1
    <3> QED BY <3>1, <3>2, <3>3
  <2> QED BY <2>1, <2>2
<1>7. u = v
  BY <1>3, <1>5, <1>6, SeqEqual
<1> QED BY <1>4, <1>7, Popped DEF Stack

PatchKinds == {"NextMember", "NextCase"}

PatchStep ==
    /\ todo # <<>> /\ Top.at \in {"Field", "CaseMade"} /\ Quiet(p, p')
    /\ Tail(todo) # <<>> /\ Head(Tail(todo)).at \in PatchKinds
    /\ Shape(todo') /\ Grown(todo', Tail(Tail(todo)))
    /\ Len(todo') - Len(Tail(Tail(todo))) = 1
    /\ LET d == Head(Tail(todo))
           e == todo'[1]
       IN  /\ Added(todo', Tail(Tail(todo))) = {e}
           /\ "at" \in DOMAIN e
           /\ \/ d.at = "NextMember" /\ e.at = "ClassEnd" /\ e.mark = d.mark
              \/ d.at = "NextCase" /\ e.at = "NextCase"

LEMMA PatchOver ==
    ASSUME Sound, todo # <<>>, Top.at \in {"Field", "CaseMade"}, Quiet(p, p'),
           NEW t, t = Tail(todo), t # <<>>, NEW d, d = Head(t), NEW e,
           todo' = [t EXCEPT ![1] = e], Fits(e), d.at \in PatchKinds,
           \/ d.at = "NextMember" /\ e.at = "ClassEnd" /\ e.mark = d.mark
           \/ d.at = "NextCase" /\ e.at = "NextCase"
    PROVE  PatchStep
<1>1. Shape(t) /\ IsList(t)
  <2>1. Shape(Tail(todo))
    BY TopPopped
  <2> QED BY <2>1 DEF Shape
<1>2. PICK u, s : u = todo' /\ s = Tail(t)
  OBVIOUS
<1>3. Shape(s)
  BY <1>1, <1>2, ShapePopped
<1>4. u = Stack(<<e>>, s) /\ IsList(s)
  BY <1>1, <1>2, Replaced1
<1> DEFINE es == <<e>>
<1>5. Row(es) /\ DOMAIN es = {1} /\ Len(es) = 1 /\ es[1] = e /\ u = Stack(es, s)
  BY <1>4 DEF Row
<1> HIDE DEF es
<1>6. /\ Grown(u, s) /\ u # <<>> /\ Len(u) - Len(s) = Len(es)
      /\ \A i \in DOMAIN es : u[i] = es[i]
      /\ \A x \in Added(u, s) : \E i \in DOMAIN es : x = es[i]
  <2>1. Grown(u, s) /\ u # <<>>
    BY <1>4, <1>5, GrownBy
  <2>2. Len(u) - Len(s) = Len(es)
    BY <1>4, <1>5, GrownBy
  <2>3. \A i \in DOMAIN es : u[i] = es[i]
    BY <1>4, <1>5, GrownBy
  <2>4. \A x \in Added(u, s) : \E i \in DOMAIN es : x = es[i]
    BY <1>4, <1>5, GrownBy
  <2> QED BY <2>1, <2>2, <2>3, <2>4
<1>7. Len(u) - Len(s) = 1 /\ u[1] = e /\ \A x \in Added(u, s) : x = e
  BY <1>5, <1>6
<1>8. e \in Added(u, s)
  BY <1>7 DEF Added
<1>9. Added(u, s) = {u[1]}
  BY <1>7, <1>8
<1>10. e.at \notin MemberKinds \cup CaseKinds
  BY DEF MemberKinds, CaseKinds
<1>11. Shape(u)
  BY <1>3, <1>6, <1>7, <1>10, ShapeFree
<1>12. /\ Shape(todo') /\ Grown(todo', Tail(Tail(todo))) /\ Len(todo') - Len(Tail(Tail(todo))) = 1
       /\ Added(todo', Tail(Tail(todo))) = {todo'[1]} /\ e = todo'[1]
       /\ Tail(todo) # <<>> /\ d = Head(Tail(todo))
  BY <1>2, <1>6, <1>7, <1>9, <1>11, Zenon
<1> QED BY <1>12 DEF PatchStep, Fits

LEMMA BelowIsHead ==
    ASSUME Sound, todo # <<>>, NEW t, t = Tail(todo), t # <<>>
    PROVE  /\ t[1] = Head(t) /\ IsList(t) /\ Fits(t[1])
           /\ t[1] = todo[2]
<1>1. Shape(t) /\ IsList(t)
  <2>1. Shape(Tail(todo))
    BY TopPopped
  <2> QED BY <2>1 DEF Shape
<1>2. Local(Head(t), Tail(t)) /\ t[1] = Head(t)
  BY <1>1, ShapePopped, Popped
<1>3. t[1] = todo[2]
  <2>1. todo \in Seq(Range(todo)) /\ Len(todo) \in Nat \ {0}
    BY ListElim DEF Sound, Shape
  <2>2. Len(t) # 0
    BY <1>1, ListElim
  <2>3. Len(t) = Len(todo) - 1 /\ \A i \in 1 .. Len(todo) - 1 : Tail(todo)[i] = todo[i + 1]
    BY <2>1
  <2>4. t[1] = Tail(todo)[1] /\ 1 \in 1 .. Len(todo) - 1
    BY <2>1, <2>2, <2>3
  <2> QED BY <2>3, <2>4
<1> QED BY <1>1, <1>2, <1>3, LocalParts

LEMMA FieldStep == ASSUME Sound, FieldDefinition PROVE ListStep \/ PatchStep
<1>1. todo # <<>> /\ Top.at = "Field" /\ Quiet(p, p) /\ Top.at \in MemberKinds
  BY TopPopped DEF FieldDefinition, at, MemberKinds
<1>2. CASE CanInsertSemicolon(p)
  BY <1>1, <1>2, MemberKept DEF FieldDefinition
<1>3. CASE ~CanInsertSemicolon(p)
  <2>1. p' = Error(p) /\ todo' = [Tail(todo) EXCEPT ![1].at = "ClassEnd"]
    BY <1>3 DEF FieldDefinition
  <2>2. PICK t : t = Tail(todo)
    OBVIOUS
  <2>3. t # <<>> /\ t[1].at = "NextMember"
    BY <1>1, <2>2, MemberBelow
  <2>4. t[1] = Head(t) /\ Fits(t[1])
    BY <1>1, <2>2, <2>3, BelowIsHead
  <2> DEFINE e == [t[1] EXCEPT !.at = "ClassEnd"]
  <2>5. todo' = [t EXCEPT ![1] = e]
    BY <2>1, <2>2
  <2>6. "at" \in DOMAIN t[1] /\ "mark" \in DOMAIN t[1]
    BY <2>3, <2>4 DEF Fits, MarkKinds
  <2>7. "at" \in DOMAIN e /\ "mark" \in DOMAIN e /\ e.at = "ClassEnd" /\ e.mark = t[1].mark
    BY <2>6
  <2> HIDE DEF e
  <2>8. Fits(e)
    BY <2>7 DEF Fits, StateKinds, MarkKinds, ListKinds, ParamKinds
  <2>9. Quiet(p, p')
    BY <1>1, <2>1, QuietError
  <2> QED BY <1>1, <2>2, <2>3, <2>4, <2>5, <2>7, <2>8, <2>9, PatchOver DEF PatchKinds
<1> QED BY <1>2, <1>3

LEMMA CaseMadeStep == ASSUME Sound, CaseMade PROVE PatchStep
<1>1. todo # <<>> /\ Top.at = "CaseMade" /\ Quiet(p, p)
  BY TopPopped DEF CaseMade, at
<1>2. \E wrong, c : p' = ErrorIf(p, wrong) /\ todo' = [Tail(todo) EXCEPT ![1].cases = Append(@, c)]
  BY Zenon DEF CaseMade
<1>3. PICK wrong, c : p' = ErrorIf(p, wrong) /\ todo' = [Tail(todo) EXCEPT ![1].cases = Append(@, c)]
  BY <1>2, Zenon
<1>4. PICK t : t = Tail(todo)
  OBVIOUS
<1>5. t # <<>> /\ t[1].at = "NextCase"
  <2>1. Local(Top, Tail(todo))
    BY <1>1, TopPopped
  <2> QED BY <1>1, <1>4, <2>1 DEF Local, CaseKinds
<1>6. t[1] = Head(t) /\ Fits(t[1])
  BY <1>1, <1>4, <1>5, BelowIsHead
<1> DEFINE e == [t[1] EXCEPT !.cases = Append(@, c)]
<1>7. todo' = [t EXCEPT ![1] = e]
  BY <1>3, <1>4
<1>8. "at" \in DOMAIN e /\ e.at = "NextCase"
  BY <1>5, <1>6 DEF Fits
<1> HIDE DEF e
<1>9. Fits(e)
  BY <1>8 DEF Fits, StateKinds, MarkKinds, ListKinds, ParamKinds
<1>10. Quiet(p, p')
  BY <1>1, <1>3, QuietErrorIf
<1> QED BY <1>1, <1>4, <1>5, <1>6, <1>7, <1>8, <1>9, <1>10, PatchOver DEF PatchKinds

\* Marks stay in order.
LEMMA PatchMarks ==
    ASSUME Sound, InOrder(p, todo), PatchStep
    PROVE  InOrder(p', todo')
<1> SUFFICES ASSUME NEW b \in Buffers
             PROVE  Marked(b, Len(p'[b]), todo')
  BY DEF InOrder
<1>1. PICK t, s, d, e : t = Tail(todo) /\ s = Tail(t) /\ d = Head(t) /\ e = todo'[1]
  OBVIOUS
<1>2. /\ todo # <<>> /\ Top.at \in {"Field", "CaseMade"} /\ Quiet(p, p') /\ t # <<>>
      /\ Grown(todo', s) /\ Len(todo') - Len(s) = 1 /\ Added(todo', s) = {e}
      /\ \/ d.at = "NextMember" /\ e.at = "ClassEnd" /\ e.mark = d.mark
         \/ d.at = "NextCase" /\ e.at = "NextCase"
  BY <1>1, Zenon DEF PatchStep
<1>3. IsList(t) /\ Grown(todo, t) /\ Added(todo, t) = {Top} /\ Marked(b, Len(p[b]), todo)
  <2>1. IsList(Tail(todo))
    BY <1>2, TopPopped
  <2> QED BY <1>1, <1>2, <2>1, GrownTail DEF Sound, Shape, InOrder, Top
<1>4. Top.at \notin MarkFrames[b]
  BY <1>2 DEF MarkFrames, Buffers
<1>5. Marked(b, Len(p[b]), t)
  BY <1>3, <1>4, MarkedOver
<1>6. Grown(t, s) /\ Added(t, s) = {d}
  BY <1>1, <1>2, <1>3, GrownTail
<1>7. Len(p'[b]) = Len(p[b]) /\ Len(p[b]) \in Nat
  BY <1>2, <1>5 DEF Quiet, SameLengths, Marked
<1>8. CASE d.at \in MarkFrames[b]
  <2>1. e.at \in MarkFrames[b] /\ e.mark = d.mark
    BY <1>2, <1>8 DEF MarkFrames, Buffers
  <2>2. d.mark \in 0 .. Len(p[b]) /\ Marked(b, d.mark, s)
    BY <1>1, <1>2, <1>3, <1>5, <1>8, MarkedBelow
  <2>3. PICK u, k, n : u = todo' /\ k = 1 /\ n = Len(p'[b])
    OBVIOUS
  <2>4. \A i \in 1 .. k - 1 : u[i].at \notin MarkFrames[b]
    BY <2>3
  <2>5. Grown(u, s) /\ k = Len(u) - Len(s) /\ u[k] = e
    BY <1>1, <1>2, <2>3
  <2>6. n \in Nat /\ d.mark <= n
    BY <1>7, <2>2, <2>3
  <2>7. Marked(b, n, u)
    BY <2>1, <2>2, <2>3, <2>4, <2>5, <2>6, MarkedFrame
  <2> QED BY <2>3, <2>7, Zenon
<1>9. CASE d.at \notin MarkFrames[b]
  <2>1. e.at \notin MarkFrames[b]
    BY <1>2, <1>9 DEF MarkFrames, Buffers
  <2>2. Marked(b, Len(p[b]), s)
    BY <1>5, <1>6, <1>9, MarkedOver
  <2> QED BY <1>2, <1>7, <2>1, <2>2, MarkedOver
<1> QED BY <1>8, <1>9

-----------------------------------------------------------------------------
(* The functions around: one scope each *)

Enders(t) == {i \in 1 .. Len(t) : t[i].at = "FunctionEnd"}
Depth(t)  == Cardinality(Enders(t))

LEMMA ShiftedSet ==
    ASSUME NEW n \in Nat, NEW A \in SUBSET (1 .. n), NEW k \in Nat
    PROVE  /\ IsFiniteSet(A) /\ IsFiniteSet({i + k : i \in A})
           /\ Cardinality({i + k : i \in A}) = Cardinality(A)
           /\ Cardinality(A) \in Nat /\ (A = {} <=> Cardinality(A) = 0)
<1> DEFINE B == {i + k : i \in A}
           f == [i \in A |-> i + k]
<1>1. IsFiniteSet(A)
  <2>1. IsFiniteSet(1 .. n)
    BY FS_Interval
  <2> QED BY <2>1, FS_Subset
<1>2. f \in Bijection(A, B)
  <2>1. f \in [A -> B] /\ \A i \in A : f[i] = i + k
    OBVIOUS
  <2>2. \A i, j \in A : f[i] = f[j] => i = j
    BY <2>1
  <2>3. \A b \in B : \E i \in A : f[i] = b
    BY <2>1
  <2>4. f \in [A -> B]
    BY <2>1
  <2> HIDE DEF f, B
  <2>5. f \in Injection(A, B)
    BY <2>2, <2>4 DEF Injection, IsInjective
  <2>6. f \in Surjection(A, B)
    BY <2>3, <2>4 DEF Surjection
  <2> QED BY <2>5, <2>6 DEF Bijection
<1>3. IsFiniteSet(B) /\ Cardinality(B) = Cardinality(A)
  <2>1. ExistsBijection(A, B)
    BY <1>2 DEF ExistsBijection
  <2> QED BY <1>1, <2>1, FS_Bijection
<1>4. Cardinality(A) \in Nat /\ (A = {} <=> Cardinality(A) = 0)
  BY <1>1, FS_CardinalityType, FS_EmptySet
<1> QED BY <1>1, <1>3, <1>4

LEMMA DepthOver ==
    ASSUME NEW u, NEW t, Grown(u, t), \A e \in Added(u, t) : e.at # "FunctionEnd"
    PROVE  Depth(u) = Depth(t) /\ Depth(t) \in Nat
<1>1. PICK k, n : k = Len(u) - Len(t) /\ n = Len(t)
  OBVIOUS
<1>2. k \in Nat /\ n \in Nat
  BY <1>1, GrownParts
<1>3. Enders(u) = {i + k : i \in Enders(t)}
  <2>1. \A i \in Enders(u) : i - k \in Enders(t)
    <3>1. \A i \in 1 .. Len(u) : \/ u[i] \in Added(u, t)
                                 \/ i - k \in 1 .. Len(t) /\ u[i] = t[i - k]
      BY <1>1, GrownParts
    <3> QED BY <3>1 DEF Enders
  <2>2. \A i \in Enders(t) : i + k \in Enders(u)
    BY <1>1, GrownParts DEF Enders
  <2>3. \A i \in Enders(u) : (i - k) + k = i
    BY <1>2, GrownParts DEF Enders
  <2> QED BY <2>1, <2>2, <2>3
<1>4. Enders(t) \in SUBSET (1 .. n)
  BY <1>1 DEF Enders
<1>5. /\ Cardinality({i + k : i \in Enders(t)}) = Cardinality(Enders(t))
      /\ Cardinality(Enders(t)) \in Nat
  BY <1>2, <1>4, ShiftedSet
<1> QED BY <1>3, <1>5 DEF Depth

LEMMA DepthFrame ==
    ASSUME NEW u, NEW t, Grown(u, t), NEW k, k = Len(u) - Len(t), k # 0,
           u[k].at = "FunctionEnd", \A i \in 1 .. k - 1 : u[i].at # "FunctionEnd"
    PROVE  Depth(u) = Depth(t) + 1 /\ Depth(t) \in Nat
<1>1. PICK n : n = Len(t)
  OBVIOUS
<1>2. k \in Nat \ {0} /\ n \in Nat /\ Len(u) \in Nat /\ k \in 1 .. Len(u)
  BY <1>1, GrownParts
<1> DEFINE B == {i + k : i \in Enders(t)}
<1>3. Enders(u) = B \cup {k}
  <2>1. \A i \in Enders(u) : i = k \/ (i - k \in Enders(t) /\ (i - k) + k = i)
    <3> SUFFICES ASSUME NEW i \in Enders(u), i # k
                 PROVE  i - k \in Enders(t) /\ (i - k) + k = i
      OBVIOUS
    <3>1. i \in 1 .. Len(u) /\ i \notin 1 .. k - 1
      BY DEF Enders
    <3>2. i \notin 1 .. k
      <4>1. \A j \in 1 .. k : j # k => j \in 1 .. k - 1
        BY <1>2, LastOrBefore, Zenon
      <4> QED BY <3>1, <4>1, Zenon
    <3>3. i \in 1 .. Len(u) /\ u[i].at = "FunctionEnd"
      BY DEF Enders
    <3>4. Len(t) \in Nat /\ Len(u) = Len(t) + k
      BY <1>1, <1>2
    <3>5. i - k \in 1 .. Len(t) /\ (i - k) + k = i
      BY <1>2, <3>2, <3>3, <3>4
    <3>6. \A j \in 1 .. Len(t) : u[j + k] = t[j]
      BY GrownParts
    <3>7. t[i - k] = u[i]
      BY <3>5, <3>6
    <3> QED BY <3>3, <3>5, <3>7 DEF Enders
  <2>2. \A i \in Enders(t) : i + k \in Enders(u)
    <3>1. \A i \in 1 .. Len(t) : i + k \in 1 .. Len(u) /\ u[i + k] = t[i]
      BY GrownParts
    <3> QED BY <3>1 DEF Enders
  <2>3. k \in Enders(u)
    BY <1>2 DEF Enders
  <2>4. \A i \in Enders(u) : i \in B \cup {k}
    BY <2>1
  <2>5. \A i \in B : i \in Enders(u)
    BY <2>2
  <2> HIDE DEF B
  <2> QED BY <2>3, <2>4, <2>5
<1>4. Enders(t) \in SUBSET (1 .. n)
  BY <1>1 DEF Enders
<1>5. k \notin B
  BY <1>2, <1>4
<1>6. IsFiniteSet(B) /\ Cardinality(B) = Cardinality(Enders(t)) /\ Cardinality(Enders(t)) \in Nat
  <2>1. k \in Nat /\ n \in Nat
    BY <1>2
  <2> QED BY <1>4, <2>1, ShiftedSet
<1> HIDE DEF B
<1>7. Cardinality(B \cup {k}) = Cardinality(B) + 1
  BY <1>5, <1>6, FS_AddElement
<1> QED BY <1>3, <1>6, <1>7 DEF Depth

\* The top of the stack taken off.
LEMMA DepthTop ==
    ASSUME Sound, todo # <<>>
    PROVE  /\ Top.at = "FunctionEnd" => Depth(todo) = Depth(Tail(todo)) + 1
           /\ Top.at # "FunctionEnd" => Depth(todo) = Depth(Tail(todo))
           /\ Depth(Tail(todo)) \in Nat
<1>1. PICK u, t : u = todo /\ t = Tail(todo)
  OBVIOUS
<1>2. IsList(u) /\ u # <<>> /\ Top = Head(u) /\ t = Tail(u)
  BY <1>1 DEF Sound, Shape, Top
<1>3. Grown(u, t) /\ Added(u, t) = {Head(u)} /\ Len(u) - Len(t) = 1 /\ Head(u) = u[1]
  <2>1. Len(Tail(u)) = Len(u) - 1 /\ Len(u) \in Nat \ {0} /\ Head(u) = u[1]
    BY <1>2, Popped
  <2>2. Grown(u, Tail(u)) /\ Added(u, Tail(u)) = {Head(u)}
    BY <1>2, GrownTail
  <2>3. Len(u) - Len(t) = 1
    BY <1>2, <2>1
  <2> QED BY <1>2, <2>1, <2>2, <2>3, Zenon
<1>4. Top.at = "FunctionEnd" => Depth(u) = Depth(t) + 1 /\ Depth(t) \in Nat
  <2> SUFFICES ASSUME Top.at = "FunctionEnd"
               PROVE  Depth(u) = Depth(t) + 1 /\ Depth(t) \in Nat
    OBVIOUS
  <2>1. PICK k : k = 1
    OBVIOUS
  <2>2. k = Len(u) - Len(t) /\ k # 0 /\ u[k].at = "FunctionEnd"
        /\ \A i \in 1 .. k - 1 : u[i].at # "FunctionEnd"
    BY <1>2, <1>3, <2>1
  <2> QED BY <1>3, <2>2, DepthFrame
<1>5. Top.at # "FunctionEnd" => Depth(u) = Depth(t) /\ Depth(t) \in Nat
  BY <1>2, <1>3, DepthOver
<1> QED BY <1>1, <1>4, <1>5, Zenon

-----------------------------------------------------------------------------
(* Steps that change flags *)

\* Further on, with the same scopes open.
Moves(q, r) == Further(q, r) /\ SameLengths(q, r) /\ Len(r.scopes) = Len(q.scopes)

LEMMA MovesQuiet ==
    ASSUME Sound, NEW q, NEW r, Moves(p, q), Quiet(q, r)
    PROVE  Moves(p, r) /\ (Past(p, q) \/ Past(q, r) => Past(p, r))
<1>1. Further(p, q) /\ Further(q, r) /\ IsText
  BY DEF Moves, Quiet, Reads, Sound
<1>2. WellFormed(p) /\ WellFormed(q) /\ WellFormed(r)
  BY <1>1 DEF Further
<1>3. /\ Allowed(p) \in Nat /\ Allowed(q) \in Nat /\ Allowed(r) \in Nat
      /\ \A i \in Positions : /\ Allowance(i, p.recover) \in Nat
                              /\ Allowance(i, q.recover) \in Nat
                              /\ Allowance(i, r.recover) \in Nat
  BY <1>1, <1>2, AllowedNat
<1>4. Further(p, r)
  BY <1>1, <1>2, <1>3 DEF Further
<1>5. Past(p, q) \/ Past(q, r) => Past(p, r)
  BY <1>1, <1>3 DEF Further, Past
<1>6. Len(r.scopes) = Len(p.scopes) /\ SameLengths(p, r)
  BY DEF Moves, Quiet, Reads, SameFlags, SameLengths
<1> QED BY <1>4, <1>5, <1>6 DEF Moves

LEMMA MovesSelf ==
    ASSUME Sound
    PROVE  Moves(p, p)
BY QuietSelf DEF Sound, Quiet, Reads, Moves

LEMMA MovesAfter ==
    ASSUME Sound, NEW q, Moves(p, q)
    PROVE  /\ Moves(p, NextToken(q))
           /\ Moves(p, Error(q))
           /\ \A wrong : Moves(p, ErrorIf(q, wrong))
           /\ \A kind : Moves(p, Expect(q, kind))
           /\ Moves(p, NextStatement(q))
           /\ Moves(p, RequireSemicolon(q))
           /\ \A flags : Moves(p, with(q, flags))
           /\ \A s : DOMAIN s = FlagNames => Moves(p, SetScope(q, s))
<1>1. WellFormed(q) /\ IsText /\ Quiet(q, q) /\ Reads(q, q)
  <2>1. WellFormed(q) /\ IsText
    BY DEF Sound, Moves, Further
  <2> QED BY <2>1, QuietSelf DEF Quiet
<1>2. /\ Quiet(q, NextToken(q)) /\ Quiet(q, Error(q)) /\ Quiet(q, NextStatement(q))
      /\ Quiet(q, RequireSemicolon(q))
      /\ \A wrong : Quiet(q, ErrorIf(q, wrong))
      /\ \A kind : Quiet(q, Expect(q, kind))
  BY <1>1, ReadNextToken, ReadError, ReadNextStatement, ReadSemicolon, ReadErrorIf, ReadExpect
     DEF Quiet
<1>3. ASSUME NEW r, Further(q, r), SameLengths(q, r), Len(r.scopes) = Len(q.scopes)
      PROVE  Moves(p, r)
  <2>1. WellFormed(p) /\ WellFormed(q) /\ WellFormed(r) /\ IsText
    BY <1>3, <1>1 DEF Further, Sound
  <2>2. /\ Allowed(p) \in Nat /\ Allowed(q) \in Nat /\ Allowed(r) \in Nat
        /\ \A i \in Positions : /\ Allowance(i, p.recover) \in Nat
                                /\ Allowance(i, q.recover) \in Nat
                                /\ Allowance(i, r.recover) \in Nat
    BY <2>1, AllowedNat
  <2>3. Further(p, r)
    BY <1>3, <2>1, <2>2 DEF Further, Moves
  <2> QED BY <1>3, <2>3 DEF Moves, SameLengths
<1>4. \A flags : Moves(p, with(q, flags))
  BY <1>1, <1>3, WithReads
<1>5. \A s : DOMAIN s = FlagNames => Moves(p, SetScope(q, s))
  BY <1>1, <1>3, SetScopeReads
<1> QED BY <1>2, <1>4, <1>5, MovesQuiet

-----------------------------------------------------------------------------
(* Steps of calls that set flags for the calls they make *)

FreeKinds == ExprKinds \cup PlainStmts \cup Heads \cup {"PutBack", "LabelledMade"}

FreeRow(es) == Row(es) /\ \A i \in DOMAIN es : "at" \in DOMAIN es[i] /\ es[i].at \in FreeKinds

MovesStep ==
    /\ todo # <<>> /\ Top.at \in FreeKinds
    /\ Moves(p, p') /\ Grown(todo', Tail(todo))
    /\ \A e \in Added(todo', Tail(todo)) : "at" \in DOMAIN e /\ e.at \in FreeKinds
    /\ Progresses

LEMMA MovesLed ==
    ASSUME Sound, todo # <<>>, Top.at \in FreeKinds, Top.at \notin Fresh,
           NEW q, Moves(p, q), NEW es, FreeRow(es), Leads(q, es)
    PROVE  MovesStep
BY Led DEF FreeRow, MovesStep, Progresses

LEMMA MovesEnded ==
    ASSUME Sound, todo # <<>>, Top.at \in FreeKinds, Top.at \notin Fresh,
           NEW q, Moves(p, q), Ends(q)
    PROVE  MovesStep
BY Ended DEF MovesStep, Progresses

LEMMA RowOfThree ==
    ASSUME NEW a, NEW b, NEW c
    PROVE  <<a, b>> \o <<c>> = <<a, b, c>>
<1>1. <<a, b>> \in Seq({a, b, c}) /\ <<c>> \in Seq({a, b, c}) /\ <<a, b, c>> \in Seq({a, b, c})
  OBVIOUS
<1>2. <<a, b>> \o <<c>> \in Seq({a, b, c}) /\ Len(<<a, b>> \o <<c>>) = 3
      /\ \A i \in 1 .. 3 : (<<a, b>> \o <<c>>)[i] = <<a, b, c>>[i]
  BY <1>1
<1> QED BY <1>1, <1>2, SeqEqual

Free(e) == "at" \in DOMAIN e /\ e.at \in FreeKinds

LEMMA FreeRows ==
    ASSUME NEW a, NEW b, NEW c, Free(a), Free(b), Free(c)
    PROVE  FreeRow(<<a>>) /\ FreeRow(<<a, b>>) /\ FreeRow(<<a, b, c>>)
           /\ FreeRow(<<a, b>> \o <<c>>)
<1>1. FreeRow(<<a>>) /\ FreeRow(<<a, b>>) /\ FreeRow(<<a, b, c>>)
  BY DEF FreeRow, Row, Free
<1> QED BY <1>1, RowOfThree

LEMMA MovesPutBack == ASSUME Sound, PutBack PROVE MovesStep
<1>1. todo # <<>> /\ Top.at = "PutBack" /\ Moves(p, p)
  BY MovesSelf DEF PutBack, at
<1>2. Ends(with(p, Top.flags))
  BY Ways, Zenon DEF PutBack
<1>3. Moves(p, with(p, Top.flags))
  BY <1>1, MovesAfter
<1> QED BY <1>1, <1>2, <1>3, MovesEnded DEF FreeKinds, Fresh

LEMMA MovesConditionalRest == ASSUME Sound, ConditionalRest PROVE MovesStep
<1>1. todo # <<>> /\ Top.at = "ConditionalRest" /\ Moves(p, p)
  BY MovesSelf DEF ConditionalRest, at
<1> DEFINE q == with(NextToken(p), Flag("allowIn", TRUE))
           a == F("Assignment")
           b == putBack(saved({"allowIn"}))
           c == [at |-> "Alternate", test |-> result]
<1>2. Ends(p) \/ Leads(q, <<a, b, c>>)
  BY Ways, ZenonT(30) DEF ConditionalRest
<1>3. Free(a) /\ Free(b) /\ Free(c)
  BY DEF F, putBack, Free, FreeKinds, ExprKinds
<1> HIDE DEF a, b, c
<1>4. Moves(p, q)
  BY <1>1, MovesAfter
<1> HIDE DEF q
<1>5. FreeRow(<<a, b, c>>)
  BY <1>3, FreeRows
<1>6. Top.at \in FreeKinds /\ Top.at \notin Fresh
  BY <1>1 DEF FreeKinds, ExprKinds, Fresh
<1> QED BY <1>1, <1>2, <1>4, <1>5, <1>6, MovesLed, MovesEnded

LEMMA MovesLeftHandSide == ASSUME Sound, LeftHandSide PROVE MovesStep
<1>1. todo # <<>> /\ Top.at = "LeftHandSide" /\ Moves(p, p)
  BY MovesSelf DEF LeftHandSide, at
<1> DEFINE q == with(p, Flag("allowIn", TRUE))
           a == base(p)
           b == [at |-> "Links", calls |-> TRUE, chain |-> FALSE]
           c == putBack(saved({"allowIn"}))
           es == <<a, b, c>>
<1>2. Leads(q, es)
  BY Ways, ZenonT(30) DEF LeftHandSide
<1>3. Free(a) /\ Free(b) /\ Free(c) /\ a.at \in Fresh
  BY DEF F, base, putBack, Free, FreeKinds, ExprKinds, Fresh
<1> HIDE DEF a, b, c
<1>4. Moves(p, q)
  BY <1>1, MovesAfter
<1>5. Kind(q) = Kind(p)
  BY WithReads DEF Sound
<1> HIDE DEF q
<1>6. FreeRow(es) /\ es[1] = a
  BY <1>3, FreeRows
<1> HIDE DEF es
<1>7. p' = q /\ Grown(todo', Tail(todo)) /\ todo' # <<>> /\ Head(todo') = es[1]
      /\ \A e \in Added(todo', Tail(todo)) : \E i \in DOMAIN es : e = es[i]
  BY <1>1, <1>2, <1>6, Led DEF FreeRow
<1>8. Progresses
  BY <1>3, <1>5, <1>6, <1>7 DEF Progresses
<1> QED BY <1>1, <1>4, <1>6, <1>7, <1>8 DEF MovesStep, FreeRow, FreeKinds, ExprKinds

LEMMA MovesExpressionStatement == ASSUME Sound, ExpressionStatement PROVE MovesStep
<1>1. todo # <<>> /\ Top.at = "ExpressionStatement" /\ Moves(p, p)
  BY MovesSelf DEF ExpressionStatement, at
<1> DEFINE labels == Scope(p).labels
           q == ErrorIf(NextToken(p), result.name \in Range(labels))
           s == [Scope(q) EXCEPT !.labels = Append(labels, result.name), !.allowLet = FALSE]
           a == F("Statement")
           b == [at |-> "LabelledMade", label |-> result]
<1>2. Ends(RequireSemicolon(p)) \/ Leads(SetScope(q, s), <<a, b>>)
  BY Ways, ZenonT(30) DEF ExpressionStatement
<1>3. Free(a) /\ Free(b)
  BY DEF F, Free, FreeKinds, PlainStmts
<1> HIDE DEF a, b
<1>4. Moves(p, q)
  BY <1>1, MovesAfter
<1> HIDE DEF q
<1>5. DOMAIN s = FlagNames
  <2>1. DOMAIN Scope(q) = FlagNames
    BY <1>4, ScopeOfWellFormed DEF Moves, Further
  <2> QED BY <2>1
<1> HIDE DEF s
<1>6. Moves(p, SetScope(q, s)) /\ Moves(p, RequireSemicolon(p))
  BY <1>1, <1>4, <1>5, MovesAfter
<1>7. FreeRow(<<a, b>>)
  BY <1>3, FreeRows
<1>8. Top.at \in FreeKinds /\ Top.at \notin Fresh
  BY <1>1 DEF FreeKinds, PlainStmts, Fresh
<1> QED BY <1>1, <1>2, <1>6, <1>7, <1>8, MovesLed, MovesEnded

LEMMA MovesLabelledMade == ASSUME Sound, LabelledMade PROVE MovesStep
<1>1. todo # <<>> /\ Top.at = "LabelledMade" /\ Moves(p, p)
  BY MovesSelf DEF LabelledMade, at
<1> DEFINE s == [Scope(p) EXCEPT !.labels = Front(@)]
<1>2. Ends(SetScope(p, s))
  BY Ways, ZenonT(30) DEF LabelledMade
<1>3. DOMAIN s = FlagNames
  <2>1. DOMAIN Scope(p) = FlagNames
    BY ScopeOfWellFormed DEF Sound
  <2> QED BY <2>1
<1> HIDE DEF s
<1>4. Moves(p, SetScope(p, s))
  BY <1>1, <1>3, MovesAfter
<1> QED BY <1>1, <1>2, <1>4, MovesEnded DEF FreeKinds, Fresh

\* Flags set on the way do not take back what was read.
LEMMA MovesPast ==
    ASSUME Sound, NEW q, Moves(p, q)
    PROVE  /\ Past(p, q) => \A flags : Past(p, with(q, flags))
           /\ Past(p, q) \/ Kind(q) # "Eof" => Past(p, NextToken(q))
<1>1. WellFormed(q) /\ IsText /\ Quiet(q, q)
  BY QuietSelf DEF Sound, Moves, Further
<1>2. Past(p, q) => \A flags : Past(p, with(q, flags))
  BY <1>1, WithReads DEF Past
<1>3. Quiet(q, NextToken(q)) /\ (Kind(q) # "Eof" => Past(q, NextToken(q)))
  BY <1>1, NextTokenQuiet
<1> QED BY <1>2, <1>3, MovesQuiet

\* A statement alone, or a block.
LEMMA BodyMoves ==
    ASSUME Sound, NEW q, Moves(p, q)
    PROVE  /\ Moves(p, body(q).q) /\ Free(body(q).entry)
           /\ Moves(p, alone(q))
           /\ Past(p, q) => Past(p, body(q).q)
<1>1. body(q).q \in {q, alone(q)} /\ body(q).entry \in {F("Block"), F("Statement")}
  BY DEF body
<1>2. Free(F("Block")) /\ Free(F("Statement"))
  BY DEF F, Free, FreeKinds, PlainStmts
<1> QED BY <1>1, <1>2, MovesAfter, MovesPast DEF alone

\* The body of a loop.
LEMMA IterateMoves ==
    ASSUME Sound, NEW q, Moves(p, q), NEW c, Free(c)
    PROVE  Moves(p, iterate(q).q) /\ FreeRow(iterate(q).entries \o <<c>>)
<1> DEFINE a == F("Statement")
           b == putBack([f \in {"inIteration"} |-> Scope(q).inIteration])
           flags == [f \in {"inIteration", "allowLet"} |-> f = "inIteration"]
<1>1. iterate(q).q = with(q, flags) /\ iterate(q).entries = <<a, b>>
  BY DEF iterate
<1>2. Free(a) /\ Free(b)
  BY DEF F, putBack, Free, FreeKinds, PlainStmts
<1> HIDE DEF a, b, flags
<1>3. FreeRow(<<a, b>> \o <<c>>)
  BY <1>2, FreeRows
<1> QED BY <1>1, <1>3, MovesAfter

LEMMA MovesHeadMade == ASSUME Sound, HeadMade PROVE MovesStep
<1>1. todo # <<>> /\ Top.at = "HeadMade" /\ Moves(p, p)
  BY MovesSelf DEF HeadMade, at
<1> DEFINE q == Expect(p, ")")
           made(w) == [at |-> w, test |-> result]
           n == [at |-> "NextCase", discriminant |-> result, cases |-> <<>>]
           b == putBack(saved({"inSwitch"}))
           s == with(Expect(q, "{"), Flag("inSwitch", TRUE))
           x == made("IfElse")
           y == made("WhileMade")
           z == made("WithMade")
           a == F("Statement")
<1>2. \/ Leads(body(q).q, <<body(q).entry, x>>)
      \/ Leads(iterate(q).q, iterate(q).entries \o <<y>>)
      \/ Leads(alone(q), <<a, z>>)
      \/ Leads(s, <<n, b>>)
  BY Ways, ZenonT(60) DEF HeadMade
<1>3. Free(a) /\ Free(b) /\ Free(n) /\ Free(x) /\ Free(y) /\ Free(z)
  BY DEF F, putBack, Free, FreeKinds, PlainStmts
<1> HIDE DEF a, b, n, x, y, z
<1>4. Moves(p, q)
  BY <1>1, MovesAfter
<1>5. Moves(p, s)
  BY <1>4, MovesAfter
<1> HIDE DEF q, s
<1>6. Moves(p, body(q).q) /\ Free(body(q).entry) /\ Moves(p, alone(q))
  BY <1>4, BodyMoves
<1>7. Moves(p, iterate(q).q) /\ FreeRow(iterate(q).entries \o <<y>>)
  BY <1>3, <1>4, IterateMoves
<1>8. Top.at \in FreeKinds /\ Top.at \notin Fresh
  BY <1>1 DEF FreeKinds, PlainStmts, Fresh
<1>9. FreeRow(<<body(q).entry, x>>) /\ FreeRow(<<a, z>>) /\ FreeRow(<<n, b>>)
  BY <1>3, <1>6, FreeRows
<1> QED BY <1>1, <1>2, <1>5, <1>6, <1>7, <1>8, <1>9, MovesLed

LEMMA MovesDoStatement == ASSUME Sound, DoStatement PROVE MovesStep
<1>1. todo # <<>> /\ Top.at = "do" /\ Moves(p, p)
  BY MovesSelf DEF DoStatement, at
<1> DEFINE w == with(p, Flag("inIteration", TRUE))
           r == NextToken(w)
           q == body(r)
           b == F("DoHead")
           c == putBack(saved({"inIteration"}))
           a == q.entry
           es == <<a, b, c>>
<1>2. Leads(q.q, es)
  BY Ways, ZenonT(30) DEF DoStatement
<1>3. Free(b) /\ Free(c)
  BY DEF F, putBack, Free, FreeKinds, PlainStmts
<1> HIDE DEF b, c
<1>4. Moves(p, w) /\ Kind(w) = Kind(p)
  BY <1>1, MovesAfter, WithReads DEF Sound
<1> HIDE DEF w
<1>5. Moves(p, r) /\ (Kind(p) # "Eof" => Past(p, r))
  BY <1>4, MovesAfter, MovesPast
<1> HIDE DEF r
<1>6. Moves(p, q.q) /\ Free(a) /\ (Kind(p) # "Eof" => Past(p, q.q))
  BY <1>5, BodyMoves
<1> HIDE DEF q, a
<1>7. FreeRow(es)
  BY <1>3, <1>6, FreeRows
<1> HIDE DEF es
<1>8. p' = q.q /\ Grown(todo', Tail(todo))
      /\ \A e \in Added(todo', Tail(todo)) : \E i \in DOMAIN es : e = es[i]
  BY <1>1, <1>2, <1>7, Led DEF FreeRow
<1>9. Progresses
  BY <1>6, <1>8 DEF Progresses
<1>10. Top.at \in FreeKinds
  BY <1>1 DEF FreeKinds, PlainStmts
<1> QED BY <1>1, <1>6, <1>7, <1>8, <1>9, <1>10 DEF MovesStep, FreeRow

LEMMA MovesForStatement == ASSUME Sound, ForStatement PROVE MovesStep
<1>1. todo # <<>> /\ Top.at = "for" /\ Moves(p, p) /\ Quiet(p, p)
  BY MovesSelf, TopPopped DEF ForStatement, at
<1> DEFINE q     == NextToken(p)
           await == Kind(q) = "await"
           r     == IF await THEN NextToken(ErrorIf(q, ~Scope(q).allowAwait)) ELSE q
           s     == Expect(r, "(")
           head(w) == [at |-> w, await |-> await, word |-> Kind(s),
                       allowIn |-> Scope(s).allowIn]
           h == head("ForInit")
           d == head("ForDeclared")
           x == head("ForExpression")
           a == F("Declarations")
           b == F("Expression")
           t == noIn(NextToken(s))
           u == noIn(s)
<1>2. Leads(s, <<h>>) \/ Leads(t, <<a, d>>) \/ Leads(u, <<b, x>>)
  BY Ways, ZenonT(60) DEF ForStatement
<1>3. Free(h) /\ Free(d) /\ Free(x) /\ Free(a) /\ Free(b)
  BY DEF F, Free, FreeKinds, PlainStmts, ExprKinds, Heads
<1> HIDE DEF h, d, x, a, b
<1>4. Moves(p, q) /\ (Kind(p) # "Eof" => Past(p, q))
  BY <1>1, MovesAfter, MovesPast
<1>5. Quiet(p, s) /\ (Kind(p) # "Eof" => Past(p, s))
  <2>1. Quiet(p, q) /\ (Kind(p) # "Eof" => Past(p, q))
    BY <1>1, QuietNextToken
  <2> HIDE DEF q
  <2>2. Quiet(p, r) /\ (Kind(p) # "Eof" => Past(p, r))
    BY <2>1, QuietErrorIf, QuietNextToken
  <2> HIDE DEF r
  <2> QED BY <2>2, QuietExpect
<1> HIDE DEF s
<1>6. Moves(p, s)
  BY <1>1, <1>5, MovesQuiet
<1>7. Moves(p, t) /\ Moves(p, u)
  BY <1>6, MovesAfter DEF noIn
<1>8. Kind(p) # "Eof" => Past(p, s) /\ Past(p, t) /\ Past(p, u)
  BY <1>5, <1>6, MovesPast, MovesAfter DEF noIn
<1> HIDE DEF t, u
<1>9. FreeRow(<<h>>) /\ FreeRow(<<a, d>>) /\ FreeRow(<<b, x>>)
  BY <1>3, FreeRows
<1>10. ASSUME NEW v, Moves(p, v), Kind(p) # "Eof" => Past(p, v), NEW es, FreeRow(es), Leads(v, es)
       PROVE  MovesStep
  <2>1. p' = v /\ Grown(todo', Tail(todo))
        /\ \A e \in Added(todo', Tail(todo)) : \E i \in DOMAIN es : e = es[i]
    BY <1>1, <1>10, Led DEF FreeRow
  <2>2. Progresses
    BY <1>10, <2>1 DEF Progresses
  <2> QED BY <1>1, <1>10, <2>1, <2>2 DEF MovesStep, FreeRow, FreeKinds, PlainStmts
<1> QED BY <1>2, <1>6, <1>7, <1>8, <1>9, <1>10

\* The head of a loop over keys or elements.
LEMMA ForIntoMoves ==
    ASSUME Sound, todo # <<>>, Top.at \in Heads, NEW q, Moves(p, q), NEW into, forInto(q, into)
    PROVE  MovesStep
<1> DEFINE r == with(NextToken(q), Flag("allowIn", Top.allowIn))
           s == ErrorIf(r, Top.await)
           a == F("Expression")
           b == F("Assignment")
           x == [at |-> "ForEach", word |-> "in", into |-> into]
           y == [at |-> "ForEach", word |-> "of", into |-> into, await |-> Top.await]
<1>1. Leads(s, <<a, x>>) \/ Leads(r, <<b, y>>)
  BY Ways, ZenonT(30) DEF forInto
<1>2. Free(a) /\ Free(b) /\ Free(x) /\ Free(y)
  BY DEF F, Free, FreeKinds, PlainStmts, ExprKinds
<1> HIDE DEF a, b, x, y
<1>3. Moves(p, NextToken(q))
  BY MovesAfter
<1>4. Moves(p, r)
  BY <1>3, MovesAfter
<1> HIDE DEF r
<1>5. Moves(p, s)
  BY <1>4, MovesAfter
<1> HIDE DEF s
<1>6. FreeRow(<<a, x>>) /\ FreeRow(<<b, y>>)
  BY <1>2, FreeRows
<1>7. Top.at \in FreeKinds /\ Top.at \notin Fresh
  BY DEF FreeKinds, Heads, Fresh
<1> QED BY <1>1, <1>4, <1>5, <1>6, <1>7, MovesLed

LEMMA MovesForDeclared == ASSUME Sound, ForDeclared PROVE MovesStep
<1>1. todo # <<>> /\ Top.at = "ForDeclared" /\ Moves(p, p) /\ "at" \in DOMAIN Top
  BY MovesSelf, TopPopped DEF ForDeclared, at
<1> DEFINE list == result.list
           q == ErrorIf(p, missesInit(list))
           r == with(q, Flag("allowIn", Top.allowIn))
           s == ErrorIf(p, list[1].initializer # None)
           into == VarDecl(Top.word, list)
           a == [Top EXCEPT !.at = "ForInit"]
<1>2. forInto(s, into) \/ Leads(r, <<a>>)
  BY Ways, ZenonT(30) DEF ForDeclared
<1>3. Free(a)
  BY <1>1 DEF Free, FreeKinds, PlainStmts
<1> HIDE DEF a, into
<1>4. Moves(p, q) /\ Moves(p, s)
  BY <1>1, MovesAfter
<1> HIDE DEF q, s
<1>5. Moves(p, r)
  BY <1>4, MovesAfter
<1> HIDE DEF r
<1>6. FreeRow(<<a>>)
  BY <1>3, FreeRows
<1>7. Top.at \in FreeKinds /\ Top.at \notin Fresh /\ Top.at \in Heads
  BY <1>1 DEF FreeKinds, Heads, Fresh
<1>8. ASSUME forInto(s, into) PROVE MovesStep
  BY <1>1, <1>4, <1>7, <1>8, ForIntoMoves
<1>9. ASSUME Leads(r, <<a>>) PROVE MovesStep
  BY <1>1, <1>5, <1>6, <1>7, <1>9, MovesLed
<1> QED BY <1>2, <1>8, <1>9

LEMMA MovesForExpression == ASSUME Sound, ForExpression PROVE MovesStep
<1>1. todo # <<>> /\ Top.at = "ForExpression" /\ Moves(p, p) /\ "at" \in DOMAIN Top
  BY MovesSelf, TopPopped DEF ForExpression, at
<1> DEFINE target == PatternFrom(result, "assign", FALSE)
           q == ErrorIf(p, ~target.ok)
           r == with(p, Flag("allowIn", Top.allowIn))
           s == NextStatement(Error(NextToken(p)))
           into == target.value
           a == [Top EXCEPT !.at = "ForInit"]
<1>2. forInto(q, into) \/ Leads(r, <<a>>) \/ Ends(s)
  BY Ways, ZenonT(30) DEF ForExpression
<1>3. Free(a)
  BY <1>1 DEF Free, FreeKinds, PlainStmts
<1> HIDE DEF a, into
<1>4. Moves(p, q) /\ Moves(p, r)
  <2> HIDE DEF target
  <2> QED BY <1>1, MovesAfter
<1> HIDE DEF q, r
<1>5. Moves(p, s)
  <2>1. Moves(p, Error(NextToken(p)))
    BY <1>1, MovesAfter
  <2> QED BY <2>1, MovesAfter
<1> HIDE DEF s
<1>6. FreeRow(<<a>>)
  BY <1>3, FreeRows
<1>7. Top.at \in FreeKinds /\ Top.at \notin Fresh /\ Top.at \in Heads
  BY <1>1 DEF FreeKinds, Heads, Fresh
<1>8. ASSUME forInto(q, into) PROVE MovesStep
  BY <1>1, <1>4, <1>7, <1>8, ForIntoMoves
<1>9. ASSUME Leads(r, <<a>>) PROVE MovesStep
  BY <1>1, <1>4, <1>6, <1>7, <1>9, MovesLed
<1>10. ASSUME Ends(s) PROVE MovesStep
  BY <1>1, <1>5, <1>7, <1>10, MovesEnded
<1> QED BY <1>2, <1>8, <1>9, <1>10

LEMMA MovesForEach == ASSUME Sound, ForEach PROVE MovesStep
<1>1. todo # <<>> /\ Top.at = "ForEach" /\ Moves(p, p)
  BY MovesSelf DEF ForEach, at
<1> DEFINE r == Expect(p, ")")
           c == [at |-> "ForEachMade", loop |-> Top, source |-> result]
<1>2. Leads(iterate(r).q, iterate(r).entries \o <<c>>)
  BY Ways, ZenonT(30) DEF ForEach
<1>3. Free(c)
  BY DEF Free, FreeKinds, PlainStmts
<1> HIDE DEF c
<1>4. Moves(p, r)
  BY <1>1, MovesAfter
<1> HIDE DEF r
<1>5. Moves(p, iterate(r).q) /\ FreeRow(iterate(r).entries \o <<c>>)
  BY <1>3, <1>4, IterateMoves
<1>6. Top.at \in FreeKinds /\ Top.at \notin Fresh
  BY <1>1 DEF FreeKinds, PlainStmts, Fresh
<1> QED BY <1>1, <1>2, <1>5, <1>6, MovesLed

LEMMA MovesForUpdate == ASSUME Sound, ForUpdate PROVE MovesStep
<1>1. todo # <<>> /\ Top.at = "ForUpdate" /\ Moves(p, p)
  BY MovesSelf DEF ForUpdate, at
<1> DEFINE r == Expect(p, ")")
           c == [at |-> "ForMade", init |-> Top.init, test |-> Top.test, update |-> result]
<1>2. Leads(iterate(r).q, iterate(r).entries \o <<c>>)
  BY Ways, ZenonT(30) DEF ForUpdate
<1>3. Free(c)
  BY DEF Free, FreeKinds, PlainStmts
<1> HIDE DEF c
<1>4. Moves(p, r)
  BY <1>1, MovesAfter
<1> HIDE DEF r
<1>5. Moves(p, iterate(r).q) /\ FreeRow(iterate(r).entries \o <<c>>)
  BY <1>3, <1>4, IterateMoves
<1>6. Top.at \in FreeKinds /\ Top.at \notin Fresh
  BY <1>1 DEF FreeKinds, PlainStmts, Fresh
<1> QED BY <1>1, <1>2, <1>5, <1>6, MovesLed

-----------------------------------------------------------------------------
(* The scope of a function *)

LEMMA OpenScopeReads ==
    ASSUME NEW q, WellFormed(q), IsText
    PROVE  LET r == OpenScope(q) IN
           /\ Further(q, r) /\ SameLengths(q, r)
           /\ Len(r.scopes) = Len(q.scopes) + 1 /\ r.scopes[1] = scope0
           /\ \A k \in 1 .. Len(q.scopes) : r.scopes[k + 1] = q.scopes[k]
<1> DEFINE r == OpenScope(q)
<1>1. SameBut(q, r, {"scopes"}) /\ r.scopes = <<scope0>> \o q.scopes
  BY HelperFields DEF WellFormed
<1>2. /\ r.pos = q.pos /\ r.token = q.token /\ r.errors = q.errors
      /\ r.recover = q.recover /\ \A b \in Buffers : r[b] = q[b]
  BY <1>1 DEF SameBut, WellFormed, StateFields, Buffers
<1>3. /\ IsList(r.scopes) /\ r.scopes # <<>> /\ Len(r.scopes) = Len(q.scopes) + 1
      /\ r.scopes[1] = scope0 /\ \A k \in 1 .. Len(q.scopes) : r.scopes[k + 1] = q.scopes[k]
  <2>1. PICK t, u : t = q.scopes /\ u = r.scopes
    OBVIOUS
  <2>2. IsList(t) /\ u = <<scope0>> \o t
    BY <1>1, <2>1 DEF WellFormed
  <2> HIDE DEF r
  <2>3. /\ IsList(u) /\ u # <<>> /\ Len(u) = Len(t) + 1 /\ u[1] = scope0
        /\ \A k \in 1 .. Len(t) : u[k + 1] = t[k]
    BY <2>2, Pushed
  <2> QED BY <2>1, <2>3, Zenon
<1> HIDE DEF r
<1>4. DOMAIN scope0 = FlagNames
  BY DEF scope0, FlagNames
<1>5. \A k \in 1 .. Len(r.scopes) : DOMAIN r.scopes[k] = FlagNames
  <2>1. \A k \in 1 .. Len(r.scopes) : k = 1 \/ (k - 1 \in 1 .. Len(q.scopes) /\ (k - 1) + 1 = k)
    BY <1>3, ScopeOfWellFormed
  <2> SUFFICES ASSUME NEW k \in 1 .. Len(r.scopes)
               PROVE  DOMAIN r.scopes[k] = FlagNames
    OBVIOUS
  <2>2. CASE k = 1
    BY <1>3, <1>4, <2>2
  <2>3. CASE k - 1 \in 1 .. Len(q.scopes) /\ (k - 1) + 1 = k
    <3>1. r.scopes[(k - 1) + 1] = q.scopes[k - 1]
      BY <1>3, <2>3
    <3>2. DOMAIN q.scopes[k - 1] = FlagNames
      BY <2>3 DEF WellFormed
    <3> QED BY <2>3, <3>1, <3>2
  <2> QED BY <2>1, <2>2, <2>3
<1>6. WellFormed(r)
  BY <1>1, <1>2, <1>3, <1>5 DEF SameBut, WellFormed
<1>7. Further(q, r) /\ SameLengths(q, r)
  BY <1>2, <1>6, AllowedNat DEF Further, Allowed, SameLengths
<1> QED BY <1>3, <1>7 DEF r

LEMMA CloseScopeReads ==
    ASSUME NEW q, WellFormed(q), IsText, Len(q.scopes) # 1
    PROVE  LET r == CloseScope(q) IN
           /\ Further(q, r) /\ SameLengths(q, r)
           /\ Len(r.scopes) = Len(q.scopes) - 1
           /\ \A k \in 1 .. Len(r.scopes) : r.scopes[k] = q.scopes[k + 1]
<1> DEFINE r == CloseScope(q)
<1>1. SameBut(q, r, {"scopes"}) /\ r.scopes = Tail(q.scopes)
  BY HelperFields DEF WellFormed
<1>2. /\ r.pos = q.pos /\ r.token = q.token /\ r.errors = q.errors
      /\ r.recover = q.recover /\ \A b \in Buffers : r[b] = q[b]
  BY <1>1 DEF SameBut, WellFormed, StateFields, Buffers
<1>3. /\ IsList(r.scopes) /\ Len(r.scopes) = Len(q.scopes) - 1 /\ Len(q.scopes) \in Nat \ {0}
  BY <1>1, Popped DEF WellFormed
<1>4. \A k \in 1 .. Len(r.scopes) : r.scopes[k] = q.scopes[k + 1]
  <2>1. q.scopes \in Seq(Range(q.scopes)) /\ q.scopes # <<>>
    BY ListElim DEF WellFormed
  <2> HIDE DEF r
  <2> QED BY <1>1, <1>3, <2>1
<1> HIDE DEF r
<1>5. r.scopes # <<>>
  <2>1. Len(r.scopes) # 0
    BY <1>3
  <2> QED BY <1>3, <2>1, ListElim
<1>6. \A k \in 1 .. Len(r.scopes) : DOMAIN r.scopes[k] = FlagNames
  <2>1. \A k \in 1 .. Len(r.scopes) : k + 1 \in 1 .. Len(q.scopes)
    BY <1>3
  <2> QED BY <1>4, <2>1 DEF WellFormed
<1>7. WellFormed(r)
  BY <1>1, <1>2, <1>3, <1>5, <1>6 DEF SameBut, WellFormed
<1>8. Further(q, r) /\ SameLengths(q, r)
  BY <1>2, <1>7, AllowedNat DEF Further, Allowed, SameLengths
<1> QED BY <1>3, <1>4, <1>8 DEF r

-----------------------------------------------------------------------------
(* Steps that leave the lists of statements and the marks to go back to alone *)

Balanced(q, t) == Len(q.scopes) = 1 + Depth(t)

Kept(e) == "at" \in DOMAIN e /\ e.at \notin StateKinds \cup ListKinds

OnStep ==
    /\ todo # <<>> /\ Top.at \notin StateKinds \cup ListKinds
    /\ Further(p, p') /\ Len(p'["stmtBuf"]) = Len(p["stmtBuf"])
    /\ Grown(todo', Tail(todo)) /\ \A e \in Added(todo', Tail(todo)) : Kept(e)
    /\ Progresses /\ MarksStep /\ Shape(todo')
    /\ Balanced(p, todo) => Balanced(p', todo')

LEMMA BalancedOver ==
    ASSUME Sound, todo # <<>>, Top.at # "FunctionEnd", Len(p'.scopes) = Len(p.scopes),
           Grown(todo', Tail(todo)), \A e \in Added(todo', Tail(todo)) : e.at # "FunctionEnd",
           Balanced(p, todo)
    PROVE  Balanced(p', todo')
<1>1. PICK u, t : u = todo' /\ t = Tail(todo)
  OBVIOUS
<1>2. Depth(todo) = Depth(t)
  BY <1>1, DepthTop
<1>3. Depth(u) = Depth(t)
  BY <1>1, DepthOver
<1> QED BY <1>1, <1>2, <1>3 DEF Balanced

LEMMA CalmOn ==
    ASSUME Sound, CalmStep
    PROVE  OnStep
<1>1. \A e \in Added(todo', Tail(todo)) : Kept(e) /\ e.at # "FunctionEnd"
  <2> SUFFICES ASSUME NEW e \in Added(todo', Tail(todo))
               PROVE  Kept(e) /\ e.at # "FunctionEnd"
    OBVIOUS
  <2>1. Calm(e, Top.at)
    BY DEF CalmStep
  <2> QED BY <2>1 DEF Calm, Kept, ExprKinds, ListParts, MarkKinds, ListKinds, ParamKinds,
             MemberKinds, PlainStmts, StateKinds
<1>2. Top.at \notin StateKinds \cup ListKinds /\ Top.at # "FunctionEnd" /\ todo # <<>>
  <2>1. Top.at \in CalmTops /\ todo # <<>>
    BY DEF CalmStep
  <2> QED BY <2>1 DEF CalmTops, ExprKinds, ListParts, MarkKinds, ListKinds, ParamKinds,
             MemberKinds, PlainStmts, StateKinds
<1>3. Len(p'.scopes) = Len(p.scopes) /\ Grown(todo', Tail(todo))
  BY DEF CalmStep, Reads, SameFlags
<1>4. Balanced(p, todo) => Balanced(p', todo')
  BY <1>1, <1>2, <1>3, BalancedOver
<1> QED BY <1>1, <1>2, <1>4 DEF CalmStep, OnStep, Reads

LEMMA FreeFits ==
    ASSUME NEW e, Free(e)
    PROVE  /\ Fits(e) /\ Kept(e) /\ e.at \notin MemberKinds \cup CaseKinds \cup MarkKinds
           /\ e.at # "FunctionEnd"
<1>1. e.at \in FreeKinds /\ "at" \in DOMAIN e
  BY DEF Free
<1>2. e.at \notin MemberKinds \cup CaseKinds \cup MarkKinds \cup StateKinds \cup ListKinds
                  \cup ParamKinds \cup {"FunctionEnd"}
  BY <1>1 DEF FreeKinds, Heads, ExprKinds, PlainStmts, StateKinds, MarkKinds, ListKinds,
              ParamKinds, MemberKinds, CaseKinds
<1> QED BY <1>1, <1>2 DEF Fits, Kept

LEMMA MovesOn ==
    ASSUME Sound, MovesStep
    PROVE  OnStep
<1>1. /\ todo # <<>> /\ Top.at \in FreeKinds /\ Moves(p, p') /\ Grown(todo', Tail(todo))
      /\ \A e \in Added(todo', Tail(todo)) : Free(e)
      /\ Progresses
  BY DEF MovesStep, Free
<1>2. Free(Top)
  BY <1>1, TopPopped DEF Free
<1>3. \A e \in Added(todo', Tail(todo)) :
         /\ Fits(e) /\ Kept(e) /\ e.at \notin MemberKinds \cup CaseKinds \cup MarkKinds
         /\ e.at # "FunctionEnd"
  BY <1>1, FreeFits
<1>4. Kept(Top) /\ Top.at \notin MarkKinds /\ Top.at # "FunctionEnd"
  BY <1>2, FreeFits
<1>5. Further(p, p') /\ SameLengths(p, p') /\ Len(p'.scopes) = Len(p.scopes)
  BY <1>1 DEF Moves
<1>6. Balanced(p, todo) => Balanced(p', todo')
  BY <1>1, <1>3, <1>4, <1>5, BalancedOver
<1>7. Shape(todo')
  BY <1>1, <1>3, TopPopped, ShapeFree
<1>8. MarksStep
  BY <1>1, <1>3, <1>4, <1>5 DEF MarksStep, Unframed
<1> QED BY <1>1, <1>3, <1>4, <1>5, <1>6, <1>7, <1>8 DEF OnStep, SameLengths, Buffers, Kept

LEMMA OnFunctionBlock == ASSUME Sound, FunctionBlock PROVE OnStep
<1>1. todo # <<>> /\ Top.at = "FunctionBlock" /\ WellFormed(p) /\ IsText
  BY DEF FunctionBlock, at, Sound
<1> DEFINE r == OpenScope(p)
           s == [scope0 EXCEPT !.inFunction = TRUE, !.inAsync = Top.async,
                               !.allowAwait = Top.allowAwait, !.allowYield = Top.allowYield]
           q == SetScope(r, s)
           a == F("Block")
           b == F("FunctionEnd")
           es == <<a, b>>
<1>2. Leads(q, es)
  BY Ways, ZenonT(30) DEF FunctionBlock
<1>3. /\ Fits(a) /\ a.at = "Block" /\ Fits(b) /\ b.at = "FunctionEnd"
      /\ "at" \in DOMAIN a /\ "at" \in DOMAIN b
  BY DEF F, Fits, StateKinds, MarkKinds, ListKinds, ParamKinds
<1> HIDE DEF a, b
<1>4. /\ Further(p, r) /\ SameLengths(p, r) /\ Len(r.scopes) = Len(p.scopes) + 1
  BY <1>1, OpenScopeReads
<1> HIDE DEF r
<1>5. DOMAIN s = FlagNames
  BY DEF scope0, FlagNames
<1> HIDE DEF s
<1>6. WellFormed(r)
  BY <1>4 DEF Further
<1>7. Further(r, q) /\ SameLengths(r, q) /\ Len(q.scopes) = Len(r.scopes)
  BY <1>1, <1>5, <1>6, SetScopeReads
<1> HIDE DEF q
<1>8. Further(p, q) /\ SameLengths(p, q) /\ Len(q.scopes) = Len(p.scopes) + 1
  <2>1. WellFormed(q)
    BY <1>7 DEF Further
  <2>2. /\ Allowed(p) \in Nat /\ Allowed(q) \in Nat /\ Allowed(r) \in Nat
        /\ \A i \in Positions : /\ Allowance(i, p.recover) \in Nat
                                /\ Allowance(i, q.recover) \in Nat
                                /\ Allowance(i, r.recover) \in Nat
    BY <1>1, <1>6, <2>1, AllowedNat
  <2>3. Further(p, q)
    BY <1>4, <1>7, <2>2 DEF Further
  <2>4. SameLengths(p, q)
    BY <1>4, <1>7 DEF SameLengths
  <2> QED BY <1>4, <1>7, <2>3, <2>4
<1>9. Row(es) /\ DOMAIN es = {1, 2} /\ es[1] = a /\ es[2] = b /\ Len(es) = 2
  BY DEF Row
<1> HIDE DEF es
<1>10. PICK k, t, u : k = 2 /\ t = Tail(todo) /\ u = todo'
  OBVIOUS
<1>11. /\ p' = q /\ Grown(u, t) /\ k = Len(u) - Len(t) /\ u[1] = a /\ u[2] = b
       /\ \A e \in Added(u, t) : e = a \/ e = b
  <2>1. p' = q /\ Grown(todo', Tail(todo))
        /\ \A e \in Added(todo', Tail(todo)) : e = a \/ e = b
    BY <1>1, <1>2, <1>9, Led
  <2>2. Len(todo') - Len(Tail(todo)) = 2 /\ todo'[1] = a /\ todo'[2] = b
    BY <1>1, <1>2, <1>9, LedAt
  <2>3. k = Len(u) - Len(t)
    BY <2>2, <1>10, Zenon
  <2>4. u[1] = a /\ u[2] = b
    BY <2>2, <1>10, Zenon
  <2> QED BY <2>1, <2>3, <2>4, <1>10, Zenon
<1>12. Balanced(p, todo) => Balanced(p', todo')
  <2>1. k # 0 /\ u[k].at = "FunctionEnd" /\ \A i \in 1 .. k - 1 : u[i].at # "FunctionEnd"
    BY <1>3, <1>10, <1>11
  <2>2. Depth(u) = Depth(t) + 1 /\ Depth(t) \in Nat
    BY <1>11, <2>1, DepthFrame
  <2>3. Depth(todo) = Depth(t)
    BY <1>1, <1>10, DepthTop
  <2> QED BY <1>8, <1>10, <1>11, <2>2, <2>3 DEF Balanced
<1>13. {a.at, b.at} \cap (MemberKinds \cup CaseKinds \cup MarkKinds \cup StateKinds \cup ListKinds) = {}
  BY <1>3 DEF MemberKinds, CaseKinds, MarkKinds, StateKinds, ListKinds
<1>14. Grown(todo', Tail(todo)) /\ \A e \in Added(todo', Tail(todo)) : e = a \/ e = b
  BY <1>10, <1>11, Zenon
<1>15. Shape(todo')
  BY <1>1, <1>3, <1>13, <1>14, TopPopped, ShapeFree
<1>16. Top.at \notin MarkKinds \cup StateKinds \cup ListKinds \cup Fresh
  BY <1>1 DEF MarkKinds, StateKinds, ListKinds, Fresh
<1>17. MarksStep
  BY <1>1, <1>8, <1>11, <1>13, <1>14, <1>16 DEF MarksStep, Unframed
<1> QED BY <1>1, <1>3, <1>8, <1>11, <1>12, <1>13, <1>14, <1>15, <1>16, <1>17
        DEF OnStep, SameLengths, Buffers, Kept, Progresses

LEMMA OnFunctionEnd == ASSUME Sound, Balanced(p, todo), FunctionEnd PROVE OnStep
<1>1. todo # <<>> /\ Top.at = "FunctionEnd" /\ WellFormed(p) /\ IsText
  BY DEF FunctionEnd, at, Sound
<1> DEFINE q == CloseScope(p)
<1>2. Ends(q)
  BY Ways, ZenonT(30) DEF FunctionEnd
<1>3. PICK d, t, u : d = Depth(Tail(todo)) /\ t = Tail(todo) /\ u = todo'
  OBVIOUS
<1>4. Depth(todo) = d + 1 /\ d \in Nat /\ Len(p.scopes) = 1 + (d + 1)
  BY <1>1, <1>3, DepthTop DEF Balanced
<1>5. Further(p, q) /\ SameLengths(p, q) /\ Len(q.scopes) = Len(p.scopes) - 1
  <2>1. Len(p.scopes) # 1
    BY <1>4
  <2> QED BY <1>1, <2>1, CloseScopeReads
<1> HIDE DEF q
<1>6. p' = q /\ Grown(todo', Tail(todo)) /\ Added(todo', Tail(todo)) = {}
  BY <1>1, <1>2, Ended
<1>7. Balanced(p', todo')
  <2>1. Grown(u, t) /\ Added(u, t) = {}
    BY <1>3, <1>6, Zenon
  <2>2. Depth(u) = Depth(t)
    BY <2>1, DepthOver
  <2>3. Len(q.scopes) = 1 + d
    BY <1>4, <1>5
  <2> QED BY <1>3, <1>6, <2>2, <2>3 DEF Balanced
<1>8. Shape(todo')
  BY <1>1, <1>6, TopPopped, ShapeFree
<1>9. Top.at \notin MarkKinds \cup StateKinds \cup ListKinds \cup Fresh
  BY <1>1 DEF MarkKinds, StateKinds, ListKinds, Fresh
<1>10. MarksStep
  BY <1>1, <1>5, <1>6, <1>9 DEF MarksStep, Unframed
<1> QED BY <1>1, <1>5, <1>6, <1>7, <1>8, <1>9, <1>10
        DEF OnStep, SameLengths, Buffers, Progresses

-----------------------------------------------------------------------------
(* The parameters of a function *)

\* Sized, but for the flags.
Reaches(q, b, n) ==
    /\ Further(p, q) /\ Len(q.scopes) = Len(p.scopes) /\ Len(q[b]) = n
    /\ \A c \in Buffers \ {b} : Len(q[c]) = Len(p[c])

LEMMA ReachesSized ==
    ASSUME Sound, NEW b \in Buffers, NEW n, NEW q, Sized(q, b, n), NEW flags
    PROVE  /\ Reaches(q, b, n) /\ Reaches(with(q, flags), b, n)
           /\ Past(p, q) => Past(p, with(q, flags))
<1>1. Further(p, q) /\ WellFormed(q) /\ WellFormed(p) /\ IsText /\ Len(q.scopes) = Len(p.scopes)
  BY DEF Sized, Reads, Further, SameFlags, Sound
<1>2. PICK r : r = with(q, flags)
  OBVIOUS
<1>3. /\ Further(q, r) /\ SameLengths(q, r) /\ Len(r.scopes) = Len(q.scopes)
      /\ Allowed(r) = Allowed(q)
  BY <1>1, <1>2, WithReads
<1>4. Further(p, r)
  <2>1. WellFormed(r)
    BY <1>3 DEF Further
  <2>2. /\ Allowed(p) \in Nat /\ Allowed(q) \in Nat /\ Allowed(r) \in Nat
        /\ \A i \in Positions : /\ Allowance(i, p.recover) \in Nat
                                /\ Allowance(i, q.recover) \in Nat
                                /\ Allowance(i, r.recover) \in Nat
    BY <1>1, <2>1, AllowedNat
  <2> QED BY <1>1, <1>3, <2>2 DEF Further
<1> QED BY <1>1, <1>2, <1>3, <1>4 DEF Reaches, Sized, SameLengths, Past

LEMMA ParamKept ==
    ASSUME NEW e, Fits(e), e.at \in ExprKinds \cup ParamKinds
    PROVE  Kept(e) /\ e.at # "FunctionEnd" /\ e.at \notin MemberKinds \cup CaseKinds
BY DEF Fits, Kept, ExprKinds, ParamKinds, StateKinds, ListKinds, MemberKinds, CaseKinds

LEMMA ParamTop ==
    ASSUME Top.at = "Parameters" \/ Top.at \in ParamKinds
    PROVE  Top.at \notin StateKinds \cup ListKinds /\ Top.at # "FunctionEnd"
BY DEF StateKinds, ListKinds, ParamKinds

LEMMA ParamGoesOn ==
    ASSUME Sound, todo # <<>>, NEW q, NEW n, Reaches(q, "declBuf", n), n >= Len(p["declBuf"]),
           NEW es, Leads(q, es), NEW e, LastOf(es, e), Progresses,
           "at" \in DOMAIN e, "mark" \in DOMAIN e, "flags" \in DOMAIN e, e.at \in ParamKinds,
           \/ Top.at = "Parameters" /\ e.mark = Len(p["declBuf"])
           \/ Top.at \in ParamKinds /\ e.mark = Top.mark
    PROVE  OnStep
<1>1. /\ "declBuf" \in Buffers /\ ParamKinds \subseteq MarkFrames["declBuf"]
      /\ "Parameters" \notin MarkKinds /\ "stmtBuf" \in Buffers \ {"declBuf"}
  BY DEF Buffers, ParamKinds, MarkFrames, MarkKinds
<1>2. Fits(e)
  BY DEF Fits, ParamKinds, StateKinds, ListKinds
<1>3. PICK k : k = Len(todo') - Len(Tail(todo))
  OBVIOUS
<1>4. /\ p' = q /\ Grown(todo', Tail(todo)) /\ k \in Nat \ {0} /\ todo'[k] = e
      /\ \A i \in 1 .. k - 1 : "at" \in DOMAIN todo'[i] /\ todo'[i].at \in ExprKinds
      /\ \A d \in Added(todo', Tail(todo)) :
            d = e \/ ("at" \in DOMAIN d /\ d.at \in ExprKinds)
  BY <1>3, LedLast
<1>5. \A d \in Added(todo', Tail(todo)) :
         Fits(d) /\ Kept(d) /\ d.at # "FunctionEnd" /\ d.at \notin MemberKinds \cup CaseKinds
  BY <1>2, <1>4, ExprFits, ParamKept
<1>6. Framed("declBuf", e.mark)
  BY <1>1, <1>3, <1>4, ExprFits DEF Framed
<1>7. Shape(todo')
  BY <1>4, <1>5, ShapeFree, TopPopped
<1>8. MarksStep
  BY <1>1, <1>4, <1>6 DEF Reaches, MarksStep
<1>9. Balanced(p, todo) => Balanced(p', todo')
  BY <1>4, <1>5, ParamTop, BalancedOver DEF Reaches
<1> QED BY <1>1, <1>4, <1>5, <1>7, <1>8, <1>9, ParamTop DEF OnStep, Reaches

LEMMA ParamCloses ==
    ASSUME Sound, todo # <<>>, NEW q, Reaches(q, "declBuf", Top.mark), Ends(q),
           Top.at \in ParamKinds
    PROVE  OnStep
<1>1. /\ "declBuf" \in Buffers /\ ParamKinds \subseteq MarkFrames["declBuf"]
      /\ "stmtBuf" \in Buffers \ {"declBuf"} /\ ParamKinds \cap Fresh = {}
  BY DEF Buffers, ParamKinds, MarkFrames, Fresh
<1>2. p' = q /\ Grown(todo', Tail(todo)) /\ Added(todo', Tail(todo)) = {} /\ Shape(Tail(todo))
  BY Ended, TopPopped
<1>3. Shape(todo')
  BY <1>2, ShapeFree
<1>4. MarksStep
  BY <1>1, <1>2 DEF MarksStep, Unframed, Reaches
<1>5. Balanced(p, todo) => Balanced(p', todo')
  BY <1>2, ParamTop, BalancedOver DEF Reaches
<1> QED BY <1>1, <1>2, <1>3, <1>4, <1>5, ParamTop DEF OnStep, Reaches, Progresses

LEMMA OnParameterList == ASSUME Sound, ParameterList PROVE OnStep
<1>1. todo # <<>> /\ Top.at = "Parameters" /\ Quiet(p, p)
  BY TopPopped DEF ParameterList, at
<1>2. "declBuf" \in Buffers
  BY DEF Buffers
<1> DEFINE n == Len(p["declBuf"])
           r == Expect(p, "(")
           q == with(r, Flag("inFuncParams", TRUE))
           e == [at |-> "NextParameter", mark |-> n, flags |-> saved({"inFuncParams"})]
           es == <<e>>
<1>3. Leads(q, es)
  <2>1. n = Len(p.declBuf)
    OBVIOUS
  <2> QED BY <2>1, Ways, ZenonT(30) DEF ParameterList
<1>4. /\ "at" \in DOMAIN e /\ "mark" \in DOMAIN e /\ "flags" \in DOMAIN e
      /\ e.at \in ParamKinds /\ e.mark = n
  BY DEF ParamKinds
<1> HIDE DEF e
<1>5. LastOf(es, e) /\ Row(es)
  BY DEF LastOf, Row
<1> HIDE DEF es
<1>6. Sized(p, "declBuf", n) /\ n \in Nat
  BY <1>1, <1>2, SizedSelf, SizedAfter
<1>7. Sized(r, "declBuf", n) /\ (Kind(p) # "Eof" => Past(p, r))
  BY <1>1, <1>2, <1>6, SizedAfter, QuietExpect
<1> HIDE DEF r
<1>8. Reaches(q, "declBuf", n) /\ (Kind(p) # "Eof" => Past(p, q))
  BY <1>2, <1>7, ReachesSized
<1> HIDE DEF q
<1>9. p' = q
  BY <1>3, StateAfter
<1>10. Progresses
  BY <1>8, <1>9 DEF Progresses
<1>11. n >= Len(p["declBuf"]) /\ e.mark = Len(p["declBuf"])
  BY <1>4, <1>6
<1> HIDE DEF n
<1> QED BY <1>1, <1>3, <1>4, <1>5, <1>8, <1>10, <1>11, ParamGoesOn

\* What the ways out of a list of parameters start from.
LEMMA ParamState ==
    ASSUME Sound, InOrder(p, todo), todo # <<>>, Top.at \in ParamKinds
    PROVE  /\ "declBuf" \in Buffers /\ Quiet(p, p) /\ Longer(p, "declBuf")
           /\ Top.mark \in 0 .. Len(p["declBuf"]) /\ "mark" \in DOMAIN Top
           /\ "flags" \in DOMAIN Top /\ "at" \in DOMAIN Top /\ Progresses
<1>1. "declBuf" \in Buffers /\ ParamKinds \subseteq MarkFrames["declBuf"]
      /\ ParamKinds \cap Fresh = {}
  BY DEF Buffers, ParamKinds, MarkFrames, Fresh
<1>2. Quiet(p, p) /\ Local(Top, Tail(todo))
  BY TopPopped
<1>3. Longer(p, "declBuf")
  BY <1>1, <1>2, LongerSelf
<1>4. Top.mark \in 0 .. Len(p["declBuf"]) /\ "mark" \in DOMAIN Top
  BY <1>1, TopMark
<1> QED BY <1>1, <1>2, <1>3, <1>4 DEF Local, Progresses

LEMMA ParamFinish ==
    ASSUME Sound, InOrder(p, todo), todo # <<>>, Top.at \in ParamKinds,
           NEW q, Longer(q, "declBuf"), NEW rest1, finishParameters(q, rest1)
    PROVE  OnStep
<1> DEFINE c == Cut(q, "declBuf", Top.mark)
           r == Expect(c, ")")
           s == with(r, Top.flags)
<1>1. Ends(s)
  BY Ways, ZenonT(30) DEF finishParameters
<1>2. "declBuf" \in Buffers /\ Top.mark \in 0 .. Len(p["declBuf"])
  BY ParamState
<1>3. Sized(c, "declBuf", Top.mark)
  BY <1>2, LongerAfter
<1> HIDE DEF c
<1>4. Sized(r, "declBuf", Top.mark)
  BY <1>2, <1>3, SizedClosing
<1> HIDE DEF r
<1>5. Reaches(s, "declBuf", Top.mark)
  BY <1>2, <1>4, ReachesSized
<1> HIDE DEF s
<1> QED BY <1>1, <1>5, ParamCloses

LEMMA ParamLed ==
    ASSUME Sound, InOrder(p, todo), todo # <<>>, Top.at \in ParamKinds,
           NEW q, Longer(q, "declBuf"), NEW es, Leads(q, es),
           NEW e, LastOf(es, e), "at" \in DOMAIN e, "mark" \in DOMAIN e, "flags" \in DOMAIN e,
           e.at \in ParamKinds, e.mark = Top.mark
    PROVE  OnStep
<1>1. "declBuf" \in Buffers /\ Progresses
  BY ParamState
<1>2. PICK n : Sized(q, "declBuf", n) /\ n >= Len(p["declBuf"])
  BY DEF Longer
<1>3. Reaches(q, "declBuf", n)
  BY <1>1, <1>2, ReachesSized
<1> QED BY <1>1, <1>2, <1>3, ParamGoesOn

LEMMA LastOfTwo ==
    ASSUME NEW a, "at" \in DOMAIN a, a.at \in ExprKinds, NEW e
    PROVE  LastOf(<<a, e>>, e)
<1> DEFINE es == <<a, e>>
<1>1. Row(es) /\ DOMAIN es = {1, 2} /\ es[1] = a /\ es[2] = e
  BY DEF Row
<1> HIDE DEF es
<1>2. /\ 2 \in DOMAIN es /\ es[2] = e /\ 2 + 1 \notin DOMAIN es
      /\ \A i \in DOMAIN es : i # 2 => "at" \in DOMAIN es[i] /\ es[i].at \in ExprKinds
  BY <1>1
<1>3. LastOf(es, e)
  BY <1>1, <1>2 DEF LastOf
<1> QED BY <1>3 DEF es

LEMMA OnNextParameter == ASSUME Sound, InOrder(p, todo), NextParameter PROVE OnStep
<1>1. todo # <<>> /\ Top.at = "NextParameter" /\ Top.at \in ParamKinds
  BY DEF NextParameter, at, ParamKinds
<1>2. /\ "declBuf" \in Buffers /\ Longer(p, "declBuf") /\ "mark" \in DOMAIN Top
      /\ "flags" \in DOMAIN Top /\ "at" \in DOMAIN Top
  BY <1>1, ParamState
<1> DEFINE a == F("Assignment")
           b == F("Declaration")
           x == [Top EXCEPT !.at = "RestParameter"]
           y == [Top EXCEPT !.at = "ParameterMade"]
           es == <<a, x>>
           fs == <<b, y>>
<1>3. finishParameters(p, None) \/ Leads(NextToken(p), es) \/ Leads(p, fs)
  BY Ways, ZenonT(30) DEF NextParameter
<1>4. /\ "at" \in DOMAIN x /\ "mark" \in DOMAIN x /\ "flags" \in DOMAIN x
      /\ x.at \in ParamKinds /\ x.mark = Top.mark
      /\ "at" \in DOMAIN y /\ "mark" \in DOMAIN y /\ "flags" \in DOMAIN y
      /\ y.at \in ParamKinds /\ y.mark = Top.mark
  BY <1>2 DEF ParamKinds
<1>5. "at" \in DOMAIN a /\ a.at \in ExprKinds /\ "at" \in DOMAIN b /\ b.at \in ExprKinds
  BY DEF F, ExprKinds
<1> HIDE DEF a, b, x, y
<1>6. LastOf(es, x) /\ LastOf(fs, y)
  BY <1>5, LastOfTwo
<1> HIDE DEF es, fs
<1>7. Longer(NextToken(p), "declBuf")
  BY <1>2, LongerAfter
<1> QED BY <1>1, <1>2, <1>3, <1>4, <1>6, <1>7, ParamFinish, ParamLed

LEMMA OnParameterMade == ASSUME Sound, InOrder(p, todo), ParameterMade PROVE OnStep
<1>1. todo # <<>> /\ Top.at = "ParameterMade" /\ Top.at \in ParamKinds
  BY DEF ParameterMade, at, ParamKinds
<1>2. /\ "declBuf" \in Buffers /\ Longer(p, "declBuf") /\ "mark" \in DOMAIN Top
      /\ "flags" \in DOMAIN Top /\ "at" \in DOMAIN Top
  BY <1>1, ParamState
<1> DEFINE r == Push(p, "declBuf", result)
           q == separated(r, ")")
           e == [Top EXCEPT !.at = "NextParameter"]
           es == <<e>>
<1>3. Leads(q, es)
  BY Ways, ZenonT(30) DEF ParameterMade
<1>4. /\ "at" \in DOMAIN e /\ "mark" \in DOMAIN e /\ "flags" \in DOMAIN e
      /\ e.at \in ParamKinds /\ e.mark = Top.mark
  BY <1>2 DEF ParamKinds
<1> HIDE DEF e
<1>5. LastOf(es, e)
  BY DEF LastOf, Row
<1> HIDE DEF es
<1>6. Longer(r, "declBuf")
  BY <1>2, LongerAfter
<1> HIDE DEF r
<1>7. Longer(q, "declBuf")
  BY <1>2, <1>6, LongerAfter DEF separated
<1> HIDE DEF q
<1> QED BY <1>1, <1>3, <1>4, <1>5, <1>7, ParamLed

LEMMA OnRestParameter == ASSUME Sound, InOrder(p, todo), RestParameter PROVE OnStep
<1>1. todo # <<>> /\ Top.at = "RestParameter" /\ Top.at \in ParamKinds
  BY DEF RestParameter, at, ParamKinds
<1>2. "declBuf" \in Buffers /\ Longer(p, "declBuf")
  BY <1>1, ParamState
<1> DEFINE pat == PatternFrom(result, "binding", Scope(p).allowAwait)
           q == ErrorIf(p, ~pat.ok)
<1>3. finishParameters(q, pat.value)
  BY Zenon DEF RestParameter
<1>4. Longer(q, "declBuf")
  <2> HIDE DEF pat
  <2> QED BY <1>2, LongerAfter
<1> HIDE DEF q, pat
<1> QED BY <1>1, <1>3, <1>4, ParamFinish

-----------------------------------------------------------------------------
(* Lists of statements *)

\* What comes of a step, for the invariant.
Inv(q, t) == WellFormed(q) /\ Shape(t) /\ InOrder(q, t) /\ Balanced(q, t)

LEMMA OnKeeps ==
    ASSUME Sound, InOrder(p, todo), Balanced(p, todo), OnStep
    PROVE  Inv(p', todo')
BY MarksKept DEF Inv, OnStep, Further

StatementFrame(e, mark) ==
    /\ Fits(e) /\ e.at \in ListKinds /\ "mark" \in DOMAIN e /\ e.mark = mark

\* A list of statements begins, below it one entry.
OpensStep ==
    /\ todo # <<>> /\ Top.at \in {"Block", "CaseBody"} /\ Quiet(p, p') /\ Progresses
    /\ Grown(todo', Tail(todo)) /\ Len(todo') - Len(Tail(todo)) = 2
    /\ StatementFrame(todo'[1], Len(p["stmtBuf"])) /\ todo'[1].at = "NextStatement"
    /\ "at" \in DOMAIN todo'[2]
    /\ todo'[2].at = IF Top.at = "Block" THEN "BlockMade" ELSE "CaseMade"

\* Another statement, one more, no more.
TakesStep ==
    /\ todo # <<>> /\ Top.at = "NextStatement" /\ Kind(p) # "Eof"
    /\ Quiet(p, p') /\ Kind(p') = Kind(p)
    /\ Grown(todo', Tail(todo)) /\ Len(todo') - Len(Tail(todo)) = 2
    /\ "at" \in DOMAIN todo'[1] /\ todo'[1].at = "Statement"
    /\ StatementFrame(todo'[2], Top.mark) /\ todo'[2].at = "ListedStatement"

AddsStep ==
    /\ todo # <<>> /\ Top.at = "ListedStatement"
    /\ Sized(p', "stmtBuf", Len(p["stmtBuf"]) + 1)
    /\ Grown(todo', Tail(todo)) /\ Len(todo') - Len(Tail(todo)) = 1
    /\ StatementFrame(todo'[1], Top.mark) /\ todo'[1].at = "NextStatement"

EndsStep ==
    /\ todo # <<>> /\ Top.at = "NextStatement"
    /\ Sized(p', "stmtBuf", Top.mark)
    /\ Grown(todo', Tail(todo)) /\ Added(todo', Tail(todo)) = {}

StatementsStep == OpensStep \/ TakesStep \/ AddsStep \/ EndsStep

\* The two entries on top of a stack, one after the other.
LEMMA GrownByTwo ==
    ASSUME NEW u, NEW t, Grown(u, t), Len(u) - Len(t) = 2
    PROVE  \E v : /\ Grown(v, t) /\ Added(v, t) = {u[2]}
                  /\ Grown(u, v) /\ Added(u, v) = {u[1]} /\ Len(u) - Len(v) = 1
                  /\ v = After(u, 1)
<1> DEFINE v == Tail(u)
<1>1. IsList(u) /\ Len(u) \in Nat /\ Len(t) \in Nat /\ IsList(t)
  BY ListElim DEF Grown
<1>2. u # <<>>
  BY <1>1, ListElim
<1>3. /\ Grown(u, v) /\ Added(u, v) = {Head(u)} /\ Head(u) = u[1] /\ IsList(v)
      /\ Len(v) = Len(u) - 1
  BY <1>1, <1>2, GrownTail, Popped
<1>4. \A i \in 1 .. Len(v) : u[i + 1] = v[i] /\ After(u, i + 1) = After(v, i)
  <2>1. Len(u) - Len(v) = 1
    BY <1>1, <1>3
  <2> QED BY <1>3, <2>1 DEF Grown
<1>5. After(u, 1) = v
  <2>1. Len(u) - Len(v) = 1
    BY <1>1, <1>3
  <2> QED BY <1>3, <2>1 DEF Grown
<1> HIDE DEF v
<1>6. Len(v) - Len(t) = 1 /\ Len(v) \in Nat
  BY <1>1, <1>3
<1>7. \A i \in 1 .. Len(t) : /\ u[i + 2] = t[i] /\ After(u, i + 2) = After(t, i)
                             /\ i + 1 \in 1 .. Len(v) /\ (i + 1) + 1 = i + 2
  BY <1>1, <1>6 DEF Grown
<1>8. After(u, 2) = t /\ 1 \in 1 .. Len(v) /\ 1 + 1 = 2
  BY <1>1, <1>6 DEF Grown
<1>9. After(v, 1) = t /\ v[1] = u[2]
  BY <1>4, <1>8
<1>10. \A i \in 1 .. Len(t) : v[i + 1] = t[i] /\ After(v, i + 1) = After(t, i)
  BY <1>4, <1>7
<1>11. Grown(v, t)
  BY <1>1, <1>3, <1>6, <1>9, <1>10 DEF Grown
<1>12. Added(v, t) = {u[2]}
  BY <1>6, <1>9 DEF Added
<1>13. Len(u) - Len(v) = 1
  BY <1>1, <1>3
<1> QED BY <1>3, <1>5, <1>11, <1>12, <1>13

LEMMA FrameParts ==
    ASSUME NEW e, NEW mark, StatementFrame(e, mark)
    PROVE  /\ e.at \in MarkFrames["stmtBuf"] /\ "stmtBuf" \in Buffers
           /\ \A b \in Buffers \ {"stmtBuf"} : e.at \notin MarkFrames[b]
           /\ Fits(e) /\ e.at \notin MemberKinds \cup CaseKinds \cup StateKinds
           /\ e.at # "FunctionEnd" /\ e.mark = mark
<1>1. e.at \in {"NextStatement", "ListedStatement"}
  BY DEF StatementFrame, ListKinds
<1>2. MarkFrames["stmtBuf"] = {"NextStatement", "ListedStatement"} /\ "stmtBuf" \in Buffers
  BY DEF MarkFrames, Buffers
<1>3. e.at \notin MemberKinds \cup CaseKinds \cup StateKinds /\ e.at # "FunctionEnd"
  BY <1>1 DEF MemberKinds, CaseKinds, StateKinds
<1>4. \A b \in Buffers \ {"stmtBuf"} : e.at \notin MarkFrames[b]
  BY <1>1, <1>2, FrameKinds
<1> QED BY <1>1, <1>2, <1>3, <1>4 DEF StatementFrame

LEMMA OpensKeeps ==
    ASSUME Sound, InOrder(p, todo), Balanced(p, todo), OpensStep
    PROVE  Inv(p', todo')
<1>1. PICK t, u : t = Tail(todo) /\ u = todo'
  OBVIOUS
<1>2. /\ todo # <<>> /\ Top.at \in {"Block", "CaseBody"} /\ Quiet(p, p')
      /\ Grown(u, t) /\ Len(u) - Len(t) = 2
      /\ StatementFrame(u[1], Len(p["stmtBuf"])) /\ "at" \in DOMAIN u[2]
      /\ u[2].at = IF Top.at = "Block" THEN "BlockMade" ELSE "CaseMade"
  <2>1. /\ todo # <<>> /\ Top.at \in {"Block", "CaseBody"} /\ Quiet(p, p')
        /\ Grown(todo', Tail(todo)) /\ Len(todo') - Len(Tail(todo)) = 2
        /\ StatementFrame(todo'[1], Len(p["stmtBuf"])) /\ "at" \in DOMAIN todo'[2]
        /\ todo'[2].at = IF Top.at = "Block" THEN "BlockMade" ELSE "CaseMade"
    BY DEF OpensStep
  <2> QED BY <1>1, <2>1, Zenon
<1>3. PICK v : /\ Grown(v, t) /\ Added(v, t) = {u[2]}
               /\ Grown(u, v) /\ Added(u, v) = {u[1]} /\ Len(u) - Len(v) = 1
  BY <1>2, GrownByTwo
<1>4. /\ u[2].at \notin MarkKinds /\ u[2].at # "FunctionEnd" /\ Fits(u[2])
      /\ u[2].at \notin MemberKinds /\ (u[2].at \in CaseKinds => Top.at \in CaseKinds)
      /\ Top.at \notin MarkKinds /\ Top.at # "FunctionEnd"
  BY <1>2 DEF MarkKinds, Fits, MemberKinds, CaseKinds, StateKinds, ListKinds, ParamKinds
<1>5. /\ Shape(t) /\ Local(Top, t) /\ WellFormed(p')
  BY <1>1, <1>2, TopPopped DEF Quiet, Reads, Further
<1>6. Shape(v)
  <2>1. Sits(u[2], t)
    BY <1>4, <1>5 DEF Sits, Local
  <2>2. Local(u[2], t)
    BY <1>4, <2>1, LocalParts
  <2>3. ASSUME NEW i \in 1 .. Len(v) - Len(t) PROVE Local(v[i], After(v, i))
    <3>1. Len(v) \in Nat /\ Len(t) \in Nat /\ Len(u) \in Nat
      BY <1>3, ListElim DEF Grown
    <3>2. Len(v) - Len(t) = 1
      BY <1>2, <1>3, <3>1
    <3>3. After(v, 1) = t /\ v[1] \in Added(v, t) /\ i = 1
      BY <1>3, <3>2 DEF Grown, Added
    <3> QED BY <1>3, <2>2, <3>3
  <2> QED BY <1>3, <1>5, <2>3, ShapeOver
<1>7. /\ u[1].at \in MarkFrames["stmtBuf"] /\ "stmtBuf" \in Buffers
      /\ \A b \in Buffers \ {"stmtBuf"} : u[1].at \notin MarkFrames[b]
      /\ Fits(u[1]) /\ u[1].at \notin MemberKinds \cup CaseKinds
      /\ u[1].at # "FunctionEnd" /\ u[1].mark = Len(p["stmtBuf"])
  BY <1>2, FrameParts
<1>8. Shape(u)
  BY <1>3, <1>6, <1>7, ShapeFree
<1>9. ASSUME NEW b \in Buffers PROVE Marked(b, Len(p'[b]), u)
  <2>1. /\ IsList(todo) /\ Marked(b, Len(p[b]), todo) /\ Top = Head(todo)
        /\ Grown(todo, t) /\ Added(todo, t) = {Top} /\ Len(p'[b]) = Len(p[b])
        /\ Len(p[b]) \in Nat
    BY <1>1, <1>2, GrownTail, ListElim
       DEF Sound, Shape, InOrder, Top, Quiet, SameLengths, WellFormed
  <2>2. Marked(b, Len(p[b]), t)
    BY <1>4, <2>1, MarkedOver, FrameKinds
  <2>3. Marked(b, Len(p[b]), v)
    BY <1>3, <1>4, <2>2, MarkedOver, FrameKinds
  <2>4. CASE b # "stmtBuf"
    <3>1. u[1].at \notin MarkFrames[b]
      BY <1>7, <2>4
    <3> QED BY <1>3, <2>1, <2>3, <3>1, MarkedOver
  <2>5. CASE b = "stmtBuf"
    <3>1. PICK k : k = 1
      OBVIOUS
    <3>2. /\ k = Len(u) - Len(v) /\ k # 0 /\ u[k].at \in MarkFrames[b]
          /\ (\A i \in 1 .. k - 1 : u[i].at \notin MarkFrames[b])
          /\ Marked(b, u[k].mark, v) /\ u[k].mark <= Len(p[b])
      BY <1>3, <1>7, <2>1, <2>3, <2>5, <3>1
    <3>3. Marked(b, Len(p[b]), u)
      BY <1>3, <2>1, <3>2, MarkedFrame
    <3> QED BY <2>1, <3>3
  <2> QED BY <2>4, <2>5
<1>10. Balanced(p', u)
  <2>1. Depth(todo) = Depth(t)
    BY <1>1, <1>2, <1>4, DepthTop
  <2>2. Depth(v) = Depth(t)
    BY <1>3, <1>4, DepthOver
  <2>3. Depth(u) = Depth(v)
    BY <1>3, <1>7, DepthOver
  <2> QED BY <1>2, <2>1, <2>2, <2>3 DEF Balanced, Quiet, Reads, SameFlags
<1> QED BY <1>1, <1>5, <1>8, <1>9, <1>10 DEF Inv, InOrder

\* A list goes on with its frame below the new entries.
LEMMA ListKeeps ==
    ASSUME Sound, InOrder(p, todo), Balanced(p, todo), todo # <<>>, Top.at \in ListKinds,
           NEW n, Sized(p', "stmtBuf", n), n >= Len(p["stmtBuf"]),
           Grown(todo', Tail(todo)), NEW k, k = Len(todo') - Len(Tail(todo)), k # 0,
           StatementFrame(todo'[k], Top.mark),
           \A i \in 1 .. k - 1 : Free(todo'[i])
    PROVE  Inv(p', todo')
<1>1. /\ todo'[k].at \in MarkFrames["stmtBuf"] /\ "stmtBuf" \in Buffers
      /\ Fits(todo'[k]) /\ todo'[k].at \notin MemberKinds \cup CaseKinds \cup StateKinds
      /\ todo'[k].at # "FunctionEnd" /\ todo'[k].mark = Top.mark
  BY FrameParts
<1>2. \A i \in 1 .. k - 1 : /\ todo'[i].at \notin MemberKinds \cup CaseKinds \cup MarkKinds
                           /\ Fits(todo'[i]) /\ todo'[i].at # "FunctionEnd"
  BY FreeFits
<1>3. \A e \in Added(todo', Tail(todo)) :
         Fits(e) /\ e.at \notin MemberKinds \cup CaseKinds /\ e.at # "FunctionEnd"
  <2>1. k \in Nat
    BY GrownParts
  <2>2. \A i \in 1 .. k : i = k \/ i \in 1 .. k - 1
    BY <2>1, LastOrBefore, Zenon
  <2> QED BY <1>1, <1>2, <2>2 DEF Added
<1>4. Shape(todo')
  BY <1>3, TopPopped, ShapeFree
<1>5. Framed("stmtBuf", Top.mark)
  BY <1>1, <1>2 DEF Framed
<1>6. Top.at \in MarkFrames["stmtBuf"]
  BY DEF ListKinds, MarkFrames
<1>7. WellFormed(p') /\ MarksStep /\ Len(p'.scopes) = Len(p.scopes)
  BY <1>1, <1>5, <1>6 DEF Sized, MarksStep, Reads, Further, SameFlags
<1>8. InOrder(p', todo')
  BY <1>7, MarksKept
<1>9. Balanced(p', todo')
  <2>1. Top.at # "FunctionEnd"
    BY DEF ListKinds
  <2> QED BY <1>3, <1>7, <2>1, BalancedOver
<1> QED BY <1>4, <1>7, <1>8, <1>9 DEF Inv

LEMMA TakesKeeps ==
    ASSUME Sound, InOrder(p, todo), Balanced(p, todo), TakesStep
    PROVE  Inv(p', todo')
<1>1. PICK k : k = Len(todo') - Len(Tail(todo))
  OBVIOUS
<1>2. k = 2
  BY <1>1 DEF TakesStep
<1>3. "stmtBuf" \in Buffers
  BY DEF Buffers
<1>4. Sized(p', "stmtBuf", Len(p["stmtBuf"])) /\ Len(p["stmtBuf"]) \in Nat
  BY <1>3, SizedSelf, SizedAfter DEF TakesStep
<1>5. Free(todo'[1]) /\ Top.at \in ListKinds
  BY DEF TakesStep, Free, FreeKinds, PlainStmts, ListKinds
<1>6. StatementFrame(todo'[k], Top.mark) /\ \A i \in 1 .. k - 1 : Free(todo'[i])
  BY <1>2, <1>5 DEF TakesStep
<1>7. todo # <<>> /\ Grown(todo', Tail(todo)) /\ k # 0
  BY <1>2 DEF TakesStep
<1> QED BY <1>1, <1>4, <1>5, <1>6, <1>7, ListKeeps

LEMMA AddsKeeps ==
    ASSUME Sound, InOrder(p, todo), Balanced(p, todo), AddsStep
    PROVE  Inv(p', todo')
<1>1. PICK k : k = Len(todo') - Len(Tail(todo))
  OBVIOUS
<1>2. k = 1
  BY <1>1 DEF AddsStep
<1>3. "stmtBuf" \in Buffers
  BY DEF Buffers
<1>4. Sized(p', "stmtBuf", Len(p["stmtBuf"]) + 1) /\ Len(p["stmtBuf"]) \in Nat
  BY <1>3, TopPopped, SizedSelf, SizedAfter DEF AddsStep
<1>5. Top.at \in ListKinds /\ Len(p["stmtBuf"]) + 1 >= Len(p["stmtBuf"])
  BY <1>4 DEF AddsStep, ListKinds
<1>6. StatementFrame(todo'[k], Top.mark) /\ \A i \in 1 .. k - 1 : Free(todo'[i])
  BY <1>2 DEF AddsStep
<1>7. todo # <<>> /\ Grown(todo', Tail(todo)) /\ k # 0
  BY <1>2 DEF AddsStep
<1> QED BY <1>1, <1>4, <1>5, <1>6, <1>7, ListKeeps

LEMMA EndsKeeps ==
    ASSUME Sound, InOrder(p, todo), Balanced(p, todo), EndsStep
    PROVE  Inv(p', todo')
<1>1. /\ todo # <<>> /\ Top.at = "NextStatement" /\ Sized(p', "stmtBuf", Top.mark)
      /\ Grown(todo', Tail(todo)) /\ Added(todo', Tail(todo)) = {}
  BY DEF EndsStep
<1>2. "stmtBuf" \in Buffers /\ Top.at \in MarkFrames["stmtBuf"]
  BY <1>1 DEF Buffers, MarkFrames
<1>3. Shape(todo')
  BY <1>1, TopPopped, ShapeFree
<1>4. WellFormed(p') /\ MarksStep /\ Len(p'.scopes) = Len(p.scopes)
  BY <1>1, <1>2 DEF Sized, MarksStep, Unframed, Reads, Further, SameFlags
<1>5. InOrder(p', todo')
  BY <1>4, MarksKept
<1>6. Balanced(p', todo')
  BY <1>1, <1>4, BalancedOver
<1> QED BY <1>3, <1>4, <1>5, <1>6 DEF Inv

-----------------------------------------------------------------------------

LEMMA StatementsStatementList == ASSUME Sound, InOrder(p, todo), StatementList PROVE StatementsStep
<1>1. todo # <<>> /\ Top.at = "NextStatement" /\ Quiet(p, p) /\ Local(Top, Tail(todo))
  BY TopPopped DEF StatementList, at
<1>2. "stmtBuf" \in Buffers /\ Top.at \in MarkFrames["stmtBuf"]
  BY <1>1 DEF Buffers, MarkFrames
<1>3. Top.mark \in 0 .. Len(p["stmtBuf"]) /\ "mark" \in DOMAIN Top
  BY <1>1, <1>2, TopMark
<1> DEFINE q == with(p, Flag("allowLet", TRUE))
           a == F("Statement")
           b == [Top EXCEPT !.at = "ListedStatement"]
           es == <<a, b>>
<1>4. \/ Ends(Cut(p, "stmtBuf", Top.mark))
      \/ Kind(p) \notin Top.ends /\ Leads(q, es)
  BY Ways, ZenonT(30) DEF StatementList
<1>5. Kind(p) \notin Top.ends => Kind(p) # "Eof"
  BY <1>1 DEF Local, ListKinds
<1>6. ASSUME Ends(Cut(p, "stmtBuf", Top.mark)) PROVE EndsStep
  <2>1. Sized(p, "stmtBuf", Len(p["stmtBuf"]))
    BY <1>1, <1>2, SizedSelf
  <2>2. Sized(Cut(p, "stmtBuf", Top.mark), "stmtBuf", Top.mark)
    BY <1>2, <1>3, <2>1, SizedAfter
  <2> QED BY <1>1, <1>6, <2>2, Ended DEF EndsStep
<1>7. /\ "at" \in DOMAIN a /\ a.at = "Statement"
      /\ StatementFrame(b, Top.mark) /\ b.at = "ListedStatement"
  <2>1. "at" \in DOMAIN Top /\ "ends" \in DOMAIN Top /\ "Eof" \in Top.ends
    BY <1>1 DEF Local, ListKinds
  <2>2. /\ "at" \in DOMAIN b /\ "mark" \in DOMAIN b /\ "ends" \in DOMAIN b
        /\ b.at = "ListedStatement" /\ b.mark = Top.mark /\ b.ends = Top.ends
    BY <1>3, <2>1
  <2> HIDE DEF b
  <2> QED BY <2>1, <2>2 DEF F, StatementFrame, Fits, StateKinds, ListKinds, ParamKinds
<1> HIDE DEF a, b
<1>8. Quiet(p, q) /\ Kind(q) = Kind(p)
  <2>1. DOMAIN Flag("allowLet", TRUE) \cap Tracked = {}
    BY DEF Flag, Tracked
  <2> QED BY <1>1, <2>1, QuietWith
<1> HIDE DEF q
<1>9. Row(es) /\ DOMAIN es = {1, 2} /\ es[1] = a /\ es[2] = b /\ Len(es) = 2
  BY DEF Row
<1> HIDE DEF es
<1>10. ASSUME Leads(q, es), Kind(p) # "Eof" PROVE TakesStep
  <2>1. p' = q /\ Grown(todo', Tail(todo))
    BY <1>1, <1>9, <1>10, Led
  <2>2. Leads(q, es)
    BY <1>10
  <2>3. Len(todo') - Len(Tail(todo)) = 2 /\ todo'[1] = a /\ todo'[2] = b
    <3>1. Len(todo') - Len(Tail(todo)) = Len(es) /\ \A i \in DOMAIN es : todo'[i] = es[i]
      BY <1>1, <1>9, <2>2, LedAt
    <3> QED BY <1>9, <3>1
  <2> QED BY <1>1, <1>7, <1>8, <1>10, <2>1, <2>3 DEF TakesStep
<1> QED BY <1>4, <1>5, <1>6, <1>10 DEF StatementsStep

LEMMA StatementsListedStatement == ASSUME Sound, InOrder(p, todo), ListedStatement PROVE StatementsStep
<1>1. todo # <<>> /\ Top.at = "ListedStatement" /\ Quiet(p, p) /\ Local(Top, Tail(todo))
  BY TopPopped DEF ListedStatement, at
<1>2. "stmtBuf" \in Buffers /\ Top.at \in MarkFrames["stmtBuf"]
  BY <1>1 DEF Buffers, MarkFrames
<1>3. Top.mark \in 0 .. Len(p["stmtBuf"]) /\ "mark" \in DOMAIN Top
  BY <1>1, <1>2, TopMark
<1> DEFINE q == Push(p, "stmtBuf", result)
           b == [Top EXCEPT !.at = "NextStatement"]
           es == <<b>>
<1>4. Leads(q, es)
  BY Ways, ZenonT(30) DEF ListedStatement
<1>5. StatementFrame(b, Top.mark) /\ b.at = "NextStatement"
  <2>1. "at" \in DOMAIN Top /\ "ends" \in DOMAIN Top /\ "Eof" \in Top.ends
    BY <1>1 DEF Local, ListKinds
  <2>2. /\ "at" \in DOMAIN b /\ "mark" \in DOMAIN b /\ "ends" \in DOMAIN b
        /\ b.at = "NextStatement" /\ b.mark = Top.mark /\ b.ends = Top.ends
    BY <1>3, <2>1
  <2> HIDE DEF b
  <2> QED BY <2>1, <2>2 DEF StatementFrame, Fits, StateKinds, ListKinds, ParamKinds
<1> HIDE DEF b
<1>6. Sized(q, "stmtBuf", Len(p["stmtBuf"]) + 1)
  <2>1. Sized(p, "stmtBuf", Len(p["stmtBuf"]))
    BY <1>1, <1>2, SizedSelf
  <2> QED BY <1>2, <2>1, SizedAfter
<1> HIDE DEF q
<1>7. Row(es) /\ DOMAIN es = {1} /\ es[1] = b /\ Len(es) = 1
  BY DEF Row
<1> HIDE DEF es
<1>8. p' = q /\ Grown(todo', Tail(todo))
  BY <1>1, <1>4, <1>7, Led
<1>9. Len(todo') - Len(Tail(todo)) = 1 /\ todo'[1] = b
  BY <1>1, <1>4, <1>7, LedAt
<1> QED BY <1>1, <1>5, <1>6, <1>8, <1>9 DEF AddsStep, StatementsStep

\* A block, and the body of a case.
LEMMA OpensBy ==
    ASSUME Sound, todo # <<>>, Top.at \in {"Block", "CaseBody"},
           NEW q, Quiet(p, q), Top.at = "Block" /\ Kind(p) # "Eof" => Past(p, q),
           NEW ends, "Eof" \in ends, NEW b, "at" \in DOMAIN b,
           b.at = IF Top.at = "Block" THEN "BlockMade" ELSE "CaseMade",
           Leads(q, <<statements(q, ends), b>>)
    PROVE  StatementsStep
<1> DEFINE a == statements(q, ends)
           es == <<a, b>>
<1>1. StatementFrame(a, Len(p["stmtBuf"])) /\ a.at = "NextStatement"
  <2>1. Len(q.stmtBuf) = Len(p["stmtBuf"])
    BY DEF Quiet, SameLengths, Buffers
  <2>2. /\ "at" \in DOMAIN a /\ "mark" \in DOMAIN a /\ "ends" \in DOMAIN a
        /\ a.at = "NextStatement" /\ a.mark = Len(p["stmtBuf"]) /\ a.ends = ends
    BY <2>1 DEF statements
  <2> HIDE DEF a
  <2> QED BY <2>2 DEF StatementFrame, Fits, StateKinds, ListKinds, ParamKinds
<1> HIDE DEF a
<1>2. Row(es) /\ DOMAIN es = {1, 2} /\ es[1] = a /\ es[2] = b /\ Len(es) = 2
  BY DEF Row
<1>3. Leads(q, es)
  BY DEF a
<1> HIDE DEF es
<1>4. p' = q /\ Grown(todo', Tail(todo))
  BY <1>2, <1>3, Led
<1>5. Len(todo') - Len(Tail(todo)) = 2 /\ todo'[1] = a /\ todo'[2] = b
  BY <1>2, <1>3, LedAt
<1>6. Progresses
  BY <1>4 DEF Progresses, Fresh
<1> QED BY <1>1, <1>4, <1>5, <1>6 DEF OpensStep, StatementsStep

LEMMA StatementsBlock == ASSUME Sound, BlockStatement PROVE StatementsStep
<1>1. todo # <<>> /\ Top.at = "Block" /\ Quiet(p, p)
  BY TopPopped DEF BlockStatement, at
<1> DEFINE q == Expect(p, "{")
           b == F("BlockMade")
<1>2. Leads(q, <<statements(q, BlockEnds), b>>)
  BY Ways, ZenonT(30) DEF BlockStatement
<1>3. "at" \in DOMAIN b /\ b.at = "BlockMade" /\ "Eof" \in BlockEnds
  BY DEF F, BlockEnds
<1> HIDE DEF b
<1>4. Quiet(p, q) /\ (Kind(p) # "Eof" => Past(p, q))
  BY <1>1, QuietExpect
<1> HIDE DEF q
<1> QED BY <1>1, <1>2, <1>3, <1>4, OpensBy

LEMMA StatementsCaseBody == ASSUME Sound, CaseBody PROVE StatementsStep
<1>1. todo # <<>> /\ Top.at = "CaseBody" /\ Quiet(p, p)
  BY TopPopped DEF CaseBody, at
<1> DEFINE q == Expect(p, ":")
           b == [at |-> "CaseMade", test |-> result]
<1>2. Leads(q, <<statements(q, CaseEnds), b>>)
  BY Ways, ZenonT(30) DEF CaseBody
<1>3. "at" \in DOMAIN b /\ b.at = "CaseMade" /\ "Eof" \in CaseEnds
  BY DEF CaseEnds
<1> HIDE DEF b
<1>4. Quiet(p, q)
  BY <1>1, QuietExpect
<1> HIDE DEF q
<1> QED BY <1>1, <1>2, <1>3, <1>4, OpensBy

-----------------------------------------------------------------------------
(* Marks to go back to *)

\* A mark is taken for the call that begins.
SavesStep ==
    /\ todo # <<>> /\ Top.at \in {"Assignment", "Yield"}
    /\ Quiet(p, p') /\ Progresses
    /\ Grown(todo', Tail(todo)) /\ Len(todo') - Len(Tail(todo)) = 2
    /\ "at" \in DOMAIN todo'[1] /\ todo'[1].at \in {"Conditional", "Assignment"}
    /\ Fits(todo'[2]) /\ todo'[2].at \in StateKinds
    /\ \/ todo'[2].at = "AssignmentRest" /\ todo'[2].state = Mark(p)
       \/ /\ todo'[2].at = "YieldMade" /\ todo'[2].state = Mark(p')
          /\ Kind(p) # "Eof" => Past(p, p')

Calmer(e) ==
    /\ "at" \in DOMAIN e
    /\ \/ e.at \in ExprKinds
       \/ e.at = "PutBack" /\ DOMAIN e.flags \cap Tracked = {}

\* A mark is not needed any more.
DropsStep ==
    /\ todo # <<>> /\ Top.at \in StateKinds /\ Quiet(p, p')
    /\ Grown(todo', Tail(todo)) /\ \A e \in Added(todo', Tail(todo)) : Calmer(e)

\* Parsing goes back to a mark.
BackStep ==
    /\ todo # <<>> /\ Top.at \in StateKinds /\ MarkFits(Top.state)
    /\ WellFormed(p') /\ SameLengths(p, p') /\ SameFlags(p, p')
    /\ p'.recover = p.recover /\ p'.errors = Top.state.errors
    /\ Grown(todo', Tail(todo)) /\ \A e \in Added(todo', Tail(todo)) : Calmer(e)
    /\ Allowance(Top.state.pos, p.recover) <= Allowed(p')
    /\ Top.at = "AssignmentRest" /\ Top.state.token.kind # "Eof"
       => \/ Allowance(Top.state.pos, p.recover) + 1 <= Allowed(p')
          \/ todo' # <<>> /\ Head(todo').at \in Fresh /\ Kind(p') # "Eof"

StatesStep == SavesStep \/ DropsStep \/ BackStep

LEMMA CalmerFits ==
    ASSUME NEW e, Calmer(e)
    PROVE  /\ Fits(e) /\ e.at \notin MemberKinds \cup CaseKinds \cup MarkKinds
           /\ e.at # "FunctionEnd" /\ e.at \notin StateKinds \cup ListKinds
<1>1. "at" \in DOMAIN e /\ e.at \in ExprKinds \cup {"PutBack"}
  BY DEF Calmer
<1>2. Fits(e) /\ e.at \notin MemberKinds \cup CaseKinds \cup MarkKinds
  BY <1>1, ExprFits
<1>3. e.at # "FunctionEnd" /\ e.at \notin StateKinds \cup ListKinds
  BY <1>1 DEF ExprKinds, StateKinds, ListKinds
<1> QED BY <1>2, <1>3

\* What is no frame and ends no function.
LEMMA SameLengthsKeep ==
    ASSUME Sound, InOrder(p, todo), Balanced(p, todo), todo # <<>>,
           Top.at \notin MarkKinds, Top.at # "FunctionEnd",
           WellFormed(p'), SameLengths(p, p'), SameFlags(p, p'),
           Grown(todo', Tail(todo)),
           \A e \in Added(todo', Tail(todo)) :
              /\ Fits(e) /\ e.at \notin MemberKinds \cup CaseKinds \cup MarkKinds
              /\ e.at # "FunctionEnd"
    PROVE  Inv(p', todo')
<1>1. Shape(todo')
  BY TopPopped, ShapeFree
<1>2. MarksStep
  BY DEF MarksStep, Unframed
<1>3. InOrder(p', todo')
  BY <1>2, MarksKept
<1>4. Balanced(p', todo')
  BY BalancedOver DEF SameFlags
<1> QED BY <1>1, <1>3, <1>4 DEF Inv

LEMMA StatesKeep ==
    ASSUME Sound, InOrder(p, todo), Balanced(p, todo), StatesStep
    PROVE  Inv(p', todo')
<1>1. ASSUME DropsStep \/ BackStep PROVE Inv(p', todo')
  <2>1. /\ todo # <<>> /\ Top.at \in StateKinds
        /\ WellFormed(p') /\ SameLengths(p, p') /\ SameFlags(p, p')
        /\ Grown(todo', Tail(todo)) /\ \A e \in Added(todo', Tail(todo)) : Calmer(e)
    BY <1>1 DEF DropsStep, BackStep, Quiet, Reads, Further
  <2>2. Top.at \notin MarkKinds /\ Top.at # "FunctionEnd"
    BY <2>1 DEF StateKinds, MarkKinds
  <2> QED BY <2>1, <2>2, CalmerFits, SameLengthsKeep
<1>2. ASSUME SavesStep PROVE Inv(p', todo')
  <2>1. PICK t, u : t = Tail(todo) /\ u = todo'
    OBVIOUS
  <2>2. /\ todo # <<>> /\ Top.at \in {"Assignment", "Yield"}
        /\ Grown(u, t) /\ Len(u) - Len(t) = 2
        /\ "at" \in DOMAIN u[1] /\ u[1].at \in {"Conditional", "Assignment"}
        /\ Fits(u[2]) /\ u[2].at \in StateKinds
    <3>1. /\ todo # <<>> /\ Top.at \in {"Assignment", "Yield"}
          /\ Grown(todo', Tail(todo)) /\ Len(todo') - Len(Tail(todo)) = 2
          /\ "at" \in DOMAIN todo'[1] /\ todo'[1].at \in {"Conditional", "Assignment"}
          /\ Fits(todo'[2]) /\ todo'[2].at \in StateKinds
      BY <1>2 DEF SavesStep
    <3> QED BY <2>1, <3>1, Zenon
  <2>3. WellFormed(p') /\ SameLengths(p, p') /\ SameFlags(p, p')
    BY <1>2 DEF SavesStep, Quiet, Reads, Further
  <2>4. Top.at \notin MarkKinds /\ Top.at # "FunctionEnd"
    BY <2>2 DEF MarkKinds
  <2>5. /\ Fits(u[1]) /\ u[1].at \notin MemberKinds \cup CaseKinds \cup MarkKinds
        /\ u[1].at # "FunctionEnd"
    BY <2>2 DEF Fits, StateKinds, MarkKinds, ListKinds, ParamKinds, MemberKinds, CaseKinds
  <2>6. u[2].at \notin MemberKinds \cup CaseKinds \cup MarkKinds /\ u[2].at # "FunctionEnd"
    BY <2>2 DEF StateKinds, MarkKinds, MemberKinds, CaseKinds
  <2>7. \A e \in Added(u, t) : e = u[1] \/ e = u[2]
    <3>1. \A i \in 1 .. 2 : i = 1 \/ i = 2
      OBVIOUS
    <3> QED BY <2>2, <3>1 DEF Added
  <2>8. Grown(todo', Tail(todo)) /\ \A e \in Added(todo', Tail(todo)) : e = u[1] \/ e = u[2]
    BY <2>1, <2>2, <2>7, Zenon
  <2> QED BY <2>2, <2>3, <2>4, <2>5, <2>6, <2>8, SameLengthsKeep
<1> QED BY <1>1, <1>2 DEF StatesStep

LEMMA PatchKeeps ==
    ASSUME Sound, InOrder(p, todo), Balanced(p, todo), PatchStep
    PROVE  Inv(p', todo')
<1>1. InOrder(p', todo')
  BY PatchMarks
<1>2. PICK t, s, u : t = Tail(todo) /\ s = Tail(t) /\ u = todo'
  OBVIOUS
<1>3. /\ todo # <<>> /\ Top.at \in {"Field", "CaseMade"} /\ Quiet(p, p') /\ t # <<>>
      /\ Head(t).at \in PatchKinds /\ Shape(u) /\ Grown(u, s)
      /\ \A e \in Added(u, s) : e.at # "FunctionEnd"
  <2>1. /\ todo # <<>> /\ Top.at \in {"Field", "CaseMade"} /\ Quiet(p, p') /\ Tail(todo) # <<>>
        /\ Head(Tail(todo)).at \in PatchKinds /\ Shape(todo')
        /\ Grown(todo', Tail(Tail(todo)))
        /\ Added(todo', Tail(Tail(todo))) = {todo'[1]}
        /\ todo'[1].at \in {"ClassEnd", "NextCase"}
    BY DEF PatchStep
  <2>2. \A e \in Added(todo', Tail(Tail(todo))) : e.at # "FunctionEnd"
    BY <2>1
  <2> QED BY <1>2, <2>1, <2>2, Zenon
<1>4. IsList(t)
  BY <1>2, <1>3, TopPopped
<1>5. Grown(t, s) /\ Added(t, s) = {Head(t)} /\ Head(t).at # "FunctionEnd"
  BY <1>2, <1>3, <1>4, GrownTail DEF PatchKinds
<1>6. Depth(todo) = Depth(t)
  BY <1>2, <1>3, DepthTop
<1>7. Depth(t) = Depth(s)
  BY <1>5, DepthOver
<1>8. Depth(u) = Depth(s)
  BY <1>3, DepthOver
<1>9. Balanced(p', todo')
  BY <1>2, <1>3, <1>6, <1>7, <1>8 DEF Balanced, Quiet, Reads, SameFlags
<1> QED BY <1>1, <1>2, <1>3, <1>9 DEF Inv, Quiet, Reads, Further

LEMMA MarkOf ==
    ASSUME NEW q, WellFormed(q), IsText
    PROVE  /\ MarkFits(Mark(q)) /\ Mark(q).pos = q.pos /\ Mark(q).token = q.token
           /\ Mark(q).errors = q.errors
BY DEF WellFormed, MarkFits, Mark

LEMMA SavesBy ==
    ASSUME Sound, todo # <<>>, NEW q, Quiet(p, q), NEW a, NEW e, Leads(q, <<a, e>>),
           "at" \in DOMAIN a, "at" \in DOMAIN e, e.at \in StateKinds,
           \/ /\ Top.at = "Assignment" /\ a.at = "Conditional"
              /\ e.at = "AssignmentRest" /\ e.state = Mark(p)
              /\ Kind(p) # "Eof" => Kind(q) # "Eof"
           \/ /\ Top.at = "Yield" /\ a.at = "Assignment"
              /\ e.at = "YieldMade" /\ e.state = Mark(q)
              /\ Kind(p) # "Eof" => Past(p, q)
    PROVE  SavesStep
<1> DEFINE es == <<a, e>>
<1>1. Row(es) /\ DOMAIN es = {1, 2} /\ es[1] = a /\ es[2] = e /\ Len(es) = 2
  BY DEF Row
<1>2. Leads(q, es)
  OBVIOUS
<1> HIDE DEF es
<1>3. p' = q /\ Grown(todo', Tail(todo)) /\ todo' # <<>> /\ Head(todo') = a
  BY <1>1, <1>2, Led
<1>4. Len(todo') - Len(Tail(todo)) = 2 /\ todo'[1] = a /\ todo'[2] = e
  BY <1>1, <1>2, LedAt
<1>5. MarkFits(e.state)
  <2>1. WellFormed(p) /\ WellFormed(q) /\ IsText
    BY DEF Sound, Quiet, Reads, Further
  <2> QED BY <2>1, MarkOf
<1>6. Fits(e)
  BY <1>5 DEF Fits, StateKinds, MarkKinds, ListKinds, ParamKinds
<1>7. Progresses
  BY <1>3 DEF Progresses, Fresh
<1> QED BY <1>3, <1>4, <1>6, <1>7 DEF SavesStep

\* One entry that says nothing.
LEMMA OneEntry ==
    ASSUME NEW e, "at" \in DOMAIN e, e.at \in ExprKinds
    PROVE  Row(<<e>>) /\ \A d : (\E i \in DOMAIN <<e>> : d = <<e>>[i]) => d = e
BY DEF Row

LEMMA PlainOne ==
    ASSUME Sound, todo # <<>>, Top.at \in ExprKinds, NEW q, Quiet(p, q),
           NEW e, "at" \in DOMAIN e, e.at \in ExprKinds, Leads(q, <<e>>),
           \/ Kind(p) # "Eof" => Past(p, q)
           \/ e.at \in Fresh /\ (Kind(p) # "Eof" => Kind(q) # "Eof")
    PROVE  PlainStep
<1>1. Row(<<e>>) /\ <<e>>[1] = e /\ \A d : (\E i \in DOMAIN <<e>> : d = <<e>>[i]) => d = e
  BY OneEntry
<1>2. /\ p' = q /\ Grown(todo', Tail(todo)) /\ todo' # <<>> /\ Head(todo') = e
      /\ \A d \in Added(todo', Tail(todo)) : d = e
  BY <1>1, Led
<1>3. Neutral(e, PlainOf(Top.at))
  BY PlainEntry
<1> QED BY <1>2, <1>3 DEF PlainStep, Adds, Progresses

LEMMA SavesAssignment == ASSUME Sound, Assignment PROVE SavesStep \/ PlainStep
<1>1. todo # <<>> /\ Top.at = "Assignment" /\ Quiet(p, p)
  BY TopPopped DEF Assignment, at
<1>2. \/ \E y, z : Leads(p, <<F("Conditional"), rest(y, z)>>)
      \/ \E y, z : Leads(TokenToBindingId(p), <<F("Conditional"), rest(y, z)>>)
      \/ Leads(NextToken(p), <<F("SingleArgArrow")>>)
      \/ Leads(p, <<F("Yield")>>)
  BY Ways, ZenonT(60) DEF Assignment
<1>3. /\ Quiet(p, TokenToBindingId(p)) /\ Quiet(p, NextToken(p))
      /\ Kind(p) # "Eof" => Kind(TokenToBindingId(p)) # "Eof" /\ Past(p, NextToken(p))
  BY <1>1, QuietBindingId, QuietNextToken
<1>4. "Assignment" \in ExprKinds /\ "SingleArgArrow" \in ExprKinds /\ "Yield" \in ExprKinds
      /\ "Yield" \in Fresh
  BY DEF ExprKinds, Fresh
<1>5. /\ "at" \in DOMAIN F("Conditional") /\ F("Conditional").at = "Conditional"
      /\ "at" \in DOMAIN F("SingleArgArrow") /\ F("SingleArgArrow").at = "SingleArgArrow"
      /\ "at" \in DOMAIN F("Yield") /\ F("Yield").at = "Yield"
  BY DEF F
<1>6. ASSUME NEW y, NEW z
      PROVE  /\ "at" \in DOMAIN rest(y, z) /\ rest(y, z).at = "AssignmentRest"
             /\ rest(y, z).at \in StateKinds /\ rest(y, z).state = Mark(p)
  BY DEF rest, StateKinds
<1>7. ASSUME NEW q, Quiet(p, q), Kind(p) # "Eof" => Kind(q) # "Eof",
             NEW y, NEW z, Leads(q, <<F("Conditional"), rest(y, z)>>)
      PROVE  SavesStep
  BY <1>1, <1>5, <1>6, <1>7, SavesBy
<1>8. ASSUME Leads(NextToken(p), <<F("SingleArgArrow")>>) PROVE PlainStep
  BY <1>1, <1>3, <1>4, <1>5, <1>8, PlainOne
<1>9. ASSUME Leads(p, <<F("Yield")>>) PROVE PlainStep
  BY <1>1, <1>4, <1>5, <1>9, PlainOne
<1> QED BY <1>1, <1>2, <1>3, <1>7, <1>8, <1>9

LEMMA SavesYield == ASSUME Sound, YieldExpression PROVE SavesStep \/ PlainStep
<1>1. todo # <<>> /\ Top.at = "Yield" /\ Quiet(p, p)
  BY TopPopped DEF YieldExpression, at
<1> DEFINE q == ErrorIf(NextToken(p), Scope(p).inFuncParams)
           star == Kind(q) = "*" /\ ~q.token.onNewLine
           r == IF star THEN NextToken(q) ELSE q
           a == F("Assignment")
           e == [at |-> "YieldMade", star |-> star, state |-> Mark(r)]
<1>2. Ends(r) \/ Leads(r, <<a, e>>)
  BY Ways, ZenonT(30) DEF YieldExpression
<1>3. /\ "at" \in DOMAIN a /\ a.at = "Assignment"
      /\ "at" \in DOMAIN e /\ e.at = "YieldMade" /\ e.state = Mark(r)
  BY DEF F
<1> HIDE DEF a, e
<1>4. Quiet(p, NextToken(p)) /\ (Kind(p) # "Eof" => Past(p, NextToken(p)))
  BY <1>1, QuietNextToken
<1>5. Quiet(p, q) /\ (Kind(p) # "Eof" => Past(p, q))
  BY <1>4, QuietErrorIf
<1> HIDE DEF q, star
<1>6. Quiet(p, r) /\ (Kind(p) # "Eof" => Past(p, r))
  BY <1>5, QuietNextToken
<1> HIDE DEF r
<1>7. e.at \in StateKinds /\ Top.at \in ExprKinds
  BY <1>1, <1>3 DEF StateKinds, ExprKinds
<1>8. ASSUME Leads(r, <<a, e>>) PROVE SavesStep
  BY <1>1, <1>3, <1>6, <1>7, <1>8, SavesBy
<1>9. ASSUME Ends(r) PROVE PlainStep
  <2>1. p' = r /\ Grown(todo', Tail(todo)) /\ Added(todo', Tail(todo)) = {}
    BY <1>1, <1>9, Ended
  <2> QED BY <1>1, <1>6, <1>7, <2>1 DEF PlainStep, Adds, Progresses
<1> QED BY <1>2, <1>8, <1>9

LEMMA DropsEnd ==
    ASSUME Sound, todo # <<>>, Top.at \in StateKinds, NEW q, Quiet(p, q), Ends(q)
    PROVE  DropsStep
BY Ended DEF DropsStep

LEMMA DropsLead ==
    ASSUME Sound, todo # <<>>, Top.at \in StateKinds, NEW q, Quiet(p, q),
           NEW es, Leads(q, es), Row(es), \A i \in DOMAIN es : Calmer(es[i])
    PROVE  DropsStep
BY Led DEF DropsStep

LEMMA DropsAssignmentRest == ASSUME Sound, AssignmentRest PROVE DropsStep
<1>1. todo # <<>> /\ Top.at = "AssignmentRest" /\ Quiet(p, p) /\ Top.at \in StateKinds
  BY TopPopped DEF AssignmentRest, at, StateKinds
<1>2. Ends(p)
  BY Ways, ZenonT(30) DEF AssignmentRest
<1> QED BY <1>1, <1>2, DropsEnd

LEMMA DropsAssignTarget == ASSUME Sound, AssignTarget PROVE DropsStep
<1>1. todo # <<>> /\ Top.at = "AssignmentRest" /\ Quiet(p, p) /\ Top.at \in StateKinds
  BY TopPopped DEF AssignTarget, at, StateKinds
<1> DEFINE q == NextToken(p)
           target == PatternFrom(result, "assign", FALSE)
           r == ErrorIf(q, ~target.ok)
           a == F("Assignment")
           e == [at |-> "AssignMade", op |-> Kind(p), left |-> target.value]
           es == <<a, e>>
<1>2. Leads(r, es) \/ Ends(NextStatement(Error(q)))
  BY Ways, ZenonT(30) DEF AssignTarget
<1>3. Calmer(a) /\ Calmer(e)
  BY DEF F, Calmer, ExprKinds
<1> HIDE DEF a, e
<1>4. Row(es) /\ DOMAIN es = {1, 2} /\ es[1] = a /\ es[2] = e
  BY DEF Row
<1> HIDE DEF es, target
<1>5. Quiet(p, q)
  BY <1>1, QuietNextToken
<1> HIDE DEF q
<1>6. Quiet(p, r) /\ Quiet(p, NextStatement(Error(q)))
  BY <1>5, QuietErrorIf, QuietError, QuietNextStatement
<1> HIDE DEF r
<1>7. \A i \in DOMAIN es : Calmer(es[i])
  BY <1>3, <1>4
<1> QED BY <1>1, <1>2, <1>4, <1>6, <1>7, DropsEnd, DropsLead

LEMMA RestoreReads ==
    ASSUME NEW q, WellFormed(q), IsText, NEW m, MarkFits(m)
    PROVE  LET r == Restore(q, m) IN
           /\ WellFormed(r) /\ SameLengths(q, r) /\ r.scopes = q.scopes
           /\ r.recover = q.recover /\ r.errors = m.errors /\ Kind(r) = m.token.kind
           /\ Allowed(r) = Allowance(m.pos, q.recover)
<1> DEFINE r == Restore(q, m)
<1>1. /\ SameBut(q, r, {"pos", "token", "errors"})
      /\ r.pos = m.pos /\ r.token = m.token /\ r.errors = m.errors
  BY HelperFields DEF WellFormed
<1> HIDE DEF r
<1>2. r.scopes = q.scopes /\ r.recover = q.recover /\ (\A b \in Buffers : r[b] = q[b])
      /\ DOMAIN r = StateFields
  BY <1>1 DEF SameBut, WellFormed, StateFields, Buffers
<1>3. WellFormed(r)
  BY <1>1, <1>2 DEF WellFormed, MarkFits
<1> QED BY <1>1, <1>2, <1>3 DEF SameLengths, Allowed, Kind, r

\* Back from p, or from p with other flags that are none of the tracked ones.
LEMMA BackTo ==
    ASSUME Sound, todo # <<>>, Top.at \in StateKinds, NEW flags, DOMAIN flags \cap Tracked = {}
    PROVE  LET m == Top.state
               q == Restore(p, m)
               r == Restore(with(p, flags), m)
               s == NextToken(r)
           IN
           /\ MarkFits(m)
           /\ WellFormed(q) /\ SameLengths(p, q) /\ SameFlags(p, q)
           /\ q.recover = p.recover /\ q.errors = m.errors /\ Kind(q) = m.token.kind
           /\ Allowed(q) = Allowance(m.pos, p.recover) /\ Allowed(q) \in Nat
           /\ WellFormed(s) /\ SameLengths(p, s) /\ SameFlags(p, s)
           /\ s.recover = p.recover /\ s.errors = m.errors /\ Allowed(s) \in Nat
           /\ Allowance(m.pos, p.recover) <= Allowed(s)
           /\ m.token.kind # "Eof" => Allowance(m.pos, p.recover) + 1 <= Allowed(s)
<1> DEFINE m == Top.state
           q == Restore(p, m)
           w == with(p, flags)
           r == Restore(w, m)
           s == NextToken(r)
<1>1. MarkFits(m) /\ WellFormed(p) /\ IsText /\ Quiet(p, p)
  BY TopPopped DEF Local, Sound
<1>2. /\ WellFormed(q) /\ SameLengths(p, q) /\ q.scopes = p.scopes
      /\ q.recover = p.recover /\ q.errors = m.errors /\ Kind(q) = m.token.kind
      /\ Allowed(q) = Allowance(m.pos, p.recover)
  BY <1>1, RestoreReads
<1>3. SameFlags(p, q)
  BY <1>1, <1>2 DEF SameFlags, Quiet, Reads
<1>4. Quiet(p, w) /\ w.recover = p.recover
  <2>1. \A x : SameBut(p, SetScope(p, x), {"scopes"})
    BY <1>1, HelperFields DEF WellFormed
  <2>2. \A x : SetScope(p, x).recover = p.recover
    BY <1>1, <2>1 DEF SameBut, WellFormed, StateFields
  <2> QED BY <1>1, <2>2, QuietWith DEF with
<1> HIDE DEF w
<1>5. /\ WellFormed(w) /\ SameLengths(p, w) /\ SameFlags(p, w)
  BY <1>4 DEF Quiet, Reads, Further
<1>6. /\ WellFormed(r) /\ SameLengths(w, r) /\ r.scopes = w.scopes
      /\ r.recover = w.recover /\ r.errors = m.errors /\ Kind(r) = m.token.kind
      /\ Allowed(r) = Allowance(m.pos, w.recover)
  BY <1>1, <1>5, RestoreReads
<1> HIDE DEF r, q
<1>7. Quiet(r, s) /\ (Kind(r) # "Eof" => Past(r, s))
  BY <1>1, <1>6, NextTokenQuiet
<1>8. s.recover = r.recover /\ s.errors = r.errors
  <2>1. SameBut(r, s, {"pos", "token"}) /\ DOMAIN r = StateFields
    BY <1>6, HelperFields DEF WellFormed
  <2> HIDE DEF s
  <2> QED BY <2>1 DEF SameBut, StateFields
<1> HIDE DEF s
<1>9. WellFormed(s) /\ SameLengths(r, s) /\ SameFlags(r, s) /\ Allowed(r) <= Allowed(s)
  BY <1>7 DEF Quiet, Reads, Further
<1>10. SameLengths(p, s)
  BY <1>5, <1>6, <1>9 DEF SameLengths
<1>11. SameFlags(p, s)
  BY <1>5, <1>6, <1>9 DEF SameFlags
<1>12. Allowed(q) \in Nat /\ Allowed(s) \in Nat
  BY <1>1, <1>2, <1>9, AllowedNat
<1>13. Allowed(r) = Allowance(m.pos, p.recover) /\ Kind(r) = m.token.kind
  BY <1>4, <1>6
<1>14. m.token.kind # "Eof" => Allowance(m.pos, p.recover) + 1 <= Allowed(s)
  BY <1>7, <1>13 DEF Past
<1>15. s.recover = p.recover /\ s.errors = m.errors
  BY <1>4, <1>6, <1>8
<1>16. Allowance(m.pos, p.recover) <= Allowed(s)
  BY <1>9, <1>13
<1> QED BY <1>1, <1>2, <1>3, <1>9, <1>10, <1>11, <1>12, <1>14, <1>15, <1>16 DEF q, s, r, w

LEMMA BackYieldMade == ASSUME Sound, YieldMade PROVE DropsStep \/ BackStep
<1>1. todo # <<>> /\ Top.at = "YieldMade" /\ Quiet(p, p) /\ Top.at \in StateKinds
  BY TopPopped DEF YieldMade, at, StateKinds
<1> DEFINE m == Top.state
           q == Restore(p, m)
<1>2. Ends(p) \/ Ends(q)
  BY Ways, ZenonT(30) DEF YieldMade
<1>3. DOMAIN Flag("allowAwait", TRUE) \cap Tracked = {}
  BY DEF Flag, Tracked
<1>4. /\ MarkFits(m)
      /\ WellFormed(q) /\ SameLengths(p, q) /\ SameFlags(p, q)
      /\ q.recover = p.recover /\ q.errors = m.errors
      /\ Allowed(q) = Allowance(m.pos, p.recover) /\ Allowed(q) \in Nat
  BY <1>1, <1>3, BackTo
<1> HIDE DEF q
<1>5. ASSUME Ends(q) PROVE BackStep
  <2>1. p' = q /\ Grown(todo', Tail(todo)) /\ Added(todo', Tail(todo)) = {}
    BY <1>1, <1>5, Ended
  <2> QED BY <1>1, <1>4, <2>1 DEF BackStep
<1> QED BY <1>1, <1>2, <1>5, DropsEnd

LEMMA BackArrowParameters == ASSUME Sound, ArrowParameters PROVE DropsStep \/ BackStep
<1>1. todo # <<>> /\ Top.at = "AssignmentRest" /\ Quiet(p, p) /\ Top.at \in StateKinds
  BY TopPopped DEF ArrowParameters, at, StateKinds
<1> DEFINE m == Top.state
           f == Flag("allowAwait", TRUE)
           q == Restore(p, m)
           s == NextToken(Restore(with(p, f), m))
           a == F("Parameters")
           b == [at |-> "Arrow", async |-> Top.async]
           c == putBack(saved({"allowAwait"}))
           taken == SequenceAsParameters(result.sequence, Scope(p).allowAwait)
<1>2. \/ Leads(p, <<b>>) \/ Leads(ErrorIf(p, ~taken.ok), <<b>>)
      \/ Leads(q, <<a, b>>) \/ Leads(s, <<a, b>> \o <<c>>) \/ Ends(Error(p))
  BY Ways, ZenonT(60) DEF ArrowParameters
<1>3. /\ Calmer(a) /\ Calmer(b) /\ Calmer(c) /\ a.at \in Fresh
  BY DEF F, putBack, saved, Tracked, Calmer, ExprKinds, Fresh
<1> HIDE DEF a, b, c
<1>4. DOMAIN f \cap Tracked = {}
  BY DEF Flag, Tracked
<1> HIDE DEF f
<1>5. /\ MarkFits(m)
      /\ WellFormed(q) /\ SameLengths(p, q) /\ SameFlags(p, q)
      /\ q.recover = p.recover /\ q.errors = m.errors /\ Kind(q) = m.token.kind
      /\ Allowed(q) = Allowance(m.pos, p.recover) /\ Allowed(q) \in Nat
      /\ WellFormed(s) /\ SameLengths(p, s) /\ SameFlags(p, s)
      /\ s.recover = p.recover /\ s.errors = m.errors
      /\ Allowance(m.pos, p.recover) <= Allowed(s)
      /\ m.token.kind # "Eof" => Allowance(m.pos, p.recover) + 1 <= Allowed(s)
  BY <1>1, <1>4, BackTo
<1> HIDE DEF q, s, taken
<1>6. Quiet(p, Error(p)) /\ \A wrong : Quiet(p, ErrorIf(p, wrong))
  BY <1>1, QuietError, QuietErrorIf
<1>7. ASSUME NEW r, Quiet(p, r), Leads(r, <<b>>) PROVE DropsStep
  <2> DEFINE es == <<b>>
  <2>1. Row(es) /\ \A i \in DOMAIN es : Calmer(es[i])
    BY <1>3 DEF Row
  <2>2. Leads(r, es)
    BY <1>7
  <2> HIDE DEF es
  <2> QED BY <1>1, <1>7, <2>1, <2>2, DropsLead
<1>8. ASSUME Leads(q, <<a, b>>) PROVE BackStep
  <2> DEFINE es == <<a, b>>
  <2>1. Row(es) /\ es[1] = a /\ \A i \in DOMAIN es : Calmer(es[i])
    BY <1>3 DEF Row
  <2>2. Leads(q, es)
    BY <1>8
  <2> HIDE DEF es
  <2>3. /\ p' = q /\ Grown(todo', Tail(todo)) /\ todo' # <<>> /\ Head(todo') = a
        /\ \A e \in Added(todo', Tail(todo)) : Calmer(e)
    BY <1>1, <2>1, <2>2, Led
  <2> QED BY <1>1, <1>3, <1>5, <2>3 DEF BackStep
<1>9. ASSUME Leads(s, <<a, b>> \o <<c>>) PROVE BackStep
  <2> DEFINE es == <<a, b, c>>
  <2>1. Row(es) /\ \A i \in DOMAIN es : Calmer(es[i])
    BY <1>3 DEF Row
  <2>2. Leads(s, es)
    BY <1>9, RowOfThree
  <2> HIDE DEF es
  <2>3. /\ p' = s /\ Grown(todo', Tail(todo))
        /\ \A e \in Added(todo', Tail(todo)) : Calmer(e)
    BY <1>1, <2>1, <2>2, Led
  <2> QED BY <1>1, <1>5, <2>3 DEF BackStep
<1> QED BY <1>1, <1>2, <1>6, <1>7, <1>8, <1>9, DropsEnd

-----------------------------------------------------------------------------
(* Every step *)

\* The steps that change the flags FlagsFollowCalls is about.
Tuned ==
    \/ PutBack \/ ConditionalRest \/ LeftHandSide
    \/ ParameterList \/ NextParameter \/ ParameterMade \/ RestParameter
    \/ FunctionBlock \/ FunctionEnd
    \/ ExpressionStatement \/ LabelledMade \/ HeadMade \/ DoStatement \/ ForStatement
    \/ ForDeclared \/ ForExpression \/ ForEach \/ ForUpdate

AnyStep ==
    \/ CalmStep \/ PatchStep \/ StatementsStep \/ StatesStep
    \/ OnStep /\ Tuned

LEMMA AnyOn ==
    ASSUME Sound, AnyStep
    PROVE  OnStep \/ PatchStep \/ StatementsStep \/ StatesStep
BY CalmOn DEF AnyStep

\* What each step of expressions is.
LEMMA ParseExpressionSteps ==
    ASSUME Sound, InOrder(p, todo), Balanced(p, todo), ParseExpression
    PROVE  AnyStep
<1>1. CASE PutBack
  BY <1>1, MovesPutBack, MovesOn DEF AnyStep, Tuned
<1>2. CASE Expression
  BY <1>2, PlainExpression, PlainCalm DEF AnyStep
<1>3. CASE ExpressionRest
  BY <1>3, ListExpressionRest, ListCalm DEF AnyStep
<1>4. CASE SequenceElement
  BY <1>4, ListSequenceElement, ListCalm DEF AnyStep
<1>5. CASE Assignment
  BY <1>5, SavesAssignment, PlainCalm DEF AnyStep, StatesStep
<1>6. CASE SingleArgArrow
  BY <1>6, PlainSingleArgArrow, PlainCalm DEF AnyStep
<1>7. CASE AssignmentRest
  BY <1>7, DropsAssignmentRest DEF AnyStep, StatesStep
<1>8. CASE ArrowParameters
  BY <1>8, BackArrowParameters DEF AnyStep, StatesStep
<1>9. CASE ArrowFunction
  BY <1>9, PlainArrowFunction, PlainCalm DEF AnyStep
<1>10. CASE ArrowMade
  BY <1>10, PlainArrowMade, PlainCalm DEF AnyStep
<1>11. CASE AssignTarget
  BY <1>11, DropsAssignTarget DEF AnyStep, StatesStep
<1>12. CASE AssignMade
  BY <1>12, PlainAssignMade, PlainCalm DEF AnyStep
<1>13. CASE YieldExpression
  BY <1>13, SavesYield, PlainCalm DEF AnyStep, StatesStep
<1>14. CASE YieldMade
  BY <1>14, BackYieldMade DEF AnyStep, StatesStep
<1>15. CASE ConditionalExpression
  BY <1>15, PlainConditionalExpression, PlainCalm DEF AnyStep
<1>16. CASE ConditionalRest
  BY <1>16, MovesConditionalRest, MovesOn DEF AnyStep, Tuned
<1>17. CASE ConditionalAlternate
  BY <1>17, PlainConditionalAlternate, PlainCalm DEF AnyStep
<1>18. CASE ConditionalMade
  BY <1>18, PlainConditionalMade, PlainCalm DEF AnyStep
<1>19. CASE BinaryOrHigher
  BY <1>19, PlainBinaryOrHigher, PlainCalm DEF AnyStep
<1>20. CASE PrivateIn
  BY <1>20, PlainPrivateIn, PlainCalm DEF AnyStep
<1>21. CASE PrivateInMade
  BY <1>21, PlainPrivateInMade, PlainCalm DEF AnyStep
<1>22. CASE BinaryRest
  BY <1>22, PlainBinaryRest, PlainCalm DEF AnyStep
<1>23. CASE BinaryMade
  BY <1>23, PlainBinaryMade, PlainCalm DEF AnyStep
<1>24. CASE UnaryExpression
  BY <1>24, PlainUnaryExpression, PlainCalm DEF AnyStep
<1>25. CASE UnaryMade
  BY <1>25, PlainUnaryMade, PlainCalm DEF AnyStep
<1>26. CASE AwaitMade
  BY <1>26, PlainAwaitMade, PlainCalm DEF AnyStep
<1>27. CASE PrefixMade
  BY <1>27, PlainPrefixMade, PlainCalm DEF AnyStep
<1>28. CASE PostfixMade
  BY <1>28, PlainPostfixMade, PlainCalm DEF AnyStep
<1>29. CASE LeftHandSide
  BY <1>29, MovesLeftHandSide, MovesOn DEF AnyStep, Tuned
<1>30. CASE Links
  BY <1>30, PlainLinks, PlainCalm DEF AnyStep
<1>31. CASE IndexMade
  BY <1>31, PlainIndexMade, PlainCalm DEF AnyStep
<1>32. CASE CallMade
  BY <1>32, PlainCallMade, PlainCalm DEF AnyStep
<1>33. CASE NewExpression
  BY <1>33, PlainNewExpression, PlainCalm DEF AnyStep
<1>34. CASE NewCallee
  BY <1>34, PlainNewCallee, PlainCalm DEF AnyStep
<1>35. CASE NewMade
  BY <1>35, PlainNewMade, PlainCalm DEF AnyStep
<1>36. CASE SpreadMade
  BY <1>36, PlainSpreadMade, PlainCalm DEF AnyStep
<1>37. CASE Arguments
  BY <1>37, ListArguments, ListCalm DEF AnyStep
<1>38. CASE NextArgument
  BY <1>38, ListNextArgument, ListCalm DEF AnyStep
<1>39. CASE ArgumentMade
  BY <1>39, ListArgumentMade, ListCalm DEF AnyStep
<1>40. CASE ArrayLiteral
  BY <1>40, ListArrayLiteral, ListCalm DEF AnyStep
<1>41. CASE NextElement
  BY <1>41, ListNextElement, ListCalm DEF AnyStep
<1>42. CASE ElementMade
  BY <1>42, ListElementMade, ListCalm DEF AnyStep
<1>43. CASE Parenthesised
  BY <1>43, ListParenthesised, ListCalm DEF AnyStep
<1>44. CASE NextParenthesised
  BY <1>44, ListNextParenthesised, ListCalm DEF AnyStep
<1>45. CASE ParenthesisedMade
  BY <1>45, ListParenthesisedMade, ListCalm DEF AnyStep
<1>46. CASE Primary
  BY <1>46, PlainPrimary, PlainCalm DEF AnyStep
<1>47. CASE SuperProperty
  BY <1>47, PlainSuperProperty, PlainCalm DEF AnyStep
<1> QED BY <1>1, <1>2, <1>3, <1>4, <1>5, <1>6, <1>7, <1>8, <1>9, <1>10, <1>11, <1>12,
           <1>13, <1>14, <1>15, <1>16, <1>17, <1>18, <1>19, <1>20, <1>21, <1>22, <1>23,
           <1>24, <1>25, <1>26, <1>27, <1>28, <1>29, <1>30, <1>31, <1>32, <1>33, <1>34,
           <1>35, <1>36, <1>37, <1>38, <1>39, <1>40, <1>41, <1>42, <1>43, <1>44, <1>45,
           <1>46, <1>47
        DEF ParseExpression

\* What each step of definitions is.
LEMMA ParseDefinitionSteps ==
    ASSUME Sound, InOrder(p, todo), Balanced(p, todo), ParseDefinition
    PROVE  AnyStep
<1>1. CASE BindingTarget
  BY <1>1, ListBindingTarget, ListCalm DEF AnyStep
<1>2. CASE BindingElement
  BY <1>2, PlainBindingElement, PlainCalm DEF AnyStep
<1>3. CASE BindingDefault
  BY <1>3, PlainBindingDefault, PlainCalm DEF AnyStep
<1>4. CASE DefaultMade
  BY <1>4, PlainDefaultMade, PlainCalm DEF AnyStep
<1>5. CASE NextPattern
  BY <1>5, ListNextPattern, ListCalm DEF AnyStep
<1>6. CASE PatternMade
  BY <1>6, ListPatternMade, ListCalm DEF AnyStep
<1>7. CASE ArrayRestMade
  BY <1>7, ListArrayRestMade, ListCalm DEF AnyStep
<1>8. CASE NextBinding
  BY <1>8, ListNextBinding, ListCalm DEF AnyStep
<1>9. CASE BindingProperty
  BY <1>9, PlainBindingProperty, PlainCalm DEF AnyStep
<1>10. CASE ShortMade
  BY <1>10, PlainShortMade, PlainCalm DEF AnyStep
<1>11. CASE KeyValueMade
  BY <1>11, PlainKeyValueMade, PlainCalm DEF AnyStep
<1>12. CASE BindingMade
  BY <1>12, ListBindingMade, ListCalm DEF AnyStep
<1>13. CASE Declaration
  BY <1>13, PlainDeclaration, PlainCalm DEF AnyStep
<1>14. CASE Initializer
  BY <1>14, PlainInitializer, PlainCalm DEF AnyStep
<1>15. CASE DeclarationMade
  BY <1>15, PlainDeclarationMade, PlainCalm DEF AnyStep
<1>16. CASE DeclarationList
  BY <1>16, ListDeclarationList, ListCalm DEF AnyStep
<1>17. CASE NextDeclaration
  BY <1>17, ListNextDeclaration, ListCalm DEF AnyStep
<1>18. CASE ParameterList
  BY <1>18, OnParameterList DEF AnyStep, Tuned
<1>19. CASE NextParameter
  BY <1>19, OnNextParameter DEF AnyStep, Tuned
<1>20. CASE ParameterMade
  BY <1>20, OnParameterMade DEF AnyStep, Tuned
<1>21. CASE RestParameter
  BY <1>21, OnRestParameter DEF AnyStep, Tuned
<1>22. CASE PropertyKey
  BY <1>22, PlainPropertyKey, PlainCalm DEF AnyStep
<1>23. CASE ComputedKey
  BY <1>23, PlainComputedKey, PlainCalm DEF AnyStep
<1>24. CASE ObjectLiteral
  BY <1>24, ListObjectLiteral, ListCalm DEF AnyStep
<1>25. CASE NextProperty
  BY <1>25, ListNextProperty, ListCalm DEF AnyStep
<1>26. CASE PropertyMade
  BY <1>26, ListPropertyMade, ListCalm DEF AnyStep
<1>27. CASE Property
  BY <1>27, PlainProperty, PlainCalm DEF AnyStep
<1>28. CASE ModifiedProperty
  BY <1>28, PlainModifiedProperty, PlainCalm DEF AnyStep
<1>29. CASE MethodDefinition
  BY <1>29, PlainMethodDefinition, PlainCalm DEF AnyStep
<1>30. CASE MethodBody
  BY <1>30, PlainMethodBody, PlainCalm DEF AnyStep
<1>31. CASE MethodMade
  BY <1>31, PlainMethodMade, PlainCalm DEF AnyStep
<1>32. CASE FunctionLiteral
  BY <1>32, PlainFunctionLiteral, PlainCalm DEF AnyStep
<1>33. CASE FunctionBody
  BY <1>33, PlainFunctionBody, PlainCalm DEF AnyStep
<1>34. CASE FunctionMade
  BY <1>34, PlainFunctionMade, PlainCalm DEF AnyStep
<1>35. CASE FunctionBlock
  BY <1>35, OnFunctionBlock DEF AnyStep, Tuned
<1>36. CASE FunctionEnd
  BY <1>36, OnFunctionEnd DEF AnyStep, Tuned
<1>37. CASE ClassLiteral
  BY <1>37, PlainClassLiteral, PlainCalm DEF AnyStep
<1>38. CASE ClassBody
  BY <1>38, ListClassBody, ListCalm DEF AnyStep
<1>39. CASE ClassEnd
  BY <1>39, ListClassEnd, ListCalm DEF AnyStep
<1>40. CASE NextMember
  BY <1>40, ListNextMember, ListCalm DEF AnyStep
<1>41. CASE StaticBlockMade
  BY <1>41, ListStaticBlockMade, ListCalm DEF AnyStep
<1>42. CASE Member
  BY <1>42, ListMember, ListCalm DEF AnyStep
<1>43. CASE MemberMade
  BY <1>43, ListMemberMade, ListCalm DEF AnyStep
<1>44. CASE FieldDefinition
  BY <1>44, FieldStep, ListCalm DEF AnyStep
<1> QED BY <1>1, <1>2, <1>3, <1>4, <1>5, <1>6, <1>7, <1>8, <1>9, <1>10, <1>11, <1>12,
           <1>13, <1>14, <1>15, <1>16, <1>17, <1>18, <1>19, <1>20, <1>21, <1>22, <1>23,
           <1>24, <1>25, <1>26, <1>27, <1>28, <1>29, <1>30, <1>31, <1>32, <1>33, <1>34,
           <1>35, <1>36, <1>37, <1>38, <1>39, <1>40, <1>41, <1>42, <1>43, <1>44
        DEF ParseDefinition

\* What each step of statements is.
LEMMA ParseStatementSteps ==
    ASSUME Sound, InOrder(p, todo), Balanced(p, todo), ParseStatement
    PROVE  AnyStep
<1>1. CASE StatementList
  BY <1>1, StatementsStatementList DEF AnyStep
<1>2. CASE ListedStatement
  BY <1>2, StatementsListedStatement DEF AnyStep
<1>3. CASE BlockStatement
  BY <1>3, StatementsBlock DEF AnyStep
<1>4. CASE BlockMade
  BY <1>4, PlainBlockMade, PlainCalm DEF AnyStep
<1>5. CASE Statement
  BY <1>5, PlainStatement, PlainCalm DEF AnyStep
<1>6. CASE FunctionDeclared
  BY <1>6, PlainFunctionDeclared, PlainCalm DEF AnyStep
<1>7. CASE ClassDeclared
  BY <1>7, PlainClassDeclared, PlainCalm DEF AnyStep
<1>8. CASE ExpressionStatement
  BY <1>8, MovesExpressionStatement, MovesOn DEF AnyStep, Tuned
<1>9. CASE LabelledMade
  BY <1>9, MovesLabelledMade, MovesOn DEF AnyStep, Tuned
<1>10. CASE LexicalDeclaration
  BY <1>10, PlainLexicalDeclaration, PlainCalm DEF AnyStep
<1>11. CASE LexicalMade
  BY <1>11, PlainLexicalMade, PlainCalm DEF AnyStep
<1>12. CASE Headed
  BY <1>12, PlainHeaded, PlainCalm DEF AnyStep
<1>13. CASE HeadMade
  BY <1>13, MovesHeadMade, MovesOn DEF AnyStep, Tuned
<1>14. CASE IfElse
  BY <1>14, PlainIfElse, PlainCalm DEF AnyStep
<1>15. CASE IfMade
  BY <1>15, PlainIfMade, PlainCalm DEF AnyStep
<1>16. CASE WhileMade
  BY <1>16, PlainWhileMade, PlainCalm DEF AnyStep
<1>17. CASE WithMade
  BY <1>17, PlainWithMade, PlainCalm DEF AnyStep
<1>18. CASE NextCase
  BY <1>18, CalmNextCase DEF AnyStep
<1>19. CASE CaseBody
  BY <1>19, StatementsCaseBody DEF AnyStep
<1>20. CASE CaseMade
  BY <1>20, CaseMadeStep DEF AnyStep
<1>21. CASE DoStatement
  BY <1>21, MovesDoStatement, MovesOn DEF AnyStep, Tuned
<1>22. CASE DoHead
  BY <1>22, PlainDoHead, PlainCalm DEF AnyStep
<1>23. CASE DoMade
  BY <1>23, PlainDoMade, PlainCalm DEF AnyStep
<1>24. CASE ForStatement
  BY <1>24, MovesForStatement, MovesOn DEF AnyStep, Tuned
<1>25. CASE ForDeclared
  BY <1>25, MovesForDeclared, MovesOn DEF AnyStep, Tuned
<1>26. CASE ForExpression
  BY <1>26, MovesForExpression, MovesOn DEF AnyStep, Tuned
<1>27. CASE ForEach
  BY <1>27, MovesForEach, MovesOn DEF AnyStep, Tuned
<1>28. CASE ForEachMade
  BY <1>28, PlainForEachMade, PlainCalm DEF AnyStep
<1>29. CASE ForInit
  BY <1>29, PlainForInit, PlainCalm DEF AnyStep
<1>30. CASE ForTest
  BY <1>30, PlainForTest, PlainCalm DEF AnyStep
<1>31. CASE ForUpdate
  BY <1>31, MovesForUpdate, MovesOn DEF AnyStep, Tuned
<1>32. CASE ForMade
  BY <1>32, PlainForMade, PlainCalm DEF AnyStep
<1>33. CASE JumpStatement
  BY <1>33, PlainJumpStatement, PlainCalm DEF AnyStep
<1>34. CASE ReturnStatement
  BY <1>34, PlainReturnStatement, PlainCalm DEF AnyStep
<1>35. CASE ThrowStatement
  BY <1>35, PlainThrowStatement, PlainCalm DEF AnyStep
<1>36. CASE ArgumentOf
  BY <1>36, PlainArgumentOf, PlainCalm DEF AnyStep
<1>37. CASE TryStatement
  BY <1>37, PlainTryStatement, PlainCalm DEF AnyStep
<1>38. CASE TryCatch
  BY <1>38, PlainTryCatch, PlainCalm DEF AnyStep
<1>39. CASE CatchBlock
  BY <1>39, PlainCatchBlock, PlainCalm DEF AnyStep
<1>40. CASE CatchMade
  BY <1>40, PlainCatchMade, PlainCalm DEF AnyStep
<1>41. CASE TryFinally
  BY <1>41, PlainTryFinally, PlainCalm DEF AnyStep
<1>42. CASE TryMade
  BY <1>42, PlainTryMade, PlainCalm DEF AnyStep
<1> QED BY <1>1, <1>2, <1>3, <1>4, <1>5, <1>6, <1>7, <1>8, <1>9, <1>10, <1>11, <1>12,
           <1>13, <1>14, <1>15, <1>16, <1>17, <1>18, <1>19, <1>20, <1>21, <1>22, <1>23,
           <1>24, <1>25, <1>26, <1>27, <1>28, <1>29, <1>30, <1>31, <1>32, <1>33, <1>34,
           <1>35, <1>36, <1>37, <1>38, <1>39, <1>40, <1>41, <1>42
        DEF ParseStatement

-----------------------------------------------------------------------------
(* The invariant *)

\* The text never changes; the fields of the parser are of their types; each entry
\* of the stack has what it needs and lies on what it needs; the marks are in order;
\* there is a scope for each function around, and one for the text.
IInv == IsText /\ Inv(p, todo)

LEMMA SoundInv ==
    IInv => Sound /\ InOrder(p, todo) /\ Balanced(p, todo)
BY DEF IInv, Inv, Sound

LEMMA TextGiven == Init => IsText
BY SourcesAssumption DEF Init, IsText

LEMMA BeginsSound ==
    ASSUME Init
    PROVE  WellFormed(p) /\ Shape(todo) /\ Balanced(p, todo)
<1>1. p = NewParser /\ todo = program /\ Len(source) \in Nat
  BY TextGiven DEF Init, IsText
<1>2. /\ DOMAIN p = StateFields /\ p.pos = 1 /\ p.token = TokenAt(1) /\ p.errors = FALSE
      /\ p.scopes = <<scope0>> /\ p.recover = [idx |-> 0, count |-> 0]
      /\ \A b \in Buffers : p[b] = <<>>
  BY <1>1 DEF NewParser, StateFields, Buffers
<1>3. /\ IsList(p.scopes) /\ p.scopes # <<>> /\ Len(p.scopes) = 1
      /\ \A k \in 1 .. Len(p.scopes) : DOMAIN p.scopes[k] = FlagNames
  <2>1. <<scope0>> \in Seq({scope0}) /\ Len(<<scope0>>) = 1 /\ <<scope0>>[1] = scope0
    OBVIOUS
  <2>2. DOMAIN scope0 = FlagNames
    BY DEF scope0, FlagNames
  <2>3. IsList(<<scope0>>) /\ <<scope0>> # <<>>
    BY <2>1, ListIntro
  <2>4. \A k \in 1 .. Len(<<scope0>>) : <<scope0>>[k] = scope0
    BY <2>1
  <2> QED BY <1>2, <2>1, <2>2, <2>3, <2>4
<1>4. WellFormed(p)
  <2>1. p.pos \in Positions /\ TokenFits(p.token, p.pos)
    BY <1>1, <1>2 DEF Positions, TokenFits
  <2>2. p.recover \in [idx : Nat, count : 0 .. MaxSyncs] /\ p.errors \in BOOLEAN
    <3>1. 0 \in 0 .. MaxSyncs /\ 0 \in Nat
      BY DEF MaxSyncs
    <3>2. p.recover = [idx |-> 0, count |-> 0] /\ p.errors = FALSE
      BY <1>2
    <3>3. [idx |-> 0, count |-> 0] \in [idx : Nat, count : 0 .. MaxSyncs]
      BY <3>1
    <3> QED BY <3>2, <3>3
  <2> QED BY <1>2, <1>3, <2>1, <2>2, EmptyIsList DEF WellFormed
<1> DEFINE e == [at |-> "NextStatement", mark |-> 0, ends |-> ProgramEnds]
<1>5. IsList(todo) /\ Len(todo) = 1 /\ todo[1] = e
  <2> HIDE DEF e
  <2>1. <<e>> \in Seq({e}) /\ Len(<<e>>) = 1 /\ <<e>>[1] = e
    OBVIOUS
  <2>2. todo = <<e>>
    BY <1>1 DEF program, e
  <2> QED BY <2>1, <2>2, ListIntro
<1>6. \A t : Local(e, t)
  BY DEF Local, ProgramEnds, StateKinds, MarkKinds, ListKinds, ParamKinds, MemberKinds, CaseKinds
<1>7. e.at # "FunctionEnd"
  OBVIOUS
<1> HIDE DEF e
<1>8. Shape(todo)
  BY <1>5, <1>6 DEF Shape
<1>9. Enders(todo) = {} /\ Cardinality({}) = 0
  BY <1>5, <1>7, FS_EmptySet DEF Enders
<1>10. Balanced(p, todo)
  BY <1>3, <1>9 DEF Balanced, Depth
<1> QED BY <1>4, <1>8, <1>10

LEMMA BeginsInOrder ==
    ASSUME Init
    PROVE  InOrder(p, todo)
<1> SUFFICES ASSUME NEW b \in Buffers PROVE Marked(b, Len(p[b]), todo)
  BY DEF InOrder
<1>1. Len(p[b]) = 0
  BY DEF Init, NewParser, Buffers
<1>2. Len(todo) = 1 /\ todo[1].mark = 0
  BY DEF Init, program
<1>3. \A i \in 1 .. Len(todo) : i = 1
  BY <1>2
<1>4. \A i \in Frames(b, todo) : i = 1 /\ todo[i].mark = 0
  BY <1>2, <1>3 DEF Frames
<1>5. After(todo, 1) = <<>>
  BY <1>2 DEF After, Init, program
<1>6. Frames(b, <<>>) = {}
  BY DEF Frames
<1> QED BY <1>1, <1>4, <1>5, <1>6 DEF Marked, Covers

LEMMA InvBegins == Init => IInv
BY TextGiven, BeginsSound, BeginsInOrder DEF IInv, Inv

LEMMA InvStep ==
    ASSUME IInv, ParseStep
    PROVE  Inv(p', todo')
<1>1. Sound /\ InOrder(p, todo) /\ Balanced(p, todo)
  BY SoundInv
<1>2. AnyStep
  BY <1>1, ParseExpressionSteps, ParseDefinitionSteps, ParseStatementSteps DEF ParseStep
<1>3. ASSUME StatementsStep PROVE Inv(p', todo')
  BY <1>1, <1>3, OpensKeeps, TakesKeeps, AddsKeeps, EndsKeeps DEF StatementsStep
<1> QED BY <1>1, <1>2, <1>3, AnyOn, OnKeeps, PatchKeeps, StatesKeep

LEMMA TextPrimed ==
    ASSUME source' = source
    PROVE  /\ (IsText)' <=> IsText
           /\ (Inv(p, todo))' <=> Inv(p', todo')
<1>1. \A i : TokenAt(i)' = TokenAt(i)
  BY DEF TokenAt
<1>2. Positions' = Positions
  BY DEF Positions
<1>3. \A token, pos : TokenFits(token, pos)' <=> TokenFits(token, pos)
  BY <1>1 DEF TokenFits
<1>4. (WellFormed(p))' <=> WellFormed(p')
  BY <1>2, <1>3 DEF WellFormed
<1>5. \A m : MarkFits(m)' <=> MarkFits(m)
  BY <1>2, <1>3 DEF MarkFits
<1>6. \A e, t : Local(e, t)' <=> Local(e, t)
  BY <1>5 DEF Local
<1>7. (Shape(todo))' <=> Shape(todo')
  BY <1>6 DEF Shape
<1>8. (InOrder(p, todo))' <=> InOrder(p', todo')
  BY DEF InOrder
<1>9. (Balanced(p, todo))' <=> Balanced(p', todo')
  BY DEF Balanced
<1>10. (Inv(p, todo))' <=> Inv(p', todo')
  BY <1>4, <1>7, <1>8, <1>9 DEF Inv
<1> QED BY <1>10 DEF IsText

LEMMA InvKept == IInv /\ [Next]_vars => IInv'
<1> SUFFICES ASSUME IInv, [Next]_vars PROVE IInv'
  OBVIOUS
<1>1. CASE Next
  <2>1. ParseStep /\ source' = source
    BY <1>1 DEF Next
  <2> QED BY <2>1, InvStep, TextPrimed DEF IInv
<1>2. CASE UNCHANGED vars
  <2>1. source' = source /\ p' = p /\ todo' = todo
    BY <1>2 DEF vars
  <2> QED BY <2>1, TextPrimed DEF IInv
<1> QED BY <1>1, <1>2

\* Whatever the text, right or wrong, the parser (parser.go, scope.go) is always at a
\* token of the text or at its end, has a scope for each function it is in, and every
\* call under way finds its mark, its state to go back to and its caller as it left them.
THEOREM AlwaysSound == Spec => []IInv
<1>1. Init => IInv
  BY InvBegins
<1>2. IInv /\ [Next]_vars => IInv'
  BY InvKept
<1> QED BY <1>1, <1>2, PTL DEF Spec

-----------------------------------------------------------------------------

\* mark, restore, peek and nextStatement (parser.go) each move the token and the offset
\* of the scanner separately: the two never part.
THEOREM TokenStaysAtOffset == Spec => []TokenIsAtOffset
<1>1. IInv => TokenIsAtOffset
  BY DEF IInv, Inv, WellFormed, TokenFits, TokenIsAtOffset
<1> QED BY <1>1, AlwaysSound, PTL

\* The entries below the i-th.
LEMMA AfterAt ==
    ASSUME NEW t, IsList(t), NEW i \in 1 .. Len(t)
    PROVE  /\ Len(After(t, i)) = Len(t) - i /\ Len(t) \in Nat
           /\ \A j \in 1 .. Len(t) - i : After(t, i)[j] = t[i + j]
<1>1. t \in Seq(Range(t)) /\ Len(t) \in Nat
  BY ListElim
<1>2. Len(SubSeq(t, i + 1, Len(t))) = Len(t) - i
      /\ \A j \in 1 .. Len(t) - i : SubSeq(t, i + 1, Len(t))[j] = t[i + j]
  BY <1>1
<1> QED BY <1>1, <1>2 DEF After

LEMMA OrderSaid == IInv => MarksInOrder
<1> SUFFICES ASSUME IInv, NEW b \in Buffers
             PROVE  LET frames == {i \in DOMAIN todo : todo[i].at \in MarkFrames[b]}
                    IN  /\ frames = {} => p[b] = <<>>
                        /\ \A i \in frames :
                              /\ todo[i].mark \in 0 .. Len(p[b])
                              /\ \A j \in frames : i < j => todo[j].mark <= todo[i].mark
                              /\ (\A j \in frames : j <= i) => todo[i].mark = 0
  BY DEF MarksInOrder
<1> DEFINE frames == {i \in DOMAIN todo : todo[i].at \in MarkFrames[b]}
<1>1. /\ IsList(todo) /\ Marked(b, Len(p[b]), todo) /\ IsList(p[b])
      /\ DOMAIN todo = 1 .. Len(todo) /\ Len(todo) \in Nat
  BY ListElim DEF IInv, Inv, Shape, InOrder, WellFormed
<1>2. frames = Frames(b, todo)
  BY <1>1 DEF Frames
<1>3. frames = {} => p[b] = <<>>
  BY <1>1, <1>2, ListElim DEF Marked, Covers
<1>4. ASSUME NEW i \in frames
      PROVE  /\ todo[i].mark \in 0 .. Len(p[b])
             /\ \A j \in frames : i < j => todo[j].mark <= todo[i].mark
             /\ (\A j \in frames : j <= i) => todo[i].mark = 0
  <2>1. /\ todo[i].mark \in Nat /\ todo[i].mark <= Len(p[b]) /\ Len(p[b]) \in Nat
        /\ Covers(b, todo[i].mark, After(todo, i)) /\ i \in 1 .. Len(todo)
    BY <1>1, <1>2 DEF Marked, Covers, Frames
  <2>2. /\ Len(After(todo, i)) = Len(todo) - i
        /\ \A j \in 1 .. Len(todo) - i : After(todo, i)[j] = todo[i + j]
    BY <1>1, <2>1, AfterAt
  <2>3. ASSUME NEW j \in frames, i < j PROVE todo[j].mark <= todo[i].mark
    <3>1. j - i \in 1 .. Len(todo) - i /\ i + (j - i) = j
      BY <1>1, <2>1, <2>3
    <3>2. After(todo, i)[j - i] = todo[j]
      BY <2>2, <3>1
    <3>3. j - i \in Frames(b, After(todo, i))
      BY <2>2, <3>1, <3>2 DEF Frames
    <3> QED BY <2>1, <3>2, <3>3 DEF Covers
  <2>4. ASSUME \A j \in frames : j <= i PROVE todo[i].mark = 0
    <3>1. ASSUME NEW k \in Frames(b, After(todo, i)) PROVE FALSE
      <4>1. k \in 1 .. Len(todo) - i /\ After(todo, i)[k].at \in MarkFrames[b]
        BY <2>2, <3>1 DEF Frames
      <4>2. i + k \in DOMAIN todo /\ todo[i + k].at \in MarkFrames[b] /\ i + k > i
        BY <1>1, <2>1, <2>2, <4>1
      <4> QED BY <1>1, <2>1, <2>4, <4>1, <4>2
    <3> QED BY <2>1, <3>1 DEF Covers
  <2> QED BY <2>1, <2>3, <2>4
<1> QED BY <1>3, <1>4

\* Lists under construction share seven buffers (parser.go), each above the mark of the
\* call that builds it: on every way out of a call, the calls around it find theirs.
THEOREM MarksStayInOrder == Spec => []MarksInOrder
BY OrderSaid, AlwaysSound, PTL

-----------------------------------------------------------------------------
(* What recovery may still do *)

\* Going back to the mark of entry e, with n statements, leaves room for one more.
Room(n, e, rec) ==
    \/ n + 1 <= Allowance(e.state.pos, rec)
    \/ /\ e.at = "AssignmentRest" /\ e.state.token.kind # "Eof"
       /\ n <= Allowance(e.state.pos, rec)

\* Of n statements made, with a allowed: the lists of t, and the marks to go back to.
Rows(n, a, rec, t) ==
    /\ n \in Nat
    /\ \A i \in 1 .. Len(t) : t[i].at \in ListKinds => t[i].mark \in Nat
    /\ \A i \in 1 .. Len(t) :
          t[i].at \in StateKinds
          => /\ t[i].state.pos \in Positions
             /\ \/ Room(n, t[i], rec)
                \/ \E j \in 1 .. i - 1 : t[j].at \in ListKinds /\ Room(t[j].mark, t[i], rec)
    /\ \A i, j \in 1 .. Len(t) :
          t[i].at \in StateKinds /\ t[j].at \in ListKinds /\ i < j /\ j < Len(t)
          => t[j].mark + 1 <= Allowance(t[i].state.pos, rec)
    /\ \A j \in 1 .. Len(t) :
          t[j].at \in ListKinds /\ j < Len(t) => t[j].mark + 1 <= a

RowKinds == ListKinds \cup StateKinds

\* The entries of u that matter are those of t, k further down.
Shifted(u, t, k) ==
    /\ k \in Nat /\ Len(t) \in Nat /\ Len(u) = Len(t) + k
    /\ \A i \in 1 .. Len(t) : i + k \in 1 .. Len(u) /\ u[i + k] = t[i]
    /\ \A i \in 1 .. Len(u) : i > k => i - k \in 1 .. Len(t) /\ u[i] = t[i - k]

LEMMA AboveMany ==
    ASSUME NEW k \in Nat, NEW m \in Nat, NEW n, n = m + k, NEW i \in 1 .. n, i > k
    PROVE  i - k \in 1 .. m /\ (i - k) + k = i
OBVIOUS

LEMMA GrownShifted ==
    ASSUME NEW u, NEW t, Grown(u, t), NEW k, k = Len(u) - Len(t)
    PROVE  Shifted(u, t, k)
<1>1. Len(t) \in Nat /\ Len(u) \in Nat /\ k \in Nat /\ Len(u) = Len(t) + k
  BY GrownParts
<1>2. \A i \in 1 .. Len(t) : i + k \in 1 .. Len(u) /\ u[i + k] = t[i]
  BY GrownParts
<1>3. ASSUME NEW i \in 1 .. Len(u), i > k PROVE i - k \in 1 .. Len(t) /\ u[i] = t[i - k]
  <2>1. i - k \in 1 .. Len(t) /\ (i - k) + k = i
    BY <1>1, <1>3, AboveMany
  <2> QED BY <1>2, <2>1
<1> QED BY <1>1, <1>2, <1>3 DEF Shifted

LEMMA RowsOver ==
    ASSUME NEW u, NEW t, Grown(u, t), \A e \in Added(u, t) : e.at \notin RowKinds,
           NEW n, NEW a, NEW rec
    PROVE  Rows(n, a, rec, t) <=> Rows(n, a, rec, u)
<1>1. PICK k : k = Len(u) - Len(t)
  OBVIOUS
<1>2. Shifted(u, t, k)
  BY <1>1, GrownShifted
<1>3. \A i \in 1 .. Len(u) : u[i].at \in RowKinds => i > k
  <2> SUFFICES ASSUME NEW i \in 1 .. Len(u), ~(i > k)
               PROVE  u[i].at \notin RowKinds
    OBVIOUS
  <2>1. i \in 1 .. k
    BY <1>2 DEF Shifted
  <2>2. u[i] \in Added(u, t)
    BY <1>1, <2>1 DEF Added
  <2> QED BY <2>2
<1>4. \A i \in 1 .. Len(u) :
         u[i].at \in ListKinds \cup StateKinds
         => /\ i - k \in 1 .. Len(t) /\ u[i] = t[i - k] /\ (i - k) + k = i
            /\ i < Len(u) <=> i - k < Len(t)
  BY <1>2, <1>3 DEF Shifted, RowKinds
<1>5. \A i \in 1 .. Len(t) : /\ i + k \in 1 .. Len(u) /\ u[i + k] = t[i] /\ (i + k) - k = i
                             /\ i < Len(t) <=> i + k < Len(u)
  BY <1>2 DEF Shifted
<1>6. k \in Nat /\ Len(t) \in Nat /\ Len(u) \in Nat
  BY <1>2 DEF Shifted
<1>7. ASSUME Rows(n, a, rec, t) PROVE Rows(n, a, rec, u)
  <2>1. ASSUME NEW i \in 1 .. Len(u), u[i].at \in StateKinds
        PROVE  /\ u[i].state.pos \in Positions
               /\ \/ Room(n, u[i], rec)
                  \/ \E j \in 1 .. i - 1 : u[j].at \in ListKinds /\ Room(u[j].mark, u[i], rec)
    <3>1. i - k \in 1 .. Len(t) /\ u[i] = t[i - k]
      BY <1>4, <2>1
    <3>2. /\ u[i].state.pos \in Positions
          /\ \/ Room(n, u[i], rec)
             \/ \E j \in 1 .. (i - k) - 1 : t[j].at \in ListKinds /\ Room(t[j].mark, u[i], rec)
      BY <1>7, <2>1, <3>1 DEF Rows
    <3>3. ASSUME NEW j \in 1 .. (i - k) - 1
          PROVE  j + k \in 1 .. i - 1 /\ u[j + k] = t[j]
      <4>1. j \in 1 .. Len(t) /\ j \in Nat \ {0} /\ j + k <= i - 1
        BY <1>6, <3>1
      <4>2. j + k \in 1 .. i - 1
        BY <1>6, <4>1
      <4> QED BY <1>5, <4>1, <4>2
    <3> QED BY <3>2, <3>3
  <2>2. \A i, j \in 1 .. Len(u) :
           u[i].at \in StateKinds /\ u[j].at \in ListKinds /\ i < j /\ j < Len(u)
           => u[j].mark + 1 <= Allowance(u[i].state.pos, rec)
    <3> SUFFICES ASSUME NEW i \in 1 .. Len(u), NEW j \in 1 .. Len(u),
                        u[i].at \in StateKinds, u[j].at \in ListKinds, i < j, j < Len(u)
                 PROVE  u[j].mark + 1 <= Allowance(u[i].state.pos, rec)
      OBVIOUS
    <3>1. /\ i - k \in 1 .. Len(t) /\ u[i] = t[i - k]
          /\ j - k \in 1 .. Len(t) /\ u[j] = t[j - k] /\ j - k < Len(t)
      BY <1>4
    <3>2. i - k < j - k
      BY <1>6
    <3> QED BY <1>7, <3>1, <3>2 DEF Rows
  <2>3. /\ n \in Nat
        /\ \A i \in 1 .. Len(u) : u[i].at \in ListKinds => u[i].mark \in Nat
        /\ \A j \in 1 .. Len(u) : u[j].at \in ListKinds /\ j < Len(u) => u[j].mark + 1 <= a
    BY <1>4, <1>7 DEF Rows
  <2> QED BY <2>1, <2>2, <2>3 DEF Rows
<1>8. ASSUME Rows(n, a, rec, u) PROVE Rows(n, a, rec, t)
  <2>1. ASSUME NEW i \in 1 .. Len(t), t[i].at \in StateKinds
        PROVE  /\ t[i].state.pos \in Positions
               /\ \/ Room(n, t[i], rec)
                  \/ \E j \in 1 .. i - 1 : t[j].at \in ListKinds /\ Room(t[j].mark, t[i], rec)
    <3>1. i + k \in 1 .. Len(u) /\ u[i + k] = t[i]
      BY <1>5
    <3>2. /\ t[i].state.pos \in Positions
          /\ \/ Room(n, t[i], rec)
             \/ \E j \in 1 .. (i + k) - 1 : u[j].at \in ListKinds /\ Room(u[j].mark, t[i], rec)
      BY <1>8, <2>1, <3>1 DEF Rows
    <3>3. ASSUME NEW j \in 1 .. (i + k) - 1, u[j].at \in ListKinds
          PROVE  j - k \in 1 .. i - 1 /\ u[j] = t[j - k]
      <4>1. j \in 1 .. Len(u)
        BY <1>6, <3>1
      <4> QED BY <1>4, <1>6, <3>3, <4>1
    <3> QED BY <3>2, <3>3
  <2>2. \A i, j \in 1 .. Len(t) :
           t[i].at \in StateKinds /\ t[j].at \in ListKinds /\ i < j /\ j < Len(t)
           => t[j].mark + 1 <= Allowance(t[i].state.pos, rec)
    <3> SUFFICES ASSUME NEW i \in 1 .. Len(t), NEW j \in 1 .. Len(t),
                        t[i].at \in StateKinds, t[j].at \in ListKinds, i < j, j < Len(t)
                 PROVE  t[j].mark + 1 <= Allowance(t[i].state.pos, rec)
      OBVIOUS
    <3>1. /\ i + k \in 1 .. Len(u) /\ u[i + k] = t[i]
          /\ j + k \in 1 .. Len(u) /\ u[j + k] = t[j] /\ j + k < Len(u)
      BY <1>5
    <3>2. i + k < j + k
      BY <1>6
    <3> QED BY <1>8, <3>1, <3>2 DEF Rows
  <2>3. /\ n \in Nat
        /\ \A i \in 1 .. Len(t) : t[i].at \in ListKinds => t[i].mark \in Nat
        /\ \A j \in 1 .. Len(t) : t[j].at \in ListKinds /\ j < Len(t) => t[j].mark + 1 <= a
    BY <1>5, <1>8 DEF Rows
  <2> QED BY <2>1, <2>2, <2>3 DEF Rows
<1> QED BY <1>7, <1>8

\* More is allowed, or fewer statements are made.
LEMMA RowsGrow ==
    ASSUME NEW n, NEW a \in Nat, NEW rec, NEW t, Rows(n, a, rec, t),
           NEW m \in Nat, m <= n, NEW c \in Nat, a <= c, NEW new,
           \A i \in Positions : /\ Allowance(i, rec) \in Nat /\ Allowance(i, new) \in Nat
                                /\ Allowance(i, rec) <= Allowance(i, new)
    PROVE  Rows(m, c, new, t)
<1>1. n \in Nat
  BY DEF Rows
<1>2. ASSUME NEW e, e.state.pos \in Positions, NEW x \in Nat, Room(x, e, rec), NEW y \in Nat, y <= x
      PROVE  Room(y, e, new)
  <2>1. PICK b, d : b = Allowance(e.state.pos, rec) /\ d = Allowance(e.state.pos, new)
    OBVIOUS
  <2>2. b \in Nat /\ d \in Nat /\ b <= d
    BY <1>2, <2>1
  <2> QED BY <1>2, <2>1, <2>2 DEF Room
<1>3. ASSUME NEW i \in 1 .. Len(t), t[i].at \in StateKinds
      PROVE  /\ t[i].state.pos \in Positions
             /\ \/ Room(m, t[i], new)
                \/ \E j \in 1 .. i - 1 : t[j].at \in ListKinds /\ Room(t[j].mark, t[i], new)
  <2>1. /\ t[i].state.pos \in Positions
        /\ \/ Room(n, t[i], rec)
           \/ \E j \in 1 .. i - 1 : t[j].at \in ListKinds /\ Room(t[j].mark, t[i], rec)
    BY <1>3 DEF Rows
  <2>2. CASE Room(n, t[i], rec)
    BY <1>1, <1>2, <2>1, <2>2
  <2>3. ASSUME NEW j \in 1 .. i - 1, t[j].at \in ListKinds, Room(t[j].mark, t[i], rec)
        PROVE  Room(t[j].mark, t[i], new)
    <3>1. j \in 1 .. Len(t)
      OBVIOUS
    <3>2. t[j].mark \in Nat
      BY <2>3, <3>1 DEF Rows
    <3> QED BY <1>2, <2>1, <2>3, <3>2
  <2> QED BY <2>1, <2>2, <2>3
<1>4. ASSUME NEW i \in 1 .. Len(t), NEW j \in 1 .. Len(t),
             t[i].at \in StateKinds, t[j].at \in ListKinds, i < j, j < Len(t)
      PROVE  t[j].mark + 1 <= Allowance(t[i].state.pos, new)
  <2>1. /\ t[j].mark + 1 <= Allowance(t[i].state.pos, rec) /\ t[j].mark \in Nat
        /\ t[i].state.pos \in Positions
    BY <1>4 DEF Rows
  <2> QED BY <2>1
<1>5. ASSUME NEW j \in 1 .. Len(t), t[j].at \in ListKinds, j < Len(t) PROVE t[j].mark + 1 <= c
  <2>1. t[j].mark + 1 <= a /\ t[j].mark \in Nat
    BY <1>5 DEF Rows
  <2> QED BY <2>1
<1>6. \A i \in 1 .. Len(t) : t[i].at \in ListKinds => t[i].mark \in Nat
  BY DEF Rows
<1> QED BY <1>3, <1>4, <1>5, <1>6 DEF Rows

\* A list begins or ends: the frame on top of the others.
LEMMA RowsListed ==
    ASSUME NEW u, NEW t, Grown(u, t), Len(u) - Len(t) = 1, u[1].at \in ListKinds,
           NEW a, NEW rec, NEW n \in Nat
    PROVE  /\ Rows(u[1].mark, a, rec, t) /\ (t = <<>> \/ u[1].mark + 1 <= a)
              => Rows(n, a, rec, u)
           /\ /\ Rows(n, a, rec, u) /\ u[1].mark <= n
              /\ \A i \in Positions : Allowance(i, rec) \in Nat
              => Rows(u[1].mark, a, rec, t) /\ (t = <<>> \/ u[1].mark + 1 <= a)
<1>1. PICK k : k = 1
  OBVIOUS
<1>2. Shifted(u, t, 1) /\ IsList(t)
  BY GrownShifted DEF Grown
<1>3. u[1].at \notin StateKinds
  BY DEF ListKinds, StateKinds
<1>4. Len(t) \in Nat /\ Len(u) = Len(t) + 1 /\ (t = <<>> <=> Len(t) = 0)
  BY <1>2, ListElim DEF Shifted
<1>5. \A i \in 1 .. Len(u) : i = 1 \/ (i - 1 \in 1 .. Len(t) /\ u[i] = t[i - 1])
  BY <1>2 DEF Shifted
<1>6. \A i \in 1 .. Len(t) : i + 1 \in 1 .. Len(u) /\ u[i + 1] = t[i] /\ i + 1 > 1
  BY <1>2 DEF Shifted
<1>7. ASSUME Rows(u[1].mark, a, rec, t), t = <<>> \/ u[1].mark + 1 <= a
      PROVE  Rows(n, a, rec, u)
  <2>1. u[1].mark \in Nat
    BY <1>7 DEF Rows
  <2>2. ASSUME NEW i \in 1 .. Len(u), u[i].at \in StateKinds
        PROVE  /\ u[i].state.pos \in Positions
               /\ \E j \in 1 .. i - 1 : u[j].at \in ListKinds /\ Room(u[j].mark, u[i], rec)
    <3>1. i - 1 \in 1 .. Len(t) /\ u[i] = t[i - 1] /\ i \in Nat
      BY <1>3, <1>5, <2>2
    <3>2. /\ u[i].state.pos \in Positions
          /\ \/ Room(u[1].mark, u[i], rec)
             \/ \E j \in 1 .. (i - 1) - 1 : t[j].at \in ListKinds /\ Room(t[j].mark, u[i], rec)
      BY <1>7, <2>2, <3>1 DEF Rows
    <3>3. 1 \in 1 .. i - 1
      BY <1>4, <3>1
    <3>4. ASSUME NEW j \in 1 .. (i - 1) - 1 PROVE j + 1 \in 1 .. i - 1 /\ u[j + 1] = t[j]
      <4>1. j \in 1 .. Len(t) /\ j + 1 \in 1 .. i - 1
        BY <1>4, <3>1
      <4> QED BY <1>6, <4>1
    <3> QED BY <3>2, <3>3, <3>4
  <2>3. ASSUME NEW i \in 1 .. Len(u), NEW j \in 1 .. Len(u),
               u[i].at \in StateKinds, u[j].at \in ListKinds, i < j, j < Len(u)
        PROVE  u[j].mark + 1 <= Allowance(u[i].state.pos, rec)
    <3>1. /\ i - 1 \in 1 .. Len(t) /\ u[i] = t[i - 1]
          /\ j - 1 \in 1 .. Len(t) /\ u[j] = t[j - 1]
      BY <1>3, <1>5, <2>3
    <3>2. i - 1 < j - 1 /\ j - 1 < Len(t)
      BY <1>4, <2>3
    <3> QED BY <1>7, <2>3, <3>1, <3>2 DEF Rows
  <2>4. ASSUME NEW j \in 1 .. Len(u), u[j].at \in ListKinds
        PROVE  u[j].mark \in Nat /\ (j < Len(u) => u[j].mark + 1 <= a)
    <3>1. CASE j = 1
      BY <1>4, <1>7, <2>1, <3>1
    <3>2. CASE j # 1
      <4>1. j - 1 \in 1 .. Len(t) /\ u[j] = t[j - 1] /\ (j < Len(u) => j - 1 < Len(t))
        BY <1>4, <1>5, <3>2
      <4> QED BY <1>7, <2>4, <4>1 DEF Rows
    <3> QED BY <3>1, <3>2
  <2> QED BY <2>2, <2>3, <2>4 DEF Rows
<1>8. ASSUME Rows(n, a, rec, u), u[1].mark <= n,
             \A i \in Positions : Allowance(i, rec) \in Nat
      PROVE  Rows(u[1].mark, a, rec, t) /\ (t = <<>> \/ u[1].mark + 1 <= a)
  <2>1. 1 \in 1 .. Len(u) /\ (1 < Len(u) <=> t # <<>>)
    BY <1>4
  <2>2. u[1].mark \in Nat /\ (t = <<>> \/ u[1].mark + 1 <= a)
    BY <1>8, <2>1 DEF Rows
  <2>3. ASSUME NEW i \in 1 .. Len(t), t[i].at \in StateKinds
        PROVE  /\ t[i].state.pos \in Positions
               /\ \/ Room(u[1].mark, t[i], rec)
                  \/ \E j \in 1 .. i - 1 : t[j].at \in ListKinds /\ Room(t[j].mark, t[i], rec)
    <3>1. i + 1 \in 1 .. Len(u) /\ u[i + 1] = t[i]
      BY <1>6
    <3>2. /\ t[i].state.pos \in Positions
          /\ \/ Room(n, t[i], rec)
             \/ \E j \in 1 .. (i + 1) - 1 : u[j].at \in ListKinds /\ Room(u[j].mark, t[i], rec)
      BY <1>8, <2>3, <3>1 DEF Rows
    <3>3. Room(n, t[i], rec) => Room(u[1].mark, t[i], rec)
      <4>1. PICK b : b = Allowance(t[i].state.pos, rec)
        OBVIOUS
      <4>2. b \in Nat
        BY <1>8, <3>2, <4>1
      <4> QED BY <1>8, <2>2, <4>1, <4>2 DEF Room
    <3>4. ASSUME NEW j \in 1 .. (i + 1) - 1, u[j].at \in ListKinds, j # 1
          PROVE  j - 1 \in 1 .. i - 1 /\ u[j] = t[j - 1]
      <4>1. j \in 1 .. Len(u) /\ j - 1 \in 1 .. i - 1
        BY <1>4, <3>4
      <4> QED BY <1>5, <3>4, <4>1
    <3> QED BY <3>2, <3>3, <3>4
  <2>4. ASSUME NEW i \in 1 .. Len(t), NEW j \in 1 .. Len(t),
               t[i].at \in StateKinds, t[j].at \in ListKinds, i < j, j < Len(t)
        PROVE  t[j].mark + 1 <= Allowance(t[i].state.pos, rec)
    <3>1. /\ i + 1 \in 1 .. Len(u) /\ u[i + 1] = t[i]
          /\ j + 1 \in 1 .. Len(u) /\ u[j + 1] = t[j]
          /\ i + 1 < j + 1 /\ j + 1 < Len(u)
      BY <1>4, <1>6, <2>4
    <3> QED BY <1>8, <2>4, <3>1 DEF Rows
  <2>5. ASSUME NEW j \in 1 .. Len(t), t[j].at \in ListKinds
        PROVE  t[j].mark \in Nat /\ (j < Len(t) => t[j].mark + 1 <= a)
    <3>1. j + 1 \in 1 .. Len(u) /\ u[j + 1] = t[j] /\ (j < Len(t) => j + 1 < Len(u))
      BY <1>4, <1>6
    <3> QED BY <1>8, <2>5, <3>1 DEF Rows
  <2> QED BY <2>2, <2>3, <2>4, <2>5 DEF Rows
<1> QED BY <1>7, <1>8

\* A mark to go back to, on top of the others.
LEMMA RowsSaved ==
    ASSUME NEW u, NEW t, Grown(u, t), Len(u) - Len(t) = 1, u[1].at \in StateKinds,
           NEW a \in Nat, NEW rec, NEW n, NEW c, c = Allowance(u[1].state.pos, rec)
    PROVE  /\ /\ Rows(n, a, rec, t) /\ Room(n, u[1], rec) /\ u[1].state.pos \in Positions
              /\ c \in Nat /\ a <= c
              => Rows(n, a, rec, u)
           /\ Rows(n, a, rec, u)
              => /\ Rows(n, a, rec, t) /\ Rows(n, c, rec, t) /\ Room(n, u[1], rec)
                 /\ u[1].state.pos \in Positions
<1>2. Shifted(u, t, 1)
  <2>1. PICK k : k = 1
    OBVIOUS
  <2> QED BY GrownShifted, <2>1
<1>3. u[1].at \notin ListKinds
  BY DEF ListKinds, StateKinds
<1>4. Len(t) \in Nat /\ Len(u) = Len(t) + 1
  BY <1>2 DEF Shifted
<1>5. \A i \in 1 .. Len(u) : i = 1 \/ (i - 1 \in 1 .. Len(t) /\ u[i] = t[i - 1])
  BY <1>2 DEF Shifted
<1>6. \A i \in 1 .. Len(t) : i + 1 \in 1 .. Len(u) /\ u[i + 1] = t[i] /\ i + 1 > 1
  BY <1>2 DEF Shifted
<1>7. ASSUME Rows(n, a, rec, t), Room(n, u[1], rec), u[1].state.pos \in Positions,
             c \in Nat, a <= c
      PROVE  Rows(n, a, rec, u)
  <2>1. n \in Nat
    BY <1>7 DEF Rows
  <2>2. ASSUME NEW i \in 1 .. Len(u), u[i].at \in StateKinds, i # 1
        PROVE  /\ u[i].state.pos \in Positions
               /\ \/ Room(n, u[i], rec)
                  \/ \E j \in 1 .. i - 1 : u[j].at \in ListKinds /\ Room(u[j].mark, u[i], rec)
    <3>1. i - 1 \in 1 .. Len(t) /\ u[i] = t[i - 1] /\ i \in Nat
      BY <1>5, <2>2
    <3>2. /\ u[i].state.pos \in Positions
          /\ \/ Room(n, u[i], rec)
             \/ \E j \in 1 .. (i - 1) - 1 : t[j].at \in ListKinds /\ Room(t[j].mark, u[i], rec)
      BY <1>7, <2>2, <3>1 DEF Rows
    <3>4. ASSUME NEW j \in 1 .. (i - 1) - 1 PROVE j + 1 \in 1 .. i - 1 /\ u[j + 1] = t[j]
      <4>1. j \in 1 .. Len(t) /\ j + 1 \in 1 .. i - 1
        BY <1>4, <3>1
      <4> QED BY <1>6, <4>1
    <3> QED BY <3>2, <3>4
  <2>3. ASSUME NEW j \in 1 .. Len(u), u[j].at \in ListKinds
        PROVE  /\ j - 1 \in 1 .. Len(t) /\ u[j] = t[j - 1]
               /\ j < Len(u) => j - 1 < Len(t)
               /\ u[j].mark \in Nat
    <3>1. j - 1 \in 1 .. Len(t) /\ u[j] = t[j - 1]
      BY <1>3, <1>5, <2>3
    <3> QED BY <1>4, <1>7, <2>3, <3>1 DEF Rows
  <2>4. ASSUME NEW j \in 1 .. Len(u), u[j].at \in ListKinds, j < Len(u)
        PROVE  u[j].mark + 1 <= a
    BY <1>7, <2>3, <2>4 DEF Rows
  <2>5. ASSUME NEW i \in 1 .. Len(u), NEW j \in 1 .. Len(u),
               u[i].at \in StateKinds, u[j].at \in ListKinds, i < j, j < Len(u)
        PROVE  u[j].mark + 1 <= Allowance(u[i].state.pos, rec)
    <3>1. CASE i = 1
      <4>1. u[j].mark + 1 <= a /\ u[j].mark \in Nat
        BY <2>3, <2>4, <2>5
      <4> QED BY <1>7, <3>1, <4>1
    <3>2. CASE i # 1
      <4>1. /\ i - 1 \in 1 .. Len(t) /\ u[i] = t[i - 1]
            /\ j - 1 \in 1 .. Len(t) /\ u[j] = t[j - 1]
        BY <1>5, <2>3, <2>5, <3>2
      <4>2. i - 1 < j - 1 /\ j - 1 < Len(t)
        BY <1>4, <2>5
      <4> QED BY <1>7, <2>5, <4>1, <4>2 DEF Rows
    <3> QED BY <3>1, <3>2
  <2> QED BY <1>7, <2>1, <2>2, <2>3, <2>4, <2>5 DEF Rows
<1>8. ASSUME Rows(n, a, rec, u)
      PROVE  /\ Rows(n, a, rec, t) /\ Rows(n, c, rec, t) /\ Room(n, u[1], rec)
             /\ u[1].state.pos \in Positions
  <2>1. Room(n, u[1], rec) /\ u[1].state.pos \in Positions /\ n \in Nat
    <3>1. 1 \in 1 .. Len(u) /\ 1 .. 1 - 1 = {}
      BY <1>4
    <3> QED BY <1>8, <3>1 DEF Rows
  <2>3. ASSUME NEW i \in 1 .. Len(t), t[i].at \in StateKinds
        PROVE  /\ t[i].state.pos \in Positions
               /\ \/ Room(n, t[i], rec)
                  \/ \E j \in 1 .. i - 1 : t[j].at \in ListKinds /\ Room(t[j].mark, t[i], rec)
    <3>1. i + 1 \in 1 .. Len(u) /\ u[i + 1] = t[i]
      BY <1>6
    <3>2. /\ t[i].state.pos \in Positions
          /\ \/ Room(n, t[i], rec)
             \/ \E j \in 1 .. (i + 1) - 1 : u[j].at \in ListKinds /\ Room(u[j].mark, t[i], rec)
      BY <1>8, <2>3, <3>1 DEF Rows
    <3>4. ASSUME NEW j \in 1 .. (i + 1) - 1, u[j].at \in ListKinds
          PROVE  j - 1 \in 1 .. i - 1 /\ u[j] = t[j - 1]
      <4>1. j \in 1 .. Len(u) /\ j # 1
        BY <1>3, <1>4, <3>4
      <4>2. j - 1 \in 1 .. i - 1
        BY <1>4, <3>4, <4>1
      <4> QED BY <1>5, <3>4, <4>1, <4>2
    <3> QED BY <3>2, <3>4
  <2>4. ASSUME NEW i \in 1 .. Len(t), NEW j \in 1 .. Len(t),
               t[i].at \in StateKinds, t[j].at \in ListKinds, i < j, j < Len(t)
        PROVE  t[j].mark + 1 <= Allowance(t[i].state.pos, rec)
    <3>1. /\ i + 1 \in 1 .. Len(u) /\ u[i + 1] = t[i]
          /\ j + 1 \in 1 .. Len(u) /\ u[j + 1] = t[j]
          /\ i + 1 < j + 1 /\ j + 1 < Len(u)
      BY <1>4, <1>6, <2>4
    <3> QED BY <1>8, <2>4, <3>1 DEF Rows
  <2>5. ASSUME NEW j \in 1 .. Len(t), t[j].at \in ListKinds
        PROVE  t[j].mark \in Nat
               /\ (j < Len(t) => t[j].mark + 1 <= a /\ t[j].mark + 1 <= c)
    <3>1. /\ j + 1 \in 1 .. Len(u) /\ u[j + 1] = t[j] /\ (j < Len(t) => j + 1 < Len(u))
          /\ 1 \in 1 .. Len(u) /\ 1 < j + 1
      BY <1>4, <1>6
    <3> QED BY <1>8, <2>5, <3>1 DEF Rows
  <2> QED BY <2>1, <2>3, <2>4, <2>5 DEF Rows
<1> QED BY <1>7, <1>8

\* Another statement may be made, or a token is about to be consumed.
Going(q, t) ==
    LET n == Len(q["stmtBuf"]) IN
    \/ n + 1 <= Allowed(q)
    \/ /\ n <= Allowed(q)
       /\ \/ t = <<>>
          \/ Head(t).at = "NextStatement"
          \/ Head(t).at \in Fresh /\ Kind(q) # "Eof"

Recovers(q, t) == Rows(Len(q["stmtBuf"]), Allowed(q), q.recover, t) /\ Going(q, t)

LEMMA FurtherNat ==
    ASSUME Sound, Further(p, p')
    PROVE  /\ Allowed(p) \in Nat /\ Allowed(p') \in Nat /\ Allowed(p) <= Allowed(p')
           /\ Len(p["stmtBuf"]) \in Nat /\ Len(p'["stmtBuf"]) \in Nat
           /\ \A i \in Positions :
                 /\ Allowance(i, p.recover) \in Nat /\ Allowance(i, p'.recover) \in Nat
                 /\ Allowance(i, p.recover) <= Allowance(i, p'.recover)
<1>1. WellFormed(p) /\ WellFormed(p') /\ IsText /\ "stmtBuf" \in Buffers
  BY DEF Further, Sound, Buffers
<1> QED BY <1>1, AllowedNat, ListElim DEF WellFormed, Further

\* The rows of what lies below the top.
LEMMA BelowTop ==
    ASSUME Sound, todo # <<>>, NEW t, t = Tail(todo)
    PROVE  /\ IsList(t) /\ Grown(todo, t) /\ Added(todo, t) = {Top}
           /\ Len(todo) - Len(t) = 1 /\ Top = todo[1] /\ "at" \in DOMAIN Top /\ Shape(t)
<1>1. IsList(todo)
  BY DEF Sound, Shape
<1>2. Grown(todo, t) /\ Added(todo, t) = {Top} /\ IsList(t) /\ "at" \in DOMAIN Top /\ Shape(t)
  BY <1>1, GrownTail, TopPopped DEF Top
<1>3. Len(Tail(todo)) = Len(todo) - 1 /\ Len(todo) \in Nat \ {0} /\ Head(todo) = todo[1]
  BY <1>1, Popped
<1>4. Len(todo) - Len(t) = 1
  <2>1. PICK k : k = Len(todo)
    OBVIOUS
  <2>2. Len(t) = k - 1 /\ k \in Nat
    BY <1>3, <2>1
  <2> QED BY <2>1, <2>2
<1> QED BY <1>2, <1>3, <1>4 DEF Top

LEMMA RecoversOn ==
    ASSUME Sound, Recovers(p, todo), OnStep
    PROVE  Recovers(p', todo')
<1>1. PICK t, n : t = Tail(todo) /\ n = Len(p["stmtBuf"])
  OBVIOUS
<1>2. /\ todo # <<>> /\ Top.at \notin RowKinds /\ Further(p, p') /\ Len(p'["stmtBuf"]) = n
      /\ Grown(todo', t) /\ (\A e \in Added(todo', t) : e.at \notin RowKinds) /\ Progresses
  BY <1>1 DEF OnStep, Kept, RowKinds
<1>3. /\ Allowed(p) \in Nat /\ Allowed(p') \in Nat /\ Allowed(p) <= Allowed(p')
      /\ n \in Nat
      /\ \A i \in Positions :
            /\ Allowance(i, p.recover) \in Nat /\ Allowance(i, p'.recover) \in Nat
            /\ Allowance(i, p.recover) <= Allowance(i, p'.recover)
  BY <1>1, <1>2, FurtherNat
<1>4. Grown(todo, t) /\ Added(todo, t) = {Top}
  BY <1>1, <1>2, BelowTop
<1>5. Rows(n, Allowed(p), p.recover, t)
  BY <1>1, <1>2, <1>4, RowsOver DEF Recovers
<1>6. Rows(n, Allowed(p'), p'.recover, t)
  BY <1>3, <1>5, RowsGrow
<1>7. Rows(n, Allowed(p'), p'.recover, todo')
  BY <1>2, <1>6, RowsOver
<1>8. Going(p', todo')
  <2>1. CASE n + 1 <= Allowed(p)
    BY <1>2, <1>3, <2>1 DEF Going
  <2>2. CASE n <= Allowed(p) /\ Top.at \in Fresh /\ Kind(p) # "Eof"
    <3>1. Past(p, p') \/ (todo' # <<>> /\ Head(todo').at \in Fresh /\ Kind(p') # "Eof")
      BY <1>2, <2>2 DEF Progresses
    <3> QED BY <1>2, <1>3, <2>2, <3>1 DEF Going, Past
  <2>3. Top.at # "NextStatement"
    BY <1>2 DEF RowKinds, ListKinds
  <2> QED BY <1>1, <1>2, <2>1, <2>2, <2>3 DEF Recovers, Going, Top
<1> QED BY <1>2, <1>7, <1>8 DEF Recovers

\* Nothing above what must not have been reached.
LEMMA RoomToGo ==
    ASSUME Recovers(p, todo), todo # <<>>, Top.at \notin Fresh, Top.at # "NextStatement"
    PROVE  Len(p["stmtBuf"]) + 1 <= Allowed(p)
BY DEF Recovers, Going, Top

LEMMA RecoversPatch ==
    ASSUME Sound, Recovers(p, todo), PatchStep
    PROVE  Recovers(p', todo')
<1>1. PICK t, s, n : t = Tail(todo) /\ s = Tail(t) /\ n = Len(p["stmtBuf"])
  OBVIOUS
<1>2. /\ todo # <<>> /\ Top.at \in {"Field", "CaseMade"} /\ Quiet(p, p') /\ t # <<>>
      /\ Head(t).at \in PatchKinds /\ Grown(todo', s)
      /\ \A e \in Added(todo', s) : e.at \notin RowKinds
  <2>1. /\ todo # <<>> /\ Top.at \in {"Field", "CaseMade"} /\ Quiet(p, p') /\ Tail(todo) # <<>>
        /\ Head(Tail(todo)).at \in PatchKinds /\ Grown(todo', Tail(Tail(todo)))
        /\ Added(todo', Tail(Tail(todo))) = {todo'[1]}
        /\ todo'[1].at \in {"ClassEnd", "NextCase"}
    BY DEF PatchStep
  <2>2. \A e \in Added(todo', Tail(Tail(todo))) : e.at \notin RowKinds
    BY <2>1 DEF RowKinds, ListKinds, StateKinds
  <2> QED BY <1>1, <2>1, <2>2, Zenon
<1>3. /\ Allowed(p) \in Nat /\ Allowed(p') \in Nat /\ Allowed(p) <= Allowed(p')
      /\ n \in Nat /\ Len(p'["stmtBuf"]) = n
      /\ \A i \in Positions :
            /\ Allowance(i, p.recover) \in Nat /\ Allowance(i, p'.recover) \in Nat
            /\ Allowance(i, p.recover) <= Allowance(i, p'.recover)
  BY <1>1, <1>2, FurtherNat DEF Quiet, Reads, SameLengths, Buffers
<1>4. Grown(todo, t) /\ Added(todo, t) = {Top} /\ IsList(t)
  BY <1>1, <1>2, BelowTop
<1>5. Top.at \notin RowKinds /\ Top.at \notin Fresh /\ Top.at # "NextStatement"
      /\ Head(t).at \notin RowKinds
  BY <1>2 DEF RowKinds, ListKinds, StateKinds, Fresh, PatchKinds
<1>6. Rows(n, Allowed(p), p.recover, t)
  BY <1>1, <1>4, <1>5, RowsOver DEF Recovers
<1>7. Grown(t, s) /\ Added(t, s) = {Head(t)}
  BY <1>1, <1>2, <1>4, GrownTail
<1>8. Rows(n, Allowed(p), p.recover, s)
  BY <1>5, <1>6, <1>7, RowsOver
<1>9. Rows(n, Allowed(p'), p'.recover, s)
  BY <1>3, <1>8, RowsGrow
<1>10. Rows(n, Allowed(p'), p'.recover, todo')
  BY <1>2, <1>9, RowsOver
<1>11. n + 1 <= Allowed(p)
  BY <1>1, <1>2, <1>5, RoomToGo
<1>12. Going(p', todo')
  BY <1>3, <1>11 DEF Going
<1> QED BY <1>3, <1>10, <1>12 DEF Recovers

LEMMA RecoversStates ==
    ASSUME Sound, Recovers(p, todo), StatesStep
    PROVE  Recovers(p', todo')
<1>1. PICK t, n : t = Tail(todo) /\ n = Len(p["stmtBuf"])
  OBVIOUS
<1>2. todo # <<>>
  BY DEF StatesStep, SavesStep, DropsStep, BackStep
<1>3. /\ Grown(todo, t) /\ Added(todo, t) = {Top} /\ IsList(t) /\ Len(todo) - Len(t) = 1
      /\ Top = todo[1]
  BY <1>1, <1>2, BelowTop
<1>4. WellFormed(p) /\ IsText /\ n \in Nat /\ Allowed(p) \in Nat
      /\ \A i \in Positions : Allowance(i, p.recover) \in Nat
  <2>1. WellFormed(p) /\ IsText /\ "stmtBuf" \in Buffers
    BY DEF Sound, Buffers
  <2> QED BY <1>1, <2>1, AllowedNat, ListElim DEF WellFormed
<1>5. ASSUME DropsStep PROVE Recovers(p', todo')
  <2>1. Top.at \in StateKinds /\ Quiet(p, p') /\ Grown(todo', t)
        /\ \A e \in Added(todo', t) : e.at \notin RowKinds
    BY <1>1, <1>5, CalmerFits DEF DropsStep, RowKinds
  <2>2. Rows(n, Allowed(p), p.recover, t)
    BY <1>1, <1>3, <1>4, <2>1, RowsSaved DEF Recovers
  <2>3. /\ Allowed(p') \in Nat /\ Allowed(p) <= Allowed(p') /\ Len(p'["stmtBuf"]) = n
        /\ \A i \in Positions :
              /\ Allowance(i, p'.recover) \in Nat
              /\ Allowance(i, p.recover) <= Allowance(i, p'.recover)
    BY <1>1, <2>1, FurtherNat DEF Quiet, Reads, SameLengths, Buffers
  <2>4. Rows(n, Allowed(p'), p'.recover, t)
    BY <1>4, <2>2, <2>3, RowsGrow
  <2>5. Rows(n, Allowed(p'), p'.recover, todo')
    BY <2>1, <2>4, RowsOver
  <2>6. n + 1 <= Allowed(p)
    BY <1>1, <1>2, <2>1, RoomToGo DEF StateKinds, Fresh
  <2>7. Going(p', todo')
    BY <1>4, <2>3, <2>6 DEF Going
  <2> QED BY <2>3, <2>5, <2>7 DEF Recovers
<1>6. ASSUME BackStep PROVE Recovers(p', todo')
  <2> DEFINE c == Allowance(Top.state.pos, p.recover)
  <2>1. /\ Top.at \in StateKinds /\ WellFormed(p') /\ SameLengths(p, p')
        /\ p'.recover = p.recover /\ Grown(todo', t)
        /\ (\A e \in Added(todo', t) : e.at \notin RowKinds)
        /\ c <= Allowed(p')
        /\ Top.at = "AssignmentRest" /\ Top.state.token.kind # "Eof"
           => \/ c + 1 <= Allowed(p')
              \/ todo' # <<>> /\ Head(todo').at \in Fresh /\ Kind(p') # "Eof"
    BY <1>1, <1>6, CalmerFits DEF BackStep, RowKinds
  <2>2. /\ Rows(n, c, p.recover, t) /\ Room(n, Top, p.recover) /\ Top.state.pos \in Positions
    <3>1. todo[1].at \in StateKinds /\ c = Allowance(todo[1].state.pos, p.recover)
      BY <1>3, <2>1
    <3>2. Rows(n, Allowed(p), p.recover, todo)
      BY <1>1 DEF Recovers
    <3> HIDE DEF c
    <3>3. Rows(n, c, p.recover, t) /\ Room(n, todo[1], p.recover) /\ todo[1].state.pos \in Positions
      BY <1>3, <1>4, <3>1, <3>2, RowsSaved
    <3> QED BY <1>3, <3>3
  <2>3. Allowed(p') \in Nat /\ c \in Nat /\ Len(p'["stmtBuf"]) = n
    BY <1>1, <1>4, <2>1, <2>2, AllowedNat DEF SameLengths, Buffers
  <2>4. Rows(n, Allowed(p'), p.recover, t)
    BY <1>4, <2>1, <2>2, <2>3, RowsGrow
  <2>5. Rows(n, Allowed(p'), p'.recover, todo')
    BY <2>1, <2>4, RowsOver
  <2>6. Going(p', todo')
    <3>1. CASE n + 1 <= c
      BY <1>4, <2>1, <2>3, <3>1 DEF Going
    <3>2. CASE Top.at = "AssignmentRest" /\ Top.state.token.kind # "Eof" /\ n <= c
      BY <1>4, <2>1, <2>3, <3>2 DEF Going
    <3> QED BY <2>2, <3>1, <3>2 DEF Room
  <2> QED BY <2>3, <2>5, <2>6 DEF Recovers
<1>7. ASSUME SavesStep PROVE Recovers(p', todo')
  <2>1. PICK u : u = todo'
    OBVIOUS
  <2>2. /\ Top.at \in {"Assignment", "Yield"} /\ Quiet(p, p') /\ Progresses
        /\ Grown(u, t) /\ Len(u) - Len(t) = 2
        /\ "at" \in DOMAIN u[1] /\ u[1].at \in {"Conditional", "Assignment"}
        /\ Fits(u[2]) /\ u[2].at \in StateKinds
        /\ \/ u[2].at = "AssignmentRest" /\ u[2].state = Mark(p)
           \/ /\ u[2].at = "YieldMade" /\ u[2].state = Mark(p')
              /\ Kind(p) # "Eof" => Past(p, p')
    <3>1. /\ Top.at \in {"Assignment", "Yield"} /\ Quiet(p, p') /\ Progresses
          /\ Grown(todo', Tail(todo)) /\ Len(todo') - Len(Tail(todo)) = 2
          /\ "at" \in DOMAIN todo'[1] /\ todo'[1].at \in {"Conditional", "Assignment"}
          /\ Fits(todo'[2]) /\ todo'[2].at \in StateKinds
          /\ \/ todo'[2].at = "AssignmentRest" /\ todo'[2].state = Mark(p)
             \/ /\ todo'[2].at = "YieldMade" /\ todo'[2].state = Mark(p')
                /\ Kind(p) # "Eof" => Past(p, p')
      BY <1>7 DEF SavesStep
    <3> QED BY <1>1, <2>1, <3>1, Zenon
  <2>3. PICK v : /\ Grown(v, t) /\ Added(v, t) = {u[2]}
                 /\ Grown(u, v) /\ Added(u, v) = {u[1]} /\ Len(u) - Len(v) = 1
    BY <2>2, GrownByTwo
  <2>4. Len(v) - Len(t) = 1 /\ v[1] = u[2]
    <3>1. Len(v) \in Nat /\ Len(t) \in Nat /\ Len(u) \in Nat
      BY <2>3, GrownParts
    <3>2. Len(v) - Len(t) = 1
      BY <2>2, <2>3, <3>1
    <3>3. v[1] \in Added(v, t)
      BY <3>2 DEF Added
    <3> QED BY <2>3, <3>2, <3>3
  <2>5. /\ Allowed(p') \in Nat /\ Allowed(p) <= Allowed(p') /\ Len(p'["stmtBuf"]) = n
        /\ WellFormed(p')
        /\ \A i \in Positions :
              /\ Allowance(i, p'.recover) \in Nat
              /\ Allowance(i, p.recover) <= Allowance(i, p'.recover)
    BY <1>1, <2>2, FurtherNat DEF Quiet, Reads, Further, SameLengths, Buffers
  <2>6. Top.at \notin RowKinds /\ Top.at # "NextStatement" /\ Top.at \in Fresh
    BY <2>2 DEF RowKinds, ListKinds, StateKinds, Fresh
  <2>7. Rows(n, Allowed(p), p.recover, t)
    BY <1>1, <1>3, <2>6, RowsOver DEF Recovers
  <2>8. Rows(n, Allowed(p), p'.recover, t) /\ Rows(n, Allowed(p'), p'.recover, t)
    BY <1>4, <2>5, <2>7, RowsGrow
  <2>9. n + 1 <= Allowed(p) \/ (n <= Allowed(p) /\ Kind(p) # "Eof")
    <3>1. Going(p, todo)
      BY DEF Recovers
    <3>2. todo # <<>> /\ Head(todo).at # "NextStatement"
      BY <1>2, <2>6 DEF Top
    <3> QED BY <1>1, <3>1, <3>2 DEF Going
  <2> DEFINE c == Allowance(u[2].state.pos, p'.recover)
  <2>10. ASSUME NEW a \in Nat, a <= c, c \in Nat, Rows(n, a, p'.recover, t),
                Room(n, u[2], p'.recover), u[2].state.pos \in Positions
         PROVE  Rows(n, a, p'.recover, todo')
    <3>1. Rows(n, a, p'.recover, v)
      BY <2>2, <2>3, <2>4, <2>10, RowsSaved
    <3>2. \A e \in Added(u, v) : e.at \notin RowKinds
      BY <2>2, <2>3 DEF RowKinds, ListKinds, StateKinds
    <3> QED BY <2>1, <2>3, <3>1, <3>2, RowsOver
  <2>11. Rows(n, Allowed(p'), p'.recover, todo')
    <3>1. CASE u[2].at = "YieldMade"
      <4>1. u[2].state.pos = p'.pos /\ p'.pos \in Positions
        BY <2>2, <2>5, <3>1, MarkOf DEF WellFormed, Mark
      <4>2. c = Allowed(p')
        BY <4>1 DEF Allowed
      <4>3. n + 1 <= Allowed(p')
        BY <1>4, <2>2, <2>5, <2>9, <3>1 DEF Past
      <4>4. Room(n, u[2], p'.recover)
        BY <4>2, <4>3 DEF Room
      <4> QED BY <2>5, <2>8, <2>10, <4>1, <4>2, <4>4
    <3>2. CASE u[2].at = "AssignmentRest"
      <4>1. u[2].state.pos = p.pos /\ p.pos \in Positions /\ u[2].state.token = p.token
        BY <1>4, <2>2, <3>2 DEF WellFormed, Mark, StateKinds
      <4>2. Allowed(p) <= c /\ c \in Nat
        BY <2>5, <4>1 DEF Allowed
      <4>3. Room(n, u[2], p'.recover)
        BY <1>4, <2>9, <3>2, <4>1, <4>2 DEF Room, Kind
      <4>4. Rows(n, Allowed(p), p'.recover, todo')
        BY <1>4, <2>8, <2>10, <4>1, <4>2, <4>3
      <4> QED BY <1>4, <2>5, <4>4, RowsGrow
    <3> QED BY <2>2, <3>1, <3>2 DEF StateKinds
  <2>12. Going(p', todo')
    <3>1. CASE n + 1 <= Allowed(p)
      BY <1>4, <2>5, <3>1 DEF Going
    <3>2. CASE n <= Allowed(p) /\ Kind(p) # "Eof"
      <4>1. Past(p, p') \/ (todo' # <<>> /\ Head(todo').at \in Fresh /\ Kind(p') # "Eof")
        BY <2>2, <2>6, <3>2 DEF Progresses
      <4> QED BY <1>4, <2>5, <3>2, <4>1 DEF Going, Past
    <3> QED BY <2>9, <3>1, <3>2
  <2> QED BY <2>5, <2>11, <2>12 DEF Recovers
<1> QED BY <1>5, <1>6, <1>7 DEF StatesStep

-----------------------------------------------------------------------------

\* What a step leaves allowed, when the state only goes further.
LEMMA FurtherRows ==
    ASSUME Sound, Further(p, p'), NEW t, NEW m \in Nat, Rows(m, Allowed(p), p.recover, t)
    PROVE  Rows(m, Allowed(p'), p'.recover, t)
<1>1. /\ Allowed(p) \in Nat /\ Allowed(p') \in Nat /\ Allowed(p) <= Allowed(p')
      /\ \A i \in Positions :
            /\ Allowance(i, p.recover) \in Nat /\ Allowance(i, p'.recover) \in Nat
            /\ Allowance(i, p.recover) <= Allowance(i, p'.recover)
  BY FurtherNat
<1> QED BY <1>1, RowsGrow

\* The list on top ends: what was made before it, and what is below it.
LEMMA ListOnTop ==
    ASSUME Sound, InOrder(p, todo), Recovers(p, todo), todo # <<>>, Top.at \in ListKinds,
           NEW t, t = Tail(todo)
    PROVE  /\ Rows(Top.mark, Allowed(p), p.recover, t)
           /\ Top.mark \in Nat /\ Top.mark <= Len(p["stmtBuf"])
           /\ t = <<>> \/ Top.mark + 1 <= Allowed(p)
<1>1. PICK n : n = Len(p["stmtBuf"])
  OBVIOUS
<1>2. /\ Grown(todo, t) /\ Len(todo) - Len(t) = 1 /\ Top = todo[1]
  BY BelowTop
<1>3. WellFormed(p) /\ IsText
  BY DEF Sound
<1>4. "stmtBuf" \in Buffers /\ Top.at \in MarkFrames["stmtBuf"]
  BY DEF Buffers, MarkFrames, ListKinds
<1>5. Top.mark \in 0 .. n /\ n \in Nat
  BY <1>1, <1>4, TopMark
<1>6. Rows(n, Allowed(p), p.recover, todo)
  BY <1>1 DEF Recovers
<1>7. \A i \in Positions : Allowance(i, p.recover) \in Nat
  BY <1>3, AllowedNat
<1>8. todo[1].at \in ListKinds /\ todo[1].mark <= n
  BY <1>2, <1>5
<1>9. Rows(todo[1].mark, Allowed(p), p.recover, t) /\ (t = <<>> \/ todo[1].mark + 1 <= Allowed(p))
  BY <1>2, <1>5, <1>6, <1>7, <1>8, RowsListed
<1> QED BY <1>1, <1>2, <1>5, <1>9

\* A list begins, takes another statement, adds it, ends.
LEMMA RecoversOpens ==
    ASSUME Sound, Recovers(p, todo), OpensStep
    PROVE  Recovers(p', todo')
<1>1. PICK t, u, n : t = Tail(todo) /\ u = todo' /\ n = Len(p["stmtBuf"])
  OBVIOUS
<1>2. /\ todo # <<>> /\ Top.at \in {"Block", "CaseBody"} /\ Quiet(p, p') /\ Progresses
      /\ Grown(u, t) /\ Len(u) - Len(t) = 2
      /\ StatementFrame(u[1], n) /\ u[1].at = "NextStatement"
      /\ u[2].at \in {"BlockMade", "CaseMade"}
  <2>1. /\ todo # <<>> /\ Top.at \in {"Block", "CaseBody"} /\ Quiet(p, p') /\ Progresses
        /\ Grown(todo', Tail(todo)) /\ Len(todo') - Len(Tail(todo)) = 2
        /\ StatementFrame(todo'[1], Len(p["stmtBuf"])) /\ todo'[1].at = "NextStatement"
        /\ todo'[2].at \in {"BlockMade", "CaseMade"}
    BY DEF OpensStep
  <2> QED BY <1>1, <2>1, Zenon
<1>3. PICK v : /\ Grown(v, t) /\ Added(v, t) = {u[2]}
               /\ Grown(u, v) /\ Added(u, v) = {u[1]} /\ Len(u) - Len(v) = 1
  BY <1>2, GrownByTwo
<1>4. Top.at \notin RowKinds /\ u[2].at \notin RowKinds /\ Top.at # "NextStatement"
  BY <1>2 DEF RowKinds, ListKinds, StateKinds
<1>5. Grown(todo, t) /\ Added(todo, t) = {Top}
  BY <1>1, <1>2, BelowTop
<1>6. Further(p, p') /\ Len(p'["stmtBuf"]) = n
  BY <1>1, <1>2 DEF Quiet, Reads, SameLengths, Buffers
<1>7. /\ Allowed(p) \in Nat /\ Allowed(p') \in Nat /\ Allowed(p) <= Allowed(p') /\ n \in Nat
  BY <1>1, <1>6, FurtherNat
<1>8. Rows(n, Allowed(p), p.recover, t)
  BY <1>1, <1>4, <1>5, RowsOver DEF Recovers
<1>9. Rows(n, Allowed(p'), p'.recover, t)
  BY <1>6, <1>7, <1>8, FurtherRows
<1>10. Rows(n, Allowed(p'), p'.recover, v)
  BY <1>3, <1>4, <1>9, RowsOver
<1>11. n + 1 <= Allowed(p')
  <2>1. CASE n + 1 <= Allowed(p)
    BY <1>7, <2>1
  <2>2. CASE n <= Allowed(p) /\ Top.at \in Fresh /\ Kind(p) # "Eof"
    <3>1. Head(u).at = "NextStatement" /\ "NextStatement" \notin Fresh
      <4>1. IsList(u) /\ u # <<>>
        <5>1. Len(u) \in Nat /\ Len(t) \in Nat /\ IsList(u)
          BY <1>2, GrownParts DEF Grown
        <5>2. Len(u) # 0
          BY <1>2, <5>1
        <5> QED BY <5>1, <5>2, ListElim
      <4>2. Head(u) = u[1]
        BY <4>1, Popped
      <4> QED BY <1>2, <4>2 DEF Fresh
    <3>2. Past(p, p')
      BY <1>1, <1>2, <2>2, <3>1 DEF Progresses
    <3> QED BY <1>7, <2>2, <3>2 DEF Past
  <2> QED BY <1>1, <1>2, <1>4, <2>1, <2>2 DEF Recovers, Going, Top
<1>12. u[1].at \in ListKinds /\ u[1].mark = n
  BY <1>2 DEF StatementFrame
<1>13. Rows(n, Allowed(p'), p'.recover, u)
  <2>1. Rows(u[1].mark, Allowed(p'), p'.recover, v) /\ u[1].mark + 1 <= Allowed(p')
    BY <1>10, <1>11, <1>12
  <2> QED BY <1>3, <1>7, <1>12, <2>1, RowsListed
<1>14. Going(p', u)
  BY <1>6, <1>11 DEF Going
<1> QED BY <1>1, <1>6, <1>13, <1>14 DEF Recovers

LEMMA RecoversTakes ==
    ASSUME Sound, InOrder(p, todo), Recovers(p, todo), TakesStep
    PROVE  Recovers(p', todo')
<1>1. PICK t, u, n, m : t = Tail(todo) /\ u = todo' /\ n = Len(p["stmtBuf"]) /\ m = Top.mark
  OBVIOUS
<1>2. /\ todo # <<>> /\ Top.at = "NextStatement" /\ Kind(p) # "Eof"
      /\ Quiet(p, p') /\ Kind(p') = Kind(p) /\ Grown(u, t) /\ Len(u) - Len(t) = 2
      /\ u[1].at = "Statement" /\ StatementFrame(u[2], m) /\ u[2].at = "ListedStatement"
  <2>1. /\ todo # <<>> /\ Top.at = "NextStatement" /\ Kind(p) # "Eof"
        /\ Quiet(p, p') /\ Kind(p') = Kind(p)
        /\ Grown(todo', Tail(todo)) /\ Len(todo') - Len(Tail(todo)) = 2
        /\ todo'[1].at = "Statement"
        /\ StatementFrame(todo'[2], Top.mark) /\ todo'[2].at = "ListedStatement"
    BY DEF TakesStep
  <2> QED BY <1>1, <2>1, Zenon
<1>3. PICK v : /\ Grown(v, t) /\ Added(v, t) = {u[2]}
               /\ Grown(u, v) /\ Added(u, v) = {u[1]} /\ Len(u) - Len(v) = 1
  BY <1>2, GrownByTwo
<1>4. Top.at \in ListKinds /\ u[1].at \notin RowKinds
  BY <1>2 DEF RowKinds, ListKinds, StateKinds
<1>5. /\ Rows(m, Allowed(p), p.recover, t) /\ m \in Nat /\ m <= n
      /\ t = <<>> \/ m + 1 <= Allowed(p)
  BY <1>1, <1>2, <1>4, ListOnTop
<1>6. Further(p, p') /\ Len(p'["stmtBuf"]) = n
  BY <1>1, <1>2 DEF Quiet, Reads, SameLengths, Buffers
<1>7. /\ Allowed(p) \in Nat /\ Allowed(p') \in Nat /\ Allowed(p) <= Allowed(p') /\ n \in Nat
  BY <1>1, <1>6, FurtherNat
<1>8. Rows(m, Allowed(p'), p'.recover, t)
  BY <1>5, <1>6, FurtherRows
<1>9. Len(v) - Len(t) = 1 /\ v[1] = u[2]
  <2>1. Len(v) \in Nat /\ Len(t) \in Nat /\ Len(u) \in Nat
    BY <1>3, GrownParts
  <2>2. Len(v) - Len(t) = 1
    BY <1>2, <1>3, <2>1
  <2>3. v[1] \in Added(v, t)
    BY <2>2 DEF Added
  <2> QED BY <1>3, <2>2, <2>3
<1>10. v[1].at \in ListKinds /\ v[1].mark = m
  BY <1>2, <1>9 DEF StatementFrame
<1>11. Rows(n, Allowed(p'), p'.recover, v)
  <2>1. /\ Rows(v[1].mark, Allowed(p'), p'.recover, t)
        /\ t = <<>> \/ v[1].mark + 1 <= Allowed(p')
    BY <1>5, <1>7, <1>8, <1>10
  <2> QED BY <1>3, <1>7, <1>9, <1>10, <2>1, RowsListed
<1>12. Rows(n, Allowed(p'), p'.recover, u)
  BY <1>3, <1>4, <1>11, RowsOver
<1>13. Head(u).at \in Fresh /\ u # <<>>
  <2>1. Len(u) \in Nat /\ Len(t) \in Nat /\ IsList(u)
    BY <1>2, GrownParts DEF Grown
  <2>2. Len(u) # 0
    BY <1>2, <2>1
  <2>3. Head(u) = u[1] /\ u # <<>>
    BY <2>1, <2>2, ListElim, Popped
  <2> QED BY <1>2, <2>3 DEF Fresh
<1>14. n <= Allowed(p)
  <2>1. n + 1 <= Allowed(p) \/ n <= Allowed(p)
    BY <1>1 DEF Recovers, Going
  <2> QED BY <1>7, <2>1
<1>15. Going(p', u)
  BY <1>2, <1>6, <1>7, <1>13, <1>14 DEF Going
<1> QED BY <1>1, <1>6, <1>12, <1>15 DEF Recovers

LEMMA RecoversAdds ==
    ASSUME Sound, InOrder(p, todo), Recovers(p, todo), AddsStep
    PROVE  Recovers(p', todo')
<1>1. PICK t, u, n, m : t = Tail(todo) /\ u = todo' /\ n = Len(p["stmtBuf"]) /\ m = Top.mark
  OBVIOUS
<1>2. /\ todo # <<>> /\ Top.at = "ListedStatement" /\ Sized(p', "stmtBuf", n + 1)
      /\ Grown(u, t) /\ Len(u) - Len(t) = 1
      /\ StatementFrame(u[1], m) /\ u[1].at = "NextStatement"
  <2>1. /\ todo # <<>> /\ Top.at = "ListedStatement"
        /\ Sized(p', "stmtBuf", Len(p["stmtBuf"]) + 1)
        /\ Grown(todo', Tail(todo)) /\ Len(todo') - Len(Tail(todo)) = 1
        /\ StatementFrame(todo'[1], Top.mark) /\ todo'[1].at = "NextStatement"
    BY DEF AddsStep
  <2> QED BY <1>1, <2>1, Zenon
<1>3. Top.at \in ListKinds /\ Top.at \notin Fresh /\ Top.at # "NextStatement"
  BY <1>2 DEF ListKinds, Fresh
<1>4. /\ Rows(m, Allowed(p), p.recover, t) /\ m \in Nat /\ m <= n
      /\ t = <<>> \/ m + 1 <= Allowed(p)
  BY <1>1, <1>2, <1>3, ListOnTop
<1>5. Further(p, p') /\ Len(p'["stmtBuf"]) = n + 1
  BY <1>2 DEF Sized, Reads
<1>6. /\ Allowed(p) \in Nat /\ Allowed(p') \in Nat /\ Allowed(p) <= Allowed(p') /\ n \in Nat
  BY <1>1, <1>5, FurtherNat
<1>7. Rows(m, Allowed(p'), p'.recover, t)
  BY <1>4, <1>5, FurtherRows
<1>8. u[1].at \in ListKinds /\ u[1].mark = m
  BY <1>2 DEF StatementFrame
<1>9. Rows(n + 1, Allowed(p'), p'.recover, u)
  <2>1. /\ Rows(u[1].mark, Allowed(p'), p'.recover, t)
        /\ t = <<>> \/ u[1].mark + 1 <= Allowed(p')
    BY <1>4, <1>6, <1>7, <1>8
  <2>2. n + 1 \in Nat
    BY <1>6
  <2> QED BY <1>2, <1>8, <2>1, <2>2, RowsListed
<1>10. n + 1 <= Allowed(p')
  <2>1. n + 1 <= Allowed(p)
    BY <1>1, <1>2, <1>3, RoomToGo
  <2> QED BY <1>6, <2>1
<1>11. Head(u).at = "NextStatement"
  <2>1. Len(u) \in Nat /\ Len(t) \in Nat /\ IsList(u)
    BY <1>2, GrownParts DEF Grown
  <2>2. Len(u) # 0
    BY <1>2, <2>1
  <2>3. Head(u) = u[1]
    BY <2>1, <2>2, ListElim, Popped
  <2> QED BY <1>2, <2>3
<1>12. Going(p', u)
  <2>1. Len(p'["stmtBuf"]) <= Allowed(p')
    BY <1>5, <1>10
  <2> QED BY <1>11, <2>1, Zenon DEF Going
<1> QED BY <1>1, <1>5, <1>9, <1>12 DEF Recovers

LEMMA RecoversEnds ==
    ASSUME Sound, InOrder(p, todo), Recovers(p, todo), EndsStep
    PROVE  Recovers(p', todo')
<1>1. PICK t, u, n, m : t = Tail(todo) /\ u = todo' /\ n = Len(p["stmtBuf"]) /\ m = Top.mark
  OBVIOUS
<1>2. /\ todo # <<>> /\ Top.at = "NextStatement" /\ Sized(p', "stmtBuf", m)
      /\ Grown(u, t) /\ Added(u, t) = {}
  <2>1. /\ todo # <<>> /\ Top.at = "NextStatement" /\ Sized(p', "stmtBuf", Top.mark)
        /\ Grown(todo', Tail(todo)) /\ Added(todo', Tail(todo)) = {}
    BY DEF EndsStep
  <2> QED BY <1>1, <2>1, Zenon
<1>3. Top.at \in ListKinds
  BY <1>2 DEF ListKinds
<1>4. /\ Rows(m, Allowed(p), p.recover, t) /\ m \in Nat /\ m <= n
      /\ t = <<>> \/ m + 1 <= Allowed(p)
  BY <1>1, <1>2, <1>3, ListOnTop
<1>5. Further(p, p') /\ Len(p'["stmtBuf"]) = m
  BY <1>2 DEF Sized, Reads
<1>6. /\ Allowed(p) \in Nat /\ Allowed(p') \in Nat /\ Allowed(p) <= Allowed(p') /\ n \in Nat
  BY <1>1, <1>5, FurtherNat
<1>7. Rows(m, Allowed(p'), p'.recover, t)
  BY <1>4, <1>5, FurtherRows
<1>8. Rows(m, Allowed(p'), p'.recover, u)
  BY <1>2, <1>7, RowsOver
<1>9. t = <<>> => u = <<>>
  <2>1. Len(u) \in Nat /\ Len(t) \in Nat /\ IsList(u) /\ IsList(t) /\ Len(u) - Len(t) \in Nat
    BY <1>2, GrownParts DEF Grown
  <2>2. ~(1 <= Len(u) - Len(t))
    <3>1. ASSUME 1 \in 1 .. Len(u) - Len(t) PROVE FALSE
      BY <1>2, <3>1 DEF Added
    <3> QED BY <2>1, <3>1
  <2>3. Len(u) = Len(t)
    BY <2>1, <2>2
  <2> QED BY <2>1, <2>3, ListElim
<1>10. Going(p', u)
  <2>1. CASE m + 1 <= Allowed(p)
    BY <1>4, <1>5, <1>6, <2>1 DEF Going
  <2>2. CASE t = <<>>
    <3>1. n + 1 <= Allowed(p) \/ n <= Allowed(p)
      BY <1>1 DEF Recovers, Going
    <3>2. m <= Allowed(p')
      BY <1>4, <1>6, <3>1
    <3>3. Len(p'["stmtBuf"]) <= Allowed(p')
      BY <1>5, <3>2
    <3> QED BY <1>9, <2>2, <3>3, Zenon DEF Going
  <2> QED BY <1>4, <2>1, <2>2
<1> QED BY <1>1, <1>5, <1>8, <1>10 DEF Recovers

-----------------------------------------------------------------------------

\* What every step does to it, what it is at first, and what it says.
LEMMA RecoversStep ==
    ASSUME Sound, InOrder(p, todo), Balanced(p, todo), Recovers(p, todo), ParseStep
    PROVE  Recovers(p', todo')
<1>1. AnyStep
  BY ParseExpressionSteps, ParseDefinitionSteps, ParseStatementSteps DEF ParseStep
<1>2. ASSUME StatementsStep PROVE Recovers(p', todo')
  BY <1>2, RecoversOpens, RecoversTakes, RecoversAdds, RecoversEnds DEF StatementsStep
<1> QED BY <1>1, <1>2, AnyOn, RecoversOn, RecoversPatch, RecoversStates

LEMMA RecoversPrimed ==
    ASSUME source' = source
    PROVE  Recovers(p, todo)' <=> Recovers(p', todo')
<1>1. Positions' = Positions
  BY DEF Positions
<1>2. \A n, e, rec : Room(n, e, rec)' <=> Room(n, e, rec)
  BY DEF Room, Allowance
<1>3. Rows(Len(p["stmtBuf"]), Allowed(p), p.recover, todo)'
      <=> Rows(Len(p'["stmtBuf"]), Allowed(p'), p'.recover, todo')
  BY <1>1, <1>2 DEF Rows, Allowed, Allowance, Room
<1>4. Going(p, todo)' <=> Going(p', todo')
  BY DEF Going, Allowed, Allowance
<1> QED BY <1>3, <1>4 DEF Recovers

LEMMA RecoversBegins ==
    ASSUME Init
    PROVE  Recovers(p, todo)
<1>1. /\ p.pos = 1 /\ p.recover = [idx |-> 0, count |-> 0] /\ Len(p["stmtBuf"]) = 0
  BY DEF Init, NewParser
<1>2. Allowed(p) = 1
  BY <1>1 DEF Allowed, Allowance, MaxSyncs
<1>3. Len(todo) = 1 /\ todo[1].at = "NextStatement" /\ todo[1].mark = 0
  BY DEF Init, program
<1>4. \A i \in 1 .. Len(todo) : i = 1
  BY <1>3
<1>5. "NextStatement" \notin StateKinds
  BY DEF StateKinds
<1>6. Rows(0, 1, p.recover, todo)
  BY <1>3, <1>4, <1>5 DEF Rows
<1> QED BY <1>1, <1>2, <1>6 DEF Recovers, Going

LEMMA RecoversKept ==
    IInv /\ Recovers(p, todo) /\ [Next]_vars => Recovers(p, todo)'
<1> SUFFICES ASSUME IInv, Recovers(p, todo), [Next]_vars PROVE Recovers(p, todo)'
  OBVIOUS
<1>1. CASE Next
  <2>1. ParseStep /\ source' = source
    BY <1>1 DEF Next
  <2> QED BY <2>1, SoundInv, RecoversStep, RecoversPrimed
<1>2. CASE UNCHANGED vars
  <2>1. source' = source /\ p' = p /\ todo' = todo
    BY <1>2 DEF vars
  <2> QED BY <2>1, RecoversPrimed
<1> QED BY <1>1, <1>2

LEMMA AllowanceBound ==
    ASSUME NEW rec \in Recovery, NEW i \in Nat \ {0}
    PROVE  Allowance(i, rec) <= (MaxSyncs + 2) * (i - 1) + (MaxSyncs + 1)
BY DEF Allowance, Recovery, MaxSyncs

LEMMA BoundSaid ==
    IInv /\ Recovers(p, todo) => RecoveryBounded
<1> SUFFICES ASSUME IInv, Recovers(p, todo) PROVE RecoveryBounded
  OBVIOUS
<1>1. PICK n, c, k : n = Len(p["stmtBuf"]) /\ c = p.pos /\ k = Len(source)
  OBVIOUS
<1>2. WellFormed(p) /\ IsText
  BY DEF IInv, Inv
<1>3. n \in Nat /\ Allowed(p) \in Nat /\ k \in Nat /\ c \in 1 .. k + 1
  BY <1>1, <1>2, AllowedNat DEF Recovers, Rows, WellFormed, Positions
<1>4. p.recover \in Recovery
  BY <1>2 DEF WellFormed, Recovery
<1>5. Allowed(p) <= (MaxSyncs + 2) * (c - 1) + (MaxSyncs + 1)
  <2>1. c \in Nat \ {0}
    BY <1>3
  <2> QED BY <1>1, <1>4, <2>1, AllowanceBound DEF Allowed
<1>6. n <= Allowed(p)
  BY <1>1, <1>3 DEF Recovers, Going
<1>7. (MaxSyncs + 2) * (c - 1) + (MaxSyncs + 1) <= (MaxSyncs + 2) * (k + 1)
  BY <1>3 DEF MaxSyncs
<1>8. n <= (MaxSyncs + 2) * (k + 1)
  BY <1>3, <1>5, <1>6, <1>7 DEF MaxSyncs
<1> QED BY <1>1, <1>8 DEF RecoveryBounded

\* nextStatement (parser.go) may stop where it stopped before, so that a list of
\* statements gets one more without a token consumed: only so often on the whole text.
THEOREM RecoveryStaysBounded == Spec => []RecoveryBounded
<1>1. Init => Recovers(p, todo)
  BY RecoversBegins
<1>2. IInv /\ Recovers(p, todo) /\ [Next]_vars => Recovers(p, todo)'
  BY RecoversKept
<1>3. IInv /\ Recovers(p, todo) => RecoveryBounded
  BY BoundSaid
<1> QED BY <1>1, <1>2, <1>3, AlwaysSound, PTL DEF Spec
=============================================================================
