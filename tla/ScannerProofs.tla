--------------------------- MODULE ScannerProofs ---------------------------
(***************************************************************************)
(* Proofs about Scanner, for all bytes as texts and every table of         *)
(* characters: the scanner stays within its text, but for two bytes at the *)
(* end of an ill-formed one, every token takes a byte of it, and in a      *)
(* well-formed text is on a new line exactly if a line terminator is       *)
(* before it. The invariant says where the scanner may be inside of a rune *)
(* of a well-formed text and where not: before an escape sequence, and at  *)
(* a slash that begins a regular expression, the byte before is an ASCII   *)
(* character, so the runes read from there on are whole. A second          *)
(* invariant says, for every loop, from where to where the flag for new    *)
(* lines has been kept.                                                    *)
(***************************************************************************)
EXTENDS Scanner, DataLemmas

\* What Texts gives of the text.
SourceOK == source \in Seq(ASCII \cup NonASCII)

\* The byte at p of a well-formed text, if there is one, is not inside of a rune.
boundary(p) == WellFormed(source) /\ p < len => At(p) \notin Continuation

Complaints == {"end", "character", "numberEnd", "escape", "unterminated",
               "flag"}

Errors == {e \in [what : Complaints, start : Positions, end : Positions] :
              e.start <= e.end}

Kinds == {"Illegal", "Undetermined", "Eof", "Operator", "Slash",
          "QuotientAssign", "LeftBrace", "RightBrace", "Number", "String",
          "Identifier", "PrivateIdentifier", "NoSubstitutionTemplate",
          "TemplateHead", "TemplateMiddle", "TemplateTail"}

Tokens == [Kind : Kinds, OnNewLine : BOOLEAN, HasEscape : BOOLEAN,
           Idx0 : Positions, Idx1 : Nat]

\* The token t has been read up to p.
readUpTo(t, p) ==
    /\ t.Idx1 = p
    /\ t.Idx0 <= p
    /\ t.Kind # "Eof" => t.Idx0 < p
    /\ t.Kind \notin {"Eof", "Undetermined"} => p <= len
    /\ t.Kind \in {"Slash", "QuotientAssign"} => p > 0 /\ At(p - 1) \in ASCII

TypeInv ==
    /\ source \in Texts
    /\ pos \in Positions
    /\ Token \in Tokens
    /\ Token.Idx0 <= pos
    /\ errors \in SUBSET Errors
    /\ \E S : marks \in Seq(S)

\* Where the scanner may be in each of its loops.
ModeInv ==
    /\ mode = "token" => readUpTo(Token, pos)
    /\ mode \in {"line", "block"} => pos <= len
    /\ mode \in {"name", "string", "template"} => pos < len /\ At(pos) \in ASCII
    /\ mode = "regexp" => boundary(pos)

\* Going back to c finds the scanner as it may be between two tokens.
sound(c) ==
    /\ c.pos \in Positions
    /\ c.tok \in Tokens
    /\ c.errors \in SUBSET Errors
    /\ readUpTo(c.tok, c.pos)

MarksInv == \A i \in 1 .. Len(marks) : sound(marks[i])

ScannerInv == TypeInv /\ ModeInv /\ MarksInv

-----------------------------------------------------------------------------
\* The text.

LEMMA LenOfSource ==
  ASSUME SourceOK
  PROVE  /\ len \in Nat
         /\ DOMAIN source = 1 .. len
         /\ \A p \in 0 .. len - 1 : At(p) \in ASCII \cup NonASCII
<1>1. len \in Nat /\ DOMAIN source = 1 .. len
  BY LenProperties DEF SourceOK, len
<1>2. \A i \in 1 .. len : source[i] \in ASCII \cup NonASCII
  BY <1>1, ElementOfSeq DEF SourceOK, len
<1>3. \A p \in 0 .. len - 1 : p + 1 \in 1 .. len
  BY <1>1
<1> QED
  BY <1>1, <1>2, <1>3 DEF At

\* Only in a text that is not well-formed is there a position behind the end.
LEMMA PositionsOf ==
  ASSUME SourceOK
  PROVE  /\ 0 .. len \subseteq Positions /\ Positions \subseteq 0 .. len + 2
         /\ WellFormed(source) => Positions = 0 .. len
         /\ \A p \in Positions : p <= len => p \in 0 .. len
<1>1. len \in Nat
  BY LenOfSource
<1> QED
  BY <1>1 DEF Positions

\* Bytes that are compared with ASCII characters.
LEMMA SomeASCII ==
  {"\\", "CR", "LF", "/", "=", "BQ", "$", "LBRACE", "#", "SQ", "DQ"} \subseteq ASCII
BY DEF ASCII, Punctuation, Blank

\* A byte has width 1 unless it begins a rune of several bytes.
LEMMA Widths ==
  ASSUME NEW b
  PROVE  /\ Width(b) \in 1 .. 4
         /\ b \in ASCII \cup Continuation => Width(b) = 1
         /\ b \in Lead2 \cup Lead3 \cup Lead4 => Width(b) \in 2 .. 4
BY SourceAssumption DEF Width, NonASCII

\* A rune that begins in the text ends in it.
LEMMA LeadComplete ==
  ASSUME SourceOK, WellFormed(source), NEW p \in 0 .. len - 1, At(p) \in Lead2 \cup Lead3 \cup Lead4
  PROVE  Complete(source, p)
BY SourceAssumption DEF SourceOK, WellFormed, At, len, NonASCII

\* The bytes of a rune behind its first.
LEMMA CompleteBytes ==
  ASSUME SourceOK, NEW p \in 0 .. len - 1, Complete(source, p)
  PROVE  /\ p + Width(At(p)) <= len
         /\ \A i \in 1 .. Width(At(p)) - 1 : source[p + 1 + i] \in Continuation
<1> DEFINE w == Width(At(p))
           r == SubSeq(source, p + 1, p + w)
<1>1. /\ len \in Nat /\ p \in Nat /\ w \in 1 .. 4 /\ p + w <= len
      /\ r \in Runes
  BY LenOfSource, Widths DEF Complete, At, len
<1> HIDE DEF w
<1>2. /\ Len(r) = p + w - (p + 1) + 1
      /\ \A i \in 1 .. p + w - (p + 1) + 1 : r[i] = source[p + 1 + i - 1]
  BY <1>1, SubSeqProperties DEF SourceOK, len
<1>3. Len(r) = w /\ \A i \in 1 .. w : r[i] = source[p + i]
  BY <1>1, <1>2
<1> HIDE DEF r
<1>4. \A i \in 2 .. Len(r) : r[i] \in Continuation
  BY <1>1, SourceAssumption
<1>5. ASSUME NEW i \in 1 .. w - 1
      PROVE  source[p + 1 + i] \in Continuation
  <2>1. i + 1 \in 2 .. w /\ i + 1 \in 1 .. w /\ p + (i + 1) = p + 1 + i
    BY <1>1
  <2> QED
    BY <1>3, <1>4, <2>1
<1> QED
  BY <1>1, <1>5 DEF w

\* Behind an ASCII character begins a rune.
LEMMA AfterASCII ==
  ASSUME SourceOK, NEW p \in 0 .. len - 1, At(p) \in ASCII
  PROVE  boundary(p + 1)
<1> SUFFICES ASSUME WellFormed(source), p + 1 < len, At(p + 1) \in Continuation
             PROVE  FALSE
  BY DEF boundary
<1>1. len \in Nat /\ p + 1 \in 0 .. len - 1
  BY LenOfSource
<1>2. PICK k \in 1 .. 3 : /\ k <= p + 1
                          /\ Width(source[p + 2 - k]) > k
                          /\ \A i \in 1 .. k - 1 :
                                source[p + 2 - i] \in Continuation
  BY <1>1, SourceAssumption DEF SourceOK, WellFormed, At, len, NonASCII
<1>3. source[p + 1] \in ASCII /\ source[p + 1] \notin Continuation
  BY SourceAssumption DEF At, NonASCII
<1>4. CASE k = 1
  BY <1>2, <1>3, <1>4, Widths
<1>5. CASE k > 1
  <2>1. 1 \in 1 .. k - 1
    BY <1>5
  <2> QED
    BY <1>2, <1>3, <2>1
<1> QED
  BY <1>4, <1>5

\* Behind a whole rune begins a rune.
LEMMA AfterLead ==
  ASSUME SourceOK, WellFormed(source), NEW p \in 0 .. len - 1, At(p) \in Lead2 \cup Lead3 \cup Lead4
  PROVE  boundary(p + Width(At(p)))
<1> DEFINE w == Width(At(p))
<1> SUFFICES ASSUME p + w < len, At(p + w) \in Continuation
             PROVE  FALSE
  BY DEF boundary
<1>1. w \in 2 .. 4 /\ len \in Nat /\ p + w \in 0 .. len - 1
  BY LenOfSource, Widths
<1>2. \A i \in 1 .. w - 1 : source[p + 1 + i] \in Continuation
  BY LeadComplete, CompleteBytes
<1>3. PICK k \in 1 .. 3 : /\ k <= p + w
                          /\ Width(source[p + w + 1 - k]) > k
                          /\ \A i \in 1 .. k - 1 :
                                source[p + w + 1 - i] \in Continuation
  BY <1>1, SourceAssumption DEF SourceOK, WellFormed, At, len, NonASCII
<1> HIDE DEF w
<1>4. CASE k < w
  <2>1. w - k \in 1 .. w - 1 /\ p + 1 + (w - k) = p + w + 1 - k
    BY <1>1, <1>4
  <2>2. source[p + w + 1 - k] \in Continuation
    BY <1>2, <2>1
  <2> QED
    BY <1>3, <2>2, Widths
<1>5. CASE k = w
  <2>1. p + w + 1 - k = p + 1
    BY <1>1, <1>5
  <2> QED
    BY <1>1, <1>3, <1>5, <2>1 DEF w, At
<1>6. CASE k > w
  <2>1. w \in 1 .. k - 1 /\ p + w + 1 - w = p + 1
    BY <1>1, <1>6
  <2>2. source[p + 1] \in Continuation
    BY <1>3, <2>1
  <2> QED
    BY <2>2, SourceAssumption DEF At
<1> QED
  BY <1>1, <1>4, <1>5, <1>6

\* What NextRune passes over ends in the text, unless it is no rune; and at a
\* rune of a well-formed text it is one, and ends where one begins.
LEMMA NextRuneInText ==
  ASSUME SourceOK, NEW p \in 0 .. len - 1
  PROVE  /\ AfterRune(p) \in Nat /\ p < AfterRune(p)
         /\ AfterRune(p) > len => RuneAt(p) = RuneError /\ At(p) \in NonASCII
         /\ boundary(p) => AfterRune(p) \in Positions /\ boundary(AfterRune(p))
<1>1. len \in Nat /\ p \in Nat /\ At(p) \in ASCII \cup NonASCII
  BY LenOfSource
<1>2. 0 .. len \subseteq Positions
  BY PositionsOf
<1>3. CASE At(p) \notin NonASCII
  <2>1. RuneAt(p) = <<At(p)>>
    BY <1>3 DEF RuneAt
  <2>2. AfterRune(p) = p + 1
    BY <2>1 DEF AfterRune
  <2>3. boundary(p + 1)
    BY <1>1, <1>3, AfterASCII
  <2> QED
    BY <1>1, <1>2, <2>2, <2>3
<1>4. CASE /\ At(p) \in NonASCII
           /\ At(p) \in Lead2 \cup Lead3 \cup Lead4 /\ Complete(source, p)
  <2>1. Width(At(p)) \in 2 .. 4 /\ p + Width(At(p)) <= len
    BY <1>4, Widths, CompleteBytes
  <2>2. RuneAt(p) = Bytes(p, p + Width(At(p)))
    BY <1>4 DEF RuneAt
  <2>3. Len(Bytes(p, p + Width(At(p)))) = Width(At(p))
    <3>1. Len(SubSeq(source, p + 1, p + Width(At(p)))) =
              p + Width(At(p)) - (p + 1) + 1
      BY <1>1, <2>1, SubSeqProperties DEF SourceOK, len
    <3> QED
      BY <1>1, <2>1, <3>1 DEF Bytes
  <2>4. AfterRune(p) = p + Width(At(p))
    BY <2>2, <2>3 DEF AfterRune
  <2>5. boundary(p + Width(At(p)))
    BY <1>4, AfterLead DEF boundary
  <2> QED
    BY <1>1, <1>2, <2>1, <2>4, <2>5
<1>5. CASE /\ At(p) \in NonASCII
           /\ ~(At(p) \in Lead2 \cup Lead3 \cup Lead4 /\ Complete(source, p))
  <2>1. RuneAt(p) = RuneError
    BY <1>5 DEF RuneAt
  <2>2. AfterRune(p) = p + 3
    BY <2>1 DEF AfterRune, RuneError
  <2>3. boundary(p) => ~WellFormed(source)
    <3>1. WellFormed(source) => At(p) \notin Stray
      BY <1>1 DEF WellFormed, At, len
    <3> QED
      BY <1>1, <1>5, <3>1, LeadComplete DEF boundary, NonASCII
  <2>4. ~WellFormed(source) => p + 3 \in Positions
    <3>1. CASE p + 3 <= len
      BY <1>1, <1>2, <3>1
    <3>2. CASE p + 3 > len
      <4>1. p + 3 \in len + 1 .. len + 2 /\ p + 3 >= 3 /\ p + 3 - 3 = p
        BY <1>1, <3>2
      <4> QED
        BY <2>1, <4>1 DEF Positions
    <3> QED
      BY <1>1, <3>1, <3>2
  <2> QED
    BY <1>1, <1>5, <2>1, <2>2, <2>3, <2>4 DEF boundary
<1> QED
  BY <1>3, <1>4, <1>5

\* A rune that is read as a character of a token or as a space is one.
LEMMA KnownRune ==
  ASSUME SourceOK, NEW p \in 0 .. len - 1,
         RuneAt(p) \in isIdentifierPart \cup Space \cup {LS, PS}
  PROVE  AfterRune(p) \in p + 1 .. len
<1>1. RuneError \notin isIdentifierPart \cup Space \cup {LS, PS}
  <2>1. \A c : RuneError # <<c>>
    BY DEF RuneError
  <2>2. RuneError # LS /\ RuneError # PS
    BY DEF RuneError, LS, PS
  <2> QED
    BY <2>1, <2>2, SourceAssumption DEF isIdentifierPart
<1>2. len \in Nat /\ AfterRune(p) \in Nat /\ p < AfterRune(p)
  BY LenOfSource, NextRuneInText
<1>3. ~(AfterRune(p) > len)
  BY <1>1, NextRuneInText
<1> QED
  BY <1>2, <1>3

-----------------------------------------------------------------------------
\* The loops: each ends at or behind the position it begins at, in the text.

LEMMA MinInInterval ==
  ASSUME NEW a \in Nat, NEW b \in Nat, NEW S, S \subseteq a .. b, S # {}
  PROVE  Min(S) \in a .. b /\ Min(S) \in S
<1>1. S \subseteq Nat
  OBVIOUS
<1>2. Min(S) \in S
  BY <1>1, MinProperties
<1> QED
  BY <1>2

LEMMA LoopsEndInText ==
  ASSUME SourceOK, NEW p \in 0 .. len
  PROVE  /\ \A B : /\ FirstOf(p, B) \in p .. len
                   /\ FirstOf(p, B) < len => At(FirstOf(p, B)) \in B
         /\ \A B : AfterAll(p, B) \in p .. len
         /\ \A R : AfterRunes(p, R) \in p .. len
         /\ \A D : afterDigits(p, D) \in p .. len
         /\ \A n \in Nat : afterHexDigits(p, n) \in p .. len
         /\ afterClose(p) \in p .. len
<1>1. len \in Nat /\ p \in Nat /\ len \in p .. len
  BY LenOfSource
<1>2. ASSUME NEW B
      PROVE  /\ FirstOf(p, B) \in p .. len
             /\ FirstOf(p, B) < len => At(FirstOf(p, B)) \in B
  <2> DEFINE S == {q \in {p} \cup p .. len : q >= len \/ At(q) \in B}
  <2>1. S \subseteq p .. len /\ S # {}
    BY <1>1
  <2>2. Min(S) \in p .. len /\ Min(S) \in S
    BY <1>1, <2>1, MinInInterval
  <2> QED
    BY <1>1, <2>2 DEF FirstOf
<1>3. ASSUME NEW B
      PROVE  AfterAll(p, B) \in p .. len
  <2> DEFINE S == {q \in {p} \cup p .. len : q >= len \/ At(q) \notin B}
  <2>1. S \subseteq p .. len /\ S # {}
    BY <1>1
  <2> QED
    BY <1>1, <2>1, MinInInterval DEF AfterAll
<1>4. ASSUME NEW R
      PROVE  AfterRunes(p, R) \in p .. len
  <2> DEFINE S == {q \in p .. len :
                     \/ q = len
                     \/ /\ RuneAt(q) \notin R
                        /\ \A b \in p .. q - 1 :
                              RuneAt(b) \in R => AfterRune(b) <= q}
  <2>1. S \subseteq p .. len /\ S # {}
    BY <1>1
  <2> QED
    BY <1>1, <2>1, MinInInterval DEF AfterRunes
<1>5. ASSUME NEW D
      PROVE  afterDigits(p, D) \in p .. len
  <2> DEFINE S == {q \in p .. len : /\ ~PeekIn(q, D)
                                    /\ ~(PeekIn(q, {"LOWLINE"}) /\ PeekIn(q + 1, D))}
  <2>1. ~(len < len)
    BY <1>1
  <2>2. ~PeekIn(len, D) /\ ~PeekIn(len, {"LOWLINE"})
    BY <2>1 DEF PeekIn
  <2>3. S \subseteq p .. len /\ S # {}
    BY <1>1, <2>2
  <2> QED
    BY <1>1, <2>3, MinInInterval DEF afterDigits
<1>6. ASSUME NEW n \in Nat
      PROVE  afterHexDigits(p, n) \in p .. len
  <2> DEFINE S == {p + n, AfterAll(p, HexDigit)}
  <2>1. AfterAll(p, HexDigit) \in p .. len
    BY <1>3
  <2>2. S \subseteq Nat /\ S # {}
    BY <1>1, <2>1
  <2>3. Min(S) \in S /\ Min(S) <= AfterAll(p, HexDigit)
    BY <2>2, MinProperties
  <2>4. Min(S) >= p
    BY <1>1, <2>1, <2>3
  <2> QED
    BY <1>1, <2>1, <2>2, <2>3, <2>4 DEF afterHexDigits
<1>7. afterClose(p) \in p .. len
  <2> DEFINE S == {len} \cup {q \in p + 2 .. len : Bytes(q - 2, q) = <<"*", "/">>}
  <2>1. S \subseteq p .. len /\ S # {}
    BY <1>1
  <2> QED
    BY <1>1, <2>1, MinInInterval DEF afterClose
<1> QED
  BY <1>2, <1>3, <1>4, <1>5, <1>6, <1>7

LEMMA TemplateLoopEndsInText ==
  ASSUME SourceOK, NEW p \in 0 .. len, NEW q, q = templateLiteralEnd(p)
  PROVE  /\ q \in p .. len
         /\ q < len => /\ At(q) \in {"BQ", "CR", "\\", "$"}
                       /\ afterPart(q) \in q + 1 .. len
<1> DEFINE S == {r \in {p} \cup p .. len :
                    \/ r >= len
                    \/ At(r) \in {"BQ", "CR", "\\"}
                    \/ At(r) = "$" /\ PeekIn(r + 1, {"LBRACE"})}
<1>1. len \in Nat /\ p \in Nat /\ len \in p .. len
  BY LenOfSource
<1>2. S \subseteq p .. len /\ S # {}
  <2>1. {p} \cup p .. len \subseteq p .. len
    BY <1>1
  <2>2. len \in S
    BY <1>1
  <2> QED
    BY <2>1, <2>2
<1>3. q = Min(S)
  BY DEF templateLiteralEnd
<1> HIDE DEF S
<1>4. q \in p .. len /\ q \in S
  BY <1>1, <1>2, <1>3, MinInInterval
<1>5. q < len => \/ At(q) \in {"BQ", "CR", "\\"}
                 \/ At(q) = "$" /\ q + 1 < len
  <2>1. \/ q >= len
        \/ At(q) \in {"BQ", "CR", "\\"}
        \/ At(q) = "$" /\ PeekIn(q + 1, {"LBRACE"})
    BY <1>4 DEF S
  <2>2. PeekIn(q + 1, {"LBRACE"}) => q + 1 < len
    BY DEF PeekIn
  <2> QED
    BY <1>1, <1>4, <2>1, <2>2
<1>6. ASSUME q < len
      PROVE  afterPart(q) \in q + 1 .. len
  <2>1. CASE At(q) = "$"
    BY <1>1, <1>4, <1>5, <1>6, <2>1 DEF afterPart
  <2>2. CASE At(q) # "$"
    BY <1>1, <1>4, <1>6, <2>2 DEF afterPart
  <2> QED
    BY <2>1, <2>2
<1> QED
  BY <1>4, <1>5, <1>6

\* Behind the end of the text a loop stays where it is.
LEMMA LoopsStay ==
  ASSUME SourceOK, NEW p \in Positions, p > len
  PROVE  /\ \A B : FirstOf(p, B) = p /\ AfterAll(p, B) = p
         /\ templateLiteralEnd(p) = p
<1>1. len \in Nat /\ p \in Nat
  BY LenOfSource, PositionsOf
<1>2. ASSUME NEW S, S \subseteq p .. p, S # {}
      PROVE  Min(S) = p
  <2>1. Min(S) \in p .. p
    BY <1>1, <1>2, MinInInterval, Zenon
  <2> HIDE DEF Min
  <2> QED
    BY <1>1, <2>1
<1>3. {p} \cup p .. len \subseteq p .. p
  BY <1>1
<1>4. ASSUME NEW B
      PROVE  FirstOf(p, B) = p /\ AfterAll(p, B) = p
  <2> DEFINE F == {q \in {p} \cup p .. len : q >= len \/ At(q) \in B}
             A == {q \in {p} \cup p .. len : q >= len \/ At(q) \notin B}
  <2>1. F \subseteq p .. p /\ A \subseteq p .. p
    BY <1>3
  <2>2. p \in F /\ p \in A
    BY <1>1
  <2>3. Min(F) = p /\ Min(A) = p
    BY <1>2, <2>1, <2>2
  <2> QED
    BY <2>3 DEF FirstOf, AfterAll
<1>5. templateLiteralEnd(p) = p
  <2> DEFINE T == {q \in {p} \cup p .. len :
                     \/ q >= len
                     \/ At(q) \in {"BQ", "CR", "\\"}
                     \/ At(q) = "$" /\ PeekIn(q + 1, {"LBRACE"})}
  <2>1. T \subseteq p .. p /\ p \in T
    BY <1>1, <1>3
  <2>2. Min(T) = p
    BY <1>2, <2>1
  <2> QED
    BY <2>2 DEF templateLiteralEnd
<1> QED
  BY <1>4, <1>5

-----------------------------------------------------------------------------
\* Numbers: each function hands on a reading that has come as far or farther.

Readings(p) == [at : p .. len, kind : {"Number", "Undetermined"},
                errs : SUBSET Errors]

LEMMA ErrorAt ==
  ASSUME SourceOK, NEW p \in Positions, NEW q \in Positions, p <= q
  PROVE  \A what \in Complaints : error(what, p, q) \in Errors
BY DEF error, Errors

LEMMA ErrorInText ==
  ASSUME SourceOK, NEW p \in 0 .. len, NEW q \in p .. len
  PROVE  \A what \in Complaints : error(what, p, q) \in Errors
BY LenOfSource, PositionsOf, ErrorAt

LEMMA ReadOnTo ==
  ASSUME SourceOK, NEW p \in 0 .. len, NEW r \in Readings(p), NEW q \in r.at .. len
  PROVE  onTo(r, q) \in Readings(p) /\ onTo(r, q).at = q
<1>1. r.at \in p .. len
  BY DEF Readings
<1>2. q \in p .. len
  BY <1>1, LenOfSource
<1> QED
  BY <1>2 DEF onTo, Readings

LEMMA UnexpectedInText ==
  ASSUME SourceOK, NEW p \in 0 .. len, NEW r \in Readings(p)
  PROVE  unexpectedErr(r) \in Readings(p)
<1>1. /\ len \in Nat /\ r.at \in p .. len
      /\ r.at \in 0 .. len /\ r.at \in r.at .. len
  BY LenOfSource DEF Readings
<1>2. CASE r.at >= len
  <2>1. error("end", r.at, r.at) \in Errors
    BY <1>1, ErrorInText DEF Complaints
  <2> QED
    BY <1>2, <2>1 DEF unexpectedErr, Readings
<1>3. CASE r.at < len
  <2>1. r.at + 1 \in p .. len /\ r.at + 1 \in r.at .. len /\ ~(r.at >= len)
    BY <1>1, <1>3
  <2>2. error("character", r.at, r.at + 1) \in Errors
    BY <1>1, <2>1, ErrorInText DEF Complaints
  <2> QED
    BY <2>1, <2>2 DEF unexpectedErr, Readings
<1> QED
  BY <1>1, <1>2, <1>3

\* Past a byte that was looked at.
LEMMA ReadOnOne ==
  ASSUME SourceOK, NEW p \in 0 .. len, NEW r \in Readings(p), NEW B,
         PeekIn(r.at, B)
  PROVE  onTo(r, r.at + 1) \in Readings(p)
<1>1. len \in Nat /\ r.at \in p .. len /\ r.at < len
  BY LenOfSource DEF Readings, PeekIn
<1>2. r.at + 1 \in r.at .. len
  BY <1>1
<1> QED
  BY <1>2, ReadOnTo

LEMMA DigitsInText ==
  ASSUME SourceOK, NEW p \in 0 .. len, NEW r \in Readings(p)
  PROVE  /\ decimalDigitsAfterFirstDigit(r) \in Readings(p)
         /\ readDecimalDigits(r) \in Readings(p)
         /\ optionalDecDigits(r) \in Readings(p)
<1>1. ASSUME NEW t \in Readings(p)
      PROVE  decimalDigitsAfterFirstDigit(t) \in Readings(p)
  <2> DEFINE q == afterDigits(t.at, Decimal)
  <2>1. len \in Nat /\ t.at \in p .. len /\ t.at \in 0 .. len
    BY LenOfSource DEF Readings
  <2>2. q \in t.at .. len
    BY <2>1, LoopsEndInText
  <2>3. CASE PeekIn(q, {"LOWLINE"})
    <3>1. q < len
      BY <2>3 DEF PeekIn
    <3> HIDE DEF q
    <3>2. q + 1 \in t.at .. len
      BY <2>1, <2>2, <3>1
    <3>3. unexpectedErr(onTo(t, q + 1)) \in Readings(p)
      BY <3>2, ReadOnTo, UnexpectedInText
    <3> QED
      BY <2>3, <3>3 DEF decimalDigitsAfterFirstDigit, q
  <2>4. CASE ~PeekIn(q, {"LOWLINE"})
    <3>1. onTo(t, q) \in Readings(p)
      BY <2>2, ReadOnTo
    <3> QED
      BY <2>4, <3>1 DEF decimalDigitsAfterFirstDigit
  <2> QED
    BY <2>3, <2>4
<1>2. PeekIn(r.at, Decimal) =>
        decimalDigitsAfterFirstDigit(onTo(r, r.at + 1)) \in Readings(p)
  BY <1>1, ReadOnOne
<1>3. readDecimalDigits(r) \in Readings(p)
  BY <1>2, UnexpectedInText DEF readDecimalDigits
<1>4. optionalDecDigits(r) \in Readings(p)
  BY <1>2 DEF optionalDecDigits
<1> QED
  BY <1>1, <1>3, <1>4

LEMMA ExponentInText ==
  ASSUME SourceOK, NEW p \in 0 .. len, NEW r \in Readings(p)
  PROVE  readDecExp(r) \in Readings(p) /\ optionalExp(r) \in Readings(p)
<1>1. ASSUME NEW t \in Readings(p)
      PROVE  readDecExp(t) \in Readings(p)
  <2>1. (IF PeekIn(t.at, {"-", "+"}) THEN onTo(t, t.at + 1) ELSE t) \in Readings(p)
    BY ReadOnOne
  <2> QED
    BY <2>1, DigitsInText DEF readDecExp
<1>2. PeekIn(r.at, {"e", "E"}) => readDecExp(onTo(r, r.at + 1)) \in Readings(p)
  BY <1>1, ReadOnOne
<1> QED
  BY <1>1, <1>2 DEF optionalExp

LEMMA NumericEndInText ==
  ASSUME SourceOK, NEW p \in 0 .. len, NEW r \in Readings(p)
  PROVE  checkAfterNumericLiteral(r) \in Readings(p)
<1> DEFINE goesOn == \/ PeekIn(r.at, asciiContinue)
                     \/ PeekIn(r.at, NonASCII) /\ RuneAt(r.at) \in isIdentifierStart
           q == AfterRunes(AfterRune(r.at), isIdentifierStart)
<1>1. len \in Nat /\ r.at \in p .. len /\ r.at \in 0 .. len
  BY LenOfSource DEF Readings
<1>2. CASE goesOn
  <2>1. r.at \in 0 .. len - 1
    BY <1>1, <1>2 DEF PeekIn
  <2>2. RuneAt(r.at) \in isIdentifierPart
    <3>1. CASE PeekIn(r.at, asciiContinue)
      <4>1. At(r.at) \in ASCII
        BY <3>1 DEF PeekIn, asciiContinue, asciiStart, ASCII, Punctuation
      <4>2. RuneAt(r.at) = <<At(r.at)>>
        BY <4>1, SourceAssumption DEF RuneAt
      <4> QED
        BY <3>1, <4>2 DEF PeekIn, isIdentifierPart
    <3>2. CASE PeekIn(r.at, NonASCII) /\ RuneAt(r.at) \in isIdentifierStart
      BY <3>2, SourceAssumption DEF isIdentifierStart, isIdentifierPart, asciiContinue
    <3> QED
      BY <1>2, <3>1, <3>2
  <2>3. AfterRune(r.at) \in r.at + 1 .. len
    BY <2>1, <2>2, KnownRune
  <2>4. AfterRune(r.at) \in 0 .. len
    BY <1>1, <2>3
  <2>5. q \in AfterRune(r.at) .. len
    BY <2>4, LoopsEndInText
  <2> HIDE DEF q
  <2>6. q \in r.at .. len /\ q \in p .. len
    BY <1>1, <2>3, <2>5
  <2>7. error("numberEnd", r.at, q) \in Errors
    BY <1>1, <2>6, ErrorInText DEF Complaints
  <2>8. [at |-> q, kind |-> "Undetermined",
         errs |-> r.errs \cup {error("numberEnd", r.at, q)}] \in Readings(p)
    BY <2>6, <2>7 DEF Readings
  <2> QED
    BY <1>2, <2>8 DEF checkAfterNumericLiteral, q
<1>3. CASE ~goesOn
  BY <1>3 DEF checkAfterNumericLiteral
<1> QED
  BY <1>2, <1>3

LEMMA DecimalInText ==
  ASSUME SourceOK, NEW p \in 0 .. len, NEW r \in Readings(p)
  PROVE  /\ decLitAfterDecPoint(r) \in Readings(p)
         /\ decLitAfterDecPointAfterDigits(r) \in Readings(p)
         /\ decimalLiteralAfterFirstDigit(r) \in Readings(p)
<1>1. decLitAfterDecPoint(r) \in Readings(p)
  BY DigitsInText, ExponentInText, NumericEndInText DEF decLitAfterDecPoint
<1>2. \A t \in Readings(p) : decLitAfterDecPointAfterDigits(t) \in Readings(p)
  BY DigitsInText, ExponentInText, NumericEndInText
     DEF decLitAfterDecPointAfterDigits
<1>3. decimalLiteralAfterFirstDigit(r) \in Readings(p)
  <2> DEFINE d == decimalDigitsAfterFirstDigit(r)
  <2>1. d \in Readings(p)
    BY DigitsInText
  <2> HIDE DEF d
  <2>2. PeekIn(d.at, {"."}) =>
          decLitAfterDecPointAfterDigits(onTo(d, d.at + 1)) \in Readings(p)
    BY <1>2, <2>1, ReadOnOne
  <2>3. PeekIn(d.at, {"n"}) =>
          checkAfterNumericLiteral(onTo(d, d.at + 1)) \in Readings(p)
    BY <2>1, ReadOnOne, NumericEndInText
  <2>4. checkAfterNumericLiteral(optionalExp(d)) \in Readings(p)
    BY <2>1, ExponentInText, NumericEndInText
  <2> QED
    BY <2>2, <2>3, <2>4 DEF decimalLiteralAfterFirstDigit, d
<1> QED
  BY <1>1, <1>2, <1>3

LEMMA NonDecimalInText ==
  ASSUME SourceOK, NEW p \in 0 .. len, NEW r \in Readings(p), r.at < len,
         NEW base
  PROVE  readNonDecimal(r, base) \in Readings(p)
<1> DEFINE q == afterDigits(r.at + 1 + 1, digitsOf(base))
           m == IF PeekIn(q, {"n"}) THEN q + 1 ELSE q
<1>1. len \in Nat /\ r.at \in p .. len /\ r.at + 1 \in r.at .. len
  BY LenOfSource DEF Readings
<1>2. \A t \in Readings(p) : failed(t) \in Readings(p)
  BY DEF failed, Readings
<1>3. CASE ~PeekIn(r.at + 1, digitsOf(base))
  <2>1. failed(unexpectedErr(onTo(r, r.at + 1))) \in Readings(p)
    BY <1>1, <1>2, ReadOnTo, UnexpectedInText
  <2> QED
    BY <1>3, <2>1 DEF readNonDecimal
<1>4. CASE PeekIn(r.at + 1, digitsOf(base))
  <2>1. r.at + 1 + 1 \in 0 .. len /\ r.at + 1 + 1 >= r.at
    BY <1>1, <1>4 DEF PeekIn
  <2>2. q \in r.at + 1 + 1 .. len
    BY <2>1, LoopsEndInText
  <2> HIDE DEF q
  <2>3. q \in r.at .. len /\ (q < len => q + 1 \in r.at .. len)
    BY <1>1, <2>1, <2>2
  <2>4. PeekIn(q, {"LOWLINE"}) =>
          failed(unexpectedErr(onTo(r, q + 1))) \in Readings(p)
    BY <1>2, <2>3, ReadOnTo, UnexpectedInText DEF PeekIn
  <2>5. m \in r.at .. len
    BY <2>3 DEF PeekIn
  <2> HIDE DEF m
  <2>6. checkAfterNumericLiteral(onTo(r, m)) \in Readings(p)
    BY <2>5, ReadOnTo, NumericEndInText
  <2> QED
    BY <1>4, <2>4, <2>6 DEF readNonDecimal, q, m
<1> QED
  BY <1>3, <1>4

LEMMA LegacyOctalInText ==
  ASSUME SourceOK, NEW p \in 0 .. len, NEW r \in Readings(p)
  PROVE  readLegacyOctal(r) \in Readings(p)
<1> DEFINE q == AfterAll(r.at, Decimal)
<1>1. len \in Nat /\ r.at \in p .. len /\ r.at \in 0 .. len
  BY LenOfSource DEF Readings
<1>2. q \in r.at .. len
  BY <1>1, LoopsEndInText
<1> HIDE DEF q
<1>3. q < len => q + 1 \in r.at .. len
  BY <1>1, <1>2
<1>4. \A B : PeekIn(q, B) => onTo(r, q + 1) \in Readings(p)
  BY <1>3, ReadOnTo DEF PeekIn
<1>5. PeekIn(q, {"."}) =>
        decLitAfterDecPointAfterDigits(onTo(r, q + 1)) \in Readings(p)
  BY <1>4, DecimalInText
<1>6. PeekIn(q, {"e"}) => readDecExp(onTo(r, q + 1)) \in Readings(p)
  BY <1>4, ExponentInText
<1>7. onTo(r, q) \in Readings(p)
  BY <1>2, ReadOnTo
<1>8. checkAfterNumericLiteral(IF PeekIn(q, {"e"}) THEN readDecExp(onTo(r, q + 1))
                               ELSE onTo(r, q)) \in Readings(p)
  BY <1>6, <1>7, NumericEndInText
<1> QED
  BY <1>5, <1>8 DEF readLegacyOctal, q

LEMMA ZeroInText ==
  ASSUME SourceOK, NEW p \in 0 .. len, NEW r \in Readings(p)
  PROVE  readZero(r) \in Readings(p)
<1>1. \A B : PeekIn(r.at, B) => r.at < len
  BY DEF PeekIn
<1>2. \A B : PeekIn(r.at, B) =>
        /\ \A base : readNonDecimal(r, base) \in Readings(p)
        /\ readDecExp(onTo(r, r.at + 1)) \in Readings(p)
        /\ decLitAfterDecPointAfterDigits(onTo(r, r.at + 1)) \in Readings(p)
        /\ checkAfterNumericLiteral(onTo(r, r.at + 1)) \in Readings(p)
  BY <1>1, ReadOnOne, NonDecimalInText, ExponentInText, DecimalInText,
     NumericEndInText
<1>3. readLegacyOctal(r) \in Readings(p)
  BY LegacyOctalInText
<1> QED
  BY <1>2, <1>3 DEF readZero

\* A number takes at least its first byte.
LEMMA NumberInText ==
  ASSUME SourceOK, NEW p \in 0 .. len - 1
  PROVE  number(p) \in Readings(p + 1)
<1>1. len \in Nat /\ p + 1 \in 0 .. len
  BY LenOfSource
<1>2. reading(p + 1) \in Readings(p + 1)
  BY <1>1 DEF reading, Readings
<1> QED
  BY <1>1, <1>2, DecimalInText, ZeroInText DEF number

-----------------------------------------------------------------------------
\* Escape sequences.

LEMMA HexInText ==
  ASSUME SourceOK, NEW p \in 0 .. len
  PROVE  /\ hexFourDigits(p).at \in p .. len
         /\ surrogatePair(p).at \in p .. len
         /\ unicodeCodePoint(p).at \in p .. len
<1>1. \A x \in 0 .. len : hexFourDigits(x).at \in x .. len
  BY LoopsEndInText DEF hexFourDigits
<1>2. surrogatePair(p).at \in p .. len
  <2> DEFINE high == hexFourDigits(p)
             low  == hexFourDigits(high.at + 2)
  <2>1. len \in Nat /\ high.at \in p .. len
    BY <1>1, LenOfSource
  <2>2. CASE ~PeekTwoBytes(high.at)
    BY <2>1, <2>2 DEF surrogatePair
  <2>3. CASE PeekTwoBytes(high.at)
    <3> HIDE DEF high
    <3>1. high.at + 2 \in 0 .. len /\ high.at + 2 >= p
      BY <2>1, <2>3 DEF PeekTwoBytes
    <3>2. low.at \in high.at + 2 .. len
      BY <1>1, <3>1
    <3> HIDE DEF low
    <3>3. low.at \in p .. len
      BY <2>1, <3>1, <3>2
    <3>4. \/ surrogatePair(p) = high
          \/ \E v : surrogatePair(p) = [low EXCEPT !.value = v]
      BY DEF surrogatePair, high, low
    <3>5. \A v : [low EXCEPT !.value = v].at = low.at
      BY DEF low, hexFourDigits
    <3> QED
      BY <2>1, <3>3, <3>4, <3>5
  <2> QED
    BY <2>2, <2>3
<1>3. unicodeCodePoint(p).at \in p .. len
  <2> DEFINE q == AfterAll(p, HexDigit)
             over == {r \in p + 2 .. q : hexNumber(p, r) > MaxRune}
  <2>1. len \in Nat /\ q \in p .. len
    BY LoopsEndInText, LenOfSource
  <2>2. over # {} => Min(over) \in p .. len
    <3>1. over \subseteq p .. len
      <4> HIDE DEF q
      <4> QED
        BY <2>1
    <3>2. p \in Nat
      BY <2>1
    <3> HIDE DEF over
    <3> QED
      BY <2>1, <3>1, <3>2, MinInInterval
  <2>3. PeekIn(q, {"RBRACE"}) => q + 1 \in p .. len
    <3> HIDE DEF q
    <3> QED
      BY <2>1 DEF PeekIn
  <2>4. p \in p .. len
    BY <2>1
  <2> HIDE DEF over
  <2>5. \/ unicodeCodePoint(p).at = p
        \/ over # {} /\ unicodeCodePoint(p).at = Min(over)
        \/ PeekIn(q, {"RBRACE"}) /\ unicodeCodePoint(p).at = q + 1
        \/ unicodeCodePoint(p).at = q
    BY DEF unicodeCodePoint, over
  <2> QED
    BY <2>1, <2>2, <2>3, <2>4, <2>5
<1> QED
  BY <1>1, <1>2, <1>3

LEMMA UnicodeEscapeInText ==
  ASSUME SourceOK, NEW p \in 0 .. len
  PROVE  unicodeEscape(p).at \in p .. len
<1>1. len \in Nat
  BY LenOfSource
<1>2. CASE PeekIn(p, {"LBRACE"})
  <2>1. p + 1 \in 0 .. len
    BY <1>1, <1>2 DEF PeekIn
  <2>2. unicodeCodePoint(p + 1).at \in p + 1 .. len
    BY <2>1, HexInText
  <2>3. unicodeCodePoint(p + 1).at \in p .. len
    BY <1>1, <2>1, <2>2
  <2> QED
    BY <1>2, <2>3 DEF unicodeEscape
<1>3. CASE ~PeekIn(p, {"LBRACE"})
  BY <1>3, HexInText DEF unicodeEscape
<1> QED
  BY <1>2, <1>3

\* How far an escape sequence has come, and what it complains of.
endsIn(e, p) == e.at \in p .. len /\ e.errs \in SUBSET Errors

LEMMA NameEscapeInText ==
  ASSUME SourceOK, NEW p \in 0 .. len, NEW start
  PROVE  endsIn(identifierUnicodeEscapeSequence(p, start), p)
<1> DEFINE v == unicodeEscape(p + 1)
           bad(q) == [invalid(q) EXCEPT !.errs = {error("escape", p, q)}]
<1>1. len \in Nat /\ p \in p .. len
  BY LenOfSource
<1>2. \A q \in p .. len : endsIn(bad(q), p)
  <2> SUFFICES ASSUME NEW q \in p .. len
               PROVE  endsIn(bad(q), p)
    OBVIOUS
  <2>1. error("escape", p, q) \in Errors
    BY ErrorInText DEF Complaints
  <2>2. bad(q).at = q /\ bad(q).errs = {error("escape", p, q)}
    BY DEF invalid
  <2> HIDE DEF bad
  <2> QED
    BY <2>1, <2>2 DEF endsIn
<1>3. CASE ~PeekIn(p, {"u"})
  BY <1>1, <1>2, <1>3 DEF identifierUnicodeEscapeSequence
<1>4. CASE PeekIn(p, {"u"})
  <2>1. p + 1 \in 0 .. len
    BY <1>1, <1>4 DEF PeekIn
  <2>2. v.at \in p + 1 .. len
    BY <2>1, UnicodeEscapeInText
  <2> HIDE DEF v
  <2>3. v.at \in p .. len
    BY <1>1, <2>1, <2>2
  <2>4. endsIn(bad(v.at), p)
    BY <1>2, <2>3
  <2>5. \A s : endsIn(escaped(v.at, s), p)
    BY <2>3 DEF endsIn, escaped
  <2> QED
    BY <1>4, <2>4, <2>5 DEF identifierUnicodeEscapeSequence, v
<1> QED
  BY <1>3, <1>4

\* Only behind a backslash can an escape sequence end behind the text.
endsAt(e, p) == e.at \in Positions /\ e.at >= p /\ e.errs \in SUBSET Errors

LEMMA StringEscapeInText ==
  ASSUME SourceOK, NEW p \in 0 .. len, boundary(p), NEW inTemplate
  PROVE  endsAt(readStringEscapeSequence(p, inTemplate), p)
<1> DEFINE q == AfterRune(p)
           x == afterHexDigits(q, 2)
           u == unicodeEscape(q)
<1>1. len \in Nat /\ p \in p .. len
  BY LenOfSource
<1>2. \A t \in p .. len : /\ endsIn(invalid(t), p)
                          /\ \A s : endsIn(escaped(t, s), p)
  BY DEF endsIn, invalid, escaped
<1> DEFINE found ==
             CASE RuneAt(p) \in {<<"LF">>, LS, PS} -> escaped(q, <<>>)
               [] RuneAt(p) = <<"CR">> ->
                    escaped(IF PeekIn(q, {"LF"}) THEN q + 1 ELSE q, <<>>)
               [] At(p) \in DOMAIN SingleEscape ->
                    escaped(q, <<SingleEscape[At(p)]>>)
               [] At(p) = "x" -> IF x = q + 2
                                 THEN escaped(x, WriteRune(hexNumber(q, x)))
                                 ELSE invalid(p)
               [] At(p) = "u" -> IF u.value = -1 THEN invalid(u.at)
                                 ELSE escaped(u.at, WriteRune(u.value))
               [] At(p) = "0" -> IF ~PeekIn(q, Decimal)
                                 THEN escaped(q, Encode(0))
                                 ELSE IF inTemplate THEN invalid(q + 1)
                                 ELSE octalEscape(q)
               [] At(p) \in {"1", "2", "3", "4", "5", "6", "7"} ->
                    IF inTemplate THEN invalid(q) ELSE octalEscape(q)
               [] At(p) \in {"8", "9"} /\ inTemplate -> invalid(q)
               [] OTHER -> escaped(q, RuneAt(p))
<1>3. readStringEscapeSequence(p, inTemplate) = IF p >= len THEN invalid(p) ELSE found
  BY DEF readStringEscapeSequence
<1>4. \A e : endsIn(e, p) => endsAt(e, p)
  BY <1>1, PositionsOf DEF endsIn, endsAt
<1> HIDE DEF found
<1>5. CASE p >= len
  BY <1>1, <1>2, <1>3, <1>4, <1>5
<1>6. CASE p < len /\ q > len
  <2>1. RuneAt(p) = RuneError /\ At(p) \in NonASCII /\ q \in Positions /\ p < q
    BY <1>1, <1>6, NextRuneInText
  <2>2. At(p) \notin ASCII
    BY <2>1, SourceAssumption
  <2>3. /\ DOMAIN SingleEscape \subseteq ASCII
        /\ {"x", "u", "0", "1", "2", "3", "4", "5", "6", "7", "8", "9"} \subseteq ASCII
    BY DEF SingleEscape, ASCII, Lower, Decimal
  <2>4. RuneError \notin {<<"LF">>, LS, PS, <<"CR">>}
    BY DEF RuneError, LS, PS
  <2>5. found = escaped(q, RuneAt(p))
    BY <2>1, <2>2, <2>3, <2>4 DEF found
  <2>6. q >= p
    BY <1>1, <1>6, <2>1, NextRuneInText
  <2>7. endsAt(escaped(q, RuneAt(p)), p)
    <3>1. q \in Positions
      BY <2>1
    <3> HIDE DEF q
    <3> QED
      BY <2>6, <3>1 DEF endsAt, escaped
  <2> QED
    BY <1>1, <1>3, <1>6, <2>5, <2>7
<1>7. CASE p < len /\ ~(q > len)
  <2>1. p \in 0 .. len - 1
    BY <1>1, <1>7
  <2>2. q \in p + 1 .. len
    BY <1>1, <1>7, <2>1, NextRuneInText
  <2> HIDE DEF q
  <2>3. q \in 0 .. len /\ q \in p .. len /\ (q < len => q + 1 \in p .. len)
    BY <1>1, <2>2
  <2>4. x \in p .. len
    <3>1. x \in q .. len
      BY <2>3, LoopsEndInText
    <3> QED
      BY <1>1, <2>3, <3>1
  <2>5. u.at \in p .. len
    <3>1. u.at \in q .. len
      BY <2>3, UnicodeEscapeInText
    <3> QED
      BY <1>1, <2>3, <3>1
  <2>6. endsIn(octalEscape(q), p)
    <3>1. reading(q) \in Readings(p)
      BY <2>3 DEF reading, Readings
    <3>2. readLegacyOctal(reading(q)) \in Readings(p)
      BY <3>1, LegacyOctalInText
    <3> QED
      BY <3>2 DEF octalEscape, escaped, endsIn, Readings
  <2>7. \A B : PeekIn(q, B) => q + 1 \in p .. len
    BY <2>3 DEF PeekIn
  <2>8. ~(p >= len)
    BY <1>1, <1>7
  <2>9. endsIn(escaped(IF PeekIn(q, {"LF"}) THEN q + 1 ELSE q, <<>>), p)
    BY <1>2, <2>3, <2>7
  <2>10. /\ \A s : endsIn(escaped(q, s), p) /\ endsIn(escaped(u.at, s), p)
                    /\ endsIn(escaped(x, s), p)
         /\ endsIn(invalid(p), p) /\ endsIn(invalid(q), p)
         /\ endsIn(invalid(u.at), p)
         /\ PeekIn(q, Decimal) => endsIn(invalid(q + 1), p)
    BY <1>1, <1>2, <2>3, <2>4, <2>5, <2>7
  <2>11. endsIn(found, p)
    BY <2>6, <2>9, <2>10 DEF found
  <2> QED
    BY <1>3, <1>4, <2>8, <2>11
<1> QED
  BY <1>1, <1>5, <1>6, <1>7

-----------------------------------------------------------------------------
\* What a turn of a loop comes to preserves the invariant.

LEMMA TextIsBytes ==
  ASSUME source \in Texts
  PROVE  SourceOK
BY ScannerAssumption DEF SourceOK

\* What holds where an action begins, and how far it may come.
LEMMA Here ==
  ASSUME ScannerInv
  PROVE  /\ SourceOK /\ len \in Nat /\ pos \in Positions /\ pos \in Nat
         /\ 0 .. len \subseteq Positions /\ Positions \subseteq Nat
         /\ Token \in Tokens /\ Token.Idx0 \in 0 .. pos
         /\ Token.Idx0 \in Positions
         /\ errors \in SUBSET Errors
         /\ mode \in {"line", "block", "name", "string", "template"} =>
              pos \in 0 .. len /\ pos \in pos .. len
         /\ \A B : PeekIn(pos, B) =>
              /\ pos \in 0 .. len - 1 /\ At(pos) \in B /\ pos \in pos .. len
              /\ pos + 1 \in 0 .. len /\ pos + 1 \in pos .. len
         /\ \A B : PeekIn(pos + 1, B) => pos + 2 \in pos .. len
<1>1. SourceOK /\ len \in Nat
  BY TextIsBytes, LenOfSource DEF ScannerInv, TypeInv
<1>2. /\ pos \in Positions /\ pos \in Nat
      /\ 0 .. len \subseteq Positions /\ Positions \subseteq Nat
  BY <1>1, PositionsOf DEF ScannerInv, TypeInv
<1>3. /\ Token \in Tokens /\ Token.Idx0 \in 0 .. pos
      /\ Token.Idx0 \in Positions /\ errors \in SUBSET Errors
  <2>1. Token \in Tokens /\ Token.Idx0 <= pos /\ errors \in SUBSET Errors
    BY DEF ScannerInv, TypeInv
  <2>2. Token.Idx0 \in Positions
    BY <2>1 DEF Tokens
  <2>3. Token.Idx0 \in 0 .. pos
    <3>1. Token.Idx0 \in Nat
      BY <1>2, <2>2
    <3> QED
      BY <1>2, <2>1, <3>1
  <2> QED
    BY <2>1, <2>2, <2>3
<1>4. mode \in {"line", "block", "name", "string", "template"} => pos <= len
  BY <1>1, <1>2 DEF ScannerInv, ModeInv
<1>5. \A B : PeekIn(pos, B) => pos < len /\ At(pos) \in B
  BY DEF PeekIn
<1>6. \A B : PeekIn(pos + 1, B) => pos + 1 < len
  BY DEF PeekIn
<1> QED
  BY <1>1, <1>2, <1>3, <1>4, <1>5, <1>6

\* What an action has to show that leaves the text and the marks alone.
LEMMA InvariantKept ==
  ASSUME ScannerInv, source' = source, marks' = marks,
         pos' \in Positions, Token' \in Tokens, Token'.Idx0 <= pos',
         errors' \in SUBSET Errors, ModeInv'
  PROVE  ScannerInv'
<1>1. len' = len /\ Positions' = Positions
  BY DEF len, Positions, RuneAt, Bytes, At
<1>2. Errors' = Errors /\ Tokens' = Tokens
  BY <1>1 DEF Errors, Tokens
<1>3. TypeInv'
  BY <1>1, <1>2 DEF ScannerInv, TypeInv
<1>4. MarksInv'
  BY <1>1, <1>2 DEF ScannerInv, MarksInv, sound, readUpTo, At
<1> QED
  BY <1>3, <1>4 DEF ScannerInv

LEMMA ProducedAt ==
  ASSUME ScannerInv, NEW kind \in Kinds, NEW p \in Positions, pos <= p,
         NEW errs \in SUBSET Errors, produce(kind, p, errs),
         kind # "Eof" => pos < p,
         kind \notin {"Eof", "Undetermined"} => p <= len,
         kind \in {"Slash", "QuotientAssign"} => p > 0 /\ At(p - 1) \in ASCII
  PROVE  ScannerInv'
<1>1. /\ pos \in Nat /\ pos \in Positions /\ p \in Nat
      /\ Token \in Tokens /\ errors \in SUBSET Errors
  BY Here
<1>2. /\ pos' = p
      /\ Token' = [Token EXCEPT !.Kind = kind, !.Idx0 = pos, !.Idx1 = p]
      /\ errors' \in SUBSET Errors /\ source' = source /\ marks' = marks
      /\ mode' = "token"
  BY <1>1 DEF produce, report, client
<1>3. Token' \in Tokens /\ Token'.Kind = kind /\ Token'.Idx0 = pos /\ Token'.Idx1 = p
  BY <1>1, <1>2 DEF Tokens
<1>4. ModeInv'
  BY <1>1, <1>2, <1>3 DEF ModeInv, readUpTo, At, len
<1> QED
  BY <1>1, <1>2, <1>3, <1>4, InvariantKept

LEMMA Produced ==
  ASSUME ScannerInv, NEW kind \in Kinds, NEW p \in pos .. len,
         NEW errs \in SUBSET Errors, produce(kind, p, errs),
         kind # "Eof" => pos < p,
         kind \in {"Slash", "QuotientAssign"} => p > 0 /\ At(p - 1) \in ASCII
  PROVE  ScannerInv'
<1>1. p \in Positions /\ pos <= p /\ p <= len
  BY Here
<1> QED
  BY <1>1, ProducedAt

LEMMA Skipped ==
  ASSUME ScannerInv, mode = "next", NEW p \in pos .. len,
         NEW lineBreak \in BOOLEAN, skip(p, lineBreak)
  PROVE  ScannerInv'
<1>1. /\ len \in Nat /\ pos \in Nat /\ pos \in Positions
      /\ 0 .. len \subseteq Positions
      /\ Token \in Tokens /\ errors \in SUBSET Errors
  BY Here
<1>2. /\ pos' = p /\ p \in 0 .. len /\ p \in Nat /\ pos \in Nat
      /\ Token' = [Token EXCEPT !.Idx0 = pos, !.OnNewLine = @ \/ lineBreak]
      /\ errors' = errors /\ source' = source /\ marks' = marks /\ mode' = "next"
  BY <1>1 DEF skip, client
<1>3. Token' \in Tokens /\ Token'.Idx0 = pos
  BY <1>1, <1>2 DEF Tokens
<1>4. ModeInv'
  BY <1>2 DEF ModeInv
<1> QED
  BY <1>1, <1>2, <1>3, <1>4, InvariantKept

LEMMA Entered ==
  ASSUME ScannerInv, NEW loop \in {"line", "block", "name", "string"},
         NEW p \in pos .. len, NEW soFar, enter(loop, p, soFar),
         loop \in {"name", "string"} => p < len /\ At(p) \in ASCII
  PROVE  ScannerInv'
<1>1. /\ len \in Nat /\ pos \in Nat /\ pos \in Positions
      /\ 0 .. len \subseteq Positions
      /\ Token \in Tokens /\ errors \in SUBSET Errors
  BY Here
<1>2. /\ pos' = p /\ p \in 0 .. len /\ p \in Nat /\ pos \in Nat
      /\ Token' = [Token EXCEPT !.Idx0 = pos]
      /\ errors' = errors /\ source' = source /\ marks' = marks /\ mode' = loop
  BY <1>1 DEF enter, client
<1>3. Token' \in Tokens /\ Token'.Idx0 = pos
  BY <1>1, <1>2 DEF Tokens
<1>4. ModeInv'
  BY <1>2 DEF ModeInv, At, len
<1> QED
  BY <1>1, <1>2, <1>3, <1>4, InvariantKept

LEMMA Completed ==
  ASSUME ScannerInv, NEW kind \in Kinds \ {"Eof", "Slash", "QuotientAssign"},
         NEW p \in Positions, pos < p, kind # "Undetermined" => p <= len,
         NEW s, NEW errs \in SUBSET Errors, complete(kind, p, s, errs)
  PROVE  ScannerInv'
<1>1. /\ len \in Nat /\ pos \in Nat /\ pos \in Positions
      /\ 0 .. len \subseteq Positions
      /\ Positions \subseteq Nat /\ Token \in Tokens /\ Token.Idx0 \in 0 .. pos
      /\ errors \in SUBSET Errors
  BY Here
<1>2. /\ pos' = p /\ p \in Nat
      /\ Token' = [Token EXCEPT !.Kind = kind, !.HasEscape = TRUE, !.Idx1 = p]
      /\ errors' \in SUBSET Errors /\ source' = source /\ marks' = marks
      /\ mode' = "token"
  BY <1>1 DEF complete, report, client
<1>3. /\ Token' \in Tokens /\ Token'.Kind = kind /\ Token'.Idx1 = p
      /\ Token'.Idx0 = Token.Idx0 /\ Token.Idx0 \in Nat
  BY <1>1, <1>2 DEF Tokens
<1>4. Token'.Idx0 < p
  BY <1>1, <1>2, <1>3
<1>5. ModeInv'
  BY <1>2, <1>3, <1>4 DEF ModeInv, readUpTo, len
<1> QED
  BY <1>1, <1>2, <1>3, <1>4, <1>5, InvariantKept

LEMMA GivenUp ==
  ASSUME ScannerInv, NEW p \in Positions, pos < p, NEW errs \in SUBSET Errors,
         giveUp(p, errs)
  PROVE  ScannerInv'
<1>1. /\ len \in Nat /\ pos \in Nat /\ pos \in Positions
      /\ 0 .. len \subseteq Positions
      /\ Positions \subseteq Nat /\ Token \in Tokens /\ Token.Idx0 \in 0 .. pos
      /\ errors \in SUBSET Errors
  BY Here
<1>2. /\ pos' = p /\ p \in Nat
      /\ Token' = [Token EXCEPT !.Kind = "Undetermined", !.Idx1 = p]
      /\ errors' \in SUBSET Errors /\ source' = source /\ marks' = marks
      /\ mode' = "token"
  BY <1>1 DEF giveUp, report, client
<1>3. /\ Token' \in Tokens /\ Token'.Kind = "Undetermined" /\ Token'.Idx1 = p
      /\ Token'.Idx0 = Token.Idx0 /\ Token.Idx0 \in Nat
  BY <1>1, <1>2 DEF Tokens, Kinds
<1>4. Token'.Idx0 < p
  BY <1>1, <1>2, <1>3
<1>5. ModeInv'
  BY <1>2, <1>3, <1>4 DEF ModeInv, readUpTo, len
<1> QED
  BY <1>1, <1>2, <1>3, <1>4, <1>5, InvariantKept

LEMMA GoneRound ==
  ASSUME ScannerInv, mode \notin {"token", "regexp"}, NEW p \in pos .. len,
         NEW s, NEW errs \in SUBSET Errors, goRound(p, s, errs),
         mode \in {"name", "string", "template"} => p < len /\ At(p) \in ASCII
  PROVE  ScannerInv'
<1>1. /\ len \in Nat /\ pos \in Nat /\ pos \in Positions
      /\ 0 .. len \subseteq Positions
      /\ Positions \subseteq Nat /\ Token \in Tokens /\ Token.Idx0 \in 0 .. pos
      /\ errors \in SUBSET Errors
  BY Here
<1>2. /\ pos' = p /\ p \in 0 .. len /\ Token' = Token /\ Token'.Idx0 <= p
      /\ errors' \in SUBSET Errors /\ source' = source /\ marks' = marks
      /\ mode' = mode
  BY <1>1 DEF goRound, report, client
<1>3. ModeInv'
  BY <1>2 DEF ModeInv, At, len
<1> QED
  BY <1>1, <1>2, <1>3, InvariantKept

LEMMA CommentEnded ==
  ASSUME ScannerInv, NEW p \in pos .. len, NEW lineBreak \in BOOLEAN,
         endComment(p, lineBreak)
  PROVE  ScannerInv'
<1>1. /\ len \in Nat /\ pos \in Nat /\ pos \in Positions
      /\ 0 .. len \subseteq Positions
      /\ Positions \subseteq Nat /\ Token \in Tokens /\ Token.Idx0 \in 0 .. pos
      /\ errors \in SUBSET Errors
  BY Here
<1>2. /\ pos' = p /\ p \in 0 .. len
      /\ Token' = [Token EXCEPT !.OnNewLine = @ \/ lineBreak]
      /\ errors' = errors /\ source' = source /\ marks' = marks /\ mode' = "next"
  BY <1>1 DEF endComment, client
<1>3. Token' \in Tokens /\ Token'.Idx0 = Token.Idx0
  BY <1>1, <1>2 DEF Tokens
<1>4. Token'.Idx0 <= pos'
  BY <1>1, <1>2, <1>3
<1>5. ModeInv'
  BY <1>2 DEF ModeInv
<1> QED
  BY <1>1, <1>2, <1>3, <1>4, <1>5, InvariantKept

-----------------------------------------------------------------------------
\* The actions of Next's loop.

LEMMA SkipActions ==
  ASSUME ScannerInv, WhiteSpace \/ LineBreak \/ UnicodeSpace
  PROVE  ScannerInv'
<1>1. \A B : AfterAll(pos + 1, B) \in pos + 1 .. len \/ pos + 1 \notin 0 .. len
  BY Here, LoopsEndInText
<1>2. \A B, C : PeekIn(pos, B) => AfterAll(pos + 1, C) \in pos .. len
  BY <1>1, Here
<1>3. CASE WhiteSpace
  BY <1>2, <1>3, Here, Skipped DEF WhiteSpace, next
<1>4. CASE LineBreak
  BY <1>2, <1>4, Skipped DEF LineBreak, next
<1>5. ASSUME NEW R, R \subseteq {LS, PS} \cup Space, otherRune(R),
             NEW b \in BOOLEAN, skip(AfterRune(pos), b)
      PROVE  ScannerInv'
  <2>1. /\ mode = "next" /\ PeekIn(pos, Lead2 \cup Lead3 \cup Lead4)
        /\ RuneAt(pos) \in R
    BY <1>5 DEF otherRune, next
  <2>2. pos \in 0 .. len - 1
    BY <2>1, Here
  <2>3. AfterRune(pos) \in pos + 1 .. len
    BY <1>5, <2>1, <2>2, Here, KnownRune
  <2>4. AfterRune(pos) \in pos .. len
    BY <2>2, <2>3, Here
  <2> QED
    BY <1>5, <2>1, <2>4, Skipped
<1>6. CASE UnicodeSpace
  <2>1. {LS, PS} \subseteq {LS, PS} \cup Space /\ Space \ {LS, PS} \subseteq {LS, PS} \cup Space
    OBVIOUS
  <2> QED
    BY <1>5, <1>6, <2>1 DEF UnicodeSpace
<1> QED
  BY <1>3, <1>4, <1>6

LEMMA CommentActions ==
  ASSUME ScannerInv,
         LineComment \/ BlockComment \/ skipSingleLineComment \/ skipMultiLineComment
  PROVE  ScannerInv'
<1>1. CASE LineComment \/ BlockComment
  <2>1. pos + 2 \in pos .. len
    BY <1>1, Here DEF LineComment, BlockComment
  <2> QED
    BY <1>1, <2>1, Entered DEF LineComment, BlockComment
<1>2. ASSUME pos \in 0 .. len, NEW B
      PROVE  /\ FirstOf(pos, B) \in pos .. len
             /\ \A C : PeekIn(FirstOf(pos, B), C) =>
                  /\ FirstOf(pos, B) + 1 \in pos .. len
                  /\ afterClose(FirstOf(pos, B) + 1) \in pos .. len
                  /\ PeekTwoBytes(FirstOf(pos, B) + 1) =>
                       FirstOf(pos, B) + 3 \in pos .. len
             /\ \A C : PeekIn(FirstOf(pos, B) + 1, C) =>
                  FirstOf(pos, B) + 2 \in pos .. len
  <2> DEFINE p == FirstOf(pos, B)
  <2>1. p \in pos .. len
    BY <1>2, Here, LoopsEndInText
  <2> HIDE DEF p
  <2>2. \A C : PeekIn(p, C) => p + 1 \in 0 .. len /\ p + 1 \in pos .. len
    BY <2>1, Here DEF PeekIn
  <2>3. \A C : PeekIn(p, C) => afterClose(p + 1) \in p + 1 .. len
    BY <2>2, Here, LoopsEndInText
  <2>4. \A C : PeekIn(p, C) => afterClose(p + 1) \in pos .. len
    BY <2>1, <2>2, <2>3, Here
  <2>5. PeekTwoBytes(p + 1) => p + 3 \in pos .. len
    BY <2>1, Here DEF PeekTwoBytes
  <2>6. \A C : PeekIn(p + 1, C) => p + 2 \in pos .. len
    BY <2>1, Here DEF PeekIn
  <2> QED
    BY <2>1, <2>2, <2>4, <2>5, <2>6 DEF p
<1>3. CASE skipSingleLineComment
  <2> DEFINE p == FirstOf(pos, {"CR", "LF", "E2"})
             q == IF PeekTwoBytes(p + 1) THEN p + 3 ELSE p + 1
  <2>0. pos \in 0 .. len
    BY <1>3, Here DEF skipSingleLineComment
  <2>1. PeekIn(p, {"E2"}) => q \in pos .. len
    BY <1>2, <2>0
  <2>2. p \in pos .. len
    BY <1>2, <2>0
  <2>3. \/ endComment(p, FALSE)
        \/ PeekIn(p, {"E2"}) /\ goRound(q, str, {})
    BY <1>3 DEF skipSingleLineComment
  <2>4. mode = "line" /\ {} \in SUBSET Errors
    BY <1>3 DEF skipSingleLineComment
  <2> HIDE DEF p, q
  <2> QED
    BY <2>1, <2>2, <2>3, <2>4, CommentEnded, GoneRound
<1>4. CASE skipMultiLineComment
  <2> DEFINE p == FirstOf(pos, {"*", "CR", "LF", "E2"})
             q == IF PeekTwoBytes(p + 1) THEN p + 3 ELSE p + 1
  <2>0. pos \in 0 .. len
    BY <1>4, Here DEF skipMultiLineComment
  <2>1. mode = "block" /\ {} \in SUBSET Errors
    BY <1>4 DEF skipMultiLineComment
  <2>2. /\ p \in pos .. len /\ (p < len => At(p) \in {"*", "CR", "LF", "E2"})
        /\ len \in Nat
    BY <2>0, Here, LoopsEndInText
  <2>3. CASE p = len
    <3>1. /\ source' = source /\ marks' = marks /\ Token' = Token /\ pos' = p
          /\ errors' = errors \cup {error("unterminated", Token.Idx0, p)}
          /\ mode' = "next"
      BY <1>4, <2>3 DEF skipMultiLineComment, report, client
    <3> HIDE DEF p
    <3>2. Token.Idx0 \in 0 .. len /\ p \in Token.Idx0 .. len /\ Token.Idx0 <= p
      BY <2>2, Here
    <3>3. error("unterminated", Token.Idx0, p) \in Errors
      BY <3>2, Here, ErrorInText DEF Complaints
    <3>4. errors' \in SUBSET Errors
      BY <3>1, <3>3 DEF ScannerInv, TypeInv
    <3>5. ModeInv'
      BY <3>1 DEF ModeInv
    <3>6. p \in Positions
      BY <2>2, Here
    <3> QED
      BY <3>1, <3>2, <3>4, <3>5, <3>6, Here, InvariantKept
  <2>4. CASE p # len
    <3> DEFINE turn ==
          \/ PeekIn(p + 1, {"/"}) /\ endComment(p + 2, FALSE)
          \/ goRound(p + 1, str, {})
          \/ /\ lineSeparatorBehind(p + 1)
             /\ pos' = p + 3
             /\ Token' = [Token EXCEPT !.OnNewLine = TRUE]
             /\ UNCHANGED <<source, EscapedStr, errors, mode, str, regexp,
                            begun, client>>
          \/ goRound(q, str, {})
          \/ endComment(afterClose(p + 1), TRUE)
    <3>1. At(p) \in {"*", "CR", "LF", "E2"} /\ PeekIn(p, {At(p)})
      <4> HIDE DEF p
      <4> QED
        BY <2>2, <2>4, Here DEF PeekIn
    <3>2. turn
      <4>1. CASE At(p) = "*"
        BY <1>4, <2>4, <4>1 DEF skipMultiLineComment
      <4>2. CASE At(p) = "E2"
        BY <1>4, <2>4, <4>2 DEF skipMultiLineComment
      <4>3. CASE At(p) \in {"CR", "LF"}
        BY <1>4, <2>4, <4>3 DEF skipMultiLineComment
      <4> QED
        BY <3>1, <4>1, <4>2, <4>3
    <3>3. /\ p + 1 \in pos .. len /\ q \in pos .. len
          /\ afterClose(p + 1) \in pos .. len
          /\ PeekIn(p + 1, {"/"}) => p + 2 \in pos .. len
          /\ lineSeparatorBehind(p + 1) => p + 3 \in pos .. len
      BY <1>2, <2>0, <3>1 DEF lineSeparatorBehind
    <3>4. ASSUME lineSeparatorBehind(p + 1), pos' = p + 3,
                 Token' = [Token EXCEPT !.OnNewLine = TRUE],
                 UNCHANGED <<source, EscapedStr, errors, mode, str, regexp,
                             begun, client>>
          PROVE  ScannerInv'
      <4>1. p + 3 \in pos .. len
        BY <3>3, <3>4
      <4> HIDE DEF p
      <4>2. Token' \in Tokens /\ Token'.Idx0 = Token.Idx0
        BY <3>4, Here DEF Tokens
      <4>3. ModeInv'
        BY <2>1, <3>4, <4>1 DEF ModeInv, len
      <4>4. pos' \in Positions /\ Token'.Idx0 <= pos'
        BY <3>4, <4>1, <4>2, Here
      <4>5. errors' \in SUBSET Errors /\ marks' = marks /\ source' = source
        BY <3>4 DEF ScannerInv, TypeInv, client
      <4> QED
        BY <4>2, <4>3, <4>4, <4>5, InvariantKept
    <3> HIDE DEF p, q
    <3> QED
      BY <2>1, <3>2, <3>3, <3>4, CommentEnded, GoneRound
  <2> QED
    BY <2>3, <2>4
<1> QED
  BY <1>1, <1>3, <1>4

LEMMA OperatorFacts ==
  ASSUME SourceOK, NEW p \in 0 .. len, NEW o \in operatorsAt(p)
  PROVE  /\ p + Len(o) \in p + 1 .. len
         /\ operatorKind(o) \in Kinds \ {"Eof"}
         /\ operatorKind(o) \in {"Slash", "QuotientAssign"} =>
              At((p + Len(o)) - 1) \in ASCII
<1>1. o \in Operators /\ p + Len(o) <= len /\ Bytes(p, p + Len(o)) = o
  BY DEF operatorsAt
<1>2. \A x \in Operators : Len(x) \in 1 .. 4
  BY DEF Operators
<1>3. len \in Nat /\ Len(o) \in 1 .. 4
  BY <1>1, <1>2, LenOfSource
<1>4. operatorKind(o) \in Kinds \ {"Eof"}
  BY DEF operatorKind, Kinds
<1>5. ASSUME operatorKind(o) \in {"Slash", "QuotientAssign"}
      PROVE  At((p + Len(o)) - 1) \in ASCII
  <2>1. o = <<"/">> \/ o = <<"/", "=">>
    BY <1>5 DEF operatorKind
  <2>2. o[Len(o)] \in {"/", "="}
    BY <2>1
  <2>3. \A i \in p + 1 .. p + Len(o) : source[i] \in ASCII \cup NonASCII
    <3>1. \A i \in p + 1 .. p + Len(o) : i \in 1 .. Len(source)
      BY <1>1, <1>3 DEF len
    <3> QED
      BY <3>1, ElementOfSeq DEF SourceOK
  <2>4. SubSeq(source, p + 1, p + Len(o))[Len(o)] = source[p + Len(o)]
    <3> DEFINE m == p + 1
               n == p + Len(o)
               k == Len(o)
    <3>1. m \in Int /\ n \in Int /\ k \in 1 .. n - m + 1 /\ m + k - 1 = n
      BY <1>3
    <3>2. \A i \in m .. n : source[i] \in ASCII \cup NonASCII
      BY <2>3
    <3> HIDE DEF m, n, k
    <3>3. \A i \in 1 .. n - m + 1 : SubSeq(source, m, n)[i] = source[m + i - 1]
      BY <3>1, <3>2, SubSeqProperties
    <3>4. SubSeq(source, m, n)[k] = source[n]
      BY <3>1, <3>3
    <3> QED
      BY <3>4 DEF m, n, k
  <2>6. source[p + Len(o)] \in {"/", "="}
    BY <1>1, <2>2, <2>4 DEF Bytes
  <2>7. At((p + Len(o)) - 1) = source[p + Len(o)]
    <3>1. ((p + Len(o)) - 1) + 1 = p + Len(o)
      BY <1>3
    <3> QED
      BY <3>1 DEF At
  <2> QED
    BY <2>6, <2>7, SomeASCII
<1>6. p + Len(o) \in p + 1 .. len
  <2>1. p + Len(o) <= len
    BY <1>1
  <2> QED
    BY <1>3, <2>1
<1> QED
  BY <1>4, <1>5, <1>6

LEMMA TokenActions ==
  ASSUME ScannerInv, EndOfFile \/ Operator \/ NumberLiteral \/ InvalidCharacter
  PROVE  ScannerInv'
<1>1. {} \in SUBSET Errors
  OBVIOUS
<1>2. CASE EndOfFile
  BY <1>1, <1>2, Here, ProducedAt DEF EndOfFile, Kinds
<1>3. CASE Operator
  <2>1. PICK o \in operatorsAt(pos) : produce(operatorKind(o), pos + Len(o), {})
    BY <1>3 DEF Operator
  <2>2. /\ pos + Len(o) \in pos + 1 .. len
        /\ operatorKind(o) \in Kinds \ {"Eof"}
        /\ operatorKind(o) \in {"Slash", "QuotientAssign"} =>
             At((pos + Len(o)) - 1) \in ASCII
    <3>1. pos \in 0 .. len
      <4>1. Len(o) \in Nat /\ pos + Len(o) <= len
        <5>1. o \in Operators /\ pos + Len(o) <= len
          BY DEF operatorsAt
        <5>2. \A x \in Operators : Len(x) \in 1 .. 4
          BY DEF Operators
        <5> QED
          BY <5>1, <5>2
      <4> QED
        BY <4>1, Here
    <3> QED
      BY <3>1, Here, OperatorFacts
  <2> DEFINE p == pos + Len(o)
             kind == operatorKind(o)
  <2>3. /\ p \in pos + 1 .. len /\ kind \in Kinds /\ kind # "Eof"
        /\ kind \in {"Slash", "QuotientAssign"} => At(p - 1) \in ASCII
        /\ produce(kind, p, {})
    <3>1. kind \in Kinds \ {"Eof"}
      BY <2>2
    <3>2. kind \in {"Slash", "QuotientAssign"} => At(p - 1) \in ASCII
      BY <2>2
    <3>3. p \in pos + 1 .. len /\ produce(kind, p, {})
      BY <2>1, <2>2
    <3> HIDE DEF p, kind
    <3> QED
      BY <3>1, <3>2, <3>3
  <2> HIDE DEF p, kind
  <2>4. p \in pos .. len /\ pos < p /\ p > 0
    BY <2>3, Here
  <2> QED
    BY <1>1, <2>3, <2>4, Produced
<1>4. CASE NumberLiteral
  <2>1. pos \in 0 .. len - 1
    BY <1>4, Here DEF NumberLiteral, next
  <2>2. number(pos) \in Readings(pos + 1)
    BY <2>1, Here, NumberInText
  <2>3. /\ number(pos).at \in pos + 1 .. len
        /\ number(pos).kind \in {"Number", "Undetermined"}
        /\ number(pos).errs \in SUBSET Errors
    BY <2>2 DEF Readings
  <2>4. number(pos).at \in pos .. len /\ pos < number(pos).at
    BY <2>3, Here
  <2>5. number(pos).kind \in Kinds \ {"Eof", "Slash", "QuotientAssign"}
    BY <2>3 DEF Kinds
  <2>6. produce(number(pos).kind, number(pos).at, number(pos).errs)
    BY <1>4 DEF NumberLiteral
  <2> QED
    BY <2>3, <2>4, <2>5, <2>6, Produced
<1>5. CASE InvalidCharacter
  <2>1. ASSUME NEW q \in Positions, pos < q,
               produce("Undetermined", q, {error("character", pos, q)})
        PROVE  ScannerInv'
    <3>1. pos <= q
      BY <2>1, Here
    <3>2. {error("character", pos, q)} \in SUBSET Errors
      BY <2>1, <3>1, Here, ErrorAt DEF Complaints
    <3>3. "Undetermined" \in Kinds
      BY DEF Kinds
    <3> QED
      BY <2>1, <3>1, <3>2, <3>3, ProducedAt
  <2>2. CASE /\ next(Control \cup {"@"} \cup Continuation \cup Stray)
             /\ produce("Undetermined", pos + 1, {error("character", pos, pos + 1)})
    <3>1. pos + 1 \in Positions /\ pos < pos + 1
      BY <2>2, Here DEF next
    <3> QED
      BY <2>1, <2>2, <3>1
  <2>3. CASE /\ next(Lead2 \cup Lead3 \cup Lead4)
             /\ produce("Undetermined", AfterRune(pos),
                        {error("character", pos, AfterRune(pos))})
    <3>1. pos \in 0 .. len - 1 /\ At(pos) \notin Continuation
      BY <2>3, Here, SourceAssumption DEF next
    <3>2. AfterRune(pos) \in Positions /\ pos < AfterRune(pos)
      BY <3>1, Here, NextRuneInText DEF boundary
    <3> QED
      BY <2>1, <2>3, <3>2
  <2> QED
    BY <1>5, <2>2, <2>3 DEF InvalidCharacter
<1> QED
  BY <1>2, <1>3, <1>4, <1>5

LEMMA NameActions ==
  ASSUME ScannerInv, Name \/ scanIdentifierOnBackslash
  PROVE  ScannerInv'
<1>1. {} \in SUBSET Errors /\ "\\" \in ASCII
      /\ {"Identifier", "PrivateIdentifier"} \subseteq
             Kinds \ {"Eof", "Slash", "QuotientAssign"}
  BY SomeASCII DEF Kinds
<1>2. CASE Name
  <2> DEFINE p == IF At(pos) = "\\" THEN pos
                  ELSE AfterRunes(AfterRune(pos), isIdentifierPart)
  <2>1. pos \in 0 .. len - 1
    BY <1>2, Here DEF Name
  <2>2. AfterRune(pos) \in pos + 1 .. len
    <3>1. CASE PeekIn(pos, asciiStart \cup {"\\", "#"})
      <4>1. At(pos) \in ASCII
        BY <3>1, SomeASCII DEF PeekIn, asciiStart, ASCII, Punctuation
      <4>2. At(pos) \notin NonASCII
        BY <4>1, SourceAssumption
      <4>3. ~(AfterRune(pos) > len) /\ AfterRune(pos) \in Nat /\ pos < AfterRune(pos)
        BY <2>1, <4>2, Here, NextRuneInText
      <4> QED
        BY <4>3, Here
    <3>2. CASE PeekIn(pos, Lead2 \cup Lead3 \cup Lead4) /\ RuneAt(pos) \in IDStart
      BY <2>1, <3>2, Here, KnownRune, SourceAssumption DEF isIdentifierPart
    <3> QED
      BY <1>2, <3>1, <3>2 DEF Name, PeekIn
  <2>3. AfterRune(pos) \in pos + 1 .. len /\ AfterRune(pos) \in 0 .. len
    BY <2>2, Here
  <2>4. AfterRunes(AfterRune(pos), isIdentifierPart) \in AfterRune(pos) .. len
    BY <2>3, Here, LoopsEndInText
  <2>5. p \in pos .. len /\ (At(pos) # "\\" => pos < p)
    BY <2>3, <2>4, Here
  <2>6. \/ PeekIn(p, {"\\"}) /\ enter("name", p, Bytes(pos, p))
        \/ /\ ~PeekIn(p, {"\\"})
           /\ produce(IF At(pos) = "#" THEN "PrivateIdentifier" ELSE "Identifier",
                      p, {})
    BY <1>2 DEF Name
  <2>7. At(pos) = "\\" => p = pos /\ PeekIn(pos, {"\\"})
    BY <2>1, Here DEF PeekIn
  <2> HIDE DEF p
  <2>8. PeekIn(p, {"\\"}) => p < len /\ At(p) \in ASCII
    BY <1>1 DEF PeekIn
  <2>9. CASE PeekIn(p, {"\\"}) /\ enter("name", p, Bytes(pos, p))
    BY <2>5, <2>8, <2>9, Entered
  <2>10. CASE ~PeekIn(p, {"\\"})
    <3>1. pos < p
      BY <2>5, <2>7, <2>10
    <3> DEFINE kind == IF At(pos) = "#" THEN "PrivateIdentifier" ELSE "Identifier"
    <3>2. kind \in Kinds \ {"Eof", "Slash", "QuotientAssign"} /\ produce(kind, p, {})
      BY <1>1, <2>6, <2>10
    <3> HIDE DEF kind
    <3> QED
      BY <1>1, <2>5, <3>1, <3>2, Produced
  <2> QED
    BY <2>6, <2>9, <2>10
<1>3. CASE scanIdentifierOnBackslash
  <2>1. mode = "name" /\ pos \in 0 .. len - 1 /\ pos + 1 \in 0 .. len
    BY <1>3, Here DEF scanIdentifierOnBackslash, ScannerInv, ModeInv
  <2> DEFINE e == identifierUnicodeEscapeSequence(pos + 1, pos = Token.Idx0)
             p == AfterRunes(e.at, isIdentifierPart)
             s == str \o e.out \o Bytes(e.at, p)
             kind == IF At(Token.Idx0) = "#" THEN "PrivateIdentifier"
                                             ELSE "Identifier"
  <2>2. endsIn(e, pos + 1)
    BY <2>1, Here, NameEscapeInText
  <2>3. \/ PeekIn(p, {"\\"}) /\ goRound(p, s, e.errs)
        \/ complete(kind, p, s, e.errs)
    BY <1>3 DEF scanIdentifierOnBackslash
  <2>4. kind \in Kinds \ {"Eof", "Slash", "QuotientAssign"}
    BY <1>1
  <2> HIDE DEF e, s, kind
  <2>5. e.at \in 0 .. len /\ e.at \in pos + 1 .. len /\ e.errs \in SUBSET Errors
    BY <2>1, <2>2, Here DEF endsIn
  <2>6. p \in e.at .. len
    BY <2>5, Here, LoopsEndInText
  <2> HIDE DEF p
  <2>7. p \in pos .. len /\ p \in Positions /\ pos < p /\ p <= len
    BY <2>1, <2>5, <2>6, Here
  <2>8. PeekIn(p, {"\\"}) => p < len /\ At(p) \in ASCII
    BY <1>1 DEF PeekIn
  <2> QED
    BY <2>1, <2>3, <2>4, <2>5, <2>7, <2>8, GoneRound, Completed
<1> QED
  BY <1>2, <1>3

LEMMA StringActions ==
  ASSUME ScannerInv, StringLiteral \/ scanStringLiteralEscaped
  PROVE  ScannerInv'
<1>1. /\ {} \in SUBSET Errors /\ "\\" \in ASCII
      /\ "String" \in Kinds \ {"Eof", "Slash", "QuotientAssign"}
      /\ "Undetermined" \in Kinds \ {"Eof", "Slash", "QuotientAssign"}
  BY SomeASCII DEF Kinds
<1>2. CASE StringLiteral
  <2> DEFINE p == FirstOf(pos + 1, {At(pos), "CR", "LF", "\\"})
  <2>1. pos \in 0 .. len - 1 /\ pos + 1 \in 0 .. len
    BY <1>2, Here DEF StringLiteral, next
  <2>2. p \in pos + 1 .. len
    BY <2>1, Here, LoopsEndInText
  <2>3. \/ PeekIn(p, {"\\"}) /\ enter("string", p, Bytes(pos + 1, p))
        \/ PeekIn(p, {At(pos)}) /\ produce("String", p + 1, {})
        \/ produce("Undetermined", p, {error("unterminated", pos, p)})
    BY <1>2 DEF StringLiteral
  <2> HIDE DEF p
  <2>4. p \in pos .. len /\ pos < p /\ pos \in 0 .. len
    BY <2>1, <2>2, Here
  <2>5. CASE PeekIn(p, {"\\"}) /\ enter("string", p, Bytes(pos + 1, p))
    <3>1. p < len /\ At(p) \in ASCII
      BY <1>1, <2>5 DEF PeekIn
    <3> QED
      BY <2>4, <2>5, <3>1, Entered
  <2>6. CASE PeekIn(p, {At(pos)}) /\ produce("String", p + 1, {})
    <3>1. p + 1 \in pos .. len /\ pos < p + 1
      BY <2>1, <2>4, <2>6, Here DEF PeekIn
    <3> QED
      BY <1>1, <2>6, <3>1, Produced
  <2>7. CASE produce("Undetermined", p, {error("unterminated", pos, p)})
    <3>1. {error("unterminated", pos, p)} \in SUBSET Errors
      BY <2>4, Here, ErrorInText DEF Complaints
    <3> QED
      BY <1>1, <2>4, <2>7, <3>1, Produced
  <2> QED
    BY <2>3, <2>5, <2>6, <2>7
<1>3. CASE scanStringLiteralEscaped
  <2>1. /\ mode = "string" /\ pos \in 0 .. len - 1 /\ pos + 1 \in 0 .. len
        /\ At(pos) \in ASCII
    BY <1>3, Here DEF scanStringLiteralEscaped, ScannerInv, ModeInv
  <2> DEFINE delim == At(Token.Idx0)
             e == readStringEscapeSequence(pos + 1, FALSE)
             errs == e.errs \cup (IF e.isValid THEN {}
                                  ELSE {error("escape", pos, e.at)})
             p == FirstOf(e.at, {delim, "CR", "LF", "\\"})
             s == str \o e.out \o Bytes(e.at, p)
             last == errs \cup {error("unterminated", Token.Idx0, p)}
  <2>2. boundary(pos + 1)
    BY <2>1, Here, AfterASCII
  <2>3. endsAt(e, pos + 1)
    BY <2>1, <2>2, Here, StringEscapeInText
  <2>4. \/ PeekIn(p, {"\\"}) /\ goRound(p, s, errs)
        \/ PeekIn(p, {delim}) /\ complete("String", p + 1, s, errs)
        \/ giveUp(p, last)
    BY <1>3 DEF scanStringLiteralEscaped
  <2> HIDE DEF e, s, delim
  <2>5. /\ e.at \in Positions /\ e.at \in Nat /\ pos < e.at
        /\ e.errs \in SUBSET Errors
    BY <2>1, <2>3, Here DEF endsAt
  <2>6. p \in Positions /\ p >= e.at
    <3>1. CASE e.at > len
      BY <2>5, <3>1, Here, LoopsStay
    <3>2. CASE ~(e.at > len)
      <4>1. e.at \in 0 .. len
        BY <2>5, <3>2, Here
      <4>2. p \in e.at .. len
        BY <4>1, Here, LoopsEndInText
      <4> HIDE DEF p
      <4> QED
        BY <2>5, <4>2, Here
    <3> QED
      BY <3>1, <3>2
  <2> HIDE DEF p
  <2>7. p \in Nat /\ pos < p /\ Token.Idx0 <= p /\ (p <= len => p \in pos .. len)
    BY <2>5, <2>6, Here
  <2>8. errs \in SUBSET Errors
    <3>1. error("escape", pos, e.at) \in Errors
      BY <2>5, Here, ErrorAt DEF Complaints
    <3> QED
      BY <2>5, <3>1
  <2>9. last \in SUBSET Errors
    <3>1. Token.Idx0 \in Positions
      BY <2>1, Here
    <3>2. error("unterminated", Token.Idx0, p) \in Errors
      BY <2>6, <2>7, <3>1, Here, ErrorAt DEF Complaints
    <3> QED
      BY <2>8, <3>2
  <2>10. /\ PeekIn(p, {"\\"}) => p < len /\ At(p) \in ASCII /\ p \in pos .. len
         /\ PeekIn(p, {delim}) =>
              p + 1 \in Positions /\ pos < p + 1 /\ p + 1 <= len
    <3>1. \A B : PeekIn(p, B) => p < len /\ At(p) \in B
      BY DEF PeekIn
    <3> QED
      BY <1>1, <2>7, <3>1, Here
  <2> HIDE DEF errs, last
  <2> QED
    BY <1>1, <2>1, <2>4, <2>6, <2>7, <2>8, <2>9, <2>10, GoneRound, Completed, GivenUp
<1> QED
  BY <1>2, <1>3

\* partKind finds no kind that the invariant says more of.
LEMMA PartKinds ==
  ASSUME NEW begin, NEW end
  PROVE  partKind(begin, end) \in Kinds \ {"Eof", "Slash", "QuotientAssign"}
BY DEF partKind, Kinds

LEMMA TemplatePart ==
  ASSUME ScannerInv, NEW begin \in 0 .. len - 1, ReadTemplateLiteral(begin)
  PROVE  ScannerInv'
<1> DEFINE p == templateLiteralEnd(begin + 1)
           part == [Token EXCEPT !.Idx0 = begin]
<1>1. /\ SourceOK /\ len \in Nat /\ begin \in Nat /\ begin + 1 \in 0 .. len
      /\ Token \in Tokens /\ errors \in SUBSET Errors
  BY Here DEF ScannerInv, TypeInv
<1>2. /\ p \in begin + 1 .. len
      /\ p < len => At(p) \in {"BQ", "CR", "\\", "$"} /\ afterPart(p) \in p + 1 .. len
  BY <1>1, TemplateLoopEndsInText
<1>3. p \in 0 .. len /\ p \in Nat /\ begin < p
  BY <1>1, <1>2
<1>4. part \in Tokens /\ part.Idx0 = begin
  BY <1>1, Here DEF Tokens
<1>5. source' = source /\ marks' = marks
  BY DEF ReadTemplateLiteral, client
<1>6. CASE p = len
  <2>1. /\ pos' = p /\ mode' = "token"
        /\ Token' = [part EXCEPT !.Kind = "Undetermined", !.Idx1 = p]
        /\ errors' = errors \cup {error("unterminated", begin, p)}
    BY <1>6 DEF ReadTemplateLiteral, report
  <2> HIDE DEF p, part
  <2>2. /\ Token' \in Tokens /\ Token'.Idx0 = begin /\ Token'.Idx1 = p
        /\ Token'.Kind = "Undetermined"
    BY <1>3, <1>4, <2>1 DEF Tokens, Kinds
  <2>3. error("unterminated", begin, p) \in Errors
    <3>1. begin \in 0 .. len /\ p \in begin .. len
      BY <1>1, <1>3
    <3> QED
      BY <1>1, <3>1, ErrorInText DEF Complaints
  <2>4. errors' \in SUBSET Errors
    BY <1>1, <2>1, <2>3
  <2>5. Token'.Idx0 <= pos' /\ Token'.Idx0 < pos' /\ pos' \in Positions
    BY <1>1, <1>3, <2>1, <2>2, Here
  <2>6. ModeInv'
    BY <2>1, <2>2, <2>5 DEF ModeInv, readUpTo
  <2> QED
    BY <1>5, <2>2, <2>4, <2>5, <2>6, InvariantKept
<1>7. CASE p # len /\ At(p) \in {"CR", "\\"}
  <2>1. pos' = p /\ mode' = "template" /\ Token' = part /\ errors' = errors
    BY <1>7 DEF ReadTemplateLiteral
  <2> HIDE DEF p, part
  <2>2. p < len /\ At(p) \in ASCII
    BY <1>1, <1>2, <1>7, SomeASCII
  <2>3. Token'.Idx0 <= pos' /\ pos' \in Positions
    BY <1>1, <1>3, <1>4, <2>1, Here
  <2>4. ModeInv'
    BY <1>5, <2>1, <2>2 DEF ModeInv, At, len
  <2> QED
    BY <1>1, <1>4, <1>5, <2>1, <2>3, <2>4, InvariantKept
<1>8. CASE p # len /\ At(p) \notin {"CR", "\\"}
  <2> DEFINE q == afterPart(p)
             kind == partKind(begin, p)
  <2>1. /\ pos' = q /\ mode' = "token"
        /\ Token' = [part EXCEPT !.Kind = kind, !.Idx1 = q]
        /\ errors' = errors
    BY <1>8 DEF ReadTemplateLiteral
  <2>2. kind \in Kinds \ {"Eof", "Slash", "QuotientAssign"}
    BY PartKinds
  <2>3. q \in p + 1 .. len
    BY <1>1, <1>2, <1>8
  <2> HIDE DEF p, part, q, kind
  <2>4. q \in Positions /\ q \in Nat /\ begin < q /\ q <= len
    BY <1>1, <1>3, <2>3, Here
  <2>5. /\ Token' \in Tokens /\ Token'.Idx0 = begin /\ Token'.Idx1 = q
        /\ Token'.Kind = kind
    BY <1>4, <2>1, <2>2, <2>4 DEF Tokens
  <2>6. Token'.Idx0 <= pos' /\ Token'.Idx0 < pos' /\ pos' \in Positions
    BY <1>1, <2>1, <2>4, <2>5
  <2>7. ModeInv'
    BY <1>5, <2>1, <2>2, <2>4, <2>5, <2>6 DEF ModeInv, readUpTo, len
  <2> QED
    BY <1>1, <1>5, <2>1, <2>5, <2>6, <2>7, InvariantKept
<1> QED
  BY <1>6, <1>7, <1>8

LEMMA TemplateActions ==
  ASSUME ScannerInv, TemplateLiteral \/ templateLiteralEscaped \/ NextTemplatePart
  PROVE  ScannerInv'
<1>1. CASE TemplateLiteral
  BY <1>1, Here, TemplatePart DEF TemplateLiteral, next
<1>2. CASE NextTemplatePart
  <2>1. /\ mode = "token" /\ Token.Kind = "RightBrace"
        /\ ReadTemplateLiteral(pos - 1)
    BY <1>2 DEF NextTemplatePart
  <2>2. Token.Idx0 < pos /\ pos <= len
    BY <2>1 DEF ScannerInv, ModeInv, readUpTo
  <2>3. pos - 1 \in 0 .. len - 1
    BY <2>2, Here
  <2> QED
    BY <2>1, <2>3, TemplatePart
<1>3. CASE templateLiteralEscaped
  <2> DEFINE e == IF At(pos) = "CR" THEN carriageReturn(pos + 1)
                  ELSE readStringEscapeSequence(pos + 1, TRUE)
             p == templateLiteralEnd(e.at)
             s == str \o e.out \o Bytes(e.at, p)
             last == e.errs \cup {error("unterminated", Token.Idx0, p)}
             kind == partKind(Token.Idx0, p)
  <2>1. /\ mode = "template" /\ pos \in 0 .. len - 1 /\ pos + 1 \in 0 .. len
        /\ At(pos) \in ASCII
    BY <1>3, Here DEF templateLiteralEscaped, ScannerInv, ModeInv
  <2>2. endsAt(e, pos + 1)
    <3>1. boundary(pos + 1)
      BY <2>1, Here, AfterASCII
    <3>2. endsAt(carriageReturn(pos + 1), pos + 1)
      <4>1. pos + 1 \in Positions /\ pos + 1 >= pos + 1
        BY <2>1, Here
      <4> QED
        BY <4>1 DEF carriageReturn, escaped, endsAt
    <3>3. endsAt(readStringEscapeSequence(pos + 1, TRUE), pos + 1)
      BY <2>1, <3>1, Here, StringEscapeInText
    <3> QED
      BY <3>2, <3>3
  <2>3. \/ PeekIn(p, {"CR", "\\"}) /\ goRound(p, s, e.errs)
        \/ complete("Undetermined", p, s, last)
        \/ ~(p >= len) /\ complete(kind, afterPart(p), s, e.errs)
    BY <1>3 DEF templateLiteralEscaped
  <2>4. kind \in Kinds \ {"Eof", "Slash", "QuotientAssign"}
    BY PartKinds
  <2> HIDE DEF e, s, kind
  <2>5. /\ e.at \in Positions /\ e.at \in Nat /\ pos < e.at
        /\ e.errs \in SUBSET Errors
    BY <2>1, <2>2, Here DEF endsAt
  <2>6. /\ p \in Positions /\ p >= e.at
        /\ p < len => afterPart(p) \in p + 1 .. len
    <3>1. CASE e.at > len
      <4>1. p = e.at
        BY <2>5, <3>1, Here, LoopsStay
      <4> HIDE DEF p
      <4> QED
        BY <2>5, <3>1, <4>1, Here
    <3>2. CASE ~(e.at > len)
      <4>1. e.at \in 0 .. len
        BY <2>5, <3>2, Here
      <4>2. p \in e.at .. len /\ (p < len => afterPart(p) \in p + 1 .. len)
        BY <4>1, Here, TemplateLoopEndsInText
      <4> HIDE DEF p
      <4> QED
        BY <2>5, <4>2, Here
    <3> QED
      BY <3>1, <3>2
  <2> HIDE DEF p
  <2>7. /\ p \in Nat /\ pos < p /\ Token.Idx0 <= p
        /\ p < len => p \in pos .. len
        /\ ~(p >= len) => /\ afterPart(p) \in Positions /\ pos < afterPart(p)
                          /\ afterPart(p) <= len
    BY <2>5, <2>6, Here
  <2>8. last \in SUBSET Errors
    <3>1. Token.Idx0 \in Positions
      BY <2>1, Here
    <3>2. error("unterminated", Token.Idx0, p) \in Errors
      BY <2>6, <2>7, <3>1, Here, ErrorAt DEF Complaints
    <3> QED
      BY <2>5, <3>2
  <2>9. PeekIn(p, {"CR", "\\"}) => p < len /\ At(p) \in ASCII
    BY SomeASCII DEF PeekIn
  <2>10. "Undetermined" \in Kinds \ {"Eof", "Slash", "QuotientAssign"}
    BY DEF Kinds
  <2> HIDE DEF last
  <2> QED
    BY <2>1, <2>3, <2>4, <2>5, <2>6, <2>7, <2>8, <2>9, <2>10, GoneRound, Completed
<1> QED
  BY <1>1, <1>2, <1>3

-----------------------------------------------------------------------------
\* The parser's calls.

\* A token without its flags is a token still.
LEMMA NextBegins ==
  ASSUME ScannerInv, NEW p \in Positions, pos <= p, pos' = p, nextToken,
         source' = source, marks' = marks, errors' \in SUBSET Errors
  PROVE  ScannerInv'
<1>1. /\ Token' = [Token EXCEPT !.OnNewLine = FALSE, !.HasEscape = FALSE]
      /\ mode' = "next"
  BY DEF nextToken
<1>2. Token' \in Tokens /\ Token'.Idx0 = Token.Idx0
  BY <1>1, Here DEF Tokens
<1>3. pos' \in Positions /\ Token'.Idx0 <= pos'
  BY <1>2, Here
<1>4. ModeInv'
  BY <1>1 DEF ModeInv
<1> QED
  BY <1>2, <1>3, <1>4, InvariantKept

LEMMA RegExpActions ==
  ASSUME ScannerInv, NextToken \/ ParseRegExp \/ regExpRune
  PROVE  ScannerInv'
<1>1. errors \in SUBSET Errors
  BY DEF ScannerInv, TypeInv
<1>2. CASE NextToken
  <2>1. /\ pos' = pos /\ nextToken /\ source' = source /\ marks' = marks
        /\ errors' = errors
    BY <1>2 DEF NextToken
  <2> QED
    BY <1>1, <2>1, Here, NextBegins
<1>3. CASE ParseRegExp
  <2>1. /\ mode = "token" /\ Token.Kind \in {"Slash", "QuotientAssign"}
        /\ mode' = "regexp" /\ pos' = pos /\ source' = source /\ marks' = marks
        /\ errors' = errors /\ Token' = Token
    BY <1>3 DEF ParseRegExp, client
  <2>2. pos > 0 /\ pos <= len /\ At(pos - 1) \in ASCII
    BY <2>1 DEF ScannerInv, ModeInv, readUpTo
  <2>3. pos - 1 \in 0 .. len - 1 /\ (pos - 1) + 1 = pos
    BY <2>2, Here
  <2>4. boundary((pos - 1) + 1)
    BY <2>2, <2>3, Here, AfterASCII
  <2>5. boundary(pos)
    BY <2>3, <2>4
  <2>6. ModeInv'
    BY <2>1, <2>5 DEF ModeInv, boundary, At, len
  <2>7. Token.Idx0 <= pos
    BY Here
  <2> QED
    BY <1>1, <2>1, <2>6, <2>7, Here, InvariantKept
<1>4. CASE regExpRune
  <2>1. mode = "regexp" /\ boundary(pos)
    BY <1>4 DEF regExpRune, ScannerInv, ModeInv
  <2>2. ASSUME NEW p \in Positions, pos <= p, NEW errs \in SUBSET Errors,
               endRegExp(p, errs)
        PROVE  ScannerInv'
    <3> DEFINE q == AfterAll(p, asciiContinue)
    <3>1. /\ pos' = q /\ errors' = errors \cup (errs \cup flagErrors(p, q))
          /\ nextToken /\ source' = source /\ marks' = marks
      BY <2>2 DEF endRegExp, report, client
    <3>2. p \in Nat /\ len \in Nat /\ pos \in Nat
      BY Here
    <3>3. q \in Positions /\ p <= q /\ (q <= len \/ q = p)
      <4>1. CASE p > len
        BY <3>2, <4>1, Here, LoopsStay
      <4>2. CASE ~(p > len)
        <5>1. p \in 0 .. len
          BY <3>2, <4>2
        <5>2. q \in p .. len
          BY <5>1, Here, LoopsEndInText
        <5> HIDE DEF q
        <5> QED
          BY <3>2, <5>2, Here
      <4> QED
        BY <4>1, <4>2
    <3> HIDE DEF q
    <3>4. pos <= q /\ q \in Nat
      BY <2>2, <3>2, <3>3, Here
    <3>5. flagErrors(p, q) \in SUBSET Errors
      <4>1. ASSUME NEW f \in p .. q - 1
            PROVE  error("flag", f, f + 1) \in Errors
        <5>1. f \in 0 .. len /\ f + 1 \in f .. len
          BY <3>2, <3>3, <3>4
        <5> QED
          BY <5>1, Here, ErrorInText DEF Complaints
      <4> QED
        BY <4>1 DEF flagErrors
    <3> QED
      BY <1>1, <2>2, <3>1, <3>3, <3>4, <3>5, NextBegins
  <2>3. CASE pos >= len
    <3>1. endRegExp(pos, {error("unterminated", Token.Idx0, pos)})
      BY <1>4, <2>3 DEF regExpRune
    <3>2. {error("unterminated", Token.Idx0, pos)} \in SUBSET Errors
      <4>1. Token.Idx0 \in Positions
        BY Here
      <4> QED
        BY <4>1, Here, ErrorAt DEF Complaints
    <3>3. pos <= pos
      BY Here
    <3> QED
      BY <2>2, <3>1, <3>2, <3>3, Here
  <2>4. CASE ~(pos >= len)
    <3> DEFINE p == AfterRune(pos)
    <3>1. pos \in 0 .. len - 1
      BY <2>4, Here
    <3>2. p \in Positions /\ pos < p /\ boundary(p)
      BY <2>1, <3>1, Here, NextRuneInText
    <3>3. pos <= p /\ Token.Idx0 \in Positions /\ Token.Idx0 <= p
      BY <3>1, <3>2, Here
    <3>4. \/ endRegExp(p, {error("unterminated", Token.Idx0, p)})
          \/ endRegExp(p, {})
          \/ /\ pos' = p /\ source' = source /\ marks' = marks
             /\ errors' = errors /\ Token' = Token /\ mode' = mode
      BY <1>4, <2>4, Zenon DEF regExpRune, client
    <3> HIDE DEF p
    <3>5. {error("unterminated", Token.Idx0, p)} \in SUBSET Errors
      BY <3>2, <3>3, Here, ErrorAt DEF Complaints
    <3>6. ASSUME pos' = p, source' = source, marks' = marks, errors' = errors,
                 Token' = Token, mode' = mode
          PROVE  ScannerInv'
      <4>1. ModeInv'
        BY <2>1, <3>2, <3>6 DEF ModeInv, boundary, At, len
      <4> QED
        BY <1>1, <3>2, <3>3, <3>6, <4>1, Here, InvariantKept
    <3>7. {} \in SUBSET Errors
      OBVIOUS
    <3> QED
      BY <2>2, <3>2, <3>3, <3>4, <3>5, <3>6, <3>7
  <2> QED
    BY <2>3, <2>4
<1> QED
  BY <1>2, <1>3, <1>4

LEMMA MarksKept ==
  ASSUME ScannerInv, source' = source, mode' = "token",
         \E S : marks' \in Seq(S),
         \A i \in 1 .. Len(marks') : sound(marks'[i]),
         sound([pos |-> pos', tok |-> Token', errors |-> errors'])
  PROVE  ScannerInv'
<1>0. len' = len /\ Positions' = Positions
  BY DEF len, Positions, RuneAt, Bytes, At
<1>1. /\ len' = len /\ Positions' = Positions
      /\ Errors' = Errors /\ Tokens' = Tokens
  BY <1>0 DEF Errors, Tokens
<1>2. /\ pos' \in Positions /\ Token' \in Tokens /\ errors' \in SUBSET Errors
      /\ readUpTo(Token', pos')
  BY DEF sound
<1>3. TypeInv'
  BY <1>1, <1>2 DEF ScannerInv, TypeInv, readUpTo
<1>4. ModeInv'
  BY <1>1, <1>2 DEF ModeInv, readUpTo, At
<1>5. MarksInv'
  BY <1>1 DEF MarksInv, sound, readUpTo, At
<1> QED
  BY <1>3, <1>4, <1>5 DEF ScannerInv

LEMMA MarkActions ==
  ASSUME ScannerInv, Checkpoint \/ Restore \/ Forget
  PROVE  ScannerInv'
<1>1. source' = source /\ mode = "token" /\ mode' = "token"
  BY DEF Checkpoint, Restore, Forget
<1>2. PICK S : marks \in Seq(S)
  BY DEF ScannerInv, TypeInv
<1>3. /\ Len(marks) \in Nat
      /\ \A i \in 1 .. Len(marks) : sound(marks[i])
      /\ sound([pos |-> pos, tok |-> Token, errors |-> errors])
  <2>1. Len(marks) \in Nat
    BY <1>2, LenProperties
  <2>2. sound([pos |-> pos, tok |-> Token, errors |-> errors])
    BY <1>1 DEF ScannerInv, TypeInv, ModeInv, sound
  <2> QED
    BY <2>1, <2>2 DEF ScannerInv, MarksInv
<1>4. CASE Checkpoint
  <2> DEFINE c == [pos |-> pos, tok |-> Token, escapedStr |-> EscapedStr,
                   errors |-> errors, begun |-> begun, open |-> open]
  <2>1. /\ marks' = Append(marks, c)
        /\ pos' = pos /\ Token' = Token /\ errors' = errors
    BY <1>4 DEF Checkpoint
  <2>2. sound(c)
    BY <1>3 DEF sound
  <2> HIDE DEF c
  <2>3. marks \in Seq(S \cup {c})
    BY <1>2, SeqMonotonic
  <2>4. /\ marks' \in Seq(S \cup {c}) /\ Len(marks') = Len(marks) + 1
        /\ \A i \in 1 .. Len(marks) : marks'[i] = marks[i]
        /\ marks'[Len(marks) + 1] = c
    BY <2>1, <2>3, AppendProperties
  <2>5. \A i \in 1 .. Len(marks') : sound(marks'[i])
    <3> SUFFICES ASSUME NEW i \in 1 .. Len(marks')
                 PROVE  sound(marks'[i])
      OBVIOUS
    <3>1. CASE i = Len(marks) + 1
      BY <2>2, <2>4, <3>1
    <3>2. CASE i # Len(marks) + 1
      <4>1. i \in 1 .. Len(marks)
        BY <1>3, <2>4, <3>2
      <4> QED
        BY <1>3, <2>4, <4>1
    <3> QED
      BY <3>1, <3>2
  <2> QED
    BY <1>1, <1>3, <2>1, <2>4, <2>5, MarksKept
<1>5. ASSUME marks # <<>>, marks' = Front(marks)
      PROVE  /\ \E T : marks' \in Seq(T)
             /\ \A i \in 1 .. Len(marks') : sound(marks'[i])
             /\ sound(Last(marks))
  <2>1. /\ Len(marks) \in Nat \ {0} /\ Front(marks) \in Seq(S)
        /\ Len(Front(marks)) = Len(marks) - 1
        /\ \A i \in 1 .. Len(marks) - 1 : Front(marks)[i] = marks[i]
        /\ Last(marks) = marks[Len(marks)]
    BY <1>2, <1>5, FrontProperties
  <2>2. \A i \in 1 .. Len(marks) - 1 : i \in 1 .. Len(marks)
    BY <2>1
  <2>3. Len(marks) \in 1 .. Len(marks)
    BY <2>1
  <2> QED
    BY <1>3, <1>5, <2>1, <2>2, <2>3
<1>6. CASE Restore
  <2>1. /\ marks # <<>> /\ marks' = Front(marks)
        /\ pos' = Last(marks).pos /\ Token' = Last(marks).tok
        /\ errors' = Last(marks).errors
    BY <1>6 DEF Restore, Rewind, back
  <2>2. sound([pos |-> pos', tok |-> Token', errors |-> errors'])
    BY <1>5, <2>1 DEF sound
  <2> QED
    BY <1>1, <1>5, <2>1, <2>2, MarksKept
<1>7. CASE Forget
  <2>1. /\ marks # <<>> /\ marks' = Front(marks)
        /\ pos' = pos /\ Token' = Token /\ errors' = errors
    BY <1>7 DEF Forget
  <2> QED
    BY <1>1, <1>3, <1>5, <2>1, MarksKept
<1> QED
  BY <1>4, <1>6, <1>7

-----------------------------------------------------------------------------
\* The invariant.

LEMMA InvariantInitially == Init => ScannerInv
<1> SUFFICES ASSUME Init
             PROVE  ScannerInv
  OBVIOUS
<1>1. SourceOK /\ len \in Nat
  BY TextIsBytes, LenOfSource DEF Init
<1>2. Token \in Tokens /\ Token.Idx0 = 0
  BY <1>1, PositionsOf DEF Init, Tokens, Kinds
<1>3. marks \in Seq({}) /\ Len(marks) = 0
  BY DEF Init
<1>4. TypeInv
  BY <1>1, <1>2, <1>3, PositionsOf DEF Init, TypeInv
<1>5. ModeInv /\ MarksInv
  BY <1>3 DEF Init, ModeInv, MarksInv
<1> QED
  BY <1>4, <1>5 DEF ScannerInv

LEMMA InvariantPreserved == ScannerInv /\ [Next]_vars => ScannerInv'
<1> SUFFICES ASSUME ScannerInv, [Next]_vars
             PROVE  ScannerInv'
  OBVIOUS
<1>1. CASE ReadOn
  BY <1>1, SkipActions, CommentActions, TokenActions, NameActions, StringActions,
     TemplateActions, RegExpActions DEF ReadOn
<1>2. CASE Checkpoint \/ Restore \/ Forget
  BY <1>2, MarkActions
<1>3. CASE UNCHANGED vars
  <2>1. /\ source' = source /\ pos' = pos /\ Token' = Token /\ errors' = errors
        /\ mode' = mode /\ marks' = marks
    BY <1>3 DEF vars
  <2>2. ModeInv'
    BY <2>1 DEF ScannerInv, ModeInv, readUpTo, boundary, At, len
  <2> QED
    BY <2>1, <2>2, InvariantKept DEF ScannerInv, TypeInv
<1> QED
  BY <1>1, <1>2, <1>3 DEF Next

-----------------------------------------------------------------------------
\* Line breaks: what Token.OnNewLine says of the text between two tokens.

breakAt(p) ==
    \/ At(p) \in {"LF", "CR"}
    \/ p + 3 <= len /\ Bytes(p, p + 3) \in {LS, PS}

broken(from, to) == \E i \in from .. to - 1 : breakAt(i)

\* The flag of t is that of a token that begins at to, behind one that ends at from.
flagged(t, from, to) == from \in 0 .. to /\ (t.OnNewLine <=> broken(from, to))

\* The flag of the token t; a brace that is read again begins where it did.
placed(t, from) ==
    /\ flagged(t, from, t.Idx0)
    /\ t.Kind = "RightBrace" => t.Idx0 + 1 = t.Idx1

NewLineInv ==
    /\ WellFormed(source)
    /\ mode = "token" => placed(Token, begun)
    /\ mode \in {"next", "line", "block"} => flagged(Token, begun, pos)
    /\ mode \in {"name", "string", "template"} => flagged(Token, begun, Token.Idx0)
    /\ \A i \in 1 .. Len(marks) : placed(marks[i].tok, marks[i].begun)

LEMMA BrokenParts ==
  ASSUME NEW a \in Nat, NEW b \in Nat, NEW c \in Nat, a <= b, b <= c
  PROVE  broken(a, c) <=> broken(a, b) \/ broken(b, c)
<1>1. \A p : p \in a .. c - 1 <=> p \in a .. b - 1 \/ p \in b .. c - 1
  OBVIOUS
<1> QED
  BY <1>1 DEF broken

\* When a sequence is the one that is written down.
LEMMA TwoOrThree ==
  ASSUME NEW S, NEW s \in Seq(S), NEW x, NEW y, NEW z
  PROVE  /\ Len(s) = 3 => (s = <<x, y, z>> <=> s[1] = x /\ s[2] = y /\ s[3] = z)
         /\ Len(s) = 2 => (s = <<y, z>> <=> s[1] = y /\ s[2] = z)
<1> DEFINE T == S \cup {x, y, z}
<1>1. s \in Seq(T)
  BY ElementOfSeq, SeqMonotonic, S \subseteq T
<1>2. <<x, y, z>> \in Seq(T) /\ Len(<<x, y, z>>) = 3
  OBVIOUS
<1>3. <<y, z>> \in Seq(T) /\ Len(<<y, z>>) = 2
  OBVIOUS
<1> HIDE DEF T
<1>4. ASSUME Len(s) = 3, s[1] = x, s[2] = y, s[3] = z
      PROVE  s = <<x, y, z>>
  <2>1. \A i \in 1 .. Len(s) : s[i] = <<x, y, z>>[i]
    BY <1>4
  <2> QED
    BY <1>1, <1>2, <1>4, <2>1, SeqEqual
<1>5. ASSUME Len(s) = 2, s[1] = y, s[2] = z
      PROVE  s = <<y, z>>
  <2>1. \A i \in 1 .. Len(s) : s[i] = <<y, z>>[i]
    BY <1>5
  <2> QED
    BY <1>1, <1>3, <1>5, <2>1, SeqEqual
<1> QED
  BY <1>4, <1>5

\* The three bytes at p.
LEMMA ThreeBytes ==
  ASSUME SourceOK, NEW p \in Nat, p + 3 <= len, NEW x, NEW y, NEW z
  PROVE  Bytes(p, p + 3) = <<x, y, z>> <=>
             At(p) = x /\ At(p + 1) = y /\ At(p + 2) = z
<1> DEFINE t == SubSeq(source, p + 1, p + 3)
<1>1. len \in Nat /\ len = Len(source) /\ source \in Seq(ASCII \cup NonASCII)
  BY LenOfSource DEF SourceOK, len
<1>2. t \in Seq(ASCII \cup NonASCII) /\ Len(t) = 3
  BY <1>1
<1>3. t[1] = source[p + 1] /\ t[2] = source[p + 1 + 1] /\ t[3] = source[p + 2 + 1]
  BY <1>1
<1>4. t[1] = At(p) /\ t[2] = At(p + 1) /\ t[3] = At(p + 2)
  BY <1>3 DEF At
<1>5. Bytes(p, p + 3) = t
  BY DEF Bytes
<1> HIDE DEF t
<1> QED
  BY <1>2, <1>4, <1>5, TwoOrThree

\* The two bytes behind p, and the first byte of a separator before them.
LEMMA TwoBytesBehind ==
  ASSUME SourceOK, NEW p \in Nat, p + 3 <= len, NEW y, NEW z
  PROVE  <<"E2">> \o Bytes(p + 1, p + 3) = <<"E2", y, z>> <=>
             At(p + 1) = y /\ At(p + 2) = z
<1> DEFINE t == SubSeq(source, p + 2, p + 3)
           T == ASCII \cup NonASCII \cup {"E2"}
           h == <<"E2">>
           u == h \o t
<1>1. len \in Nat /\ len = Len(source) /\ source \in Seq(ASCII \cup NonASCII)
  BY LenOfSource DEF SourceOK, len
<1>2. t \in Seq(ASCII \cup NonASCII) /\ Len(t) = 2
  BY <1>1
<1>3. t[1] = source[p + 1 + 1] /\ t[2] = source[p + 2 + 1]
  BY <1>1
<1>4. t[1] = At(p + 1) /\ t[2] = At(p + 2)
  BY <1>3 DEF At
<1>5. h \o Bytes(p + 1, p + 3) = u
  <2>1. Bytes(p + 1, p + 3) = t
    BY DEF Bytes
  <2> QED
    BY <2>1
<1>6. Seq(ASCII \cup NonASCII) \subseteq Seq(T)
  BY SeqMonotonic, ASCII \cup NonASCII \subseteq T
<1>7. h[1] = "E2" /\ h \in Seq(T) /\ Len(h) = 1
  OBVIOUS
<1> HIDE DEF t, T
<1>8. t \in Seq(T)
  BY <1>2, <1>6
<1>9. u \in Seq(T) /\ Len(u) = 3 /\ u[1] = "E2" /\ u[2] = t[1] /\ u[3] = t[2]
  <2> HIDE DEF h
  <2>1. /\ u \in Seq(T) /\ Len(u) = 1 + 2
        /\ \A i \in 1 .. 1 + 2 : u[i] = IF i <= 1 THEN h[i] ELSE t[i - 1]
    <3>1. /\ h \o t \in Seq(T) /\ Len(h \o t) = Len(h) + Len(t)
          /\ \A i \in 1 .. Len(h) + Len(t) :
               (h \o t)[i] = IF i <= Len(h) THEN h[i] ELSE t[i - Len(h)]
      BY <1>7, <1>8, ConcatProperties
    <3> QED
      BY <1>2, <1>7, <3>1
  <2> HIDE DEF u
  <2> QED
    BY <1>7, <2>1
<1> HIDE DEF u
<1>10. u = <<"E2", y, z>> <=> u[1] = "E2" /\ u[2] = y /\ u[3] = z
  BY <1>9, TwoOrThree
<1> QED
  BY <1>4, <1>5, <1>9, <1>10

LEMMA SeparatorBytes ==
  ASSUME SourceOK, NEW p \in Nat, p + 3 <= len, At(p) = "E2", NEW y, NEW z
  PROVE  Bytes(p, p + 3) = <<"E2", y, z>> <=>
             <<"E2">> \o Bytes(p + 1, p + 3) = <<"E2", y, z>>
<1>1. Bytes(p, p + 3) = <<"E2", y, z>> <=>
        At(p) = "E2" /\ At(p + 1) = y /\ At(p + 2) = z
  BY ThreeBytes, ZenonT(40)
<1>2. <<"E2">> \o Bytes(p + 1, p + 3) = <<"E2", y, z>> <=>
        At(p + 1) = y /\ At(p + 2) = z
  BY TwoBytesBehind, Zenon
<1> QED
  BY <1>1, <1>2, Zenon

\* A byte that is no break: what begins a separator is its first byte.
LEMMA NoBreak ==
  ASSUME SourceOK, NEW p \in Nat, At(p) \notin {"LF", "CR", "E2"}
  PROVE  ~breakAt(p)
<1>1. p + 3 <= len =>
        \A y, z : Bytes(p, p + 3) = <<"E2", y, z>> => At(p) = "E2"
  <2> SUFFICES ASSUME p + 3 <= len, NEW y, NEW z
               PROVE  Bytes(p, p + 3) = <<"E2", y, z>> => At(p) = "E2"
    OBVIOUS
  <2>1. Bytes(p, p + 3) = <<"E2", y, z>> <=>
          At(p) = "E2" /\ At(p + 1) = y /\ At(p + 2) = z
    BY ThreeBytes, Zenon
  <2> QED
    BY <2>1, Zenon
<1>2. p + 3 <= len => Bytes(p, p + 3) \notin {LS, PS}
  BY <1>1 DEF LS, PS
<1> QED
  BY <1>2 DEF breakAt

LEMMA SeparatorBehind ==
  ASSUME SourceOK, WellFormed(source), NEW p \in 0 .. len - 1, At(p) = "E2"
  PROVE  /\ PeekTwoBytes(p + 1)
         /\ lineSeparatorBehind(p + 1) <=> breakAt(p)
         /\ ~breakAt(p + 1) /\ ~breakAt(p + 2)
<1>1. "E2" \in Lead3 /\ Width("E2") = 3 /\ len \in Nat
  BY SourceAssumption, LenOfSource DEF Width
<1>2. Complete(source, p)
  BY <1>1, LeadComplete
<1>3. p + 3 <= len /\ At(p + 1) \in Continuation /\ At(p + 2) \in Continuation
  BY <1>1, <1>2, CompleteBytes DEF At
<1>4. {"LF", "CR", "E2"} \cap Continuation = {}
  BY <1>1, SomeASCII, SourceAssumption DEF NonASCII
<1>5. ~breakAt(p + 1) /\ ~breakAt(p + 2)
  BY <1>3, <1>4, NoBreak
<1>6. PeekTwoBytes(p + 1)
  BY <1>1, <1>3 DEF PeekTwoBytes
<1>7. lineSeparatorBehind(p + 1) <=> breakAt(p)
  <2>1. At(p) \notin {"LF", "CR"} /\ p \in Nat
    BY <1>1
  <2>2. \A y, z : Bytes(p, p + 3) = <<"E2", y, z>> <=>
                   <<"E2">> \o Bytes(p + 1, p + 3) = <<"E2", y, z>>
    BY <1>3, <2>1, SeparatorBytes, Zenon
  <2>3. Bytes(p + 1, p + 1 + 2) = Bytes(p + 1, p + 3)
    BY <2>1 DEF Bytes
  <2>4. breakAt(p) <=> Bytes(p, p + 3) \in {LS, PS}
    BY <1>3, <2>1 DEF breakAt
  <2> QED
    BY <1>6, <2>2, <2>3, <2>4 DEF lineSeparatorBehind, LS, PS
<1> QED
  BY <1>5, <1>6, <1>7

\* A rune of several bytes is a line separator, or has no break in it.
LEMMA BreakInRune ==
  ASSUME SourceOK, WellFormed(source), NEW p \in 0 .. len - 1, At(p) \in Lead2 \cup Lead3 \cup Lead4
  PROVE  /\ AfterRune(p) \in p + 1 .. len
         /\ broken(p, AfterRune(p)) <=> RuneAt(p) \in {LS, PS}
<1> DEFINE w == Width(At(p))
<1>1. /\ len \in Nat /\ p \in Nat /\ At(p) \notin Continuation /\ At(p) \in NonASCII
      /\ At(p) \notin ASCII
  BY LenOfSource, SourceAssumption DEF NonASCII
<1>2. Complete(source, p) /\ w \in 2 .. 4
  BY LeadComplete, Widths
<1>3. RuneAt(p) = Bytes(p, p + w)
  BY <1>1, <1>2 DEF RuneAt
<1>4. p + w <= len /\ \A i \in 1 .. w - 1 : At(p + i) \in Continuation
  <2>1. \A i \in 1 .. w - 1 : p + i + 1 = p + 1 + i
    BY <1>1, <1>2
  <2> QED
    BY <1>2, <2>1, CompleteBytes DEF At
<1>5. source \in Seq(ASCII \cup NonASCII)
  BY DEF SourceOK
<1> HIDE DEF w
<1>6. Len(Bytes(p, p + w)) = w
  BY <1>1, <1>2, <1>4, <1>5 DEF Bytes, len
<1>7. AfterRune(p) = p + w
  BY <1>3, <1>6 DEF AfterRune
<1>8. \A i \in 1 .. w - 1 : ~breakAt(p + i)
  <2>1. {"LF", "CR", "E2"} \cap Continuation = {}
    BY SomeASCII, SourceAssumption DEF NonASCII
  <2> QED
    BY <1>1, <1>4, <2>1, NoBreak
<1>9. breakAt(p) <=> RuneAt(p) \in {LS, PS}
  <2>1. At(p) \notin {"LF", "CR"}
    BY <1>1, SomeASCII
  <2>2. CASE w = 3
    BY <1>3, <1>4, <2>1, <2>2 DEF breakAt
  <2>3. CASE w # 3
    <3>1. At(p) # "E2"
      BY <2>3, SourceAssumption DEF w, Width
    <3>2. ~breakAt(p)
      BY <1>1, <2>1, <3>1, NoBreak
    <3>3. Len(RuneAt(p)) # 3 /\ Len(LS) = 3 /\ Len(PS) = 3
      BY <1>3, <1>6, <2>3 DEF LS, PS
    <3> QED
      BY <3>2, <3>3
  <2> QED
    BY <2>2, <2>3
<1>10. broken(p, p + w) <=> breakAt(p)
  <2>1. \A q \in p .. (p + w) - 1 : q = p \/ \E i \in 1 .. w - 1 : q = p + i
    <3> SUFFICES ASSUME NEW q \in p .. (p + w) - 1, q # p
                 PROVE  \E i \in 1 .. w - 1 : q = p + i
      OBVIOUS
    <3>1. q - p \in 1 .. w - 1 /\ q = p + (q - p)
      BY <1>1, <1>2
    <3> QED
      BY <3>1
  <2>2. p \in p .. (p + w) - 1
    BY <1>1, <1>2
  <2>3. \A q \in p .. (p + w) - 1 : q # p => ~breakAt(q)
    BY <1>8, <2>1
  <2>4. \A e : broken(p, e) <=> \E q \in p .. e - 1 : breakAt(q)
    BY DEF broken
  <2>5. broken(p, p + w) <=> \E q \in p .. (p + w) - 1 : breakAt(q)
    BY <2>4, Zenon
  <2> QED
    BY <2>2, <2>3, <2>5, Zenon
<1> QED
  BY <1>1, <1>2, <1>4, <1>7, <1>9, <1>10

\* The bytes that a loop passes over.
LEMMA PassedOver ==
  ASSUME SourceOK, NEW p \in 0 .. len, NEW B
  PROVE  /\ \A q \in p .. FirstOf(p, B) - 1 : At(q) \notin B
         /\ \A q \in p .. AfterAll(p, B) - 1 : At(q) \in B
<1>1. len \in Nat /\ p \in Nat
  BY LenOfSource
<1>2. ASSUME NEW S, S \subseteq p .. len, len \in S, NEW q \in p .. Min(S) - 1
      PROVE  q \notin S /\ q \in p .. len /\ q # len
  <2>1. S \subseteq Nat /\ S # {}
    BY <1>1, <1>2
  <2>2. Min(S) \in S /\ \A y \in S : Min(S) <= y
    BY <2>1, MinProperties
  <2>3. Min(S) \in p .. len /\ q < Min(S)
    <3>1. Min(S) \in p .. len
      BY <1>2, <2>2
    <3> HIDE DEF Min
    <3> QED
      BY <1>1, <1>2, <3>1
  <2>4. q \notin S
    BY <1>2, <2>2, <2>3
  <2> QED
    BY <1>1, <1>2, <2>3, <2>4
<1>3. ASSUME NEW q \in p .. FirstOf(p, B) - 1
      PROVE  At(q) \notin B
  <2> DEFINE S == {r \in {p} \cup p .. len : r >= len \/ At(r) \in B}
  <2>1. S \subseteq p .. len /\ len \in S /\ q \in p .. Min(S) - 1
    BY <1>1, <1>3 DEF FirstOf
  <2>2. q \notin S /\ q \in p .. len /\ q # len
    <3> HIDE DEF S
    <3> QED
      BY <1>2, <2>1
  <2> QED
    BY <2>2
<1>4. ASSUME NEW q \in p .. AfterAll(p, B) - 1
      PROVE  At(q) \in B
  <2> DEFINE S == {r \in {p} \cup p .. len : r >= len \/ At(r) \notin B}
  <2>1. S \subseteq p .. len /\ len \in S /\ q \in p .. Min(S) - 1
    BY <1>1, <1>4 DEF AfterAll
  <2>2. q \notin S /\ q \in p .. len /\ q # len
    <3> HIDE DEF S
    <3> QED
      BY <1>2, <2>1
  <2> QED
    BY <2>2
<1> QED
  BY <1>3, <1>4

-----------------------------------------------------------------------------
\* The turns of the loops and what they pass over.

\* A well-formed text is not left.
LEMMA Within ==
  ASSUME ScannerInv, NewLineInv
  PROVE  /\ WellFormed(source) /\ pos \in 0 .. len /\ pos \in pos .. len
         /\ Positions = 0 .. len
<1>1. WellFormed(source)
  BY DEF NewLineInv
<1>2. Positions = 0 .. len
  BY <1>1, Here, PositionsOf
<1> QED
  BY <1>1, <1>2, Here

\* What an action has to show that leaves the text and the marks alone.
LEMMA FlagsKept ==
  ASSUME NewLineInv, source' = source, marks' = marks,
         mode' = "token" => placed(Token', begun'),
         mode' \in {"next", "line", "block"} => flagged(Token', begun', pos'),
         mode' \in {"name", "string", "template"} =>
             flagged(Token', begun', Token'.Idx0)
  PROVE  NewLineInv'
BY DEF NewLineInv, placed, flagged, broken, breakAt, At, Bytes, len

\* The flag behind what has been passed over.
LEMMA FlagMoves ==
  ASSUME NEW t, NEW u, NEW from, NEW p \in Nat, NEW q \in Nat, p <= q,
         flagged(t, from, p),
         u.OnNewLine <=> t.OnNewLine \/ broken(p, q)
  PROVE  flagged(u, from, q)
<1>1. from \in 0 .. p /\ from \in Nat /\ from <= p /\ from \in 0 .. q
  BY DEF flagged
<1>2. broken(from, q) <=> broken(from, p) \/ broken(p, q)
  BY <1>1, BrokenParts
<1> QED
  BY <1>1, <1>2 DEF flagged

LEMMA FlagProduced ==
  ASSUME ScannerInv, NewLineInv, mode = "next", NEW kind, NEW p, NEW errs,
         produce(kind, p, errs), kind = "RightBrace" => p = pos + 1
  PROVE  NewLineInv'
<1>1. /\ Token' = [Token EXCEPT !.Kind = kind, !.Idx0 = pos, !.Idx1 = p]
      /\ source' = source /\ marks' = marks /\ mode' = "token" /\ begun' = begun
  BY DEF produce, client
<1>2. /\ Token'.OnNewLine = Token.OnNewLine /\ Token'.Kind = kind
      /\ Token'.Idx0 = pos /\ Token'.Idx1 = p
  BY <1>1, Here DEF Tokens
<1>3. flagged(Token, begun, pos)
  BY DEF NewLineInv
<1>4. placed(Token', begun')
  BY <1>1, <1>2, <1>3 DEF placed, flagged
<1> QED
  BY <1>1, <1>4, FlagsKept

LEMMA FlagSkipped ==
  ASSUME ScannerInv, NewLineInv, mode = "next", NEW p \in pos .. len,
         NEW lineBreak \in BOOLEAN, skip(p, lineBreak),
         lineBreak <=> broken(pos, p)
  PROVE  NewLineInv'
<1>1. /\ Token' = [Token EXCEPT !.Idx0 = pos, !.OnNewLine = @ \/ lineBreak]
      /\ source' = source /\ marks' = marks /\ mode' = "next" /\ begun' = begun
      /\ pos' = p
  BY DEF skip, client
<1>2. Token'.OnNewLine <=> Token.OnNewLine \/ lineBreak
  BY <1>1, Here DEF Tokens
<1>3. flagged(Token, begun, pos) /\ pos \in Nat /\ p \in Nat /\ pos <= p
  BY Here DEF NewLineInv
<1>4. flagged(Token', begun, p)
  BY <1>2, <1>3, FlagMoves
<1> QED
  BY <1>1, <1>4, FlagsKept

LEMMA FlagEntered ==
  ASSUME ScannerInv, NewLineInv, mode = "next", NEW p, NEW loop, NEW soFar,
         enter(loop, p, soFar),
         \/ loop \in {"name", "string"}
         \/ loop \in {"line", "block"} /\ p \in pos .. len /\ ~broken(pos, p)
  PROVE  NewLineInv'
<1>1. /\ Token' = [Token EXCEPT !.Idx0 = pos]
      /\ source' = source /\ marks' = marks /\ mode' = loop /\ begun' = begun
      /\ pos' = p
  BY DEF enter, client
<1>2. Token'.OnNewLine = Token.OnNewLine /\ Token'.Idx0 = pos
  BY <1>1, Here DEF Tokens
<1>3. flagged(Token, begun, pos) /\ pos \in Nat
  BY Here DEF NewLineInv
<1>4. flagged(Token', begun, pos)
  BY <1>2, <1>3 DEF flagged
<1>5. ASSUME p \in pos .. len, ~broken(pos, p)
      PROVE  flagged(Token', begun, p)
  <2>1. p \in Nat /\ pos <= p
    BY <1>5, Here
  <2> QED
    BY <1>2, <1>3, <1>5, <2>1, FlagMoves
<1> QED
  BY <1>1, <1>2, <1>4, <1>5, FlagsKept

LEMMA FlagCompleted ==
  ASSUME ScannerInv, NewLineInv, mode \in {"name", "string", "template"},
         NEW kind, kind # "RightBrace", NEW p, NEW s, NEW errs,
         complete(kind, p, s, errs)
  PROVE  NewLineInv'
<1>1. /\ Token' = [Token EXCEPT !.Kind = kind, !.HasEscape = TRUE, !.Idx1 = p]
      /\ source' = source /\ marks' = marks /\ mode' = "token" /\ begun' = begun
  BY DEF complete, client
<1>2. /\ Token'.OnNewLine = Token.OnNewLine /\ Token'.Kind = kind
      /\ Token'.Idx0 = Token.Idx0
  BY <1>1, Here DEF Tokens
<1>3. placed(Token', begun')
  BY <1>1, <1>2 DEF NewLineInv, placed, flagged
<1> QED
  BY <1>1, <1>3, FlagsKept

LEMMA FlagGivenUp ==
  ASSUME ScannerInv, NewLineInv, mode \in {"name", "string", "template"},
         NEW p, NEW errs, giveUp(p, errs)
  PROVE  NewLineInv'
<1>1. /\ Token' = [Token EXCEPT !.Kind = "Undetermined", !.Idx1 = p]
      /\ source' = source /\ marks' = marks /\ mode' = "token" /\ begun' = begun
  BY DEF giveUp, client
<1>2. /\ Token'.OnNewLine = Token.OnNewLine /\ Token'.Kind = "Undetermined"
      /\ Token'.Idx0 = Token.Idx0
  BY <1>1, Here DEF Tokens
<1>3. placed(Token', begun')
  BY <1>1, <1>2 DEF NewLineInv, placed, flagged
<1> QED
  BY <1>1, <1>3, FlagsKept

LEMMA FlagGoneRound ==
  ASSUME ScannerInv, NewLineInv, NEW p, NEW s, NEW errs, goRound(p, s, errs),
         \/ mode \in {"name", "string", "template"}
         \/ mode \in {"line", "block"} /\ p \in pos .. len /\ ~broken(pos, p)
  PROVE  NewLineInv'
<1>1. /\ Token' = Token /\ source' = source /\ marks' = marks /\ mode' = mode
      /\ begun' = begun /\ pos' = p
  BY DEF goRound, client
<1>2. p \in pos .. len => pos \in Nat /\ p \in Nat /\ pos <= p
  BY Here
<1>3. mode \in {"line", "block"} => flagged(Token, begun, p)
  BY <1>2, FlagMoves DEF NewLineInv
<1> QED
  BY <1>1, <1>3, FlagsKept DEF NewLineInv

LEMMA FlagCommentEnded ==
  ASSUME ScannerInv, NewLineInv, mode \in {"line", "block"},
         NEW p \in pos .. len, NEW lineBreak \in BOOLEAN, endComment(p, lineBreak),
         lineBreak <=> broken(pos, p)
  PROVE  NewLineInv'
<1>1. /\ Token' = [Token EXCEPT !.OnNewLine = @ \/ lineBreak]
      /\ source' = source /\ marks' = marks /\ mode' = "next" /\ begun' = begun
      /\ pos' = p
  BY DEF endComment, client
<1>2. Token'.OnNewLine <=> Token.OnNewLine \/ lineBreak
  BY <1>1, Here DEF Tokens
<1>3. flagged(Token, begun, pos) /\ pos \in Nat /\ p \in Nat /\ pos <= p
  BY Here DEF NewLineInv
<1>4. flagged(Token', begun, p)
  BY <1>2, <1>3, FlagMoves
<1> QED
  BY <1>1, <1>4, FlagsKept

LEMMA FlagOfPart ==
  ASSUME ScannerInv, NewLineInv, NEW begin \in 0 .. len - 1,
         ReadTemplateLiteral(begin), flagged(Token, begun, begin)
  PROVE  NewLineInv'
<1> DEFINE p == templateLiteralEnd(begin + 1)
           part == [Token EXCEPT !.Idx0 = begin]
<1>1. source' = source /\ marks' = marks /\ begun' = begun
  BY DEF ReadTemplateLiteral, client
<1>2. \/ mode' = "token" /\ Token' = [part EXCEPT !.Kind = "Undetermined", !.Idx1 = p]
      \/ mode' = "template" /\ Token' = part
      \/ /\ mode' = "token"
         /\ Token' = [part EXCEPT !.Kind = partKind(begin, p), !.Idx1 = afterPart(p)]
  BY DEF ReadTemplateLiteral
<1>3. partKind(begin, p) # "RightBrace"
  BY DEF partKind
<1>4. /\ part.OnNewLine = Token.OnNewLine /\ part.Idx0 = begin /\ part \in Tokens
  BY Here DEF Tokens
<1> HIDE DEF p, part
<1>5. /\ Token'.OnNewLine = Token.OnNewLine /\ Token'.Idx0 = begin
      /\ mode' = "token" => Token'.Kind # "RightBrace"
  BY <1>2, <1>3, <1>4 DEF Tokens
<1>6. flagged(Token', begun', Token'.Idx0)
  BY <1>1, <1>5 DEF flagged
<1> QED
  BY <1>1, <1>2, <1>5, <1>6, FlagsKept DEF placed

-----------------------------------------------------------------------------
\* The actions.

\* One byte, or several of them, without a break.
LEMMA NotBroken ==
  ASSUME SourceOK, NEW p \in Nat, NEW q \in Nat,
         \A i \in p .. q - 1 : At(i) \notin {"LF", "CR", "E2"}
  PROVE  ~broken(p, q)
BY NoBreak DEF broken

LEMMA FlagSkips ==
  ASSUME ScannerInv, NewLineInv, WhiteSpace \/ LineBreak \/ UnicodeSpace
  PROVE  NewLineInv'
<1>1. ASSUME NEW B, PeekIn(pos, B), NEW C
      PROVE  /\ AfterAll(pos + 1, C) \in pos .. len /\ pos < AfterAll(pos + 1, C)
             /\ \A i \in pos .. AfterAll(pos + 1, C) - 1 : At(i) \in B \cup C
  <2>1. pos + 1 \in 0 .. len /\ At(pos) \in B /\ len \in Nat /\ pos \in Nat
    BY <1>1, Here
  <2>2. AfterAll(pos + 1, C) \in pos + 1 .. len
    BY <2>1, Here, LoopsEndInText
  <2>3. \A i \in pos + 1 .. AfterAll(pos + 1, C) - 1 : At(i) \in C
    BY <2>1, Here, PassedOver
  <2> QED
    BY <2>1, <2>2, <2>3
<1>2. CASE /\ next({"SP", "TAB"})
           /\ skip(AfterAll(pos + 1, {"SP", "TAB"}), FALSE)
  <2> DEFINE q == AfterAll(pos + 1, {"SP", "TAB"})
  <2>1. q \in pos .. len /\ \A i \in pos .. q - 1 : At(i) \in {"SP", "TAB"}
    BY <1>1, <1>2 DEF next
  <2> HIDE DEF q
  <2>2. ~broken(pos, q)
    BY <2>1, Here, NotBroken
  <2> QED
    BY <1>2, <2>1, <2>2, FlagSkipped DEF next, q
<1>3. CASE next({"VT", "FF"}) /\ skip(pos + 1, FALSE)
  <2>1. pos + 1 \in pos .. len /\ At(pos) \in {"VT", "FF"} /\ mode = "next"
    BY <1>3, Here DEF next
  <2>2. \A i \in pos .. (pos + 1) - 1 : At(i) \notin {"LF", "CR", "E2"}
    BY <2>1, Here
  <2>3. ~broken(pos, pos + 1)
    BY <2>1, <2>2, Here, NotBroken
  <2> QED
    BY <1>3, <2>1, <2>3, FlagSkipped
<1>4. CASE LineBreak
  <2> DEFINE q == AfterAll(pos + 1, {"SP", "TAB", "CR", "LF"})
  <2>1. /\ PeekIn(pos, {"LF", "CR"}) /\ mode = "next" /\ skip(q, TRUE)
        /\ q \in pos .. len /\ pos < q
    BY <1>1, <1>4 DEF LineBreak, next
  <2> HIDE DEF q
  <2>2. breakAt(pos) /\ pos \in pos .. q - 1
    BY <2>1, Here DEF breakAt
  <2>3. broken(pos, q)
    BY <2>2 DEF broken
  <2> QED
    BY <2>1, <2>3, FlagSkipped
<1>5. CASE UnicodeSpace
  <2>1. ASSUME NEW R, NEW b \in BOOLEAN, otherRune(R), skip(AfterRune(pos), b),
               b <=> RuneAt(pos) \in {LS, PS}
        PROVE  NewLineInv'
    <3>1. /\ mode = "next" /\ pos \in 0 .. len - 1
          /\ At(pos) \in Lead2 \cup Lead3 \cup Lead4
      BY <2>1, Here DEF otherRune, next
    <3>2. /\ AfterRune(pos) \in pos .. len
          /\ broken(pos, AfterRune(pos)) <=> RuneAt(pos) \in {LS, PS}
      BY <3>1, Here, Within, BreakInRune
    <3> QED
      BY <2>1, <3>1, <3>2, FlagSkipped
  <2>2. \A R : otherRune(R) => RuneAt(pos) \in R
    BY DEF otherRune
  <2>3. CASE otherRune({LS, PS}) /\ skip(AfterRune(pos), TRUE)
    BY <2>1, <2>2, <2>3
  <2>4. CASE otherRune(Space \ {LS, PS}) /\ skip(AfterRune(pos), FALSE)
    <3>1. RuneAt(pos) \notin {LS, PS}
      BY <2>2, <2>4
    <3> QED
      BY <2>1, <2>4, <3>1
  <2> QED
    BY <1>5, <2>3, <2>4 DEF UnicodeSpace
<1> QED
  BY <1>2, <1>3, <1>4, <1>5 DEF WhiteSpace

\* What a loop over a comment passes over until it comes to a byte of B.
LEMMA FlagToByte ==
  ASSUME ScannerInv, NewLineInv, NEW B, {"LF", "CR", "E2"} \subseteq B,
         NEW p, p = FirstOf(pos, B)
  PROVE  /\ p \in pos .. len /\ p \in Nat /\ len \in Nat
         /\ p < len => At(p) \in B
         /\ ~broken(pos, p)
         /\ \A q \in p .. len : broken(pos, q) <=> broken(p, q)
<1>1. p \in pos .. len /\ (p < len => At(p) \in B)
  BY Here, Within, LoopsEndInText
<1>2. \A i \in pos .. p - 1 : At(i) \notin {"LF", "CR", "E2"}
  BY Here, Within, PassedOver
<1>3. ~broken(pos, p)
  BY <1>1, <1>2, Here, NotBroken
<1>4. \A q \in p .. len : broken(pos, q) <=> broken(p, q)
  BY <1>1, <1>3, Here, BrokenParts
<1> QED
  BY <1>1, <1>3, <1>4, Here

\* Behind the byte that could begin a separator, or the separator.
LEMMA FlagBehind ==
  ASSUME SourceOK, WellFormed(source), NEW p \in 0 .. len - 1, At(p) = "E2"
  PROVE  /\ PeekTwoBytes(p + 1) /\ p + 3 \in p .. len
         /\ lineSeparatorBehind(p + 1) <=> broken(p, p + 3)
<1>1. /\ PeekTwoBytes(p + 1)
      /\ lineSeparatorBehind(p + 1) <=> breakAt(p)
      /\ ~breakAt(p + 1) /\ ~breakAt(p + 2)
  BY SeparatorBehind
<1>2. p + 3 \in p .. len
  BY <1>1, LenOfSource DEF PeekTwoBytes
<1>3. broken(p, p + 3) <=> breakAt(p)
  <2>1. \A i \in p .. (p + 3) - 1 : i = p \/ i = p + 1 \/ i = p + 2
    OBVIOUS
  <2>2. p \in p .. (p + 3) - 1
    OBVIOUS
  <2>3. broken(p, p + 3) <=> \E i \in p .. (p + 3) - 1 : breakAt(i)
    BY DEF broken
  <2> QED
    BY <1>1, <2>1, <2>2, <2>3, Zenon
<1> QED
  BY <1>1, <1>2, <1>3

LEMMA FlagComments ==
  ASSUME ScannerInv, NewLineInv,
         LineComment \/ BlockComment \/ skipSingleLineComment \/ skipMultiLineComment
  PROVE  NewLineInv'
<1>1. CASE LineComment \/ BlockComment
  <2>1. PICK loop \in {"line", "block"} :
          /\ mode = "next" /\ enter(loop, pos + 2, <<>>)
          /\ PeekIn(pos, {"/", "#"}) /\ PeekIn(pos + 1, {"/", "!", "*"})
    BY <1>1 DEF LineComment, BlockComment, next, PeekIn
  <2>2. pos + 2 \in pos .. len /\ pos \in Nat
    BY <2>1, Here
  <2>3. \A i \in pos .. (pos + 2) - 1 : At(i) \notin {"LF", "CR", "E2"}
    <3>1. \A i \in pos .. (pos + 2) - 1 : i = pos \/ i = pos + 1
      BY <2>2
    <3> QED
      BY <2>1, <3>1 DEF PeekIn
  <2>4. ~broken(pos, pos + 2)
    BY <2>2, <2>3, Here, NotBroken
  <2> QED
    BY <2>1, <2>2, <2>4, FlagEntered
<1>2. CASE skipSingleLineComment
  <2> DEFINE p == FirstOf(pos, {"CR", "LF", "E2"})
             q == IF PeekTwoBytes(p + 1) THEN p + 3 ELSE p + 1
  <2>1. mode = "line"
    BY <1>2 DEF skipSingleLineComment
  <2>2. \/ endComment(p, FALSE)
        \/ /\ PeekIn(p, {"E2"}) /\ ~lineSeparatorBehind(p + 1)
           /\ goRound(q, str, {})
    BY <1>2 DEF skipSingleLineComment
  <2>3. /\ p \in pos .. len /\ p \in Nat /\ len \in Nat
        /\ ~broken(pos, p)
        /\ \A x \in p .. len : broken(pos, x) <=> broken(p, x)
    BY FlagToByte
  <2> HIDE DEF p
  <2>4. CASE endComment(p, FALSE)
    BY <2>1, <2>3, <2>4, FlagCommentEnded
  <2>5. CASE PeekIn(p, {"E2"}) /\ ~lineSeparatorBehind(p + 1) /\ goRound(q, str, {})
    <3>1. p \in 0 .. len - 1 /\ At(p) = "E2"
      BY <2>3, <2>5 DEF PeekIn
    <3>2. q = p + 3 /\ q \in p .. len /\ ~broken(p, q)
      BY <2>5, <3>1, Here, Within, FlagBehind
    <3> HIDE DEF q
    <3>3. q \in pos .. len /\ ~broken(pos, q)
      BY <2>3, <3>2, Here
    <3> QED
      BY <2>1, <2>5, <3>3, FlagGoneRound
  <2> QED
    BY <2>2, <2>4, <2>5
<1>3. CASE skipMultiLineComment
  <2> DEFINE p == FirstOf(pos, {"*", "CR", "LF", "E2"})
             q == IF PeekTwoBytes(p + 1) THEN p + 3 ELSE p + 1
  <2>1. mode = "block"
    BY <1>3 DEF skipMultiLineComment
  <2>2. /\ p \in pos .. len /\ p \in Nat /\ len \in Nat
        /\ p < len => At(p) \in {"*", "CR", "LF", "E2"}
        /\ ~broken(pos, p)
        /\ \A x \in p .. len : broken(pos, x) <=> broken(p, x)
    BY FlagToByte
  <2>3. CASE p = len
    <3>1. /\ pos' = p /\ Token' = Token /\ source' = source /\ marks' = marks
          /\ mode' = "next" /\ begun' = begun
      BY <1>3, <2>3 DEF skipMultiLineComment, client
    <3> HIDE DEF p
    <3>2. flagged(Token, begun, p)
      BY <2>1, <2>2, Here, FlagMoves DEF NewLineInv
    <3> QED
      BY <3>1, <3>2, FlagsKept
  <2>4. CASE p # len
    <3>1. p \in 0 .. len - 1 /\ PeekIn(p, {At(p)})
      <4> HIDE DEF p
      <4> QED
        BY <2>2, <2>4 DEF PeekIn
    <3>2. CASE At(p) = "*"
      <4>1. \/ PeekIn(p + 1, {"/"}) /\ endComment(p + 2, FALSE)
            \/ goRound(p + 1, str, {})
        BY <1>3, <2>4, <3>2 DEF skipMultiLineComment
      <4> HIDE DEF p
      <4>2. ~broken(p, p + 1) /\ p + 1 \in p .. len
        <5>1. \A i \in p .. (p + 1) - 1 : At(i) \notin {"LF", "CR", "E2"}
          BY <2>2, <3>2
        <5> QED
          BY <2>2, <3>1, <5>1, Here, NotBroken
      <4>3. CASE PeekIn(p + 1, {"/"}) /\ endComment(p + 2, FALSE)
        <5>1. p + 2 \in p .. len /\ p + 2 \in pos .. len /\ At(p + 1) = "/"
          BY <2>2, <4>3, Here DEF PeekIn
        <5>2. \A i \in p .. (p + 2) - 1 : At(i) \notin {"LF", "CR", "E2"}
          <6>1. \A i \in p .. (p + 2) - 1 : i = p \/ i = p + 1
            BY <2>2
          <6> QED
            BY <3>2, <5>1, <6>1
        <5>3. ~broken(p, p + 2)
          BY <2>2, <5>2, Here, NotBroken
        <5> QED
          BY <2>1, <2>2, <4>3, <5>1, <5>3, FlagCommentEnded
      <4>4. CASE goRound(p + 1, str, {})
        <5>1. p + 1 \in pos .. len /\ ~broken(pos, p + 1)
          BY <2>2, <4>2, Here
        <5> QED
          BY <2>1, <4>4, <5>1, FlagGoneRound
      <4> QED
        BY <4>1, <4>3, <4>4
    <3>3. CASE At(p) = "E2"
      <4>1. \/ /\ lineSeparatorBehind(p + 1)
               /\ pos' = p + 3
               /\ Token' = [Token EXCEPT !.OnNewLine = TRUE]
               /\ UNCHANGED <<source, EscapedStr, errors, mode, str, regexp,
                              begun, client>>
            \/ ~lineSeparatorBehind(p + 1) /\ goRound(q, str, {})
        BY <1>3, <2>4, <3>3 DEF skipMultiLineComment
      <4> HIDE DEF p
      <4>2. /\ q = p + 3 /\ q \in p .. len
            /\ lineSeparatorBehind(p + 1) <=> broken(p, q)
        BY <3>1, <3>3, Here, Within, FlagBehind
      <4> HIDE DEF q
      <4>3. q \in pos .. len /\ (lineSeparatorBehind(p + 1) <=> broken(pos, q))
        BY <2>2, <4>2, Here
      <4>4. CASE /\ lineSeparatorBehind(p + 1)
                 /\ pos' = p + 3
                 /\ Token' = [Token EXCEPT !.OnNewLine = TRUE]
                 /\ UNCHANGED <<source, EscapedStr, errors, mode, str, regexp,
                                begun, client>>
        <5>1. Token'.OnNewLine = TRUE
          BY <4>4, Here DEF Tokens
        <5>2. /\ source' = source /\ marks' = marks /\ mode' = mode
              /\ begun' = begun /\ pos' = q
          BY <4>2, <4>4 DEF client
        <5>3. flagged(Token, begun, pos) /\ pos \in Nat /\ q \in Nat /\ pos <= q
          BY <2>1, <4>3, Here DEF NewLineInv
        <5>4. flagged(Token', begun, q)
          BY <4>3, <4>4, <5>1, <5>3, FlagMoves
        <5> QED
          BY <2>1, <5>2, <5>4, FlagsKept
      <4>5. CASE ~lineSeparatorBehind(p + 1) /\ goRound(q, str, {})
        BY <2>1, <4>3, <4>5, FlagGoneRound
      <4> QED
        BY <4>1, <4>4, <4>5
    <3>4. CASE At(p) \in {"CR", "LF"}
      <4> DEFINE r == afterClose(p + 1)
      <4>1. endComment(r, TRUE)
        BY <1>3, <2>4, <3>4 DEF skipMultiLineComment
      <4> HIDE DEF p
      <4>2. p + 1 \in 0 .. len
        BY <2>2, <3>1
      <4>3. r \in p + 1 .. len
        BY <4>2, Here, LoopsEndInText
      <4> HIDE DEF r
      <4>4. breakAt(p) /\ p \in p .. r - 1 /\ r \in p .. len /\ r \in pos .. len
        BY <2>2, <3>4, <4>3, Here DEF breakAt
      <4>5. broken(p, r)
        BY <4>4 DEF broken
      <4> QED
        BY <2>1, <2>2, <4>1, <4>4, <4>5, FlagCommentEnded
    <3> QED
      BY <2>2, <2>4, <3>2, <3>3, <3>4
  <2> QED
    BY <2>3, <2>4
<1> QED
  BY <1>1, <1>2, <1>3

LEMMA FlagTokens ==
  ASSUME ScannerInv, NewLineInv,
         EndOfFile \/ Operator \/ NumberLiteral \/ InvalidCharacter
  PROVE  NewLineInv'
<1>1. CASE EndOfFile
  BY <1>1, FlagProduced DEF EndOfFile
<1>2. CASE Operator
  <2>1. mode = "next"
    BY <1>2 DEF Operator
  <2>2. PICK o \in operatorsAt(pos) : produce(operatorKind(o), pos + Len(o), {})
    BY <1>2 DEF Operator
  <2>3. operatorKind(o) = "RightBrace" => Len(o) = 1
    BY DEF operatorKind
  <2>4. operatorKind(o) = "RightBrace" => pos + Len(o) = pos + 1
    BY <2>3
  <2> QED
    BY <2>1, <2>2, <2>4, FlagProduced
<1>3. CASE NumberLiteral
  <2>1. /\ mode = "next" /\ pos \in 0 .. len - 1
        /\ produce(number(pos).kind, number(pos).at, number(pos).errs)
    BY <1>3, Here DEF NumberLiteral, next
  <2>2. number(pos).kind # "RightBrace"
    BY <2>1, Here, NumberInText DEF Readings
  <2> QED
    BY <2>1, <2>2, FlagProduced
<1>4. CASE InvalidCharacter
  BY <1>4, FlagProduced DEF InvalidCharacter, next
<1> QED
  BY <1>1, <1>2, <1>3, <1>4

LEMMA FlagNames ==
  ASSUME ScannerInv, NewLineInv, Name \/ scanIdentifierOnBackslash
  PROVE  NewLineInv'
<1>1. CASE Name
  <2> DEFINE p == IF At(pos) = "\\" THEN pos
                  ELSE AfterRunes(AfterRune(pos), isIdentifierPart)
             kind == IF At(pos) = "#" THEN "PrivateIdentifier" ELSE "Identifier"
  <2>1. \/ PeekIn(p, {"\\"}) /\ enter("name", p, Bytes(pos, p))
        \/ produce(kind, p, {})
    BY <1>1 DEF Name
  <2>2. mode = "next" /\ kind # "RightBrace"
    BY <1>1 DEF Name
  <2> HIDE DEF kind
  <2>3. CASE produce(kind, p, {})
    <3> HIDE DEF p
    <3> QED
      BY <2>2, <2>3, FlagProduced
  <2>4. CASE enter("name", p, Bytes(pos, p))
    <3> HIDE DEF p
    <3> QED
      BY <2>2, <2>4, FlagEntered
  <2> QED
    BY <2>1, <2>3, <2>4
<1>2. CASE scanIdentifierOnBackslash
  <2> DEFINE e == identifierUnicodeEscapeSequence(pos + 1, pos = Token.Idx0)
             p == AfterRunes(e.at, isIdentifierPart)
             s == str \o e.out \o Bytes(e.at, p)
             kind == IF At(Token.Idx0) = "#" THEN "PrivateIdentifier"
                                             ELSE "Identifier"
  <2>1. mode = "name" /\ kind # "RightBrace"
    BY <1>2 DEF scanIdentifierOnBackslash
  <2>2. \/ goRound(p, s, e.errs)
        \/ complete(kind, p, s, e.errs)
    BY <1>2 DEF scanIdentifierOnBackslash
  <2> HIDE DEF e, p, s, kind
  <2> QED
    BY <2>1, <2>2, FlagGoneRound, FlagCompleted
<1> QED
  BY <1>1, <1>2

LEMMA FlagStrings ==
  ASSUME ScannerInv, NewLineInv, StringLiteral \/ scanStringLiteralEscaped
  PROVE  NewLineInv'
<1>1. CASE StringLiteral
  <2> DEFINE p == FirstOf(pos + 1, {At(pos), "CR", "LF", "\\"})
  <2>1. \/ enter("string", p, Bytes(pos + 1, p))
        \/ produce("String", p + 1, {})
        \/ produce("Undetermined", p, {error("unterminated", pos, p)})
    BY <1>1 DEF StringLiteral
  <2> HIDE DEF p
  <2> QED
    BY <1>1, <2>1, FlagProduced, FlagEntered DEF StringLiteral, next
<1>2. CASE scanStringLiteralEscaped
  <2> DEFINE delim == At(Token.Idx0)
             e == readStringEscapeSequence(pos + 1, FALSE)
             errs == e.errs \cup (IF e.isValid THEN {}
                                  ELSE {error("escape", pos, e.at)})
             p == FirstOf(e.at, {delim, "CR", "LF", "\\"})
             s == str \o e.out \o Bytes(e.at, p)
             last == errs \cup {error("unterminated", Token.Idx0, p)}
  <2>1. \/ goRound(p, s, errs)
        \/ complete("String", p + 1, s, errs)
        \/ giveUp(p, last)
    BY <1>2 DEF scanStringLiteralEscaped
  <2>2. mode = "string"
    BY <1>2 DEF scanStringLiteralEscaped
  <2> HIDE DEF e, p, s, errs, last
  <2> QED
    BY <2>1, <2>2, FlagGoneRound, FlagCompleted, FlagGivenUp
<1> QED
  BY <1>1, <1>2

LEMMA FlagTemplates ==
  ASSUME ScannerInv, NewLineInv,
         TemplateLiteral \/ templateLiteralEscaped \/ NextTemplatePart
  PROVE  NewLineInv'
<1>1. CASE TemplateLiteral
  BY <1>1, Here, FlagOfPart DEF TemplateLiteral, next, NewLineInv
<1>2. CASE NextTemplatePart
  <2>1. /\ mode = "token" /\ Token.Kind = "RightBrace"
        /\ ReadTemplateLiteral(pos - 1)
    BY <1>2 DEF NextTemplatePart
  <2>2. Token.Idx1 = pos /\ Token.Idx0 + 1 = Token.Idx1
    BY <2>1 DEF ScannerInv, ModeInv, readUpTo, NewLineInv, placed
  <2>3. pos - 1 \in 0 .. len - 1 /\ Token.Idx0 = pos - 1
    BY <2>2, Here, Within
  <2>4. flagged(Token, begun, pos - 1)
    BY <2>1, <2>3 DEF NewLineInv, placed
  <2> QED
    BY <2>1, <2>3, <2>4, FlagOfPart
<1>3. CASE templateLiteralEscaped
  <2> DEFINE e == IF At(pos) = "CR" THEN carriageReturn(pos + 1)
                  ELSE readStringEscapeSequence(pos + 1, TRUE)
             p == templateLiteralEnd(e.at)
             s == str \o e.out \o Bytes(e.at, p)
             last == e.errs \cup {error("unterminated", Token.Idx0, p)}
             kind == partKind(Token.Idx0, p)
  <2>1. \/ goRound(p, s, e.errs)
        \/ complete("Undetermined", p, s, last)
        \/ complete(kind, afterPart(p), s, e.errs)
    BY <1>3 DEF templateLiteralEscaped
  <2>2. mode = "template" /\ kind # "RightBrace"
    BY <1>3 DEF templateLiteralEscaped, partKind
  <2> HIDE DEF e, p, s, last, kind
  <2> QED
    BY <2>1, <2>2, FlagGoneRound, FlagCompleted
<1> QED
  BY <1>1, <1>2, <1>3

\* A call of Next forgets the line breaks before it.
LEMMA FlagNext ==
  ASSUME ScannerInv, NewLineInv, nextToken, source' = source, marks' = marks,
         begun' = pos', pos' \in Nat
  PROVE  NewLineInv'
<1>1. Token' = [Token EXCEPT !.OnNewLine = FALSE, !.HasEscape = FALSE]
      /\ mode' = "next"
  BY DEF nextToken
<1>2. Token'.OnNewLine = FALSE
  BY <1>1, Here DEF Tokens
<1>3. ~broken(pos', pos') /\ pos' \in 0 .. pos'
  <2>1. \A p \in Nat : ~broken(p, p) /\ p \in 0 .. p
    BY DEF broken
  <2> QED
    BY <2>1
<1>4. flagged(Token', begun', pos')
  BY <1>2, <1>3 DEF flagged
<1> QED
  BY <1>1, <1>4, FlagsKept

LEMMA FlagCalls ==
  ASSUME ScannerInv, NewLineInv, NextToken \/ ParseRegExp \/ regExpRune
  PROVE  NewLineInv'
<1>1. CASE NextToken
  BY <1>1, Here, FlagNext DEF NextToken
<1>2. CASE ParseRegExp
  BY <1>2, FlagsKept DEF ParseRegExp, client
<1>3. CASE regExpRune
  <2>1. ASSUME NEW p \in pos .. len, NEW errs, endRegExp(p, errs)
        PROVE  NewLineInv'
    <3> DEFINE q == AfterAll(p, asciiContinue)
    <3>1. pos' = q /\ begun' = q /\ nextToken /\ source' = source /\ marks' = marks
      BY <2>1 DEF endRegExp, client
    <3>2. p \in 0 .. len
      BY Here
    <3>3. q \in p .. len
      BY <3>2, Here, LoopsEndInText
    <3> HIDE DEF q
    <3>4. q \in Nat
      BY <3>2, <3>3
    <3> QED
      BY <3>1, <3>4, FlagNext
  <2>2. \/ endRegExp(pos, {error("unterminated", Token.Idx0, pos)})
        \/ /\ ~(pos >= len)
           /\ \E errs : endRegExp(AfterRune(pos), errs)
        \/ /\ Token' = Token /\ source' = source /\ marks' = marks
           /\ mode' = "regexp"
    BY <1>3 DEF regExpRune, client
  <2>3. CASE endRegExp(pos, {error("unterminated", Token.Idx0, pos)})
    BY <2>1, <2>3, Within
  <2>4. CASE ~(pos >= len) /\ \E errs : endRegExp(AfterRune(pos), errs)
    <3>1. pos \in 0 .. len - 1 /\ boundary(pos)
      BY <1>3, <2>4, Here DEF regExpRune, ScannerInv, ModeInv
    <3>2. AfterRune(pos) \in Positions /\ pos < AfterRune(pos)
      BY <3>1, Here, NextRuneInText
    <3>3. AfterRune(pos) \in pos .. len
      BY <3>2, Here, Within
    <3> QED
      BY <2>1, <2>4, <3>3
  <2>5. CASE /\ Token' = Token /\ source' = source /\ marks' = marks
             /\ mode' = "regexp"
    BY <2>5, FlagsKept
  <2> QED
    BY <2>2, <2>3, <2>4, <2>5
<1> QED
  BY <1>1, <1>2, <1>3

LEMMA FlagMarks ==
  ASSUME ScannerInv, NewLineInv, Checkpoint \/ Restore \/ Forget
  PROVE  NewLineInv'
<1>1. source' = source /\ mode = "token" /\ mode' = "token"
  BY DEF Checkpoint, Restore, Forget
<1>2. PICK S : marks \in Seq(S)
  BY DEF ScannerInv, TypeInv
<1>3. /\ Len(marks) \in Nat
      /\ placed(Token, begun)
      /\ \A i \in 1 .. Len(marks) : placed(marks[i].tok, marks[i].begun)
  BY <1>1, <1>2, LenProperties DEF NewLineInv
<1>4. ASSUME placed(Token', begun'),
             \A i \in 1 .. Len(marks') : placed(marks'[i].tok, marks'[i].begun)
      PROVE  NewLineInv'
  BY <1>1, <1>4 DEF NewLineInv, placed, flagged, broken, breakAt, At, Bytes, len
<1>5. CASE Checkpoint
  <2> DEFINE c == [pos |-> pos, tok |-> Token, escapedStr |-> EscapedStr,
                   errors |-> errors, begun |-> begun, open |-> open]
  <2>1. marks' = Append(marks, c) /\ Token' = Token /\ begun' = begun
    BY <1>5 DEF Checkpoint
  <2>2. c.tok = Token /\ c.begun = begun
    OBVIOUS
  <2> HIDE DEF c
  <2>3. marks \in Seq(S \cup {c})
    BY <1>2, SeqMonotonic
  <2>4. /\ Len(marks') = Len(marks) + 1
        /\ \A i \in 1 .. Len(marks) : marks'[i] = marks[i]
        /\ marks'[Len(marks) + 1] = c
    BY <2>1, <2>3, AppendProperties
  <2>5. \A i \in 1 .. Len(marks') : i \in 1 .. Len(marks) \/ i = Len(marks) + 1
    BY <1>3, <2>4
  <2> QED
    BY <1>3, <1>4, <2>1, <2>2, <2>4, <2>5
<1>6. ASSUME marks # <<>>
      PROVE  /\ Last(marks) = marks[Len(marks)] /\ Len(marks) \in 1 .. Len(marks)
             /\ \A i \in 1 .. Len(Front(marks)) :
                  i \in 1 .. Len(marks) /\ Front(marks)[i] = marks[i]
  BY <1>2, <1>6, FrontProperties
<1>7. CASE Restore
  <2>1. /\ marks # <<>> /\ marks' = Front(marks)
        /\ Token' = Last(marks).tok /\ begun' = Last(marks).begun
    BY <1>7 DEF Restore, Rewind, back
  <2> QED
    BY <1>3, <1>4, <1>6, <2>1
<1>8. CASE Forget
  <2>1. marks # <<>> /\ marks' = Front(marks) /\ Token' = Token /\ begun' = begun
    BY <1>8 DEF Forget
  <2> QED
    BY <1>3, <1>4, <1>6, <2>1
<1> QED
  BY <1>5, <1>7, <1>8

LEMMA FlagsInitially == Init /\ WellFormed(source) => NewLineInv
<1> SUFFICES ASSUME Init, WellFormed(source)
             PROVE  NewLineInv
  OBVIOUS
<1>1. Token.OnNewLine = FALSE /\ mode = "next" /\ pos = 0 /\ begun = 0
      /\ Len(marks) = 0
  BY DEF Init
<1> QED
  BY <1>1 DEF NewLineInv, flagged, broken

LEMMA FlagsPreserved == ScannerInv /\ NewLineInv /\ [Next]_vars => NewLineInv'
<1> SUFFICES ASSUME ScannerInv, NewLineInv, [Next]_vars
             PROVE  NewLineInv'
  OBVIOUS
<1>1. CASE ReadOn
  BY <1>1, FlagSkips, FlagComments, FlagTokens, FlagNames, FlagStrings,
     FlagTemplates, FlagCalls DEF ReadOn
<1>2. CASE Checkpoint \/ Restore \/ Forget
  BY <1>2, FlagMarks
<1>3. CASE UNCHANGED vars
  <2>1. /\ source' = source /\ pos' = pos /\ Token' = Token /\ mode' = mode
        /\ marks' = marks /\ begun' = begun
    BY <1>3 DEF vars, client
  <2> QED
    BY <2>1, FlagsKept DEF NewLineInv
<1> QED
  BY <1>1, <1>2, <1>3 DEF Next

\* No action changes the text.
LEMMA TextKept ==
  ASSUME ScannerInv, [Next]_vars
  PROVE  source' = source
<1>1. CASE WhiteSpace \/ LineBreak \/ UnicodeSpace \/ LineComment \/ BlockComment
  BY <1>1 DEF WhiteSpace, LineBreak, UnicodeSpace, LineComment, BlockComment,
              skip, enter
<1>2. CASE skipSingleLineComment \/ skipMultiLineComment
  <2>1. CASE skipSingleLineComment
    BY <2>1 DEF skipSingleLineComment, endComment, goRound
  <2>2. CASE skipMultiLineComment
    <3> DEFINE p == FirstOf(pos, {"*", "CR", "LF", "E2"})
    <3>1. CASE p = len
      BY <2>2, <3>1 DEF skipMultiLineComment
    <3>2. CASE p # len /\ At(p) = "*"
      BY <2>2, <3>2 DEF skipMultiLineComment, endComment, goRound
    <3>3. CASE p # len /\ At(p) = "E2"
      BY <2>2, <3>3 DEF skipMultiLineComment, goRound
    <3>4. CASE p # len /\ At(p) \in {"CR", "LF"}
      BY <2>2, <3>4 DEF skipMultiLineComment, endComment
    <3>5. p # len => At(p) \in {"*", "CR", "LF", "E2"}
      <4>1. pos \in 0 .. len
        BY <2>2, Here DEF skipMultiLineComment
      <4>2. /\ p \in pos .. len /\ len \in Nat
            /\ p < len => At(p) \in {"*", "CR", "LF", "E2"}
        BY <4>1, Here, LoopsEndInText
      <4> HIDE DEF p
      <4> QED
        BY <4>1, <4>2
    <3> QED
      BY <3>1, <3>2, <3>3, <3>4, <3>5
  <2> QED
    BY <1>2, <2>1, <2>2
<1>3. CASE EndOfFile \/ Operator \/ NumberLiteral \/ InvalidCharacter
  BY <1>3 DEF EndOfFile, Operator, NumberLiteral, InvalidCharacter, produce
<1>4. CASE Name \/ scanIdentifierOnBackslash
  BY <1>4 DEF Name, scanIdentifierOnBackslash, enter, produce, goRound, complete
<1>5. CASE StringLiteral \/ scanStringLiteralEscaped
  BY <1>5 DEF StringLiteral, scanStringLiteralEscaped, enter, produce, goRound,
              complete, giveUp
<1>6. CASE TemplateLiteral \/ templateLiteralEscaped \/ NextTemplatePart
  BY <1>6 DEF TemplateLiteral, templateLiteralEscaped, NextTemplatePart,
              ReadTemplateLiteral, goRound, complete
<1>7. CASE NextToken \/ ParseRegExp \/ regExpRune
  BY <1>7 DEF NextToken, ParseRegExp, regExpRune, endRegExp
<1>8. CASE Checkpoint \/ Restore \/ Forget
  BY <1>8 DEF Checkpoint, Restore, Forget
<1>9. CASE UNCHANGED vars
  BY <1>9 DEF vars
<1> QED
  BY <1>1, <1>2, <1>3, <1>4, <1>5, <1>6, <1>7, <1>8, <1>9 DEF Next, ReadOn

-----------------------------------------------------------------------------
\* The theorems.

\* Whatever bytes it is given, the scanner keeps its position, every token, every
\* mark and every error within the text (source.go, error.go), or less than three
\* bytes behind it, where the text ends in bytes that NextRune took for the
\* replacement character.
THEOREM ScannerStaysInSource == Spec => []InSource
<1>1. ScannerInv => InSource
  <2> SUFFICES ASSUME ScannerInv
               PROVE  InSource
    OBVIOUS
  <2>1. \A e \in errors : e.start \in 0 .. e.end /\ e.end \in Positions
    BY Here DEF ScannerInv, TypeInv, Errors
  <2>2. \A i \in 1 .. Len(marks) : marks[i].pos \in Positions
    BY DEF ScannerInv, MarksInv, sound
  <2>3. mode = "token" => Token.Idx1 = pos
    BY DEF ScannerInv, ModeInv, readUpTo
  <2> QED
    BY <2>1, <2>2, <2>3, Here DEF InSource
<1> QED
  BY <1>1, InvariantInitially, InvariantPreserved, PTL DEF Spec

\* What the comment in table.go says of invalid bytes holds for every text in
\* UTF-8: the scanner does not run past the end of the source.
THEOREM WellFormedIsNotLeft == Spec => [](WellFormed(source) => WithinText)
<1>1. ScannerInv => (WellFormed(source) => WithinText)
  <2> SUFFICES ASSUME ScannerInv, WellFormed(source)
               PROVE  WithinText
    OBVIOUS
  <2>1. pos \in 0 .. len
    BY Here, PositionsOf
  <2> QED
    BY <2>1, Here DEF WithinText
<1> QED
  BY <1>1, InvariantInitially, InvariantPreserved, PTL DEF Spec

\* Every call of Next takes at least one byte, or finds the end of the text
\* (table.go): no text makes the parser spin.
THEOREM ScannerAdvances == Spec => []TokensAdvance
<1>1. ScannerInv => TokensAdvance
  BY DEF ScannerInv, ModeInv, readUpTo, TokensAdvance
<1> QED
  BY <1>1, InvariantInitially, InvariantPreserved, PTL DEF Spec

\* Token.OnNewLine is set exactly if a line terminator is between a token and
\* the one before, in white space or in a comment of either kind, and also when
\* the token was read again (whitespace.go, comment.go, table.go): what makes a
\* semicolon optional is never missed and never made up.
THEOREM NewLinesAreSeen == Spec => []NewLineFlag
<1> DEFINE Flags == WellFormed(source) => NewLineInv
<1>1. Flags => NewLineFlag
  BY DEF NewLineInv, placed, flagged, broken, breakAt, NewLineFlag
<1>2. Init => ScannerInv /\ Flags
  BY InvariantInitially, FlagsInitially
<1>3. ScannerInv /\ Flags /\ [Next]_vars => ScannerInv' /\ Flags'
  <2>1. ScannerInv /\ [Next]_vars /\ WellFormed(source)' => WellFormed(source)
    BY TextKept
  <2> QED
    BY <2>1, InvariantPreserved, FlagsPreserved
<1> QED
  BY <1>1, <1>2, <1>3, PTL DEF Spec
=============================================================================
