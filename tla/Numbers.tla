------------------------------ MODULE Numbers ------------------------------
(***************************************************************************)
(* How the scanner reads a number (numeric.go) and an escape sequence      *)
(* (unicode.go). The functions of numeric.go hand the scanner on to each   *)
(* other; here each maps a reading, how far it has come and what it found, *)
(* to the next one.                                                        *)
(***************************************************************************)
EXTENDS Source

error(what, from, to) == [what |-> what, start |-> from, end |-> to]

reading(p) == [at |-> p, kind |-> "Number", errs |-> {}]
onTo(r, p) == [r EXCEPT !.at = p]
failed(r)  == [r EXCEPT !.kind = "Undetermined"]

\* unexpectedErr: it passes over one byte, be it a part of a rune.
unexpectedErr(r) ==
    IF r.at >= len
    THEN [r EXCEPT !.errs = @ \cup {error("end", r.at, r.at)}]
    ELSE [r EXCEPT !.at = @ + 1,
                   !.errs = @ \cup {error("character", r.at, r.at + 1)}]

\* The end of the digits of D at p, with single separators between digits.
afterDigits(p, D) ==
    Min({q \in p .. len : /\ ~PeekIn(q, D)
                          /\ ~(PeekIn(q, {"LOWLINE"}) /\ PeekIn(q + 1, D))})

decimalDigitsAfterFirstDigit(r) ==
    LET q == afterDigits(r.at, Decimal)
    IN IF PeekIn(q, {"LOWLINE"}) THEN unexpectedErr(onTo(r, q + 1)) ELSE onTo(r, q)

readDecimalDigits(r) ==
    IF PeekIn(r.at, Decimal)
    THEN decimalDigitsAfterFirstDigit(onTo(r, r.at + 1))
    ELSE unexpectedErr(r)

readDecExp(r) ==
    readDecimalDigits(IF PeekIn(r.at, {"-", "+"}) THEN onTo(r, r.at + 1) ELSE r)

optionalExp(r) ==
    IF PeekIn(r.at, {"e", "E"}) THEN readDecExp(onTo(r, r.at + 1)) ELSE r

optionalDecDigits(r) ==
    IF PeekIn(r.at, Decimal)
    THEN decimalDigitsAfterFirstDigit(onTo(r, r.at + 1))
    ELSE r

\* A letter or digit that follows a number belongs to no token.
checkAfterNumericLiteral(r) ==
    IF \/ PeekIn(r.at, asciiContinue)
       \/ PeekIn(r.at, NonASCII) /\ RuneAt(r.at) \in isIdentifierStart
    THEN LET q == AfterRunes(AfterRune(r.at), isIdentifierStart)
         IN [at |-> q, kind |-> "Undetermined",
             errs |-> r.errs \cup {error("numberEnd", r.at, q)}]
    ELSE r

decLitAfterDecPoint(r) ==
    checkAfterNumericLiteral(optionalExp(readDecimalDigits(r)))

decLitAfterDecPointAfterDigits(r) ==
    checkAfterNumericLiteral(optionalExp(optionalDecDigits(r)))

decimalLiteralAfterFirstDigit(r) ==
    LET d == decimalDigitsAfterFirstDigit(r)
    IN IF PeekIn(d.at, {"."})
       THEN decLitAfterDecPointAfterDigits(onTo(d, d.at + 1))
       ELSE IF PeekIn(d.at, {"n"})
            THEN checkAfterNumericLiteral(onTo(d, d.at + 1))
            ELSE checkAfterNumericLiteral(optionalExp(d))

HexDigit == Decimal \cup {"a", "b", "c", "d", "e", "f",
                          "A", "B", "C", "D", "E", "F"}

digitsOf(base) == CASE base = 2 -> {"0", "1"}
                    [] base = 8 -> {"0", "1", "2", "3", "4", "5", "6", "7"}
                    [] base = 16 -> HexDigit

readNonDecimal(r, base) ==
    LET p == r.at + 1
        q == afterDigits(p + 1, digitsOf(base))
    IN IF ~PeekIn(p, digitsOf(base)) THEN failed(unexpectedErr(onTo(r, p)))
       ELSE IF PeekIn(q, {"LOWLINE"}) THEN failed(unexpectedErr(onTo(r, q + 1)))
       ELSE checkAfterNumericLiteral(
                onTo(r, IF PeekIn(q, {"n"}) THEN q + 1 ELSE q))

readLegacyOctal(r) ==
    LET q == AfterAll(r.at, Decimal)
    IN IF PeekIn(q, {"."})
       THEN decLitAfterDecPointAfterDigits(onTo(r, q + 1))
       ELSE checkAfterNumericLiteral(
                IF PeekIn(q, {"e"}) THEN readDecExp(onTo(r, q + 1))
                ELSE onTo(r, q))

\* An exponent after the zero is the one case in which nothing is checked.
readZero(r) ==
    IF PeekIn(r.at, {"b", "B"}) THEN readNonDecimal(r, 2)
    ELSE IF PeekIn(r.at, {"o", "O"}) THEN readNonDecimal(r, 8)
    ELSE IF PeekIn(r.at, {"x", "X"}) THEN readNonDecimal(r, 16)
    ELSE IF PeekIn(r.at, {"e", "E"}) THEN readDecExp(onTo(r, r.at + 1))
    ELSE IF PeekIn(r.at, {"."})
         THEN decLitAfterDecPointAfterDigits(onTo(r, r.at + 1))
    ELSE IF PeekIn(r.at, {"n"})
         THEN checkAfterNumericLiteral(onTo(r, r.at + 1))
    ELSE readLegacyOctal(r)

\* The number whose first byte is at p.
number(p) ==
    IF At(p) = "." THEN decLitAfterDecPoint(reading(p + 1))
    ELSE IF At(p) = "0" THEN readZero(reading(p + 1))
    ELSE decimalLiteralAfterFirstDigit(reading(p + 1))

-----------------------------------------------------------------------------

HexDigits == <<{"0"}, {"1"}, {"2"}, {"3"}, {"4"}, {"5"}, {"6"}, {"7"}, {"8"},
               {"9"}, {"a", "A"}, {"b", "B"}, {"c", "C"}, {"d", "D"},
               {"e", "E"}, {"f", "F"}>>

hexValue(d) == CHOOSE v \in 0 .. 15 : d \in HexDigits[v + 1]

\* The number that the hex digits from p to q write.
hexNumber(p, q) ==
    LET upTo[i \in p .. q] ==
            IF i = p THEN 0 ELSE 16 * upTo[i - 1] + hexValue(At(i - 1))
    IN upTo[q]

MaxRune == 1114111
IsSurrogate == 55296 .. 57343

\* WriteRune: a surrogate is no character.
WriteRune(v) == IF v \in IsSurrogate THEN RuneError ELSE Encode(v)

\* The digits of a run of hex digits at p that hexDigit takes, at most n.
afterHexDigits(p, n) == Min({p + n, AfterAll(p, HexDigit)})

\* hexFourDigits: the value -1 stands for the digits that are not there.
hexFourDigits(p) ==
    LET q == afterHexDigits(p, 4)
    IN [at |-> q, value |-> IF q = p + 4 THEN hexNumber(p, q) ELSE -1]

DecodeRune(high, low) ==
    IF high < 56320 /\ low >= 56320
    THEN (high - 55296) * 1024 + (low - 56320) + 65536
    ELSE 65533

surrogatePair(p) ==
    LET high == hexFourDigits(p)
        low  == hexFourDigits(high.at + 2)
    IN IF \/ high.value \notin IsSurrogate
          \/ ~PeekTwoBytes(high.at)
          \/ Bytes(high.at, high.at + 2) # <<"\\", "u">>
       THEN high
       ELSE IF low.value \notin IsSurrogate THEN [low EXCEPT !.value = -1]
       ELSE [low EXCEPT !.value = DecodeRune(high.value, low.value)]

\* unicodeCodePoint after its opening brace: the digit that makes the value too
\* large is the last one read.
unicodeCodePoint(p) ==
    LET q == AfterAll(p, HexDigit)
        over == {r \in p + 2 .. q : hexNumber(p, r) > MaxRune}
    IN IF q = p THEN [at |-> p, value |-> -1]
       ELSE IF over # {} THEN [at |-> Min(over), value |-> -1]
       ELSE IF PeekIn(q, {"RBRACE"}) THEN [at |-> q + 1, value |-> hexNumber(p, q)]
       ELSE [at |-> q, value |-> -1]

\* The code point that follows the letter u.
unicodeEscape(p) ==
    IF PeekIn(p, {"LBRACE"}) THEN unicodeCodePoint(p + 1) ELSE surrogatePair(p)

\* An escape sequence: where it ends, what it stands for, and its complaints.
escaped(p, out) == [at |-> p, out |-> out, isValid |-> TRUE, errs |-> {}]
invalid(p)      == [at |-> p, out |-> <<>>, isValid |-> FALSE, errs |-> {}]

identifierUnicodeEscapeSequence(p, checkIdentifierStart) ==
    LET bad(q) == [invalid(q) EXCEPT !.errs = {error("escape", p, q)}]
        v == unicodeEscape(p + 1)
    IN IF ~PeekIn(p, {"u"}) THEN bad(p)
       ELSE IF \/ v.value = -1
               \/ WriteRune(v.value) = <<"\\">>
               \/ WriteRune(v.value) \notin (IF checkIdentifierStart
                                             THEN isIdentifierStart
                                             ELSE isIdentifierPart)
            THEN bad(v.at)
            ELSE escaped(v.at, WriteRune(v.value))

SingleEscape == [b |-> "BS", f |-> "FF", n |-> "LF", r |-> "CR", t |-> "TAB",
                 v |-> "VT"]

\* A legacy octal escape is read as a number is, and stands for nothing.
octalEscape(p) ==
    [escaped(readLegacyOctal(reading(p)).at, <<>>)
       EXCEPT !.errs = readLegacyOctal(reading(p)).errs]

readStringEscapeSequence(p, inTemplate) ==
    LET chr == RuneAt(p)
        q == AfterRune(p)
        x == afterHexDigits(q, 2)
        u == unicodeEscape(q)
    IN IF p >= len THEN invalid(p)
       ELSE CASE chr \in {<<"LF">>, LS, PS} -> escaped(q, <<>>)
              [] chr = <<"CR">> ->
                   escaped(IF PeekIn(q, {"LF"}) THEN q + 1 ELSE q, <<>>)
              [] At(p) \in DOMAIN SingleEscape ->
                   escaped(q, <<SingleEscape[At(p)]>>)
              [] At(p) = "x" -> IF x = q + 2
                                THEN escaped(x, WriteRune(hexNumber(q, x)))
                                ELSE invalid(x)
              [] At(p) = "u" -> IF u.value = -1 THEN invalid(u.at)
                                ELSE escaped(u.at, WriteRune(u.value))
              [] At(p) = "0" -> IF ~PeekIn(q, Decimal)
                                THEN escaped(q, Encode(0))
                                ELSE IF inTemplate THEN invalid(q + 1)
                                ELSE octalEscape(q)
              [] At(p) \in {"1", "2", "3", "4", "5", "6", "7"} ->
                   IF inTemplate THEN invalid(q) ELSE octalEscape(q)
              [] At(p) \in {"8", "9"} /\ inTemplate -> invalid(q)
              [] OTHER -> escaped(q, chr)
=============================================================================
