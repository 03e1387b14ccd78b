----------------------------- MODULE MCScanner -----------------------------
(***************************************************************************)
(* Model checking of Scanner: all short texts over alphabets that bring    *)
(* the loops of one part of the scanner together, and longer texts for the *)
(* escapes and templates. What a token means is compared with the lexical  *)
(* grammar of ECMAScript, written down here independently of the scanner.  *)
(***************************************************************************)
EXTENDS Scanner

NonBreaking == <<"C2", "A0">>
Letter2     == <<"C3", "A9">>
Symbol3     == <<"E2", "82", "AC">>

MCLead2 == {"C2", "C3"}
MCLead3 == {"E2", "EF"}
MCLead4 == {"F0"}
MCContinuation == {"80", "82", "90", "A0", "A8", "A9", "AC", "BD", "BF"}
MCStray == {"C0"}
MCRunes == {NonBreaking, Letter2, Symbol3, LS, PS, RuneError,
            <<"F0", "90", "80", "80">>}
MCControl == {"NUL", "BS"}
MCIDStart == {Letter2}
MCIDContinue == {Letter2}
MCSpace == {NonBreaking, LS, PS}

Printable == [c \in {0, 1, 10, 16, 17, 92, 97} |->
                CASE c = 0 -> "NUL" [] c = 10 -> "LF" [] c = 92 -> "\\"
                  [] c = 97 -> "a" [] OTHER -> "BS"]
MCEncode(n) == IF n \in DOMAIN Printable THEN <<Printable[n]>> ELSE <<ToString(n)>>

\* The texts of at most n runes from R, after the beginning b.
TextsOver(b, R, n) ==
    {b \o FlattenSeq(t) : t \in UNION {[1 .. k -> R] : k \in 0 .. n}}

Bytewise(B) == {<<c>> : c \in B}

Comments  == TextsOver(<<>>, Bytewise({"/", "*", "LF", "a"}) \cup {LS}, 5)
Spaces    == TextsOver(<<>>, Bytewise({"SP", "FF", "CR", "a", "."}), 3)
Strings   == TextsOver(<<"SQ">>, Bytewise({"SQ", "\\", "CR", "LF", "x", "0"}), 4)
Templates == TextsOver(<<"BQ">>, Bytewise({"BQ", "$", "LBRACE", "\\", "CR"}), 5)
Numerals  == TextsOver(<<"0">>, Bytewise({"1", ".", "LOWLINE", "e", "x"})
                                  \cup {Symbol3}, 4)
Names     == TextsOver(<<>>, Bytewise({"a", "\\", "#", "!", "@"})
                               \cup {Letter2, NonBreaking}, 3)
RegExps   == TextsOver(<<"/">>, Bytewise({"/", "[", "]", "\\", "g"})
                                  \cup {Symbol3}, 4)

quoted == <<"SQ", "\\", "n", "SQ">>

\* Tokens with escapes, between tokens without, and templates in templates.
Marked == TextsOver(<<"(">>, {quoted, <<"SQ", "\\", "t", "SQ">>, <<"LF">>,
                              <<"a">>, <<"BQ", "CR", "BQ">>}, 3)
Nested == TextsOver(<<>>, {<<"BQ", "a", "$", "LBRACE">>, <<"LBRACE">>,
                           <<"RBRACE", "\\", "t">>, <<"BQ">>, quoted}, 4)

u0061 == <<"\\", "u", "0", "0", "6", "1">>
ub61  == <<"\\", "u", "LBRACE", "6", "1", "RBRACE">>
uD83D == <<"\\", "u", "D", "8", "3", "D">>
uDE00 == <<"\\", "u", "D", "E", "0", "0">>

Escapes == TextsOver(<<"a", "BQ">>, {u0061, ub61, <<"\\", "x", "6", "1">>, uD83D,
                                     uDE00, <<"BQ">>, <<"\\">>, <<"a">>}, 3)
     \cup TextsOver(<<"a">>, {u0061, ub61, <<"a">>, <<"\\", "u">>, Letter2}, 3)

\* Bytes that are no runes, or not the whole of one, wherever runes are read.
IllFormed == TextsOver(<<>>, Bytewise({"/", "SQ", "BQ", "\\", "E2", "80", "C0"}), 4)
        \cup TextsOver(<<"/", "*">>, Bytewise({"*", "/", "LF", "E2", "80", "A8"}), 4)
        \cup TextsOver(<<"1">>, Bytewise({"LOWLINE", ".", "C3", "A9"}), 4)
        \cup TextsOver(<<"a">>, Bytewise({"C3", "A9", "F0", "90", "80", "\\"}), 4)

MCTexts == Comments \cup Spaces \cup Strings \cup Templates \cup Numerals
             \cup Names \cup RegExps \cup IllFormed \cup Marked \cup Nested \cup Escapes

-----------------------------------------------------------------------------
\* The lexical grammar: what may stand between two tokens.

terminatorAt(p) ==
    \/ PeekIn(p, {"LF", "CR"})
    \/ p + 3 <= len /\ Bytes(p, p + 3) \in {LS, PS}

\* From p to q is a single white space, line terminator or comment.
InputElement(p, q) ==
    LET s == Bytes(p, q)
    IN \/ s \in {<<c>> : c \in Blank} \cup Space
       \/ /\ \/ IsPrefix(<<"/", "/">>, s)
             \/ p = 0 /\ IsPrefix(<<"#", "!">>, s)
          /\ \A i \in p .. q - 1 : ~terminatorAt(i)
          /\ q = len \/ terminatorAt(q)
       \/ /\ IsPrefix(<<"/", "*">>, s)
          /\ LET ends == {i \in p + 4 .. len : Bytes(i - 2, i) = <<"*", "/">>}
             IN q = (IF ends = {} THEN len ELSE Min(ends))

RECURSIVE IsTrivia(_, _)
IsTrivia(p, q) ==
    p = q \/ \E m \in p + 1 .. q : InputElement(p, m) /\ IsTrivia(m, q)

\* Nothing but white space and comments is passed over between two tokens, and
\* no comment ends too early or too late.
NothingSkipped ==
    mode = "token" /\ WellFormed(source) => IsTrivia(begun, Token.Idx0)

-----------------------------------------------------------------------------
\* The lexical grammar: the value of a string, a template part or a name.

hexOf(s) ==
    LET v[i \in 0 .. Len(s)] == IF i = 0 THEN 0 ELSE 16 * v[i - 1] + hexValue(s[i])
    IN v[Len(s)]

\* The first n of s are hex digits.
hexes(s, n) == Len(s) >= n /\ \A i \in 1 .. n : s[i] \in HexDigit

\* The escape sequences of the grammar that s begins with, without those that
\* only Annex B has: the length and the value, at most one of them.
unicodeEscapes(s) ==
    {<<6, MCEncode(hexOf(SubSeq(s, 3, 6)))>> : i \in {i \in {1} :
        /\ Len(s) >= 6 /\ s[2] = "u" /\ hexes(SubSeq(s, 3, 6), 4)
        /\ hexOf(SubSeq(s, 3, 6)) \notin IsSurrogate}}
    \cup
    {<<n, MCEncode(hexOf(SubSeq(s, 4, n - 1)))>> : n \in {n \in 5 .. Len(s) :
        /\ SubSeq(s, 2, 3) = <<"u", "LBRACE">> /\ s[n] = "RBRACE"
        /\ hexes(SubSeq(s, 4, n - 1), n - 4)
        /\ hexOf(SubSeq(s, 4, n - 1)) <= MaxRune}}
    \cup
    {<<12, MCEncode(DecodeRune(hexOf(SubSeq(s, 3, 6)), hexOf(SubSeq(s, 9, 12))))>> :
        i \in {i \in {1} :
            /\ Len(s) >= 12 /\ s[2] = "u" /\ SubSeq(s, 7, 8) = <<"\\", "u">>
            /\ hexes(SubSeq(s, 3, 6), 4) /\ hexes(SubSeq(s, 9, 12), 4)
            /\ hexOf(SubSeq(s, 3, 6)) \in 55296 .. 56319
            /\ hexOf(SubSeq(s, 9, 12)) \in 56320 .. 57343}}

stringEscapes(s) ==
    LET c == s[2]
        behind3 == Tail(Tail(s))
    IN IF c \in {"u", "x"} THEN unicodeEscapes(s) \cup
            {<<4, MCEncode(hexOf(SubSeq(s, 3, 4)))>> : i \in
                {i \in {1} : c = "x" /\ hexes(behind3, 2)}}
       ELSE IF c \in Decimal \ {"8", "9"}
       THEN {<<2, <<"NUL">>>> : i \in {i \in {1} :
                c = "0" /\ ~(behind3 # <<>> /\ behind3[1] \in Decimal)}}
       ELSE IF c = "CR" /\ behind3 # <<>> /\ behind3[1] = "LF" THEN {<<3, <<>>>>}
       ELSE IF c \in {"CR", "LF"} THEN {<<2, <<>>>>}
       ELSE IF IsPrefix(LS, Tail(s)) \/ IsPrefix(PS, Tail(s)) THEN {<<4, <<>>>>}
       ELSE IF c \in DOMAIN SingleEscape THEN {<<2, <<SingleEscape[c]>>>>}
       ELSE {<<2, <<c>>>>}

isTemplate(kind) == kind \notin {"String", "Identifier"}

\* What s begins with, and its value.
heads(s, kind) ==
    IF s[1] = "\\"
    THEN IF Len(s) = 1 THEN {}
         ELSE IF kind = "Identifier"
         THEN {e \in unicodeEscapes(s) : e[2] \in isIdentifierPart}
         ELSE IF isTemplate(kind) /\ s[2] \in {"8", "9"} THEN {}
         ELSE stringEscapes(s)
    ELSE IF isTemplate(kind) /\ s[1] = "CR"
    THEN {<<IF Len(s) > 1 /\ s[2] = "LF" THEN 2 ELSE 1, <<"LF">>>>}
    ELSE {<<1, <<s[1]>>>>}

RECURSIVE values(_, _)
values(s, kind) ==
    IF s = <<>> THEN {<<>>}
    ELSE UNION {{h[2] \o v : v \in values(SubSeq(s, h[1] + 1, Len(s)), kind)} :
                    h \in heads(s, kind)}

Cooked == {"String", "NoSubstitutionTemplate", "TemplateHead", "TemplateMiddle",
           "TemplateTail", "Identifier"}

\* What the parser reads of a token is the value the grammar gives to that very
\* token, whichever tokens were read ahead, taken back or read twice.
CookedText ==
    mode = "token" /\ Token.Kind \in Cooked /\ WellFormed(source) =>
        LET v == values(Bytes(Token.Idx0 + before, Token.Idx1 - behind), Token.Kind)
        IN v # {} => v = {tokenString}
=============================================================================
