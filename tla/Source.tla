------------------------------- MODULE Source -------------------------------
(***************************************************************************)
(* The text a scanner reads and the questions it asks of it (source.go),   *)
(* with the classes of characters (identifier.go, comment.go). A byte is   *)
(* its ASCII character, or the name of it (for quotes, braces, separators, *)
(* the low line and invisible ones), or two hex digits. A rune is its      *)
(* encoding, the sequence of its bytes. Positions count from 0, as in the  *)
(* code.                                                                   *)
(*                                                                         *)
(* The Unicode tables are constants: a theorem holds for all of them.      *)
(***************************************************************************)
EXTENDS Integers, SequencesExt, FiniteSetsExt

CONSTANTS
    Lead2, Lead3, Lead4,    \* the bytes that begin a rune of 2, 3, 4 bytes
    Continuation,           \* the bytes inside a rune
    Runes,                  \* the runes of several bytes there are (unicode/utf8)
    Stray,                  \* the bytes of no rune, 0xC0 and the like
    Control,                \* ASCII bytes no token begins with
    IDStart, IDContinue,    \* the non-ASCII runes of identifiers (unicodeid)
    Space,                  \* the non-ASCII runes of unicode.IsSpace
    Encode(_)               \* the encoding of a code point

VARIABLES
    source,     \* the text, a sequence of bytes
    pos         \* the position of the next byte to read

Lower == {"a", "b", "c", "d", "e", "f", "g", "h", "i", "j", "k", "l", "m",
          "n", "o", "p", "q", "r", "s", "t", "u", "v", "w", "x", "y", "z"}
Upper == {"A", "B", "C", "D", "E", "F", "G", "H", "I", "J", "K", "L", "M",
          "N", "O", "P", "Q", "R", "S", "T", "U", "V", "W", "X", "Y", "Z"}
Decimal == {"0", "1", "2", "3", "4", "5", "6", "7", "8", "9"}
Punctuation == {"!", "DQ", "#", "$", "%", "&", "SQ", "(", ")", "*", "+",
                "COMMA", "-", ".", "/", ":", "SEMICOLON", "<", "=", ">", "?",
                "@", "[", "\\", "]", "^", "LOWLINE", "BQ", "LBRACE", "|",
                "RBRACE", "~"}
Blank == {"SP", "TAB", "VT", "FF", "LF", "CR"}

ASCII == Lower \cup Upper \cup Decimal \cup Punctuation \cup Blank \cup Control
NonASCII == Lead2 \cup Lead3 \cup Lead4 \cup Continuation \cup Stray

RuneError == <<"EF", "BF", "BD">>
LS == <<"E2", "80", "A8">>
PS == <<"E2", "80", "A9">>
isLineTerminator == {<<"LF">>, <<"CR">>, LS, PS}

asciiStart == Lower \cup Upper \cup {"$", "LOWLINE"}
asciiContinue == asciiStart \cup Decimal
isIdentifierStart == {<<c>> : c \in asciiStart} \cup IDStart
isIdentifierPart  == {<<c>> : c \in asciiContinue} \cup IDContinue

\* The number of bytes of the rune that b begins.
Width(b) == IF b \in Lead2 THEN 2 ELSE IF b \in Lead3 THEN 3
            ELSE IF b \in Lead4 THEN 4 ELSE 1

\* What a table of Unicode says: the kinds of bytes do not overlap, the line
\* separators take three bytes, and the replacement character is neither a
\* letter nor a space.
ASSUME SourceAssumption ==
    /\ ASCII \cap NonASCII = {}
    /\ (Lead2 \cup Lead3 \cup Lead4) \cap Continuation = {}
    /\ \A r \in Runes : /\ Len(r) = Width(r[1])
                        /\ \A i \in 2 .. Len(r) : r[i] \in Continuation
    /\ "E2" \in Lead3 \ Lead2
    /\ IDStart \subseteq IDContinue
    /\ RuneError \notin IDContinue \cup Space

-----------------------------------------------------------------------------

len == Len(source)

\* ReadPosition, EOF, and PeekByte compared with the bytes of B.
At(p) == source[p + 1]
PeekIn(p, B) == p < len /\ At(p) \in B

\* FromPositionToCurrent and Slice.
Bytes(p, q) == SubSeq(source, p + 1, q)

\* The loops that pass over bytes: they stop before the first of B, or the first
\* that is not of B, at or after p, and at the end of the text or behind it.
FirstOf(p, B)  == Min({q \in {p} \cup p .. len : q >= len \/ At(q) \in B})
AfterAll(p, B) == Min({q \in {p} \cup p .. len : q >= len \/ At(q) \notin B})

\* A rune of several bytes is at p.
Complete(s, p) ==
    /\ p + Width(s[p + 1]) <= Len(s)
    /\ SubSeq(s, p + 1, p + Width(s[p + 1])) \in Runes

\* PeekRune: the rune at p, which is not the end.
RuneAt(p) ==
    IF At(p) \notin NonASCII THEN <<At(p)>>
    ELSE IF At(p) \in Lead2 \cup Lead3 \cup Lead4 /\ Complete(source, p)
         THEN Bytes(p, p + Width(At(p)))
         ELSE RuneError

\* NextRune: it advances by the length of the rune it decoded. For bytes that are
\* no rune that is the length of RuneError, be there so many bytes or not.
AfterRune(p) == p + Len(RuneAt(p))

\* The loops that pass over the runes of R stop where none of them is, except
\* inside of one that they passed over.
AfterRunes(p, R) ==
    Min({q \in p .. len :
            \/ q = len
            \/ /\ RuneAt(q) \notin R
               /\ \A b \in p .. q - 1 : RuneAt(b) \in R => AfterRune(b) <= q})

\* PeekTwoBytes.
PeekTwoBytes(p) == p + 2 <= len

\* Well-formed UTF-8: every lead byte begins a rune, every continuation byte is
\* inside one, and there is nothing else.
WellFormed(s) ==
    \A p \in 0 .. Len(s) - 1 :
        /\ s[p + 1] \in (ASCII \cup NonASCII) \ Stray
        /\ s[p + 1] \in NonASCII \ Continuation => Complete(s, p)
        /\ s[p + 1] \in Continuation =>
             \E k \in 1 .. 3 : /\ k <= p
                               /\ Width(s[p + 1 - k]) > k
                               /\ \A i \in 1 .. k - 1 :
                                     s[p + 1 - i] \in Continuation
=============================================================================
