------------------------------ MODULE Scanner ------------------------------
(***************************************************************************)
(* The scanner (parser/scanner) and what the parser asks of it. Next is    *)
(* begun by NextToken and runs until mode is "token" again: one step for   *)
(* each turn of its loop, of the loops over comments, and of the loops     *)
(* over the escape sequences of a string, a template or a name. Between    *)
(* two tokens the parser may mark the scanner and go back (parser.go), and *)
(* at a slash or a closing brace it may have it read on in another way     *)
(* (parseTemplateLiteral and parseRegExpLiteral, expression.go).           *)
(*                                                                         *)
(* Which operator or keyword a token is, its text alone tells: all         *)
(* operators but those the scanner or this module asks for are "Operator", *)
(* and the reserved words are "Identifier".                                *)
(***************************************************************************)
EXTENDS Numbers

CONSTANTS
    Texts,        \* the texts there are to scan, well-formed or not
    MaxMarks      \* bound: marks the parser takes in the course of a parse

ASSUME ScannerAssumption ==
    Texts \subseteq Seq(ASCII \cup NonASCII)

VARIABLES
    Token,        \* Scanner.Token
    EscapedStr,   \* Scanner.EscapedStr
    errors,       \* the errors reported
    mode,         \* "token": a token is read; else the loop that is running
    str,          \* the strings.Builder of that loop
    regexp,       \* inEscape and inCharClass of ParseRegExp
    begun,        \* history: where the Next began that read the token
    open,         \* the parser: the braces and substitutions it is inside of
    marks,        \* the parser: its checkpoints, the latest last
    marked        \* the number of checkpoints taken

client == <<open, marks, marked>>
vars == <<source, pos, Token, EscapedStr, errors, mode, str, regexp, begun,
          open, marks, marked>>

Operators ==
    {<<"(">>, <<")">>, <<"COMMA">>, <<":">>, <<"SEMICOLON">>, <<"[">>, <<"]">>,
     <<"LBRACE">>, <<"RBRACE">>,
     <<"~">>, <<"!">>, <<"!", "=">>, <<"!", "=", "=">>,
     <<"%">>, <<"%", "=">>, <<"&">>, <<"&", "&">>, <<"&", "&", "=">>,
     <<"&", "=">>, <<"*">>, <<"*", "*">>, <<"*", "*", "=">>, <<"*", "=">>,
     <<"+">>, <<"+", "+">>, <<"+", "=">>, <<"-">>, <<"-", "-">>, <<"-", "=">>,
     <<".">>, <<".", ".">>, <<".", ".", ".">>, <<"/">>, <<"/", "=">>,
     <<"<">>, <<"<", "<">>, <<"<", "<", "=">>, <<"<", "=">>,
     <<"=">>, <<"=", "=">>, <<"=", "=", "=">>, <<"=", ">">>,
     <<">">>, <<">", "=">>, <<">", ">">>, <<">", ">", "=">>,
     <<">", ">", ">">>, <<">", ">", ">", "=">>,
     <<"?">>, <<"?", "?">>, <<"?", "?", "=">>, <<"?", ".">>,
     <<"^">>, <<"^", "=">>, <<"|">>, <<"|", "|">>, <<"|", "|", "=">>,
     <<"|", "=">>}

operatorKind(o) == CASE o = <<"/">>      -> "Slash"
                     [] o = <<"/", "=">> -> "QuotientAssign"
                     [] o = <<"LBRACE">> -> "LeftBrace"
                     [] o = <<"RBRACE">> -> "RightBrace"
                     [] o = <<".", ".">> -> "Illegal"
                     [] OTHER            -> "Operator"

\* The operators whose text is at p. A question mark and a point before a
\* digit are a conditional and a number.
operatorsAt(p) ==
    {o \in Operators : /\ p + Len(o) <= len
                       /\ Bytes(p, p + Len(o)) = o
                       /\ ~(o = <<"?", ".">> /\ PeekIn(p + 2, Decimal))}

\* Scanner as NewScanner makes it, and the parser's first call of Next.
Init ==
    /\ source \in Texts
    /\ pos = 0
    /\ Token = [Kind |-> "Illegal", OnNewLine |-> FALSE, HasEscape |-> FALSE,
                Idx0 |-> 0, Idx1 |-> 0]
    /\ EscapedStr = <<>>
    /\ errors = {}
    /\ mode = "next"
    /\ str = <<>>
    /\ regexp = [inEscape |-> FALSE, inCharClass |-> FALSE]
    /\ begun = 0
    /\ open = <<>> /\ marks = <<>> /\ marked = 0

-----------------------------------------------------------------------------
\* What a turn of a loop can come to.

report(errs) == errors' = errors \cup errs

\* The arm of Next is done: the token ends at p.
produce(kind, p, errs) ==
    /\ pos' = p
    /\ mode' = "token"
    /\ Token' = [Token EXCEPT !.Kind = kind, !.Idx0 = pos, !.Idx1 = p]
    /\ report(errs)
    /\ UNCHANGED <<source, EscapedStr, str, regexp, begun, client>>

\* Next goes round, from p.
skip(p, lineBreak) ==
    /\ pos' = p
    /\ Token' = [Token EXCEPT !.Idx0 = pos, !.OnNewLine = @ \/ lineBreak]
    /\ UNCHANGED <<source, EscapedStr, errors, mode, str, regexp, begun, client>>

\* The arm of Next enters another loop at p.
enter(loop, p, soFar) ==
    /\ pos' = p
    /\ mode' = loop
    /\ str' = soFar
    /\ Token' = [Token EXCEPT !.Idx0 = pos]
    /\ UNCHANGED <<source, EscapedStr, errors, regexp, begun, client>>

\* The token that another loop has read ends at p; its escaped string is s.
complete(kind, p, s, errs) ==
    /\ pos' = p
    /\ mode' = "token"
    /\ Token' = [Token EXCEPT !.Kind = kind, !.HasEscape = TRUE, !.Idx1 = p]
    /\ EscapedStr' = s
    /\ report(errs)
    /\ UNCHANGED <<source, str, regexp, begun, client>>

\* Another loop gives the token up at p.
giveUp(p, errs) ==
    /\ pos' = p
    /\ mode' = "token"
    /\ Token' = [Token EXCEPT !.Kind = "Undetermined", !.Idx1 = p]
    /\ report(errs)
    /\ UNCHANGED <<source, EscapedStr, str, regexp, begun, client>>

\* Another loop goes round, from p, with s in its builder.
goRound(p, s, errs) ==
    /\ pos' = p
    /\ str' = s
    /\ report(errs)
    /\ UNCHANGED <<source, Token, EscapedStr, mode, regexp, begun, client>>

\* A comment ends at p: Next goes round.
endComment(p, lineBreak) ==
    /\ pos' = p
    /\ mode' = "next"
    /\ Token' = [Token EXCEPT !.OnNewLine = @ \/ lineBreak]
    /\ UNCHANGED <<source, EscapedStr, errors, str, regexp, begun, client>>

-----------------------------------------------------------------------------
\* The turns of Next's loop that read no token (table.go, whitespace.go).

next(B) == mode = "next" /\ PeekIn(pos, B)

WhiteSpace ==
    \/ /\ next({"SP", "TAB"})
       /\ skip(AfterAll(pos + 1, {"SP", "TAB"}), FALSE)
    \/ /\ next({"VT", "FF"})
       /\ skip(pos + 1, FALSE)

\* handleLineBreak.
LineBreak ==
    /\ next({"LF", "CR"})
    /\ skip(AfterAll(pos + 1, {"SP", "TAB", "CR", "LF"}), TRUE)

\* A rune that no identifier begins with.
otherRune(R) ==
    /\ next(Lead2 \cup Lead3 \cup Lead4)
    /\ RuneAt(pos) \notin IDStart
    /\ RuneAt(pos) \in R

UnicodeSpace ==
    \/ otherRune({LS, PS}) /\ skip(AfterRune(pos), TRUE)
    \/ otherRune(Space \ {LS, PS}) /\ skip(AfterRune(pos), FALSE)

\* A hashbang is a comment at the beginning of the text only.
LineComment ==
    /\ \/ next({"/"}) /\ PeekIn(pos + 1, {"/"})
       \/ next({"#"}) /\ pos = 0 /\ PeekIn(1, {"!"})
    /\ enter("line", pos + 2, <<>>)

BlockComment ==
    /\ next({"/"}) /\ PeekIn(pos + 1, {"*"})
    /\ enter("block", pos + 2, <<>>)

\* Seeded fault: the bytes behind the first one of a separator are not compared.
twoBytesBehind(p) == PeekTwoBytes(p)

\* The byte before p begins a line separator.
lineSeparatorBehind(p) ==
    PeekTwoBytes(p) /\ <<"E2">> \o Bytes(p, p + 2) \in {LS, PS}

\* skipSingleLineComment: a turn of its loop passes over the bytes up to the
\* next line break or the next byte that could begin a line separator.
skipSingleLineComment ==
    /\ mode = "line"
    /\ LET p == FirstOf(pos, {"CR", "LF", "E2"})
       IN IF ~PeekIn(p, {"E2"}) \/ lineSeparatorBehind(p + 1)
          THEN endComment(p, FALSE)
          ELSE goRound(IF PeekTwoBytes(p + 1) THEN p + 3 ELSE p + 1, str, {})

\* Where the first  */  ends at or after p, or the text.
afterClose(p) ==
    Min({len} \cup {q \in p + 2 .. len : Bytes(q - 2, q) = <<"*", "/">>})

\* Seeded fault: only CR and LF are looked for in a comment.
skipMultiLineCommentASCII ==
    /\ mode = "block"
    /\ LET p == FirstOf(pos, {"*", "CR", "LF"})
       IN IF p = len
          THEN endComment(p, FALSE)
          ELSE IF PeekIn(p, {"CR", "LF"})
          THEN endComment(afterClose(p + 1), TRUE)
          ELSE IF PeekIn(p + 1, {"/"}) THEN endComment(p + 2, FALSE)
          ELSE goRound(p + 1, str, {})

\* skipMultiLineComment: a turn passes over the bytes up to the next one that
\* could end the comment or the line.
skipMultiLineComment ==
    /\ mode = "block"
    /\ LET p == FirstOf(pos, {"*", "CR", "LF", "E2"})
       IN IF p = len
          THEN /\ pos' = p /\ mode' = "next"
               /\ report({error("unterminated", Token.Idx0, p)})
               /\ UNCHANGED <<source, Token, EscapedStr, str, regexp, begun, client>>
          ELSE CASE At(p) = "*" /\ PeekIn(p + 1, {"/"}) -> endComment(p + 2, FALSE)
                 [] At(p) = "*" /\ ~PeekIn(p + 1, {"/"}) -> goRound(p + 1, str, {})
                 [] At(p) = "E2" /\ lineSeparatorBehind(p + 1) ->
                      /\ pos' = p + 3
                      /\ Token' = [Token EXCEPT !.OnNewLine = TRUE]
                      /\ UNCHANGED <<source, EscapedStr, errors, mode, str,
                                     regexp, begun, client>>
                 [] At(p) = "E2" /\ ~lineSeparatorBehind(p + 1) ->
                      goRound(IF PeekTwoBytes(p + 1) THEN p + 3 ELSE p + 1, str, {})
                 [] At(p) \in {"CR", "LF"} -> endComment(afterClose(p + 1), TRUE)

-----------------------------------------------------------------------------
\* The turns that read a token (table.go, punct.go).

EndOfFile ==
    /\ mode = "next" /\ pos >= len
    /\ produce("Eof", pos, {})

Operator ==
    /\ mode = "next"
    /\ ~(PeekIn(pos, {"."}) /\ PeekIn(pos + 1, Decimal))
    /\ ~(PeekIn(pos, {"/"}) /\ PeekIn(pos + 1, {"/", "*"}))
    /\ \E o \in operatorsAt(pos) :
          /\ \A other \in operatorsAt(pos) : Len(other) <= Len(o)
          /\ produce(operatorKind(o), pos + Len(o), {})

NumberLiteral ==
    /\ next(Decimal \cup {"."})
    /\ PeekIn(pos, {"."}) => PeekIn(pos + 1, Decimal)
    /\ produce(number(pos).kind, number(pos).at, number(pos).errs)

\* Seeded fault: the width of a replacement character is taken for the byte's.
InvalidCharacterByRune ==
    \/ /\ next(Control \cup {"@"} \cup Continuation \cup Stray)
       /\ produce("Undetermined", AfterRune(pos),
                  {error("character", pos, AfterRune(pos))})
    \/ /\ next(Lead2 \cup Lead3 \cup Lead4)
       /\ RuneAt(pos) \notin IDStart \cup {LS, PS} \cup Space
       /\ produce("Undetermined", AfterRune(pos),
                  {error("character", pos, AfterRune(pos))})

\* Seeded fault: the switch has no default arm, and nothing is consumed.
InvalidCharacterStuck ==
    /\ next(Control \cup {"@"} \cup Continuation \cup Stray)
    /\ produce("Undetermined", pos, {})

\* The default arm of the switch, and the arms that end in invalidCharacter.
InvalidCharacter ==
    \/ /\ next(Control \cup {"@"} \cup Continuation \cup Stray)
       /\ produce("Undetermined", pos + 1, {error("character", pos, pos + 1)})
    \/ /\ next(Lead2 \cup Lead3 \cup Lead4)
       /\ RuneAt(pos) \notin IDStart \cup {LS, PS} \cup Space
       /\ produce("Undetermined", AfterRune(pos),
                  {error("character", pos, AfterRune(pos))})

\* identifierBackslashHandler, scanIdentifierTail and its slower variants.
Name ==
    /\ mode = "next"
    /\ \/ PeekIn(pos, asciiStart \cup {"\\"})
       \/ PeekIn(pos, {"#"}) /\ ~(pos = 0 /\ PeekIn(1, {"!"}))
       \/ PeekIn(pos, Lead2 \cup Lead3 \cup Lead4) /\ RuneAt(pos) \in IDStart
    /\ LET p == IF At(pos) = "\\" THEN pos
                ELSE AfterRunes(AfterRune(pos), isIdentifierPart)
       IN IF PeekIn(p, {"\\"})
          THEN enter("name", p, Bytes(pos, p))
          ELSE produce(IF At(pos) = "#" THEN "PrivateIdentifier"
                                        ELSE "Identifier", p, {})

\* scanIdentifierOnBackslash: a turn of its outer loop.
scanIdentifierOnBackslash ==
    /\ mode = "name"
    /\ \E e \in {identifierUnicodeEscapeSequence(pos + 1, pos = Token.Idx0)} :
       LET p == AfterRunes(e.at, isIdentifierPart)
           s == str \o e.out \o Bytes(e.at, p)
       IN IF PeekIn(p, {"\\"})
          THEN goRound(p, s, e.errs)
          ELSE complete(IF At(Token.Idx0) = "#" THEN "PrivateIdentifier"
                                                ELSE "Identifier", p, s, e.errs)

-----------------------------------------------------------------------------
\* String literals (string.go).

StringLiteral ==
    /\ next({"DQ", "SQ"})
    /\ LET p == FirstOf(pos + 1, {At(pos), "CR", "LF", "\\"})
       IN IF PeekIn(p, {"\\"}) THEN enter("string", p, Bytes(pos + 1, p))
          ELSE IF PeekIn(p, {At(pos)}) THEN produce("String", p + 1, {})
          ELSE produce("Undetermined", p, {error("unterminated", pos, p)})

\* scanStringLiteralEscaped: a turn of its outer loop.
scanStringLiteralEscaped ==
    /\ mode = "string"
    /\ \E e \in {readStringEscapeSequence(pos + 1, FALSE)} :
       LET delim == At(Token.Idx0)
           errs == e.errs \cup (IF e.isValid THEN {}
                                ELSE {error("escape", pos, e.at)})
           p == FirstOf(e.at, {delim, "CR", "LF", "\\"})
           s == str \o e.out \o Bytes(e.at, p)
       IN IF PeekIn(p, {"\\"}) THEN goRound(p, s, errs)
          ELSE IF PeekIn(p, {delim}) THEN complete("String", p + 1, s, errs)
          ELSE giveUp(p, errs \cup {error("unterminated", Token.Idx0, p)})

-----------------------------------------------------------------------------
\* Template literals (template.go).

\* The first byte at or after p that a loop over a template stops at.
templateLiteralEnd(p) ==
    Min({q \in {p} \cup p .. len :
            \/ q >= len
            \/ At(q) \in {"BQ", "CR", "\\"}
            \/ At(q) = "$" /\ PeekIn(q + 1, {"LBRACE"})})

\* sub and tail: what a part is that begins with a back quote, or with a brace.
partKind(begin, end) ==
    IF At(begin) = "BQ"
    THEN IF At(end) = "$" THEN "TemplateHead" ELSE "NoSubstitutionTemplate"
    ELSE IF At(end) = "$" THEN "TemplateMiddle" ELSE "TemplateTail"

\* Behind the back quote, or behind the dollar sign and the brace.
afterPart(end) == IF At(end) = "$" THEN end + 2 ELSE end + 1

\* ReadTemplateLiteral, for a part whose delimiter is at begin.
ReadTemplateLiteral(begin) ==
    LET p == templateLiteralEnd(begin + 1)
        part == [Token EXCEPT !.Idx0 = begin]
    IN /\ IF p = len
          THEN /\ pos' = p /\ mode' = "token"
               /\ Token' = [part EXCEPT !.Kind = "Undetermined", !.Idx1 = p]
               /\ report({error("unterminated", begin, p)})
               /\ UNCHANGED str
          ELSE IF At(p) \in {"CR", "\\"}
          THEN /\ pos' = p /\ mode' = "template"
               /\ Token' = part
               /\ str' = Bytes(begin + 1, p)
               /\ UNCHANGED errors
          ELSE /\ pos' = afterPart(p) /\ mode' = "token"
               /\ Token' = [part EXCEPT !.Kind = partKind(begin, p),
                                        !.Idx1 = afterPart(p)]
               /\ UNCHANGED <<errors, str>>
       /\ UNCHANGED <<source, EscapedStr, regexp, begun, client>>

TemplateLiteral == next({"BQ"}) /\ ReadTemplateLiteral(pos)

\* A CR, and a CR with the LF behind it, counts as an LF.
carriageReturn(p) ==
    escaped(p, IF PeekIn(p, {"LF"}) THEN <<>> ELSE <<"LF">>)

\* templateLiteralCarriageReturn, templateLiteralBackslash, and a turn of the
\* loop of templateLiteralEscaped, which forgets whether an escape was valid.
templateLiteralEscaped ==
    /\ mode = "template"
    /\ \E e \in {IF At(pos) = "CR" THEN carriageReturn(pos + 1)
                ELSE readStringEscapeSequence(pos + 1, TRUE)} :
       LET p == templateLiteralEnd(e.at)
           s == str \o e.out \o Bytes(e.at, p)
       IN IF PeekIn(p, {"CR", "\\"}) THEN goRound(p, s, e.errs)
          ELSE IF p >= len
          THEN complete("Undetermined", p, s,
                        e.errs \cup {error("unterminated", Token.Idx0, p)})
          ELSE complete(partKind(Token.Idx0, p), afterPart(p), s, e.errs)

-----------------------------------------------------------------------------
\* The calls of the parser. It keeps account of the braces and substitutions.

inside == open # <<>>

closes == Token.Kind \in {"RightBrace", "TemplateTail"} /\ inside

opened ==
    IF Token.Kind \in {"LeftBrace", "TemplateHead"} THEN Append(open, Token.Kind)
    ELSE IF closes THEN Front(open)
    ELSE open

\* Next begins.
nextToken ==
    /\ Token' = [Token EXCEPT !.OnNewLine = FALSE, !.HasEscape = FALSE]
    /\ mode' = "next"

NextToken ==
    /\ mode = "token"
    /\ nextToken
    /\ begun' = pos
    /\ open' = opened
    /\ UNCHANGED <<source, pos, EscapedStr, errors, str, regexp, marks, marked>>

\* A brace that closes a substitution is read again, as what follows it.
NextTemplatePart ==
    /\ mode = "token"
    /\ Token.Kind = "RightBrace"
    /\ inside /\ Last(open) = "TemplateHead"
    /\ ReadTemplateLiteral(pos - 1)

\* A slash where an operand is expected begins a regular expression.
ParseRegExp ==
    /\ mode = "token"
    /\ Token.Kind \in {"Slash", "QuotientAssign"}
    /\ mode' = "regexp"
    /\ regexp' = [inEscape |-> FALSE, inCharClass |-> FALSE]
    /\ UNCHANGED <<source, pos, Token, EscapedStr, errors, str, begun, client>>

validFlags == {"d", "g", "i", "m", "s", "u", "v", "y"}

flagErrors(p, q) ==
    {error("flag", f, f + 1) : f \in {i \in p .. q - 1 :
        At(i) \in validFlags => \E j \in p .. i - 1 : At(j) = At(i)}}

\* The flags from p on; the parser calls Next.
endRegExp(p, errs) ==
    LET q == AfterAll(p, asciiContinue)
    IN /\ pos' = q
       /\ begun' = q
       /\ report(errs \cup flagErrors(p, q))
       /\ nextToken
       /\ UNCHANGED <<source, EscapedStr, str, regexp, client>>

\* A turn of ParseRegExp's loop reads a rune.
regExpRune ==
    /\ mode = "regexp"
    /\ LET chr == RuneAt(pos)
           p == AfterRune(pos)
           ends == chr = <<"/">> /\ ~regexp.inEscape /\ ~regexp.inCharClass
       IN IF pos >= len
          THEN endRegExp(pos, {error("unterminated", Token.Idx0, pos)})
          ELSE IF chr \in isLineTerminator
          THEN endRegExp(p, {error("unterminated", Token.Idx0, p)})
          ELSE IF ends THEN endRegExp(p, {})
          ELSE /\ pos' = p
               /\ regexp' =
                    IF regexp.inEscape THEN [regexp EXCEPT !.inEscape = FALSE]
                    ELSE [inEscape |-> chr = <<"\\">>,
                          inCharClass |-> \/ chr = <<"[">>
                                          \/ regexp.inCharClass /\ chr # <<"]">>]
               /\ UNCHANGED <<source, Token, EscapedStr, errors, mode, str,
                              begun, client>>

\* mark: the scanner's state, and what belongs to it in this module.
Checkpoint ==
    /\ mode = "token" /\ Token.Kind # "Eof"
    /\ marked < MaxMarks
    /\ marks' = Append(marks, [pos |-> pos, tok |-> Token,
                               escapedStr |-> EscapedStr, errors |-> errors,
                               begun |-> begun, open |-> open])
    /\ marked' = marked + 1
    /\ UNCHANGED <<source, pos, Token, EscapedStr, errors, mode, str, regexp,
                   begun, open>>

back(c, string) ==
    /\ pos' = c.pos
    /\ Token' = c.tok
    /\ EscapedStr' = string
    /\ errors' = c.errors
    /\ begun' = c.begun
    /\ open' = c.open

\* Seeded fault: the escaped string is not restored.
RewindKeepingString(c) == back(c, EscapedStr)

\* Rewind.
Rewind(c) == back(c, c.escapedStr)

\* restore, which ends a look ahead (peek) or takes an attempt back.
Restore ==
    /\ mode = "token" /\ marks # <<>>
    /\ Rewind(Last(marks))
    /\ marks' = Front(marks)
    /\ UNCHANGED <<source, mode, str, regexp, marked>>

\* The attempt succeeded: the mark is forgotten.
Forget ==
    /\ mode = "token" /\ marks # <<>>
    /\ marks' = Front(marks)
    /\ UNCHANGED <<source, pos, Token, EscapedStr, errors, mode, str, regexp,
                   begun, open, marked>>

ReadOn ==
    \/ WhiteSpace \/ LineBreak \/ UnicodeSpace
    \/ LineComment \/ BlockComment \/ skipSingleLineComment
    \/ skipMultiLineComment
    \/ EndOfFile \/ Operator \/ NumberLiteral \/ InvalidCharacter
    \/ Name \/ scanIdentifierOnBackslash
    \/ StringLiteral \/ scanStringLiteralEscaped
    \/ TemplateLiteral \/ templateLiteralEscaped
    \/ NextToken \/ NextTemplatePart \/ ParseRegExp \/ regExpRune

Next == ReadOn \/ Checkpoint \/ Restore \/ Forget

\* The parser runs on, and calls Next until it is at the end of the text.
Fairness == WF_vars(ReadOn)

Spec == Init /\ [][Next]_vars /\ Fairness
-----------------------------------------------------------------------------
\* What the parser reads of a token (Token.String, TemplateParsed, token.go).

\* The bytes of its delimiters.
before == IF Token.Kind \in {"Identifier", "Number"} THEN 0 ELSE 1
behind == CASE Token.Kind \in {"String", "NoSubstitutionTemplate", "TemplateTail"} -> 1
            [] Token.Kind \in {"TemplateHead", "TemplateMiddle"} -> 2
            [] OTHER -> 0

tokenString ==
    IF Token.HasEscape THEN EscapedStr
    ELSE Bytes(Token.Idx0 + before, Token.Idx1 - behind)

-----------------------------------------------------------------------------

\* Where the scanner may be: in the text; or behind it, by one byte or two, if the
\* text ends in bytes that are no rune and that were taken for RuneError.
Positions ==
    0 .. len \cup {p \in len + 1 .. len + 2 : /\ ~WellFormed(source)
                                             /\ p >= 3 /\ RuneAt(p - 3) = RuneError}

\* Every token, mark and error lies within the text, although the scanner advances
\* by the length of the rune it took a byte to begin, and after an error may go on
\* in the middle of a rune; and it leaves no text but an ill-formed one.
InSource ==
    /\ pos \in Positions
    /\ Token.Idx0 \in 0 .. pos
    /\ mode = "token" => Token.Idx1 = pos
    /\ \A e \in errors : e.start \in 0 .. e.end /\ e.end \in Positions
    /\ \A i \in 1 .. Len(marks) : marks[i].pos \in Positions

\* What table.go says of the bytes that begin no rune, for all bytes: the scanner
\* does not run past the end of the source.
WithinText == pos <= len

\* Every token takes a byte of the text or is its end: a parser that calls Next
\* until the end does not spin.
TokensAdvance ==
    mode = "token" => Token.Kind = "Eof" \/ Token.Idx0 < Token.Idx1

\* A token is on a new line exactly if a line terminator is between it and the
\* token before, in whichever kind of comment, also when it was read again. (In a
\* comment the two bytes behind any 0xE2 are passed over unseen.)
NewLineFlag ==
    mode = "token" /\ WellFormed(source) =>
        (Token.OnNewLine <=>
            \E p \in begun .. Token.Idx0 - 1 :
                \/ At(p) \in {"LF", "CR"}
                \/ p + 3 <= len /\ Bytes(p, p + 3) \in {LS, PS})

\* However often the parser goes back, it comes to the end of the text.
ReachesEof == <>(mode = "token" /\ Token.Kind = "Eof")
=============================================================================
