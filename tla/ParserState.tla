---------------------------- MODULE ParserState ----------------------------
(***************************************************************************)
(* The parser's state (parser/parser.go, scope.go) and what its helpers do *)
(* to it, as operators from one state to the next: reading tokens, going   *)
(* back to a mark, looking ahead, reporting errors, recovering from them.  *)
(*                                                                         *)
(* A position is the index of a token in source. errors is whether         *)
(* p.errors holds anything; the messages are left out.                     *)
(***************************************************************************)
EXTENDS Tokens, Ast

VARIABLES
    source,   \* the words of the text, each with onNewLine
    p         \* the fields of parser

\* Scanner.Next at the i-th word of the text.
TokenAt(i) ==
    IF i \in DOMAIN source
    THEN [kind |-> KindOf(source[i].word), word |-> source[i].word,
          onNewLine |-> source[i].onNewLine]
    ELSE [kind |-> "Eof", word |-> "", onNewLine |-> FALSE]

scope0 ==
    [allowIn |-> TRUE, allowLet |-> FALSE, inIteration |-> FALSE,
     inSwitch |-> FALSE, inFuncParams |-> FALSE, inFunction |-> FALSE,
     inAsync |-> FALSE, allowAwait |-> FALSE, allowYield |-> FALSE,
     labels |-> <<>>]

NewParser ==
    [pos |-> 1, token |-> TokenAt(1), errors |-> FALSE, scopes |-> <<scope0>>,
     recover |-> [idx |-> 0, count |-> 0],
     exprBuf |-> <<>>, declBuf |-> <<>>, patBuf |-> <<>>, stmtBuf |-> <<>>,
     propBuf |-> <<>>, elemBuf |-> <<>>, patPropBuf |-> <<>>]

Buffers ==
    {"exprBuf", "declBuf", "patBuf", "patPropBuf", "stmtBuf", "propBuf", "elemBuf"}
-----------------------------------------------------------------------------

Kind(q)  == q.token.kind
Scope(q) == q.scopes[1]

NextToken(q) ==
    LET i == IF q.pos <= Len(source) THEN q.pos + 1 ELSE q.pos IN
    [q EXCEPT !.pos = i, !.token = TokenAt(i)]

Mark(q)       == [pos |-> q.pos, token |-> q.token, errors |-> q.errors]
\* Seeded fault: the scanner goes back, the token stays.
RestoreKeepingToken(q, m) == [q EXCEPT !.pos = m.pos, !.errors = m.errors]
Restore(q, m) == [q EXCEPT !.pos = m.pos, !.token = m.token, !.errors = m.errors]

PeekKind(q) == Kind(NextToken(q))

Error(q)        == [q EXCEPT !.errors = TRUE]
ErrorIf(q, bad) == IF bad THEN Error(q) ELSE q

\* expect: consumes the current token whatever it is.
Expect(q, kind) == NextToken(ErrorIf(q, Kind(q) # kind))

SetScope(q, s) == [q EXCEPT !.scopes[1] = s]
OpenScope(q)   == [q EXCEPT !.scopes = <<scope0>> \o @]
CloseScope(q)  == [q EXCEPT !.scopes = Tail(@)]

CanInsertSemicolon(q) == Kind(q) \in {";", "}", "Eof"} \/ q.token.onNewLine
RequireSemicolon(q) ==
    IF CanInsertSemicolon(q) THEN (IF Kind(q) = ";" THEN NextToken(q) ELSE q)
    ELSE Error(q)

Push(q, buf, v) == [q EXCEPT ![buf] = Append(@, v)]
Cut(q, buf, mark) == [q EXCEPT ![buf] = SubSeq(@, 1, mark)]
From(q, buf, mark) == SubSeq(q[buf], mark + 1, Len(q[buf]))

IsBindingId(q, kind) ==
    CASE kind = "await" -> ~Scope(q).allowAwait
      [] kind = "yield" -> ~Scope(q).allowYield
      [] OTHER          -> kind \in {"Identifier"} \cup Unreserved

TokenToBindingId(q) ==
    IF IsBindingId(q, Kind(q)) THEN [q EXCEPT !.token.kind = "Identifier"] ELSE q

-----------------------------------------------------------------------------
(***************************************************************************)
(* nextStatement: skip to a token a statement may begin with. It stops     *)
(* where it stopped before, ten times at most, and otherwise only further  *)
(* on; recover remembers where. A token's offset is its position less one. *)
(***************************************************************************)
SyncKinds ==
    {"break", "continue", "for", "if", "return", "switch", "var", "do", "try",
     "with", "while", "throw", "catch", "finally"}

MaxSyncs == 10

Progress(q, i) ==
    i - 1 > q.recover.idx \/ (i - 1 = q.recover.idx /\ q.recover.count < MaxSyncs)

\* Seeded fault: it stops however often it has stopped there.
NextStatementUncounted(q) ==
    LET stop(i) == TokenAt(i).kind \in SyncKinds \cup {"Eof"}
        at == CHOOSE i \in q.pos .. Len(source) + 1 :
                 stop(i) /\ \A j \in q.pos .. i - 1 : ~stop(j)
    IN  [q EXCEPT !.pos = at, !.token = IF at = q.pos THEN @ ELSE TokenAt(at)]

NextStatement(q) ==
    LET stop(i) == \/ TokenAt(i).kind = "Eof"
                   \/ TokenAt(i).kind \in SyncKinds /\ Progress(q, i)
        at == CHOOSE i \in q.pos .. Len(source) + 1 :
                 stop(i) /\ \A j \in q.pos .. i - 1 : ~stop(j)
    IN  [q EXCEPT
           !.pos = at,
           !.token = IF at = q.pos THEN @ ELSE TokenAt(at),
           !.recover = IF TokenAt(at).kind = "Eof" THEN @
                       ELSE [idx   |-> at - 1,
                             count |-> IF at - 1 = @.idx THEN @.count + 1 ELSE 0]]
=============================================================================
