------------------------------- MODULE Parser -------------------------------
(***************************************************************************)
(* Parse (parser/parser.go) on one of a set of texts, right and wrong ones *)
(* alike, and what it owes to every caller whatever the text.              *)
(***************************************************************************)
EXTENDS StatementParser

CONSTANT Sources      \* the texts

ASSUME SourcesAssumption ==
    Sources \subseteq Seq([word : STRING, onNewLine : BOOLEAN])

vars == <<source, p, todo, result>>

Init ==
    /\ source \in Sources
    /\ p = NewParser
    /\ todo = program
    /\ result = None

Next == ParseStep /\ UNCHANGED source

Spec == Init /\ [][Next]_vars /\ WF_vars(Next)

Done == todo = <<>>

-----------------------------------------------------------------------------
(***************************************************************************)
(* p.token is the token at the offset the scanner stands at, whatever was  *)
(* looked ahead at, gone back from or skipped: only tokenToBindingId may   *)
(* have made an unreserved word an identifier (mark, restore, peek and     *)
(* nextStatement in parser.go, each of which moves the two separately).    *)
(***************************************************************************)
TokenIsAtOffset ==
    LET t == TokenAt(p.pos) IN
    \/ p.token = t
    \/ p.token = [t EXCEPT !.kind = "Identifier"] /\ t.kind \in Unreserved

(***************************************************************************)
(* The lists under construction share their buffers: each keeps what lies  *)
(* above its mark until it cuts the buffer there. However a call ends, the *)
(* marks of the calls around it still lie in order below the length, and a *)
(* buffer that no call uses is empty.                                      *)
(***************************************************************************)
MarkFrames ==
    [exprBuf    |-> {"SequenceElement", "NextArgument", "ArgumentMade", "NextElement",
                     "ElementMade", "NextParenthesised", "ParenthesisedMade"},
     declBuf    |-> {"NextDeclaration", "NextParameter", "ParameterMade",
                     "RestParameter"},
     patBuf     |-> {"NextPattern", "PatternMade", "ArrayRestMade"},
     patPropBuf |-> {"NextBinding", "BindingMade"},
     stmtBuf    |-> {"NextStatement", "ListedStatement"},
     propBuf    |-> {"NextProperty", "PropertyMade"},
     elemBuf    |-> {"NextMember", "ClassEnd"}]

MarksInOrder ==
    \A b \in Buffers :
       LET frames == {i \in DOMAIN todo : todo[i].at \in MarkFrames[b]}
       IN  /\ frames = {} => p[b] = <<>>
           /\ \A i \in frames :
                 /\ todo[i].mark \in 0 .. Len(p[b])
                 /\ \A j \in frames : i < j => todo[j].mark <= todo[i].mark
                 /\ (\A j \in frames : j <= i) => todo[i].mark = 0

(***************************************************************************)
(* The flags of the scope are those of the calls being made: as long as    *)
(* there is no error, `in` is an operator except in the head of a for and  *)
(* outside what brackets it, break and continue are in a loop or a switch  *)
(* of the same function, yield and await know of being in parameters, and  *)
(* the labels are the labels around. Every function of the parser sets and *)
(* puts back these by hand, on each of its ways out, and an arrow function *)
(* or a yield goes back to a mark, which holds none of them.               *)
(***************************************************************************)
FlagsFollowCalls ==
    LET ends    == {i \in DOMAIN todo : todo[i].at = "FunctionEnd"}
        own     == {i \in DOMAIN todo : \A j \in ends : i <= j}
        sets(f) == {i \in own : todo[i].at = "PutBack" /\ f \in DOMAIN todo[i].flags}
        frame(names) == {i \in own : todo[i].at \in names}
        labels  == frame({"LabelledMade"})
        s == Scope(p)
    IN  ~p.errors =>
        /\ Len(p.scopes) = 1 + Cardinality(ends)
        /\ s.inFunction = (ends # {})
        /\ s.allowIn = ~(\E i \in frame({"ForDeclared", "ForExpression"}) :
                            \A j \in sets("allowIn") : i < j)
        /\ s.inIteration = (sets("inIteration") # {})
        /\ s.inSwitch = (sets("inSwitch") # {})
        /\ s.inFuncParams =
              (frame({"NextParameter", "ParameterMade", "RestParameter"}) # {})
        /\ Len(s.labels) = Cardinality(labels)
        /\ \A i \in labels :
              s.labels[Cardinality({j \in labels : i <= j})] = todo[i].label.name

(***************************************************************************)
(* Recovery makes only so many statements of a text: those that begin at   *)
(* one token without consuming it are at most the times nextStatement may  *)
(* stop there and one that it does not. A parse that went on from one and  *)
(* the same token would fill the memory.                                   *)
(***************************************************************************)
RecoveryBounded == Len(p.stmtBuf) <= (MaxSyncs + 2) * (Len(source) + 1)

(***************************************************************************)
(* Parsing ends, on every text: an error makes nextStatement go on from    *)
(* the next statement, which it may do without having moved, but only so   *)
(* many times.                                                             *)
(***************************************************************************)
Terminates == <>Done
=============================================================================
