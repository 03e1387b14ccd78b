----------------------------- MODULE RoundTrip -----------------------------
(***************************************************************************)
(* A text is parsed, its tree is printed, and what was printed is parsed   *)
(* again: parser.Parse, generator.GenerateWithOptions, parser.Parse, as    *)
(* callers and most tests of generator_test.go do.                         *)
(***************************************************************************)
EXTENDS Parser

VARIABLES
    phase,       \* "read", "print", "reread"
    tree,        \* what was read first
    minified, pending, out, gap, binaryStack

G == INSTANCE Generator

roundTripVars == <<vars, phase, tree, minified, pending, out, gap, binaryStack>>
printer == <<minified, pending, out, gap, binaryStack>>

RoundTripInit ==
    /\ Init
    /\ phase = "read" /\ tree = <<>>
    /\ minified \in BOOLEAN
    /\ pending = <<>> /\ out = <<>> /\ gap = "" /\ binaryStack = <<>>

Parsing == Next /\ UNCHANGED <<phase, tree, printer>>

\* A text with an error is not printed.
StartPrinting ==
    /\ phase = "read" /\ Done /\ ~p.errors
    /\ phase' = "print"
    /\ tree' = result.list
    /\ pending' = G!programText(result.list)
    /\ UNCHANGED <<vars, minified, out, gap, binaryStack>>

Printing == phase = "print" /\ G!Generate /\ UNCHANGED <<vars, phase, tree>>

\* What the scanner makes of two words with nothing between them: names run
\* together, as do signs and a number and a point.
Letters == Names \cup Numbers \cup Reserved \cup Unreserved
RunOn(w, v) ==
    CASE w \in Letters /\ v \in Letters \cup PrivateNames -> <<"mistake">>
      [] w \in Numbers /\ v = "."  -> <<"mistake">>
      [] w = v /\ w \in {"+", "-"} -> <<IF w = "+" THEN "++" ELSE "--">>
      [] <<w, v>> \in {<<"+", "++">>, <<"-", "--">>} -> <<v, w>>
      [] OTHER -> <<w, v>>

Scanned(printed) ==
    LET add(text, w) ==
            IF text = <<>> \/ w.gap # ""
            THEN Append(text, [word |-> w.word, onNewLine |-> w.gap = "\n"])
            ELSE LET l == Last(text)
                     r == RunOn(l.word, w.word)
                 IN  Front(text)
                       \o [i \in DOMAIN r |->
                              [word |-> r[i], onNewLine |-> i = 1 /\ l.onNewLine]]
    IN  FoldLeft(add, <<>>, printed)

Reread ==
    /\ phase = "print" /\ pending = <<>>
    /\ phase' = "reread"
    /\ source' = Scanned(out)
    /\ p' = NewParser'
    /\ todo' = program
    /\ result' = None
    /\ UNCHANGED <<tree, printer>>

RoundTripNext == Parsing \/ StartPrinting \/ Printing \/ Reread

RoundTripSpec == RoundTripInit /\ [][RoundTripNext]_roundTripVars

-----------------------------------------------------------------------------
(***************************************************************************)
(* What was printed, with or without white space, is read as the tree that *)
(* was printed: every pair of parentheses the tree needs is there, no two  *)
(* words run together, no line break ends a statement too early, and the   *)
(* parser's precedences are the generator's.                               *)
(***************************************************************************)
RoundTrips == phase = "reread" /\ Done => ~p.errors /\ result.list = tree

(***************************************************************************)
(* The chains of operators being printed share binaryStack. What a chain   *)
(* has on it stays as it is until that chain goes on, whatever chains are  *)
(* printed in between, as operands or in functions inside operands         *)
(* (genBinaryExpr's base).                                                 *)
(***************************************************************************)
StackOwned ==
    [][\A i \in DOMAIN pending :
          pending[i].do \in {"descend", "unwind"} =>
             LET below == pending[i].base IN
             /\ Len(binaryStack') >= below
             /\ SubSeq(binaryStack', 1, below) = SubSeq(binaryStack, 1, below)]_roundTripVars
=============================================================================
