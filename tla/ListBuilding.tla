---------------------------- MODULE ListBuilding ----------------------------
(***************************************************************************)
(* What the parser's list builders promise: every parse function that      *)
(* collects a list collects it by itself, whatever lists are built while   *)
(* it parses one of its elements.                                          *)
(***************************************************************************)
EXTENDS Sequences, SequencesExt

CONSTANT Elem

VARIABLES
    open,     \* the lists being built, the outermost first
    built     \* the lists that were finished, in that order

vars == <<open, built>>

Init ==
    /\ open = <<>>
    /\ built = <<>>

Begin == open' = Append(open, <<>>) /\ UNCHANGED built

Add(e) ==
    /\ open # <<>>
    /\ open' = Append(Front(open), Append(Last(open), e))
    /\ UNCHANGED built

Finish ==
    /\ open # <<>>
    /\ built' = Append(built, Last(open))
    /\ open' = Front(open)

\* Given up after an error, or reduced to its only element.
Drop == open # <<>> /\ open' = Front(open) /\ UNCHANGED built

Next ==
    \/ Begin
    \/ \E e \in Elem : Add(e)
    \/ Finish
    \/ Drop

Spec == Init /\ [][Next]_vars
=============================================================================
