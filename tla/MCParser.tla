------------------------------ MODULE MCParser ------------------------------
(***************************************************************************)
(* Programs that use every construct, and what one slip makes of them: a   *)
(* word missing, or replaced by one that means something elsewhere.        *)
(***************************************************************************)
EXTENDS Parser, Programs

Slips == {"a", "(", ")", "{", "}", ",", "=", "=>", "in", "for", "class", "...", "?."}

Without(s, i)    == SubSeq(s, 1, i - 1) \o SubSeq(s, i + 1, Len(s))
Replaced(s, i, w) == [s EXCEPT ![i] = w]

Slipped ==
    UNION {{Without(s, i) : i \in DOMAIN s}
           \cup {Replaced(s, i, w) : i \in DOMAIN s, w \in Slips} : s \in Seeds}

\* Parameters twice, of a function and of an arrow function.
Twice(params, async) ==
    LET list == <<"(">> \o params \o <<")">> IN
    Text(async \o <<"function", "a">> \o list \o <<"{", "}", "NL">>
             \o async \o list \o <<"=>", "a">>)
TwiceTexts ==
    {Twice(params, async) : params \in ParameterTexts, async \in {<<>>, <<"async">>}}

Texts == {Text(s) : s \in Seeds \cup Slipped} \cup TwiceTexts

(***************************************************************************)
(* The parameters of an arrow function are parsed as an expression first   *)
(* and then made into patterns, or parsed again; those of a function are   *)
(* parsed as patterns at once. What one accepts the other does, with the   *)
(* same result (reinterpretSequenceAsArrowFuncParams, parseAssignment-     *)
(* Expression, parseFunctionParameterList).                                *)
(***************************************************************************)
ArrowsAsFunctions ==
    Done /\ source \in TwiceTexts =>
        /\ ~p.errors
        /\ Len(result.list) = 2
        /\ result.list[1].function.params = result.list[2].expression.params
(***************************************************************************)
(* A text that is accepted is all in the tree: every name is there as many *)
(* times as in the text, none lost by an error that was not reported and   *)
(* none twice because its part of the text was parsed twice.               *)
(***************************************************************************)
Words == {"a", "b", "c", "1"}

RECURSIVE Count(_, _)
CountAll(list, word) ==
    FoldFunction(+, 0, [i \in DOMAIN list |-> Count(list[i], word)])
Plain == {"kind", "op", "word", "postfix", "delegate", "async", "generator", "static",
          "methodKind", "comma", "await"}
\* A record's fields are words and marks, terms, or lists of terms.
Count(t, word) ==
    LET named == t.kind \in {"Identifier", "Short"}
        isList(f) ==
           CASE f \in {"list", "sequence", "args", "elements", "properties", "cases"} -> TRUE
             [] f = "value" -> t.kind \in {"Array", "Object"}
             [] f = "body"  -> t.kind = "Class"
             [] f = "consequent" -> t.kind = "Case"
             [] OTHER -> FALSE
        of(f) == CASE f \in Plain -> 0
                   [] f = "name" /\ t.kind \in {"Identifier", "Short", "PrivateIdentifier"} -> 0
                   [] isList(f) -> CountAll(t[f], word)
                   [] OTHER -> Count(t[f], word)
    IN  (IF \/ named /\ t.name = word
            \/ t.kind = "Number" /\ t.word = word
         THEN 1 ELSE 0)
        + FoldFunction(+, 0, [f \in DOMAIN t |-> of(f)])

NothingLost ==
    Done /\ ~p.errors =>
       \A word \in Words :
          CountAll(result.list, word)
             = Cardinality({i \in DOMAIN source : source[i].word = word})
=============================================================================
