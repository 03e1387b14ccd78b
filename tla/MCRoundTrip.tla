---------------------------- MODULE MCRoundTrip ----------------------------
(***************************************************************************)
(* Every operand in every context, in parentheses there, so that the tree  *)
(* has what no text without them has; the other constructs once each.      *)
(***************************************************************************)
EXTENDS RoundTrip, Programs

Operands == {
    <<"a">>, <<"1">>, <<"this">>, <<"a", "+", "b">>, <<"a", "*", "b">>,
    <<"a", "-", "b">>, <<"-", "a">>, <<"a", "++">>, <<"++", "a">>,
    <<"a", "=", "b">>, <<"a", "?", "b", ":", "c">>, <<"a", ",", "b">>,
    <<"a", "=>", "b">>, <<"async", "a", "=>", "b">>,
    <<"function", "(", ")", "{", "}">>, <<"class", "{", "}">>, <<"{", "}">>,
    <<"{", "a", ",", "b", ":", "c", "}">>, <<"[", "a", "]">>,
    <<"a", ".", "b">>, <<"a", "[", "b", "]">>, <<"a", "(", "b", ")">>,
    <<"a", "?.", "b">>, <<"a", "?.", "(", "b", ")", ".", "c">>, <<"new", "a">>,
    <<"new", "a", "(", "b", ")">>, <<"new", "a", ".", "b", "(", ")">>,
    <<"a", "(", ")", ".", "b">>, <<"a", "in", "b">>, <<"a", "&&", "b">>,
    <<"a", "||", "b">>, <<"a", "??", "b">>, <<"a", "**", "b">>,
    <<"typeof", "a">>, <<"[", "a", "]", "=", "b">>,
    <<"{", "a", "}", "=", "b">> }

\* X is where the operand goes.
Contexts == {
    <<"X">>, <<"X", "+", "c">>, <<"c", "+", "X">>, <<"X", "*", "c">>,
    <<"c", "-", "X">>, <<"X", "**", "c">>, <<"c", "**", "X">>, <<"-", "X">>,
    <<"typeof", "X">>, <<"c", "&&", "X">>, <<"X", "&&", "c">>,
    <<"c", "||", "X">>, <<"X", "||", "c">>, <<"c", "??", "X">>,
    <<"X", "??", "c">>, <<"X", "?", "b", ":", "c">>,
    <<"c", "?", "X", ":", "b">>, <<"c", "?", "b", ":", "X">>,
    <<"c", "=", "X">>, <<"X", ".", "c">>, <<"X", "[", "c", "]">>,
    <<"c", "[", "X", "]">>, <<"X", "(", "c", ")">>, <<"c", "(", "X", ")">>,
    <<"new", "X">>, <<"new", "X", "(", "c", ")">>, <<"[", "X", ",", "c", "]">>,
    <<"[", "...", "X", "]">>, <<"a", "=", "{", "a", ":", "X", "}">>,
    <<"a", "=", "{", "[", "X", "]", ":", "a", "}">>, <<"c", "=>", "X">>,
    <<"(", "a", "=", "X", ")", "=>", "c">>, <<"X", "?.", "c">>,
    <<"X", "?.", "(", "c", ")">>, <<"X", "in", "c">>, <<"c", "in", "X">>,
    <<"c", ",", "X">>, <<"X", ",", "c">>,
    <<"for", "(", "X", ";", ";", ")", ";">>,
    <<"for", "(", "var", "c", "=", "X", ";", ";", ")", ";">>,
    <<"for", "(", "c", "in", "X", ")", ";">>,
    <<"for", "(", "c", "of", "X", ")", ";">>,
    <<"for", "(", ";", "X", ";", "X", ")", ";">>, <<"if", "(", "X", ")", ";">>,
    <<"while", "(", "X", ")", ";">>, <<"do", ";", "while", "(", "X", ")">>,
    <<"with", "(", "X", ")", ";">>, <<"throw", "X">>,
    <<"switch", "(", "X", ")", "{", "case", "X", ":", "}">>,
    <<"class", "c", "extends", "X", "{", "}">>,
    <<"class", "c", "{", "a", "=", "X", "}">>,
    <<"class", "c", "{", "[", "X", "]", "=", "X", "}">>,
    <<"var", "c", "=", "X">>,
    <<"var", "{", "[", "X", "]", ":", "c", "=", "X", "}", "=", "c">>,
    <<"function", "c", "(", "a", "=", "X", ")", "{", "return", "X", "}">>,
    <<"async", "function", "c", "(", ")", "{", "await", "X", "}">>,
    <<"function", "*", "c", "(", ")", "{", "yield", "X", "}">>,
    <<"function", "*", "c", "(", ")", "{", "c", "=", "yield", "*", "X", "}">> }

Put(context, operand) ==
    FlattenSeq([i \in DOMAIN context |->
                   IF context[i] = "X" THEN <<"(">> \o operand \o <<")">>
                   ELSE <<context[i]>>])

(***************************************************************************)
(* Pairs for which the generator leaves out parentheses the tree needs.    *)
(***************************************************************************)
\* An object, function or class first in a statement, but not all of it.
Opening == {o \in Operands : Head(o) \in {"{", "function", "class"}}
First   == {c \in Contexts : Len(c) > 1 /\ Head(c) = "X"
                             /\ c[2] \notin {".", "[", "(", "?."}}
\* A class's heritage that is more than calls and members.
Heritage == <<"class", "c", "extends", "X", "{", "}">>
NotHeritage(o) ==
    \/ Head(o) \in {"-", "++", "typeof", "async"}
    \/ \E i \in DOMAIN o : o[i] \in BinaryOps \cup LogicalOps \cup {"?", "=", "=>", "++"}
\* The callee of new with a call inside, but not at the end.
NewContexts == {c \in Contexts : Head(c) = "new"}
CallInside  == {<<"a", "(", ")", ".", "b">>, <<"a", "?.", "b">>,
                <<"a", "?.", "(", "b", ")", ".", "c">>}
Unparenthesised ==
    {<<c, o>> \in First \X Opening : Last(o) = "b" => c[2] = ","}
    \cup {Heritage} \X {o \in Operands : NotHeritage(o)}
    \cup NewContexts \X CallInside
    \cup {<< <<"c", "=>", "X">>, <<"{", "a", "}", "=", "b">> >>,
          << <<"for", "(", "c", "of", "X", ")", ";">>, <<"a", ",", "b">> >>,
          << <<"for", "(", "var", "c", "=", "X", ";", ";", ")", ";">>, <<"a", "in", "b">> >> }

\* A parameter list as those of a function and of an arrow function.
WithParameters(list) ==
    {<<"function", "a", "(">> \o list \o <<")", "{", "}">>,
     <<"(">> \o list \o <<")", "=>", "a">>}

Texts ==
    {Text(Put(c[1], c[2])) : c \in (Contexts \X Operands) \ Unparenthesised}
        \cup {Text(s) : s \in Seeds}
        \cup UNION {{Text(s) : s \in WithParameters(list)} : list \in ParameterTexts}

\* new (a().b)()
NewOfCall == {Text(<<"new", "(", "a", "(", ")", ".", "b", ")", "(", ")">>)}
=============================================================================
