------------------------------ MODULE Programs ------------------------------
(***************************************************************************)
(* The texts that the checks of the parser and the generator begin from.   *)
(***************************************************************************)
EXTENDS Integers, Sequences

\* A text from its words; "NL" is a line break.
Text(words) ==
    LET at1 == SelectSeq([i \in DOMAIN words |-> i], LAMBDA i : words[i] # "NL")
    IN  [k \in DOMAIN at1 |->
            [word |-> words[at1[k]],
             onNewLine |-> at1[k] > 1 /\ words[at1[k] - 1] = "NL"]]

Expressions == {
    <<"a", "+", "b", "*", "-", "c", "-", "a">>,
    <<"a", "=", "b", "?", "c", ":", "(", "a", ",", "b", ")">>,
    <<"(", "a", ",", "[", "b", "]", "=", "c", ")", "=>", "a">>,
    <<"async", "(", "a", ",", "...", "b", ")", "=>", "await", "b">>,
    <<"async", "a", "=>", "{", "}">>,
    <<"new", "a", ".", "b", "(", "c", ")", "?.", "c", "(", "...", "a", ")">>,
    <<"new", "new", ".", "target", "(", ")">>,
    <<"a", "??", "(", "b", "||", "c", ")">>,
    <<"(", "-", "a", ")", "**", "b", "++">>,
    <<"delete", "a", "[", "b", ",", "c", "]">>,
    <<"[", "a", ",", ",", "...", "b", "]", "=", "c">>,
    <<"(", "{", "a", ",", "b", ":", "c", "=", "1", ",", "...", "c", "}", "=", "a", ")">>,
    <<"#a", "in", "b", "&&", "a", ".", "#a">>,
    <<"a", "=", "{", "get", "a", "(", ")", "{", "}", ",", "async", "*", "[", "b", "]",
      "(", ")", "{", "}", ",", "c", "(", ")", "{", "}", "}">> }

Statements == {
    <<"function", "*", "a", "(", ")", "{", "yield", "*", "b", ";", "yield", "}">>,
    <<"class", "a", "extends", "b", "{", "static", "{", "}", "static", "async", "a", "(", ")",
      "{", "super", ".", "b", "(", ")", "}", "#a", "=", "this", ";", "}">>,
    <<"var", "{", "a", ",", "[", "b", "]", ":", "[", "c", ",", ",", "...", "a", "]", "=", "b", ",",
      "...", "c", "}", "=", "a">>,
    <<"if", "(", "a", ")", "b", ";", "else", "let", "NL", "c">>,
    <<"for", "(", "var", "a", "in", "b", ",", "c", ")", "continue", ";">>,
    <<"for", "(", "a", ".", "b", "of", "c", ")", "break", ";">>,
    <<"for", "(", "a", "=", "b", "?", "a", "in", "b", ":", "[", "b", "in", "c", "]", ";",
      ";", ")", ";">>,
    <<"for", "(", "let", "a", "=", "b", ";", "a", "in", "c", ";", "a", "++", ")", "{", "}">>,
    <<"a", ":", "while", "(", "b", ")", "continue", "a", ";">>,
    <<"do", "a", "NL", "while", "(", "b", ")">>,
    <<"switch", "(", "a", ")", "{", "case", "b", ":", "c", ";", "default", ":", "break", "}">>,
    <<"try", "{", "}", "catch", "(", "a", ")", "{", "}", "finally", "{", "}">>,
    <<"with", "(", "a", ")", "throw", "b", "NL", "debugger">>,
    <<"async", "function", "a", "(", ")", "{", "for", "await", "(", "a", "of", "b", ")",
      "await", "c", "}">>,
    <<"function", "a", "(", "b", ",", "...", "c", ")", "{", "return", "b", "NL", "(", "c", ")", "}">> }

Seeds == Expressions \cup Statements

\* Lists of parameters.
Patterns1 == {
    <<"a">>, <<"[", "a", "]">>, <<"[", "]">>, <<"[", ",", "a", ",", "...", "b", "]">>,
    <<"[", "a", "=", "1", "]">>, <<"{", "}">>, <<"{", "a", ",", "...", "b", "}">>,
    <<"{", "a", "=", "1", "}">>, <<"{", "a", ":", "b", "}">>,
    <<"{", "a", ":", "[", "b", "]", "=", "1", "}">> }
One  == Patterns1 \cup {pat \o <<"=", "1">> : pat \in Patterns1}
Rest == {<<"...">> \o pat : pat \in Patterns1}
ParameterTexts ==
    {<<>>} \cup Rest \cup One \cup {one \o <<",">> : one \in One}
        \cup {one \o <<",", "c">> : one \in One}
        \cup {<<"c", ",">> \o one : one \in One \cup Rest}
=============================================================================
