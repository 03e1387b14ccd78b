------------------------------- MODULE Tokens -------------------------------
(***************************************************************************)
(* Token kinds and operators (parser/scanner/token, parser/operator.go,    *)
(* ast/operator.go). A kind is written as the token is spelled; a source   *)
(* is a sequence of words, each with whether a line break comes before it. *)
(***************************************************************************)
EXTENDS Integers

Names ==      \* words that are identifiers
    {"a", "b", "c", "of", "get", "set", "target", "constructor", "prototype"}
PrivateNames == {"#a"}
Numbers      == {"1"}

LogicalOps == {"&&", "||", "??"}
BinaryOps ==
    {"|", "^", "&", "==", "===", "!=", "!==", "<", ">", "<=", ">=", "in",
     "instanceof", "<<", ">>", ">>>", "+", "-", "*", "/", "%", "**"}
UnaryOps  == {"+", "-", "!", "~", "delete", "void", "typeof"}
UpdateOps == {"++", "--"}
AssignOps ==
    {"=", "+=", "-=", "*=", "**=", "/=", "%=", "&=", "|=", "^=", "<<=", ">>=",
     ">>>=", "&&=", "||=", "??="}

Reserved ==
    {"if", "in", "do", "var", "for", "new", "try", "this", "else", "case",
     "void", "with", "const", "while", "break", "catch", "throw", "class",
     "super", "return", "typeof", "delete", "switch", "default", "finally",
     "extends", "function", "continue", "debugger", "instanceof"}
Unreserved == {"let", "static", "async", "await", "yield"}

KindOf(word) ==
    CASE word \in Names   -> "Identifier"
      [] word \in Numbers -> "Number"
      [] word \in PrivateNames -> "PrivateIdentifier"
      [] OTHER            -> word

\* token.ID: the kinds that may name a property.
ID(kind) == kind \in {"Identifier"} \cup Reserved \cup Unreserved

\* How tightly an operator holds its operands: the parser's table, by token.
Lbp(kind) ==
    CASE kind = "??" -> 12
      [] kind = "||" -> 14
      [] kind = "&&" -> 16
      [] kind = "|"  -> 18
      [] kind = "^"  -> 20
      [] kind = "&"  -> 22
      [] kind \in {"==", "===", "!=", "!=="} -> 24
      [] kind \in {"<", ">", "<=", ">=", "instanceof", "in"} -> 26
      [] kind \in {"<<", ">>", ">>>"} -> 28
      [] kind \in {"+", "-"}          -> 30
      [] kind \in {"*", "/", "%"}     -> 32
      [] kind = "**" -> 35
      [] OTHER       -> 0
PrecedenceLowest  == 0
PrecedenceCompare == 26

\* ... and the generator's, by operator. Its other levels:
OpPrecedence(op) ==
    CASE op = "??" -> 6
      [] op = "||" -> 7
      [] op = "&&" -> 8
      [] op = "|"  -> 9
      [] op = "^"  -> 10
      [] op = "&"  -> 11
      [] op \in {"==", "===", "!=", "!=="} -> 12
      [] op \in {"<", ">", "<=", ">=", "instanceof", "in"} -> 13
      [] op \in {"<<", ">>", ">>>"} -> 14
      [] op \in {"+", "-"}          -> 15
      [] op \in {"*", "/", "%"}     -> 16
      [] op = "**" -> 17
Lowest      == 0
Comma       == 1
YieldPrec   == 3
Assign      == 4
Conditional == 5
Prefix      == 18
Postfix     == 19
NewPrec     == 20
CallPrec    == 21
MemberPrec  == 22
RightAssociative(prec) == prec \in {OpPrecedence("**"), Conditional, Assign}
=============================================================================
