-------------------------------- MODULE Ast --------------------------------
(***************************************************************************)
(* Expressions, patterns and statements as terms (ast/expr.go, pattern.go, *)
(* stmt.go). Every term has a kind; None is a zero ast.Expression, ast.    *)
(* Pattern or a nil pointer.                                               *)
(***************************************************************************)
EXTENDS Sequences

None    == [kind |-> "None"]
Nothing == [kind |-> "Nothing"]   \* a pointer to a zero ast.Expression
Invalid == [kind |-> "Invalid"]
InvalidPattern == [kind |-> "InvalidPattern"]
Ident(name)    == [kind |-> "Identifier", name |-> name]
List(list)     == [kind |-> "List", list |-> list]     \* a slice of terms
PrivateName(name) == [kind |-> "PrivateIdentifier", name |-> name]
Literal(word)  == [kind |-> "Number", word |-> word]
This           == [kind |-> "This"]
Super          == [kind |-> "Super"]
Binary(op, left, right) ==
    [kind |-> "Binary", op |-> op, left |-> left, right |-> right]
Logical(op, left, right) ==
    [kind |-> "Logical", op |-> op, left |-> left, right |-> right]
Unary(op, operand) == [kind |-> "Unary", op |-> op, operand |-> operand]
Update(op, operand, postfix) ==
    [kind |-> "Update", op |-> op, operand |-> operand, postfix |-> postfix]
AssignTo(op, left, right) ==
    [kind |-> "Assign", op |-> op, left |-> left, right |-> right]
Choice(test, consequent, alternate) ==
    [kind |-> "Conditional", test |-> test, consequent |-> consequent,
     alternate |-> alternate]
Sequence(exprs)    == [kind |-> "Sequence", sequence |-> exprs]
Yield(star, arg)   == [kind |-> "Yield", delegate |-> star, argument |-> arg]
Await(arg)         == [kind |-> "Await", argument |-> arg]
Spread(expr)       == [kind |-> "Spread", expr |-> expr]
Call(callee, args) == [kind |-> "Call", callee |-> callee, args |-> args]
New(callee, args)  == [kind |-> "New", callee |-> callee, args |-> args]
Dot(object, name)  ==
    [kind |-> "Member", object |-> object, property |-> Ident(name)]
Index(object, expr) ==
    [kind |-> "Member", object |-> object,
     property |-> [kind |-> "Computed", expr |-> expr]]
PrivateDot(object, name) ==
    [kind |-> "PrivateDot", object |-> object, property |-> PrivateName(name)]
Optional(expr)      == [kind |-> "Optional", expr |-> expr]
OptionalChain(base) == [kind |-> "OptionalChain", base |-> base]
NewTarget           == [kind |-> "MetaProperty"]
\* comma: whether the text has a comma before the closing bracket.
Array(value, comma) == [kind |-> "Array", value |-> value, comma |-> comma]
Object(value)       == [kind |-> "Object", value |-> value]
Arrow(async, params, body) ==
    [kind |-> "Arrow", async |-> async, params |-> params, body |-> body]

\* Parameters and declarations: a pattern with an initializer or None.
Declarator(target, initializer) ==
    [kind |-> "Declarator", target |-> target, initializer |-> initializer]
Parameters(list, rest) == [kind |-> "Parameters", list |-> list, rest |-> rest]

ArrayPattern(elements, rest) ==
    [kind |-> "ArrayPattern", elements |-> elements, rest |-> rest]
ObjectPattern(properties, rest) ==
    [kind |-> "ObjectPattern", properties |-> properties, rest |-> rest]
AssignPattern(left, right) ==
    [kind |-> "AssignPattern", left |-> left, right |-> right]

\* Properties of object literals and patterns.
KeyValue(key, value) == [kind |-> "KeyValue", key |-> key, value |-> value]
Short(name, initializer) ==
    [kind |-> "Short", name |-> name, initializer |-> initializer]
Computed(expr)     == [kind |-> "Computed", expr |-> expr]

\* Functions and classes. A method's kind is "method", "get" or "set".
Function(name, params, body, async, generator) ==
    [kind |-> "Function", name |-> name, params |-> params, body |-> body,
     async |-> async, generator |-> generator]
Method(key, methodKind, function, static) ==
    [kind |-> "Method", key |-> key, methodKind |-> methodKind,
     function |-> function, static |-> static]
Field(key, initializer, static) ==
    [kind |-> "Field", key |-> key, initializer |-> initializer, static |-> static]
StaticBlock(block) == [kind |-> "StaticBlock", block |-> block]
Class(name, super, body) ==
    [kind |-> "Class", name |-> name, superClass |-> super, body |-> body]

\* Statements.
Bad         == [kind |-> "Bad"]
Empty       == [kind |-> "Empty"]
Debugger    == [kind |-> "Debugger"]
Block(list) == [kind |-> "Block", list |-> list]
ExpressionStmt(expr) == [kind |-> "ExpressionStmt", expression |-> expr]
FunctionDecl(f)      == [kind |-> "FunctionDecl", function |-> f]
ClassDecl(c)         == [kind |-> "ClassDecl", class |-> c]
VarDecl(word, list)  == [kind |-> "VarDecl", word |-> word, list |-> list]
If(test, consequent, alternate) ==
    [kind |-> "If", test |-> test, consequent |-> consequent,
     alternate |-> alternate]
DoWhile(body, test)  == [kind |-> "DoWhile", body |-> body, test |-> test]
While(test, body)    == [kind |-> "While", test |-> test, body |-> body]
With(object, body)   == [kind |-> "With", object |-> object, body |-> body]
For(init, test, update, body) ==
    [kind |-> "For", init |-> init, test |-> test, update |-> update, body |-> body]
ForIn(into, src, body) ==
    [kind |-> "ForIn", into |-> into, source |-> src, body |-> body]
ForOf(await, into, src, body) ==
    [kind |-> "ForOf", await |-> await, into |-> into, source |-> src, body |-> body]
\* break and continue, with a label or None.
Jump(word, label)    == [kind |-> "Jump", word |-> word, label |-> label]
Return(argument)     == [kind |-> "Return", argument |-> argument]
Throw(argument)      == [kind |-> "Throw", argument |-> argument]
Labelled(label, statement) ==
    [kind |-> "Labelled", label |-> label, statement |-> statement]
Case(test, consequent) == [kind |-> "Case", test |-> test, consequent |-> consequent]
Switch(discriminant, cases) ==
    [kind |-> "Switch", discriminant |-> discriminant, cases |-> cases]
Catch(parameter, body) == [kind |-> "Catch", parameter |-> parameter, body |-> body]
Try(block, catch, finally) ==
    [kind |-> "Try", block |-> block, catch |-> catch, finally |-> finally]
=============================================================================
