------------------------------ MODULE Resolver ------------------------------
(***************************************************************************)
(* The resolver (resolver/resolver.go, hoister.go, binding.go): a visitor  *)
(* that walks a syntax tree once and stamps every identifier with the      *)
(* context of the scope its binding lives in.                              *)
(*                                                                         *)
(* The recursion of the Go methods is a stack of things left to do. A step *)
(* is one visitor method up to its next call: it pops its own entry and    *)
(* pushes the visits and the restores of saved fields that the rest of its *)
(* body consists of. Four visitors share the walk:                         *)
(*   "resolve"    resolver        "declare"  resolverBinder                *)
(*   "hoist"      hoister         "hoistPattern"  hoisterBinder            *)
(***************************************************************************)
EXTENDS ScopeTable, SyntaxTree

CONSTANT Programs    \* the syntax trees to resolve, each a node table

ASSUME ProgramsAssumption == \A tree \in Programs : WellFormedTree(tree, Name)

VARIABLES
    ast,         \* the tree being resolved; never changes
    ctxOf,       \* node -> the ScopeContext field of the node
    todo,        \* the calls and restores still to be done, next first
    identType,   \* resolver.identType
    declKind,    \* resolver.declKind
    hoister      \* the fields of resolver.hoister

vars == <<tableVars, ast, ctxOf, todo, identType, declKind, hoister>>

identTypeRef     == 0
identTypeBinding == 1

\* The fields of the shared hoister as VisitStatements resets them.
freshHoister ==
    [kind |-> declKindVar, inBlock |-> FALSE, inCatchBody |-> FALSE,
     excludedFromCatch |-> {}, catchParamDecls |-> {}]

-----------------------------------------------------------------------------
\* Entries of todo.

ResolverOps == {"resolve", "declare", "declarator"}
HoisterOps  == {"hoist", "hoistPattern"}
SaveOps     == {"inBlock", "kind", "catchDone"}

visit(op, n) == [op |-> op, node |-> n]
visitAll(op, nodes) == [i \in DOMAIN nodes |-> visit(op, nodes[i])]
visitKids(op, n) == visitAll(op, Children(ast, n))
visitSome(op, nodes) == visitAll(op, Sublist(nodes, DOMAIN ast))

popTask                 == [op |-> "popScope"]
modifyTask(n, kind)     == [op |-> "modify", node |-> n, kind |-> kind]
identTypeTask(t)        == [op |-> "identType", val |-> t]
declKindTask(k)         == [op |-> "declKind", val |-> k]
inBlockTask(b)          == [op |-> "inBlock", val |-> b]
kindTask(k)             == [op |-> "kind", val |-> k]
catchTask(saved, param) == [op |-> "catchDone", val |-> saved, drop |-> param]

\* What a catch clause saves of the hoister's fields h.
catchFields(h) ==
    [inCatchBody |-> h.inCatchBody, excludedFromCatch |-> h.excludedFromCatch]

\* The hoister's fields h after a restore t: only what was saved comes back. A
\* catch clause takes its parameter out of catchParamDecls too.
restored(h, t) ==
    CASE t.op = "inBlock"   -> [h EXCEPT !.inBlock = t.val]
      [] t.op = "kind"      -> [h EXCEPT !.kind = t.val]
      [] t.op = "catchDone" ->
           [h EXCEPT !.inCatchBody = t.val.inCatchBody,
                     !.excludedFromCatch = t.val.excludedFromCatch,
                     !.catchParamDecls = @ \ t.drop]

Top  == Head(todo)
node == Top.node
kid(i) == ast[node].kids[i]

\* The next thing to do is visitor op's visit of a node of the given kind.
visiting(op, kind) ==
    /\ todo # <<>>
    /\ Top.op = op
    /\ ast[node].kind = kind

then(tasks) == todo' = tasks \o Tail(todo)

currentCtx == heap[current].ctx

\* Seeded fault: an identifier that has a context is bound again.
modifyAlways(n, kind) ==
    /\ declare(ast[n].attr, kind)
    /\ ctxOf' = [ctxOf EXCEPT ![n] = currentCtx]

\* modify: bind an identifier in the current scope unless it has a context.
modify(n, kind) ==
    IF ctxOf[n] # UnresolvedContext THEN UNCHANGED <<tableVars, ctxOf>>
    ELSE /\ declare(ast[n].attr, kind)
         /\ ctxOf' = [ctxOf EXCEPT ![n] = currentCtx]

-----------------------------------------------------------------------------
\* Entries that are not visits: restores of saved fields, and the table
\* operations that follow a call inside a method.

PopScope ==
    /\ todo # <<>> /\ Top.op = "popScope"
    /\ popScope \/ (rootScope /\ UNCHANGED tableVars)
    /\ then(<<>>)
    /\ UNCHANGED <<ctxOf, identType, declKind, hoister>>

Modify ==
    /\ todo # <<>> /\ Top.op = "modify"
    /\ modify(node, Top.kind)
    /\ then(<<>>)
    /\ UNCHANGED <<identType, declKind, hoister>>

Restore ==
    /\ todo # <<>>
    /\ Top.op \in {"identType", "declKind"} \cup SaveOps
    /\ identType' = IF Top.op = "identType" THEN Top.val ELSE identType
    /\ declKind' = IF Top.op = "declKind" THEN Top.val ELSE declKind
    /\ hoister' = IF Top.op \in SaveOps THEN restored(hoister, Top) ELSE hoister
    /\ then(<<>>)
    /\ UNCHANGED <<tableVars, ctxOf>>

-----------------------------------------------------------------------------
\* The resolver.

\* Programs and blocks open a scope; only a block records its context.
VisitProgram ==
    /\ visiting("resolve", "Program")
    /\ pushScope
    /\ then(visitKids("resolve", node) \o <<popTask>>)
    /\ UNCHANGED <<ctxOf, identType, declKind, hoister>>

VisitBlockStatement ==
    /\ visiting("resolve", "BlockStatement")
    /\ pushScope
    /\ ctxOf' = [ctxOf EXCEPT ![node] = nextCtxt]
    /\ then(visitKids("resolve", node) \o <<popTask>>)
    /\ UNCHANGED <<identType, declKind, hoister>>

\* Seeded fault: the context of the function's own node is not recorded.
VisitFunctionUnrecorded ==
    /\ visiting("resolve", "FunctionLiteral")
    /\ pushScope
    /\ ctxOf' = [ctxOf EXCEPT ![kid(3)] = nextCtxt]
    /\ then((IF kid(1) = NoNode THEN <<>>
             ELSE <<modifyTask(kid(1), declKindFunction)>>)
            \o <<identTypeTask(identTypeBinding), visit("resolve", kid(2)),
                 identTypeTask(identTypeRef)>>
            \o visitKids("resolve", kid(3))
            \o <<identTypeTask(identType), popTask>>)
    /\ UNCHANGED <<identType, declKind, hoister>>

\* A function's parameters and body share the function's scope, and so does
\* the name of the function unless the hoister bound it outside.
VisitFunctionLiteral ==
    /\ visiting("resolve", "FunctionLiteral")
    /\ pushScope
    /\ ctxOf' = [ctxOf EXCEPT ![node] = nextCtxt, ![kid(3)] = nextCtxt]
    /\ then((IF kid(1) = NoNode THEN <<>>
             ELSE <<modifyTask(kid(1), declKindFunction)>>)
            \o <<identTypeTask(identTypeBinding), visit("resolve", kid(2)),
                 identTypeTask(identTypeRef)>>
            \o visitKids("resolve", kid(3))
            \o <<identTypeTask(identType), popTask>>)
    /\ UNCHANGED <<identType, declKind, hoister>>

VisitArrowFunctionLiteral ==
    /\ visiting("resolve", "ArrowFunctionLiteral")
    /\ pushScope
    /\ LET block == Is(ast, kid(2), "BlockStatement")
       IN /\ ctxOf' = [m \in DOMAIN ctxOf |->
                         IF m = node \/ (block /\ m = kid(2)) THEN nextCtxt
                                                              ELSE ctxOf[m]]
          /\ then(<<visit("resolve", kid(1)), identTypeTask(identTypeRef)>>
                  \o (IF block THEN visitKids("resolve", kid(2))
                               ELSE <<visit("resolve", kid(2))>>)
                  \o <<identTypeTask(identType), popTask>>)
    /\ identType' = identTypeBinding
    /\ UNCHANGED <<declKind, hoister>>

\* The loop scope holds the head's bindings; a block body opens its own, whose
\* context replaces the one the loop gives it first.
VisitForInOfStatement ==
    /\ visiting("resolve", "ForInOfStatement")
    /\ pushScope
    /\ ctxOf' = IF Is(ast, kid(3), "BlockStatement")
                THEN [ctxOf EXCEPT ![kid(3)] = nextCtxt] ELSE ctxOf
    /\ then(visitKids("resolve", node)
            \o <<identTypeTask(identType), popTask>>)
    /\ identType' = identTypeRef
    /\ UNCHANGED <<declKind, hoister>>

VisitForStatement ==
    /\ visiting("resolve", "ForStatement")
    /\ pushScope
    /\ then(visitSome("resolve", <<kid(1)>>)
            \o <<identTypeTask(identTypeRef)>>
            \o visitSome("resolve", <<kid(2), kid(3)>>)
            \o <<identTypeTask(identType), visit("resolve", kid(4)), popTask>>)
    /\ identType' = identTypeBinding
    /\ UNCHANGED <<ctxOf, declKind, hoister>>

\* A catch clause's parameter and body share one scope.
VisitCatchClause ==
    /\ visiting("resolve", "CatchClause")
    /\ pushScope
    /\ ctxOf' = [ctxOf EXCEPT ![kid(2)] = nextCtxt]
    /\ then((IF kid(1) = NoNode THEN <<>>
             ELSE <<identTypeTask(identTypeBinding), visit("resolve", kid(1)),
                    identTypeTask(identType)>>)
            \o visitKids("resolve", kid(2)) \o <<popTask>>)
    /\ UNCHANGED <<identType, declKind, hoister>>

VisitClassDeclaration ==
    /\ visiting("resolve", "ClassDeclaration")
    /\ LET name == ast[kid(1)].kids[1]
       IN then((IF name = NoNode THEN <<>>
                ELSE <<modifyTask(name, declKindClass)>>)
               \o visitKids("resolve", node))
    /\ UNCHANGED <<tableVars, ctxOf, identType, declKind, hoister>>

\* The name of a class expression gets a scope around the class; the name of
\* a declaration already has its context.
VisitClassLiteral ==
    /\ visiting("resolve", "ClassLiteral")
    /\ LET inner == kid(1) # NoNode /\ ctxOf[kid(1)] = UnresolvedContext
       IN /\ IF inner THEN pushScope ELSE UNCHANGED tableVars
          /\ then((IF inner THEN <<modifyTask(kid(1), declKindClass)>>
                            ELSE <<>>)
                  \o visitSome("resolve", <<kid(2), kid(3)>>)
                  \o (IF inner THEN <<popTask>> ELSE <<>>))
    /\ UNCHANGED <<ctxOf, identType, declKind, hoister>>

\* All parameters are bound before any default or computed key is resolved.
VisitParameterList ==
    /\ visiting("resolve", "ParameterList")
    /\ then(visitKids("declare", node)
            \o <<identTypeTask(identTypeRef)>>
            \o visitKids("resolve", node)
            \o <<identTypeTask(identType)>>)
    /\ UNCHANGED <<tableVars, ctxOf, identType, declKind, hoister>>

\* Seeded fault: a statement list is walked without the pre-pass.
VisitStatementsUnhoisted ==
    /\ visiting("resolve", "Statements")
    /\ hoister' = freshHoister
    /\ then(visitKids("resolve", node))
    /\ UNCHANGED <<tableVars, ctxOf, identType, declKind>>

\* Every statement list is hoisted, with a reset hoister, before it is walked.
VisitStatements ==
    /\ visiting("resolve", "Statements")
    /\ hoister' = freshHoister
    /\ then(<<visit("hoist", node)>> \o visitKids("resolve", node))
    /\ UNCHANGED <<tableVars, ctxOf, identType, declKind>>

\* The loop over the declarators is a round for each, then the restore.
VisitVariableDeclaration ==
    /\ visiting("resolve", "VariableDeclaration")
    /\ then(visitAll("declarator", ast[node].kids) \o <<declKindTask(declKind)>>)
    /\ declKind' = declKindVar
    /\ UNCHANGED <<tableVars, ctxOf, identType, hoister>>

\* The target is a binding, the initialiser is resolved as the saved type says.
Declarator ==
    /\ todo # <<>> /\ Top.op = "declarator"
    /\ then(<<visit("resolve", kid(1)), identTypeTask(identType)>>
            \o visitSome("resolve", <<kid(2)>>))
    /\ identType' = identTypeBinding
    /\ UNCHANGED <<tableVars, ctxOf, declKind, hoister>>

VisitExpression ==
    /\ visiting("resolve", "Expression")
    /\ then(visitKids("resolve", node) \o <<identTypeTask(identType)>>)
    /\ identType' = identTypeRef
    /\ UNCHANGED <<tableVars, ctxOf, declKind, hoister>>

\* A reference takes the context of the innermost visible binding; without
\* one, like a binding, it is declared in the current scope.
VisitIdentifier ==
    /\ visiting("resolve", "Identifier")
    /\ LET seen == lookup(ast[node].attr).ctx
       IN IF /\ ctxOf[node] = UnresolvedContext
             /\ identType = identTypeRef
             /\ seen # UnresolvedContext
          THEN /\ ctxOf' = [ctxOf EXCEPT ![node] = seen]
               /\ UNCHANGED tableVars
          ELSE modify(node, declKind)
    /\ then(<<>>)
    /\ UNCHANGED <<identType, declKind, hoister>>

\* The name after the dot of a member access is not an identifier reference.
VisitMemberProperty ==
    /\ visiting("resolve", "MemberProperty")
    /\ then(IF ast[node].attr = "computed" THEN visitKids("resolve", node)
                                           ELSE <<>>)
    /\ UNCHANGED <<tableVars, ctxOf, identType, declKind, hoister>>

\* The node types the resolver does not override hand on their children.
resolverDefault ==
    {"Other", "VariableDeclarator", "Pattern", "FunctionDeclaration",
     "SwitchStatement"}

VisitChildren ==
    /\ \E k \in resolverDefault : visiting("resolve", k)
    /\ then(visitKids("resolve", node))
    /\ UNCHANGED <<tableVars, ctxOf, identType, declKind, hoister>>

\* resolverBinder: binds the identifiers of a pattern, skips expressions.
BinderVisit ==
    /\ todo # <<>> /\ Top.op = "declare"
    /\ CASE ast[node].kind = "Identifier" ->
              modify(node, declKind) /\ then(<<>>)
         [] ast[node].kind = "Expression" ->
              then(<<>>) /\ UNCHANGED <<tableVars, ctxOf>>
         [] OTHER ->
              then(visitKids("declare", node)) /\ UNCHANGED <<tableVars, ctxOf>>
    /\ UNCHANGED <<identType, declKind, hoister>>

-----------------------------------------------------------------------------
\* The hoister. It never opens a scope: it binds into the current one.

\* Declarations first, then the other statements.
HoistStatements ==
    /\ visiting("hoist", "Statements")
    /\ LET first == {"VariableDeclaration", "FunctionDeclaration"}
           decls == {m \in DOMAIN ast : ast[m].kind \in first}
           list == ast[node].kids
       IN then(visitAll("hoist", Sublist(list, decls)
                                 \o Sublist(list, DOMAIN ast \ decls)))
    /\ UNCHANGED <<tableVars, ctxOf, identType, declKind, hoister>>

\* Seeded fault: the block flag is not restored when the block ends.
HoistBlockUnrestored ==
    /\ visiting("hoist", "BlockStatement")
    /\ hoister' = [hoister EXCEPT !.inBlock = TRUE]
    /\ then(visitKids("hoist", node))
    /\ UNCHANGED <<tableVars, ctxOf, identType, declKind>>

\* Inside a block lexical declarations stay where they are.
HoistBlockStatement ==
    /\ visiting("hoist", "BlockStatement")
    /\ hoister' = [hoister EXCEPT !.inBlock = TRUE]
    /\ then(visitKids("hoist", node) \o <<inBlockTask(hoister.inBlock)>>)
    /\ UNCHANGED <<tableVars, ctxOf, identType, declKind>>

\* Seeded fault: a clause takes its parameter out though one around it has it too.
HoistCatchDropsOuter ==
    /\ visiting("hoist", "CatchClause")
    /\ LET plain == kid(1) # NoNode /\ Is(ast, ast[kid(1)].kids[1], "Identifier")
           param == IF plain THEN {ast[ast[kid(1)].kids[1]].attr} ELSE {}
       IN /\ hoister' = [hoister EXCEPT
                           !.excludedFromCatch = {},
                           !.inCatchBody = TRUE,
                           !.catchParamDecls = @ \cup param]
          /\ then(<<visit("hoist", kid(2)), catchTask(catchFields(hoister), param)>>)
    /\ UNCHANGED <<tableVars, ctxOf, identType, declKind>>

\* Only a plain identifier counts as the clause's parameter.
HoistCatchClause ==
    /\ visiting("hoist", "CatchClause")
    /\ LET plain == kid(1) # NoNode /\ Is(ast, ast[kid(1)].kids[1], "Identifier")
           param == IF plain THEN {ast[ast[kid(1)].kids[1]].attr} ELSE {}
       IN /\ hoister' = [hoister EXCEPT
                           !.excludedFromCatch = {},
                           !.inCatchBody = TRUE,
                           !.catchParamDecls = @ \cup param]
          /\ then(<<visit("hoist", kid(2)),
                    catchTask(catchFields(hoister),
                              param \ hoister.catchParamDecls)>>)
    /\ UNCHANGED <<tableVars, ctxOf, identType, declKind>>

\* hoistBlockBody, also for the body of a switch.
hoistBlockBody(body) ==
    <<inBlockTask(TRUE), visit("hoist", body), inBlockTask(hoister.inBlock)>>

\* A loop head's var is hoisted; its let stays with the loop.
HoistLoop ==
    /\ \/ visiting("hoist", "ForStatement")
       \/ visiting("hoist", "ForInOfStatement")
    /\ LET head == kid(1)
           isVar == /\ Is(ast, head, "VariableDeclaration")
                    /\ ast[head].attr = "var"
       IN then((IF isVar THEN <<visit("hoist", head)>> ELSE <<>>)
               \o hoistBlockBody(Last(ast[node].kids)))
    /\ UNCHANGED <<tableVars, ctxOf, identType, declKind, hoister>>

HoistSwitchStatement ==
    /\ visiting("hoist", "SwitchStatement")
    /\ then(<<visit("hoist", kid(1))>> \o hoistBlockBody(kid(2)))
    /\ UNCHANGED <<tableVars, ctxOf, identType, declKind, hoister>>

\* Seeded fault: a block's let and const are hoisted out of it.
HoistEveryDeclaration ==
    /\ visiting("hoist", "VariableDeclaration")
    /\ hoister' = [hoister EXCEPT !.kind = declKindVar]
    /\ then(visitKids("hoist", node) \o <<kindTask(hoister.kind)>>)
    /\ UNCHANGED <<tableVars, ctxOf, identType, declKind>>

\* A block's let and const are left to the walk of the block.
HoistVariableDeclaration ==
    /\ visiting("hoist", "VariableDeclaration")
    /\ IF hoister.inBlock /\ ast[node].attr # "var"
       THEN then(<<>>) /\ UNCHANGED hoister
       ELSE /\ hoister' = [hoister EXCEPT !.kind = declKindVar]
            /\ then(visitKids("hoist", node) \o <<kindTask(hoister.kind)>>)
    /\ UNCHANGED <<tableVars, ctxOf, identType, declKind>>

\* A function of a block is hoisted out of it unless a class has its name.
HoistFunctionDeclaration ==
    /\ visiting("hoist", "FunctionDeclaration")
    /\ LET name == ast[kid(1)].kids[1]
           entry == lookup(ast[name].attr)
       IN IF \/ ast[name].attr \in hoister.catchParamDecls
             \/ hoister.inBlock /\ entry.kind = declKindClass
          THEN UNCHANGED <<tableVars, ctxOf>>
          ELSE modify(name, declKindFunction)
    /\ then(<<>>)
    /\ UNCHANGED <<identType, declKind, hoister>>

HoistPattern ==
    /\ visiting("hoist", "Pattern")
    /\ then(<<visit("hoistPattern", node)>>)
    /\ UNCHANGED <<tableVars, ctxOf, identType, declKind, hoister>>

\* Nested functions and expressions hoist to themselves, later.
hoisterSkips ==
    {"Expression", "FunctionLiteral", "ArrowFunctionLiteral", "Identifier"}
hoisterDefault ==
    {"Other", "VariableDeclarator", "ClassDeclaration", "ClassLiteral"}

HoistChildren ==
    /\ \E k \in hoisterSkips \cup hoisterDefault : visiting("hoist", k)
    /\ then(IF ast[node].kind \in hoisterSkips THEN <<>>
                                               ELSE visitKids("hoist", node))
    /\ UNCHANGED <<tableVars, ctxOf, identType, declKind, hoister>>

\* addIdentifier, called for every identifier in binding position. In the body
\* of a catch clause a var with the parameter's name takes the binding that is
\* visible outside the clause, if there is one.
addIdentifier(id) ==
    LET name == ast[id].attr
        isParam == name \in hoister.catchParamDecls
        seen == lookup(name).ctx
    IN CASE hoister.inCatchBody /\ isParam /\ seen # UnresolvedContext ->
              /\ ctxOf' = [ctxOf EXCEPT ![id] = seen]
              /\ UNCHANGED <<tableVars, hoister>>
         [] ~hoister.inCatchBody /\ isParam
               /\ name \notin hoister.excludedFromCatch ->
              UNCHANGED <<tableVars, ctxOf, hoister>>
         [] OTHER ->
              /\ modify(id, hoister.kind)
              /\ hoister' = IF hoister.inCatchBody
                            THEN [hoister EXCEPT !.excludedFromCatch =
                                     @ \cup {name}]
                            ELSE hoister

\* hoisterBinder.
HoistBinderVisit ==
    /\ todo # <<>> /\ Top.op = "hoistPattern"
    /\ CASE ast[node].kind = "Identifier" -> addIdentifier(node) /\ then(<<>>)
         [] ast[node].kind = "Expression" ->
              then(<<>>) /\ UNCHANGED <<tableVars, ctxOf, hoister>>
         [] OTHER -> /\ then(visitKids("hoistPattern", node))
                     /\ UNCHANGED <<tableVars, ctxOf, hoister>>
    /\ UNCHANGED <<identType, declKind>>

-----------------------------------------------------------------------------

Init ==
    /\ TableInit
    /\ ast \in Programs
    /\ ctxOf = [n \in DOMAIN ast |-> UnresolvedContext]
    /\ todo = <<visit("resolve", 1)>>
    /\ identType = identTypeRef
    /\ declKind = declKindVar
    /\ hoister = freshHoister

Resolve ==
    \/ PopScope \/ Modify \/ Restore
    \/ VisitProgram \/ VisitBlockStatement \/ VisitFunctionLiteral
    \/ VisitArrowFunctionLiteral \/ VisitForInOfStatement \/ VisitForStatement
    \/ VisitCatchClause \/ VisitClassDeclaration \/ VisitClassLiteral
    \/ VisitParameterList \/ VisitStatements \/ VisitVariableDeclaration
    \/ Declarator \/ VisitExpression \/ VisitIdentifier \/ VisitMemberProperty
    \/ VisitChildren \/ BinderVisit
    \/ HoistStatements \/ HoistBlockStatement \/ HoistCatchClause \/ HoistLoop
    \/ HoistSwitchStatement \/ HoistVariableDeclaration
    \/ HoistFunctionDeclaration \/ HoistPattern \/ HoistChildren
    \/ HoistBinderVisit

\* Resolve has returned.
done == todo = <<>>

Next ==
    \/ Resolve /\ UNCHANGED ast
    \/ done /\ UNCHANGED vars

Spec == Init /\ [][Next]_vars

-----------------------------------------------------------------------------

fields == [kind : DeclKind, inBlock : BOOLEAN, inCatchBody : BOOLEAN,
           excludedFromCatch : SUBSET Name, catchParamDecls : SUBSET Name]

ResolverTypeOK ==
    /\ TypeOK
    /\ ctxOf \in [DOMAIN ast -> ScopeContext]
    /\ identType \in {identTypeRef, identTypeBinding}
    /\ declKind \in DeclKind
    /\ hoister \in fields

\* The shared hoister is safe to reset (resolver.go, VisitStatements): while
\* the resolver does anything, no hoister run is suspended underneath it, and
\* every run has put the fields back the way it found them.
HoisterRunsNeverOverlap ==
    /\ \A i, j \in DOMAIN todo :
         i < j /\ todo[i].op \in ResolverOps \cup {"popScope", "modify"}
            => todo[j].op \notin HoisterOps \cup SaveOps
    /\ (\A i \in DOMAIN todo : todo[i].op \notin HoisterOps \cup SaveOps)
         => hoister = freshHoister

\* hoisterBinder comes to n, which is, in the body of a catch clause, a var of
\* the name of its parameter.
varOfCatchParam(n) ==
    /\ todo # <<>> /\ Top.op = "hoistPattern" /\ node = n
    /\ hoister.inCatchBody /\ ast[n].attr \in hoister.catchParamDecls

\* An identifier that has a context keeps it: the block's own hoister run and
\* the walk find what the enclosing function's run decided. The exception is a
\* var of a catch body that has the parameter's name: addIdentifier gives it the
\* binding that is visible, and comes by for each list around it.
ResolvedOnce ==
    [][\A n \in DOMAIN ast :
         (/\ ast[n].kind = "Identifier"
          /\ ctxOf[n] # UnresolvedContext
          /\ ~varOfCatchParam(n))
            => ctxOf'[n] = ctxOf[n]]_vars

-----------------------------------------------------------------------------
(***************************************************************************)
(* The inductive invariant behind the properties above.                    *)
(***************************************************************************)

\* What may be on todo: the resolver's entries and the hoister's.
WalkTask ==
    [op : {"resolve", "declare"}, node : DOMAIN ast]
    \cup [op : {"declarator"},
           node : {n \in DOMAIN ast : ast[n].kind = "VariableDeclarator"}]
    \cup [op : {"modify"}, kind : DeclKind,
           node : {n \in DOMAIN ast : ast[n].kind = "Identifier"}]
    \cup [op : {"popScope"}]
    \cup [op : {"identType"}, val : {identTypeRef, identTypeBinding}]
    \cup [op : {"declKind"}, val : DeclKind]

HoistTask ==
    [op : HoisterOps, node : DOMAIN ast]
    \cup [op : {"inBlock"}, val : BOOLEAN]
    \cup [op : {"kind"}, val : DeclKind]
    \cup [op : {"catchDone"}, drop : SUBSET Name,
           val : [inCatchBody : BOOLEAN, excludedFromCatch : SUBSET Name]]

\* The hoister's entries come before all of the resolver's.
HoisterFirst(tasks) ==
    \A i, j \in DOMAIN tasks :
       i < j /\ tasks[j].op \in HoisterOps \cup SaveOps
          => tasks[i].op \in HoisterOps \cup SaveOps

\* The restores to come of one kind.
pending(tasks, op) == {i \in DOMAIN tasks : tasks[i].op = op}

\* A field that is now so comes back to its fresh value: the last restore brings
\* it, and without one it has it.
Settled(tasks, op, now, fresh) ==
    /\ pending(tasks, op) = {} => now = fresh
    /\ \A i \in pending(tasks, op) :
         (\A j \in pending(tasks, op) : j <= i) => tasks[i].val = fresh

\* Each parameter in catchParamDecls is taken out by one of the clauses under way,
\* and by no other.
ParamsOwned(tasks, names) ==
    /\ names = UNION {tasks[i].drop : i \in pending(tasks, "catchDone")}
    /\ \A i, j \in pending(tasks, "catchDone") :
         i # j => tasks[i].drop \cap tasks[j].drop = {}

\* The restores lead from the fields h to those of a fresh hoister.
Balanced(tasks, h) ==
    /\ Settled(tasks, "inBlock", h.inBlock, FALSE)
    /\ Settled(tasks, "kind", h.kind, declKindVar)
    /\ Settled(tasks, "catchDone", catchFields(h), catchFields(freshHoister))
    /\ ParamsOwned(tasks, h.catchParamDecls)

ResolverInv ==
    /\ ResolverTypeOK
    /\ todo \in Seq(WalkTask \cup HoistTask)
    /\ HoisterFirst(todo)
    /\ Balanced(todo, hoister)
=============================================================================
