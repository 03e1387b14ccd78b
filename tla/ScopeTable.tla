----------------------------- MODULE ScopeTable -----------------------------
(***************************************************************************)
(* The resolver's scope bookkeeping: one global table from names to their  *)
(* innermost visible binding, an undo trail that a closing scope rewinds,  *)
(* and a stack of scope objects recycled through a free list               *)
(* (resolver/resolver.go, resolver/scope.go).                              *)
(*                                                                         *)
(* A scope object is an index into heap; Nil is Go's nil pointer. chain is *)
(* a history variable: the scopes in the order they were opened, which the *)
(* code only holds as the parent links that start at current.              *)
(***************************************************************************)
EXTENDS Bindings, FiniteSetsExt, SequencesExt

VARIABLES
    heap,        \* the allocated scope objects
    current,     \* the innermost open scope object, or Nil
    scopePool,   \* free list of popped scope objects, used as a stack
    symbols,     \* name -> innermost visible binding (NoEntry: absent key)
    trail,       \* undo log of the open scopes' declarations
    nextCtxt,    \* context of the next scope
    chain        \* history: the open scope objects, outermost first

tableVars == <<heap, current, scopePool, symbols, trail, nextCtxt, chain>>

Nil == 0

scope == [parent : Nat, ctx : ScopeContext, trailBase : Nat]
trailEntry == [name : Name, prev : symEntry, had : BOOLEAN]

Depth == Len(chain)

TypeOK ==
    /\ heap \in Seq(scope)
    /\ current \in 0 .. Len(heap)
    /\ scopePool \in Seq(1 .. Len(heap))
    /\ symbols \in [Name -> symEntry]
    /\ trail \in Seq(trailEntry)
    /\ nextCtxt \in TopLevelContext .. MaxCtxt
    /\ chain \in Seq(1 .. Len(heap))

TableInit ==
    /\ heap = <<>>
    /\ current = Nil
    /\ scopePool = <<>>
    /\ symbols = [n \in Name |-> NoEntry]
    /\ trail = <<>>
    /\ nextCtxt = TopLevelContext
    /\ chain = <<>>

-----------------------------------------------------------------------------

\* What pushScope does, up to the context counter and the free list.
opensScope(s) ==
    LET fresh == [parent |-> current, ctx |-> nextCtxt, trailBase |-> Len(trail)]
    IN /\ heap' = IF s \in DOMAIN heap THEN [heap EXCEPT ![s] = fresh]
                                      ELSE Append(heap, fresh)
       /\ current' = s
       /\ chain' = Append(chain, s)
       /\ UNCHANGED <<symbols, trail>>

recycled == IF scopePool # <<>> THEN Last(scopePool) ELSE Len(heap) + 1

\* Seeded fault: a recycled object stays on the free list.
pushScopeKeepsPooled ==
    /\ nextCtxt < MaxCtxt
    /\ opensScope(recycled)
    /\ nextCtxt' = nextCtxt + 1
    /\ UNCHANGED scopePool

\* Seeded fault: a new scope does not use its context up.
pushScopeSameContext ==
    /\ nextCtxt < MaxCtxt
    /\ opensScope(recycled)
    /\ scopePool' = IF scopePool # <<>> THEN Front(scopePool) ELSE scopePool
    /\ UNCHANGED nextCtxt

\* pushScope: reuse the last popped object if there is one, else allocate.
\* The code has no guard: MaxCtxt is the model's bound on an int32 that wraps.
pushScope ==
    /\ nextCtxt < MaxCtxt
    /\ LET s == IF scopePool # <<>> THEN Last(scopePool) ELSE Len(heap) + 1
           fresh == [parent |-> current, ctx |-> nextCtxt,
                     trailBase |-> Len(trail)]
       IN /\ heap' = IF scopePool # <<>> THEN [heap EXCEPT ![s] = fresh]
                                         ELSE Append(heap, fresh)
          /\ scopePool' = IF scopePool # <<>> THEN Front(scopePool)
                                              ELSE scopePool
          /\ current' = s
          /\ chain' = Append(chain, s)
    /\ nextCtxt' = nextCtxt + 1
    /\ UNCHANGED <<symbols, trail>>

\* The trail entries above base that belong to name.
Undo(name, base) == {i \in base + 1 .. Len(trail) : trail[i].name = name}

\* Rewinding runs from the newest entry to the oldest, so a name ends with the
\* value its oldest entry recorded.
Rewound(name, base) ==
    IF Undo(name, base) = {} THEN symbols[name]
    ELSE LET u == trail[Min(Undo(name, base))]
         IN IF u.had THEN u.prev ELSE NoEntry

\* Closing a scope, with the symbols and the trail it leaves behind.
closesScope(restored, rest) ==
    /\ current # Nil
    /\ heap[current].parent # Nil
    /\ symbols' = restored
    /\ trail' = rest
    /\ current' = heap[current].parent
    /\ heap' = [heap EXCEPT ![current].parent = Nil]
    /\ scopePool' = Append(scopePool, current)
    /\ chain' = Front(chain)
    /\ UNCHANGED nextCtxt

trailBaseOf(s) == heap[s].trailBase

\* Seeded fault: the rewind stops one entry short of the scope's first.
popScopeSkipsOldest ==
    closesScope([n \in Name |-> Rewound(n, trailBaseOf(current) + 1)],
                SubSeq(trail, 1, trailBaseOf(current)))

\* Seeded fault: the rewound entries stay in the trail.
popScopeKeepsTrail ==
    closesScope([n \in Name |-> Rewound(n, trailBaseOf(current))], trail)

\* Seeded fault: the trail is cut but nothing is restored.
popScopeKeepsSymbols ==
    closesScope(symbols, SubSeq(trail, 1, trailBaseOf(current)))

\* popScope, for a scope that has a parent. The scope without one, the
\* program's, is left open by the early return: see rootScope below.
popScope ==
    /\ current # Nil
    /\ heap[current].parent # Nil
    /\ LET base == heap[current].trailBase
       IN /\ symbols' = [n \in Name |-> Rewound(n, base)]
          /\ trail' = SubSeq(trail, 1, base)
    /\ current' = heap[current].parent
    /\ heap' = [heap EXCEPT ![current].parent = Nil]
    /\ scopePool' = Append(scopePool, current)
    /\ chain' = Front(chain)
    /\ UNCHANGED nextCtxt

rootScope == current # Nil /\ heap[current].parent = Nil

lookup(name) == symbols[name]

\* Declaring with an undo record where needed says so.
declares(name, kind, needed) ==
    /\ current # Nil
    /\ trail' = IF needed
                THEN Append(trail, [name |-> name, prev |-> symbols[name],
                                    had |-> symbols[name] # NoEntry])
                ELSE trail
    /\ symbols' = [symbols EXCEPT
                      ![name] = [ctx |-> heap[current].ctx, kind |-> kind]]
    /\ UNCHANGED <<heap, current, scopePool, nextCtxt, chain>>

\* Seeded fault: declaring a name again in its scope records it again.
declareAlwaysRecords(name, kind) == declares(name, kind, ~rootScope)

\* Seeded fault: a binding that shadows another one leaves no record.
declareForgetsOuter(name, kind) ==
    declares(name, kind, ~rootScope /\ symbols[name] = NoEntry)

\* declare: a name the current scope already holds only changes its kind. A
\* declaration of the root scope leaves no undo record, as nothing rewinds it.
declare(name, kind) ==
    /\ current # Nil
    /\ LET ctx == heap[current].ctx
           prev == symbols[name]
           had == prev # NoEntry
       IN /\ trail' = IF (had /\ prev.ctx = ctx) \/ rootScope
                      THEN trail
                      ELSE Append(trail, [name |-> name, prev |-> prev,
                                          had |-> had])
          /\ symbols' = [symbols EXCEPT ![name] = [ctx |-> ctx, kind |-> kind]]
    /\ UNCHANGED <<heap, current, scopePool, nextCtxt, chain>>

TableNext ==
    \/ pushScope
    \/ popScope
    \/ \E name \in Name, kind \in DeclKind : declare(name, kind)

TableSpec == TableInit /\ [][TableNext]_tableVars

-----------------------------------------------------------------------------
(***************************************************************************)
(* The chain of maps the table stands for. What a name meant in the scope  *)
(* at depth d is what rewinding every scope opened after it would restore. *)
(***************************************************************************)

Visible(d, name) ==
    IF d = Depth THEN symbols[name]
                 ELSE Rewound(name, heap[chain[d + 1]].trailBase)

ctxAt(d) == heap[chain[d]].ctx

Undeclared == -1

OwnKind(d, name) ==
    IF Visible(d, name).ctx = ctxAt(d) THEN Visible(d, name).kind
                                       ELSE Undeclared

ChainOfMaps ==
    [d \in 1 .. Depth |-> [ctx |-> ctxAt(d),
                           own |-> [n \in Name |-> OwnKind(d, n)]]]

Chain == INSTANCE ScopeChain WITH scopes <- ChainOfMaps

\* The table implements a stack of scopes with a map each.
ChainSpec == Chain!Spec

-----------------------------------------------------------------------------

\* One probe of the table answers what a walk up the chain of maps would:
\* resolver.lookup never sees a binding of a closed or a sibling scope, nor
\* misses an enclosing one.
LookupAgrees == \A n \in Name : lookup(n) = Chain!Lookup(n)

\* Recycling scope objects never aliases: the parent links from current visit
\* exactly the open scopes, and no open scope is on the free list or on it twice.
RecyclingSafe ==
    /\ current = IF chain = <<>> THEN Nil ELSE Last(chain)
    /\ \A d \in 1 .. Depth :
          heap[chain[d]].parent = IF d = 1 THEN Nil ELSE chain[d - 1]
    /\ IsInjective(chain)
    /\ IsInjective(scopePool)
    /\ Range(chain) \cap Range(scopePool) = {}

\* Every scope open at once has a context of its own, inner ones larger, and no
\* binding carries a context that has not been handed out yet: a scope opened
\* later can never find itself the owner of somebody else's binding.
ContextsFresh ==
    /\ \A d \in 1 .. Depth : ctxAt(d) < nextCtxt
    /\ \A c, d \in 1 .. Depth : c < d => ctxAt(c) < ctxAt(d)
    /\ \A n \in Name : symbols[n].ctx < nextCtxt

\* Declaring a name again in the scope that holds it adds no second undo record
\* (it would restore the scope's own binding when the scope closes), and the
\* program scope has none.
OneUndoPerScope ==
    /\ \A d \in 2 .. Depth :
         LET lo == heap[chain[d]].trailBase
             hi == IF d = Depth THEN Len(trail)
                                ELSE heap[chain[d + 1]].trailBase
         IN \A i, j \in lo + 1 .. hi :
               trail[i].name = trail[j].name => i = j
    /\ Depth > 1 => heap[chain[2]].trailBase = 0
    /\ Depth <= 1 => trail = <<>>

\* No operation disturbs what the enclosing scopes see: whatever a scope
\* declares or closes, each scope that encloses it keeps its bindings.
EnclosingUndisturbed ==
    [][\A d \in 1 .. Depth, n \in Name :
         d <= Len(chain') /\ (d < Depth \/ Depth < Len(chain'))
            => Visible(d, n)' = Visible(d, n)]_tableVars

-----------------------------------------------------------------------------
(***************************************************************************)
(* The inductive invariant behind the properties above.                    *)
(***************************************************************************)

\* The open scopes cut the trail into consecutive segments; the root scope's
\* is empty.
TrailLayout ==
    /\ \A d \in 1 .. Depth : heap[chain[d]].trailBase <= Len(trail)
    /\ \A c, d \in 1 .. Depth :
         c < d => heap[chain[c]].trailBase <= heap[chain[d]].trailBase
    /\ \A d \in 1 .. Depth : d <= 2 => heap[chain[d]].trailBase = 0
    /\ Depth <= 1 => trail = <<>>

Structure == TypeOK /\ RecyclingSafe /\ TrailLayout

\* A well-formed entry is NoEntry or carries a context handed out already.
Issued(entry) == /\ entry.ctx < nextCtxt
                 /\ entry.ctx = UnresolvedContext => entry = NoEntry

ContextsIssued ==
    /\ \A n \in Name : Issued(symbols[n])
    /\ \A i \in 1 .. Len(trail) :
         /\ Issued(trail[i].prev)
         /\ trail[i].had <=> trail[i].prev # NoEntry
    /\ \A d \in 1 .. Depth : TopLevelContext <= ctxAt(d)

\* What a scope sees it declares itself or sees through the scope around it,
\* and never comes from a scope inside it.
Layered ==
    /\ \A d \in 1 .. Depth, n \in Name : Visible(d, n).ctx <= ctxAt(d)
    /\ \A d \in 2 .. Depth, n \in Name :
         \/ Visible(d, n).ctx = ctxAt(d)
         \/ Visible(d, n) = Visible(d - 1, n)
    /\ Depth > 0 => \A n \in Name : \/ Visible(1, n).ctx = ctxAt(1)
                                    \/ Visible(1, n) = NoEntry
    /\ Depth = 0 => \A n \in Name : symbols[n] = NoEntry

IInv == Structure /\ ContextsFresh /\ ContextsIssued /\ Layered

\* Where the undo records of the scope at depth d begin, behind that position,
\* and where they end.
recordsFrom(d) == heap[chain[d]].trailBase
recordsUpTo(d) == IF d = Depth THEN Len(trail) ELSE recordsFrom(d + 1)
records(d) == recordsFrom(d) + 1 .. recordsUpTo(d)

\* Each is of a name the scope owns, and the only one of it.
OwnRecords(d) ==
    /\ \A i \in records(d), m \in Name :
         trail[i].name = m => Visible(d, m).ctx = ctxAt(d)
    /\ \A i, j \in records(d) : trail[i].name = trail[j].name => i = j

UndoInv == IInv /\ \A d \in 2 .. Depth : OwnRecords(d)
=============================================================================
