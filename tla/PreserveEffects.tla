-------------------------- MODULE PreserveEffects --------------------------
(***************************************************************************)
(* PreserveEffects (ast/ext/utils.go): a rewriting of the tree replaces    *)
(* expressions by a value known in their place, and must keep what the     *)
(* expressions do. The loop takes the effects out of one expression after  *)
(* the other; the value is put behind them. What a rewriting asks before,  *)
(* the casts and the side-effect tests, is compared with Evaluation too.   *)
(***************************************************************************)
EXTENDS Evaluation

CONSTANTS
    Inputs,       \* what may be passed: a value, expressions, and statements
                  \* that the rewriting may ask about; in scopes of some contexts
    Envs          \* what names hold and calls return

VARIABLES
    input,        \* what was passed
    exprs,        \* the expressions passed, as far as they were changed since
    next,         \* the expression the loop takes next
    exprs2,       \* the effects taken out
    result        \* the expression returned, or None

vars == <<scope, input, exprs, next, exprs2, result>>

Init ==
    /\ input \in Inputs
    /\ scope \in input.scopes
    /\ exprs = input.exprs
    /\ next = 1
    /\ exprs2 = <<>>
    /\ result = None

ExtractSideEffectsTo ==
    /\ result = None
    /\ next <= Len(exprs)
    /\ exprs2' = exprs2 \o Extracted(exprs[next])
    /\ exprs' = [exprs EXCEPT ![next] = Stripped(@)]
    /\ next' = next + 1
    /\ UNCHANGED <<scope, input, result>>

ReturnValue ==
    /\ result = None
    /\ next > Len(exprs)
    /\ exprs2 = <<>>
    /\ result' = input.val
    /\ UNCHANGED <<scope, input, exprs, next, exprs2>>

ReturnSequence ==
    /\ result = None
    /\ next > Len(exprs)
    /\ exprs2 # <<>>
    /\ exprs2' = Append(exprs2, input.val)
    /\ result' = Sequence(exprs2')
    /\ UNCHANGED <<scope, input, exprs, next>>

Next == ExtractSideEffectsTo \/ ReturnValue \/ ReturnSequence

Spec == Init /\ [][Next]_vars

-----------------------------------------------------------------------------

effectsOf(es, env) == EvalAll(es, env).effects

\* Whatever names hold and calls return: the effects taken out so far are those of
\* the expressions they were taken from, in the order of evaluation, each once;
\* the expression returned does just that and has the value passed; and what is
\* left of the expressions still has the same effects, so that the deletions in
\* the tree that was passed lose none.
EffectsKept ==
    LET alike == <<<<exprs, input.exprs>>,
                   IF result = None
                   THEN <<exprs2, SubSeq(input.exprs, 1, next - 1)>>
                   ELSE <<<<result>>, Append(input.exprs, input.val)>>>>
    IN \A env \in Envs :
         /\ \A i \in 1 .. 2 :
               effectsOf(alike[i][1], env) = effectsOf(alike[i][2], env)
         /\ result # None => Eval(result, env).value = Eval(input.val, env).value

\* What is said to have no side effects has none: a rewriting that drops it or
\* moves it past something else changes nothing.
PureHasNoEffects ==
    \A env \in Envs :
        /\ \A e \in Range(input.exprs) \cup {input.val} :
              ~MayHaveSideEffects(e) => Eval(e, env).effects = <<>>
        /\ \A s \in Range(input.stmts) :
              ~MayHaveSideEffectsStmt(s) => Eval(s, env).effects = <<>>

\* A known result of a cast is what evaluation yields, and pure says that this is
\* all evaluation does.
castAgrees(c, actual, r) ==
    ~c.value.unknown => /\ c.value.val = actual
                        /\ c.pure => r.effects = <<>>

typeAgrees(e, r) == GetType(e) \in {UnknownType, Known(r.value.type)}

\* What is known of e is so where evaluating e comes to r.
knowledgeHolds(e, r) ==
    /\ castAgrees(CastToBool(e), ToBoolean(r.value), r)
    /\ castAgrees(CastToNumber(e), ToNumber(r.value), r)
    /\ castAgrees(Cast(AsPureString(e), TRUE), ToText(r.value), r)
    /\ typeAgrees(e, r)
    /\ IsString(e) => r.value.type = "string"

\* Whatever is known of an expression's truth, number, text or type before the
\* program runs is so in every run; a literal has one value and no effect.
ConstantsAgree ==
    LET runs == {Eval(input.val, env) : env \in Envs}
    IN /\ \A r \in runs : knowledgeHolds(input.val, r)
       /\ IsLiteral(input.val) => \E r \in runs : runs = {Done(r.value)}

=============================================================================
