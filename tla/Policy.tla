------------------------------- MODULE Policy -------------------------------
(***************************************************************************)
(* IAM condition blocks (engine/internal/policy/condition.go): evaluated   *)
(* offline, with three outcomes, because some keys have a value only when  *)
(* a request is made.                                                      *)
(*                                                                         *)
(* A context is a function from the keys known to their sets of values.  A *)
(* clause has an operator, a set qualifier, the IfExists suffix, a key and *)
(* patterns; a pattern is the set of values that its comparator accepts,   *)
(* so the comparators of condition.go differ only in being negated or not. *)
(***************************************************************************)

(* op: "match" and "not match", the comparators and the negated ones;      *)
(* "Null", which asks for presence; "other", an operator that has none.    *)
(* set: "default", "ForAllValues" or "ForAnyValue".                        *)
Clause(op, set, ifExists, key, patterns) ==
  [op |-> op, set |-> set, ifExists |-> ifExists, key |-> key, patterns |-> patterns]

TriOf(b) == IF b THEN "true" ELSE "false"

(* One value satisfies one of the patterns (comparatorFor, negate).        *)
AnyPatternMatches(c, value) ==
  \E p \in c.patterns : (value \in p) # (c.op = "not match")

(* ForAnyValue is what the default does.                                   *)
ApplySet(c, actual) ==
  TriOf(IF c.set = "ForAllValues" THEN \A a \in actual : AnyPatternMatches(c, a)
        ELSE \E a \in actual : AnyPatternMatches(c, a))

EvalNull(c, ctx, requestTime) ==
  LET absent == c.key \notin DOMAIN ctx
      want == \E p \in c.patterns : "true" \in p
  IN  IF absent /\ c.key \in requestTime THEN "unresolved" ELSE TriOf(want = absent)

(* A faulty variant: IfExists first, so that a key of the request counts   *)
(* as one that is not there.                                               *)
EvalClauseIfExistsFirst(c, ctx, requestTime) ==
  IF c.op = "Null" THEN EvalNull(c, ctx, requestTime)
  ELSE IF c.key \notin DOMAIN ctx
       THEN IF c.ifExists THEN "true"
            ELSE IF c.key \in requestTime THEN "unresolved" ELSE "false"
       ELSE IF c.op = "other" THEN "unresolved" ELSE ApplySet(c, ctx[c.key])

(* A key that only a request has is unresolved before IfExists is asked.   *)
EvalClause(c, ctx, requestTime) ==
  IF c.op = "Null" THEN EvalNull(c, ctx, requestTime)
  ELSE IF c.key \notin DOMAIN ctx
       THEN IF c.key \in requestTime THEN "unresolved" ELSE TriOf(c.ifExists)
       ELSE IF c.op = "other" THEN "unresolved" ELSE ApplySet(c, ctx[c.key])

(* All clauses of a block: one that is false decides it.                   *)
EvalCondition(cond, ctx, requestTime) ==
  LET verdicts == {EvalClause(c, ctx, requestTime) : c \in cond}
  IN  IF "false" \in verdicts THEN "false"
      ELSE IF "unresolved" \in verdicts THEN "unresolved" ELSE "true"

=============================================================================
