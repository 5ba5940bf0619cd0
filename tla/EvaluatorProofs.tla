-------------------------- MODULE EvaluatorProofs --------------------------
(***************************************************************************)
(* Proofs about AwsEvaluator, for any nodes, facts, condition keys and     *)
(* requests: the verdicts reached offline stand at the request, and so do  *)
(* the edges and their absence.                                            *)
(***************************************************************************)
EXTENDS AwsEvaluator, FiniteSetTheorems, TLAPS

-----------------------------------------------------------------------------
(* Conditions.                                                             *)

(* A clause that was decided offline is decided the same way by a request. *)
LEMMA ClauseStands ==
  ASSUME NEW p, NEW req \in Requests, NEW c,
         EvalClause(c, ContextFor(p), RequestTimeKeys) # "unresolved"
  PROVE  EvalClause(c, WithRequest(p, req), {})
           = EvalClause(c, ContextFor(p), RequestTimeKeys)
<1> DEFINE known == ContextFor(p)
           full == WithRequest(p, req)
<1>1. DOMAIN full = DOMAIN known \cup DOMAIN req
  BY DEF WithRequest
<1>2. c.key \in DOMAIN known => full[c.key] = known[c.key]
  BY DEF WithRequest
<1>3. DOMAIN req \subseteq RequestTimeKeys
  BY EvaluatorAssumption
<1> HIDE DEF known, full
<1>4. c.key \notin DOMAIN known => c.key \notin RequestTimeKeys
  BY Zenon DEF EvalClause, EvalNull, known
<1>5. c.key \in DOMAIN known <=> c.key \in DOMAIN full
  BY <1>1, <1>3, <1>4
<1>6. EvalNull(c, full, {}) = EvalNull(c, known, RequestTimeKeys)
  BY <1>4, <1>5 DEF EvalNull
<1>7. EvalClause(c, full, {}) = EvalClause(c, known, RequestTimeKeys)
  BY <1>2, <1>4, <1>5, <1>6 DEF EvalClause
<1> QED BY <1>7 DEF known, full

(* And so is a whole condition block (EvalCondition): what the comment at  *)
(* Tri asks of the offline evaluation.                                     *)
THEOREM OfflineVerdictStands ==
  ASSUME NEW p, NEW req \in Requests, NEW cond,
         EvalCondition(cond, ContextFor(p), RequestTimeKeys) # "unresolved"
  PROVE  EvalCondition(cond, WithRequest(p, req), {})
           = EvalCondition(cond, ContextFor(p), RequestTimeKeys)
<1> DEFINE offline(c) == EvalClause(c, ContextFor(p), RequestTimeKeys)
           online(c) == EvalClause(c, WithRequest(p, req), {})
<1>1. \A c : offline(c) # "unresolved" => online(c) = offline(c)
  BY ClauseStands
<1>2. EvalCondition(cond, ContextFor(p), RequestTimeKeys) =
        (IF \E c \in cond : offline(c) = "false" THEN "false"
         ELSE IF \E c \in cond : offline(c) = "unresolved" THEN "unresolved" ELSE "true")
  BY DEF EvalCondition
<1>3. EvalCondition(cond, WithRequest(p, req), {}) =
        (IF \E c \in cond : online(c) = "false" THEN "false"
         ELSE IF \E c \in cond : online(c) = "unresolved" THEN "unresolved" ELSE "true")
  BY DEF EvalCondition
<1> HIDE DEF offline, online
<1>4. CASE \E c \in cond : offline(c) = "false"
  BY <1>1, <1>2, <1>3, <1>4
<1>5. CASE \A c \in cond : offline(c) # "false"
  <2>1. \A c \in cond : offline(c) # "unresolved"
    BY <1>2, <1>5
  <2>2. \A c \in cond : online(c) = offline(c)
    BY <1>1, <2>1
  <2> QED BY <1>2, <1>3, <1>5, <2>1, <2>2
<1> QED BY <1>4, <1>5

-----------------------------------------------------------------------------
(* Sets of statements.                                                     *)

LEMMA GradeRange == \A stmts, p : Grade(stmts, p) \in {"solid", "conditional", "none"}
BY DEF Grade

(* What a set of statements says outright it says to every request.        *)
LEMMA SolidHolds ==
  ASSUME NEW p, NEW req \in Requests, NEW stmts, Grade(stmts, p) = "solid", NEW surely
  PROVE  Holds(stmts, p, req, surely)
<1>1. PICK st \in stmts : EvalCondition(st.cond, ContextFor(p), RequestTimeKeys) = "true"
  BY DEF Grade
<1>2. EvalCondition(st.cond, WithRequest(p, req), {}) = "true"
  BY <1>1, OfflineVerdictStands
<1> QED BY <1>2 DEF Holds

(* What a set of statements does not say, no request makes it say.         *)
LEMMA NoneNeverHolds ==
  ASSUME NEW p, NEW req \in Requests, NEW stmts, Grade(stmts, p) = "none", NEW surely
  PROVE  ~Holds(stmts, p, req, surely)
<1>1. \A st \in stmts : EvalCondition(st.cond, ContextFor(p), RequestTimeKeys) = "false"
  BY DEF Grade, EvalCondition
<1>2. \A st \in stmts : EvalCondition(st.cond, WithRequest(p, req), {}) = "false"
  BY <1>1, OfflineVerdictStands
<1> QED BY <1>2 DEF Holds

(* A smaller set of statements says no more.                               *)
LEMMA HoldsOfMore ==
  ASSUME NEW p, NEW req, NEW small, NEW large, NEW surely, small \subseteq large,
         Holds(small, p, req, surely)
  PROVE  Holds(large, p, req, surely)
BY DEF Holds

-----------------------------------------------------------------------------
(* One question.                                                           *)

(* The statements of a set that allow what is asked.                       *)
Allowing(q, stmts) == {st \in stmts : Applies(st, "Allow", q.row.action, q.node)}

LEMMA AllowedByIsGrade ==
  \A q, stmts : AllowedBy(stmts, q.principal, q.row.action, q.node)
                  = Grade(Allowing(q, stmts), q.principal)
BY DEF AllowedBy, Allowing

(* A guardrail stops nothing that some request may do.                     *)
LEMMA GuardrailsStopNothingPossible ==
  ASSUME NEW s, NEW q, NEW req \in Requests, ~q.row.objects, Permitted(s, q, req, FALSE)
  PROVE  /\ ExplicitDeny(s, q.principal, q.row.action, q.node) # "solid"
         /\ GuardrailsAllow(s, q.principal, q.row.action, q.node)
<1> DEFINE p == q.principal
           denials == Denies(s, p, q.row.action, q.node)
           granted(stmts) == Holds(Allowing(q, stmts), p, req, FALSE)
<1>1. Asked(q.row, q.node) = q.node
  BY DEF Asked
<1>2. /\ ~Holds(denials, p, req, TRUE)
      /\ ScpsFor(s, p) # {} => granted(UNION ScpsFor(s, p))
      /\ p \in DOMAIN s.boundaries => granted(s.boundaries[p])
  BY <1>1, Zenon DEF Permitted, Denies, Allowing
<1>3. ExplicitDeny(s, p, q.row.action, q.node) # "solid"
  BY <1>2, SolidHolds DEF ExplicitDeny
<1>4. ASSUME ScpsFor(s, p) # {}
      PROVE  ScpAllows(ScpsFor(s, p), q.row.action)
  BY <1>2, <1>4 DEF Holds, Allowing, Applies, ScpAllows
<1>5. ASSUME p \in DOMAIN s.boundaries
      PROVE  AllowedBy(s.boundaries[p], p, q.row.action, q.node) # "none"
  BY <1>2, <1>5, NoneNeverHolds, AllowedByIsGrade
<1> QED BY <1>3, <1>4, <1>5 DEF GuardrailsAllow

(* A key that some request may use is allowed.                             *)
LEMMA PossibleKeyUseIsAllowed ==
  ASSUME NEW s, NEW q, NEW req \in Requests, ~q.row.objects, IsKMS(q.row),
         Permitted(s, q, req, FALSE)
  PROVE  EvaluateKMS(s, q.principal, q.row.action, q.node,
                     AllowedBy(IdentityStatements(s, q.principal), q.principal,
                               q.row.action, q.node)).allowed
<1> DEFINE p == q.principal
           policy == At(s.resourcePolicies, q.node)
           free(st) == \A c \in st.cond : c.key # "kms:ViaService"
           usable == {st \in policy :
                        st.effect = "Allow" /\ Matches(st.action, q.row.action) /\ free(st)}
           direct == {st \in usable : NamesDirectly(st, p)}
           identity == AllowedBy(IdentityStatements(s, p), p, q.row.action, q.node)
           granted(stmts) == Holds(Allowing(q, stmts), p, req, FALSE)
<1>1. Asked(q.row, q.node) = q.node
  BY DEF Asked
<1>2. IF q.node \notin DOMAIN s.resourcePolicies THEN granted(IdentityStatements(s, p))
      ELSE \/ granted({st \in policy : free(st) /\ NamesDirectly(st, p)})
           \/ /\ granted(IdentityStatements(s, p))
              /\ granted({st \in policy : free(st) /\ NamesAccountRoot(st, p)})
  BY <1>1, Zenon DEF Permitted, Allowing
<1>3. granted(IdentityStatements(s, p)) => identity # "none"
  BY NoneNeverHolds, AllowedByIsGrade
<1>4. ASSUME granted({st \in policy : free(st) /\ NamesDirectly(st, p)})
      PROVE  Grade(direct, p) # "none"
  <2>1. Allowing(q, {st \in policy : free(st) /\ NamesDirectly(st, p)}) \subseteq direct
    BY DEF Allowing, Applies
  <2>2. Holds(direct, p, req, FALSE)
    BY <1>4, <2>1, HoldsOfMore
  <2> QED BY <2>2, NoneNeverHolds
<1>5. ASSUME granted({st \in policy : free(st) /\ NamesAccountRoot(st, p)})
      PROVE  \E st \in usable : NamesAccountRoot(st, p)
  BY <1>5 DEF Holds, Allowing, Applies
<1>6. Grade(direct, p) \in {"solid", "conditional", "none"}
  BY GradeRange
<1>7. EvaluateKMS(s, p, q.row.action, q.node, identity) =
        (IF q.node \notin DOMAIN s.resourcePolicies
         THEN IF identity = "none" THEN Denied ELSE Allowed(TRUE)
         ELSE IF Grade(direct, p) = "solid" THEN Allowed(FALSE)
         ELSE IF (\E st \in usable : NamesAccountRoot(st, p)) /\ identity # "none"
         THEN Allowed(identity = "conditional")
         ELSE IF Grade(direct, p) = "conditional" THEN Allowed(TRUE) ELSE Denied)
  BY Zenon DEF EvaluateKMS
<1>8. \A b : Allowed(b).allowed
  BY DEF Allowed
<1> HIDE DEF p, policy, usable, direct, identity, granted
<1> QED BY <1>2, <1>3, <1>4, <1>5, <1>6, <1>7, <1>8 DEF p, identity

(* What some request may do is allowed.                                    *)
LEMMA PossibleIsAllowed ==
  ASSUME NEW s, NEW q, NEW req \in Requests, ~q.row.objects, Permitted(s, q, req, FALSE)
  PROVE  Decision(s, q).allowed
<1> DEFINE p == q.principal
           deny == ExplicitDeny(s, p, q.row.action, q.node)
           named == {st \in At(s.resourcePolicies, q.node) : NamesDirectly(st, p)}
           identity == AllowedBy(IdentityStatements(s, p), p, q.row.action, q.node)
           byResource == AllowedBy(named, p, q.row.action, q.node)
           granted(stmts) == Holds(Allowing(q, stmts), p, req, FALSE)
<1>1. Asked(q.row, q.node) = q.node
  BY DEF Asked
<1>2. deny # "solid" /\ GuardrailsAllow(s, p, q.row.action, q.node)
  BY GuardrailsStopNothingPossible
<1>3. Decision(s, q) =
        (IF deny = "solid" \/ ~GuardrailsAllow(s, p, q.row.action, q.node) THEN Denied
         ELSE IF IsKMS(q.row) THEN EvaluateKMS(s, p, q.row.action, q.node, identity)
         ELSE IF Grant(p, q.node, identity, byResource)
         THEN Allowed("conditional" \in {deny, identity, byResource}) ELSE Denied)
  BY <1>1, Zenon DEF Decision, Evaluate
<1>4. CASE IsKMS(q.row)
  BY <1>2, <1>3, <1>4, PossibleKeyUseIsAllowed
<1>5. CASE ~IsKMS(q.row)
  <2>1. IF SameAccount(p, q.node) THEN granted(IdentityStatements(s, p)) \/ granted(named)
        ELSE granted(IdentityStatements(s, p)) /\ granted(named)
    BY <1>1, <1>5, Zenon DEF Permitted, Allowing
  <2>2. /\ granted(IdentityStatements(s, p)) => identity # "none"
        /\ granted(named) => byResource # "none"
    BY NoneNeverHolds, AllowedByIsGrade
  <2>3. Grant(p, q.node, identity, byResource)
    BY <2>1, <2>2 DEF Grant
  <2> QED BY <1>2, <1>3, <1>5, <2>3 DEF Allowed
<1> QED BY <1>4, <1>5

(* What is allowed without a condition is permitted to every request, for  *)
(* what ActiveIsCertain is about.                                          *)
LEMMA OutrightIsPermitted ==
  ASSUME NEW s, NEW q, NEW req \in Requests, ~q.row.objects, ~IsKMS(q.row),
         Decision(s, q) = Allowed(FALSE), GuardrailsOutright(s, q)
  PROVE  Permitted(s, q, req, TRUE)
<1> DEFINE p == q.principal
           n == q.node
           a == q.row.action
           denials == Denies(s, p, a, n)
           named == {st \in At(s.resourcePolicies, n) : NamesDirectly(st, p)}
           identity == AllowedBy(IdentityStatements(s, p), p, a, n)
           byResource == AllowedBy(named, p, a, n)
           granted(stmts) == Holds(Allowing(q, stmts), p, req, TRUE)
<1>1. Asked(q.row, n) = n
  BY DEF Asked
<1>2. Denied # Allowed(FALSE) /\ Allowed(TRUE) # Allowed(FALSE)
  BY DEF Denied, Allowed
<1>3. Decision(s, q) =
        (IF ExplicitDeny(s, p, a, n) = "solid" \/ ~GuardrailsAllow(s, p, a, n) THEN Denied
         ELSE IF Grant(p, n, identity, byResource)
         THEN Allowed("conditional" \in {ExplicitDeny(s, p, a, n), identity, byResource})
         ELSE Denied)
  BY <1>1, Zenon DEF Decision, Evaluate
<1>4. /\ GuardrailsAllow(s, p, a, n) /\ Grant(p, n, identity, byResource)
      /\ ExplicitDeny(s, p, a, n) # "solid"
  BY <1>2, <1>3
<1>5. Decision(s, q) = Allowed("conditional" \in {ExplicitDeny(s, p, a, n), identity, byResource})
  BY <1>3, <1>4
<1>6. "conditional" \notin {ExplicitDeny(s, p, a, n), identity, byResource}
  <2> SUFFICES ASSUME "conditional" \in {ExplicitDeny(s, p, a, n), identity, byResource}
               PROVE  Decision(s, q) = Allowed(TRUE)
    BY <1>2
  <2>1. ("conditional" \in {ExplicitDeny(s, p, a, n), identity, byResource}) = TRUE
    OBVIOUS
  <2> QED BY <1>5, <2>1, Zenon
<1>7. ~Holds(denials, p, req, FALSE)
  <2>1. Grade(denials, p) = "none"
    BY <1>4, <1>6, GradeRange DEF ExplicitDeny
  <2> QED BY <2>1, NoneNeverHolds
<1>8. ASSUME ScpsFor(s, p) # {} PROVE granted(UNION ScpsFor(s, p))
  <2>1. PICK st \in UNION ScpsFor(s, p) : st.effect = "Allow" /\ Matches(st.action, a)
    BY <1>4, <1>8 DEF GuardrailsAllow, ScpAllows
  <2>2. Matches(st.resource, n) /\ st.cond = {}
    BY <2>1, Zenon DEF GuardrailsOutright
  <2>3. EvalCondition(st.cond, WithRequest(p, req), {}) = "true"
    BY <2>2 DEF EvalCondition
  <2> QED BY <2>1, <2>2, <2>3 DEF Holds, Allowing, Applies
<1>9. ASSUME p \in DOMAIN s.boundaries PROVE granted(s.boundaries[p])
  <2>1. At(s.boundaries, p) = s.boundaries[p]
    BY <1>9 DEF At
  <2>2. AllowedBy(s.boundaries[p], p, a, n) \notin {"none", "conditional"}
    BY <1>4, <1>9, <2>1, Zenon DEF GuardrailsAllow, GuardrailsOutright
  <2> QED BY <2>2, AllowedByIsGrade, GradeRange, SolidHolds
<1>10. /\ identity # "none" => granted(IdentityStatements(s, p))
       /\ byResource # "none" => granted(named)
  BY <1>6, AllowedByIsGrade, GradeRange, SolidHolds
<1>11. IF SameAccount(p, n) THEN granted(IdentityStatements(s, p)) \/ granted(named)
       ELSE granted(IdentityStatements(s, p)) /\ granted(named)
  BY <1>4, <1>10 DEF Grant
<1> QED BY <1>1, <1>7, <1>8, <1>9, <1>11, Zenon DEF Permitted, Denies, Allowing

-----------------------------------------------------------------------------
(* The edges.                                                              *)

LEMMA QuestionParts ==
  ASSUME NEW q \in Questions
  PROVE  /\ q.node \in DOMAIN Nodes
         /\ q.principal \in Principals \ {q.node}
         /\ q = Question(q.principal, q.row, q.node)
BY DEF Questions, Question, Targets

(* A decision is a denial, or allows with or without a condition.          *)
LEMMA DecisionRange ==
  \A s, q : Decision(s, q) \in {Denied, Allowed(TRUE), Allowed(FALSE)}
<1> SUFFICES ASSUME NEW s, NEW q
             PROVE  Decision(s, q) \in {Denied, Allowed(TRUE), Allowed(FALSE)}
  OBVIOUS
<1> DEFINE Outcomes == {Denied, Allowed(TRUE), Allowed(FALSE)}
<1>1. \A b \in BOOLEAN : Allowed(b) \in Outcomes
  OBVIOUS
<1>2. \A p, action, key, identity : EvaluateKMS(s, p, action, key, identity) \in Outcomes
  BY <1>1, Zenon DEF EvaluateKMS
<1>3. \A x, S : Allowed(x \in S) \in Outcomes
  <2> SUFFICES ASSUME NEW x, NEW S PROVE Allowed(x \in S) \in Outcomes
    OBVIOUS
  <2>1. (x \in S) \in BOOLEAN
    OBVIOUS
  <2> QED BY <1>1, <2>1
<1> HIDE DEF Outcomes
<1>4. Denied \in Outcomes
  BY DEF Outcomes
<1>5. Decision(s, q) \in Outcomes
  BY <1>2, <1>3, <1>4, Zenon DEF Decision, Evaluate
<1> QED BY <1>5 DEF Outcomes

(* The edges are the allowed questions, once they have been asked.         *)
EdgesInv ==
  phase = "done" =>
    edges = {EdgeOf(q, Decision(store, q)) : q \in {r \in Questions : Decision(store, r).allowed}}

LEMMA EdgesAreDecisions == Spec => []EdgesInv
<1>1. Init => EdgesInv
  BY DEF Init, EdgesInv
<1>2. EdgesInv /\ [Next]_vars => EdgesInv'
  <2> SUFFICES ASSUME EdgesInv, [Next]_vars PROVE EdgesInv'
    OBVIOUS
  <2>1. ASSUME NEW f \in FactPool, Index(f) PROVE EdgesInv'
    BY <2>1 DEF Index, EdgesInv
  <2>2. CASE EvaluatePermissions
    BY <2>2 DEF EvaluatePermissions, EdgesInv
  <2>3. CASE UNCHANGED vars
    BY <2>3 DEF vars, EdgesInv
  <2> QED BY <2>1, <2>2, <2>3 DEF Next
<1> QED BY <1>1, <1>2, PTL DEF Spec

LEMMA PossibleHasEdge == EdgesInv => NothingPossibleMissed
<1> SUFFICES ASSUME EdgesInv, phase = "done",
                    NEW q \in {x \in Questions : ~x.row.objects},
                    NEW r \in Requests, Permitted(store, q, r, FALSE)
             PROVE  \E conditional \in BOOLEAN : EdgeOf(q, Allowed(conditional)) \in edges
  BY DEF NothingPossibleMissed
<1>1. Decision(store, q).allowed
  BY PossibleIsAllowed
<1>2. EdgeOf(q, Decision(store, q)) \in edges
  BY <1>1 DEF EdgesInv
<1>3. \E conditional \in BOOLEAN : EdgeOf(q, Decision(store, q)) = EdgeOf(q, Allowed(conditional))
  <2>1. CASE Decision(store, q).conditional
    BY <2>1 DEF EdgeOf, Allowed
  <2>2. CASE ~Decision(store, q).conditional
    BY <2>2 DEF EdgeOf, Allowed
  <2> QED BY <2>1, <2>2
<1> QED BY <1>2, <1>3

LEMMA ActiveEdgeIsCertain == EdgesInv => ActiveIsCertain
<1> SUFFICES ASSUME EdgesInv, phase = "done",
                    NEW q \in {x \in Questions : ~x.row.objects /\ ~IsKMS(x.row)},
                    EdgeOf(q, Allowed(FALSE)) \in edges, GuardrailsOutright(store, q),
                    NEW r \in Requests
             PROVE  Permitted(store, q, r, TRUE)
  BY DEF ActiveIsCertain
<1>1. PICK x \in {y \in Questions : Decision(store, y).allowed} :
        EdgeOf(x, Decision(store, x)) = EdgeOf(q, Allowed(FALSE))
  BY DEF EdgesInv
<1>2. /\ x.principal = q.principal /\ x.node = q.node /\ x.row = q.row
      /\ ~Decision(store, x).conditional
  BY <1>1 DEF EdgeOf, Allowed
<1>3. x = q
  BY <1>2, QuestionParts
<1>4. Decision(store, q) = Allowed(FALSE)
  BY <1>1, <1>2, <1>3, DecisionRange DEF Denied, Allowed
<1> QED BY <1>4, OutrightIsPermitted

-----------------------------------------------------------------------------
(* Whatever the request, what it could do has an edge: no conditional      *)
(* denial and no guardrail takes away what some request is permitted       *)
(* (Evaluate, EvalCondition).                                              *)
THEOREM NothingIsMissed == Spec => []NothingPossibleMissed
BY EdgesAreDecisions, PossibleHasEdge, PTL

(* What an ACTIVE edge says is permitted to every request (Evaluate).      *)
THEOREM ActiveEdgesAreCertain == Spec => []ActiveIsCertain
BY EdgesAreDecisions, ActiveEdgeIsCertain, PTL

-----------------------------------------------------------------------------
(* Types.                                                                  *)

StoreInv ==
  store = [inline |-> store.inline, attached |-> store.attached, memberOf |-> store.memberOf,
           scps |-> store.scps, managed |-> store.managed,
           resourcePolicies |-> store.resourcePolicies, boundaries |-> store.boundaries]

TypeInv == TypeOK /\ IsFiniteSet(facts) /\ StoreInv

LEMMA StoreKept == ASSUME StoreInv, NEW f, store' = IndexFact(store, f) PROVE StoreInv'
<1>1. CASE f.kind \in {"managed_policy", "identity_policy", "HasPolicy"}
  BY <1>1, Zenon DEF StoreInv, IndexFact
<1>2. CASE f.kind \in {"MemberOf", "resource_policy", "scp", "permission_boundary"}
  BY <1>2 DEF StoreInv, IndexFact
<1>3. CASE f.kind \notin {"managed_policy", "identity_policy", "HasPolicy", "MemberOf",
                         "resource_policy", "scp", "permission_boundary"}
  BY <1>3 DEF StoreInv, IndexFact
<1> QED BY <1>1, <1>2, <1>3

LEMMA TypesKept == Spec => []TypeInv
<1>1. Init => TypeInv
  BY EvaluatorAssumption, FS_EmptySet DEF Init, TypeInv, TypeOK, StoreInv, EmptyStore
<1>2. TypeInv /\ [Next]_vars => TypeInv'
  <2> SUFFICES ASSUME TypeInv, [Next]_vars PROVE TypeInv'
    OBVIOUS
  <2>1. ASSUME NEW f \in FactPool, Index(f) PROVE TypeInv'
    <3>1. IsFiniteSet(facts') /\ Cardinality(facts') = Cardinality(facts) + 1
      BY <2>1, FS_AddElement DEF Index, TypeInv
    <3>2. Cardinality(facts) \in Nat
      BY FS_CardinalityType DEF TypeInv
    <3>3. Cardinality(facts') <= MaxFacts
      BY <2>1, <3>1, <3>2, EvaluatorAssumption DEF Index
    <3>4. StoreInv'
      BY <2>1, StoreKept DEF Index, TypeInv
    <3>5. facts' \subseteq FactPool /\ UNCHANGED <<edges, phase>>
      BY <2>1 DEF Index, TypeInv, TypeOK
    <3> QED BY <3>1, <3>3, <3>4, <3>5 DEF TypeInv, TypeOK
  <2>2. CASE EvaluatePermissions
    <3>1. \A e \in edges' : /\ e.source \in Principals /\ e.target \in DOMAIN Nodes \ {e.source}
                            /\ e.state \in {"ACTIVE", "CONDITIONAL"}
      BY <2>2, QuestionParts DEF EvaluatePermissions, EdgeOf
    <3>2. UNCHANGED <<facts, store>> /\ phase' = "done"
      BY <2>2 DEF EvaluatePermissions
    <3> QED BY <3>1, <3>2 DEF TypeInv, TypeOK, StoreInv
  <2>3. CASE UNCHANGED vars
    BY <2>3 DEF vars, TypeInv, TypeOK, StoreInv
  <2> QED BY <2>1, <2>2, <2>3 DEF Next
<1> QED BY <1>1, <1>2, PTL DEF Spec

(* Edges join principals to other nodes, and are ACTIVE or CONDITIONAL     *)
(* (EvaluatePermissions).                                                  *)
THEOREM EvaluatorTypes == Spec => []TypeOK
<1>1. TypeInv => TypeOK
  BY DEF TypeInv
<1> QED BY <1>1, TypesKept, PTL

-----------------------------------------------------------------------------
(* One more policy.                                                        *)

(* How far a set of statements goes.                                       *)
Rank(grade) == IF grade = "solid" THEN 2 ELSE IF grade = "conditional" THEN 1 ELSE 0

LEMMA MoreGradesHigher ==
  ASSUME NEW p, NEW small, NEW large, small \subseteq large
  PROVE  Rank(Grade(small, p)) <= Rank(Grade(large, p))
BY DEF Rank, Grade

(* Denials beside the same allowances.                                     *)
LEMMA DenialsWeaken ==
  ASSUME NEW s, NEW t, NEW q,
         LET p == q.principal  r == Asked(q.row, q.node)
         IN  /\ t.resourcePolicies = s.resourcePolicies
             /\ AllowedBy(IdentityStatements(t, p), p, q.row.action, r)
                  = AllowedBy(IdentityStatements(s, p), p, q.row.action, r)
             /\ Governing(s, p, r) \subseteq Governing(t, p, r)
             /\ GuardrailsAllow(t, p, q.row.action, r) => GuardrailsAllow(s, p, q.row.action, r)
  PROVE  Strength(Decision(t, q)) <= Strength(Decision(s, q))
<1> DEFINE p == q.principal
           r == Asked(q.row, q.node)
           a == q.row.action
           named == {st \in At(s.resourcePolicies, r) : NamesDirectly(st, p)}
           identity == AllowedBy(IdentityStatements(s, p), p, a, r)
           byResource == AllowedBy(named, p, a, r)
           key == EvaluateKMS(s, p, a, r, identity)
           outcome(deny, guard) ==
             IF deny = "solid" \/ ~guard THEN Denied
             ELSE IF IsKMS(q.row) THEN key
             ELSE IF Grant(p, r, identity, byResource)
             THEN Allowed("conditional" \in {deny, identity, byResource}) ELSE Denied
<1>1. Decision(s, q) = outcome(ExplicitDeny(s, p, a, r), GuardrailsAllow(s, p, a, r))
  BY Zenon DEF Decision, Evaluate
<1>2. EvaluateKMS(t, p, a, r, identity) = key
  BY Zenon DEF EvaluateKMS
<1>3. Decision(t, q) = outcome(ExplicitDeny(t, p, a, r), GuardrailsAllow(t, p, a, r))
  BY <1>2, Zenon DEF Decision, Evaluate
<1>4. Rank(ExplicitDeny(s, p, a, r)) <= Rank(ExplicitDeny(t, p, a, r))
  BY MoreGradesHigher DEF ExplicitDeny, Denies
<1>5. /\ ExplicitDeny(s, p, a, r) \in {"solid", "conditional", "none"}
      /\ ExplicitDeny(t, p, a, r) \in {"solid", "conditional", "none"}
  BY GradeRange DEF ExplicitDeny
<1>6. GuardrailsAllow(t, p, a, r) => GuardrailsAllow(s, p, a, r)
  OBVIOUS
<1>7. Decision(s, q) \in {Denied, Allowed(TRUE), Allowed(FALSE)}
  BY DecisionRange
<1>8. Strength(Denied) = 0 /\ Strength(Allowed(TRUE)) = 1 /\ Strength(Allowed(FALSE)) = 2
  BY DEF Strength, Denied, Allowed
<1> DEFINE before == Strength(Decision(s, q))
           after == Strength(Decision(t, q))
<1> SUFFICES after <= before
  OBVIOUS
<1>8a. before \in {0, 1, 2}
  BY <1>7, <1>8
<1>9. CASE Decision(t, q) = Denied
  <2>1. after = 0
    BY <1>8, <1>9
  <2> HIDE DEF before, after
  <2> QED BY <1>8a, <2>1
<1>10. CASE IsKMS(q.row) /\ Decision(t, q) # Denied
  <2>1. Decision(t, q) = Decision(s, q)
    BY <1>1, <1>3, <1>4, <1>5, <1>6, <1>10 DEF Rank
  <2>2. after = before
    BY <2>1
  <2> HIDE DEF before, after
  <2> QED BY <1>8a, <2>2
<1>11. CASE ~IsKMS(q.row) /\ Decision(t, q) # Denied
  <2> DEFINE unsure(deny) == "conditional" \in {deny, identity, byResource}
  <2>1. /\ Decision(t, q) = Allowed(unsure(ExplicitDeny(t, p, a, r)))
        /\ Decision(s, q) = Allowed(unsure(ExplicitDeny(s, p, a, r)))
    BY <1>1, <1>3, <1>4, <1>5, <1>6, <1>11 DEF Rank
  <2>2. ExplicitDeny(t, p, a, r) # "solid"
    BY <1>3, <1>11
  <2>3. ExplicitDeny(s, p, a, r) = "conditional" => ExplicitDeny(t, p, a, r) = "conditional"
    BY <1>4, <1>5, <2>2 DEF Rank
  <2>4. unsure(ExplicitDeny(s, p, a, r)) => unsure(ExplicitDeny(t, p, a, r))
    BY <2>3
  <2>5. \A d : unsure(d) = TRUE \/ unsure(d) = FALSE
    OBVIOUS
  <2> HIDE DEF unsure
  <2>6. CASE unsure(ExplicitDeny(s, p, a, r)) = TRUE
    <3>1. unsure(ExplicitDeny(t, p, a, r)) = TRUE
      BY <2>4, <2>5, <2>6
    <3>2. Decision(t, q) = Allowed(TRUE) /\ Decision(s, q) = Allowed(TRUE)
      BY <2>1, <2>6, <3>1
    <3>3. after = 1 /\ before = 1
      BY <1>8, <3>2
    <3> HIDE DEF before, after
    <3> QED BY <3>3
  <2>7. CASE unsure(ExplicitDeny(s, p, a, r)) = FALSE
    <3>1. Decision(s, q) = Allowed(FALSE)
      BY <2>1, <2>7
    <3>2. Decision(t, q) \in {Allowed(TRUE), Allowed(FALSE)}
      BY <1>11, DecisionRange
    <3>3. after \in {1, 2} /\ before = 2
      BY <1>8, <3>1, <3>2
    <3> HIDE DEF before, after
    <3> QED BY <3>3
  <2> QED BY <2>5, <2>6, <2>7
<1> QED BY <1>9, <1>10, <1>11

(* Allowances of identity policies beside the same denials.                *)
LEMMA AllowancesStrengthen ==
  ASSUME NEW s, NEW t, NEW q,
         LET p == q.principal  r == Asked(q.row, q.node)
         IN  /\ t.resourcePolicies = s.resourcePolicies
             /\ IdentityStatements(s, p) \subseteq IdentityStatements(t, p)
             /\ Denies(t, p, q.row.action, r) = Denies(s, p, q.row.action, r)
             /\ GuardrailsAllow(s, p, q.row.action, r) => GuardrailsAllow(t, p, q.row.action, r),
         Decision(s, q).allowed
  PROVE  Decision(t, q).allowed
<1> DEFINE p == q.principal
           r == Asked(q.row, q.node)
           a == q.row.action
           named == {st \in At(s.resourcePolicies, r) : NamesDirectly(st, p)}
           identity(u) == AllowedBy(IdentityStatements(u, p), p, a, r)
           byResource == AllowedBy(named, p, a, r)
           deny == ExplicitDeny(s, p, a, r)
<1>1. identity(t) = "none" => identity(s) = "none"
  BY MoreGradesHigher, GradeRange DEF AllowedBy, Rank
<1>2. Decision(s, q) =
        IF deny = "solid" \/ ~GuardrailsAllow(s, p, a, r) THEN Denied
        ELSE IF IsKMS(q.row) THEN EvaluateKMS(s, p, a, r, identity(s))
        ELSE IF Grant(p, r, identity(s), byResource)
        THEN Allowed("conditional" \in {deny, identity(s), byResource}) ELSE Denied
  BY Zenon DEF Decision, Evaluate
<1>3. ExplicitDeny(t, p, a, r) = deny
  BY DEF ExplicitDeny
<1>4. Decision(t, q) =
        IF deny = "solid" \/ ~GuardrailsAllow(t, p, a, r) THEN Denied
        ELSE IF IsKMS(q.row) THEN EvaluateKMS(t, p, a, r, identity(t))
        ELSE IF Grant(p, r, identity(t), byResource)
        THEN Allowed("conditional" \in {deny, identity(t), byResource}) ELSE Denied
  BY <1>3, Zenon DEF Decision, Evaluate
<1>5. ~Denied.allowed /\ \A b : Allowed(b).allowed
  BY DEF Denied, Allowed
<1>6. EvaluateKMS(s, p, a, r, identity(s)).allowed => EvaluateKMS(t, p, a, r, identity(t)).allowed
  BY <1>1, <1>5 DEF EvaluateKMS
<1>7. Grant(p, r, identity(s), byResource) => Grant(p, r, identity(t), byResource)
  BY <1>1 DEF Grant
<1> HIDE DEF p, r, a, deny, identity, byResource
<1> QED BY <1>2, <1>4, <1>5, <1>6, <1>7 DEF p, r, a

LEMMA AddAt ==
  ASSUME NEW index, NEW key, NEW value, NEW k
  PROVE  At(Add(index, key, value), k) = At(index, k) \cup (IF k = key THEN {value} ELSE {})
<1>1. DOMAIN Add(index, key, value) = DOMAIN index \cup {key}
  BY DEF Add, Put
<1>2. CASE k = key
  BY <1>1, <1>2 DEF At, Add, Put
<1>3. CASE k # key
  BY <1>1, <1>3 DEF At, Add, Put
<1> QED BY <1>2, <1>3

(* One more inline policy adds its statements at most.                     *)
LEMMA InlineAdds ==
  ASSUME StoreInv, NEW f, f.kind = "identity_policy", store' = IndexFact(store, f)
  PROVE  /\ \A p : /\ IdentityStatements(store, p) \subseteq IdentityStatements(store', p)
                   /\ IdentityStatements(store', p)
                        \subseteq IdentityStatements(store, p) \cup f.value
         /\ store'.scps = store.scps /\ store'.boundaries = store.boundaries
         /\ store'.resourcePolicies = store.resourcePolicies
<1>1. store' = [store EXCEPT !.inline = Add(@, f.source, f.value)]
  BY DEF IndexFact
<1>2. /\ store'.inline = Add(store.inline, f.source, f.value)
      /\ store'.attached = store.attached /\ store'.memberOf = store.memberOf
      /\ store'.managed = store.managed /\ store'.scps = store.scps
      /\ store'.boundaries = store.boundaries
      /\ store'.resourcePolicies = store.resourcePolicies
  BY <1>1 DEF StoreInv
<1>3. \A x : UNION At(store'.inline, x)
               = (UNION At(store.inline, x)) \cup (IF x = f.source THEN f.value ELSE {})
  BY <1>2, AddAt
<1> DEFINE managed(s, x) == UNION {At(s.managed, a) : a \in At(s.attached, x)}
           holders(s, p) == {p} \cup At(s.memberOf, p)
<1>4. \A x : managed(store', x) = managed(store, x)
  BY <1>2
<1>5. \A p : holders(store', p) = holders(store, p)
  BY <1>2
<1>6. \A s, p, st : st \in IdentityStatements(s, p) <=>
                     \E x \in holders(s, p) : st \in (UNION At(s.inline, x)) \cup managed(s, x)
  BY DEF IdentityStatements
<1> HIDE DEF managed, holders
<1>7. \A p : IdentityStatements(store, p) \subseteq IdentityStatements(store', p)
  <2> SUFFICES ASSUME NEW p, NEW st \in IdentityStatements(store, p)
               PROVE  st \in IdentityStatements(store', p)
    OBVIOUS
  <2>1. PICK x \in holders(store, p) : st \in (UNION At(store.inline, x)) \cup managed(store, x)
    BY <1>6
  <2>2. st \in (UNION At(store'.inline, x)) \cup managed(store', x)
    BY <1>3, <1>4, <2>1
  <2> QED BY <1>5, <1>6, <2>1, <2>2
<1>8. \A p : IdentityStatements(store', p) \subseteq IdentityStatements(store, p) \cup f.value
  <2> SUFFICES ASSUME NEW p, NEW st \in IdentityStatements(store', p), st \notin f.value
               PROVE  st \in IdentityStatements(store, p)
    OBVIOUS
  <2>1. PICK x \in holders(store', p) : st \in (UNION At(store'.inline, x)) \cup managed(store', x)
    BY <1>6
  <2>2. st \in (UNION At(store.inline, x)) \cup managed(store, x)
    BY <1>3, <1>4, <2>1
  <2> QED BY <1>5, <1>6, <2>1, <2>2
<1> QED BY <1>2, <1>7, <1>8

LEMMA DenyingPolicyWeakens ==
  ASSUME StoreInv, NEW f, f.kind = "identity_policy", AllAre(f, "Deny"),
         store' = IndexFact(store, f), NEW q
  PROVE  Strength(Decision(store', q)) <= Strength(Decision(store, q))
<1> DEFINE p == q.principal
           r == Asked(q.row, q.node)
           a == q.row.action
<1>1. /\ store'.resourcePolicies = store.resourcePolicies
      /\ store'.scps = store.scps /\ store'.boundaries = store.boundaries
  BY InlineAdds
<1>2. /\ IdentityStatements(store, p) \subseteq IdentityStatements(store', p)
      /\ IdentityStatements(store', p) \subseteq IdentityStatements(store, p) \cup f.value
  BY InlineAdds
<1>3. {st \in IdentityStatements(store', p) : Applies(st, "Allow", a, r)}
        = {st \in IdentityStatements(store, p) : Applies(st, "Allow", a, r)}
  BY <1>2 DEF AllAre, Applies
<1>4. AllowedBy(IdentityStatements(store', p), p, a, r)
        = AllowedBy(IdentityStatements(store, p), p, a, r)
  BY <1>3 DEF AllowedBy
<1>5. Governing(store, p, r) \subseteq Governing(store', p, r)
  BY <1>1, <1>2 DEF Governing, ScpsFor
<1>6. GuardrailsAllow(store', p, a, r) => GuardrailsAllow(store, p, a, r)
  BY <1>1, Zenon DEF GuardrailsAllow, ScpsFor
<1> HIDE DEF p, r, a
<1> QED BY <1>1, <1>4, <1>5, <1>6, DenialsWeaken DEF p, r, a

LEMMA DenyingScpWeakens ==
  ASSUME StoreInv, NEW f, f.kind = "scp", AllAre(f, "Deny"),
         store' = IndexFact(store, f), NEW q
  PROVE  Strength(Decision(store', q)) <= Strength(Decision(store, q))
<1> DEFINE p == q.principal
           r == Asked(q.row, q.node)
           a == q.row.action
<1>1. store' = [store EXCEPT !.scps = Add(@, f.source, f.value)]
  BY DEF IndexFact
<1>2. /\ store'.scps = Add(store.scps, f.source, f.value)
      /\ store'.inline = store.inline /\ store'.attached = store.attached
      /\ store'.memberOf = store.memberOf /\ store'.managed = store.managed
      /\ store'.boundaries = store.boundaries
      /\ store'.resourcePolicies = store.resourcePolicies
  BY <1>1 DEF StoreInv
<1>3. /\ ScpsFor(store, p) \subseteq ScpsFor(store', p)
      /\ ScpsFor(store', p) \subseteq ScpsFor(store, p) \cup {f.value}
  BY <1>2, AddAt DEF ScpsFor
<1>4. IdentityStatements(store', p) = IdentityStatements(store, p)
  BY <1>2 DEF IdentityStatements
<1>5. Governing(store, p, r) \subseteq Governing(store', p, r)
  BY <1>2, <1>3, <1>4 DEF Governing
<1>6. ScpAllows(ScpsFor(store', p), a) => ScpAllows(ScpsFor(store, p), a)
  BY <1>3 DEF ScpAllows, AllAre
<1>7. GuardrailsAllow(store', p, a, r) => GuardrailsAllow(store, p, a, r)
  BY <1>2, <1>3, <1>6 DEF GuardrailsAllow
<1> HIDE DEF p, r, a
<1> QED BY <1>2, <1>4, <1>5, <1>7, DenialsWeaken DEF p, r, a

LEMMA AllowingPolicyStrengthens ==
  ASSUME StoreInv, NEW f, f.kind = "identity_policy", AllAre(f, "Allow"),
         store' = IndexFact(store, f), NEW q, Decision(store, q).allowed
  PROVE  Decision(store', q).allowed
<1> DEFINE p == q.principal
           r == Asked(q.row, q.node)
           a == q.row.action
<1>1. /\ store'.resourcePolicies = store.resourcePolicies
      /\ store'.scps = store.scps /\ store'.boundaries = store.boundaries
  BY InlineAdds
<1>2. /\ IdentityStatements(store, p) \subseteq IdentityStatements(store', p)
      /\ IdentityStatements(store', p) \subseteq IdentityStatements(store, p) \cup f.value
  BY InlineAdds
<1>3. /\ Governing(store, p, r) \subseteq Governing(store', p, r)
      /\ Governing(store', p, r) \subseteq Governing(store, p, r) \cup f.value
  BY <1>1, <1>2 DEF Governing, ScpsFor
<1>4. Denies(store', p, a, r) = Denies(store, p, a, r)
  BY <1>3 DEF Denies, AllAre, Applies
<1>5. GuardrailsAllow(store, p, a, r) => GuardrailsAllow(store', p, a, r)
  BY <1>1, Zenon DEF GuardrailsAllow, ScpsFor
<1> HIDE DEF p, r, a
<1> QED BY <1>1, <1>2, <1>4, <1>5, AllowancesStrengthen DEF p, r, a

LEMMA StepOnlyRemoves ==
  ASSUME StoreInv, [Next]_vars, NEW f \in facts' \ facts, NEW q
  PROVE  /\ f.kind \in {"identity_policy", "scp"} /\ AllAre(f, "Deny") =>
              Strength(Decision(store', q)) <= Strength(Decision(store, q))
         /\ f.kind = "identity_policy" /\ AllAre(f, "Allow") /\ Decision(store, q).allowed =>
              Decision(store', q).allowed
<1>1. store' = IndexFact(store, f)
  <2>1. ASSUME NEW g \in FactPool, Index(g) PROVE store' = IndexFact(store, f)
    BY <2>1 DEF Index
  <2>2. ~EvaluatePermissions /\ ~UNCHANGED vars
    BY DEF EvaluatePermissions, vars
  <2> QED BY <2>1, <2>2 DEF Next
<1> QED BY <1>1, DenyingPolicyWeakens, DenyingScpWeakens, AllowingPolicyStrengthens

(* An inline policy or an SCP that only denies strengthens no decision,    *)
(* and an inline policy that only allows takes none away (NewStore,        *)
(* Evaluate): nothing that is denied comes back with a further denial.     *)
THEOREM DenialsWeakenAllowancesKeep == Spec => DenialsOnlyRemove
<1> DEFINE Weakening ==
      \A f \in facts' \ facts, q \in Questions :
        /\ f.kind \in {"identity_policy", "scp"} /\ AllAre(f, "Deny") =>
             Strength(Decision(store', q)) <= Strength(Decision(store, q))
        /\ f.kind = "identity_policy" /\ AllAre(f, "Allow") /\ Decision(store, q).allowed =>
             Decision(store', q).allowed
<1>1. TypeInv /\ [Next]_vars => [Weakening]_vars
  BY StepOnlyRemoves DEF TypeInv
<1> QED BY <1>1, TypesKept, PTL DEF Spec, DenialsOnlyRemove

=============================================================================
