------------------------------- MODULE Derive -------------------------------
(***************************************************************************)
(* The derivation of attack-path edges (engine/internal/derive/derive.go): *)
(* two-edge joins, one-edge promotions and takeovers of whole containers   *)
(* are applied to the edges present until a pass changes nothing.          *)
(*                                                                         *)
(* An edge is identified by type, source, target and scope (the tuple      *)
(* model.EdgeID hashes); of the rest of it the derivation reads its nature,*)
(* state and weight, and composes the ids of the edges it came from.       *)
(* Confidence, narrative, permissions and conditions are carried along and *)
(* never read.  Weights are counted in halves, so that all are integers.   *)
(***************************************************************************)
EXTENDS Naturals, FiniteSets

CONSTANTS
  NodeType,   \* the type of each node
  AccountOf,  \* the account segment of each node id ("" when it has none)
  Inputs      \* the edge sets Derive may be given: functions from ids to edges

Nodes == DOMAIN NodeType

ASSUME NodesAssumption == Nodes = DOMAIN AccountOf

Id(type, source, target, scope) ==
  [type |-> type, source |-> source, target |-> target, scope |-> scope]

Edge(nature, state, weight, from) ==
  [nature |-> nature, state |-> state, weight |-> weight, from |-> from]

-----------------------------------------------------------------------------
(* The rules.                                                              *)

CapabilityTypes ==
  {"CanReadSecret", "CanReadData", "CanWriteData", "CanInvoke", "CanModifyCode",
   "CanModifyConfiguration", "CanExecuteCommand", "CanDecrypt", "CanExportKey",
   "CanPassIdentity", "CanTrigger", "CanModifyPolicy", "CanModify", "CanModifyTrust",
   "CanAddMember", "CanCreateCredentialFor", "CanResetCredential", "CanDelete",
   "CanStart", "CanImpersonate", "CanSignAs", "CanGrantPermission"}

ControlPivots ==
  {"CanModifyCode", "CanExecuteCommand", "CanInvoke", "CanModifyConfiguration"}

AccountContainerTypes == {"Project", "Subscription", "Account"}

IdentityTypes ==
  {"HumanIdentity", "Role", "Group", "ServiceIdentity", "FederatedIdentity",
   "ApplicationIdentity", "WorkloadIdentity", "ServiceAccount"}

Rule(join, first, second, emit, weight) ==
  [join |-> join, first |-> first, second |-> second, emit |-> emit, weight |-> weight]

(* emit = "same": the type of the second edge.                             *)
Rules == {
  Rule("chain", {"CanAssume"}, CapabilityTypes, "same", 2),
  Rule("chain", {"CanImpersonate"}, CapabilityTypes, "same", 2),
  Rule("chain", {"ExecutesAs"}, CapabilityTypes, "same", 2),
  Rule("chain", ControlPivots, CapabilityTypes, "same", 3),
  Rule("chain", ControlPivots, {"ExecutesAs"}, "CanExecuteAs", 3),
  Rule("chain", {"CanAssume"}, {"ExecutesAs"}, "CanExecuteAs", 2),
  Rule("chain", {"CanTrigger"}, {"ExecutesAs"}, "CanExecuteAs", 4),
  Rule("same source", {"CanModifyConfiguration"}, {"CanPassIdentity"}, "CanExecuteAs", 4),
  Rule("same source", {"CanSchedule"}, {"CanPassIdentity"}, "CanExecuteAs", 4),
  Rule("chain", {"CanReadSecret", "CanReadCredential"},
       {"CredentialsFor", "CredentialValidFor"}, "CanImpersonate", 2),
  Rule("chain", {"CanWriteData"}, {"CanTrigger"}, "CanTrigger", 3),
  Rule("chain", {"CanTrigger"}, {"CanTrigger"}, "CanTrigger", 3),
  Rule("same target", {"CanModifyCode"}, {"ContainsResourceReference"}, "CanModifyCode", 4),
  Rule("chain", {"Controls"}, {"Contains"}, "Controls", 2),
  Rule("chain", {"CanNetworkReach"}, {"CanNetworkReach"}, "CanNetworkReach", 2)}

Promotion(match, emit, targets) == [match |-> match, emit |-> emit, targets |-> targets]

AnyType == {NodeType[n] : n \in Nodes}

Promotions == {
  Promotion({"CanCreateCredentialFor", "CanResetCredential", "CanModifyTrust",
             "CanAddMember", "CanModifyPolicy", "CanGrantPermission"},
            "CanEscalateTo", IdentityTypes),
  Promotion({"CanImpersonate", "CanExecuteAs", "CanFederateAs"},
            "CanEscalateTo", IdentityTypes),
  Promotion({"CanModifyPolicy", "CanModifyTrust", "CanModify", "CanDelete",
             "CanTakeOwnership", "CanGrantPermission"}, "CanControl", AnyType),
  Promotion({"CanControl"}, "CanReadSecret", {"Secret"}),
  Promotion({"CanControl"}, "CanReadData",
            {"ObjectStorage", "DataWarehouse", "FileStore", "BlockStorage", "Cache",
             "NoSQLDatabase", "RelationalDatabase"}),
  Promotion({"ExternalIdentityMapsTo"}, "CanFederateAs", IdentityTypes),
  Promotion({"CanFederateAs"}, "CanEnterAccount", IdentityTypes),
  Promotion({"CanFederateAs"}, "CanImpersonate", IdentityTypes),
  Promotion({"PrivateReachability"}, "CanNetworkReach", AnyType),
  Promotion({"ExposedToInternet"}, "CanNetworkReach", AnyType)}

-----------------------------------------------------------------------------
(* What a rule emits: a pair of an id and an edge.                         *)

States == {"ACTIVE", "CONDITIONAL", "BLOCKED"}

(* The builder and the evaluators cite no edges: "from" starts out empty.  *)
ASSUME InputsAssumption ==
  \A g \in Inputs : \A x \in DOMAIN g :
    g[x] \in [nature : {"explicit", "derived"}, state : States, weight : Nat, from : {{}}]

(* A faulty variant: one active contributor is enough.                     *)
StrongestUnlessBlocked(a, b) ==
  IF "BLOCKED" \in {a, b} THEN "BLOCKED"
  ELSE IF "ACTIVE" \in {a, b} THEN "ACTIVE" ELSE "CONDITIONAL"

Weakest(a, b) ==
  IF "BLOCKED" \in {a, b} THEN "BLOCKED"
  ELSE IF {a, b} = {"ACTIVE"} THEN "ACTIVE" ELSE "CONDITIONAL"

(* A faulty variant: an edge cites its immediate contributors.             *)
CitedOnly(edges, x) == {x}

(* The edges an edge came from: itself, unless it cites others.            *)
Cited(edges, x) == IF edges[x].from = {} THEN {x} ELSE edges[x].from

Joins(r, x, y) ==
  /\ x # y /\ x.type \in r.first /\ y.type \in r.second
  /\ CASE r.join = "chain" -> x.target = y.source
       [] r.join = "same source" -> x.source = y.source
       [] r.join = "same target" -> x.target = y.target

ComposeEdge(edges, r, x, y) ==
  << Id(IF r.emit = "same" THEN y.type ELSE r.emit, x.source,
        IF r.join = "same target" THEN y.source ELSE y.target, y.scope),
     Edge("derived", Weakest(edges[x].state, edges[y].state),
          edges[x].weight + edges[y].weight + r.weight,
          Cited(edges, x) \cup Cited(edges, y)) >>

Composed(edges) ==
  UNION {{ComposeEdge(edges, r, p[1], p[2]) :
            p \in {q \in (DOMAIN edges) \X (DOMAIN edges) : Joins(r, q[1], q[2])}} : r \in Rules}

Promote(edges, p, x) ==
  << Id(p.emit, x.source, x.target, x.scope),
     Edge("derived", edges[x].state, edges[x].weight, Cited(edges, x)) >>

Promoted(edges) ==
  UNION {{Promote(edges, p, x) :
            x \in {z \in DOMAIN edges : z.type \in p.match
                                        /\ NodeType[z.target] \in p.targets}} : p \in Promotions}

TakeoverEdge(edges, x, node, type) ==
  << Id(type, x.source, node, ""),
     Edge("derived", edges[x].state, edges[x].weight + 4, Cited(edges, x)) >>

(* Controlling a project, subscription or account controls what is in it.  *)
Owned(x) ==
  {n \in Nodes \ {x.source} :
     /\ NodeType[x.target] \in AccountContainerTypes
     /\ AccountOf[x.target] # "" /\ AccountOf[n] = AccountOf[x.target]
     /\ NodeType[n] # "Project"}

(* Controlling the tenant controls every subscription and every identity.  *)
OwnedSubscriptions(x) ==
  {n \in Nodes \ {x.source} :
     NodeType[x.target] = "Tenant" /\ NodeType[n] = "Subscription"}

OwnedIdentities(x) ==
  {n \in Nodes \ {x.source} :
     NodeType[x.target] = "Tenant" /\ NodeType[n] \in IdentityTypes}

Takeovers(edges) ==
  UNION {{TakeoverEdge(edges, x, n, "CanControl") : n \in Owned(x) \cup OwnedSubscriptions(x)}
         \cup {TakeoverEdge(edges, x, n, "CanEscalateTo") :
                 n \in {o \in Owned(x) : NodeType[o] \in IdentityTypes}
                       \cup OwnedIdentities(x)} :
         x \in {z \in DOMAIN edges : z.type \in {"CanControl", "CanGrantPermission"}}}

Candidates(edges) == Composed(edges) \cup Promoted(edges) \cup Takeovers(edges)

-----------------------------------------------------------------------------

StateRank(s) == CASE s = "ACTIVE" -> 2 [] s = "CONDITIONAL" -> 1 [] OTHER -> 0

(* A faulty variant: explicit edges are overwritten.                       *)
BetterEvenIfExplicit(cand, existing) ==
  \/ cand.weight < existing.weight
  \/ cand.weight = existing.weight /\ StateRank(cand.state) > StateRank(existing.state)

BetterEdge(cand, existing) ==
  /\ cand.nature = "derived" /\ existing.nature = "derived"
  /\ \/ cand.weight < existing.weight
     \/ cand.weight = existing.weight /\ StateRank(cand.state) > StateRank(existing.state)

VARIABLES
  given,    \* the edges Derive was called with
  present,  \* the edges present, by id
  derived,  \* the edges it will return, by id
  offers,   \* what the rules emit in this pass and upsert has not yet seen
  changed,  \* whether upsert changed anything in this pass
  phase     \* where the loop is

vars == <<given, present, derived, offers, changed, phase>>

Init ==
  /\ given \in Inputs
  /\ present = given
  /\ derived = [x \in {} |-> {}]
  /\ offers = {} /\ changed = TRUE
  /\ phase = "loop"

(* A round of the loop begins.  The rules read the edges as they are now   *)
(* (all, bySource, byTarget), whatever upsert does in the meantime.        *)
BeginPass ==
  /\ phase = "loop" /\ changed
  /\ offers' = Candidates(present)
  /\ changed' = FALSE
  /\ phase' = "pass"
  /\ UNCHANGED <<given, present, derived>>

(* The offers for id x that upsert takes: better than the edge there, if    *)
(* there is one.                                                           *)
Improving(x, es) == {e \in es : x \in DOMAIN present => BetterEdge(e, present[x])}

(* The edges it may leave at x once it has seen all of them, in the order  *)
(* of Go's map iteration: the first of the best.                           *)
Winners(es) == {e \in es : \A f \in es : ~BetterEdge(f, e)}

Put(edges, x, e) == [y \in DOMAIN edges \cup {x} |-> IF y = x THEN e ELSE edges[y]]

NextId == (CHOOSE c \in offers : TRUE)[1]
OffersFor(x) == {c[2] : c \in {d \in offers : d[1] = x}}

(* A faulty variant: the edge present is replaced and the one to return is *)
(* not.                                                                    *)
UpsertWithoutReplacing ==
  /\ phase = "pass" /\ offers # {}
  /\ LET x == NextId
         better == Improving(x, OffersFor(x)) IN
     /\ IF better = {} THEN UNCHANGED <<present, derived, changed>>
        ELSE \E e \in Winners(better) :
               /\ present' = Put(present, x, e)
               /\ derived' = IF x \in DOMAIN derived THEN derived ELSE Put(derived, x, e)
               /\ changed' = TRUE
     /\ offers' = {c \in offers : c[1] # x}
  /\ UNCHANGED <<given, phase>>

(* A faulty variant: every offer counts as a change.                       *)
UpsertAlwaysChanged ==
  /\ phase = "pass" /\ offers # {}
  /\ LET x == NextId
         better == Improving(x, OffersFor(x)) IN
     /\ IF better = {} THEN UNCHANGED <<present, derived>>
        ELSE \E e \in Winners(better) :
               present' = Put(present, x, e) /\ derived' = Put(derived, x, e)
     /\ offers' = {c \in offers : c[1] # x}
  /\ changed' = TRUE
  /\ UNCHANGED <<given, phase>>

(* upsert, of all the edges offered for one id: edges of different ids do  *)
(* not meet before the next pass, so the order of the ids is immaterial.   *)
Upsert ==
  /\ phase = "pass" /\ offers # {}
  /\ LET x == NextId
         better == Improving(x, OffersFor(x)) IN
     /\ IF better = {} THEN UNCHANGED <<present, derived, changed>>
        ELSE \E e \in Winners(better) :
               /\ present' = Put(present, x, e) /\ derived' = Put(derived, x, e)
               /\ changed' = TRUE
     /\ offers' = {c \in offers : c[1] # x}
  /\ UNCHANGED <<given, phase>>

(* A faulty variant: the rules are applied once.                           *)
EndOnlyPass ==
  /\ phase = "pass" /\ offers = {}
  /\ phase' = "done"
  /\ UNCHANGED <<given, present, derived, offers, changed>>

EndPass ==
  /\ phase = "pass" /\ offers = {}
  /\ phase' = IF changed THEN "loop" ELSE "done"
  /\ UNCHANGED <<given, present, derived, offers, changed>>

Next == BeginPass \/ Upsert \/ EndPass

Spec == Init /\ [][Next]_vars

(* The loop is sequential code.                                            *)
FairSpec == Spec /\ WF_vars(Next)

-----------------------------------------------------------------------------
(* Properties.                                                             *)

IsEdge(e) ==
  /\ e.nature \in {"explicit", "derived"} /\ e.state \in States /\ e.weight \in Nat
  /\ e.from \subseteq DOMAIN given

TypeOK ==
  /\ given \in Inputs
  /\ DOMAIN given \subseteq DOMAIN present
  /\ \A x \in DOMAIN present : IsEdge(present[x])
  /\ DOMAIN derived \subseteq DOMAIN present
  /\ \A c \in offers : IsEdge(c[2])
  /\ changed \in BOOLEAN /\ phase \in {"loop", "pass", "done"}

(* An explicit edge is never replaced, whatever lighter path is derived    *)
(* for the same pair, and what is returned is what is present and nothing  *)
(* but derived edges (betterEdge, upsert, replaceDerived).                 *)
ExplicitEdgesKept ==
  /\ \A x \in DOMAIN given : given[x].nature = "explicit" => present[x] = given[x]
  /\ \A x \in DOMAIN derived : derived[x] = present[x] /\ derived[x].nature = "derived"

WeakestOf(states) ==
  IF "BLOCKED" \in states THEN "BLOCKED"
  ELSE IF states = {"ACTIVE"} THEN "ACTIVE" ELSE "CONDITIONAL"

(* The state of a derived edge is the weakest of the given edges it cites, *)
(* through any number of joins, promotions and takeovers and whatever was  *)
(* improved in between: no path is ACTIVE that has to cross a CONDITIONAL  *)
(* or BLOCKED edge ("State propagates weakest-contributor").               *)
StateIsWeakest ==
  \A x \in DOMAIN derived :
    /\ derived[x].from # {}
    /\ derived[x].state = WeakestOf({given[y].state : y \in derived[x].from})

(* When the loop ends no rule is left to apply: everything it can emit is  *)
(* present, as light and as strong as that (Derive's fixpoint).            *)
Closed ==
  phase = "done" => \A c \in Candidates(present) :
            c[1] \in DOMAIN present /\ ~BetterEdge(c[2], present[c[1]])

(* When the loop ends every derived edge can still be had from the edges   *)
(* present at exactly its weight and state: none is left that was computed *)
(* from an edge that was lighter or stronger, or later replaced.  With     *)
(* Closed, weights and states do not depend on Go's map order.             *)
Supported ==
  phase = "done" => \A x \in DOMAIN derived :
    \E c \in Candidates(present) :
      c[1] = x /\ c[2].weight = derived[x].weight /\ c[2].state = derived[x].state

(* The loop ends: cycles of assumable or impersonating identities, and of  *)
(* promotions that cost nothing, do not improve an edge for ever.          *)
Terminates == <>(phase = "done")

=============================================================================
