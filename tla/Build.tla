-------------------------------- MODULE Build --------------------------------
(***************************************************************************)
(* From an evidence bundle to the edges of the graph: the base graph       *)
(* (engine/internal/build/build.go) and what the pipeline adds to it       *)
(* (engine/internal/pipeline/pipeline.go).                                 *)
(*                                                                         *)
(* Names are tuples, so that the prefixes the code looks at are there to   *)
(* be looked at: <<"arn", x>> is an ARN, <<"sg-1">> a bare id, and a node  *)
(* of the inventory is <<provider, account, resource type, native id>>.    *)
(* Narratives, evidence and the counts of the report are left out.         *)
(***************************************************************************)
EXTENDS Naturals, SequencesExt

CONSTANTS
  ArtifactPool, MaxArtifacts,  \* the resources there may be, and how many at once
  FactPool, MaxFacts,          \* the facts there may be, and how many at once
  AccountOf,                   \* the account segment of a name ("" when it has none)
  Permissions,                 \* edges an evaluator may give, if their ends are nodes
  Callers                      \* who collected: a sequence

IsArn(v) == v[1] = "arn"

(* The id of a resource has no region in it.                               *)
NodeID(a) == <<a.provider, a.account, a.type, a.native>>

Names == Seq(STRING)
Conditions == SUBSET [op : STRING, key : STRING, values : SUBSET STRING]
Statements == [effect : STRING, public : BOOLEAN, aws : Seq(Names), services : Seq(Names),
               conditions : Conditions]

(* The name of no resource, and of no node that is made up for one.        *)
Unlisted(v) ==
  v[1] \notin {"arn", "arn|", "name|"} /\ \A a \in ArtifactPool : v \notin {a.arn, NodeID(a)}

Policies == {"trust_policy", "resource_policy"}

(* The facts of the evaluators, which make no edge here.                   *)
EvaluatorKinds ==
  {"identity_policy", "managed_policy", "scp", "iam_binding", "role_permissions", "hierarchy",
   "deny_policy", "role_assignment", "role_definition", "deny_assignment", "principal", "member_of",
   "entra_role_assignment", "entra_app_role", "entra_owner", "entra_group_owner",
   "entra_role_eligible", "mg_hierarchy", "public_container"}

(* A policy is of something, a service has a prefix of its own, and what a *)
(* fact relates is an ARN, a network or a bare id (facts_network.go,       *)
(* facts_iam.go).                                                          *)
ASSUME BuildAssumption ==
  /\ MaxArtifacts \in Nat /\ MaxFacts \in Nat
  /\ Unlisted(<<"principal:*">>)
  /\ \A f \in FactPool :
       /\ f.statements \in Seq(Statements)
       /\ \A st \in ToSet(f.statements) :
            <<>> \notin ToSet(st.aws) /\ \A s \in ToSet(st.services) : s # <<>> /\ Unlisted(s)
       /\ f.kind \in Policies => f.source # <<>>
       /\ f.kind \notin Policies \cup EvaluatorKinds =>
            \A v \in {f.source, f.target} \ {<<>>} : IsArn(v) \/ Unlisted(v)
Node(id, type, account, arn) == [id |-> id, type |-> type, account |-> account, arn |-> arn]

Id(type, source, target, scope) ==
  [type |-> type, source |-> source, target |-> target, scope |-> scope]
Edge(id, state, weight) == [id |-> id, state |-> state, weight |-> weight]

-----------------------------------------------------------------------------
(* A graph: nodes in the order they were added, and the node of each ARN.  *)

HasNode(g, id) == \E i \in DOMAIN g.nodes : g.nodes[i].id = id

AddNode(g, n) == IF HasNode(g, n.id) THEN g ELSE [g EXCEPT !.nodes = Append(@, n)]

(* What a name of a fact may be taken for: an ARN whatever it looks like,  *)
(* the name of something that is not inventoried, or either of the two.    *)
Ref(as, name, type) == [as |-> as, name |-> name, type |-> type]
AsArn(r) == r.as = "arn" \/ (r.as = "endpoint" /\ IsArn(r.name))

(* A faulty variant: what is inventoried is not looked up.                 *)
NodeOfUnresolved(g, r) ==
  IF AsArn(r) THEN <<"arn|", r.name>>
  ELSE <<"name|", r.name>>

(* The node a name leads to, if it has one.                                *)
NodeOf(g, r) ==
  IF AsArn(r)
  THEN IF r.name \in DOMAIN g.byArn THEN g.byArn[r.name] ELSE <<"arn|", r.name>>
  ELSE IF r.as = "endpoint" /\ HasNode(g, r.name) THEN r.name ELSE <<"name|", r.name>>

Filed(byArn, arn, id) == [v \in DOMAIN byArn \cup {arn} |-> IF v = arn THEN id ELSE byArn[v]]

(* A synthetic node for a name that has none.                              *)
Ensure(g, r) ==
  LET id == NodeOf(g, r)
      byName == id[1] = "name|"
  IN  IF HasNode(g, id) THEN g
      ELSE [nodes |-> Append(g.nodes, Node(id, r.type, IF byName THEN "" ELSE AccountOf[r.name],
                                           IF byName THEN <<>> ELSE r.name)),
            byArn |-> IF byName THEN g.byArn ELSE Filed(g.byArn, r.name, id)]

(* One for each of several names, in this order.                           *)
EnsureAll(g, refs) ==
  LET after[i \in 0..Len(refs)] == IF i = 0 THEN g ELSE Ensure(after[i - 1], refs[i])
  IN  after[Len(refs)]

-----------------------------------------------------------------------------
(* What a fact leads to: links, from one name to another.                  *)

Link(type, source, target, state, weight, scope) ==
  [type |-> type, source |-> source, target |-> target, state |-> state,
   weight |-> weight, scope |-> scope]

Each(names, F(_)) == [i \in DOMAIN names |-> F(names[i])]
OfEach(names, F(_)) == FlattenSeq(Each(names, F))

(* A document that is empty or does not parse has no statements.           *)
TrustLinks(f) ==
  LET role == Ref("arn", f.source, "Role")
      OfStatement(st) ==
        IF st.effect # "Allow" THEN << >>
        ELSE Each(st.aws, LAMBDA p :
                    Link("CanAssume", Ref("arn", p, "Identity"), role, "ACTIVE", 2, f.source))
             \o Each(st.services, LAMBDA s :
                    Link("CanAssume", Ref("name", s, "Service"), role, "ACTIVE", 4, f.source))
  IN  OfEach(f.statements, OfStatement)

Everyone == Ref("name", <<"principal:*">>, "Everyone")

(* One value that is the account's own is enough.                          *)
SameAccountConfined(conditions, account) ==
  account # "" /\ \E c \in conditions :
                    c.op = "StringEquals" /\ c.key = "account" /\ account \in c.values

ResourceLinks(f) ==
  LET resource == Ref("arn", f.source, "Resource")
      account == AccountOf[f.source]
      OfPrincipal(p) ==
        IF AccountOf[p] # "" /\ account # "" /\ AccountOf[p] = account THEN << >>
        ELSE << Link("CrossAccountTrust", resource, Ref("arn", p, "Identity"), "ACTIVE", 2, f.source) >>
      OfStatement(st) ==
        IF st.effect # "Allow" \/ (st.public /\ SameAccountConfined(st.conditions, account)) THEN << >>
        ELSE IF st.public
        THEN << Link("CrossAccountTrust", resource, Everyone,
                     IF st.conditions = {} THEN "ACTIVE" ELSE "CONDITIONAL", 2, f.source) >>
        ELSE OfEach(st.aws, OfPrincipal)
  IN  OfEach(f.statements, OfStatement)

EndpointType(v) ==
  CASE IsArn(v) -> "Resource" [] v[1] = "sg" -> "SecurityGroup" [] v[1] = "cidr" -> "CIDR"
    [] OTHER -> "Unknown"

DirectLinks(f) ==
  IF f.source = <<>> \/ f.target = <<>> \/ f.hint = "" THEN << >>
  ELSE << Link(f.hint, Ref("endpoint", f.source, EndpointType(f.source)),
               Ref("endpoint", f.target, EndpointType(f.target)), "ACTIVE", 2, f.region) >>

(* A resource and a role have a node even if nothing links to them.        *)
Links(f) ==
  CASE f.kind = "trust_policy" -> TrustLinks(f)
    [] f.kind = "resource_policy" -> ResourceLinks(f)
    [] f.kind \in EvaluatorKinds -> << >>
    [] OTHER -> DirectLinks(f)

Named(f) ==
  (CASE f.kind = "trust_policy" -> << Ref("arn", f.source, "Role") >>
     [] f.kind = "resource_policy" -> << Ref("arn", f.source, "Resource") >>
     [] OTHER -> << >>)
  \o OfEach(Links(f), LAMBDA l : << l.source, l.target >>)

EdgeOf(g, l) ==
  Edge(Id(l.type, NodeOf(g, l.source), NodeOf(g, l.target), l.scope), l.state, l.weight)

-----------------------------------------------------------------------------

VARIABLES
  artifacts,  \* the artifacts read so far
  facts,      \* the facts read so far
  graph,      \* nodes, and the node of each ARN
  edges,      \* the edges, in the order they were added
  footholds,  \* the nodes marked as the identity of the collector
  phase       \* what the pipeline is at

vars == <<artifacts, facts, graph, edges, footholds, phase>>

Init ==
  /\ artifacts = << >> /\ facts = << >> /\ edges = << >> /\ footholds = {}
  /\ graph = [nodes |-> << >>, byArn |-> [v \in {} |-> {}]]
  /\ phase = "inventory"

ReadArtifact(a) ==
  /\ phase = "inventory" /\ Len(artifacts) < MaxArtifacts /\ a \notin ToSet(artifacts)
  /\ artifacts' = Append(artifacts, a)
  /\ LET g == AddNode(graph, Node(NodeID(a), a.nodeType, a.account, a.arn)) IN
       graph' = IF a.arn = <<>> THEN g ELSE [g EXCEPT !.byArn = Filed(@, a.arn, NodeID(a))]
  /\ UNCHANGED <<facts, edges, footholds, phase>>

InventoryRead ==
  /\ phase = "inventory"
  /\ phase' = "facts"
  /\ UNCHANGED <<artifacts, facts, graph, edges, footholds>>

ReadFact(f) ==
  /\ phase = "facts" /\ Len(facts) < MaxFacts /\ f \notin ToSet(facts)
  /\ facts' = Append(facts, f)
  /\ LET g == EnsureAll(graph, Named(f)) IN
       graph' = g /\ edges' = edges \o Each(Links(f), LAMBDA l : EdgeOf(g, l))
  /\ UNCHANGED <<artifacts, footholds, phase>>

(* What executes as a role, once the facts are read.                       *)
ExecutesAs ==
  /\ phase = "facts"
  /\ LET users == OfEach(artifacts, LAMBDA a : IF a.role = <<>> THEN << >> ELSE << a >>)
         g == EnsureAll(graph, Each(users, LAMBDA a : Ref("arn", a.role, "Role")))
     IN  /\ graph' = g
         /\ edges' = edges \o Each(users, LAMBDA a :
              Edge(Id("ExecutesAs", NodeID(a), NodeOf(g, Ref("arn", a.role, "Role")), ""),
                   "ACTIVE", 2))
  /\ phase' = "permissions"
  /\ UNCHANGED <<artifacts, facts, footholds>>

AreNodes(g, e) == HasNode(g, e.id.source) /\ HasNode(g, e.id.target)

(* Whatever the evaluators make of the facts and the nodes.                *)
EvaluatePermissions ==
  /\ phase = "permissions"
  /\ \E given \in SUBSET {e \in Permissions : AreNodes(graph, e)} : edges' = edges \o SetToSeq(given)
  /\ phase' = "footholds"
  /\ UNCHANGED <<artifacts, facts, graph, footholds>>

(* What follows the last bar of an id.                                     *)
LastSegment(id) == IF id[1] \in {"arn|", "name|"} THEN id[2] ELSE << id[4] >>

(* An ARN ends with the name of what it is the ARN of.                     *)
Represents(n, caller) == LastSegment(n.id) = caller \/ (n.arn # <<>> /\ IsSuffix(caller, n.arn))

(* The node of a GCP caller that has none: callers that are not an email   *)
(* address get none.                                                       *)
FootholdNode(c) ==
  IF c.member = "user"
  THEN Node(<<"gcp", c.account, "gcp:iam:user", c.caller[1]>>, "HumanIdentity", c.account, c.caller)
  ELSE Node(<<"gcp", c.account, "gcp:iam:service-account", c.caller[1]>>, "ServiceAccount",
            c.account, c.caller)

(* The first node that represents the caller is marked, or a new one.      *)
ApplyFoothold(acc, c) ==
  LET found == {i \in DOMAIN acc.nodes : Represents(acc.nodes[i], c.caller)} IN
  IF found # {}
  THEN [acc EXCEPT !.marked = @ \cup {acc.nodes[CHOOSE i \in found : \A j \in found : i <= j].id}]
  ELSE IF c.member = "" \/ (c.provider # "gcp" /\ c.member # "serviceAccount") THEN acc
  ELSE [nodes |-> Append(acc.nodes, FootholdNode(c)), marked |-> acc.marked \cup {FootholdNode(c).id}]

ApplyFootholds ==
  /\ phase = "footholds"
  /\ LET r == FoldLeft(ApplyFoothold, [nodes |-> graph.nodes, marked |-> {}], Callers) IN
       graph' = [graph EXCEPT !.nodes = r.nodes] /\ footholds' = r.marked
  /\ phase' = "derivation"
  /\ UNCHANGED <<artifacts, facts, edges>>

(* Derive's joins, of which the module Derive has the rules: an edge from  *)
(* where one begins to where the next one ends, weaker and heavier.        *)
Joined(x, y) ==
  Edge(Id(y.id.type, x.id.source, y.id.target, y.id.scope),
       IF {x.state, y.state} = {"ACTIVE"} THEN "ACTIVE" ELSE "CONDITIONAL",
       x.weight + y.weight + 2)

AddDerived ==
  /\ phase = "derivation"
  /\ LET chains == {Joined(edges[i], edges[j]) : i, j \in DOMAIN edges}
         derivable == {e \in chains : \E i, j \in DOMAIN edges :
                         edges[j].id.source = edges[i].id.target /\ e = Joined(edges[i], edges[j])}
     IN  \E given \in SUBSET derivable :
           Cardinality(given) <= 1 /\ edges' = edges \o SetToSeq(given)
  /\ phase' = "built"
  /\ UNCHANGED <<artifacts, facts, graph, footholds>>

Next ==
  \/ \E a \in ArtifactPool : ReadArtifact(a)
  \/ InventoryRead
  \/ \E f \in FactPool : ReadFact(f)
  \/ ExecutesAs \/ EvaluatePermissions \/ ApplyFootholds \/ AddDerived

Spec == Init /\ [][Next]_vars

-----------------------------------------------------------------------------
(* Properties.                                                             *)

(* What a name means: the inventoried resource it is the ARN of, or, where *)
(* there is none, itself, by a policy also if it is no ARN.                *)
Meant(v) ==
  LET inventoried == {a \in ToSet(artifacts) : a.arn = v} IN
  IF inventoried # {} THEN {NodeID(a) : a \in inventoried}
  ELSE {<<"arn|", v>>} \cup (IF IsArn(v) THEN {} ELSE {<<"name|", v>>})

(* The relations a fact states: who may assume the role, who may use the   *)
(* resource from outside of its account, and what it says itself.          *)
Stated(f) ==
  LET allowing == {st \in ToSet(f.statements) : st.effect = "Allow"} IN
  CASE f.kind = "trust_policy" ->
         UNION {{<<"CanAssume", p, f.source>> : p \in ToSet(st.aws) \cup ToSet(st.services)} : st \in allowing}
    [] f.kind = "resource_policy" ->
         (UNION {{<<"CrossAccountTrust", f.source, p>> :
                    p \in {q \in ToSet(st.aws) : AccountOf[q] # AccountOf[f.source] \/ AccountOf[q] = ""}} :
                 st \in {x \in allowing : ~x.public}})
         \cup {<<"CrossAccountTrust", f.source, <<"principal:*">>>> :
                  st \in {x \in allowing : x.public /\ ~SameAccountConfined(x.conditions, AccountOf[f.source])}}
    [] f.kind \in EvaluatorKinds -> {}
    [] OTHER -> IF f.source = <<>> \/ f.target = <<>> \/ f.hint = "" THEN {}
                ELSE {<<f.hint, f.source, f.target>>}

AllStated ==
  (UNION {Stated(f) : f \in ToSet(facts)}) \cup
  (IF phase \in {"inventory", "facts"} THEN {}
   ELSE {<<"ExecutesAs", a.arn, a.role>> : a \in {x \in ToSet(artifacts) : x.role # <<>>}})

Between(e, r) ==
  e.id.type = r[1] /\ e.id.source \in Meant(r[2]) /\ e.id.target \in Meant(r[3])

(* The base graph is what the evidence states, about the resources it      *)
(* means: in whatever order inventory and facts are read, every relation   *)
(* that is stated has its edge, between the nodes of the inventory where   *)
(* it names something inventoried; no edge is there without one; and both  *)
(* ends of every edge are nodes (Build).                                   *)
EdgesFromEvidence ==
  phase \in {"facts", "permissions"} =>
    /\ \A r \in AllStated : \E i \in DOMAIN edges : Between(edges[i], r)
    /\ \A i \in DOMAIN edges : \E r \in AllStated : Between(edges[i], r)
    /\ \A i \in DOMAIN edges : AreNodes(graph, edges[i])

(* A grant to the account that owns the resource is no trust in another    *)
(* one ("same-account grant is not cross-account trust", fromResource-     *)
(* Policy).                                                                *)
TrustCrossesAccounts ==
  phase = "facts" =>
    \A f \in {x \in ToSet(facts) : x.kind = "resource_policy"}, i \in DOMAIN edges :
      edges[i].id.type = "CrossAccountTrust" /\ edges[i].id.source \in Meant(f.source) =>
        \A v \in {w \in DOMAIN AccountOf : edges[i].id.target \in Meant(w)} :
          AccountOf[v] # f.account

=============================================================================
