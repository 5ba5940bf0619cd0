---------------------------- MODULE AwsEvaluator ----------------------------
(***************************************************************************)
(* Effective AWS permissions (engine/internal/evaluator): the facts of a   *)
(* bundle are indexed into a store, and then each capability of the table  *)
(* is asked of each principal and each resource it targets; what is        *)
(* allowed becomes an edge, ACTIVE or CONDITIONAL.                         *)
(*                                                                         *)
(* A statement's action and resource patterns are abstracted to the sets   *)
(* of actions and ARNs they match, with Not... forms as complements, its   *)
(* AWS principals to the principals and the account roots named.  Order    *)
(* matters nowhere but for what a later fact replaces, so documents and    *)
(* lists are sets.  Provenance and the labels of conditions are left out.  *)
(* A fact's source is the ARN that store.go indexes it by; an SCP's is the *)
(* account of its scope.  Documents that do not parse are no facts.        *)
(***************************************************************************)
EXTENDS Naturals, FiniteSets, Policy

CONSTANTS
  Nodes,             \* [type, service] of each node with an ARN, by ARN
  Objects,           \* the object namespace ("<arn>/*") of each node's ARN
  AccountOf,         \* the account in an ARN, "" when it names none
  FactPool,          \* facts a bundle may hold
  MaxFacts,          \* bound: how many of them it holds
  RequestTimeKeys,   \* the condition keys isRequestTimeKey lists
  Requests           \* values a request may give some of these keys

Arns == DOMAIN Nodes \cup {Objects[n] : n \in DOMAIN Nodes}

ASSUME EvaluatorAssumption ==
  /\ DOMAIN Objects = DOMAIN Nodes /\ Arns \subseteq DOMAIN AccountOf
  /\ MaxFacts \in Nat
  /\ \A r \in Requests : DOMAIN r \subseteq RequestTimeKeys

(* The nodes whose permissions are asked for.                              *)
IdentityNodeTypes ==
  {"HumanIdentity", "Role", "ServiceIdentity", "FederatedIdentity", "ApplicationIdentity"}
Principals == {n \in DOMAIN Nodes : Nodes[n].type \in IdentityNodeTypes}

(* What a statement's actions or resources are: those it lists, or, with   *)
(* NotAction and NotResource, the others.                                  *)
Only(set) == [not |-> FALSE, of |-> set]
AllBut(set) == [not |-> TRUE, of |-> set]
Matches(m, x) == (x \in m.of) # m.not

Principal(public, names, roots) == [public |-> public, names |-> names, roots |-> roots]
Unnamed == Principal(FALSE, {}, {})

Statement(effect, action, resource, principal, cond) ==
  [effect |-> effect, action |-> action, resource |-> resource, principal |-> principal,
   cond |-> cond]

-----------------------------------------------------------------------------
(* The table of capabilities.                                              *)

Row(edge, service, action, targets, objects) ==
  [edge |-> edge, service |-> service, action |-> action, targets |-> targets,
   objects |-> objects]

Capabilities == {
  Row("CanReadSecret", "secretsmanager", "GetSecretValue", {"Secret"}, FALSE),
  Row("CanReadSecret", "ssm-params", "GetParameter", {"Secret"}, FALSE),
  Row("CanDecrypt", "kms", "Decrypt", {"EncryptionKey"}, FALSE),
  Row("CanReadData", "s3", "GetObject", {"ObjectStorage"}, TRUE),
  Row("CanReadData", "dynamodb", "GetItem", {"NoSQLDatabase"}, FALSE),
  Row("CanInvoke", "lambda", "InvokeFunction", {"ServerlessFunction"}, FALSE),
  Row("CanModifyCode", "lambda", "UpdateFunctionCode", {"ServerlessFunction"}, FALSE),
  Row("CanModifyCode", "ecr", "PutImage", {"ContainerRegistry"}, FALSE),
  Row("CanModifyConfiguration", "lambda", "UpdateFunctionConfiguration",
      {"ServerlessFunction"}, FALSE),
  Row("CanExecuteCommand", "ec2", "SendCommand", {"VirtualMachine", "GenericCompute"}, FALSE),
  Row("CanExecuteCommand", "ec2", "StartSession", {"VirtualMachine", "GenericCompute"}, FALSE),
  Row("CanWriteData", "s3", "PutObject", {"ObjectStorage"}, TRUE),
  Row("CanTrigger", "sns", "Publish", {"Topic"}, FALSE),
  Row("CanTrigger", "sqs", "SendMessage", {"Queue"}, FALSE),
  Row("CanStart", "ec2", "StartInstances", {"VirtualMachine"}, FALSE),
  Row("CanPassIdentity", "iam", "PassRole", {"Role"}, FALSE),
  Row("CanAddMember", "iam", "AddUserToGroup", {"Group"}, FALSE),
  Row("CanModifyTrust", "iam", "UpdateAssumeRolePolicy", {"Role"}, FALSE),
  Row("CanCreateCredentialFor", "iam", "CreateAccessKey", {"HumanIdentity"}, FALSE),
  Row("CanResetCredential", "iam", "UpdateLoginProfile", {"HumanIdentity"}, FALSE),
  Row("CanModifyPolicy", "iam", "PutRolePolicy", {"Role"}, FALSE),
  Row("CanModifyPolicy", "iam", "PutUserPolicy", {"HumanIdentity"}, FALSE),
  Row("CanModify", "s3", "PutBucketPolicy", {"ObjectStorage"}, FALSE),
  Row("CanModify", "kms", "PutKeyPolicy", {"EncryptionKey"}, FALSE),
  Row("CanModify", "lambda", "AddPermission", {"ServerlessFunction"}, FALSE),
  Row("CanDelete", "dynamodb", "DeleteTable", {"NoSQLDatabase"}, FALSE)}

(* The nodes a capability applies to (byType, serviceMatches), and what is *)
(* asked about each: its objects, or itself.                               *)
Targets(c) == {n \in DOMAIN Nodes : Nodes[n].type \in c.targets /\ Nodes[n].service = c.service}
Asked(c, n) == IF c.objects THEN Objects[n] ELSE n

-----------------------------------------------------------------------------
(* The store (NewStore).                                                   *)

NoFacts == [x \in {} |-> {}]

EmptyStore ==
  [inline |-> NoFacts, attached |-> NoFacts, memberOf |-> NoFacts, scps |-> NoFacts,
   managed |-> NoFacts, resourcePolicies |-> NoFacts, boundaries |-> NoFacts]

At(index, key) == IF key \in DOMAIN index THEN index[key] ELSE {}

(* Replaced by a later fact of the same source, or added to what is there. *)
Put(index, key, value) ==
  [k \in DOMAIN index \cup {key} |-> IF k = key THEN value ELSE index[k]]
Add(index, key, value) == Put(index, key, At(index, key) \cup {value})

IndexFact(s, f) ==
  CASE f.kind = "managed_policy" -> [s EXCEPT !.managed = Put(@, f.source, f.value)]
    [] f.kind = "identity_policy" -> [s EXCEPT !.inline = Add(@, f.source, f.value)]
    [] f.kind = "HasPolicy" -> [s EXCEPT !.attached = Add(@, f.source, f.value)]
    [] f.kind = "MemberOf" -> [s EXCEPT !.memberOf = Add(@, f.source, f.value)]
    [] f.kind = "resource_policy" -> [s EXCEPT !.resourcePolicies = Put(@, f.source, f.value)]
    [] f.kind = "scp" -> [s EXCEPT !.scps = Add(@, f.source, f.value)]
    [] f.kind = "permission_boundary" -> [s EXCEPT !.boundaries = Put(@, f.source, f.value)]
    [] OTHER -> s

(* The inline and the attached policies of the principal and its groups.   *)
IdentityStatements(s, p) ==
  UNION {(UNION At(s.inline, x)) \cup (UNION {At(s.managed, a) : a \in At(s.attached, x)}) :
           x \in {p} \cup At(s.memberOf, p)}

ScpsFor(s, p) == At(s.scps, AccountOf[p])

-----------------------------------------------------------------------------
(* Evaluate.                                                               *)

(* What of the request's context is known offline (contextFor).            *)
ContextFor(p) ==
  [k \in {"aws:PrincipalArn"} \cup
         (IF AccountOf[p] = "" THEN {} ELSE {"aws:PrincipalAccount", "kms:CallerAccount"}) |->
     IF k = "aws:PrincipalArn" THEN {p} ELSE {AccountOf[p]}]

Applies(st, effect, action, resource) ==
  st.effect = effect /\ Matches(st.action, action) /\ Matches(st.resource, resource)

NamesAccountRoot(st, p) == AccountOf[p] # "" /\ AccountOf[p] \in st.principal.roots
NamesDirectly(st, p) == st.principal.public \/ p \in st.principal.names
NamesAtAll(st, p) == NamesDirectly(st, p) \/ AccountOf[p] \in st.principal.roots

(* How firmly a set of statements that apply says what it says: one that   *)
(* holds outright counts more than any that depend on the request.         *)
Grade(stmts, p) ==
  LET verdicts == {EvalCondition(st.cond, ContextFor(p), RequestTimeKeys) : st \in stmts}
  IN  IF "true" \in verdicts THEN "solid"
      ELSE IF "unresolved" \in verdicts THEN "conditional" ELSE "none"

AllowedBy(stmts, p, action, resource) ==
  Grade({st \in stmts : Applies(st, "Allow", action, resource)}, p)

(* Every statement that may deny: a resource's when it names the principal *)
(* or its account, or everyone.                                            *)
Governing(s, p, resource) ==
  IdentityStatements(s, p) \cup At(s.boundaries, p) \cup (UNION ScpsFor(s, p))
  \cup {st \in At(s.resourcePolicies, resource) : NamesAtAll(st, p)}

Denies(s, p, action, resource) ==
  {st \in Governing(s, p, resource) : Applies(st, "Deny", action, resource)}

ExplicitDeny(s, p, action, resource) == Grade(Denies(s, p, action, resource), p)

(* A faulty variant: any statement on the action will do.                  *)
ScpAllowsOrDenies(scps, action) == \E st \in UNION scps : Matches(st.action, action)

ScpAllows(scps, action) ==
  \E st \in UNION scps : st.effect = "Allow" /\ Matches(st.action, action)

(* The account's SCPs and the principal's boundary, where there are any.   *)
GuardrailsAllow(s, p, action, resource) ==
  /\ ScpsFor(s, p) # {} => ScpAllows(ScpsFor(s, p), action)
  /\ p \in DOMAIN s.boundaries => AllowedBy(s.boundaries[p], p, action, resource) # "none"

Denied == [allowed |-> FALSE, conditional |-> FALSE]
Allowed(conditional) == [allowed |-> TRUE, conditional |-> conditional]

(* A key: its policy has to name the principal, or to leave the matter to  *)
(* IAM.  Grants to a service on the caller's behalf do not count.          *)
EvaluateKMS(s, p, action, key, identity) ==
  LET usable == {st \in At(s.resourcePolicies, key) :
                   /\ st.effect = "Allow" /\ Matches(st.action, action)
                   /\ \A c \in st.cond : c.key # "kms:ViaService"}
      direct == Grade({st \in usable : NamesDirectly(st, p)}, p)
  IN  IF key \notin DOMAIN s.resourcePolicies
      THEN IF identity = "none" THEN Denied ELSE Allowed(TRUE)
      ELSE IF direct = "solid" THEN Allowed(FALSE)
      ELSE IF (\E st \in usable : NamesAccountRoot(st, p)) /\ identity # "none"
      THEN Allowed(identity = "conditional")
      ELSE IF direct = "conditional" THEN Allowed(TRUE) ELSE Denied

SameAccount(p, resource) == AccountOf[resource] \in {"", AccountOf[p]} \/ AccountOf[p] = ""

(* A faulty variant: one side is enough, also across accounts.             *)
GrantByEither(p, resource, identity, byResource) == {identity, byResource} # {"none"}

Grant(p, resource, identity, byResource) ==
  IF SameAccount(p, resource) THEN {identity, byResource} # {"none"}
  ELSE "none" \notin {identity, byResource}

IsKMS(c) == c.service = "kms"

Evaluate(s, p, c, resource) ==
  LET deny == ExplicitDeny(s, p, c.action, resource)
      identity == AllowedBy(IdentityStatements(s, p), p, c.action, resource)
      byResource == AllowedBy({st \in At(s.resourcePolicies, resource) : NamesDirectly(st, p)},
                              p, c.action, resource)
  IN  IF deny = "solid" \/ ~GuardrailsAllow(s, p, c.action, resource) THEN Denied
      ELSE IF IsKMS(c) THEN EvaluateKMS(s, p, c.action, resource, identity)
      ELSE IF Grant(p, resource, identity, byResource)
      THEN Allowed("conditional" \in {deny, identity, byResource}) ELSE Denied

-----------------------------------------------------------------------------

VARIABLES
  facts,  \* the facts indexed
  store,  \* the index
  edges,  \* the permission edges
  phase   \* "index", then "done"

vars == <<facts, store, edges, phase>>

Init == facts = {} /\ store = EmptyStore /\ edges = {} /\ phase = "index"

(* One turn of NewStore's loop.                                            *)
Index(f) ==
  /\ phase = "index" /\ f \notin facts /\ Cardinality(facts) < MaxFacts
  /\ facts' = facts \cup {f}
  /\ store' = IndexFact(store, f)
  /\ UNCHANGED <<edges, phase>>

Question(p, c, n) == [principal |-> p, row |-> c, node |-> n]

(* What EvaluatePermissions asks.  A faulty variant: of each node also     *)
(* about itself.                                                           *)
QuestionsWithSelf ==
  UNION {{Question(p, c, n) : p \in Principals, n \in Targets(c)} : c \in Capabilities}

Questions ==
  UNION {UNION {{Question(p, c, n) : p \in Principals \ {n}} : n \in Targets(c)} :
           c \in Capabilities}

Decision(s, q) == Evaluate(s, q.principal, q.row, Asked(q.row, q.node))

(* An edge has its type, kind, weight, action and wording from the row.    *)
EdgeOf(q, decision) ==
  [row |-> q.row, source |-> q.principal, target |-> q.node,
   state |-> IF decision.conditional THEN "CONDITIONAL" ELSE "ACTIVE"]

EvaluatePermissions ==
  /\ phase = "index"
  /\ edges' = {EdgeOf(q, Decision(store, q)) : q \in {r \in Questions : Decision(store, r).allowed}}
  /\ phase' = "done"
  /\ UNCHANGED <<facts, store>>

Next == (\E f \in FactPool : Index(f)) \/ EvaluatePermissions

Spec == Init /\ [][Next]_vars

-----------------------------------------------------------------------------
(* What a request would meet: every key it has is known, the policy of a   *)
(* bucket governs its objects.  Conditions with an operator that nobody    *)
(* evaluates may hold or not: "surely" asks for what holds in either case. *)

WithRequest(p, req) ==
  LET known == ContextFor(p)
  IN  [k \in DOMAIN known \cup DOMAIN req |-> IF k \in DOMAIN known THEN known[k] ELSE req[k]]

Holds(stmts, p, req, surely) ==
  \E st \in stmts : EvalCondition(st.cond, WithRequest(p, req), {})
                      \in IF surely THEN {"true"} ELSE {"true", "unresolved"}

Permitted(s, q, req, surely) ==
  LET p == q.principal
      allowed(stmts) ==
        Holds({st \in stmts : Applies(st, "Allow", q.row.action, Asked(q.row, q.node))},
              p, req, surely)
      policy == At(s.resourcePolicies, q.node)
      identity == allowed(IdentityStatements(s, p))
      named == allowed({st \in policy : NamesDirectly(st, p)})
      direct(st) == \A c \in st.cond : c.key # "kms:ViaService"
  IN  /\ ~Holds({st \in Governing(s, p, q.node) :
                   Applies(st, "Deny", q.row.action, Asked(q.row, q.node))}, p, req, ~surely)
      /\ ScpsFor(s, p) # {} => allowed(UNION ScpsFor(s, p))
      /\ p \in DOMAIN s.boundaries => allowed(s.boundaries[p])
      /\ IF ~IsKMS(q.row)
         THEN IF SameAccount(p, q.node) THEN identity \/ named ELSE identity /\ named
         ELSE IF q.node \notin DOMAIN s.resourcePolicies THEN identity /\ ~surely
         ELSE \/ allowed({st \in policy : direct(st) /\ NamesDirectly(st, p)})
              \/ identity /\ allowed({st \in policy : direct(st) /\ NamesAccountRoot(st, p)})

-----------------------------------------------------------------------------
(* Properties.                                                             *)

TypeOK ==
  /\ facts \subseteq FactPool /\ Cardinality(facts) <= MaxFacts
  /\ phase \in {"index", "done"}
  /\ \A e \in edges : /\ e.source \in Principals /\ e.target \in DOMAIN Nodes \ {e.source}
                      /\ e.state \in {"ACTIVE", "CONDITIONAL"}

(* What some request could do has an edge, whatever its conditions depend  *)
(* on: a denial or a guardrail that one request meets and another does not *)
(* takes no edge away (Tri's comment, evalClause's on MFA).  The objects   *)
(* of a bucket are left out: its policy is not asked about them.           *)
NothingPossibleMissed ==
  phase = "done" =>
    \A q \in {x \in Questions : ~x.row.objects} :
      (\E r \in Requests : Permitted(store, q, r, FALSE)) =>
        \E conditional \in BOOLEAN : EdgeOf(q, Allowed(conditional)) \in edges

(* A boundary and an SCP filter by what they allow whatever the request:   *)
(* a boundary's conditions, an SCP's conditions and resources are not      *)
(* carried into the decision.                                              *)
GuardrailsOutright(s, q) ==
  /\ AllowedBy(At(s.boundaries, q.principal), q.principal, q.row.action, q.node) # "conditional"
  /\ \A st \in UNION ScpsFor(s, q.principal) :
       st.effect = "Allow" /\ Matches(st.action, q.row.action) =>
         Matches(st.resource, q.node) /\ st.cond = {}

(* What an ACTIVE edge says can be done is permitted to every request:     *)
(* deny, SCPs, boundary, identity and resource policy have all been asked, *)
(* across accounts on both sides (Evaluate).  Left out are the objects of  *)
(* a bucket, keys, where a conditional denial or delegation is forgotten,  *)
(* and guardrails that allow only some requests.                           *)
ActiveIsCertain ==
  phase = "done" =>
    \A q \in {x \in Questions : ~x.row.objects /\ ~IsKMS(x.row)} :
      EdgeOf(q, Allowed(FALSE)) \in edges /\ GuardrailsOutright(store, q) =>
        \A r \in Requests : Permitted(store, q, r, TRUE)

Strength(decision) ==
  IF ~decision.allowed THEN 0 ELSE IF decision.conditional THEN 1 ELSE 2

AllAre(f, effect) == \A st \in f.value : st.effect = effect

(* One more inline policy or SCP that only denies strengthens no decision, *)
(* and one more inline policy that only allows takes none away, wherever   *)
(* the rest of the statements come from (Evaluate).                        *)
DenialsOnlyRemove ==
  [][\A f \in facts' \ facts, q \in Questions :
       /\ f.kind \in {"identity_policy", "scp"} /\ AllAre(f, "Deny") =>
            Strength(Decision(store', q)) <= Strength(Decision(store, q))
       /\ f.kind = "identity_policy" /\ AllAre(f, "Allow") /\ Decision(store, q).allowed =>
            Decision(store', q).allowed]_vars

(* What Evaluate's first step says, "Explicit deny anywhere (identity,     *)
(* resource, SCP, boundary) - deny wins": where there is an edge, no       *)
(* statement denies what it stands for outright.                           *)
DenyWins ==
  phase = "done" =>
    \A q \in Questions : Decision(store, q).allowed =>
      ~\E st \in Governing(store, q.principal, q.node) :
          /\ Applies(st, "Deny", q.row.action, Asked(q.row, q.node))
          /\ EvalCondition(st.cond, ContextFor(q.principal), RequestTimeKeys) = "true"

=============================================================================
