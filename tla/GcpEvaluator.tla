---------------------------- MODULE GcpEvaluator ----------------------------
(***************************************************************************)
(* Effective GCP permissions (engine/internal/evaluator_gcp): a binding    *)
(* gives a member the permissions of a role, on one resource or on a whole *)
(* project, perhaps under a condition; the table says which edge each      *)
(* permission is worth on which type of node.                              *)
(*                                                                         *)
(* The facts are read twice, for the roles and then for the bindings, and  *)
(* the grants gathered from them are then turned into edges, one           *)
(* capability after the other; a grant is looked up in a map, so what one  *)
(* capability gives comes in any order.  An edge is identified by type,    *)
(* source and target; of the rest its state is kept.  Provenance, weights  *)
(* and wording are left out, a member is the kind and the name that        *)
(* splitMember finds in it, and the text of a condition is whether there   *)
(* is one.                                                                 *)
(***************************************************************************)
EXTENDS Naturals, FiniteSets, Sequences, FiniteSetsExt

CONSTANTS
  GcpNodes,     \* the nodes in order, no two of one id: [id, type, account, arn, native]
  LastSeg,      \* the last segment of each name
  Members,      \* [kind, name, managed] of each member, by the name bindings use
  GcpFactPool,  \* facts a bundle may hold
  MaxGcpFacts   \* bound: how many of them it holds

ASSUME GcpAssumption ==
  /\ Len(GcpNodes) \in Nat /\ DOMAIN GcpNodes = 1..Len(GcpNodes)
  /\ \A f \in GcpFactPool : f.kind = "iam_binding" => f.condition \in BOOLEAN

Indices == DOMAIN GcpNodes
NodeIds == {GcpNodes[n].id : n \in Indices}

-----------------------------------------------------------------------------
(* The table of capabilities, in its order.                                *)

Row(edge, perm, targets) == [edge |-> edge, perm |-> perm, targets |-> targets]

GcpCapabilities == <<
  Row("CanReadSecret", "secretmanager.versions.access", {"Secret"}),
  Row("CanReadData", "storage.objects.get", {"ObjectStorage"}),
  Row("CanWriteData", "storage.objects.create", {"ObjectStorage"}),
  Row("CanReadData", "bigquery.tables.getData", {"DataWarehouse", "NoSQLDatabase"}),
  Row("CanDecrypt", "cloudkms.cryptoKeyVersions.useToDecrypt", {"EncryptionKey"}),
  Row("CanImpersonate", "iam.serviceAccounts.getAccessToken", {"ServiceAccount"}),
  Row("CanImpersonate", "iam.serviceAccounts.getOpenIdToken", {"ServiceAccount"}),
  Row("CanImpersonate", "iam.serviceAccounts.implicitDelegation", {"ServiceAccount"}),
  Row("CanSignAs", "iam.serviceAccounts.signBlob", {"ServiceAccount"}),
  Row("CanSignAs", "iam.serviceAccounts.signJwt", {"ServiceAccount"}),
  Row("CanPassIdentity", "iam.serviceAccounts.actAs", {"ServiceAccount"}),
  Row("CanCreateCredentialFor", "iam.serviceAccountKeys.create", {"ServiceAccount"}),
  Row("CanInvoke", "cloudfunctions.functions.call", {"ServerlessFunction"}),
  Row("CanModifyCode", "cloudfunctions.functions.update", {"ServerlessFunction"}),
  Row("CanInvoke", "run.routes.invoke", {"ContainerService"}),
  Row("CanModifyCode", "run.services.update", {"ContainerService"}),
  Row("CanExecuteCommand", "compute.instances.setMetadata", {"VirtualMachine"}),
  Row("CanStart", "compute.instances.start", {"VirtualMachine"}),
  Row("CanModifyCode", "artifactregistry.repositories.uploadArtifacts", {"ContainerRegistry"}),
  Row("CanInvoke", "cloudfunctions.functions.invoke", {"ServerlessFunction"}),
  Row("CanTrigger", "pubsub.topics.publish", {"Topic"}),
  Row("CanPassIdentity", "compute.instances.setServiceAccount", {"VirtualMachine"}),
  Row("CanExecuteCommand", "compute.instances.osAdminLogin", {"VirtualMachine"}),
  Row("CanExecuteCommand", "compute.projects.setCommonInstanceMetadata", {"VirtualMachine"}),
  Row("CanModifyCode", "deploymentmanager.deployments.update", {"AutomationService"}),
  Row("CanModifyCode", "deploymentmanager.deployments.create", {"AutomationService"}),
  Row("CanModifyCode", "appengine.versions.create", {"ApplicationPlatform"}),
  Row("CanExecuteCommand", "cloudbuild.builds.create", {"BuildWorker"}),
  Row("CanExecuteCommand", "dataproc.jobs.create", {"AnalyticsService"}),
  Row("CanExecuteCommand", "composer.environments.executeAirflowCommand", {"Workflow"}),
  Row("CanModifyCode", "dataflow.jobs.updateContents", {"AnalyticsService"}),
  Row("CanModifyCode", "workflows.workflows.update", {"Workflow"}),
  Row("CanTrigger", "cloudscheduler.jobs.create", {"Scheduler"}),
  Row("CanTrigger", "eventarc.triggers.create", {"EventBus"}),
  Row("CanSignAs", "cloudkms.cryptoKeyVersions.useToSign", {"EncryptionKey"}),
  Row("CanCreateCredentialFor", "storage.hmacKeys.create", {"ServiceAccount"}),
  Row("CanModifyPolicy", "iam.roles.update", {"Role"}),
  Row("CanGrantPermission", "resourcemanager.projects.setIamPolicy", {"Project"}),
  Row("CanModifyPolicy", "iam.serviceAccounts.setIamPolicy", {"ServiceAccount"}),
  Row("CanModifyPolicy", "storage.buckets.setIamPolicy", {"ObjectStorage"}),
  Row("CanModifyPolicy", "cloudkms.cryptoKeys.setIamPolicy", {"EncryptionKey"}),
  Row("CanModifyPolicy", "secretmanager.secrets.setIamPolicy", {"Secret"}),
  Row("CanModifyPolicy", "run.services.setIamPolicy", {"ContainerService"}),
  Row("CanModifyPolicy", "cloudfunctions.functions.setIamPolicy", {"ServerlessFunction"}),
  Row("CanModifyPolicy", "pubsub.topics.setIamPolicy", {"Topic"}) >>

-----------------------------------------------------------------------------
(* The names of nodes (byName): each node is there by its ARN, its native  *)
(* id and the last segment of both; the last node with a name has it.      *)

NamesOf(n) == LET full == {GcpNodes[n].arn, GcpNodes[n].native}
              IN  full \cup {LastSeg[x] : x \in full}

ByName(x) == LET named == {n \in Indices : x \in NamesOf(n)}
             IN  IF named = {} THEN {} ELSE {Max(named)}

(* The node a binding on one resource is taken to be on: at most one.      *)
Resource(x) == IF ByName(x) # {} THEN ByName(x) ELSE ByName(LastSeg[x])

(* The type of the node made for a member that no node stands for.         *)
SynthesizedType == [
  serviceAccount |-> "ServiceAccount", user |-> "HumanIdentity", group |-> "Group",
  domain |-> "Group", principal |-> "FederatedIdentity", principalSet |-> "FederatedIdentity",
  allUsers |-> "Everyone", allAuthenticatedUsers |-> "Everyone"]

(* The node of a member (resolveMemberNode), none for a deleted one or one *)
(* of another kind (projectViewer).  A node made for a member has the      *)
(* member for its id: wherever it is met, it is the same node.             *)
ResolveMember(m) ==
  LET kind == Members[m].kind
      named == ByName(Members[m].name)
  IN  IF kind \notin DOMAIN SynthesizedType THEN {}
      ELSE IF kind = "serviceAccount" /\ named # {} THEN {GcpNodes[n].id : n \in named} ELSE {m}

IsGoogleManaged(m) == Members[m].kind = "serviceAccount" /\ Members[m].managed

-----------------------------------------------------------------------------

VARIABLES
  gcpFacts,  \* the facts read
  roles,     \* the permissions of each role
  grants,    \* by [level, member, on]: [perms, anyCond, anyUncond]
  offers,    \* what emit is still to be called with
  gcpEdges,  \* the state of each edge, by [type, source, target]
  synth,     \* the nodes made for members, handed back at the end
  gcpPhase   \* "roles", "bindings", "emit", then "done"

gcpVars == <<gcpFacts, roles, grants, offers, gcpEdges, synth, gcpPhase>>

NoKeys == [x \in {} |-> {}]

GcpInit ==
  /\ gcpFacts = {} /\ roles = NoKeys /\ grants = NoKeys /\ offers = {} /\ gcpEdges = NoKeys
  /\ synth = {} /\ gcpPhase = "roles"

WithKey(f, key, value) == [k \in DOMAIN f \cup {key} |-> IF k = key THEN value ELSE f[k]]

Read(f, kind) ==
  /\ f.kind = kind /\ f \notin gcpFacts /\ Cardinality(gcpFacts) < MaxGcpFacts
  /\ gcpFacts' = gcpFacts \cup {f}

(* The first loop: a role's permissions are those of its last fact.        *)
ReadRole(f) ==
  /\ gcpPhase = "roles" /\ Read(f, "role_permissions")
  /\ roles' = WithKey(roles, f.source, f.perms)
  /\ UNCHANGED <<grants, offers, gcpEdges, synth, gcpPhase>>

RolesRead ==
  /\ gcpPhase = "roles" /\ gcpPhase' = "bindings"
  /\ UNCHANGED <<gcpFacts, roles, grants, offers, gcpEdges, synth>>

PermsOf(role) == IF role \in DOMAIN roles THEN roles[role] ELSE {}

(* A project's binding is filed under the project it was found in, any     *)
(* other under what it names.                                              *)
KeyOf(f) ==
  IF f.level = "project"
  THEN [level |-> "project", member |-> f.source, on |-> f.account]
  ELSE [level |-> "resource", member |-> f.source, on |-> f.target]

NoGrant == [perms |-> {}, anyCond |-> FALSE, anyUncond |-> FALSE]

MergePerms(g, perms, cond) ==
  [perms |-> g.perms \cup perms, anyCond |-> g.anyCond \/ cond, anyUncond |-> g.anyUncond \/ ~cond]

(* The second loop: a binding of a role that is not known counts for       *)
(* nothing.                                                                *)
ReadBinding(f) ==
  LET key == KeyOf(f)
      g == IF key \in DOMAIN grants THEN grants[key] ELSE NoGrant
  IN  /\ gcpPhase = "bindings" /\ Read(f, "iam_binding")
      /\ grants' = IF PermsOf(f.role) = {} THEN grants
                   ELSE WithKey(grants, key, MergePerms(g, PermsOf(f.role), f.condition))
      /\ UNCHANGED <<roles, offers, gcpEdges, synth, gcpPhase>>

Conditional(g) == g.anyCond /\ ~g.anyUncond

OfType(n, row) == GcpNodes[n].type \in row.targets

(* The nodes a grant reaches with a capability.  A faulty variant: a       *)
(* project's grant reaches every project of a merged bundle.               *)
ReachedAnywhere(key, row) ==
  {n \in IF key.level = "project" THEN Indices ELSE Resource(key.on) : OfType(n, row)}

Reached(key, row) ==
  {n \in IF key.level = "project" THEN {m \in Indices : GcpNodes[m].account = key.on}
         ELSE Resource(key.on) : OfType(n, row)}

Offer(i, key, n) ==
  [row |-> i, level |-> key.level, member |-> key.member, node |-> n,
   conditional |-> Conditional(grants[key])]

Granting(key) == ~IsGoogleManaged(key.member)

Carrying(key) == {i \in DOMAIN GcpCapabilities : GcpCapabilities[i].perm \in grants[key].perms}

BindingsRead ==
  /\ gcpPhase = "bindings" /\ gcpPhase' = "emit"
  /\ offers' =
       UNION {UNION {{Offer(i, key, n) : n \in Reached(key, GcpCapabilities[i])} :
                 i \in Carrying(key)} :
              key \in {k \in DOMAIN grants : Granting(k)}}
  /\ UNCHANGED <<gcpFacts, roles, grants, gcpEdges, synth>>

(* One capability after the other, what is granted on projects first.      *)
EmittedBefore(o, p) ==
  o.row < p.row \/ (o.row = p.row /\ o.level = "project" /\ p.level # "project")

GcpEdgeId(type, source, target) == [type |-> type, source |-> source, target |-> target]

StateOf(conditional) == IF conditional THEN "CONDITIONAL" ELSE "ACTIVE"

(* An edge that is there is kept, but for a condition the offer is         *)
(* without.  A faulty variant: it is kept as it is.                        *)
EmitFirst(o, id) ==
  gcpEdges' = IF id \in DOMAIN gcpEdges THEN gcpEdges
              ELSE WithKey(gcpEdges, id, StateOf(o.conditional))

Emit(o, id) ==
  gcpEdges' = IF id \in DOMAIN gcpEdges /\ o.conditional THEN gcpEdges
              ELSE WithKey(gcpEdges, id, StateOf(o.conditional))

(* emit is called with an offer: a member that has no node is passed over, *)
(* and nothing is said of a node and itself.                               *)
TakeOffer(o) ==
  LET source == ResolveMember(o.member)
  IN  /\ gcpPhase = "emit" /\ o \in offers /\ \A p \in offers : ~EmittedBefore(p, o)
      /\ offers' = offers \ {o}
      /\ IF source \subseteq {GcpNodes[o.node].id} THEN UNCHANGED gcpEdges
         ELSE Emit(o, GcpEdgeId(GcpCapabilities[o.row].edge, CHOOSE s \in source : TRUE,
                                GcpNodes[o.node].id))
      /\ UNCHANGED <<gcpFacts, roles, grants, synth, gcpPhase>>

(* The members resolved on the way: a project's grant asks for its member  *)
(* wherever the capability has a node at all, another one where it has     *)
(* reached one.                                                            *)
Met(key) ==
  \E i \in Carrying(key) :
    IF key.level = "project" THEN \E n \in Indices : OfType(n, GcpCapabilities[i])
    ELSE Reached(key, GcpCapabilities[i]) # {}

EvaluateGcpPermissions ==
  /\ gcpPhase = "emit" /\ offers = {} /\ gcpPhase' = "done"
  /\ synth' = UNION {ResolveMember(k.member) :
                       k \in {x \in DOMAIN grants : Granting(x) /\ Met(x)}} \ NodeIds
  /\ UNCHANGED <<gcpFacts, roles, grants, offers, gcpEdges>>

GcpNext ==
  \/ \E f \in GcpFactPool : ReadRole(f) \/ ReadBinding(f)
  \/ RolesRead \/ BindingsRead
  \/ \E o \in offers : TakeOffer(o)
  \/ EvaluateGcpPermissions

GcpSpec == GcpInit /\ [][GcpNext]_gcpVars

-----------------------------------------------------------------------------
(* What IAM says: a binding gives its member the permissions of its role   *)
(* on the resource it names, or on each resource of its project.           *)

Bindings == {f \in gcpFacts : f.kind = "iam_binding"}

Covers(b, n) ==
  IF b.level = "project" THEN GcpNodes[n].account = b.account
  ELSE b.target \in {GcpNodes[n].arn, GcpNodes[n].native}

Gives(b, row, n) == row.perm \in PermsOf(b.role) /\ OfType(n, row) /\ Covers(b, n)

(* Names that mean one node: a full name that is another node's full name  *)
(* or last segment as well may be taken for that one (Resource).           *)
Plain(b) == b.level = "project" \/ Cardinality({n \in Indices : b.target \in NamesOf(n)}) = 1

Exists(b) == b.level = "project" \/ \E n \in Indices : Covers(b, n)

(* Who a binding is for, where the program counts that one.                *)
Holder(b) ==
  IF IsGoogleManaged(b.source) THEN {} ELSE ResolveMember(b.source)

-----------------------------------------------------------------------------
(* Properties.                                                             *)

(* Whatever a binding gives has an edge, an ACTIVE one when the binding is *)
(* unconditional, in whatever order the bindings and the grants were met   *)
(* (TestGCP_UnconditionalGrantWinsOverConditional).                        *)
NoGrantMissed ==
  gcpPhase = "done" =>
    \A b \in {x \in Bindings : Plain(x)}, i \in DOMAIN GcpCapabilities, n \in Indices :
      Gives(b, GcpCapabilities[i], n) =>
        \A s \in Holder(b) \ {GcpNodes[n].id} :
          LET id == GcpEdgeId(GcpCapabilities[i].edge, s, GcpNodes[n].id)
          IN  id \in DOMAIN gcpEdges /\ (b.condition \/ gcpEdges[id] = "ACTIVE")

(* The grants of a member on one thing are merged, whatever their roles:   *)
(* a condition counts only if all of them have one.                        *)
Merged(b) == {x \in Bindings : KeyOf(x) = KeyOf(b) /\ PermsOf(x.role) # {}}

(* An edge stands for a binding that gives just that, in the binding's own *)
(* project (the comment of pgKey), and is ACTIVE only where some binding   *)
(* of the member on that thing is unconditional.                           *)
NoGrantInvented ==
  (\A b \in Bindings : Plain(b) /\ Exists(b)) =>
    \A id \in DOMAIN gcpEdges : \E b \in Bindings, i \in DOMAIN GcpCapabilities, n \in Indices :
      /\ id = GcpEdgeId(GcpCapabilities[i].edge, id.source, GcpNodes[n].id)
      /\ id.source \in Holder(b)
      /\ Gives(b, GcpCapabilities[i], n)
      /\ gcpEdges[id] = "ACTIVE" => \E x \in Merged(b) : ~x.condition

=============================================================================
