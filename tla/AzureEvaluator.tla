--------------------------- MODULE AzureEvaluator ---------------------------
(***************************************************************************)
(* Effective Azure permissions (engine/internal/evaluator_azure): a role   *)
(* assignment gives a principal the actions of a role on everything under  *)
(* a scope - the root, a management group, a subscription, a resource      *)
(* group or a resource - unless a deny assignment takes them away; Entra's *)
(* directory roles, application permissions and ownership add theirs, and  *)
(* what a node's properties say of it makes exposures.                     *)
(*                                                                         *)
(* Scopes and resources are paths: <<>> is the root, <<"managementGroups", *)
(* g>> a management group, <<"subscriptions", s, group, resource>> and its *)
(* prefixes what ARM ids name; a node of another cloud has another head.   *)
(* Paths are taken as already compared without case.  The action patterns  *)
(* of a role are the table's actions they match.  Order matters only for   *)
(* what a later fact replaces, so lists are sets.  An edge is identified   *)
(* by type, source and target, and its state is kept; provenance, weights  *)
(* and wording are left out.                                               *)
(***************************************************************************)
EXTENDS Naturals, SequencesExt

CONSTANTS
  AzureNodes,     \* [type, account, principal, properties] by path, no two of one principal
  AzureFactPool,  \* facts a bundle may hold
  MaxAzureFacts   \* bound: how many of them it holds

(* What the collector (facts.go) writes: of a management group its         *)
(* children, which have names, and a subscription has none itself.         *)
ASSUME AzureAssumption ==
  \A f \in AzureFactPool :
    /\ f.kind = "role_assignment" =>
         f \in [kind : {"role_assignment"}, source : STRING, role : STRING, target : Seq(STRING),
               condition : BOOLEAN]
    /\ f.kind = "mg_hierarchy" =>
         /\ f.target # ""
         /\ \A h \in AzureFactPool :
              h.kind = "mg_hierarchy" /\ f.childType = "subscription" => h.source # f.target

Arns == DOMAIN AzureNodes

-----------------------------------------------------------------------------
(* The table of capabilities.                                              *)

AzureRow(edge, action, dataAction, targets) ==
  [edge |-> edge, action |-> action, dataAction |-> dataAction, targets |-> targets]

Data(edge, action, targets) == AzureRow(edge, action, TRUE, targets)
Management(edge, action, targets) == AzureRow(edge, action, FALSE, targets)

AzureCapabilities == {
  Data("CanReadSecret", "KeyVault/vaults/secrets/getSecret/action", {"Secret"}),
  Data("CanReadSecret", "KeyVault/vaults/secrets/readMetadata/action", {"Secret"}),
  Data("CanDecrypt", "KeyVault/vaults/keys/decrypt/action", {"Secret"}),
  Data("CanSignAs", "KeyVault/vaults/keys/sign/action", {"Secret"}),
  Management("CanModifyPolicy", "KeyVault/vaults/accessPolicies/write", {"Secret"}),
  Data("CanReadData", "Storage/storageAccounts/blobServices/containers/blobs/read",
       {"ObjectStorage"}),
  Data("CanWriteData", "Storage/storageAccounts/blobServices/containers/blobs/write",
       {"ObjectStorage"}),
  Management("CanReadData", "Storage/storageAccounts/listkeys/action", {"ObjectStorage"}),
  Management("CanModifyPolicy", "Storage/storageAccounts/listkeys/action", {"ObjectStorage"}),
  Management("CanExecuteCommand", "Compute/virtualMachines/runCommand/action", {"VirtualMachine"}),
  Management("CanExecuteCommand", "Compute/virtualMachines/extensions/write", {"VirtualMachine"}),
  Management("CanExecuteCommand", "Compute/virtualMachineScaleSets/virtualMachines/runCommand/action",
       {"VirtualMachine"}),
  Management("CanPassIdentity", "ManagedIdentity/userAssignedIdentities/assign/action",
       {"ManagedIdentity"}),
  Management("CanModifyCode", "Web/sites/write", {"ApplicationPlatform"}),
  Management("CanExecuteCommand", "Web/sites/publish/action", {"ApplicationPlatform"}),
  Management("CanReadData", "Web/sites/publishxml/action", {"ApplicationPlatform"}),
  Data("CanModifyCode", "ContainerRegistry/registries/repositories/content/write",
       {"ContainerRegistry"}),
  Management("CanReadSecret", "ContainerService/managedClusters/listClusterAdminCredential/action",
       {"KubernetesCluster"}),
  Management("CanExecuteCommand", "ContainerService/managedClusters/runcommand/action",
       {"KubernetesCluster"}),
  Management("CanModifyCode", "Automation/automationAccounts/runbooks/draft/write",
       {"AutomationService"}),
  Management("CanExecuteCommand", "Automation/automationAccounts/jobs/write",
       {"AutomationService"}),
  Management("CanExecuteCommand", "Automation/automationAccounts/webhooks/action",
       {"AutomationService"}),
  Management("CanModifyCode", "Logic/workflows/write", {"Workflow"}),
  Management("CanTrigger", "Logic/workflows/triggers/run/action", {"Workflow"}),
  Management("CanModifyPolicy", "Storage/storageAccounts/listServiceSas/action", {"ObjectStorage"}),
  Management("CanModifyPolicy", "Storage/storageAccounts/listAccountSas/action", {"ObjectStorage"}),
  Management("CanReadSecret", "Web/sites/host/listkeys/action", {"ApplicationPlatform"}),
  Management("CanExecuteCommand", "Web/sites/functions/listkeys/action", {"ApplicationPlatform"}),
  Management("CanReadData", "Web/sites/config/list/action", {"ApplicationPlatform"}),
  Management("CanModifyPolicy", "KeyVault/vaults/write", {"Secret"}),
  Data("CanExportKey", "KeyVault/vaults/keys/exportKey/action", {"Secret"}),
  Management("CanExecuteCommand", "Compute/virtualMachineScaleSets/extensions/write",
       {"VirtualMachine"}),
  Management("CanModifyConfiguration", "Compute/virtualMachines/write", {"VirtualMachine"}),
  Management("CanGrantPermission", "Authorization/roleAssignments/write",
       {"Subscription", "ResourceGroup", "ManagementGroup"}),
  Management("CanGrantPermission", "Authorization/elevateAccess/action",
       {"Subscription", "ManagementGroup"})}

-----------------------------------------------------------------------------
(* Paths.                                                                  *)

IsManagementGroup(p) == p # <<>> /\ p[1] = "managementGroups"
IsArm(p) == p # <<>> /\ p[1] = "subscriptions"
ManagementGroup(g) == <<"managementGroups", g>>
Subscription(s) == <<"subscriptions", s>>

SubOf(p) == IF IsArm(p) THEN p[2] ELSE ""
RgScopeOf(p) == IF IsArm(p) /\ Len(p) >= 3 THEN {SubSeq(p, 1, 3)} ELSE {}
Principal(pid) == <<"entra", pid>>
Tenant == <<"tenant">>
Anonymous == <<"internet">>

-----------------------------------------------------------------------------
(* The facts, indexed.                                                     *)

Empty == [x \in {} |-> {}]

EmptyStore ==
  [roles |-> Empty, assigns |-> {}, denies |-> {}, members |-> {}, owners |-> {},
   children |-> {}, childType |-> Empty, publicContainers |-> {}, entra |-> {}]

Put(f, key, value) == [k \in DOMAIN f \cup {key} |-> IF k = key THEN value ELSE f[k]]

Pair(f) == [source |-> f.source, target |-> f.target]

EntraKinds == {"entra_role_assignment", "entra_role_eligible", "entra_app_role", "entra_owner"}

IndexFact(s, f) ==
  CASE f.kind = "mg_hierarchy" -> [s EXCEPT !.children = @ \cup {Pair(f)},
                                            !.childType = Put(@, f.target, f.childType)]
    [] f.kind = "public_container" -> [s EXCEPT !.publicContainers = @ \cup {f.source}]
    [] f.kind = "entra_group_owner" -> [s EXCEPT !.owners = @ \cup {Pair(f)}, !.entra = @ \cup {f}]
    [] f.kind = "role_definition" -> [s EXCEPT !.roles = Put(@, f.source, f.grants)]
    [] f.kind = "role_assignment" -> [s EXCEPT !.assigns = @ \cup {f}]
    [] f.kind = "deny_assignment" -> [s EXCEPT !.denies = @ \cup {f}]
    [] f.kind = "member_of" -> [s EXCEPT !.members = @ \cup {Pair(f)}]
    [] f.kind \in EntraKinds -> [s EXCEPT !.entra = @ \cup {f}]
    [] OTHER -> s

MembersOf(s, group) == {x.source : x \in {y \in s.members : y.target = group}}
OwnersOf(s, group) == {x.source : x \in {y \in s.owners : y.target = group}}

(* An assignment to a group is one to each of its members too (member_of   *)
(* is transitive already).  A faulty variant: only to the group.           *)
AssignsAsGiven(s) == s.assigns

Assigns(s) ==
  s.assigns \cup
  UNION {{[a EXCEPT !.source = m] : m \in MembersOf(s, a.source)} : a \in s.assigns}

-----------------------------------------------------------------------------
(* The tree of management groups.                                          *)

AllMGs(s) == {x.source : x \in s.children} \cup
             {c \in DOMAIN s.childType : s.childType[c] = "managementGroup"}

ChildrenOf(s, groups) == {x.target : x \in {y \in s.children : y.source \in groups}}

IsSub(s, c) == s.childType[c] = "subscription"

(* The subscriptions below a group (descend): every child that is not a    *)
(* subscription is gone into, once.                                        *)
GoneInto(s, groups) == groups \cup {c \in ChildrenOf(s, groups) : ~IsSub(s, c)}

Descent(s, g) ==
  LET below[k \in Nat] == IF k = 0 THEN {g} ELSE GoneInto(s, below[k - 1])
  IN  below

MgSubs(s, g) ==
  {c \in ChildrenOf(s, Descent(s, g)[Cardinality(DOMAIN s.childType)]) : IsSub(s, c)}

ScopeContains(scope, arn) == IsManagementGroup(scope) \/ IsPrefix(scope, arn)

(* A faulty variant: a management group covers whatever is in view.        *)
ScopeCoversAll(s, scope, arn) == ScopeContains(scope, arn)

(* A management group covers the subscriptions below it, an unknown one    *)
(* everything in view.                                                     *)
ScopeCovers(s, scope, arn) ==
  IF IsManagementGroup(scope) /\ scope[2] \in AllMGs(s) THEN SubOf(arn) \in MgSubs(s, scope[2])
  ELSE ScopeContains(scope, arn)

-----------------------------------------------------------------------------
(* Nodes: those of the inventory and, made here, a subscription for each   *)
(* account, the management groups and the resource groups.                 *)

Accounts == {AzureNodes[n].account : n \in Arns} \ {""}
Subscriptions == {Subscription(a) : a \in Accounts}
ResourceGroups == UNION {RgScopeOf(n) : n \in Arns}

ByType(s, type) ==
  {n \in Arns : AzureNodes[n].type = type} \cup
  (CASE type = "Subscription" -> Subscriptions
     [] type = "ManagementGroup" -> {ManagementGroup(g) : g \in AllMGs(s)}
     [] type = "ResourceGroup" -> ResourceGroups
     [] OTHER -> {})

(* The node of a principal: the one that acts as it (principalIDOf), or    *)
(* one made for it.                                                        *)
ResolvePrincipal(pid) ==
  LET unified == {n \in Arns : AzureNodes[n].principal = pid}
  IN  IF unified = {} THEN Principal(pid) ELSE CHOOSE n \in unified : TRUE

-----------------------------------------------------------------------------
(* Edges: what is emitted for one id makes one edge, ACTIVE if any of it   *)
(* is unconditional.                                                       *)

Emission(type, source, target, conditional) ==
  [id |-> [type |-> type, source |-> source, target |-> target], conditional |-> conditional]

EdgesOf(emissions) ==
  LET proper == {e \in emissions : e.id.source # e.id.target}
  IN  [id \in {e.id : e \in proper} |->
         IF \E e \in proper : e.id = id /\ ~e.conditional THEN "ACTIVE" ELSE "CONDITIONAL"]

Over(f, g) == [k \in DOMAIN f \cup DOMAIN g |-> IF k \in DOMAIN f THEN f[k] ELSE g[k]]

-----------------------------------------------------------------------------
(* Role assignments.                                                       *)

(* What a role allows: by plane, what it lists without what it excludes.   *)
Allows(grants, row) ==
  IF row.dataAction THEN row.action \in grants.dataActions \ grants.notDataActions
  ELSE row.action \in grants.actions \ grants.notActions

DeniedFor(s, pid, action, arn) ==
  \E d \in s.denies : /\ d.source = pid /\ ScopeContains(d.target, arn)
                      /\ action \in d.actions \ d.notActions

RoleEmissions(s) ==
  UNION {UNION {{Emission(row.edge, ResolvePrincipal(a.source), n, a.condition) :
                   n \in {m \in UNION {ByType(s, t) : t \in row.targets} :
                            /\ ScopeCovers(s, a.target, m)
                            /\ ~DeniedFor(s, a.source, row.action, m)}} :
                row \in {r \in AzureCapabilities : Allows(s.roles[a.role], r)}} :
         a \in {x \in Assigns(s) : x.role \in DOMAIN s.roles}}

(* Whoever can assign roles at a management group or a resource group owns *)
(* the subscriptions below the one and the resources in the other,         *)
(* whatever the state of the edge that says so.                            *)
Owned(s, container) ==
  IF IsManagementGroup(container)
  THEN Subscriptions \cap {Subscription(x) : x \in MgSubs(s, container[2])}
  ELSE IF container \in ResourceGroups THEN {n \in Arns : IsStrictPrefix(container, n)} ELSE {}

Takeovers(s, granted) ==
  LET ids == UNION {{[type |-> "CanControl", source |-> id.source, target |-> n] :
                       n \in Owned(s, id.target)} :
                    id \in {x \in DOMAIN granted : x.type = "CanGrantPermission"}}
  IN  [id \in ids |-> "ACTIVE"]

-----------------------------------------------------------------------------
(* Entra.                                                                  *)

ServicePrincipals(s) == ByType(s, "ServiceIdentity") \cup ByType(s, "ApplicationIdentity")

(* What a directory role, or a Graph application permission, is worth: an  *)
(* edge to each of some nodes.                                             *)
DirectoryRole(s, role) ==
  CASE role = "GlobalAdmin" -> [edge |-> "CanControl", to |-> {Tenant}]
    [] role = "PrivRoleAdmin" -> [edge |-> "CanGrantPermission", to |-> {Tenant}]
    [] role \in {"AppAdmin", "CloudAppAdmin"} ->
         [edge |-> "CanCreateCredentialFor", to |-> ServicePrincipals(s)]
    [] role \in {"PrivAuthAdmin", "UserAdmin", "AuthAdmin"} ->
         [edge |-> "CanResetCredential", to |-> ByType(s, "HumanIdentity")]
    [] role = "GroupsAdmin" -> [edge |-> "CanAddMember", to |-> ByType(s, "Group")]
    [] OTHER -> [edge |-> "", to |-> {}]

AppRole(s, role) ==
  CASE role \in {"RoleManagement.ReadWrite.Directory", "AppRoleAssignment.ReadWrite.All"} ->
         [edge |-> "CanGrantPermission", to |-> {Tenant}]
    [] role = "Directory.ReadWrite.All" -> [edge |-> "CanControl", to |-> {Tenant}]
    [] role = "Application.ReadWrite.All" ->
         [edge |-> "CanCreateCredentialFor", to |-> ServicePrincipals(s)]
    [] role = "Group.ReadWrite.All" -> [edge |-> "CanAddMember", to |-> ByType(s, "Group")]
    [] OTHER -> [edge |-> "", to |-> {}]

(* Who holds what is given to a principal: itself, and of a group its      *)
(* members and its owners, who can add themselves.                         *)
Expand(s, pid) == {pid} \cup MembersOf(s, pid) \cup OwnersOf(s, pid)

Given(s, f) ==
  CASE f.kind \in {"entra_role_assignment", "entra_role_eligible"} -> DirectoryRole(s, f.role)
    [] f.kind = "entra_app_role" -> AppRole(s, f.role)
    [] f.kind = "entra_owner" ->
         [edge |-> "CanCreateCredentialFor", to |-> {ResolvePrincipal(f.target)}]
    [] OTHER -> [edge |-> "CanAddMember", to |-> {ResolvePrincipal(f.target)}]

Holders(s, f) ==
  IF f.kind \in {"entra_owner", "entra_group_owner"} THEN {f.source} ELSE Expand(s, f.source)

(* A role one is only eligible for (PIM) is one activation away.           *)
EntraEmissions(s) ==
  UNION {UNION {{Emission(Given(s, f).edge, ResolvePrincipal(pid), n,
                          f.kind = "entra_role_eligible") :
                   n \in Given(s, f).to} : pid \in Holders(s, f)} : f \in s.entra}

-----------------------------------------------------------------------------
(* Exposures: of a node whose properties permit anonymous blobs, or leave  *)
(* its public network access enabled.                                      *)

Severity(s, n) ==
  IF "allowBlobPublicAccess" \notin AzureNodes[n].properties THEN "high"
  ELSE IF n \in s.publicContainers THEN "critical"
  ELSE IF "networkAcls" \in AzureNodes[n].properties THEN "medium" ELSE "high"

Exposures(s) ==
  {[node |-> n, to |-> Anonymous, severity |-> Severity(s, n)] :
     n \in {m \in Arns : {"allowBlobPublicAccess", "publicNetworkAccess"}
                            \cap AzureNodes[m].properties # {}}}

-----------------------------------------------------------------------------

VARIABLES
  azureFacts,  \* the facts indexed
  azureStore,  \* the index
  azureEdges,  \* the state of each permission edge, by [type, source, target]
  exposures,   \* the exposure edges
  azurePhase   \* "index", then "done"

azureVars == <<azureFacts, azureStore, azureEdges, exposures, azurePhase>>

AzureInit ==
  /\ azureFacts = {} /\ azureStore = EmptyStore
  /\ azureEdges = Empty /\ exposures = {} /\ azurePhase = "index"

(* One turn of the loop over the facts.                                    *)
Index(f) ==
  /\ azurePhase = "index" /\ f \notin azureFacts /\ Cardinality(azureFacts) < MaxAzureFacts
  /\ azureFacts' = azureFacts \cup {f}
  /\ azureStore' = IndexFact(azureStore, f)
  /\ UNCHANGED <<azureEdges, exposures, azurePhase>>

EvaluateAzurePermissions ==
  LET granted == EdgesOf(RoleEmissions(azureStore))
      owned == Over(granted, Takeovers(azureStore, granted))
  IN  /\ azurePhase = "index" /\ azurePhase' = "done"
      /\ azureEdges' = Over(owned, EdgesOf(EntraEmissions(azureStore)))
      /\ exposures' = Exposures(azureStore)
      /\ UNCHANGED <<azureFacts, azureStore>>

AzureNext == (\E f \in AzureFactPool : Index(f)) \/ EvaluateAzurePermissions

AzureSpec == AzureInit /\ [][AzureNext]_azureVars

-----------------------------------------------------------------------------
(* What Azure says.                                                        *)

(* A name is below a management group if no set closed under the tree has  *)
(* the group's children without it.                                        *)
Below(g, c) ==
  \A names \in SUBSET DOMAIN azureStore.childType :
    (\A x \in azureStore.children : x.source \in names \cup {g} => x.target \in names)
      => c \in names

(* What is under a scope inherits from it: under an ARM id what it is a    *)
(* prefix of; under a management group the group itself, the groups below  *)
(* it, and the subscriptions below it with all that is in them.  A group   *)
(* nothing is known of may be above anything.                              *)
Under(scope, n) ==
  IF ~IsManagementGroup(scope) THEN IsPrefix(scope, n)
  ELSE scope[2] \in AllMGs(azureStore) =>
         \/ n = scope
         \/ IsManagementGroup(n) /\ Below(scope[2], n[2])
         \/ /\ IsArm(n) /\ n[2] \in DOMAIN azureStore.childType
            /\ azureStore.childType[n[2]] = "subscription" /\ Below(scope[2], n[2])

ActsAs(pid) == {pid} \cup {x.target : x \in {y \in azureStore.members : y.source = pid}}

(* An assignment that gives a principal what a row stands for on a node,   *)
(* by itself or as a member.                                               *)
Grants(a, pid, row, n) ==
  /\ a.source \in ActsAs(pid) /\ a.role \in DOMAIN azureStore.roles
  /\ Allows(azureStore.roles[a.role], row) /\ Under(a.target, n)
  /\ \E t \in row.targets : n \in ByType(azureStore, t)

Denied(pids, row, n) ==
  \E d \in azureStore.denies :
    d.source \in pids /\ row.action \in d.actions \ d.notActions /\ Under(d.target, n)

Principals == {f.source : f \in azureStore.assigns \cup azureStore.members \cup azureStore.entra}

AzureTargets ==
  UNION {UNION {ByType(azureStore, t) : t \in row.targets} : row \in AzureCapabilities}

AzureEdgeId(type, source, target) == [type |-> type, source |-> source, target |-> target]

-----------------------------------------------------------------------------
(* Properties.                                                             *)

(* Where the code is known not to follow Azure.  A management group that   *)
(* is known of has, to scopeCovers, subscriptions under it and no groups,  *)
(* itself included; and a denial at a management group is, to              *)
(* scopeContains, one everywhere ("MG hierarchy not yet expanded").        *)
GroupUnderGroup(scope, n) ==
  IsManagementGroup(scope) /\ scope[2] \in AllMGs(azureStore) /\ IsManagementGroup(n)

DeniedAtAGroup(pid, row) ==
  \E d \in azureStore.denies :
    d.source = pid /\ row.action \in d.actions \ d.notActions /\ IsManagementGroup(d.target)

(* What a has pid do to n by row has an edge, ACTIVE if unconditionally.   *)
HasEdge(a, pid, row, n) ==
  LET id == AzureEdgeId(row.edge, ResolvePrincipal(pid), n)
  IN  id \in DOMAIN azureEdges /\ (a.condition \/ azureEdges[id] = "ACTIVE")

Effective(a, pid, row, n) ==
  Grants(a, pid, row, n) /\ ~Denied(ActsAs(pid), row, n) /\ ResolvePrincipal(pid) # n

(* Whatever an assignment gives a principal, directly or through a group,  *)
(* and no denial takes from it has an edge, an ACTIVE one when the         *)
(* assignment is unconditional (TestAzure_GroupMembersInheritAssignment) - *)
(* but for the two cases above.                                            *)
NoAssignmentMissed ==
  azurePhase = "done" =>
    \A a \in azureStore.assigns, row \in AzureCapabilities, pid \in Principals, n \in AzureTargets :
      /\ Effective(a, pid, row, n)
      /\ ~GroupUnderGroup(a.target, n) /\ ~DeniedAtAGroup(pid, row)
      => HasEdge(a, pid, row, n)

(* The code does not keep this one, what the package's comment promises of *)
(* every grant: that it "inherits DOWNWARD to every resource under that    *)
(* scope".  Who may assign roles at a management group has an edge to the  *)
(* subscriptions there, but none to the group or the groups below it; and  *)
(* who is denied something at one management group keeps it nowhere.       *)
GrantsInheritDownward ==
  azurePhase = "done" =>
    \A a \in azureStore.assigns, row \in AzureCapabilities, pid \in Principals, n \in AzureTargets :
      Effective(a, pid, row, n) => HasEdge(a, pid, row, n)

(* An edge of the role assignments: some assignment gives it, and nothing  *)
(* denies it to those pids stands for.                                     *)
Assigned(id, denying(_), unconditionally) ==
  \E a \in azureStore.assigns, row \in AzureCapabilities, pid \in Principals :
    /\ id.type = row.edge /\ id.source = ResolvePrincipal(pid) /\ Grants(a, pid, row, id.target)
    /\ ~Denied(denying(pid), row, id.target)
    /\ unconditionally => ~a.condition

(* An edge of a container's owner leads below the container.               *)
OwnedBelow(id) ==
  id.type = "CanControl" /\
  \E c \in AzureTargets :
    /\ AzureEdgeId("CanGrantPermission", id.source, c) \in DOMAIN azureEdges
    /\ IF IsManagementGroup(c) THEN Under(c, id.target) /\ id.target \in Subscriptions
       ELSE c \in ResourceGroups /\ Under(c, id.target) /\ id.target # c

(* An edge of Entra: its source holds what gives it, as the one it is      *)
(* given to, a member or an owner.                                         *)
Directory(id, activated) ==
  \E f \in azureStore.entra, pid \in Principals :
    /\ id.source = ResolvePrincipal(pid)
    /\ id.type = Given(azureStore, f).edge /\ id.target \in Given(azureStore, f).to
    /\ f.source \in ActsAs(pid) \cup {x.target : x \in {y \in azureStore.owners : y.source = pid}}
    /\ activated => f.kind # "entra_role_eligible"

(* Every edge has its reason: an assignment whose scope has the target     *)
(* under it and that its holder is not denied, the ownership of a          *)
(* container around the target, or something held in Entra; and an ACTIVE  *)
(* one a reason without condition or activation.  A denial to a group is   *)
(* left out: it is not held against the members.                           *)
NoEdgeInvented ==
  \A id \in DOMAIN azureEdges :
    LET active == azureEdges[id] = "ACTIVE"
    IN  Assigned(id, LAMBDA pid : {pid}, active) \/ OwnedBelow(id) \/ Directory(id, active)

(* What the package says, "Deny assignments win": an edge stands only for  *)
(* what neither its holder nor a group of its holder is denied.            *)
DenyAssignmentsWin ==
  \A id \in DOMAIN azureEdges :
    Assigned(id, ActsAs, FALSE) \/ OwnedBelow(id) \/ Directory(id, FALSE)
=============================================================================
