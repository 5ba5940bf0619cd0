------------------------- MODULE MCCloudEvaluators --------------------------
(***************************************************************************)
(* An instance of GcpEvaluator and one of AzureEvaluator, which MCEngine   *)
(* runs: the pipeline gives each the facts of its own provider.            *)
(***************************************************************************)
EXTENDS GcpEvaluator, AzureEvaluator, TLC

-----------------------------------------------------------------------------
(* GCP: a project with a service account and a secret whose last segment   *)
(* is the name of a bucket, and a secret of another project.               *)

GcpNode(id, type, account, arn, native) ==
  [id |-> id, type |-> type, account |-> account, arn |-> arn, native |-> native]

GcpEstate == <<
  GcpNode("robot-node", "ServiceAccount", "here", "here/robot", "robot"),
  GcpNode("key-node", "Secret", "here", "here/key", "here/key"),
  GcpNode("bucket-node", "ObjectStorage", "here", "key", "key"),
  GcpNode("far-node", "Secret", "there", "there/key", "there/key")>>

LastSegs ==
  [x \in {"here/robot", "robot", "here/key", "key", "there/key", "gone/key", "here", "there"} |->
     IF x \in {"here/key", "there/key", "gone/key"} THEN "key"
     ELSE IF x = "here/robot" THEN "robot" ELSE x]

Member(kind, name, managed) == [kind |-> kind, name |-> name, managed |-> managed]
GcpMembers == [
  robot |-> Member("serviceAccount", "robot", FALSE), agent |-> Member("serviceAccount", "agent", TRUE),
  alice |-> Member("user", "alice", FALSE), viewers |-> Member("projectViewer", "here", FALSE)]

RolePermissions(role, perms) == [kind |-> "role_permissions", source |-> role, perms |-> perms]
Binding(member, level, account, target, role, condition) ==
  [kind |-> "iam_binding", source |-> member, level |-> level, account |-> account,
   target |-> target, role |-> role, condition |-> condition]

Access == "secretmanager.versions.access"
Owner == {Access, "secretmanager.secrets.setIamPolicy", "iam.serviceAccounts.getAccessToken",
          "iam.serviceAccounts.getOpenIdToken", "storage.objects.get"}

GcpFacts == {
  RolePermissions("reader", {Access}), RolePermissions("reader", {}), RolePermissions("owner", Owner),
  Binding("robot", "project", "here", "here", "reader", TRUE),
  Binding("robot", "resource", "here", "here/key", "reader", FALSE),
  Binding("robot", "resource", "here", "here/key", "owner", TRUE),
  Binding("robot", "project", "here", "here", "owner", FALSE),
  Binding("alice", "project", "here", "here", "owner", TRUE),
  Binding("alice", "resource", "here", "here/robot", "owner", FALSE),
  Binding("alice", "resource", "here", "key", "owner", FALSE),
  Binding("alice", "project", "there", "there", "reader", FALSE),
  Binding("alice", "resource", "there", "gone/key", "reader", FALSE),
  Binding("viewers", "resource", "here", "key", "owner", FALSE),
  Binding("agent", "project", "there", "there", "owner", FALSE)}

-----------------------------------------------------------------------------
(* Azure: a vault and a machine with an identity in one subscription, a    *)
(* storage account in another, below a tree of management groups.          *)

AzureNode(type, account, principal, properties) ==
  [type |-> type, account |-> account, principal |-> principal, properties |-> properties]

One == <<"subscriptions", "one">>
Group == <<"subscriptions", "one", "group">>
Vault == <<"subscriptions", "one", "group", "vault">>
Machine == <<"subscriptions", "one", "group", "machine">>
Storage == <<"subscriptions", "two", "group", "storage">>
Top == <<"managementGroups", "top">>
Mid == <<"managementGroups", "mid">>

AzureEstate ==
  Vault :> AzureNode("Secret", "one", "", {}) @@
  Machine :> AzureNode("VirtualMachine", "one", "identity", {}) @@
  Storage :> AzureNode("ObjectStorage", "two", "", {"allowBlobPublicAccess"}) @@
  <<"inventory", "app">> :> AzureNode("ApplicationIdentity", "one", "", {})

Get == "KeyVault/vaults/secrets/getSecret/action"
List == "KeyVault/vaults/secrets/readMetadata/action"
Run == "Compute/virtualMachines/runCommand/action"
Keys == "Storage/storageAccounts/listkeys/action"
AssignRoles == "Authorization/roleAssignments/write"

RoleDefinition(role, actions, notActions, dataActions) ==
  [kind |-> "role_definition", source |-> role,
   grants |-> [actions |-> actions, notActions |-> notActions, dataActions |-> dataActions,
               notDataActions |-> {}]]
Assignment(pid, role, scope, condition) ==
  [kind |-> "role_assignment", source |-> pid, role |-> role, target |-> scope,
   condition |-> condition]
Denial(pid, scope, actions) ==
  [kind |-> "deny_assignment", source |-> pid, target |-> scope, actions |-> actions,
   notActions |-> {}]
Child(group, child, type) ==
  [kind |-> "mg_hierarchy", source |-> group, target |-> child, childType |-> type]
Entra(kind, pid, role) == [kind |-> kind, source |-> pid, role |-> role]
Relation(kind, source, target) == [kind |-> kind, source |-> source, target |-> target]

AzureFacts == {
  RoleDefinition("contributor", {Run, Keys, AssignRoles}, {AssignRoles}, {}),
  RoleDefinition("owner", {Run, Keys, AssignRoles}, {}, {}),
  RoleDefinition("reader", {}, {}, {Get, List}), RoleDefinition("reader", {}, {}, {}),
  Assignment("alice", "owner", Top, FALSE), Assignment("alice", "owner", Mid, TRUE),
  Assignment("alice", "reader", One, TRUE), Assignment("team", "reader", Vault, FALSE),
  Assignment("team", "owner", Group, TRUE), Assignment("identity", "contributor", <<>>, FALSE),
  Denial("team", Vault, {Get, List}), Denial("alice", One, {Get, Run}),
  Denial("alice", Mid, {Keys, AssignRoles}),
  Child("top", "mid", "managementGroup"), Child("top", "two", "subscription"),
  Child("mid", "one", "subscription"),
  Relation("member_of", "alice", "team"), Entra("entra_role_assignment", "alice", "AppAdmin"),
  Entra("entra_role_eligible", "team", "GlobalAdmin"),
  Entra("entra_app_role", "app", "Application.ReadWrite.All"),
  Relation("entra_owner", "alice", "app"), Relation("entra_group_owner", "bob", "team"),
  [kind |-> "public_container", source |-> Storage]}

=============================================================================
