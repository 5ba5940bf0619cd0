---------------------------- MODULE AzureFetchers ---------------------------
(***************************************************************************)
(* The functions of the Azure provider.  The inventory's operations name   *)
(* how to fetch: a query of the Resource Graph, a path of the Resource     *)
(* Manager or of Microsoft Graph, all three read to the last page.  The    *)
(* collectors of facts and the probes also use armGetJSON, graphGetJSON    *)
(* and vaultGet, which read one page of the same collections.              *)
(***************************************************************************)
EXTENDS Fetcher

AzureOperations ==
  <<Operation("arg", <<Pages("arg", "keep")>>), Operation("arg-auth", <<Pages("arg-auth", "keep")>>),
    Operation("arm", <<Pages("arm", "keep")>>), Operation("graph", <<Pages("graph", "keep")>>)>>

(* The rows of a query are all read before the first becomes a fact.       *)
Query(op, query) == <<Facts(op, "global", << Lookup(All(query, "fail")), Found >>)>>

RoleAssignments == Query("azure:authorization:role-assignments", "roleassignments")
RoleDefinitions == Query("azure:authorization:role-definitions", "roledefinitions")
DenyAssignments == Query("azure:authorization:deny-assignments", "denyassignments")

(* The directory: assignments of roles and of application permissions,     *)
(* owners of service principals, applications and groups, eligible roles.  *)
collectEntra ==
  <<Facts("azure:entra:directory-roles", "global",
      << First("directory/roleAssignments", "keep"),
         Under(Once("servicePrincipals/graph", "skip"), << First("appRoleAssignedTo", "skip") >>),
         First("servicePrincipals", "skip"),
         First("applications", "skip"),
         First("groups", "skip"),
         First("directory/roleEligibilityScheduleInstances", "skip") >>)>>

collectManagementGroups ==
  <<Facts("azure:management:hierarchy", "global",
      Chain(<< First("managementGroups", "fail"), Once("managementGroups/children", "skip") >>))>>

collectPublicContainers ==
  <<Facts("azure:storage:public-containers", "global",
      Chain(<< All("storageaccounts", "fail"), First("containers", "skip") >>))>>

(* The principals named by the facts before, 900 at a time; of those that  *)
(* are groups, the members.                                                *)
resolvePrincipals ==
  <<Facts("azure:graph:principals", "global",
      << Under(Each, << Also(Batches("directoryObjects/getByIds", "skip"),
                             << First("transitiveMembers", "skip") >>) >>) >>)>>

AzureFactCollectors ==
  RoleAssignments \o RoleDefinitions \o DenyAssignments \o collectEntra
  \o collectManagementGroups \o collectPublicContainers \o resolvePrincipals

AzureProbes ==
  <<Item("azure:storage:listKeys", "azure:storage:account", <<Once("listKeys", "fail")>>),
    Item("azure:cosmos:listKeys", "azure:documentdb:cosmos", <<Once("listKeys", "fail")>>)>>
keyVaultSecretValues ==
  <<Item("azure:keyvault:secretValues", "azure:keyvault:vault",
      << First("secrets", "fail"), Once("secrets/value", "skip") >>)>>

Subscriptions ==
  <<Function("scopes", "azure:subscriptions", "-", << First("subscriptions", "fail") >>)>>

AzureFunctions ==
  AzureOperations \o AzureFactCollectors \o AzureProbes \o keyVaultSecretValues \o Subscriptions

=============================================================================
