----------------------------- MODULE GcpFetchers ----------------------------
(***************************************************************************)
(* The functions of the Google Cloud provider.  One generic Invoke serves  *)
(* every operation of the endpoint table (generated, not modelled): either *)
(* a list, read page by page, or one object.  What it reads before an      *)
(* error it returns with the error; a 404 is an answer of nothing.  Facts  *)
(* are written down only after a list is read whole.                       *)
(***************************************************************************)
EXTENDS Fetcher

(* invoke.go:Invoke, and the probes of items, which are built on it.       *)
ListOperation == <<Operation("list", <<Pages("list", "keep")>>)>>
GetOperation == <<Operation("get", <<Once("get", "keep")>>)>>
GcpProbes == <<Item("get", "gcp:item", <<Once("get", "fail")>>)>>

(* The policy of the project, then the policies of seven kinds of          *)
(* resources, then the permissions of each role a binding has named.       *)
ProjectPolicy ==
  <<Facts("cloudresourcemanager.projects.getIamPolicy", "global",
      << Once("cloudresourcemanager.projects.getIamPolicy", "fail") >>)>>

ResourcePolicy(collection, scope) ==
  <<Facts(collection \o ".getIamPolicy", scope,
      Chain(<< All(collection \o ".list", "fail"), Once(collection \o ".getIamPolicy", "skip") >>))>>

factResources ==
  ResourcePolicy("iam.projects.serviceAccounts", "global")
  \o ResourcePolicy("secretmanager.projects.secrets", "global")
  \o ResourcePolicy("storage.buckets", "global")
  \o ResourcePolicy("pubsub.projects.topics", "global")
  \o ResourcePolicy("run.projects.locations.services", "regional")
  \o ResourcePolicy("cloudfunctions.projects.locations.functions", "global")
  \o ResourcePolicy("artifactregistry.projects.locations.repositories", "regional")

RoleExpansion ==
  <<Facts("iam.roles.get", "global", << Under(Each, << Once("iam.roles.get", "skip") >>) >>)>>

GcpFactCollectors == ProjectPolicy \o factResources \o RoleExpansion

(* The projects to collect, and the locations of one: without the Compute  *)
(* API there are none, and no error.                                       *)
DiscoverProjects ==
  <<Function("scopes", "gcp:projects", "-", << Pages("projects.list", "fail") >>)>>
Locations == <<Function("scopes", "gcp:locations", "-", << First("regions.list", "skip") >>)>>

GcpFunctions ==
  ListOperation \o GetOperation \o GcpProbes \o GcpFactCollectors \o DiscoverProjects \o Locations

=============================================================================
