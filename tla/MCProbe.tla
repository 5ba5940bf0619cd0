------------------------------- MODULE MCProbe ------------------------------
(***************************************************************************)
(* An instance of each part of a probe: the prober of MCProber, and one    *)
(* call, on small answers, of any function of the three providers.  A      *)
(* behaviour is of one of them: Prober takes an answer for one step, Fetch *)
(* says how it comes about.                                                *)
(***************************************************************************)
EXTENDS MCProber, AwsItemProbes, AwsListProbes, AwsOperations, AwsFacts, GcpFetchers, AzureFetchers,
        Fetch

AllFunctions ==
  TableOf(ItemProbes) \cup TableOf(ListProbes) \cup ToSet(Operations)
  \cup ToSet(FactCollectors) \cup ToSet(GcpFunctions) \cup ToSet(AzureFunctions)

(* The uses of a call that read one page of an API that may have more: the *)
(* probes of one item that sample it or read its tags, the same inside a   *)
(* longer function, and what Azure's armGetJSON, graphGetJSON and vaultGet *)
(* are used for.                                                           *)
Of(op, names) == {<<op, call>> : call \in names}

OnePage ==
  {<<call, call>> : call \in
     {"Scan", "FilterLogEvents", "DescribeQueries", "GetQueryResults", "DescribeStackEvents",
      "DescribeRemediationConfigurations", "GetParameterHistory", "ListActionExecutions",
      "ListBootstrapActions", "ListCommands", "ListFindings", "ListLFTags",
      "ListQueryLoggingConfigs", "ListResourceRecordSets", "ListSubscriptionsByTopic",
      "ListTagOptions", "ListTargetsByRule", "ListTrafficPolicyInstancesByHostedZone",
      "ListUsers", "ListVPCAssociationAuthorizations", "DownloadDBLogFilePortion",
      "DescribeTags", "ListResourceTags", "ListRoleTags", "ListTags", "ListTagsForResource",
      "ListTagsForStream", "ListTagsOfResource", "ListUserTags"}}
  \cup Of("GetPermission", {"ListResourceSharePermissions"})
  \cup Of("iam:ListUsers", {"ListUsers"})
  \cup Of("eventbridge:ListEventBuses", {"ListEventBuses"})
  \cup Of("lightsail:GetInstances", {"GetInstances"})
  \cup Of("ec2:DescribeSecurityGroups", {"DescribeVpcPeeringConnections"})
  \cup Of("ram-resource-policy", {"GetResourcePolicies"})
  \cup Of("gcp:locations", {"regions.list"})
  \cup Of("azure:subscriptions", {"subscriptions"})
  \cup Of("azure:management:hierarchy", {"managementGroups"})
  \cup Of("azure:storage:public-containers", {"containers"})
  \cup Of("azure:graph:principals", {"transitiveMembers"})
  \cup Of("azure:keyvault:secretValues", {"secrets"})
  \cup Of("azure:entra:directory-roles",
        {"directory/roleAssignments", "directory/roleEligibilityScheduleInstances",
         "appRoleAssignedTo", "servicePrincipals", "applications", "groups"})

(* What some functions go on without: aliases of keys, jobs in one state,  *)
(* a policy of the registry beside those of its repositories - and a blob, *)
(* where the page of an HTTP error is stored as the code of the function.  *)
Optional ==
  {"kms:ListKeys", "DescribeJobs", "GetAlternateContact", "BatchGetResourceConfig",
   "DescribePolicy", "ec2:DescribeSecurityGroups", "ecr-resource-policy", "glue-resource-policy",
   "lakeformation-resource-policy", "gcp:locations", "iam.roles.get",
   "azure:entra:directory-roles", "azure:graph:principals", "http:GetBlob"}

VARIABLE part  \* which of them it is

ProbeInit ==
  /\ Init /\ FetchInit
  /\ part \in {"prober", "fetch"}
  /\ part # "fetch" => function = CHOOSE f \in AllFunctions : TRUE

ProbeNext ==
  /\ UNCHANGED part
  /\ \/ part = "prober" /\ Next /\ UNCHANGED fetchVars
     \/ part = "fetch" /\ FetchNext /\ UNCHANGED vars

probeVars == <<part, vars, fetchVars>>

(* Every API call returns, and of the goroutines that can go on one does:  *)
(* no fairness among them is needed.                                       *)
ProbeSpec == ProbeInit /\ [][ProbeNext]_probeVars /\ WF_probeVars(ProbeNext)

(* Run of the prober returns, held up neither by the semaphore nor by the  *)
(* lock of the cache, and every function comes to its end, whatever is     *)
(* refused.                                                                *)
EveryCallReturns == <>(IF part = "prober" THEN returned ELSE row # "running")

=============================================================================
