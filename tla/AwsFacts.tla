------------------------------ MODULE AwsFacts ------------------------------
(***************************************************************************)
(* The collectors of facts: policies, trust and network facts of an account, *)
(* from which the engine makes its edges.  Each fact is written to the bundle *)
(* as it is read (facts.go:emit).                                          *)
(***************************************************************************)
EXTENDS Fetcher

AcmpcaFacts ==
  Policies("acmpca-resource-policy", "regional",
    "ListCertificateAuthorities", "GetPolicy")

ApigatewayFacts ==
  << Facts("apigateway-resource-policy", "regional", << Pages("GetRestApis", "keep") >>) >>

BackupFacts ==
  Policies("backup-resource-policy", "regional",
    "ListBackupVaults", "GetBackupVaultAccessPolicy")

CodeartifactFacts ==
  << Facts("codeartifact-resource-policy", "regional",
       Chain(<< Pages("ListDomains", "keep"), Once("GetDomainPermissionsPolicy", "skip") >>)
       \o Chain(<< Pages("ListRepositories", "keep"),
                   Once("GetRepositoryPermissionsPolicy", "skip") >>)) >>

DynamodbFacts ==
  << Facts("dynamodb-resource-policy", "regional",
       Chain(<< Pages("ListTables", "keep"), Once("DescribeTable", "skip"),
                Once("GetResourcePolicy", "skip") >>)) >>

EcrFacts ==
  << Facts("ecr-resource-policy", "regional",
       Chain(<< Pages("DescribeRepositories", "keep"), Once("GetRepositoryPolicy", "skip") >>)
       \o << Once("GetRegistryPolicy", "skip") >>) >>

EfsFacts ==
  Policies("efs-resource-policy", "regional",
    "DescribeFileSystems", "DescribeFileSystemPolicy")

EventbridgeFacts ==
  << Facts("eventbridge-resource-policy", "regional", << Pages("ListEventBuses", "keep") >>) >>

GlueFacts ==
  << Facts("glue-resource-policy", "regional",
       << Once("GetResourcePolicy", "skip"), Pages("GetResourcePolicies", "keep") >>) >>

(* Which managed policies are attached or are boundaries, then the document *)
(* of each.                                                                *)
IamAttachments ==
  << Under(Pages("ListUsers", "note"),
       << Lookup(Pages("ListAttachedUserPolicies", "skip")), Lookup(Once("GetUser", "skip")) >>),
     Under(Pages("ListRoles", "note"), << Lookup(Pages("ListAttachedRolePolicies", "skip")) >>),
     Under(Pages("ListGroups", "note"), << Lookup(Pages("ListAttachedGroupPolicies", "skip")) >>) >>

IamDocuments == Chain(<< Found, Once("GetPolicy", "note"), Once("GetPolicyVersion", "note") >>)
IamPolicyFacts == << Facts("iam-resource-policy", "global", IamAttachments \o IamDocuments) >>
(* The inline policies of a principal. *)
InlinePolicies(list, get) == Under(Pages(list, "skip"), << Once(get, "skip") >>)
(* Users, roles (a role is a fact itself, its trust policy) and groups.    *)
IamFacts ==
  << Facts("iam:facts", "global",
       << Under(Pages("ListUsers", "keep"),
            << Pages("ListAttachedUserPolicies", "skip"),
               InlinePolicies("ListUserPolicies", "GetUserPolicy"),
               Pages("ListGroupsForUser", "skip") >>),
          Also(Pages("ListRoles", "keep"),
            << Pages("ListAttachedRolePolicies", "skip"),
               InlinePolicies("ListRolePolicies", "GetRolePolicy") >>),
          Under(Pages("ListGroups", "keep"),
            << Pages("ListAttachedGroupPolicies", "skip"),
               InlinePolicies("ListGroupPolicies", "GetGroupPolicy") >>) >>) >>

LakeformationFacts ==
  << Facts("lakeformation-resource-policy", "regional",
       << Once("GetDataLakeSettings", "skip") >>) >>

LambdaFacts == Policies("lambda-resource-policy", "regional", "ListFunctions", "GetPolicy")
NetworkFacts ==
  << Facts("ec2:DescribeSecurityGroups", "regional",
       << Pages("DescribeSecurityGroups", "keep"),
          First("DescribeVpcPeeringConnections", "skip"),
          Pages("DescribeRouteTables", "skip") >>) >>

OpensearchFacts ==
  << Facts("opensearch-resource-policy", "regional",
       Chain(<< Once("ListDomainNames", "fail"), Once("DescribeDomain", "skip") >>)) >>

OrganizationsFacts ==
  Policies("organizations-resource-policy", "global",
    "ListPolicies", "DescribePolicy")

RamFacts ==
  << Facts("ram-resource-policy", "regional",
       Chain(<< Pages("ListResources", "keep"), First("GetResourcePolicies", "skip") >>)) >>

(* A bucket's region is looked up first; refused, the default stands.      *)
S3PolicyFacts ==
  << Facts("s3:GetBucketPolicy", "global",
       << Under(Once("ListBuckets", "fail"),
            << Lookup(Once("GetBucketLocation", "skip")), Once("GetBucketPolicy", "skip") >>) >>) >>

KmsPolicyFacts == Policies("kms:GetKeyPolicy", "regional", "ListKeys", "GetKeyPolicy")
SecretsmanagerFacts ==
  Policies("secretsmanager-resource-policy", "regional",
    "ListSecrets", "GetResourcePolicy")

SnsFacts == Policies("sns-resource-policy", "regional", "ListTopics", "GetTopicAttributes")
SqsFacts == Policies("sqs-resource-policy", "regional", "ListQueues", "GetQueueAttributes")
VpcFacts ==
  << Facts("vpc-resource-policy", "regional", << Pages("DescribeVpcEndpoints", "keep") >>) >>

VpclatticeFacts ==
  LET policies == << Once("GetResourcePolicy", "skip"), Once("GetAuthPolicy", "skip") >>
  IN << Facts("vpclattice-resource-policy", "regional",
          << Under(Pages("ListServices", "keep"), policies),
             Under(Pages("ListServiceNetworks", "keep"), policies) >>) >>

(* Two built in for the account, two for each region, then the registered.  *)
FactCollectors ==
  IamFacts \o S3PolicyFacts \o NetworkFacts \o KmsPolicyFacts \o AcmpcaFacts
  \o ApigatewayFacts \o BackupFacts \o CodeartifactFacts \o DynamodbFacts \o EcrFacts
  \o EfsFacts \o EventbridgeFacts \o GlueFacts \o IamPolicyFacts
  \o LakeformationFacts \o LambdaFacts \o OpensearchFacts \o OrganizationsFacts
  \o RamFacts \o SecretsmanagerFacts \o SnsFacts \o SqsFacts \o VpcFacts
  \o VpclatticeFacts

=============================================================================
