--------------------------- MODULE AwsListProbes ----------------------------
(***************************************************************************)
(* The probes that find their own targets (registerListFetcher): they list *)
(* the things of a region and read each.  A refused outer list ends such a *)
(* probe, a refused read of one thing is passed over.                      *)
(***************************************************************************)
EXTENDS Fetcher

AccessanalyzerList ==
  << List("GetFindingV2", "accessanalyzer",
       << Pages("ListAnalyzers", "keep"), Pages("ListFindingsV2", "skip"),
          Once("GetFindingV2", "skip") >>),
     List("GetArchiveRule", "accessanalyzer",
       << Pages("ListAnalyzers", "keep"), Pages("ListArchiveRules", "skip"),
          Once("GetArchiveRule", "skip") >>) >>

ApigatewayList ==
  << List("GetApiKey", "apigateway", << Pages("GetApiKeys", "keep"), Once("GetApiKey", "skip") >>),
     List("GetIntegration", "apigateway",
       << Pages("GetRestApis", "keep"), Pages("GetResources", "skip"),
          Once("GetIntegration", "skip") >>) >>

AppmeshList ==
  << List("DescribeRoute", "appmesh",
       << Pages("ListMeshes", "keep"), Pages("ListVirtualRouters", "skip"),
          Pages("ListRoutes", "skip"), Once("DescribeRoute", "skip") >>) >>

AutoscalingList ==
  << List("DescribeLaunchConfigurations", "autoscaling",
       << Pages("DescribeLaunchConfigurations", "keep") >>) >>

CloudfrontList ==
  << List("GetFunction", "cloudfront",
       << Pages("ListFunctions", "keep"), Once("GetFunction", "skip") >>) >>

CloudwatchList ==
  << List("GetQueryResults", "cloudwatch",
       << All("DescribeQueries", "fail"), Once("GetQueryResults", "skip") >>),
     List("GetDashboard", "cloudwatch",
       << Pages("ListDashboards", "keep"), Once("GetDashboard", "skip") >>),
     List("DescribeAlarms", "cloudwatch", << Pages("DescribeAlarms", "keep") >>),
     List("ListMetrics", "cloudwatch", << Pages("ListMetrics", "keep") >>) >>

CodecommitList ==
  << List("GetCommit", "codecommit",
       << Pages("ListRepositories", "keep"), Pages("ListBranches", "skip"),
          Once("GetBranch", "skip"), Once("GetCommit", "skip") >>),
     List("GetCommentsForPullRequest", "codecommit",
       << Pages("ListRepositories", "keep"), Pages("ListPullRequests", "skip"),
          Pages("GetCommentsForPullRequest", "skip") >>) >>

CodedeployList ==
  << List("GetDeployment", "codedeploy",
       << Pages("ListApplications", "keep"), Pages("ListDeployments", "skip"),
          Once("GetDeployment", "skip") >>) >>

CognitoList ==
  << List("DescribeUserPoolClient", "cognito",
       << Pages("ListUserPools", "keep"), Pages("ListUserPoolClients", "skip"),
          Once("DescribeUserPoolClient", "skip") >>) >>

ConfigList ==
  << Function("list", "BatchGetResourceConfig", "config",
       Chain(<< All("GetDiscoveredResourceCounts", "fail"),
                Lookup(Pages("ListDiscoveredResources", "skip")) >>)
       \o Chain(<< Found, Batches("BatchGetResourceConfig", "skip") >>)) >>

ControltowerList ==
  << List("GetEnabledControl", "controltower",
       << Pages("ListEnabledControls", "keep"), Once("GetEnabledControl", "skip") >>) >>

DetectiveList ==
  << List("ListIndicators", "detective",
       << Pages("ListGraphs", "keep"), Pages("ListInvestigations", "skip"),
          Pages("ListIndicators", "skip") >>) >>

DirectconnectList ==
  << List("DescribeRouterConfiguration", "directconnect",
       << All("DescribeVirtualInterfaces", "fail"), Once("DescribeRouterConfiguration", "skip") >>) >>

Ec2List ==
  << List("DescribeLaunchTemplateVersions", "ec2",
       << Pages("DescribeLaunchTemplates", "keep"),
          Pages("DescribeLaunchTemplateVersions", "skip") >>) >>

EcrList ==
  << List("BatchGetImage", "ecr",
       << Pages("DescribeRepositories", "keep"), Pages("DescribeImages", "skip"),
          Batches("BatchGetImage", "skip") >>) >>

EmrList ==
  << List("DescribeStep", "emr",
       << Pages("ListClusters", "keep"), Pages("ListSteps", "skip"),
          Once("DescribeStep", "skip") >>) >>

GlueListA ==
  << List("GetConnection", "glue",
       << Pages("GetConnections", "keep"), Once("GetConnection", "skip") >>),
     List("GetWorkflowRunProperties", "glue",
       << Pages("ListWorkflows", "keep"), Pages("GetWorkflowRuns", "skip"),
          Once("GetWorkflowRunProperties", "skip") >>) >>

GlueListB ==
  << List("GetTable", "glue",
       << Pages("GetDatabases", "keep"), Pages("GetTables", "skip"), Once("GetTable", "skip") >>),
     List("GetSchemaVersion", "glue",
       << Pages("ListSchemas", "keep"), Pages("ListSchemaVersions", "skip"),
          Once("GetSchemaVersion", "skip") >>) >>

GuarddutyList ==
  << List("GetFindings", "guardduty",
       << Pages("ListDetectors", "keep"), All("ListFindings", "skip"),
          Batches("GetFindings", "skip") >>) >>

ImagebuilderListA ==
  << List("GetComponent", "imagebuilder",
       << Pages("ListComponents", "keep"), Pages("ListComponentBuildVersions", "skip"),
          Once("GetComponent", "skip") >>),
     List("GetImageRecipe", "imagebuilder",
       << Pages("ListImageRecipes", "keep"), Once("GetImageRecipe", "skip") >>) >>

ImagebuilderListB ==
  << List("GetContainerRecipe", "imagebuilder",
       << Pages("ListContainerRecipes", "keep"), Once("GetContainerRecipe", "skip") >>),
     List("GetWorkflow", "imagebuilder",
       << Pages("ListWorkflows", "keep"), Pages("ListWorkflowBuildVersions", "skip"),
          Once("GetWorkflow", "skip") >>) >>

LakeformationList ==
  << List("GetDataCellsFilter", "lakeformation",
       << Pages("ListDataCellsFilter", "keep"), Once("GetDataCellsFilter", "skip") >>) >>

LambdaList ==
  << List("GetLayerVersion", "lambda",
       << Pages("ListLayers", "keep"), Pages("ListLayerVersions", "skip"),
          Once("GetLayerVersion", "skip") >>) >>

MacieList ==
  << List("GetFindings", "macie",
       << All("ListFindings", "keep"), Batches("GetFindings", "skip") >>),
     List("GetCustomDataIdentifier", "macie",
       << Pages("ListCustomDataIdentifiers", "keep"), Once("GetCustomDataIdentifier", "skip") >>) >>

OrganizationsList ==
  << List("DescribePolicy", "organizations",
       << Each, Pages("ListPolicies", "skip"), Once("DescribePolicy", "skip") >>) >>

RdsList ==
  << List("DownloadDBLogFilePortion", "rds",
       << Pages("DescribeDBInstances", "keep"), Pages("DescribeDBLogFiles", "skip"),
          First("DownloadDBLogFilePortion", "skip") >>),
     List("DescribeDBParameters", "rds",
       << Pages("DescribeDBParameterGroups", "keep"), Pages("DescribeDBParameters", "skip") >>) >>

RolesanywhereList ==
  << List("GetProfile", "rolesanywhere",
       << Pages("ListProfiles", "keep"), Once("GetProfile", "skip") >>),
     Function("list", "ListTagsForResource", "rolesanywhere",
       Chain(<< Pages("ListTrustAnchors", "keep"), Once("ListTagsForResource", "skip") >>)
       \o Chain(<< Pages("ListProfiles", "keep"), Once("ListTagsForResource", "skip") >>)) >>

Route53List ==
  << List("GetHealthCheck", "route53",
       << Pages("ListHealthChecks", "keep"), Once("GetHealthCheck", "skip") >>) >>

SecurityhubList ==
  << List("GetFindings", "securityhub", << Pages("GetFindings", "keep") >>),
     List("BatchGetAutomationRules", "securityhub",
       << All("ListAutomationRules", "keep"), Batches("BatchGetAutomationRules", "skip") >>) >>

SnsList ==
  << List("GetPlatformApplicationAttributes", "sns",
       << Pages("ListPlatformApplications", "keep"),
          Once("GetPlatformApplicationAttributes", "skip") >>),
     List("GetEndpointAttributes", "sns",
       << Pages("ListPlatformApplications", "keep"), Pages("ListEndpointsByPlatformApplication", "skip"),
          Once("GetEndpointAttributes", "skip") >>) >>

SsmListA ==
  << List("GetDocument", "ssm", << Pages("ListDocuments", "keep"), Once("GetDocument", "skip") >>),
     List("GetCommandInvocation", "ssm",
       << Pages("ListCommandInvocations", "keep"), Once("GetCommandInvocation", "skip") >>),
     List("GetAutomationExecution", "ssm",
       << Pages("DescribeAutomationExecutions", "keep"), Once("GetAutomationExecution", "skip") >>) >>

SsmListB ==
  << List("DescribeAssociation", "ssm",
       << Pages("ListAssociations", "keep"), Once("DescribeAssociation", "skip") >>),
     List("GetMaintenanceWindowTask", "ssm",
       << Pages("DescribeMaintenanceWindows", "keep"), Pages("DescribeMaintenanceWindowTasks", "skip"),
          Once("GetMaintenanceWindowTask", "skip") >>),
     List("GetOpsItem", "ssm", << Pages("DescribeOpsItems", "keep"), Once("GetOpsItem", "skip") >>) >>

StepfunctionsList ==
  << List("DescribeExecution", "stepfunctions",
       << Pages("ListStateMachines", "keep"), Pages("ListExecutions", "skip"),
          Once("DescribeExecution", "skip") >>),
     List("GetExecutionHistory", "stepfunctions",
       << Pages("ListStateMachines", "keep"), Pages("ListExecutions", "skip"),
          Pages("GetExecutionHistory", "skip") >>) >>

VpcList ==
  << List("DescribeVpnConnections", "vpc", << Once("DescribeVpnConnections", "fail") >>),
     List("DescribeVpcEndpoints", "vpc", << Pages("DescribeVpcEndpoints", "keep") >>) >>

WafList ==
  << List("GetRegexPatternSet", "waf",
       << Pages("ListRegexPatternSets", "keep"), Once("GetRegexPatternSet", "skip") >>) >>

(* All of them. *)
ListProbes ==
  AccessanalyzerList \o ApigatewayList \o AppmeshList \o AutoscalingList
  \o CloudfrontList \o CloudwatchList \o CodecommitList \o CodedeployList
  \o CognitoList \o ConfigList \o ControltowerList \o DetectiveList
  \o DirectconnectList \o Ec2List \o EcrList \o EmrList \o GlueListA \o GlueListB
  \o GuarddutyList \o ImagebuilderListA \o ImagebuilderListB \o LakeformationList
  \o LambdaList \o MacieList \o OrganizationsList \o RdsList \o RolesanywhereList
  \o Route53List \o SecurityhubList \o SnsList \o SsmListA \o SsmListB
  \o StepfunctionsList \o VpcList \o WafList

=============================================================================
