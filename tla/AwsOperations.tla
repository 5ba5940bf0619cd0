--------------------------- MODULE AwsOperations ----------------------------
(***************************************************************************)
(* The operations of the inventory (operations.go and the files it is      *)
(* extended by): each lists the resources of one type in one region.  The  *)
(* scheduler calls them by their names, which the files of the providers'  *)
(* manifest give.                                                          *)
(***************************************************************************)
EXTENDS Fetcher

IamUsers == <<Operation("iam:ListUsers", <<First("ListUsers", "fail")>>)>>
S3Buckets == <<Operation("s3:ListBuckets", <<Once("ListBuckets", "fail")>>)>>
LambdaFunctions ==
  Lists("lambda:ListFunctions", "ListFunctions")
  \o << Operation("lambda:GetFunction", <<Once("GetFunction", "fail")>>) >>

CodeBuildProjects ==
  Lists("codebuild:ListProjects", "ListProjects")
  \o << Operation("codebuild:BatchGetProjects", <<Once("BatchGetProjects", "fail")>>) >>

Secrets == Lists("secretsmanager:ListSecrets", "ListSecrets")
(* Whatever the URL answers is stored under its hash and is the result.    *)
Blob == <<Operation("http:GetBlob", <<Once("GetBlob", "take")>>)>>
AccessanalyzerOps == Lists("access-analyzer:ListAnalyzers", "ListAnalyzers")
AccountOps == Lists("account:ListRegions", "ListRegions")
AcmOps == Lists("acm:ListCertificates", "ListCertificates")
AcmpcaOps == Lists("acm-pca:ListCertificateAuthorities", "ListCertificateAuthorities")
AmplifyOps == Lists("amplify:ListApps", "ListApps")
ApigatewayOps == Lists("apigateway:GET", "GetRestApis")
AppflowOps == Lists("appflow:ListFlows", "ListFlows")
AppmeshOps == Lists("appmesh:ListMeshes", "ListMeshes")
ApprunnerOps == Lists("apprunner:ListServices", "ListServices")
AthenaOps == Lists("athena:ListWorkGroups", "ListWorkGroups")
AutoscalingOps == Lists("autoscaling:DescribeAutoScalingGroups", "DescribeAutoScalingGroups")
BackupOps == Lists("backup:ListBackupVaults", "ListBackupVaults")
BatchOps == Lists("batch:DescribeJobQueues", "DescribeJobQueues")
BeanstalkOps ==
  << Operation("beanstalk:DescribeEnvironments", << Once("DescribeEnvironments", "fail") >>) >>

BedrockOps == Lists("bedrock:ListCustomModels", "ListCustomModels")
CloudformationOps == Lists("cloudformation:DescribeStacks", "DescribeStacks")
CloudfrontOps == Lists("cloudfront:ListDistributions", "ListDistributions")
CloudhsmOps == Lists("cloudhsm:DescribeClusters", "DescribeClusters")
CloudtrailOps ==
  << Operation("cloudtrail:DescribeTrails", << Once("DescribeTrails", "fail") >>) >>

CloudwatchOps == Lists("cloudwatch:DescribeLogGroups", "DescribeLogGroups")
CodeartifactOps == Lists("codeartifact:ListRepositories", "ListRepositories")
CodecommitOps == Lists("codecommit:ListRepositories", "ListRepositories")
CodedeployOps == Lists("codedeploy:ListApplications", "ListApplications")
CodepipelineOps == Lists("codepipeline:ListPipelines", "ListPipelines")
CognitoOps == Lists("cognito:ListUserPools", "ListUserPools")
ConfigOps == Lists("config:DescribeConfigRules", "DescribeConfigRules")
ControltowerOps == Lists("controltower:ListLandingZones", "ListLandingZones")
DatapipelineOps == Lists("datapipeline:ListPipelines", "ListPipelines")
DetectiveOps == Lists("detective:ListGraphs", "ListGraphs")
DirectconnectOps == Lists("directconnect:DescribeConnections", "DescribeConnections")
DocumentdbOps == Lists("documentdb:DescribeDBClusters", "DescribeDBClusters")
DsOps == Lists("ds:DescribeDirectories", "DescribeDirectories")
DynamodbOps == Lists("dynamodb:ListTables", "ListTables")
EbsOps == Lists("ebs:DescribeSnapshots", "DescribeSnapshots")
Ec2Ops == Lists("ec2:DescribeInstances", "DescribeInstances")
EcrOps == Lists("ecr:DescribeRepositories", "DescribeRepositories")
EcsOps == Lists("ecs:ListClusters", "ListClusters")
EfsOps == Lists("elasticfilesystem:DescribeFileSystems", "DescribeFileSystems")
EksOps == Lists("eks:ListClusters", "ListClusters")
ElasticacheOps == Lists("elasticache:DescribeCacheClusters", "DescribeCacheClusters")
ElbOps == Lists("elasticloadbalancing:DescribeLoadBalancers", "DescribeLoadBalancers")
EmrOps == Lists("elasticmapreduce:ListClusters", "ListClusters")
EventbridgeOps ==
  << Operation("eventbridge:ListEventBuses", << First("ListEventBuses", "fail") >>) >>

FirewallmanagerOps == Lists("firewallmanager:ListPolicies", "ListPolicies")
FsxOps == Lists("fsx:DescribeFileSystems", "DescribeFileSystems")
GlobalacceleratorOps == Lists("globalaccelerator:ListAccelerators", "ListAccelerators")
GlueOps == Lists("glue:GetJobs", "GetJobs")
GuarddutyOps == Lists("guardduty:ListDetectors", "ListDetectors")
ImagebuilderOps == Lists("imagebuilder:ListImagePipelines", "ListImagePipelines")
InspectorOps == Lists("inspector:ListFindings", "ListFindings")
KeyspacesOps == Lists("cassandra:Select", "ListKeyspaces")
KinesisOps == Lists("kinesis:ListStreams", "ListStreams")
KmsOps ==
  << Function("operation", "kms:ListKeys", "-",
       << Lookup(Pages("ListAliases", "skip")),
          Also(Pages("ListKeys", "fail"), << Lookup(Once("DescribeKey", "skip")) >>) >>) >>

LakeformationOps == Lists("lakeformation:ListResources", "ListResources")
LightsailOps == << Operation("lightsail:GetInstances", << First("GetInstances", "fail") >>) >>
MacieOps == Lists("macie:ListClassificationJobs", "ListClassificationJobs")
MemorydbOps == Lists("memorydb:DescribeClusters", "DescribeClusters")
MqOps == Lists("mq:ListBrokers", "ListBrokers")
MskOps == Lists("msk:ListClustersV2", "ListClustersV2")
NeptuneOps == Lists("neptune:DescribeDBClusters", "DescribeDBClusters")
NetworkfirewallOps == Lists("network-firewall:ListFirewalls", "ListFirewalls")
OpensearchOps == << Operation("es:ListDomainNames", << Once("ListDomainNames", "fail") >>) >>
OpsworksOps == << Operation("opsworks:DescribeStacks", << Once("DescribeStacks", "fail") >>) >>
OrganizationsOps == Lists("organizations:ListAccounts", "ListAccounts")
QldbOps == Lists("qldb:ListLedgers", "ListLedgers")
QuicksightOps ==
  << Operation("quicksight:ListDashboards",
       << Once("CallerIdentity", "fail"), Pages("ListDashboards", "fail") >>) >>

RamOps == Lists("ram:GetResourceShares", "GetResourceShares")
RdsOps == Lists("rds:DescribeDBInstances", "DescribeDBInstances")
RedshiftOps == Lists("redshift:DescribeClusters", "DescribeClusters")
RolesanywhereOps == Lists("rolesanywhere:ListTrustAnchors", "ListTrustAnchors")
Route53Ops == Lists("route53:ListHostedZones", "ListHostedZones")
SagemakerOps == Lists("sagemaker:ListNotebookInstances", "ListNotebookInstances")
SecurityhubOps == Lists("securityhub:GetEnabledStandards", "GetEnabledStandards")
ServicecatalogOps == Lists("servicecatalog:ListPortfolios", "ListPortfolios")
SnsOps == Lists("sns:ListTopics", "ListTopics")
SqsOps == Lists("sqs:ListQueues", "ListQueues")
SsmParamsOps == Lists("ssm:DescribeParameters", "DescribeParameters")
SsmOps == Lists("ssm:DescribeInstanceInformation", "DescribeInstanceInformation")
SsoOps == Lists("sso:ListInstances", "ListInstances")
StepfunctionsOps == Lists("states:ListStateMachines", "ListStateMachines")
TgwOps == Lists("ec2:DescribeTransitGateways", "DescribeTransitGateways")
TimestreamOps == Lists("timestream:ListDatabases", "ListDatabases")
VpcOps == Lists("vpc:DescribeVpcs", "DescribeVpcs")
VpclatticeOps == Lists("vpc-lattice:ListServiceNetworks", "ListServiceNetworks")
WafOps == Lists("waf:ListWebACLs", "ListWebACLs")

(* All of them. *)
Operations ==
  IamUsers \o S3Buckets \o LambdaFunctions \o CodeBuildProjects \o Secrets \o Blob
  \o AccessanalyzerOps \o AccountOps \o AcmOps \o AcmpcaOps \o AmplifyOps
  \o ApigatewayOps \o AppflowOps \o AppmeshOps \o ApprunnerOps \o AthenaOps
  \o AutoscalingOps \o BackupOps \o BatchOps \o BeanstalkOps \o BedrockOps
  \o CloudformationOps \o CloudfrontOps \o CloudhsmOps \o CloudtrailOps
  \o CloudwatchOps \o CodeartifactOps \o CodecommitOps \o CodedeployOps
  \o CodepipelineOps \o CognitoOps \o ConfigOps \o ControltowerOps \o DatapipelineOps
  \o DetectiveOps \o DirectconnectOps \o DocumentdbOps \o DsOps \o DynamodbOps
  \o EbsOps \o Ec2Ops \o EcrOps \o EcsOps \o EfsOps \o EksOps \o ElasticacheOps
  \o ElbOps \o EmrOps \o EventbridgeOps \o FirewallmanagerOps \o FsxOps
  \o GlobalacceleratorOps \o GlueOps \o GuarddutyOps \o ImagebuilderOps
  \o InspectorOps \o KeyspacesOps \o KinesisOps \o KmsOps \o LakeformationOps
  \o LightsailOps \o MacieOps \o MemorydbOps \o MqOps \o MskOps \o NeptuneOps
  \o NetworkfirewallOps \o OpensearchOps \o OpsworksOps \o OrganizationsOps
  \o QldbOps \o QuicksightOps \o RamOps \o RdsOps \o RedshiftOps \o RolesanywhereOps
  \o Route53Ops \o SagemakerOps \o SecurityhubOps \o ServicecatalogOps \o SnsOps
  \o SqsOps \o SsmParamsOps \o SsmOps \o SsoOps \o StepfunctionsOps \o TgwOps
  \o TimestreamOps \o VpcOps \o VpclatticeOps \o WafOps

=============================================================================
