--------------------------- MODULE AwsItemProbes ----------------------------
(***************************************************************************)
(* The probes of collected items (registerFetcher): for one item of the    *)
(* inventory, one call or a short chain of calls whose answer is searched  *)
(* for secrets.  One definition per file, in the order of the files, which *)
(* is the order of registration.                                           *)
(***************************************************************************)
EXTENDS Fetcher

AccessanalyzerProbes == Reads("aws:accessanalyzer:analyzer", <<"ListTagsForResource">>)
AccountProbes ==
  Reads("aws:account:region", <<"GetContactInformation">>)
  \o << Item("GetAlternateContact", "aws:account:region", << Each, Once("GetAlternateContact", "skip") >>) >>

AccountExt == Reads("aws:account:region", <<"GetPrimaryEmail">>)
AcmProbes == Reads("aws:acm:certificate", <<"DescribeCertificate", "ListTagsForCertificate">>)
AcmpcaProbes ==
  Reads("aws:acmpca:certificate-authority", <<"GetCertificateAuthorityCsr">>)
  \o Samples("aws:acmpca:certificate-authority", <<"ListTags">>)

AmplifyProbes == Reads("aws:amplify:app", <<"GetApp">>)
AmplifyExt ==
  << Item("GetBranch", "aws:amplify:app",
       << All("ListBranches", "fail"), Once("GetBranch", "skip") >>),
     Item("GetWebhook", "aws:amplify:app",
       << All("ListWebhooks", "fail"), Once("GetWebhook", "skip") >>) >>

ApigatewayProbes == Reads("aws:apigateway:rest-api", <<"GetTags">>)
ApigatewayExt ==
  << Item("GetStage", "aws:apigateway:rest-api",
       << Once("GetStages", "fail"), Once("GetStage", "skip") >>) >>

AppflowProbes == Reads("aws:appflow:flow", <<"DescribeFlow", "ListTagsForResource">>)
AppmeshProbes == Samples("aws:appmesh:mesh", <<"ListTagsForResource">>)
ApprunnerProbes == Reads("aws:apprunner:service", <<"DescribeService", "ListTagsForResource">>)
AthenaProbes == Samples("aws:athena:workgroup", <<"ListTagsForResource">>)
AthenaExtA ==
  << Item("GetQueryExecution", "aws:athena:workgroup",
       << All("ListQueryExecutions", "fail"), Once("GetQueryExecution", "skip") >>),
     Item("GetQueryResults", "aws:athena:workgroup",
       << All("ListQueryExecutions", "fail"), First("GetQueryResults", "skip") >>),
     Item("GetNamedQuery", "aws:athena:workgroup",
       << All("ListNamedQueries", "fail"), Once("GetNamedQuery", "skip") >>) >>

AthenaExtB ==
  << Item("GetPreparedStatement", "aws:athena:workgroup",
       << All("ListPreparedStatements", "fail"), Once("GetPreparedStatement", "skip") >>),
     Item("ExportNotebook", "aws:athena:workgroup",
       << All("ListNotebookMetadata", "fail"), Once("ExportNotebook", "skip") >>) >>

AutoscalingProbes ==
  Reads("aws:autoscaling:auto-scaling-group",
    <<"DescribeAutoScalingGroups", "DescribeLifecycleHooks">>)

BackupProbes ==
  Reads("aws:backup:vault", <<"GetBackupVaultAccessPolicy">>)
  \o Samples("aws:backup:vault", <<"ListTags">>)

BackupExt ==
  << Item("GetRecoveryPointRestoreMetadata", "aws:backup:vault",
       << All("ListRecoveryPointsByBackupVault", "fail"),
          Once("GetRecoveryPointRestoreMetadata", "skip") >>) >>

BatchProbes == Reads("aws:batch:job-queue", <<"ListTagsForResource">>)
BatchExt ==
  << Item("DescribeJobDefinitions", "aws:batch:job-queue",
       << Pages("DescribeJobDefinitions", "fail") >>),
     Function("item", "DescribeJobs", "aws:batch:job-queue",
       Chain(<< Each, Lookup(Pages("ListJobs", "skip")) >>)
       \o Chain(<< Found, Batches("DescribeJobs", "fail") >>)) >>

BeanstalkProbes == Reads("aws:beanstalk:environment", <<"ListTagsForResource">>)
BeanstalkExt ==
  << Function("item", "DescribeConfigurationSettings", "aws:beanstalk:environment",
       << Under(Once("DescribeEnvironments", "fail"),
            << Once("DescribeConfigurationSettings", "fail"),
               Under(Once("DescribeApplications", "skip"),
                 << Once("DescribeConfigurationSettings", "skip") >>) >>) >>) >>

BedrockProbes == Reads("aws:bedrock:custom_model", <<"ListTagsForResource">>)
BedrockExt ==
  Reads("aws:bedrock:custom_model",
    <<"GetCustomModel", "GetModelInvocationLoggingConfiguration", "GetResourcePolicy">>)

CloudformationProbes ==
  Reads("aws:cloudformation:stack", <<"DescribeStacks", "GetTemplate">>)
  \o Samples("aws:cloudformation:stack", <<"DescribeStackEvents">>)

CloudfrontProbes ==
  Reads("aws:cloudfront:distribution", <<"GetDistributionConfig", "ListTagsForResource">>)

CloudhsmProbes == Samples("aws:cloudhsm:cluster", <<"ListTags">>)
CloudtrailProbes == Samples("aws:cloudtrail:trail", <<"ListTags">>)
CloudwatchProbes ==
  Samples("aws:cloudwatch:log_group", <<"FilterLogEvents", "DescribeQueries">>)
  \o Reads("aws:cloudwatch:log_group", <<"ListTagsForResource">>)

CodeartifactProbes == Reads("aws:codeartifact:repository", <<"ListTagsForResource">>)
CodebuildProbes == Reads("aws:codebuild:project", <<"BatchGetProjects">>)
CodebuildExt ==
  << Item("BatchGetBuilds", "aws:codebuild:project",
       << All("ListBuildsForProject", "fail"), Batches("BatchGetBuilds", "fail") >>) >>
  \o Reads("aws:codebuild:project", <<"GetResourcePolicy", "ListSourceCredentials">>)

CodecommitProbes == Samples("aws:codecommit:repository", <<"ListTagsForResource">>)
CodedeployProbes == Samples("aws:codedeploy:application", <<"ListTagsForResource">>)
CodepipelineProbes ==
  Reads("aws:codepipeline:pipeline", <<"GetPipeline">>)
  \o Samples("aws:codepipeline:pipeline", <<"ListActionExecutions", "ListTagsForResource">>)

CognitoProbes ==
  Samples("aws:cognito:user_pool", <<"ListUsers">>)
  \o Reads("aws:cognito:user_pool", <<"ListTagsForResource">>)

ConfigProbes ==
  Reads("aws:config:config-rule", <<"DescribeConfigRules">>)
  \o Samples("aws:config:config-rule",
    <<"DescribeRemediationConfigurations", "ListTagsForResource">>)

ControltowerProbes ==
  Reads("aws:controltower:landing_zone", <<"GetLandingZone", "ListTagsForResource">>)

DatapipelineProbes ==
  Reads("aws:datapipeline:pipeline", <<"GetPipelineDefinition", "DescribePipelines">>)

DetectiveProbes == Reads("aws:detective:graph", <<"ListTagsForResource">>)
DirectconnectProbes == Reads("aws:directconnect:connection", <<"DescribeTags">>)
DirectconnectExt ==
  << Item("DescribeVirtualInterfaces", "aws:directconnect:connection",
       << Pages("DescribeVirtualInterfaces", "fail") >>) >>

DocumentdbProbes == Reads("aws:documentdb:db_cluster", <<"ListTagsForResource">>)
DocumentdbExt ==
  << Item("DescribeDBClusterParameters", "aws:documentdb:db_cluster",
       << Once("DescribeDBClusters", "fail"), Pages("DescribeDBClusterParameters", "fail") >>) >>

DsProbes == Samples("aws:ds:directory", <<"ListTagsForResource">>)
DynamodbProbes ==
  Samples("aws:dynamodb:table", <<"Scan">>)
  \o Reads("aws:dynamodb:table", <<"GetResourcePolicy">>)
  \o Samples("aws:dynamodb:table", <<"ListTagsOfResource">>)

EbsProbes == Reads("aws:ebs:snapshot", <<"DescribeSnapshots">>)
Ec2Probes ==
  Reads("aws:ec2:instance", <<"DescribeInstanceAttribute", "GetConsoleOutput", "GetPasswordData">>)
  \o Samples("aws:ec2:instance", <<"DescribeTags">>)

EcrProbes == Reads("aws:ecr:repository", <<"GetRepositoryPolicy", "ListTagsForResource">>)
EcsProbes == Reads("aws:ecs:cluster", <<"ListTagsForResource">>)
EcsExt ==
  Reads("aws:ecs:task_definition", <<"DescribeTaskDefinition">>)
  \o Reads("aws:ecs:task", <<"DescribeTasks">>)

EfsProbes == Samples("aws:efs:filesystem", <<"ListTagsForResource">>)
EksProbes == Reads("aws:eks:cluster", <<"DescribeCluster">>)
EksExt ==
  << Item("DescribeAddon", "aws:eks:cluster",
       << All("ListAddons", "fail"), Once("DescribeAddon", "skip") >>) >>

ElasticacheProbes == Reads("aws:elasticache:cache_cluster", <<"ListTagsForResource">>)
ElbProbes == Reads("aws:elb:load_balancer", <<"DescribeTags">>)
ElbExt ==
  << Item("DescribeRules", "aws:elb:load_balancer",
       << All("DescribeListeners", "fail"), Pages("DescribeRules", "skip") >>) >>

EmrProbes ==
  Reads("aws:emr:cluster", <<"DescribeCluster">>)
  \o Samples("aws:emr:cluster", <<"ListBootstrapActions">>)

EventbridgeProbes == Reads("aws:eventbridge:event_bus", <<"ListTagsForResource">>)
EventbridgeExt ==
  << Item("ListTargetsByRule", "aws:eventbridge:event_bus",
       << All("ListRules", "fail"), First("ListTargetsByRule", "skip") >>),
     Item("DescribeRule", "aws:eventbridge:event_bus",
       << All("ListRules", "fail"), Once("DescribeRule", "skip") >>) >>

FirewallmanagerProbes ==
  Reads("aws:firewallmanager:policy", <<"GetPolicy", "ListTagsForResource">>)

FsxProbes == Samples("aws:fsx:file_system", <<"ListTagsForResource">>)
GlobalacceleratorProbes == Reads("aws:globalaccelerator:accelerator", <<"ListTagsForResource">>)
GlueProbes == Reads("aws:glue:job", <<"GetJob", "GetTags">>)
GuarddutyProbes == Reads("aws:guardduty:detector", <<"ListTagsForResource">>)
IamProbes == Samples("aws:iam:user", <<"ListUserTags">>)
IamExt == Samples("aws:iam:role", <<"ListRoleTags">>)
ImagebuilderProbes == Reads("aws:imagebuilder:image_pipeline", <<"ListTagsForResource">>)
InspectorProbes ==
  Samples("aws:inspector:finding", <<"ListFindings">>)
  \o Reads("aws:inspector:finding", <<"ListTagsForResource">>)

KinesisProbes == Samples("aws:kinesis:stream", <<"ListTagsForStream">>)
KmsProbes ==
  Reads("aws:kms:key", <<"DescribeKey">>) \o Samples("aws:kms:key", <<"ListResourceTags">>)

LakeformationProbes ==
  Samples("aws:lakeformation:resource", <<"ListLFTags">>)
  \o Reads("aws:lakeformation:resource", <<"GetDataLakeSettings">>)

LambdaProbes ==
  Reads("aws:lambda:function", <<"GetFunctionConfiguration", "GetFunction", "ListTags">>)

LightsailProbes == Reads("aws:lightsail:instance", <<"GetInstance">>)
LightsailExt ==
  Reads("aws:lightsail:container_service",
    <<"GetContainerServiceDeployments", "GetContainerServices">>)
  \o Reads("aws:lightsail:relational_database", <<"GetRelationalDatabaseMasterUserPassword">>)

MacieProbes == Reads("aws:macie:classification-job", <<"ListTagsForResource">>)
MemorydbProbes == Reads("aws:memorydb:cluster", <<"ListTags">>)
MqProbes == Reads("aws:mq:broker", <<"ListTags">>)
MqExt ==
  << Item("DescribeConfigurationRevision", "aws:mq:broker",
       << Once("DescribeBroker", "fail"), Once("DescribeConfigurationRevision", "fail") >>) >>

MskProbes == Reads("aws:msk:cluster", <<"ListTagsForResource">>)
MskExt ==
  << Item("DescribeConfigurationRevision", "aws:msk:cluster",
       << Once("DescribeClusterV2", "fail"), Once("DescribeConfigurationRevision", "fail") >>) >>

NeptuneProbes == Reads("aws:neptune:db_cluster", <<"ListTagsForResource">>)
NetworkfirewallProbes == Samples("aws:networkfirewall:firewall", <<"ListTagsForResource">>)
NetworkfirewallExt ==
  << Item("DescribeRuleGroup", "aws:networkfirewall:firewall",
       << All("ListRuleGroups", "fail"), Once("DescribeRuleGroup", "skip") >>) >>

OpensearchProbes == Reads("aws:opensearch:domain", <<"DescribeDomainConfig", "ListTags">>)
OpsworksProbes ==
  Reads("aws:opsworks:stack", <<"DescribeStacks", "DescribeRdsDbInstances", "ListTags">>)

OpsworksExt == Reads("aws:opsworks:stack", <<"DescribeApps", "DescribeDeployments">>)
OrganizationsProbes ==
  Reads("aws:organizations:account", <<"DescribeAccount">>)
  \o Samples("aws:organizations:account", <<"ListTagsForResource">>)

QldbProbes == Reads("aws:qldb:ledger", <<"ListTagsForResource">>)
QuicksightProbes ==
  << Item("DescribeDashboardDefinition", "aws:quicksight:dashboard",
       << Once("CallerIdentity", "fail"), Once("DescribeDashboardDefinition", "fail") >>) >>
  \o Reads("aws:quicksight:dashboard", <<"ListTagsForResource">>)

QuicksightExt ==
  << Item("DescribeDataSet", "aws:quicksight:dataset",
       << Once("CallerIdentity", "fail"), Once("DescribeDataSet", "fail") >>),
     Item("DescribeAnalysisDefinition", "aws:quicksight:analysis",
       << Once("CallerIdentity", "fail"), Once("DescribeAnalysisDefinition", "fail") >>) >>

RamProbes == Reads("aws:ram:resource_share", <<"GetResourceShares">>)
RamExt ==
  << Item("GetPermission", "aws:ram:resource_share",
       << First("ListResourceSharePermissions", "fail"), Once("GetPermission", "skip") >>) >>

RdsProbes == Reads("aws:rds:db_instance", <<"ListTagsForResource">>)
RedshiftProbes == Samples("aws:redshift:cluster", <<"DescribeTags">>)
RedshiftExt ==
  << Item("DescribeClusterParameters", "aws:redshift:cluster",
       << Once("DescribeClusters", "fail"), Pages("DescribeClusterParameters", "skip") >>) >>
  \o Reads("aws:redshift:cluster", <<"DescribeLoggingStatus", "GetResourcePolicy">>)

RolesanywhereProbes == Reads("aws:rolesanywhere:trust-anchor", <<"ListTagsForResource">>)
Route53Probes == Samples("aws:route53:hosted_zone", <<"ListResourceRecordSets">>)
Route53Ext ==
  Reads("aws:route53:hosted_zone", <<"ListTagsForResource", "GetHostedZone", "GetDNSSEC">>)
  \o Samples("aws:route53:hosted_zone",
    <<"ListQueryLoggingConfigs", "ListVPCAssociationAuthorizations",
      "ListTrafficPolicyInstancesByHostedZone">>)

S3Probes == Reads("aws:s3:bucket", <<"GetBucketPolicy", "GetBucketTagging", "GetBucketWebsite">>)
SagemakerProbes == Samples("aws:sagemaker:notebook-instance", <<"ListTags">>)
SagemakerExt ==
  Reads("aws:sagemaker:notebook-lifecycle-config",
    <<"DescribeNotebookInstanceLifecycleConfig">>)
  \o Reads("aws:sagemaker:studio-lifecycle-config", <<"DescribeStudioLifecycleConfig">>)
  \o Reads("aws:sagemaker:model", <<"DescribeModel">>)
  \o Reads("aws:sagemaker:training-job", <<"DescribeTrainingJob">>)
  \o Reads("aws:sagemaker:processing-job", <<"DescribeProcessingJob">>)
  \o Reads("aws:sagemaker:transform-job", <<"DescribeTransformJob">>)
  \o Reads("aws:sagemaker:pipeline", <<"DescribePipeline">>)

SecretsmanagerProbes ==
  << Item("GetSecretValue", "aws:secretsmanager:secret", << Once("GetSecretValue", "fail") >>) >>

SecretsmanagerExt ==
  Reads("aws:secretsmanager:secret",
    <<"BatchGetSecretValue", "GetResourcePolicy", "DescribeSecret">>)

SecurityhubProbes == Reads("aws:securityhub:standard", <<"ListTagsForResource">>)
ServicecatalogProbes == Samples("aws:servicecatalog:portfolio", <<"ListTagOptions">>)
ServicecatalogExt ==
  << Item("DescribeRecord", "aws:servicecatalog:portfolio",
       << All("ListRecordHistory", "fail"), Once("DescribeRecord", "skip") >>) >>

SnsProbes ==
  Samples("aws:sns:topic", <<"ListSubscriptionsByTopic">>)
  \o Reads("aws:sns:topic", <<"ListTagsForResource">>)

SqsProbes == Reads("aws:sqs:queue", <<"ReceiveMessage", "GetQueueAttributes", "ListQueueTags">>)
SsmParamsProbes ==
  Reads("aws:ssm-params:parameter", <<"GetParameter">>)
  \o Samples("aws:ssm-params:parameter", <<"GetParameterHistory">>)
  \o Reads("aws:ssm-params:parameter", <<"DescribeParameters">>)

SsmProbes == Reads("aws:ssm:managed-instance", <<"ListTagsForResource">>)
SsmExt == Samples("aws:ssm:managed-instance", <<"ListCommands">>)
SsoProbes == Samples("aws:sso:instance", <<"ListTagsForResource">>)
SsoExt ==
  << Item("GetInlinePolicyForPermissionSet", "aws:sso:instance",
       << All("ListPermissionSets", "fail"), Once("GetInlinePolicyForPermissionSet", "skip") >>) >>

StepfunctionsProbes ==
  Reads("aws:stepfunctions:state_machine", <<"DescribeStateMachine", "ListTagsForResource">>)

TgwProbes == Samples("aws:tgw:transit-gateway", <<"DescribeTags">>)
TimestreamProbes == Reads("aws:timestream:database", <<"ListTagsForResource">>)
VpclatticeProbes ==
  Reads("aws:vpclattice:service-network", <<"GetAuthPolicy", "ListTagsForResource">>)

WafProbes ==
  Reads("aws:waf:web_acl", <<"GetWebACL">>)
  \o Samples("aws:waf:web_acl", <<"ListTagsForResource">>)


(* The registrations, in order: of two under one key the later counts. *)
ItemProbes ==
  AccessanalyzerProbes \o AccountProbes \o AccountExt \o AcmProbes \o AcmpcaProbes
  \o AmplifyProbes \o AmplifyExt \o ApigatewayProbes \o ApigatewayExt
  \o AppflowProbes \o AppmeshProbes \o ApprunnerProbes \o AthenaProbes \o AthenaExtA
  \o AthenaExtB \o AutoscalingProbes \o BackupProbes \o BackupExt \o BatchProbes
  \o BatchExt \o BeanstalkProbes \o BeanstalkExt \o BedrockProbes \o BedrockExt
  \o CloudformationProbes \o CloudfrontProbes \o CloudhsmProbes \o CloudtrailProbes
  \o CloudwatchProbes \o CodeartifactProbes \o CodebuildProbes \o CodebuildExt
  \o CodecommitProbes \o CodedeployProbes \o CodepipelineProbes \o CognitoProbes
  \o ConfigProbes \o ControltowerProbes \o DatapipelineProbes \o DetectiveProbes
  \o DirectconnectProbes \o DirectconnectExt \o DocumentdbProbes \o DocumentdbExt
  \o DsProbes \o DynamodbProbes \o EbsProbes \o Ec2Probes \o EcrProbes \o EcsProbes
  \o EcsExt \o EfsProbes \o EksProbes \o EksExt \o ElasticacheProbes \o ElbProbes
  \o ElbExt \o EmrProbes \o EventbridgeProbes \o EventbridgeExt
  \o FirewallmanagerProbes \o FsxProbes \o GlobalacceleratorProbes \o GlueProbes
  \o GuarddutyProbes \o IamProbes \o IamExt \o ImagebuilderProbes \o InspectorProbes
  \o KinesisProbes \o KmsProbes \o LakeformationProbes \o LambdaProbes
  \o LightsailProbes \o LightsailExt \o MacieProbes \o MemorydbProbes \o MqProbes
  \o MqExt \o MskProbes \o MskExt \o NeptuneProbes \o NetworkfirewallProbes
  \o NetworkfirewallExt \o OpensearchProbes \o OpsworksProbes \o OpsworksExt
  \o OrganizationsProbes \o QldbProbes \o QuicksightProbes \o QuicksightExt
  \o RamProbes \o RamExt \o RdsProbes \o RedshiftProbes \o RedshiftExt
  \o RolesanywhereProbes \o Route53Probes \o Route53Ext \o S3Probes
  \o SagemakerProbes \o SagemakerExt \o SecretsmanagerProbes \o SecretsmanagerExt
  \o SecurityhubProbes \o ServicecatalogProbes \o ServicecatalogExt \o SnsProbes
  \o SqsProbes \o SsmParamsProbes \o SsmProbes \o SsmExt \o SsoProbes \o SsoExt
  \o StepfunctionsProbes \o TgwProbes \o TimestreamProbes \o VpclatticeProbes
  \o WafProbes

=============================================================================
