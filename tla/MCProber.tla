------------------------------ MODULE MCProber ------------------------------
(* Instances of Prober: a few sites of each kind the catalog has.          *)
EXTENDS Prober

Site(id, service, mode, operation) ==
  [id |-> id, service |-> service, mode |-> mode, operation |-> operation]

Fetches(operation, service, listing) ==
  [operation |-> operation, service |-> service, listing |-> listing]

(* Three sites that read one response of a stack, one that lists its own   *)
(* targets in two regions, one without items, and two of one id            *)
(* (azure-storage-account-keys is in the Azure catalog twice): an unknown  *)
(* call and a surface.                                                     *)
MixedCatalog == <<
  Site("stack-parameters", "cloudformation", "read_api", "DescribeStacks"),
  Site("stack-outputs", "cloudformation", "read_api", "DescribeStacks"),
  Site("stack-tags", "cloudformation", "read_api", "DescribeStacks"),
  Site("findings", "guardduty", "read_api", "GetFindings"),
  Site("db-tags", "neptune", "read_api", "ListTagsForResource"),
  Site("account-keys", "storage", "read_api", "listKeys"),
  Site("account-keys", "storage", "write_only_input", "List Keys") >>

MixedRegistered == <<
  Fetches("DescribeStacks", "cloudformation", FALSE),
  Fetches("ListTagsForResource", "neptune", FALSE),
  Fetches("GetFindings", "guardduty", TRUE) >>

MixedInventory == [cloudformation |-> <<"prod">>, neptune |-> <<>>,
                   guardduty |-> <<>>, storage |-> <<>>]

(* probe_eks.go and probe_emr.go register one operation, in this order;    *)
(* the account has a cluster of the first kind only.                       *)
ClusterCatalog == <<
  Site("eks-cluster-tags", "eks", "read_api", "DescribeCluster"),
  Site("emr-cluster-configuration", "emr", "read_api", "DescribeCluster") >>

ClusterRegistered == <<
  Fetches("DescribeCluster", "eks", FALSE), Fetches("DescribeCluster", "emr", FALSE) >>

ClusterInventory == [eks |-> <<"prod">>, emr |-> <<>>]

TwoRegions == <<"us-east-1", "eu-west-1">>
=============================================================================
