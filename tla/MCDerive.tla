------------------------------ MODULE MCDerive ------------------------------
(***************************************************************************)
(* Instances of Derive: eight small estates over one table of nodes, which *)
(* accounts keep apart so that the takeovers of one do not reach into      *)
(* another.  Six of them come with every combination of two states and two *)
(* weights for their explicit edges.                                       *)
(***************************************************************************)
EXTENDS Derive

Estates == [
  user |-> <<"HumanIdentity", "aws">>, fn |-> <<"ServerlessFunction", "aws">>,
  role |-> <<"Role", "aws">>, role2 |-> <<"Role", "aws">>, secret |-> <<"Secret", "aws">>,
  service |-> <<"ServiceIdentity", "aws">>,
  sa1 |-> <<"ServiceAccount", "gcp">>, sa2 |-> <<"ServiceAccount", "gcp">>,
  project |-> <<"Project", "gcp">>, token |-> <<"Secret", "gcp">>,
  lb |-> <<"LoadBalancer", "net">>, vm |-> <<"VirtualMachine", "net">>,
  owner |-> <<"HumanIdentity", "tenant">>, tenant |-> <<"Tenant", "tenant">>,
  group |-> <<"ResourceGroup", "azure">>,
  subscription |-> <<"Subscription", "azure">>, vault |-> <<"Secret", "azure">>]

EstateTypes == [n \in DOMAIN Estates |-> Estates[n][1]]
EstateAccounts == [n \in DOMAIN Estates |-> Estates[n][2]]

(* A function a user can modify executes as a role the user may also       *)
(* assume; the role reads a secret.                                        *)
Lambda == {
  Id("CanModifyCode", "user", "fn", "fn"), Id("ExecutesAs", "fn", "role", ""),
  Id("CanAssume", "user", "role", "role"), Id("CanReadSecret", "role", "secret", "secret")}

(* Two service accounts that impersonate one another, of which one may     *)
(* rewrite the policy of the project.                                      *)
Impersonation == {
  Id("CanImpersonate", "sa1", "sa2", "sa2"), Id("CanImpersonate", "sa2", "sa1", "sa1"),
  Id("CanGrantPermission", "sa2", "project", "project")}

(* Hosts that reach one another, one of them from outside.                 *)
Network == {
  Id("CanNetworkReach", "lb", "vm", ""), Id("CanNetworkReach", "vm", "lb", ""),
  Id("ExposedToInternet", "user", "lb", "")}

(* A tenant administrator who may also be named on a vault's policy.       *)
Directory == {
  Id("CanControl", "owner", "tenant", ""), Id("CanModifyPolicy", "owner", "vault", "vault")}

(* Two roles lead to the same secret: ties, and lighter weaker paths.      *)
Diamond == {
  Id("CanAssume", "user", "role", "role"), Id("CanAssume", "user", "role2", "role2"),
  Id("CanReadSecret", "role", "secret", "secret"), Id("CanReadSecret", "role2", "secret", "secret")}

Explicit(ids) ==
  {[x \in ids |-> Edge("explicit", how[x][1], how[x][2], {})] :
     how \in [ids -> {"ACTIVE", "CONDITIONAL"} \X {2, 4}]}

(* A secret that can be read outright and through control of its policy,   *)
(* which may be the lighter way.                                           *)
Shortcut == {Id("CanReadSecret", "user", "secret", "secret"),
             Id("CanModifyPolicy", "user", "secret", "secret")}

(* A secret first reached by assuming one role, then, more lightly and     *)
(* some passes later, through control of it by another; it holds the       *)
(* credentials of a service identity.                                      *)
Rewritten == {
  Id("CanAssume", "user", "role", "role"), Id("CanReadSecret", "role", "secret", "secret"),
  Id("CanAssume", "user", "role2", "role2"), Id("CanModifyPolicy", "role2", "secret", "secret"),
  Id("CredentialsFor", "secret", "service", "")}

Weighed(ids) ==
  {[x \in ids |-> Edge("explicit", "ACTIVE", weight[x], {})] : weight \in [ids -> {2, 4}]}

ExplicitInputs ==
  Weighed(Rewritten) \cup
  UNION {Explicit(w) : w \in {Lambda, Impersonation, Network, Directory, Diamond, Shortcut}}

(* The Azure evaluator on one role assignment, conditional or not, at a    *)
(* resource group with a vault in it: its holder may grant roles on the    *)
(* group and rewrite the vault's policy, and so, by an edge that is        *)
(* derived already, controls the vault (container takeover).               *)
OnGroup == Id("CanGrantPermission", "owner", "group", "group")
OnPolicy == Id("CanModifyPolicy", "owner", "vault", "vault")
OnVault == Id("CanControl", "owner", "vault", "vault")

ResourceGroup ==
  {[x \in {OnGroup, OnPolicy, OnVault} |->
      CASE x = OnGroup -> Edge("explicit", s, 4, {})
        [] x = OnPolicy -> Edge("explicit", s, 2, {})
        [] x = OnVault -> Edge("derived", "ACTIVE", 4, {})] : s \in {"ACTIVE", "CONDITIONAL"}}

AllInputs == ExplicitInputs \cup ResourceGroup
=============================================================================
