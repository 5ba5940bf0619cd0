--------------------------- MODULE MCAwsEvaluator ---------------------------
(***************************************************************************)
(* An instance of AwsEvaluator: a user and a role of one account, a role   *)
(* of another, and of the first account's a secret, a key and a bucket,    *)
(* with policies of every kind to choose from.                             *)
(***************************************************************************)
EXTENDS AwsEvaluator, Sequences

Node(type, service) == [type |-> type, service |-> service]

SmallNodes == [
  user |-> Node("HumanIdentity", "iam"), role |-> Node("Role", "iam"),
  partner |-> Node("Role", "iam"), secret |-> Node("Secret", "secretsmanager"),
  key |-> Node("EncryptionKey", "kms"), bucket |-> Node("ObjectStorage", "s3")]

SmallObjects == [n \in DOMAIN SmallNodes |-> n \o "/*"]

Own == {"user", "role", "secret", "key"}
Accounts ==
  [a \in DOMAIN SmallNodes \cup {SmallObjects[n] : n \in DOMAIN SmallNodes} |->
     IF a \in Own \cup {SmallObjects[n] : n \in Own} THEN "own"
     ELSE IF a \in {"partner", "partner/*"} THEN "other" ELSE ""]

(* Conditions: on the request, on the caller, on an operator that is not   *)
(* evaluated, and on a key that nothing ever says anything of.             *)
Mfa == Clause("match", "default", FALSE, "aws:MultiFactorAuthPresent", {{"true"}})
NoMfa == Clause("match", "default", TRUE, "aws:MultiFactorAuthPresent", {{"false"}})
NotFromHome == Clause("not match", "default", FALSE, "aws:SourceIp", {{"home"}})
Signed == Clause("other", "default", FALSE, "aws:PrincipalArn", {{"user"}})
Outsider == Clause("not match", "ForAnyValue", FALSE, "aws:PrincipalAccount", {{"own"}})
Tagged == Clause("match", "ForAllValues", TRUE, "aws:PrincipalTag/team", {{"red"}})
NoTag == Clause("Null", "default", FALSE, "aws:PrincipalTag/team", {{"true"}})
ByService == Clause("match", "default", FALSE, "kms:ViaService", {{"secretsmanager"}})

Keys == {"aws:MultiFactorAuthPresent", "aws:SourceIp", "kms:ViaService"}

(* The requests a caller may make itself, with or without a session of     *)
(* which the second factor is known.                                       *)
SmallRequests ==
  {[k \in {"aws:SourceIp"} |-> {ip}] : ip \in {"home", "away"}} \cup
  {[k \in {"aws:SourceIp", "aws:MultiFactorAuthPresent"} |->
      IF k = "aws:SourceIp" THEN {ip} ELSE {mfa}] : ip \in {"home", "away"}, mfa \in {"true", "false"}}

Fact(kind, source, value) == [kind |-> kind, source |-> source, value |-> value]
All == AllBut({})
Iam == {"PassRole", "UpdateAssumeRolePolicy", "PutRolePolicy"}
Allow(action, resource, cond) == Statement("Allow", action, resource, Unnamed, cond)
Deny(action, resource, cond) == Statement("Deny", action, resource, Unnamed, cond)
For(effect, action, who, cond) == Statement(effect, action, All, who, cond)

IdentityFacts == {
  Fact("identity_policy", "user", {Allow(All, All, {})}),
  Fact("identity_policy", "user", {Deny(AllBut({"PutUserPolicy"}), All, {NoMfa})}),
  Fact("identity_policy", "user", {Deny(Only(Iam), All, {Signed})}),
  Fact("identity_policy", "partner", {Allow(Only({"GetSecretValue", "PutRolePolicy"}), All, {})}),
  Fact("identity_policy", "role", {Allow(Only({"PassRole", "Decrypt", "GetObject"}), All, {})}),
  Fact("MemberOf", "user", "group"), Fact("HasPolicy", "group", "readers"),
  Fact("managed_policy", "readers",
       {Allow(Only({"GetSecretValue", "Decrypt"}), Only({"secret", "key"}), {Mfa})})}

GuardrailFacts == {
  Fact("scp", "own", {Allow(All, All, {})}),
  Fact("scp", "own", {Allow(Only({"PassRole", "Decrypt", "GetObject"}), All, {})}),
  Fact("scp", "own", {Allow(Only({"GetSecretValue"}), Only({"secret"}), {Mfa})}),
  Fact("scp", "own", {Deny(Only({"Decrypt", "GetSecretValue"}), Only({"key"}), {})}),
  Fact("permission_boundary", "user", {Allow(AllBut(Iam), All, {NotFromHome})}),
  Fact("permission_boundary", "user", {Allow(All, All, {}), Deny(Only(Iam), All, {Tagged})})}

ResourceFacts == {
  Fact("resource_policy", "secret",
       {For("Allow", Only({"GetSecretValue"}), Principal(FALSE, {"partner", "role"}, {}), {NoTag})}),
  Fact("resource_policy", "secret",
       {For("Allow", Only({"GetSecretValue"}), Principal(TRUE, {}, {}), {}),
        For("Deny", Only({"GetSecretValue"}), Principal(FALSE, {}, {"own"}), {NotFromHome})}),
  Fact("resource_policy", "key",
       {For("Allow", All, Principal(FALSE, {}, {"own"}), {}),
        For("Allow", Only({"Decrypt"}), Principal(TRUE, {}, {}), {ByService})}),
  Fact("resource_policy", "key",
       {For("Allow", Only({"Decrypt"}), Principal(FALSE, {"partner", "role"}, {}), {Outsider})}),
  Fact("resource_policy", "bucket",
       {For("Deny", Only({"GetObject"}), Principal(FALSE, {}, {"own"}), {})})}

SmallFacts == IdentityFacts \cup GuardrailFacts \cup ResourceFacts
=============================================================================
