------------------------------ MODULE MCEngine -------------------------------
(***************************************************************************)
(* An instance of each part of the engine: Build, the evaluators of        *)
(* MCCloudEvaluators, PathGraph; and of what is made of its result:        *)
(* RageExport, NetMap.  A behaviour is of one of them.                     *)
(*                                                                         *)
(* Build is given a function that has a namesake in another region,        *)
(* a table that two operations list, a bucket, whose ARN has no account in *)
(* it, and facts about these and about names that are not inventoried.     *)
(***************************************************************************)
EXTENDS Build, MCCloudEvaluators, PathGraph, RageExport, NetMap

VARIABLE part  \* which of them it is

Artifact(type, native, nodeType, arn, role) ==
  [provider |-> "aws", account |-> "own", type |-> type, native |-> native,
   nodeType |-> nodeType, arn |-> arn, role |-> role]

User == <<"arn", "user/ann">>
App == <<"arn", "role/app">>
FnEast == <<"arn", "east:fn">>
FnWest == <<"arn", "west:fn">>
Table == <<"arn", "table">>
Bucket == <<"arn", "bucket">>
Partner == <<"arn", "partner">>
Star == <<"principal:*">>

Artifacts == {
  Artifact("aws:iam:user", "ann", "HumanIdentity", User, <<>>),
  Artifact("aws:lambda:function", "fn", "ServerlessFunction", FnEast, App),
  Artifact("aws:lambda:function", "fn", "ServerlessFunction", FnWest, User),
  Artifact("aws:rds:db", "table", "RelationalDatabase", Table, <<>>),
  Artifact("aws:docdb:db", "table", "RelationalDatabase", Table, App),
  Artifact("aws:s3:bucket", "bucket", "ObjectStorage", Bucket, <<>>)}

AccountSegments ==
  [v \in {User, App, FnEast, FnWest, Table, Bucket, Partner} |->
     IF v = Bucket THEN "" ELSE IF v = Partner THEN "other" ELSE "own"]

Statement(effect, public, aws, services, conditions) ==
  [effect |-> effect, public |-> public, aws |-> aws, services |-> services, conditions |-> conditions]
Fact(kind, source, target, hint, statements) ==
  [kind |-> kind, source |-> source, target |-> target, hint |-> hint, account |-> "own",
   region |-> "east", statements |-> statements]
Policy(kind, source, statements) == Fact(kind, source, <<>>, "", statements)
Direct(kind, source, target, hint) == Fact(kind, source, target, hint, << >>)

Allow(aws, services) == Statement("Allow", FALSE, aws, services, {})
Public(conditions) == Statement("Allow", TRUE, <<Partner>>, << >>, conditions)
OwnOnly == [op |-> "StringEquals", key |-> "account", values |-> {"own"}]
FromHome == [op |-> "IpAddress", key |-> "other", values |-> {"home"}]

Facts == {
  Policy("trust_policy", App, << Allow(<<User, Partner>>, << >>),
                                 Allow(<< >>, << <<"service:lambda">> >>) >>),
  Policy("trust_policy", App, << Statement("Deny", FALSE, <<User>>, << >>, {}) >>),
  Policy("resource_policy", FnEast, << Public({OwnOnly}), Allow(<<App, Partner>>, << >>) >>),
  Policy("resource_policy", Table, << Public({}), Public({FromHome}) >>),
  Policy("resource_policy", Bucket, << Allow(<<Partner, App>>, << >>), Public({FromHome}) >>),
  Policy("scp", User, << Allow(<<App>>, << >>) >>),
  Direct("network_rule", <<"cidr", "any">>, <<"sg", "1">>, "CanReachPort"),
  Direct("route", <<"sg", "1">>, Table, "RoutesTo"),
  Direct("membership", User, <<"arn", "role/app">>, "MemberOf"),
  Direct("membership", User, <<>>, "MemberOf")}

NodeOfArtifact(type, native) == <<"aws", "own", type, native>>
Ann == NodeOfArtifact("aws:iam:user", "ann")
Fn == NodeOfArtifact("aws:lambda:function", "fn")
Db == NodeOfArtifact("aws:docdb:db", "table")

Evaluates(type, source, target, state, weight) == Edge(Id(type, source, target, ""), state, weight)
Evaluated == {
  Evaluates("CanInvoke", Ann, Fn, "ACTIVE", 2), Evaluates("CanReadData", Ann, Db, "CONDITIONAL", 0),
  Evaluates("CanReadData", <<"arn|", App>>, Db, "ACTIVE", 3),
  Evaluates("CanReadData", Fn, Db, "ACTIVE", 9)}

Caller(provider, account, caller, member) ==
  [provider |-> provider, account |-> account, caller |-> caller, member |-> member]
Collectors == << Caller("aws", "own", User, ""),
                 Caller("gcp", "project", <<"bob@example.com">>, "user") >>
-----------------------------------------------------------------------------
(* PathGraph: a caller, two roles that may assume one another, a function  *)
(* and a table, with a long way, a short one and a conditional one, and    *)
(* nothing that leads back to the caller.                                  *)

Way(source, target, state, weight) ==
  Edge(Id("CanAssume", source, target, ""), state, weight)

Lists ==
  {<< Way("ann", "app", "ACTIVE", w[1]), Way("ann", "fn", "ACTIVE", w[2]),
      Way("app", "ops", "ACTIVE", w[3]), Way("ops", "app", "ACTIVE", 0),
      Way("fn", "table", s, w[4]), Way("ops", "table", "ACTIVE", w[1]),
      Edge(Id("CanInvoke", "ops", "fn", ""), "ACTIVE", w[2]),
      Edge(Id("CrossAccountTrust", "table", "everyone", "table"), "ACTIVE", 2),
      Edge(Id("CrossAccountTrust", "table", "everyone", "table"), "CONDITIONAL", 2) >> :
     w \in [1..4 -> {1, 2, 8}], s \in {"ACTIVE", "CONDITIONAL"}}

-----------------------------------------------------------------------------
(* RageExport: two operations of one type, the tasks of two scopes, and    *)
(* one of a type no fact is of; a policy found once or twice, a route that *)
(* no operation is alike; edges that are stamped, that are derived from a  *)
(* stamped one, from a derived one or from one another, and that share an  *)
(* id but not what they permit.                                            *)

Receipts == {
  << >>,
  << [task |-> "roles", type |-> "role"], [task |-> "nets", type |-> "vpc"] >>,
  << [task |-> "roles", type |-> "role"], [task |-> "roles", type |-> "role"],
     [task |-> "more-roles", type |-> "role"] >>}

Seen(id, kind, source, target) == [id |-> id, kind |-> kind, source |-> source, target |-> target]
Trusts == Seen("trusts", "role_policy", "arn:app", "fn")
Routes == Seen("routes", "route", "x/fn", "arn:table")

Line(id, nature, source, target, from, justified, permits, inline) ==
  [id |-> id, nature |-> nature, source |-> source, target |-> target, from |-> from,
   facts |-> justified, permissions |-> {permits}, conditions |-> {}, inline |-> inline,
   evidence |-> {}]

Written == {
  Line("assume", "explicit", "APP", "FN", {}, {"trusts"}, "AssumeRole", "doc"),
  Line("assume", "explicit", "APP", "FN", {}, {}, "TagSession", "none"),
  Line("invoke", "explicit", "APP", "FN", {}, {}, "Invoke", "doc"),
  Line("reach", "explicit", "FN", "TABLE", {}, {"routes"}, "Reach", "none"),
  Line("own", "derived", "APP", "TABLE", {"assume", "reach"}, {}, "Own", "none"),
  Line("rule", "derived", "APP", "TABLE", {"own", "loop"}, {}, "Rule", "none"),
  Line("loop", "derived", "FN", "APP", {"rule"}, {}, "Loop", "none")}

ExportNodes == <<
  [id |-> "APP", names |-> {"APP", "arn:app", "app"}],
  [id |-> "FN-EAST", names |-> {"FN-EAST", "fn"}],
  [id |-> "FN", names |-> {"FN", "arn:fn", "fn"}],
  [id |-> "TABLE", names |-> {"TABLE", "arn:table"}] >>

LastParts == "x/fn" :> "fn"
FactsLeft == {<< Trusts, Routes >>, << Routes, Trusts, Trusts >>}
OneAlike == {<<"role_policy", "role">>}

-----------------------------------------------------------------------------
(* NetMap: neighbours in private and public networks, a public address     *)
(* that differs from another only in its first bits, networks around them  *)
(* and around more than one class, what is kept, and IPv6.                 *)

Octet(n) == [i \in 1..8 |-> (n \div 2^(8 - i)) % 2]
V4(a, b, c, d) == Octet(a) \o Octet(b) \o Octet(c) \o Octet(d)
V6(a, b, last) ==
  [i \in 1..128 |-> IF i <= 8 THEN Octet(a)[i] ELSE IF i <= 16 THEN Octet(b)[i - 8]
                    ELSE IF i > 120 THEN Octet(last)[i - 120] ELSE 0]
Host(v) == [bits |-> v, ones |-> 0, net |-> FALSE]
Net(v, ones) == [bits |-> v, ones |-> ones, net |-> TRUE]

Estate == {
  Host(V4(10, 1, 2, 3)), Host(V4(10, 1, 2, 200)), Host(V4(172, 20, 0, 9)), Host(V4(192, 168, 1, 1)),
  Host(V4(8, 8, 8, 8)), Host(V4(24, 8, 8, 8)), Host(V4(8, 8, 8, 9)), Host(V4(0, 0, 0, 0)),
  Net(V4(10, 1, 2, 0), 24), Net(V4(10, 1, 2, 77), 31), Net(V4(8, 8, 0, 0), 16), Net(V4(8, 0, 0, 0), 5),
  Net(V4(0, 0, 0, 0), 0), Net(V4(172, 16, 0, 0), 12), Host(V4(100, 64, 1, 1)),
  Host(V6(32, 1, 1)), Host(V6(32, 1, 2)), Host(V6(38, 0, 1)), Net(V6(32, 1, 0), 126), Host(V6(0, 0, 1))}

Hashed(class, before, i) ==
  (Len(class) + i + 3 * Cardinality({j \in DOMAIN before : before[j] = 1})) % 4 \in {1, 2}

-----------------------------------------------------------------------------

buildVars == vars

EngineInit ==
  /\ part \in {"build", "gcp", "azure", "graph", "export", "redact"}
  /\ PathInit /\ (part # "graph" => indexed = CHOOSE l \in Lists : TRUE)
  /\ ExportInit /\ (part # "export" => ops = << >> /\ stamped = << >> /\ Len(observed) = 2)
  /\ NetInit /\ (part # "redact" => estate = {})
  /\ Init /\ GcpInit /\ AzureInit

EngineNext ==
  /\ UNCHANGED part
  /\ \/ part = "build" /\ Next
        /\ UNCHANGED <<gcpVars, azureVars, pathVars, exportVars, netVars>>
     \/ part = "gcp" /\ GcpNext
        /\ UNCHANGED <<buildVars, azureVars, pathVars, exportVars, netVars>>
     \/ part = "azure" /\ AzureNext
        /\ UNCHANGED <<buildVars, gcpVars, pathVars, exportVars, netVars>>
     \/ part = "graph" /\ PathNext
        /\ UNCHANGED <<buildVars, gcpVars, azureVars, exportVars, netVars>>
     \/ part = "export" /\ ExportNext
        /\ UNCHANGED <<buildVars, gcpVars, azureVars, pathVars, netVars>>
     \/ part = "redact" /\ NetNext
        /\ UNCHANGED <<buildVars, gcpVars, azureVars, pathVars, exportVars>>

EngineSpec ==
  EngineInit
  /\ [][EngineNext]_<<part, buildVars, gcpVars, azureVars, pathVars, exportVars, netVars>>

=============================================================================
