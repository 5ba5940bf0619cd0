# Thunderstorm in TLA+

Thunderstorm is two programs. The *collectors* (`src/collectors`) enumerate an
AWS account, a GCP project or an Azure subscription with read-only calls and
leave a bundle of evidence, with a ledger of what was and was not covered. The
*engine* (`src/engine`) turns a bundle into a graph: explicit edges from trust
and resource policies and permission evaluation, then derived edges from rules
applied to a fixpoint, then the paths an analyst looks at.

This directory holds TLA+ modules of their core, the TLC configurations that
check them on small instances, and theorems that TLAPS proves for every
instance. `PROJECT.json` lists, for each definition, the lines it models, and
for each property a mutant: a plausible bug in a mapped definition that breaks
it.

    tlc -workers 2 -config collect.cfg MCCollect
    tlapm SchedulerProofs.tla

## 1. The system

`thunderstorm scan` is one process. It sets up a provider, lists the scopes and
regions, plans the seeds (one enumerate call per resource type and region), runs
the collection DAG, then the facts tier and the exposure prober, and writes the
coverage, a report, a manifest and a zip; it then runs the engine on the bundle
and exports the result. With several scopes it does the collection once for
each, in a pool, and merges the bundles.

    main.cmdScan ─> run.Collect ─> planner.Seed ─> Scheduler.Run ─┬─> ledger
        │                │                              │         └─> output.Bundle (append)
        │                ├─> Provider.CollectFacts ─────┤
        │                ├─> exposure.Run ──────────────┘
        │                └─> ledger.WriteFiles (once, at the end; read by the next --resume)
        ├─ (several scopes) run.CollectScopes ─> MergeBundles
        └─> engine: bundle.Load ─> build ─> evaluators ─> derive ─> graph, output ─> rageexport

The components, what each keeps, and what would make it wrong:

| component | state and operations | hard part | what makes it correct |
|---|---|---|---|
| coverage ledger `internal/ledger` | one row per task id; Plan, Start, Finish, Resumed under one mutex; NewPrior reads an older one | ids that collide; what a resumed run takes for done | no row stays open; a failure is on record as itself; done means answered |
| collection scheduler `internal/scheduler` | a goroutine per task, a semaphore, a WaitGroup, five counters; Run, run, tally, emit | tasks start tasks while they hold a slot; early returns | no slot leaks, Run waits for all, each task settled and counted once |
| collection run, scan command `internal/run/run.go`, `cmd/thunderstorm` | a work directory over many runs; Collect, cmdScan, runContext | interrupt, kill and resume between any two writes | coverage never claims what is not on disk; nothing is collected twice or lost |
| evidence bundle `internal/output` | append-only shards; New (clears), AppendJSON, WriteFile, Zip | a crash inside the one truncating write | a fresh bundle holds exactly its own run |
| multi-scope `internal/run/multiscope.go` | scope-NNN directories, a pool, a merged bundle | scopes fail separately; the list is read anew in every run | the merge is the union of what succeeded; each account is collected |
| exposure prober `internal/exposure/prober.go` and the provider's fetcher table | a goroutine per site, a response cache, a summary, ledger rows | sites share responses; the lock is not held during a call | the summary adds up; every row is backed by an answer |
| exposure catalog, extraction, detection | pure functions on JSON and strings | | |
| provider setup, planner, registry | straight-line; seed ids are a product of types and scopes | two scopes have the same ids | |
| AWS, GCP, Azure providers `internal/providers` | several hundred functions: operations, probes, collectors of facts, each a tree of calls | pages, refusals in the middle, what was already written | nothing is left unread, a refusal is not an empty answer, the count is what is on disk, one thing's failure stays its own |
| progress bar | a ticker goroutine, Stop | a tick racing Stop; two channels | Stop returns, nothing is painted after it |
| redaction `internal/redact` | a registry of fakes; network map, transform, audit | one name met in many spellings; prefixes bit by bit | what shared a network still does, what was apart stays apart |
| RAGE export `internal/rageexport` | ledger rows become evidence, facts are linked to it, edges to facts, edges of one id merged | three tables that refer to each other by ids made up on the way | every reference resolves, the merge loses nothing |
| viewer, version | static files, a semver comparison | | |
| graph building `engine/internal/build` | nodes and base edges from artifacts and facts | three names for one endpoint, in any order | every stated relation has its edge between what it names, and no other edge is there |
| policy evaluation `engine/internal/policy` | three-valued conditions, set operators, globs | absent keys, negation, IfExists | unknown is never taken for true |
| AWS evaluator | allow, deny, boundary, SCP, KMS | the intersection of five documents | an explicit deny wins; a boundary only removes |
| GCP evaluator `engine/internal/evaluator_gcp` | bindings of resources and projects, roles merged, one edge per capability | one conditional binding beside an unconditional one; map order | no grant is missed or made up; conditional only if every grant is |
| Azure evaluator `engine/internal/evaluator_azure` | role and deny assignments down the scopes, groups, takeover of containers, Entra | emits derived edges itself; denials meet groups | no assignment is missed, every edge has its reason, denials win |
| edge derivation `engine/internal/derive` | edges by id, rules and promotions, a fixpoint | cycles, edges improved after others were computed from them, map order | terminates, closed, supported, never stronger than the weakest edge |
| engine pipeline | runs the above, appends the results, marks footholds | given and derived edges under one id | ids are unique |
| graph index and paths | adjacency, Dijkstra, breadth-first search | conditional edges left out or not | shortest, and reachable iff a path exists |
| engine output, standalone viewer page | sorted files; a static page | | |

The hazards the code is exposed to, each at its line with the properties that
cover it, are in `PROJECT.json`.

## 2. The modules

| module | models | correspondence |
|---|---|---|
| `Ledger` | `ledger.go` | operators on a function from task id to status; `"absent"` is an id without a row. Each method holds the mutex, so it is one step of its caller. |
| `Scheduler` (extends `Ledger`) | `scheduler.go` | `pc[t]` is the line a task's goroutine is at; `sem`, `wg`, `tallies`, `seedsDone`, `detail` are the fields of the same meaning. One action per step between two accesses to shared state: `Acquire`, `PlanRow`, `StartRow`, `Invoke`, `FinishRow`, then for each record `Emit`, `SpawnChild` or `PlanSkipped`/`FinishSkipped`, then the deferred `Release` and `Exit`. |
| `CoveragePromise` | the package comment of `ledger.go` | the abstract specification: a unit is on record before it runs, settled once, the record is closed when nothing is open. |
| `Collect` (extends `Ledger`) | `run.go`, `main.go`, `bundle.go` | the disk (`inventory`, `coverage`) survives; everything else dies with the process. `BeginFresh`/`BeginResume` are `output.New` and the resume block of `Collect`, `WriteSomeCoverage`/`WriteCoverage` the two halves of `os.WriteFile`, `EndKept`/`EndRemoved` the two ends of `cmdScan`, `Interrupt` the first signal, `Crash` the second, a kill, or an error return. |
| `MultiScope` (extends `Ledger`) | `multiscope.go`, `cmdScanMulti` | `Launch` and the pool, `ScopeEnds`/`ScopeFails` are `collectOne` with a whole collection as one step, `MergeNext` one turn of `MergeBundles`' loop. |
| `Prober` (extends `Ledger`) | `prober.go`, `providers/aws/exposure.go` | `Spawn` is Run's loop; `Skip`/`Begin` the switch of `probeSite`, `UseCached`/`Miss`/`Fetch`/`Store` the steps of `cachedFetch` around its lock, `Settle`/`Leave` the end of a site. `Fetchers` is the table `registerFetcher` fills. |
| `Fetcher` | what the providers' functions are made of | a function is a tree of calls, each with how it pages (`Pages`, `All`, `First`, `Once`), whether it is made for a batch or for each thing listed, and what its error does (`fail`, `keep`, `skip`, `note`, or `take`: the error's page is the result). |
| `AwsOperations`, `AwsItemProbes`, `AwsListProbes`, `AwsFacts`, `GcpFetchers`, `AzureFetchers` (extend `Fetcher`) | the functions of `providers/*`, one definition per file or per group of like functions | a catalogue: the paginators and the manual `NextToken` loops of the source are `Pages` or `All`, one page of a list that may have more is `First`, an inner call is made for each thing the outer one lists, what happens to an error is the last word. |
| `Fetch` (extends `Fetcher`) | one call of any function, as its callers make it (`scheduler.go:run`, `prober.go:probeSite`, `runListFetcher`, `facts.go:runFactTask`) | `stack` is the nest of loops with what each has left, `things` the results held, `noted` an error kept for the end, `lines` what is in the bundle, `row` what the caller puts on record. One action per request (`Answer`, `Refuse`), `Enter` and `Leave` for the loops. |
| `Derive` | `derive.go` | `Rules`, `Promotions`, `Takeovers` are the rule tables; `Candidates` what they emit from a snapshot; `BeginPass`, `Upsert`, `EndPass` the loop, `BetterEdge` and the replacement of both copies as in the code. |
| `Policy` | `policy/condition.go` | condition blocks with the outcomes true, false and unresolved. A pattern is the set of values its comparator accepts; `EvalClause` keeps the order in which absence, request-time keys, IfExists and unknown operators are asked. |
| `AwsEvaluator` (extends `Policy`) | `evaluator/*.go` | `Index` is one turn of `NewStore`'s loop, `store` its maps; `EvaluatePermissions` asks every row of `Capabilities` of every principal and target. `Evaluate`, `EvaluateKMS`, `ExplicitDeny`, `AllowedBy` are the functions of those names; `Grade` is the three-valued result the last two compute. Action, resource and principal patterns are the sets they match. |
| `GcpEvaluator` | `evaluator_gcp/*.go` | two passes over the facts, for roles and for bindings; `grants` is the map keyed by member and thing with its merged roles and condition; then the table of capabilities, one at a time, its offers in any order. |
| `AzureEvaluator` | `evaluator_azure/*.go` | `azureStore` is what the facts come to, one `Index` a fact; scopes are paths, "under" is being a prefix; assignments with their groups, denials, takeovers of containers, exposures and Entra follow as in the code. |
| `Build` | `build/build.go`, `pipeline/pipeline.go` | one step for an artifact, one for a fact, then execution roles, permissions and footholds. A name is a tuple whose head is the prefix the code tests; `Ref` is what the code looks a node up by, `NodeOf` the lookups, `Ensure` the node made up when there is none, `EnsureAll` one for each name a fact has. |
| `PathGraph` | `graph/graph.go` | `Ask` is `New` and the query; `Pop` one turn of Dijkstra's loop over `container/heap`, which may give any of the cheapest, `Unwind` the path from `prev`; `Visit` one turn of the search `Reaches` and `ReachedBy` share. |
| `RageExport` | `rageexport.go` | the loops of `emit` in their order: evidence from the ledger, facts, links, edges, the order of the lines. An id is what its hash is taken of. |
| `NetMap` | `redact/network.go`, `Registry.Get` | an address is its bits; `Scrambled` is the loop over the bits, `Class` the prefix that is kept or replaced as a whole, `Replace` the registry. |
| `SchedulerProofs` (with `CoveragePromise`), `CollectProofs`, `MultiScopeProofs`, `ProberProofs` (with `Fetch`), `DeriveProofs`, `EvaluatorProofs` (AWS), `EngineProofs` (`GcpEvaluator`, `AzureEvaluator`, `Build`), `OutputProofs` (`NetMap`, `PathGraph`, `RageExport`) | | theorems, section 5. |
| `MC...` | | instances. `MCProbe` is the prober and the functions it and the scheduler call; `MCEngine` the parts of the engine and what is made of its result. |

How they compose. `Scheduler!RunWaitsForAll`, proved, is what lets `Collect` move
on to the facts tier only when nothing is left to append (`RunReturns`), and what
lets `Collect` call a task in one step. `Collect`, whatever its outcome, is one
step of `MultiScope`. `Ledger` is shared by all four. `Prober` is the exposure
part of `Collect!CallFact`. `Fetch` refines the single step that each of these
takes a call to be: `Scheduler!Invoke`, `Collect`'s calls, `Prober!Fetch` choose an
outcome, `Fetch` says how each function comes to it. In the engine `Build` takes
the evaluators' edges as a set it may be given (`Permissions`), the evaluators
take nodes, `Derive` the edges of all, `PathGraph` and `RageExport` the result. They
are checked side by side (a behaviour of `MCEngine` is of one of them, and so is
one of `MCProbe`) rather than as one product: they run strictly one after the
other, each on the finished output of the last, so that a product would repeat
the states of one for each result of another and show nothing new; what the
parts hand over is an input that includes what the part before can give. Where
an input is of a special shape because of who makes it (the derived edges that
the Azure evaluator emits by itself), it is in the next one's instance: the
takeovers are among the estates of `MCDerive`.

What is abstracted. A record, a response, an artifact is one element; its content
matters only as far as control depends on it: how many records, whether a binding
resolves, which task id comes out. Times, reasons, evidence, narrative and
confidence are never read by the code modelled here and are left out. `Upsert`
takes all the offers for one id at once: any order of offers leaves one of the
best of them, and offers for different ids do not meet before the next pass, so
the outcomes are those of every order of Go's map iteration.

## 3. What the runs show

| run | instance | shows |
|---|---|---|
| `scheduler_shared` | two seeds, one with a chain of two detail calls over two records (the shape of `lambda:ListFunctions`, `GetFunction`, `http:GetBlob`); two slots; detail calls with one id | slots are conserved, Run returns after the last goroutine, no row is left open, no failure hidden, the counters agree |
| `scheduler_own` | two seeds, one with a chain of two detail calls, so three tasks deep on two slots; own ids, fairness | `Scheduler` implements `CoveragePromise`; Run returns, also when a chain is deeper than there are slots |
| `collect` | a plain seed, a chained one with a detail, a fact task; failures `denied` and `error`; three runs, a kill at any point, inside the coverage file too | a fresh bundle is exact, a resumed run begins with all that is there, adds and repeats nothing, coverage is backed by evidence |
| `probe` | the prober with seven sites: three share one response, one lists two regions, one has no items, two have one id; two slots. And one call of each function of the three providers, with any answer to each request | the summary adds up, rows are honest, no response is fetched more often than there are slots; a function's count is what it wrote, pages are read to the last but where a function is listed as reading one, a refusal is not taken for an empty answer, one thing refused costs no other; Run and every call return |
| `multiscope` | three scopes, or the second of them alone, in either of two runs; pool of two | the first merge is the union of what succeeded; what is done was answered by the scope's own account, or skipped for one that had the directory before; failures hold nothing up |
| `aws_evaluator` | a user and a role of one account, a role of another, a secret, a key and a bucket; every bundle of up to five of nineteen facts; six requests | against what a request would meet: nothing possible is missed, nothing ACTIVE is uncertain; denials only remove |
| `derive` | eight estates (a modifiable function and its role, mutual impersonation, a network cycle, a tenant, a diamond, two ways to one secret, a late improvement, a resource group), states and weights varied | the fixpoint is reached, closed, supported; explicit edges stay; no path is stronger than its weakest edge |
| `engine` | `Build` on two artifacts and two facts of a pool, in every order; the GCP evaluator on up to five facts, the Azure evaluator on up to four; a graph of cycles, parallel edges and two edges of one id with varied weights; the export of up to three edges; two addresses or networks of an estate of twenty | the graph is what the evidence states; no grant or assignment is missed or invented; paths are least, reachability is closure; references resolve and merged edges lose nothing; redaction keeps the topology |

Four more runs each refute something that the repository says of itself:

| run | what is said | what the code does |
|---|---|---|
| `prober_registry` | each `probe_*.go` names the service and operation it serves | fetchers are keyed by operation alone; of several registrations the last stands, and the sites of the others are probed with its call on its inventory, or skipped |
| `aws_evaluator_bucket` | "Explicit deny anywhere (identity, resource, SCP, boundary) — deny wins" (`evaluate.go:32`) | object actions are asked of `<bucket>/*` while the policy is stored under the bucket: it is never read, and a denied identity has an ACTIVE `CanReadData` edge |
| `azure_deny` | "Deny assignments win" (`evaluator_azure/evaluator.go:7`) | denials are looked up under the id the assignment names: a denial to a group stops none of its members |
| `engine_trust` | "same-account grant is not cross-account trust" (`build.go:207`) | the account is read from the resource's ARN, and a bucket's has none: its own account's principals count as foreign |

**Bounds.** The scheduler's instances have the longest chain the registry has and a
seed beside it: three tasks deep on two slots, so that tasks wait for slots held by
their parents, and a parent that waited in its slot for its children would be found
out (`ReleaseAfterChildren`); the proofs hold for all. Three runs are what it takes for a
resumed run to be resumed, or to follow a crash of a resume. Two failing regions,
items or sites already show every overlap of two slots; a third site of one
response is there so that one comes after both. Two runs and three scopes let a
pool of two end in every order, and the shorter list gives a directory to another
scope than the longer. `Derive` needs no bound: it stops by itself on
the given edges; the two weights make each way the lighter one. Five facts are
enough for a denial, an allowance, an SCP, a boundary and a resource policy to
meet, or a group, its policy and two of the others; what the run finds is proved
for any store. Of the two cloud evaluators, five facts hold a custom role, two
roles bound with and without a condition on a resource and its project; four
hold a role, an assignment to a group, a membership and a denial.

A call (`probe`) reads up to two things a page and makes at most five requests that
may say there is more (`MaxThings`, `MaxCalls`; `BatchSize` is two where the source
has 50 to 900): enough for a second page of the outer list after the inner calls
of the first, a batch that is full and one that is not, and a refusal at each of
these places. The functions that differ from what is stated are named in `MCProbe`:
`OnePage` lists the uses, a function and a call of it, of which one page is read
although there may be more, `Optional` the functions that go on without an outermost
call and tell nobody. A function that joins them by a change of the code is a
violation. `Once` is for what has no second page: an API without paging, or one
asked for a single thing by its name.

`MaxArtifacts`, `MaxFacts`: two artifacts are two that share an ARN, a node id or a
role, two facts a reference before and after something else made a node for it.
`MaxEdges`: three edges are two of one id and one derived from them, or a chain of
derivations. `MaxLiterals`: the property is about pairs. `MaxRecs`, `MaxRuns`,
`MaxHits`, `MaxThings`, `MaxCalls`, `MaxArtifacts`, `MaxFacts`, `MaxEdges` and
`MaxLiterals` are the only bounds in guards. `Collect` writes the coverage file in
sorted order of task ids and a kill cuts it after any number of rows (`UpTo`).

**Deadlock** is checked in `Scheduler`, where a returned run stutters explicitly.
The other modules stop when all runs are used up or the loop is done, and their
configurations say so; what must not stop early is stated as liveness.

**Fairness.** `Scheduler`: the Go runtime schedules every runnable goroutine, so
each has weak fairness; a channel send that others overtake again and again is
not starved in the runtime (waiting senders are served in order) and the tasks
are finite, so weak fairness is enough here. `MCProbe` asks for less: if some
goroutine can go on, one does; no site waits for another but through the
semaphore. That every API call returns is an assumption (`Invoke`, `Fetch` are
fair): no code of the program bounds a call, the SDK's and the HTTP client's
retry limits and the context do. `MultiScope`: every collection returns. `Derive`:
sequential code goes on. `Collect` claims no liveness: a run may be killed at any
time.

## 4. Properties and hazards

Each property comes with a comment in its module. The ones that carry weight:

- `RunWaitsForAll`, `SlotsConserved`, `IntegrityAtReturn`, `NoHiddenGap`,
  `CountersAgree`: what callers of `Scheduler.Run` rely on, with ids that collide
  (`idOf` falls back to no suffix) and calls that fail.
- `KeepsCoveragePromise`: refinement, only with ids of their own. With shared ids
  a settled row is reopened by the next task of that id; what then still holds is
  `IntegrityAtReturn` and `NoHiddenGap`, and these are checked with shared ids.
- `FreshBundleExact`, `NothingCollectedTwice`, `CoverageIsBacked`,
  `ResumeOnlyAdds`: the bundle and its coverage over runs and crashes. The last says
  which two steps may take lines from the disk, a start without `--resume` and the
  removal of the work directory, and that a resume calls again what it owes. Two of
  the others name the exception the code leaves open: a resume after a kill starts from
  the older coverage and repeats what was appended since; a fresh run does not
  remove `ledger/`, so until it has written its own the old file stands.
- `Reconciled`, `CoverageIsHonest`, `CallsBounded`: the prober under overlapping
  fetches of one response that may succeed for one and fail for the other.
- `MergeIsUnion` is stated for the first merge of a directory: later ones append
  facts, exposure and coverage to what an earlier merge left.
- `ScopeCollected` holds of lists that change between runs, and says how far a
  directory that changes hands goes wrong: by seeds a resumed run skips, never
  otherwise.
- `Closed` and `Supported` together say that the result is a fixpoint and that no
  edge in it stands on one that is gone, whatever the order of map iteration;
  `StateIsWeakest` that a path through a CONDITIONAL edge is never ACTIVE.
- `NothingPossibleMissed` and `ActiveIsCertain` compare the evaluation with
  `Permitted`, what one request would meet when all its keys are known. They are
  two directions: no edge is missing that some request could use, and an edge
  without the mark CONDITIONAL holds for every request. What they leave out is
  what the code does not decide so: the objects of a bucket
  (`aws_evaluator_bucket`), keys as to certainty (the key branch forgets
  conditional denials and the condition of a delegation), guardrails that allow
  under a condition (`GuardrailsOutright`). `DenialsOnlyRemove` is about one more
  policy in any store.
- `NoGrantMissed`, `NoGrantInvented`, `NoAssignmentMissed`, `NoEdgeInvented` are the same
  two directions for the other clouds, against a reading of the facts that knows
  nothing of the maps and the order of the code. What is under a scope (`Under`) is
  Azure's: a management group has itself, the groups and the subscriptions below it.
  `NoAssignmentMissed` names the two cases in which the code departs from that,
  `GroupUnderGroup` and `DeniedAtAGroup`; without them it is `GrantsInheritDownward`,
  which the code does not keep.
- `CountIsOnDisk`, `NothingLeftUnread`, `RefusedIsNotEmpty`, `OneThingFailsNothing` hold of
  several hundred functions at once: of each it was read from the source what it
  calls and what it does about an error, and what follows is checked. The exceptions
  are part of the statements: uses that read one page (`OnePage`), a list inside
  another that is refused at a later page, functions that overlook a refusal
  (`Optional`), and `iam-resource-policy`, where one lost document fails the whole.
- `EdgesFromEvidence` relates the graph to what the facts say about names, whoever
  of inventory and facts comes first; `ReferencesResolve` and `MergeLosesNothing` do
  the same for the export; `TopologyPreserved` is about every pair of addresses.

Hazards without a property are listed with the reason. Some of the code's own
words do not hold where no run says so, because the runs are kept for what is
within one part; they are these.

*Collection.* A failed detail call is not run again on resume, although the report
calls it retryable (`ledger.go:265`): only seeds are looked up. A seed that was
denied counts as done, so the next coverage has it as skipped (`ledger.go:1-3, 84`).
`Collect` states both (`RetryableDetailRerun`, `DeniedStaysOnRecord`). After the first
interrupt "keeping the workdir" is printed (`main.go:109`), but the run goes on with
calls that fail and removes the directory at its end (line 180):
`InterruptKeepsWorkdir`. Scopes are matched with their directories by position in a
list read anew (`multiscope.go:185`), so that a resumed run takes another account's
seeds for done when the list has changed: `DoneByItsOwnAccount`. `http:GetBlob` does not
look at the HTTP status (`operations.go:214-241`): the page of a 403 or 404 is stored
by its hash as the code of the function, and its row is ok. `facts.go:141-144` says a failed
collector counts 0, it counts what it wrote. `facts_iam.go:60-64` passes over
refused attached policies that lines 115-118 report.

*Permissions.* GCP: a role bound unconditionally makes the permissions of another
role, bound to the same member under a condition, ACTIVE (`evaluator.go:11-12`
against 108-112); two resources with one last segment are one; members
`projectViewer`, `projectOwner` are dropped. Azure: takeovers are ACTIVE on a
CONDITIONAL grant and cite no facts. "Grants inherit DOWNWARD" (`evaluator.go:5-6`), but
an assignment at a known management group reaches neither that group nor the groups
below it (lines 256-268 know subscriptions only), so that its Owner has no
CanGrantPermission and no takeover on them; and a denial at one management group
counts everywhere (lines 662-663). An inventoried Entra user and the principal of an assignment are two
nodes. In a merged bundle every evaluator gets the nodes of all clouds.

*Graph.* Two functions of one name in two regions have one node id and the second
is dropped; nineteen AWS types have no `arn_field` and their bare ids match
nothing; the type of a node made up for a name depends on which fact is read
first; trust policies are ACTIVE whatever their conditions say
(`SameAccountConfined` takes any one value, `IfExists` too).

*Output.* A merged line of the export keeps the state of its first edge, so that
ACTIVE after CONDITIONAL is lost; task ids of merged scopes coincide. The fakes of
public addresses are not one to one (`registry.go:13`): what differs in the first
four bits alone gets one fake; a network around several classes does not keep its
addresses; names that look like fakes are taken for fakes.

## 5. What is proved

For every value of the constants that satisfies the modules' assumptions. Every
safety invariant and every action property that a passing run checks is a theorem,
but for three about the catalogue of functions (see the end of this section).

**`SchedulerProofs`** (any finite tree of tasks, any assignment of ids, any
capacity, any number of records): `TypeCorrect`, `SlotsAreConserved`,
`ReturnIsQuiet`, `IntegrityHolds`. The properties alone are not inductive; `IInv`
adds

- `CountInv`: `sem` and `wg` are the numbers of tasks that hold a slot and that
  are live. A child is counted while its parent still is, so `wg = 0` is reached
  only when no task is live; this is the step of `ReturnIsQuiet`.
- `FreshInv`: the children of records not yet walked have not started; without it
  a child could be started twice and the counts would not move by one.
- `LocalInv`: the program counter agrees with the task's local variables.
- `OwnerInv`: every open row has a task that is about to settle it, also if
  several tasks share the row. At return no task is live, so no row is open.
- `QuietInv`: after the return nothing moves.

The assumptions are that the tree is a tree (`ChildAssumption`: no two records
start one task, none starts a seed), that it is finite, and that the semaphore
has a slot.

**`DeriveProofs`** (any table of nodes, any given edges with natural weights):
`TypeCorrect`, `ExplicitKept`, `StatePropagates`, `FixpointIsClosed`,
`FixpointIsSupported`. The argument has two layers. `SafeInv`: every edge and
every offer is *grounded*, it cites given edges and is exactly as weak as the
weakest of them; joins preserve this because the weakest of two sets is that of
their union (`WeakestOfUnion`). `FixInv` rests on the rules being *monotone*
(`ComposeMonotone` and its companions): from better edges they emit offers at
least as good. So what an edge was computed from still supports it, or something
better, after any improvement; at the end nothing better exists, so it is
supported exactly. `InputsAssumption` says what the builder and evaluators hand
over: edges that cite no others.

**`SchedulerProofs`, on the record** (on top of the above): `GapsAreOnRecord`,
`EachCountedOnce`, `PromiseIsKept`. `GapInv` relates what a task's call came to
(`out`) to its row: a task that has settled has a settled row, and its own outcome
stands if no other task has its id (`OutcomeKept`). `TallyInv` says that the
counters are the numbers of tasks past their tally. The refinement needs
`DistinctIds`; `FollowInv` maps each program counter to the state of the unit in
`CoveragePromise`, and each step is shown to be `Record`, `Settle`, `Close` or a
stutter. It is the safety half: `Promise!Safety`.

**`CollectProofs`** (any finite sets of seeds, details and fact tasks, any number
of runs `MaxRuns`): `TypeCorrect`, `FreshIsExact`, `CollectedOnce`, `CoverageHolds`,
`ResumeIsMonotone`. `IInv` joins `RunInv` (what is still to be called has no row, and
no detail comes before its seed's records), `FreshInv` (a fresh run has on disk what
its ledger has as ok, less what is still to be appended), `OnceInv` (without a
crash, what is on disk or about to be is not called again), `BackedInv` (what
coverage claims is on disk, and is not collected again) and `RetryInv` (a resumed
run owes a call to each seed its prior run had not done). A kill inside the
coverage file leaves a part of a backed file, which is backed. The assumptions are
`CollectAssumption`, that seeds, details and fact tasks are disjoint and each
detail has a seed as its parent, and `RankAssumption`, that ids are sorted.

**`EvaluatorProofs`** (any nodes, accounts, facts, conditions and requests):
`OfflineVerdictStands`, `NothingIsMissed`, `ActiveEdgesAreCertain`,
`DenialsWeakenAllowancesKeep`, `EvaluatorTypes`. A clause decided offline does not
depend on request-time keys (`ClauseStands`), so a block decided offline is
decided alike by each request; a set of statements that says "solid" holds for
every request, one that says "none" for none (`SolidHolds`, `NoneNeverHolds`), and
the two directions follow from the order of `Evaluate`. The last theorem compares
two stores that differ by one policy. The one assumption that matters is that
requests add request-time keys only.

**`OutputProofs`, addresses** (any hash, any set of literals): `TopologyIsPreserved`. The fake
bit at a place is the real bit, flipped or not as the class and the bits before it
say (`ScrambledAlike`, `ScrambledApart`); so a common prefix gives a common prefix,
and at the first difference the same flip meets different bits. The invariant
(`OwnFake`) says that the registry holds for each literal the fake that is its
own, in whatever order the literals came.

**`OutputProofs`, the graph** (any list of edges with natural weights, any query):
`GraphReachesClosure`, `GraphPathIsLeast`. The first is the invariant of a search:
what is visited is reached by a walk, and what a visited node leads to is visited
or waits. The second is Dijkstra's argument over the queue of the code, which has
stale entries and may hold a node twice. `PathInv` joins `Tree` (each node seen has
a predecessor that is done, and costs what that costs and the edge), `Settled` (what
is done has offered its cost to all its neighbours), `Frontier` (each node seen and
not done waits with its cost, and nothing in the queue is cheaper than what is
done) and `Answer` (the path unwound so far is a walk that costs the difference).
That no walk is cheaper (`NoWalkIsCheaper`) is an induction over the walk's length.
An edge whose weight is 0 costs 1, as in the code.

**`OutputProofs`, the export** (any coverage, any facts and up to any number of
edges): `ExportReferencesResolve`, `ExportMergeLosesNothing`. `ExportInv` says of
each loop of `emit` what the finished ones leave to it: facts that were read are
backed by evidence on record (`Backed`), each edge linked so far cites what its own
facts and those of the edges it was derived from come to (`LinkedEdges`), and a
line of the output has everything each edge of its id had (`WrittenLines`).

**`ProberProofs`** (any catalog, any targets and keys, any answers, any number of
slots): `TypeCorrect`, `CallsAreBounded`, `CoverageHolds`. A site between the lock's
release and the store is *in flight* for its key. `CallsInv`: while nothing is
stored for a key, the calls made are exactly the sites in flight for it, and these
hold slots (`PlaceInv`: `sem` is the number of live sites), so there are at most
`Concurrency`; once something is stored no site begins a call, and those that were
under way are already counted. `ReadInv` keeps, for each site, that every target it
has passed without an error was answered well and that its first error was given
for one of its own targets; the cache holds only what was given. `RowInv` brings
this to the row, as long as no other site writes to it. `SummaryAddsUp` is the
arithmetic at the end: each counter of the summary is the size of the set of sites
that settled so, and the hits are the size of the set of lines written (`SumInv`),
which turns the sums of the report into sizes of disjoint unions.

**`ProberProofs`, one call of a fetcher** (any table of functions that keeps to
`FetchAssumption`, pages and batches of any size, any answers): `FetchCountsItsLines`.
The assumption says what the source's functions have in common: each call has one
of the known ways to page and to take an error, and in a collector of facts one
whose error drops the count is the first to be made, before anything is counted.
`MCProbe` has TLC evaluate it on the whole catalogue. `FetchInv` joins `Nested` (the
stack is the nest of loops of this function), `Undropped` (as long as a request may
drop the count nothing is counted) and `Written` (what is counted is in the bundle).

**`MultiScopeProofs`** (any lists of scopes, resource types, pool and number of
runs): `TypeCorrect`, `MergesAreUnions`, `ScopesAreCollected`. `CountInv`: the tokens in
the pool are the scopes under way, which are among those started. `FirstMerge` says
of a merge in the middle what `MergeIsUnion` says of its end, about the successful
scopes *before* the one it is at, and that its memory (`seen`) is of these only;
`OneBundleMore` is the step. It needs that a successful bundle has a surface, and
that nothing was merged before, which is why only the first merge is a union.
`AnswerInv` says that what is on record as done in a directory was answered by an
account that had this place in some run (`held`), and, in the run under way, by the
scope's own unless it was skipped. Nothing is assumed of the lists.

**`EngineProofs`, GCP** (any list of nodes, any facts, any table of capabilities):
`GcpGrantsAreKept`, `GcpEdgesAreGranted`. `GcpFiled`: the grant kept for a member and a
thing has exactly the permissions of the roles bound there so far, and is marked
conditional and unconditional exactly as some binding is; that roles are settled
before the first binding is read is part of it. `GcpOffered`: an offer the table
makes is still waiting or has its edge, and every edge is from an offer. Whichever
offer of an edge comes first, the edge is ACTIVE if one of them is.

**`EngineProofs`, Azure** (any nodes, any facts): `AzureMissesNothing`,
`AzureEdgesHaveReasons`. `AzureInv` says that the store is one that facts can leave
(`StoreInv`) and, at the end, that the edges are those of the roles over those of
Entra. The hard part is the descent through management groups, which the model
writes as a function of the number of levels: each level has what the one before
had and its children (`DescentLevels`), and as soon as there is nothing left to go
into it is closed; there are as many levels as there are names of children, so
that happens by the last one (`DescentEnds`). With that, what a scope covers is under
it, and what is under it is covered unless it is a management group below one
(`CoveredIsUnder`); who is denied is denied by a document above the node, but for
denials at a management group (`DenialsCount`); and both directions follow emission
by emission, with these two cases named in the statement. `AzureAssumption` is that a subscription is no management group.

**`EngineProofs`, the base graph** (any bundle, any order): `GraphIsTheEvidence`. A
graph is *in order* (`InOrder`) if what is filed under an ARN is a node and is what
the ARN means, every artifact read has its node, and each node is an artifact's or
made up. `Ensure` keeps that, loses no node, and leaves a node for the name
(`EnsureStep`); a name that led to a node leads to one afterwards, though not
always to the same (`NodeStays`). A fact's links state what the fact states
(`LinksState`, one lemma for each kind of fact), so its edges are those of its
statements; older edges stay between nodes. An artifact changes what its ARN means,
which is why the invariant ties `byArn` to the meaning and not to a node.
`BuildAssumption` says that no bare name of a fact is the id of a node and that
documents name no empty principals.

Induction in these proofs is over sets of numbers: the library's WFMin says that
a set of numbers that is not empty has a least one (`LeastNumber`, `Induction`). A
recursive function is shown to exist from its finite beginnings before anything is
said of its values (`Beginnings`, `Flattening`, `AftersExist`).

**Only model-checked**: everything under fairness (`Terminates`, `Ends`,
`EveryCallReturns`, the liveness half of `KeepsCoveragePromise`), which TLAPS does
not do. That the derivation terminates for *every* graph needs a well-founded
order on sets of edges under the same fairness, and stays with the run.
`NothingLeftUnread`, `RefusedIsNotEmpty` and `OneThingFailsNothing` say something of
the functions there are, and a theorem about any table of functions would have to
assume of the table what they conclude: they are checked on the catalogue, which is
the whole of it, for answers up to the bounds. The four
runs that expect a violation are counterexamples, of which one instance is enough.

## 6. Not modelled

- External services and SDKs, as far as they are not a choice of outcome; parsing,
  formatting, hashing, wording; the CLI's flags; the viewer and the standalone page.
- `endpoints_gen.go` and `exposure_gen.go`, which are generated tables: the functions
  that read them are in `GcpFetchers`, the prober's catalog is a constant.
- Credentials, impersonation and `Classify` of the providers: which of the classes an
  error is put in is a choice. (GCP's tests for "403" before it looks for
  SERVICE_DISABLED, so a disabled API counts as denied.) Which field of a response
  becomes which field of a record or a fact.
- The catalog's extraction and secret detection (strings, regular expressions,
  entropy): a choice of how many values a response yields.
- Failed writes to disk: `emit` ignores them, and `Collect` assumes that an append
  succeeds. In `MultiScope`, blobs and the merged manifest.
- The progress bar: it changes nothing that others read.
- Redaction but for addresses: names are recognised by regular expressions and
  faked by hashing, and what a text contains is a matter of strings. Whether an
  output is published or quarantined depends there on the order in which files
  are met; it fails closed.
- The engine's reading of a bundle (one bad line fails it) and its output (sorted
  files at the end). Nothing in the two programs but tests uses `graph`.
- Of the AWS evaluator, two things are not properties although they may surprise:
  `NotPrincipal` is parsed and never read, and a negated comparator with several
  patterns holds if one of them differs.

## 7. Plan

Done, in this order: `Ledger` and `Scheduler`, `CoveragePromise`, `Collect`,
`Derive`, `Prober`, `MultiScope`, `Policy` and `AwsEvaluator`, with the proofs about
`Scheduler` and its refinement, `Collect`, `Derive` and the AWS evaluator; then `Fetch`
and the catalogue of the providers' functions, `GcpEvaluator`, `AzureEvaluator`,
`Build`, `PathGraph`, `RageExport`, `NetMap` and its proof, and the proofs about `Prober`
and `MultiScope`; then the proofs about `Fetch`, the summary of `Prober`, the two cloud
evaluators, `Build`, `PathGraph` and `RageExport`.

Next, by importance:

1. Failed appends in `Collect`: a record that is counted and is not on disk makes
   `FreshBundleExact` false, so the property has to say which records may be missing.
2. The merged manifest and blobs in `MultiScope`, and the manifest of the export.
3. The audit of redaction as a model of texts with marked identifiers: that what is
   published contains none, whatever the order of the files.
