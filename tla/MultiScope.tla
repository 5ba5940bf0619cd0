----------------------------- MODULE MultiScope -----------------------------
(***************************************************************************)
(* A work directory over several runs of a multi-scope scan (cmdScanMulti  *)
(* in collectors/cmd/thunderstorm/main.go, CollectScopes and MergeBundles  *)
(* in collectors/internal/run/multiscope.go): a bounded pool collects each *)
(* scope of a list into a directory of its own, scope-000, scope-001, ..., *)
(* and the bundles of those that succeeded are merged into bundle/full.    *)
(*                                                                         *)
(* One collection (module Collect) is one step here.  Lines are kept apart *)
(* by the account and the run they come from, which their timestamps tell; *)
(* a surface says neither.  The task id of a seed does not name its        *)
(* account: it is the same for every scope (planner.enumTask).             *)
(***************************************************************************)
EXTENDS Ledger, Sequences

CONSTANTS
  Accounts,  \* the scopes a run may be given
  Lists,     \* the lists of scopes: sequences of accounts
  Types,     \* resource types; each is a seed and an inventory shard
  Pool,      \* --scope-concurrency
  MaxRuns    \* bound: the runs started in the work directory

ASSUME MultiScopeAssumption ==
  /\ Lists \subseteq Seq(Accounts) \ {<<>>}
  /\ Pool \in Nat \ {0} /\ MaxRuns \in Nat

Dirs == UNION {DOMAIN l : l \in Lists}
Lines == [account : Accounts, run : 1..MaxRuns]

VARIABLES
  bundle,    \* disk: what each scope-NNN/full holds
  merged,    \* disk: what bundle/full holds
  phase,     \* "off", "collect", "merge", "done"
  list,      \* the run's scopes
  resuming,  \* the run's --resume
  results,   \* the result of each scope, "none" before it is started
  started,   \* scopes started
  sem,       \* tokens in the pool's channel
  at,        \* the result MergeBundles is at
  seen,      \* whether it has seen the surface's line, and the shards it has open
  runs,      \* runs started
  answered,  \* history: the account that last answered each seed of a directory
  held,      \* history: the accounts that had each place in the lists of the runs
  merges     \* history: merges begun

disk == <<bundle, merged>>
vars == <<disk, phase, list, resuming, results, started, sem, at, seen, runs, answered, held,
          merges>>

NoBundle == [inventory |-> [t \in Types |-> {}], facts |-> {}, surfaces |-> 0,
             coverage |-> NoRows(Types), ledger |-> {}]

NothingSeen == [surface |-> FALSE, open |-> {}]

Init ==
  /\ bundle = [d \in Dirs |-> NoBundle]
  /\ merged = [inventory |-> [t \in Types |-> {}], facts |-> [l \in Lines |-> 0],
               surfaces |-> 0, ledger |-> [l \in Lines |-> 0]]
  /\ phase = "off" /\ list = <<>> /\ resuming = FALSE
  /\ results = [d \in Dirs |-> "none"] /\ started = 0 /\ sem = 0
  /\ at = 1 /\ seen = NothingSeen /\ runs = 0
  /\ answered = [d \in Dirs |-> [t \in Types |-> "nobody"]] /\ held = [d \in Dirs |-> {}]
  /\ merges = 0

Scopes == DOMAIN list
Line(i) == [account |-> list[i], run |-> runs]

(* The scopes come from flags, a file or discovery, anew in every run.     *)
Begin ==
  /\ phase = "off" /\ runs < MaxRuns
  /\ runs' = runs + 1 /\ phase' = "collect"
  /\ list' \in Lists /\ resuming' \in BOOLEAN
  /\ results' = [d \in Dirs |-> "none"] /\ started' = 0
  /\ at' = 1 /\ seen' = NothingSeen
  /\ held' = [d \in Dirs |-> held[d] \cup IF d \in DOMAIN list' THEN {list'[d]} ELSE {}]
  /\ UNCHANGED <<disk, sem, answered, merges>>

(* A faulty variant: every scope is started at once.                       *)
LaunchUnbounded ==
  /\ phase = "collect" /\ started < Len(list)
  /\ started' = started + 1 /\ sem' = sem + 1
  /\ results' = [results EXCEPT ![started + 1] = "running"]
  /\ UNCHANGED <<disk, phase, list, resuming, at, seen, runs, answered, held, merges>>

(* CollectScopes: the loop waits for a slot before it starts a goroutine;  *)
(* with a pool of one it calls collectOne itself.                          *)
Launch ==
  /\ phase = "collect" /\ started < Len(list) /\ sem < Pool
  /\ started' = started + 1 /\ sem' = sem + 1
  /\ results' = [results EXCEPT ![started + 1] = "running"]
  /\ UNCHANGED <<disk, phase, list, resuming, at, seen, runs, answered, held, merges>>

(* A faulty variant: a scope that failed keeps its slot.                   *)
SlotUnlessFailed(i, status) ==
  /\ phase = "collect" /\ results[i] = "running"
  /\ results' = [results EXCEPT ![i] = status]
  /\ sem' = IF status = "ok" THEN sem - 1 ELSE sem
  /\ UNCHANGED <<merged, phase, list, resuming, started, at, seen, runs, held, merges>>

Slot(i, status) ==
  /\ phase = "collect" /\ results[i] = "running"
  /\ results' = [results EXCEPT ![i] = status]
  /\ sem' = sem - 1
  /\ UNCHANGED <<merged, phase, list, resuming, started, at, seen, runs, held, merges>>

(* A faulty variant: directories are numbered as the scopes end.           *)
DirByCompletion(i) ==
  Cardinality({j \in Scopes : results[j] \in {"ok", "error"}}) + 1

Dir(i) == i

(* The seeds a run calls in a directory, and what is there before it does. *)
Todo(d) == IF resuming THEN Types \ PriorDone(bundle[d].coverage) ELSE Types
Opened(d) == IF resuming THEN bundle[d]
             ELSE [NoBundle EXCEPT !.coverage = bundle[d].coverage, !.ledger = bundle[d].ledger]

(* The shards after a collection in which the seeds in ok had records.     *)
Collected(i, d, ok) ==
  [Opened(d) EXCEPT !.inventory = [t \in Types |-> IF t \in ok THEN @[t] \cup {Line(i)} ELSE @[t]],
                    !.facts = @ \cup {Line(i)}, !.surfaces = @ + 1]

(* collectOne, Collect ends: each seed not yet done is answered or fails.  *)
ScopeEnds(i) ==
  LET d == Dir(i) IN
  /\ Slot(i, "ok")
  /\ \E ok \in SUBSET Todo(d) : \E failed \in SUBSET (Todo(d) \ ok) :
       /\ bundle' = [bundle EXCEPT ![d] =
            [Collected(i, d, ok) EXCEPT
               !.coverage = [t \in Types |->
                 CASE t \notin Todo(d) -> "skipped" [] t \in ok -> "ok"
                   [] t \in failed -> "error" [] OTHER -> "empty"],
               !.ledger = {Line(i)}]]
       /\ answered' = [answered EXCEPT ![d] =
            [t \in Types |-> IF t \in Todo(d) \ failed THEN list[i] ELSE @[t]]]

(* Collect returns an error: before it opened the bundle, or with some of  *)
(* it written, but not the coverage.                                       *)
ScopeFails(i) ==
  LET d == Dir(i) IN
  /\ Slot(i, "error")
  /\ \/ UNCHANGED bundle
     \/ bundle' = [bundle EXCEPT ![d] = Opened(d)]
     \/ \E ok \in SUBSET Todo(d) : bundle' = [bundle EXCEPT ![d] = Collected(i, d, ok)]
  /\ UNCHANGED answered

-----------------------------------------------------------------------------
(* MergeBundles.                                                           *)

BeginMerge ==
  /\ phase = "collect" /\ started = Len(list)
  /\ \A i \in Scopes : results[i] # "running"
  /\ \E i \in Scopes : results[i] = "ok"
  /\ phase' = "merge" /\ merges' = merges + 1
  /\ UNCHANGED <<disk, list, resuming, results, started, sem, at, seen, runs, answered, held>>

Increase(bag, lines) == [l \in Lines |-> IF l \in lines THEN bag[l] + 1 ELSE bag[l]]

(* Inventory shards are created anew at their first line in this merge;    *)
(* facts, exposure and coverage are appended to what is there.  Artifacts  *)
(* have no node_id, so none is taken for a duplicate.                      *)
Merged(b) ==
  LET shards == {t \in Types : b.inventory[t] # {}} IN
  [inventory |-> [t \in Types |->
     IF t \notin shards THEN merged.inventory[t]
     ELSE b.inventory[t] \cup IF t \in seen.open THEN merged.inventory[t] ELSE {}],
   facts |-> Increase(merged.facts, b.facts),
   surfaces |-> merged.surfaces + IF b.surfaces > 0 /\ ~seen.surface THEN 1 ELSE 0,
   ledger |-> Increase(merged.ledger, b.ledger)]

MergeStep(i) ==
  /\ merged' = Merged(bundle[i])
  /\ seen' = [surface |-> seen.surface \/ bundle[i].surfaces > 0,
              open |-> seen.open \cup {t \in Types : bundle[i].inventory[t] # {}}]

(* A faulty variant: the status of a result is not looked at.              *)
MergeNextWhatever ==
  /\ phase = "merge" /\ at \in Scopes
  /\ MergeStep(at)
  /\ at' = at + 1
  /\ UNCHANGED <<bundle, phase, list, resuming, results, started, sem, runs, answered, held, merges>>

MergeNext ==
  /\ phase = "merge" /\ at \in Scopes
  /\ IF results[at] = "ok" THEN MergeStep(at) ELSE UNCHANGED <<merged, seen>>
  /\ at' = at + 1
  /\ UNCHANGED <<bundle, phase, list, resuming, results, started, sem, runs, answered, held, merges>>

EndMerge ==
  /\ phase = "merge" /\ at = Len(list) + 1
  /\ phase' = "done"
  /\ UNCHANGED <<disk, list, resuming, results, started, sem, at, seen, runs, answered, held, merges>>

(* The graph and the export are built; the work directory stays, with      *)
(* --keep-workdir or because one of them failed.                           *)
EndKept ==
  /\ phase = "done" /\ phase' = "off"
  /\ UNCHANGED <<disk, list, resuming, results, started, sem, at, seen, runs, answered, held, merges>>

(* No scope could be collected, or the process is killed.                  *)
Abort ==
  /\ phase \in {"collect", "merge"}
  /\ phase' = "off" /\ sem' = 0
  /\ UNCHANGED <<disk, list, resuming, results, started, at, seen, runs, answered, held, merges>>

Progress == Launch \/ (\E i \in Scopes : ScopeEnds(i) \/ ScopeFails(i))
            \/ BeginMerge \/ MergeNext \/ EndMerge

Next == Begin \/ Progress \/ EndKept \/ Abort

Spec == Init /\ [][Next]_vars

(* Every collection returns and the loops go on.                           *)
FairSpec == Spec /\ WF_vars(Progress)

-----------------------------------------------------------------------------
(* Properties.                                                             *)

TypeOK ==
  /\ bundle \in [Dirs -> [inventory : [Types -> SUBSET Lines], facts : SUBSET Lines,
                          surfaces : Nat, coverage : [Types -> Status], ledger : SUBSET Lines]]
  /\ merged \in [inventory : [Types -> SUBSET Lines], facts : [Lines -> Nat],
                 surfaces : Nat, ledger : [Lines -> Nat]]
  /\ phase \in {"off", "collect", "merge", "done"} /\ list \in Lists \cup {<<>>}
  /\ results \in [Dirs -> {"none", "running", "ok", "error"}]
  /\ started \in 0..Len(list) /\ sem \in 0..Pool /\ at \in 1..Len(list) + 1
  /\ seen \in [surface : BOOLEAN, open : SUBSET Types]
  /\ resuming \in BOOLEAN /\ runs \in 0..MaxRuns /\ merges \in 0..MaxRuns
  /\ answered \in [Dirs -> [Types -> Accounts \cup {"nobody"}]]
  /\ held \in [Dirs -> SUBSET Accounts]

Succeeded == {i \in Scopes : results[i] = "ok"}

(* The first merge in a work directory is the union of the bundles of the  *)
(* scopes that succeeded, and of no other's: each fact and coverage file   *)
(* once, a surface common to them once, each inventory shard complete      *)
(* (MergeBundles).                                                         *)
MergeIsUnion ==
  phase = "done" /\ merges = 1 =>
    /\ \A l \in Lines :
         /\ merged.facts[l] = Cardinality({i \in Succeeded : l \in bundle[i].facts})
         /\ merged.ledger[l] = Cardinality({i \in Succeeded : l \in bundle[i].ledger})
    /\ \A t \in Types : merged.inventory[t] = UNION {bundle[i].inventory[t] : i \in Succeeded}
    /\ merged.surfaces = IF Succeeded = {} THEN 0 ELSE 1

(* A scope that succeeded was collected: each seed its directory's         *)
(* coverage has as done was answered by this scope's own account, now or   *)
(* in a run that is resumed.  Only a seed that was skipped as done ("Re-   *)
(* sumed records a task as skipped-because-already-done") may be another   *)
(* account's, and only of one that had the same place in the list of an    *)
(* earlier run: directories are known by position (collectOne), and task   *)
(* ids do not name the account (planner.enumTask).  So a run without       *)
(* --resume, or with a list that stays as it is, takes no other account's  *)
(* answers for its own, whatever earlier runs left or failed at.           *)
ScopeCollected ==
  phase = "done" =>
    \A i \in Succeeded : \A t \in PriorDone(bundle[i].coverage) :
      \/ answered[i][t] = list[i]
      \/ resuming /\ bundle[i].coverage[t] = "skipped" /\ answered[i][t] \in held[i]

(* What a resumed run ought to ensure of a list that is read or discovered *)
(* anew (CollectScopes): that a seed is done was answered by the scope's   *)
(* own account.  The code does not keep this one; it is not checked.       *)
DoneByItsOwnAccount ==
  phase = "done" =>
    \A i \in Succeeded : \A t \in PriorDone(bundle[i].coverage) : answered[i][t] = list[i]

(* However scopes fail, a run that is not aborted gets through: to its     *)
(* merge, or to the point where every scope has failed (CollectScopes).    *)
Ends ==
  phase = "collect" ~> \/ phase \in {"off", "done"}
                       \/ phase = "collect" /\ \A i \in Scopes : results[i] = "error"

=============================================================================
