----------------------------- MODULE Scheduler -----------------------------
(***************************************************************************)
(* The collection DAG (collectors/internal/scheduler/scheduler.go).        *)
(*                                                                         *)
(* Run starts one goroutine per seed (enumerate call); a goroutine takes a *)
(* slot of the semaphore, registers its ledger row, invokes its operation, *)
(* settles the row and then walks the records it got: at the last step of  *)
(* the resource's chain a record becomes an artifact, before it the record *)
(* either starts the goroutine of the next detail call or, when a binding  *)
(* does not resolve, is settled at once as skipped.                        *)
(*                                                                         *)
(* The tree of tasks a run could start is a constant: Child gives the task *)
(* of each record position, RowOf the task id fmt.Sprintf builds for it.   *)
(* idOf reads five record fields and falls back to no suffix at all, so    *)
(* two tasks may have the same id: RowOf need not be injective.            *)
(***************************************************************************)
EXTENDS Ledger

CONSTANTS
  Tasks,        \* every task instance the run could start
  Seeds,        \* the enumerate tasks handed to Run (Step = -1)
  Leaf,         \* the tasks at the last step of their resource's chain
  MaxRecs,      \* bound: the records the call of each task returns at most
  Child,        \* Child[<<t, k>>]: the task that record k of t would start
  RowOf,        \* the task id of each task
  Failures,     \* the classes of error the provider's Classifier reports
  Concurrency   \* capacity of the semaphore

ASSUME TasksAssumption ==
  /\ IsFiniteSet(Tasks)
  /\ Seeds \subseteq Tasks
  /\ Leaf \subseteq Tasks
  /\ MaxRecs \in [Tasks -> Nat]

(* The records that do not end a chain.                                    *)
Slots == UNION {{<<t, k>> : k \in 1..MaxRecs[t]} : t \in Tasks \ Leaf}

(* Every record of every call starts a task of its own, never a seed.      *)
ASSUME ChildAssumption ==
  /\ Child \in [Slots -> Tasks \ Seeds]
  /\ \A x, y \in Slots : Child[x] = Child[y] => x = y

ASSUME FailuresAssumption == Failures \subseteq {"denied", "throttled", "error"}

ASSUME ConcurrencyAssumption == Concurrency \in Nat \ {0}

RowIds == {RowOf[t] : t \in Tasks}

-----------------------------------------------------------------------------

VARIABLES
  pc,         \* where each task's goroutine is
  left,       \* the records a task has still to walk
  out,        \* the outcome a task's call had ("none" before it)
  rows,       \* the ledger
  sem,        \* tokens in the semaphore channel
  wg,         \* counter of the WaitGroup
  tallies,    \* the live counter of each outcome
  seedsDone,  \* seeds settled
  detail,     \* detail calls settled
  artifacts,  \* artifacts emitted
  returned    \* whether Run has returned

vars == <<pc, left, out, rows, sem, wg, tallies, seedsDone, detail, artifacts,
          returned>>
counters == <<tallies, seedsDone, detail>>

(* "idle": never started.  "skipped": settled by its parent, no goroutine. *)
Holding == {"plan", "start", "invoke", "finish", "walk", "skip"}
Live == {"queued", "exit"} \cup Holding
PCs == {"idle", "done", "skipped"} \cup Live

Init ==
  /\ pc = [t \in Tasks |-> "idle"]
  /\ left = [t \in Tasks |-> 0]
  /\ out = [t \in Tasks |-> "none"]
  /\ rows = NoRows(RowIds)
  /\ sem = 0
  /\ wg = 0
  /\ tallies = [s \in Settled |-> 0]
  /\ seedsDone = 0
  /\ detail = 0
  /\ artifacts = 0
  /\ returned = FALSE

Goto(t, from, to) == pc[t] = from /\ pc' = [pc EXCEPT ![t] = to]

(* Run: wg.Add(1) and go run(seed).                                        *)
SpawnSeed(t) ==
  /\ t \in Seeds
  /\ Goto(t, "idle", "queued")
  /\ wg' = wg + 1
  /\ UNCHANGED <<left, out, rows, sem, counters, artifacts, returned>>

(* Run: wg.Wait(), reached once every seed has been started.               *)
Return ==
  /\ ~returned
  /\ \A t \in Seeds : pc[t] # "idle"
  /\ wg = 0
  /\ returned' = TRUE
  /\ UNCHANGED <<pc, left, out, rows, sem, wg, counters, artifacts>>

(* A faulty Acquire, for a mutant: the channel has no capacity.            *)
AcquireUnbounded(t) ==
  /\ Goto(t, "queued", "plan")
  /\ sem' = sem + 1
  /\ UNCHANGED <<left, out, rows, wg, counters, artifacts, returned>>

(* run: s.sem <- struct{}{}                                                *)
Acquire(t) ==
  /\ Goto(t, "queued", "plan")
  /\ sem < Concurrency
  /\ sem' = sem + 1
  /\ UNCHANGED <<left, out, rows, wg, counters, artifacts, returned>>

PlanRow(t) ==
  /\ Goto(t, "plan", "start")
  /\ rows' = Plan(rows, RowOf[t])
  /\ UNCHANGED <<left, out, sem, wg, counters, artifacts, returned>>

StartRow(t) ==
  /\ Goto(t, "start", "invoke")
  /\ rows' = Start(rows, RowOf[t])
  /\ UNCHANGED <<left, out, sem, wg, counters, artifacts, returned>>

(* The provider's answer: an error, classified; no records; or some.  A    *)
(* cancelled context is an error of every later call.                      *)
Invoke(t) ==
  /\ Goto(t, "invoke", "finish")
  /\ \/ /\ \E s \in Failures \cup {"empty"} : out' = [out EXCEPT ![t] = s]
        /\ UNCHANGED left
     \/ /\ out' = [out EXCEPT ![t] = "ok"]
        /\ \E n \in 1..MaxRecs[t] : left' = [left EXCEPT ![t] = n]
  /\ UNCHANGED <<rows, sem, wg, counters, artifacts, returned>>

(* tally: one outcome counter and one of the two progress counters.        *)
Tally(isSeed, status) ==
  /\ tallies' = [tallies EXCEPT ![status] = @ + 1]
  /\ seedsDone' = IF isSeed THEN seedsDone + 1 ELSE seedsDone
  /\ detail' = IF isSeed THEN detail ELSE detail + 1

(* Faulty variants: an error return that forgets the row, one that swallows *)
(* the error, and one that retries a call whose row it has settled.         *)
FinishRowUnlessFailed(t) ==
  /\ Goto(t, "finish", "walk")
  /\ rows' = IF out[t] \in Failures THEN rows ELSE Finish(rows, RowOf[t], out[t])
  /\ Tally(t \in Seeds, out[t])
  /\ UNCHANGED <<left, out, sem, wg, artifacts, returned>>

FinishRowSwallowed(t) ==
  /\ Goto(t, "finish", "walk")
  /\ rows' = Finish(rows, RowOf[t], IF out[t] \in Failures THEN "empty" ELSE out[t])
  /\ Tally(t \in Seeds, out[t])
  /\ UNCHANGED <<left, out, sem, wg, artifacts, returned>>

FinishRowRetry(t) ==
  /\ Goto(t, "finish", IF out[t] = "error" THEN "start" ELSE "walk")
  /\ rows' = Finish(rows, RowOf[t], out[t])
  /\ Tally(t \in Seeds, out[t])
  /\ UNCHANGED <<left, out, sem, wg, artifacts, returned>>

(* The row and the counters are two steps of run; nothing reads both       *)
(* before Run returns, so they are one here.                               *)
FinishRow(t) ==
  /\ Goto(t, "finish", "walk")
  /\ rows' = Finish(rows, RowOf[t], out[t])
  /\ Tally(t \in Seeds, out[t])
  /\ UNCHANGED <<left, out, sem, wg, artifacts, returned>>

-----------------------------------------------------------------------------
(* Walking the records.  The order of the records is the provider's, so    *)
(* they are numbered here by how many are left.                            *)

Walking(t) == pc[t] = "walk" /\ left[t] > 0

(* The chain is complete: emit.                                            *)
Emit(t) ==
  /\ Walking(t)
  /\ t \in Leaf
  /\ artifacts' = artifacts + 1
  /\ left' = [left EXCEPT ![t] = @ - 1]
  /\ UNCHANGED <<pc, out, rows, sem, wg, counters, returned>>

(* A faulty variant: the child adds itself once it runs.                   *)
SpawnChildUncounted(t) ==
  /\ Walking(t)
  /\ t \notin Leaf
  /\ pc' = [pc EXCEPT ![Child[<<t, left[t]>>]] = "queued"]
  /\ left' = [left EXCEPT ![t] = @ - 1]
  /\ UNCHANGED <<out, rows, sem, wg, counters, artifacts, returned>>

(* The bindings resolve: wg.Add(1) and go run(child), without waiting.     *)
SpawnChild(t) ==
  /\ Walking(t)
  /\ t \notin Leaf
  /\ pc' = [pc EXCEPT ![Child[<<t, left[t]>>]] = "queued"]
  /\ wg' = wg + 1
  /\ left' = [left EXCEPT ![t] = @ - 1]
  /\ UNCHANGED <<out, rows, sem, counters, artifacts, returned>>

(* A binding does not resolve: the child's row is planned and finished by  *)
(* the parent, in two calls of the ledger.                                 *)
PlanSkipped(t) ==
  /\ Walking(t)
  /\ t \notin Leaf
  /\ pc' = [pc EXCEPT ![t] = "skip"]
  /\ rows' = Plan(rows, RowOf[Child[<<t, left[t]>>]])
  /\ UNCHANGED <<left, out, sem, wg, counters, artifacts, returned>>

(* A faulty variant: a skipped detail call advances the seeds' progress.   *)
FinishSkippedAsSeed(t) ==
  LET c == Child[<<t, left[t]>>] IN
  /\ pc[t] = "skip"
  /\ pc' = [pc EXCEPT ![t] = "walk", ![c] = "skipped"]
  /\ out' = [out EXCEPT ![c] = "skipped"]
  /\ rows' = Finish(rows, RowOf[c], "skipped")
  /\ Tally(TRUE, "skipped")
  /\ left' = [left EXCEPT ![t] = @ - 1]
  /\ UNCHANGED <<sem, wg, artifacts, returned>>

FinishSkipped(t) ==
  LET c == Child[<<t, left[t]>>] IN
  /\ pc[t] = "skip"
  /\ pc' = [pc EXCEPT ![t] = "walk", ![c] = "skipped"]
  /\ out' = [out EXCEPT ![c] = "skipped"]
  /\ rows' = Finish(rows, RowOf[c], "skipped")
  /\ Tally(FALSE, "skipped")
  /\ left' = [left EXCEPT ![t] = @ - 1]
  /\ UNCHANGED <<sem, wg, artifacts, returned>>

(* A faulty variant: the slot is forgotten on the error path.              *)
ReleaseUnlessFailed(t) ==
  /\ left[t] = 0
  /\ Goto(t, "walk", "exit")
  /\ sem' = IF out[t] \in Failures THEN sem ELSE sem - 1
  /\ UNCHANGED <<left, out, rows, wg, counters, artifacts, returned>>

(* Another: the parent waits for its children before it gives its slot     *)
(* back, as a call of run without "go", or a WaitGroup per task, would.    *)
ReleaseAfterChildren(t) ==
  /\ left[t] = 0
  /\ \A x \in Slots : x[1] = t => pc[Child[x]] \notin Live
  /\ Goto(t, "walk", "exit")
  /\ sem' = sem - 1
  /\ UNCHANGED <<left, out, rows, wg, counters, artifacts, returned>>

(* The deferred calls, last in first out: the slot, then wg.Done().        *)
Release(t) ==
  /\ left[t] = 0
  /\ Goto(t, "walk", "exit")
  /\ sem' = sem - 1
  /\ UNCHANGED <<left, out, rows, wg, counters, artifacts, returned>>

Exit(t) ==
  /\ Goto(t, "exit", "done")
  /\ wg' = wg - 1
  /\ UNCHANGED <<left, out, rows, sem, counters, artifacts, returned>>

-----------------------------------------------------------------------------

Step(t) ==
  \/ Acquire(t) \/ PlanRow(t) \/ StartRow(t) \/ Invoke(t) \/ FinishRow(t)
  \/ Emit(t) \/ SpawnChild(t) \/ PlanSkipped(t) \/ FinishSkipped(t)
  \/ Release(t) \/ Exit(t)

(* Run's caller goes on; nothing is left to happen here.                   *)
Terminated == returned /\ UNCHANGED vars

Next ==
  \/ \E t \in Tasks : SpawnSeed(t) \/ Step(t)
  \/ Return
  \/ Terminated

Spec == Init /\ [][Next]_vars

(* Goroutines are scheduled fairly and every API call returns (the SDK and *)
(* HTTP clients give up at the latest when the context is cancelled).      *)
Fairness ==
  /\ \A t \in Tasks : WF_vars(SpawnSeed(t)) /\ WF_vars(Step(t))
  /\ WF_vars(Return)

FairSpec == Spec /\ Fairness

-----------------------------------------------------------------------------
(* Properties.                                                             *)

TypeOK ==
  /\ pc \in [Tasks -> PCs]
  /\ left \in [Tasks -> Nat]
  /\ \A t \in Tasks : left[t] <= MaxRecs[t]
  /\ out \in [Tasks -> Settled \cup {"none"}]
  /\ rows \in [RowIds -> Status]
  /\ sem \in 0..Concurrency
  /\ wg \in Nat
  /\ tallies \in [Settled -> Nat]
  /\ seedsDone \in Nat /\ detail \in Nat /\ artifacts \in Nat
  /\ returned \in BOOLEAN

(* The semaphore has one token for each task between its send and its      *)
(* deferred receive (run), so at most Concurrency tasks are there and no   *)
(* token leaks when a call fails or a record is skipped.                   *)
SlotsConserved ==
  /\ sem = Cardinality({t \in Tasks : pc[t] \in Holding})
  /\ sem <= Concurrency

(* Run returns only when no goroutine it started, at any depth, is still   *)
(* to run: a child is added to the WaitGroup while its parent is counted.  *)
RunWaitsForAll ==
  returned => \A t \in Tasks : pc[t] \notin Live

(* When Run returns no row is planned or running, whatever ids collide:    *)
(* the row of an id several tasks share is settled by the last of them     *)
(* (Ledger.IntegrityOK, the manifest's integrity_ok).                      *)
IntegrityAtReturn == returned => IntegrityOK(rows)

(* When Run returns every task it ran or skipped has a settled row, and a  *)
(* row whose id only one of them had states that task's own outcome: a     *)
(* failed call is never on record as anything else (run, ledger.Finish).   *)
NoHiddenGap ==
  LET seen == {t \in Tasks : out[t] # "none"} IN
  returned => \A t \in seen :
    /\ rows[RowOf[t]] \in Settled
    /\ (\A u \in seen : RowOf[u] = RowOf[t] => u = t) => rows[RowOf[t]] = out[t]

(* When Run returns the progress counters (tally, and the unresolved       *)
(* binding's own additions) agree with what happened: each seed and each   *)
(* detail call counted once, under its outcome.                            *)
CountersAgree ==
  LET seen == {t \in Tasks : out[t] # "none"} IN
  returned =>
    /\ seedsDone = Cardinality(Seeds)
    /\ detail = Cardinality(seen \ Seeds)
    /\ \A s \in Settled : tallies[s] = Cardinality({t \in seen : out[t] = s})

(* Run returns, also when a chain of detail calls is longer than there are *)
(* slots: a task starts its children with "go" and gives its slot back     *)
(* without waiting for them (run, line 262), so no chain of tasks that     *)
(* hold slots can wait for one slot more; no slot and no wg.Done is lost   *)
(* on the way, whatever fails.                                             *)
Terminates == <>returned

(* The promise of CoveragePromise, kept when every task has its own id.    *)
Promise == INSTANCE CoveragePromise WITH
  Units <- RowIds,
  phase <- [r \in RowIds |-> IF rows[r] = "absent" THEN "unseen"
                             ELSE IF rows[r] \in Open THEN "open" ELSE "settled"],
  closed <- returned

KeepsCoveragePromise == Promise!Spec

=============================================================================
