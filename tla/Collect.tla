------------------------------ MODULE Collect ------------------------------
(***************************************************************************)
(* One work directory over several runs of `thunderstorm scan` (cmdScan in *)
(* collectors/cmd/thunderstorm/main.go, run.Collect): a run is fresh or a  *)
(* --resume, may be interrupted (Ctrl-C cancels the context) or killed (a  *)
(* second Ctrl-C calls os.Exit), and leaves its evidence on disk.          *)
(*                                                                         *)
(* The ledger lives in memory until the end of the run, while every        *)
(* artifact is appended to its shard as it is collected: what a crash      *)
(* leaves behind, and what the next run makes of it, is the subject here.  *)
(* The scheduler's goroutines are module Scheduler; here a task is called  *)
(* in one step and its artifact appended in a later one.                   *)
(***************************************************************************)
EXTENDS Ledger

CONSTANTS
  Seeds,      \* the enumerate tasks planner.Seed builds, by task id
  Details,    \* the detail tasks, by task id; the last step of their chain
  Parent,     \* the seed whose records start each detail task
  Facts,      \* the tasks of the facts tier and of the exposure prober
  Rank,       \* the place of each task id in Ledger.Rows, which sorts them
  Failures,   \* the classes of error the provider's Classifier reports
  MaxRuns     \* bound: the runs started in the work directory

ASSUME CollectAssumption ==
  /\ Seeds \cap Details = {} /\ (Seeds \cup Details) \cap Facts = {}
  /\ Parent \in [Details -> Seeds]
  /\ "error" \in Failures /\ Failures \subseteq {"denied", "throttled", "error"}
  /\ MaxRuns \in Nat

Ids == Seeds \cup Details \cup Facts

ASSUME RankAssumption ==
  Rank \in [Ids -> Nat] /\ \A x, y \in Ids : Rank[x] = Rank[y] => x = y

DetailsOf(s) == {d \in Details : Parent[d] = s}
Chained == {Parent[d] : d \in Details}
(* The tasks whose one record ends a chain and becomes an artifact.        *)
Emitters == (Seeds \ Chained) \cup Details

VARIABLES
  inventory,  \* disk: the lines of each artifact in inventory/, facts/, exposure/
  coverage,   \* disk: ledger/coverage.ndjson; all "absent" when there is none
  phase,      \* where the run is, "off" between runs
  resuming,   \* the run's --resume
  cancelled,  \* the run's context is cancelled
  rows,       \* the run's ledger, in memory
  todo,       \* tasks the run has still to call
  pending,    \* artifacts of answered calls, not yet appended
  runs,       \* runs started
  prior,      \* history: the coverage the run found
  answers,    \* history: what each seed was last answered since the last clearing
  stale,      \* history: the coverage on disk tells of runs before the last clearing
  crashed     \* history: a run was killed since the last clearing

disk == <<inventory, coverage>>
run == <<phase, resuming, cancelled, rows, todo, pending, runs, prior>>
history == <<answers, stale, crashed>>
vars == <<disk, run, history>>

NothingIn == [id \in Ids |-> 0]
NoAnswers == [s \in Seeds |-> "none"]

Init ==
  /\ inventory = NothingIn /\ coverage = NoRows(Ids)
  /\ phase = "off" /\ resuming = FALSE /\ cancelled = FALSE
  /\ rows = NoRows(Ids) /\ todo = {} /\ pending = {} /\ runs = 0
  /\ prior = NoRows(Ids) /\ answers = NoAnswers /\ stale = FALSE /\ crashed = FALSE

-----------------------------------------------------------------------------
(* The start of a run.                                                     *)

NewRun(resume) ==
  /\ phase = "off" /\ runs < MaxRuns
  /\ runs' = runs + 1
  /\ phase' = "collect"
  /\ resuming' = resume
  /\ cancelled' = FALSE
  /\ pending' = {}

(* A faulty variant: the shards of an earlier run linger.                  *)
BeginFreshLingering ==
  /\ NewRun(FALSE)
  /\ answers' = NoAnswers /\ crashed' = FALSE
  /\ stale' = (coverage # NoRows(Ids))
  /\ rows' = NoRows(Ids) /\ todo' = Seeds /\ prior' = NoRows(Ids)
  /\ UNCHANGED <<inventory, coverage>>

(* output.New(dir, fresh) clears the shards, not the ledger directory.     *)
BeginFresh ==
  /\ NewRun(FALSE)
  /\ inventory' = NothingIn
  /\ answers' = NoAnswers /\ crashed' = FALSE
  /\ stale' = (coverage # NoRows(Ids))
  /\ rows' = NoRows(Ids) /\ todo' = Seeds /\ prior' = NoRows(Ids)
  /\ UNCHANGED coverage

(* A faulty variant: the shards are cleared on every start.                *)
BeginResumeClearing ==
  LET done == Seeds \cap PriorDone(coverage) IN
  /\ NewRun(TRUE)
  /\ inventory' = NothingIn
  /\ rows' = Resumed(NoRows(Ids), done)
  /\ todo' = Seeds \ done
  /\ prior' = coverage
  /\ UNCHANGED <<coverage, history>>

(* --resume: the shards are appended to; a seed the coverage has as done   *)
(* is recorded as skipped and not called.  Without a readable coverage     *)
(* every seed is called ("running fresh"), into the shards as they are.    *)
BeginResume ==
  LET done == Seeds \cap PriorDone(coverage) IN
  /\ NewRun(TRUE)
  /\ rows' = Resumed(NoRows(Ids), done)
  /\ todo' = Seeds \ done
  /\ prior' = coverage
  /\ UNCHANGED <<disk, history>>

-----------------------------------------------------------------------------
(* The collection DAG (Scheduler.Run), one call at a time.                 *)

Settle(ledger, t, s) == Finish(Start(Plan(ledger, t), t), t, s)

Answer(t, s) ==
  answers' = IF t \in Seeds THEN [answers EXCEPT ![t] = s] ELSE answers

(* The call fails or has no records; with a cancelled context it fails.    *)
CallBarren(t) ==
  /\ phase = "collect" /\ t \in todo
  /\ \E s \in IF cancelled THEN {"error"} ELSE Failures \cup {"empty"} :
       rows' = Settle(rows, t, s) /\ Answer(t, s)
  /\ todo' = todo \ {t}
  /\ UNCHANGED <<disk, phase, resuming, cancelled, pending, runs, prior, stale, crashed>>

(* A faulty variant: every record is emitted, also before its detail call. *)
CallEmitterAtEveryStep(t) ==
  /\ phase = "collect" /\ t \in todo /\ ~cancelled
  /\ rows' = Settle(rows, t, "ok") /\ Answer(t, "ok")
  /\ todo' = todo \ {t}
  /\ pending' = pending \cup {t}
  /\ UNCHANGED <<disk, phase, resuming, cancelled, runs, prior, stale, crashed>>

(* A record at the end of its chain: it will be appended after its row is  *)
(* settled.                                                                *)
CallEmitter(t) ==
  /\ phase = "collect" /\ t \in todo \cap Emitters /\ ~cancelled
  /\ rows' = Settle(rows, t, "ok") /\ Answer(t, "ok")
  /\ todo' = todo \ {t}
  /\ pending' = pending \cup {t}
  /\ UNCHANGED <<disk, phase, resuming, cancelled, runs, prior, stale, crashed>>

(* Records of a chain: each starts its detail task, or is skipped when a   *)
(* binding does not resolve.                                               *)
CallChained(t) ==
  /\ phase = "collect" /\ t \in todo \cap Chained /\ ~cancelled
  /\ Answer(t, "ok")
  /\ \E found \in SUBSET DetailsOf(t) \ {{}} : \E unresolved \in SUBSET found :
       /\ rows' = [id \in Ids |-> IF id \in unresolved THEN "skipped"
                                  ELSE Settle(rows, t, "ok")[id]]
       /\ todo' = (todo \ {t}) \cup (found \ unresolved)
  /\ UNCHANGED <<disk, phase, resuming, cancelled, pending, runs, prior, stale, crashed>>

(* Bundle.AppendJSON.                                                      *)
Append(t) ==
  /\ phase \in {"collect", "facts"} /\ t \in pending
  /\ inventory' = [inventory EXCEPT ![t] = @ + 1]
  /\ pending' = pending \ {t}
  /\ UNCHANGED <<coverage, phase, resuming, cancelled, rows, todo, runs, prior, history>>

(* A faulty variant: the run goes on while artifacts are still to append.  *)
RunReturnsEarly ==
  /\ phase = "collect" /\ todo = {}
  /\ phase' = "facts"
  /\ todo' = Facts
  /\ UNCHANGED <<disk, resuming, cancelled, rows, pending, runs, prior, history>>

(* Scheduler.Run returns once every task has ended (Scheduler!RunWaitsForAll). *)
RunReturns ==
  /\ phase = "collect" /\ todo = {} /\ pending = {}
  /\ phase' = "facts"
  /\ todo' = Facts
  /\ UNCHANGED <<disk, resuming, cancelled, rows, pending, runs, prior, history>>

(* A fact collector or exposure site, called in every run, resumed or not: *)
(* it appends as it goes, so one that fails may have appended before.  A   *)
(* site outside the read API is recorded as a surface and skipped, without *)
(* a call; neither tier asks whether the context is cancelled.             *)
CallFact(t) ==
  /\ phase = "facts" /\ t \in todo
  /\ \E s \in Failures \cup {"empty", "ok", "skipped"} :
       /\ rows' = Settle(rows, t, s)
       /\ \E n \in CASE s = "ok" -> {1} [] s = "empty" -> {0} [] OTHER -> {0, 1} :
            inventory' = [inventory EXCEPT ![t] = @ + n]
  /\ todo' = todo \ {t}
  /\ UNCHANGED <<coverage, phase, resuming, cancelled, pending, runs, prior, history>>

-----------------------------------------------------------------------------
(* The end of a run.                                                       *)

(* os.WriteFile truncates coverage.ndjson and then writes its lines: a     *)
(* crash may leave the first few.  A file cut inside a line is unreadable  *)
(* and as good as none.                                                    *)
UpTo(last) == {id \in Ids : Rank[id] <= Rank[last]}

WriteSomeCoverage ==
  /\ phase = "facts" /\ todo = {}
  /\ phase' = "writing"
  /\ \E part \in {{}} \cup {UpTo(last) : last \in Ids} :
       coverage' = [id \in Ids |-> IF id \in part THEN rows[id] ELSE "absent"]
  /\ stale' = (stale /\ resuming)
  /\ UNCHANGED <<inventory, resuming, cancelled, rows, todo, pending, runs, prior,
                 answers, crashed>>

WriteCoverage ==
  /\ phase = "writing"
  /\ phase' = "export"
  /\ coverage' = rows
  /\ UNCHANGED <<inventory, resuming, cancelled, rows, todo, pending, runs, prior, history>>

(* The process ends: its memory is gone.                                   *)
Exits ==
  /\ phase' = "off"
  /\ resuming' = FALSE /\ cancelled' = FALSE
  /\ rows' = NoRows(Ids) /\ prior' = NoRows(Ids)
  /\ todo' = {} /\ pending' = {}
  /\ UNCHANGED runs

(* Report, manifest, zip, graph and engagement are written, none of which  *)
(* a later run reads.  A failure there ends the run with the work          *)
(* directory kept; else it is kept only with --keep-workdir.               *)
EndKept ==
  /\ phase = "export" /\ Exits
  /\ UNCHANGED <<disk, history>>

EndRemoved ==
  /\ phase = "export" /\ Exits
  /\ inventory' = NothingIn /\ coverage' = NoRows(Ids)
  /\ answers' = NoAnswers /\ stale' = FALSE /\ crashed' = FALSE

(* The first Ctrl-C or SIGTERM (runContext); what follows the facts tier   *)
(* does not look at the context.                                           *)
Interrupt ==
  /\ phase \in {"collect", "facts"} /\ ~cancelled
  /\ cancelled' = TRUE
  /\ UNCHANGED <<disk, phase, resuming, rows, todo, pending, runs, prior, history>>

(* The second one, a kill, a power cut, or an error return of Collect that *)
(* ends the process: the disk stays as it is.                              *)
Crash ==
  /\ phase # "off" /\ Exits
  /\ crashed' = TRUE
  /\ UNCHANGED <<disk, answers, stale>>

Next ==
  \/ BeginFresh \/ BeginResume
  \/ \E t \in Ids : CallBarren(t) \/ CallEmitter(t) \/ CallChained(t)
                    \/ Append(t) \/ CallFact(t)
  \/ RunReturns \/ WriteSomeCoverage \/ WriteCoverage
  \/ EndKept \/ EndRemoved \/ Interrupt \/ Crash

Spec == Init /\ [][Next]_vars

-----------------------------------------------------------------------------
(* Properties.                                                             *)

TypeOK ==
  /\ inventory \in [Ids -> Nat]
  /\ coverage \in [Ids -> Status] /\ rows \in [Ids -> Status] /\ prior \in [Ids -> Status]
  /\ phase \in {"off", "collect", "facts", "writing", "export"}
  /\ resuming \in BOOLEAN /\ cancelled \in BOOLEAN
  /\ todo \subseteq Ids /\ pending \subseteq Emitters
  /\ runs \in 0..MaxRuns
  /\ answers \in [Seeds -> Settled \cup {"none"}]
  /\ stale \in BOOLEAN /\ crashed \in BOOLEAN

(* The evidence of a fresh run, once it is exported, is what that run      *)
(* collected and nothing else, each artifact once, whatever runs and       *)
(* crashes the directory saw before (output.New, emit).                    *)
FreshBundleExact ==
  phase = "export" /\ ~resuming =>
    /\ \A t \in Emitters : inventory[t] = IF rows[t] = "ok" THEN 1 ELSE 0
    /\ \A f \in Facts : inventory[f] \in IF rows[f] = "ok" THEN {1} ELSE {0, 1}

(* However often a bundle is resumed, no inventory artifact is on record   *)
(* twice, unless a run was killed before it wrote its coverage (NewPrior,  *)
(* Ledger.Resumed; the facts tier makes no such promise).                  *)
NothingCollectedTwice ==
  ~crashed => \A t \in Emitters : inventory[t] <= 1

(* A seed the coverage has as done was answered so, in whichever run, and  *)
(* if it was answered with a record the artifact is on disk, also after a  *)
(* crash at any point, for a coverage written since the directory was last *)
(* cleared (Collect, NewPrior).                                            *)
CoverageIsBacked ==
  ~stale => \A t \in Seeds \cap PriorDone(coverage) :
    /\ answers[t] \in DoneStatus
    /\ answers[t] = "ok" /\ t \in Emitters => inventory[t] >= 1

(* Lines of evidence leave the disk in two steps only: when a run that is  *)
(* not a --resume starts and clears the shards (output.New), and when a    *)
(* run has made its engagement and removes the whole work directory, the   *)
(* coverage with it (cmdScan).  So a resume begins with every line that    *)
(* earlier runs left, interrupted and killed ones too, and only adds to    *)
(* them; and a seed that was retryable, or not on record, when it began is *)
(* called again before it ends (Collect, NewPrior).                        *)
ResumeOnlyAdds ==
  [][/\ \/ \A id \in Ids : inventory'[id] >= inventory[id]
        \/ phase = "off" /\ phase' = "collect" /\ ~resuming'
        \/ phase = "export" /\ phase' = "off" /\ coverage' = NoRows(Ids)
     /\ phase = "writing" /\ phase' = "export" /\ resuming =>
          \A t \in Seeds : prior[t] \in Retryable \cup {"absent"} =>
                              coverage'[t] \notin {"absent", "skipped"}]_vars

(* The code does not keep the three that follow.  What runContext says on  *)
(* the first interrupt, "keeping the workdir": a run that was interrupted  *)
(* ends with its evidence on disk.  The calls in flight fail, and cmdScan  *)
(* goes on to the engagement and os.RemoveAll as after any other run.      *)
InterruptKeepsWorkdir ==
  [][cancelled /\ phase' = "off" => UNCHANGED disk]_vars

(* What the report says of a retryable row, "re-run resumes these": a      *)
(* detail call that errored or was throttled is called again by the next   *)
(* resumed run, or its enumerate call is (Report, NewPrior).               *)
RetryableDetailRerun ==
  phase = "export" /\ resuming /\ ~crashed =>
    \A d \in Details : prior[d] \in Retryable =>
      rows[d] # "absent" \/ rows[Parent[d]] # "skipped"

(* What the ledger is for, gaps that cannot be hidden: a seed the bundle's *)
(* coverage had as denied, and that the resumed run does not call again,   *)
(* is still on record as denied (Resumed, Report's "none were denied").    *)
DeniedStaysOnRecord ==
  phase = "export" /\ resuming /\ ~crashed =>
    \A t \in Seeds : prior[t] = "denied" => rows[t] # "skipped"

=============================================================================
