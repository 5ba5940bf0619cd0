--------------------------- MODULE CollectProofs ---------------------------
(***************************************************************************)
(* Proofs about Collect for every plan of seeds and details, every number  *)
(* of runs, and every sequence of fresh, resumed, interrupted and killed   *)
(* ones.                                                                   *)
(***************************************************************************)
EXTENDS Collect, TLAPS

(* The seed that has to be called for a task to be called.                 *)
Root(t) == IF t \in Details THEN Parent[t] ELSE t

(* The shape of a run: what is still to call has no row yet, and no detail *)
(* comes before its seed was answered with records.                        *)
RunInv ==
  /\ phase = "off" => ~resuming
  /\ phase = "collect" => todo \subseteq Seeds \cup Details
  /\ phase # "collect" => todo \subseteq Facts /\ pending = {}
  /\ phase \in {"off", "writing", "export"} => todo = {}
  /\ phase = "export" => coverage = rows
  /\ \A t \in todo \ Facts : rows[t] = "absent"
  /\ \A d \in Details : rows[Parent[d]] # "ok" => rows[d] = "absent" /\ d \notin todo

(* A fresh run has on disk what its ledger has as ok, less what is still   *)
(* to be appended.                                                         *)
FreshInv ==
  phase # "off" /\ ~resuming =>
    /\ \A t \in Emitters : inventory[t] = IF rows[t] = "ok" /\ t \notin pending THEN 1 ELSE 0
    /\ \A t \in pending : rows[t] = "ok"
    /\ \A f \in Facts :
         /\ phase = "collect" \/ f \in todo => inventory[f] = 0
         /\ ~(phase = "collect" \/ f \in todo) =>
              inventory[f] \in IF rows[f] = "ok" THEN {1} ELSE {0, 1}

(* Without a crash, what is on disk or about to be is not called again: in *)
(* a run its seed has a row that says so, between runs the coverage has.   *)
OnceInv ==
  ~crashed => \A t \in Emitters :
    /\ inventory[t] <= 1
    /\ phase = "off" /\ inventory[t] = 1 => coverage[Root(t)] \in DoneStatus
    /\ t \in pending => inventory[t] = 0
    /\ phase # "off" /\ (inventory[t] = 1 \/ t \in pending) =>
         rows[Root(t)] \in {"ok", "skipped"} /\ t \notin todo

(* A seed on record as done, on disk or in memory, was answered, and its   *)
(* record, if it is an artifact, is on disk, or about to be.               *)
BackedOnDisk(s) ==
  ~stale /\ coverage[s] \in DoneStatus =>
    /\ answers[s] \in DoneStatus
    /\ answers[s] = "ok" /\ s \in Emitters => inventory[s] >= 1

BackedInMemory(s) ==
  phase # "off" /\ ~(stale /\ resuming) /\ rows[s] \in DoneStatus =>
    /\ answers[s] \in DoneStatus
    /\ answers[s] = "ok" /\ s \in Emitters => inventory[s] >= 1 \/ s \in pending

(* What the coverage on disk has as done is not called again.              *)
NotRepeated(s) ==
  phase \in {"collect", "facts"} /\ ~stale /\ coverage[s] \in DoneStatus => s \notin todo

BackedSeed(s) == BackedOnDisk(s) /\ BackedInMemory(s) /\ NotRepeated(s)

BackedInv == \A s \in Seeds : BackedSeed(s)

(* A resumed run owes a call to each seed its prior run had not done.      *)
RetryInv ==
  phase # "off" /\ resuming =>
    \A s \in Seeds : prior[s] \notin DoneStatus =>
      s \in todo \/ rows[s] \notin {"absent", "skipped"}

IInv == TypeOK /\ RunInv /\ FreshInv /\ OnceInv /\ BackedInv /\ RetryInv

-----------------------------------------------------------------------------
(* The sets of tasks, and the operators of the ledger.                     *)

LEMMA TaskSets ==
  /\ Emitters \subseteq Seeds \cup Details
  /\ Chained \subseteq Seeds /\ Chained \cap Emitters = {}
  /\ (Seeds \cup Details) \cap Facts = {} /\ Seeds \cap Details = {}
  /\ \A t \in Emitters : Root(t) \in Seeds /\ (t \in Seeds => Root(t) = t)
  /\ \A d \in Details : Parent[d] \in Chained /\ Root(d) = Parent[d] /\ d \in Emitters
BY CollectAssumption DEF Emitters, Chained, Root

(* The three calls a task makes leave its row with its outcome.            *)
LEMMA SettleSets ==
  ASSUME NEW ledger \in [Ids -> Status], NEW t \in Ids, NEW s \in Settled
  PROVE  Settle(ledger, t, s) = [ledger EXCEPT ![t] = s]
BY DEF Settle, Plan, Start, Finish, Status, Open, Settled

LEMMA ResumedRows ==
  ASSUME NEW done
  PROVE  Resumed(NoRows(Ids), done) = [id \in Ids |-> IF id \in done THEN "skipped" ELSE "absent"]
BY DEF Resumed, NoRows

(* A chained call: some of the details its records name are to be called,  *)
(* the others are skipped.                                                 *)
StartsDetails(t, found, unresolved) ==
  /\ rows' = [id \in Ids |-> IF id \in unresolved THEN "skipped"
                              ELSE IF id = t THEN "ok" ELSE rows[id]]
  /\ todo' = (todo \ {t}) \cup (found \ unresolved)

(* A fact task: it ends with a row, and has appended n artifacts.          *)
SettlesFact(t, s, n) ==
  /\ rows' = [rows EXCEPT ![t] = s]
  /\ s = "ok" => n = 1
  /\ inventory' = [inventory EXCEPT ![t] = @ + n]

(* What the calls of the collection do to the ledger.                      *)
LEMMA CallRows ==
  ASSUME TypeOK, NEW t \in Ids
  PROVE  /\ CallBarren(t) => \E s \in Settled \ {"ok"} :
                               rows' = [rows EXCEPT ![t] = s] /\ Answer(t, s)
         /\ CallEmitter(t) => rows' = [rows EXCEPT ![t] = "ok"]
         /\ CallChained(t) =>
              \E found \in SUBSET DetailsOf(t) : \E unresolved \in SUBSET found :
                StartsDetails(t, found, unresolved)
         /\ CallFact(t) => \E s \in Settled : \E n \in {0, 1} : SettlesFact(t, s, n)
<1>. USE DEF TypeOK
<1>1. \A s \in Settled : Settle(rows, t, s) = [rows EXCEPT ![t] = s]
  BY SettleSets
<1>2. Failures \subseteq Settled \ {"ok", "empty", "skipped"} /\ {"error"} \subseteq Failures
  BY CollectAssumption DEF Settled
<1>3. CallBarren(t) => \E s \in Settled \ {"ok"} :
        rows' = [rows EXCEPT ![t] = s] /\ Answer(t, s)
  <2>. SUFFICES ASSUME CallBarren(t)
                PROVE  \E s \in Settled \ {"ok"} : rows' = [rows EXCEPT ![t] = s] /\ Answer(t, s)
    OBVIOUS
  <2>1. PICK s \in IF cancelled THEN {"error"} ELSE Failures \cup {"empty"} :
          rows' = Settle(rows, t, s) /\ Answer(t, s)
    BY DEF CallBarren
  <2>2. s \in Settled \ {"ok"}
    BY <1>2 DEF Settled
  <2>. QED  BY <1>1, <2>1, <2>2
<1>4. CallEmitter(t) => rows' = [rows EXCEPT ![t] = "ok"]
  BY <1>1 DEF CallEmitter, Settled
<1>5. CallChained(t) =>
        \E found \in SUBSET DetailsOf(t) : \E unresolved \in SUBSET found :
          StartsDetails(t, found, unresolved)
  <2>1. \A id \in Ids : Settle(rows, t, "ok")[id] = IF id = t THEN "ok" ELSE rows[id]
    BY <1>1 DEF Settled
  <2>. QED  BY <2>1 DEF CallChained, StartsDetails
<1>6. CallFact(t) => \E s \in Settled : \E n \in {0, 1} : SettlesFact(t, s, n)
  <2>. SUFFICES ASSUME CallFact(t)
                PROVE  \E s \in Settled : \E n \in {0, 1} : SettlesFact(t, s, n)
    OBVIOUS
  <2>1. PICK s \in Failures \cup {"empty", "ok", "skipped"} :
          /\ rows' = Settle(rows, t, s)
          /\ \E n \in CASE s = "ok" -> {1} [] s = "empty" -> {0} [] OTHER -> {0, 1} :
               inventory' = [inventory EXCEPT ![t] = @ + n]
    BY DEF CallFact
  <2>2. PICK n \in CASE s = "ok" -> {1} [] s = "empty" -> {0} [] OTHER -> {0, 1} :
          inventory' = [inventory EXCEPT ![t] = @ + n]
    BY <2>1
  <2>3. s \in Settled
    BY <1>2 DEF Settled
  <2>4. n \in {0, 1} /\ (s = "ok" => n = 1)
    OBVIOUS
  <2>. QED  BY <1>1, <2>1, <2>2, <2>3, <2>4 DEF SettlesFact
<1>. QED  BY <1>3, <1>4, <1>5, <1>6
LEMMA InitIInv == Init => IInv
<1>. SUFFICES ASSUME Init PROVE IInv
  OBVIOUS
<1>. USE DEF Init, NothingIn, NoAnswers
<1>1. rows = [id \in Ids |-> "absent"] /\ coverage = rows /\ prior = rows
  BY DEF NoRows
<1>2. TypeOK
  <2>1. rows \in [Ids -> Status] /\ coverage \in [Ids -> Status] /\ prior \in [Ids -> Status]
    BY <1>1 DEF Status
  <2>2. runs \in 0..MaxRuns
    BY CollectAssumption
  <2>3. inventory \in [Ids -> Nat] /\ answers \in [Seeds -> Settled \cup {"none"}]
    OBVIOUS
  <2>. QED  BY <2>1, <2>2, <2>3 DEF TypeOK
<1>3. RunInv
  BY <1>1, TaskSets DEF RunInv, Ids
<1>4. FreshInv /\ RetryInv
  BY DEF FreshInv, RetryInv
<1>5. OnceInv
  BY TaskSets DEF OnceInv, Ids
<1>6. BackedInv
  BY <1>1 DEF BackedInv, BackedSeed, BackedOnDisk, BackedInMemory, NotRepeated, DoneStatus, Ids
<1>. QED  BY <1>2, <1>3, <1>4, <1>5, <1>6 DEF IInv

-----------------------------------------------------------------------------
(* The step, one part of the invariant at a time.                          *)

LEMMA TypeStep == IInv /\ [Next]_vars => TypeOK'
<1>. SUFFICES ASSUME TypeOK, RunInv, [Next]_vars PROVE TypeOK'
  BY DEF IInv
<1>. USE DEF TypeOK
<1>0. MaxRuns \in Nat
  BY CollectAssumption
<1>1. /\ NoRows(Ids) \in [Ids -> Status] /\ NothingIn \in [Ids -> Nat]
      /\ NoAnswers \in [Seeds -> Settled \cup {"none"}]
      /\ Seeds \cup Details \cup Facts = Ids
  BY DEF NoRows, Status, NothingIn, NoAnswers, Ids
<1>2. CASE BeginFresh
  <2>1. runs' \in 0..MaxRuns
    BY <1>0, <1>2 DEF BeginFresh, NewRun
  <2>2. stale' \in BOOLEAN
    BY <1>2 DEF BeginFresh
  <2>. QED  BY <1>1, <1>2, <2>1, <2>2 DEF BeginFresh, NewRun
<1>3. CASE BeginResume
  <2>1. rows' \in [Ids -> Status]
    BY <1>3, ResumedRows DEF BeginResume, Status, Settled
  <2>2. runs' \in 0..MaxRuns
    BY <1>0, <1>3 DEF BeginResume, NewRun
  <2>3. resuming' \in BOOLEAN /\ cancelled' \in BOOLEAN
    BY <1>3 DEF BeginResume, NewRun
  <2>4. /\ phase' = "collect" /\ pending' = {} /\ todo' \subseteq Ids
        /\ prior' = coverage /\ UNCHANGED <<inventory, coverage, answers, stale, crashed>>
    BY <1>1, <1>3 DEF BeginResume, NewRun, disk, history
  <2>. QED  BY <2>1, <2>2, <2>3, <2>4
<1>4. ASSUME NEW t \in Ids, CallBarren(t) PROVE TypeOK'
  <2>1. PICK s \in Settled \ {"ok"} : rows' = [rows EXCEPT ![t] = s] /\ Answer(t, s)
    BY <1>4, CallRows
  <2>2. rows' \in [Ids -> Status] /\ answers' \in [Seeds -> Settled \cup {"none"}]
    BY <2>1 DEF Answer, Status
  <2>. QED  BY <1>4, <2>2 DEF CallBarren, disk
<1>5. ASSUME NEW t \in Ids, CallEmitter(t) PROVE TypeOK'
  <2>1. rows' \in [Ids -> Status] /\ answers' \in [Seeds -> Settled \cup {"none"}]
    BY <1>5, CallRows DEF CallEmitter, Answer, Status, Settled
  <2>. QED  BY <1>5, <2>1 DEF CallEmitter, disk
<1>6. ASSUME NEW t \in Ids, CallChained(t) PROVE TypeOK'
  <2>0. PICK found \in SUBSET DetailsOf(t) :
          \E unresolved \in SUBSET found : StartsDetails(t, found, unresolved)
    BY <1>6, CallRows
  <2>1. PICK unresolved \in SUBSET found : StartsDetails(t, found, unresolved)
    BY <2>0
  <2>2. rows' \in [Ids -> Status] /\ todo' \subseteq Ids
    BY <1>1, <2>1 DEF StartsDetails, Status, Settled, DetailsOf
  <2>3. answers' \in [Seeds -> Settled \cup {"none"}]
    BY <1>6 DEF CallChained, Answer, Settled
  <2>. QED  BY <1>6, <2>2, <2>3 DEF CallChained, disk
<1>7. ASSUME NEW t \in Ids, Append(t) PROVE TypeOK'
  BY <1>7 DEF Append, history
<1>8. ASSUME NEW t \in Ids, CallFact(t) PROVE TypeOK'
  <2>0. PICK s \in Settled : \E n \in {0, 1} : SettlesFact(t, s, n)
    BY <1>8, CallRows
  <2>1. PICK n \in {0, 1} : SettlesFact(t, s, n)
    BY <2>0
  <2>2. rows' \in [Ids -> Status]
    BY <2>1 DEF SettlesFact, Status
  <2>3. inventory' \in [Ids -> Nat]
    BY <2>1 DEF SettlesFact
  <2>. QED  BY <1>8, <2>2, <2>3 DEF CallFact, history
<1>9. CASE RunReturns
  BY <1>1, <1>9 DEF RunReturns, disk, history
<1>10. CASE WriteSomeCoverage
  <2>1. coverage' \in [Ids -> Status]
    BY <1>10 DEF WriteSomeCoverage, Status
  <2>. QED  BY <1>10, <2>1 DEF WriteSomeCoverage
<1>11. CASE WriteCoverage
  BY <1>11 DEF WriteCoverage, history
<1>12. CASE EndKept \/ EndRemoved \/ Crash
  BY <1>1, <1>12 DEF EndKept, EndRemoved, Crash, Exits, disk, history
<1>13. CASE Interrupt \/ UNCHANGED vars
  BY <1>13 DEF Interrupt, vars, disk, run, history
<1>. QED
  BY <1>2, <1>3, <1>4, <1>5, <1>6, <1>7, <1>8, <1>9, <1>10, <1>11, <1>12, <1>13 DEF Next

LEMMA RunStep == IInv /\ [Next]_vars => RunInv'
<1>. SUFFICES ASSUME TypeOK, RunInv, [Next]_vars PROVE RunInv'
  BY DEF IInv
<1>. USE DEF TypeOK, RunInv
<1>1. CASE BeginFresh
  BY <1>1, TaskSets DEF BeginFresh, NewRun, NoRows, Ids
<1>2. CASE BeginResume
  <2>1. rows' = [id \in Ids |-> IF id \in Seeds \cap PriorDone(coverage) THEN "skipped" ELSE "absent"]
    BY <1>2, ResumedRows DEF BeginResume
  <2>2. todo' = Seeds \ PriorDone(coverage) /\ phase' = "collect"
    BY <1>2 DEF BeginResume, NewRun
  <2>. QED  BY <2>1, <2>2, TaskSets DEF Ids
<1>3. ASSUME NEW t \in Ids, CallBarren(t) PROVE RunInv'
  <2>1. PICK s \in Settled \ {"ok"} : rows' = [rows EXCEPT ![t] = s] /\ Answer(t, s)
    BY <1>3, CallRows
  <2>2. phase = "collect" /\ t \in todo /\ todo' = todo \ {t} /\ phase' = phase
        /\ resuming' = resuming /\ rows[t] = "absent"
    BY <1>3, TaskSets DEF CallBarren
  <2>3. ASSUME NEW d \in Details, rows'[Parent[d]] # "ok" PROVE rows'[d] = "absent" /\ d \notin todo'
    <3>1. rows[Parent[d]] # "ok"
      BY <2>1, <2>2, <2>3
    <3>. QED  BY <2>1, <2>2, <3>1
  <2>. QED  BY <2>1, <2>2, <2>3
<1>4. ASSUME NEW t \in Ids, CallEmitter(t) PROVE RunInv'
  <2>1. rows' = [rows EXCEPT ![t] = "ok"]
    BY <1>4, CallRows
  <2>2. phase = "collect" /\ t \in todo /\ todo' = todo \ {t} /\ phase' = phase
        /\ resuming' = resuming /\ rows[t] = "absent"
    BY <1>4, TaskSets DEF CallEmitter
  <2>. QED  BY <2>1, <2>2
<1>5. ASSUME NEW t \in Ids, CallChained(t) PROVE RunInv'
  <2>0. PICK found \in SUBSET DetailsOf(t) :
          \E unresolved \in SUBSET found : StartsDetails(t, found, unresolved)
    BY <1>5, CallRows
  <2>1. PICK unresolved \in SUBSET found : StartsDetails(t, found, unresolved)
    BY <2>0
  <2>2. phase = "collect" /\ t \in todo /\ phase' = phase /\ resuming' = resuming
        /\ rows[t] = "absent" /\ t \in Seeds
    BY <1>5, TaskSets DEF CallChained
  <2>3. \A d \in found : d \in Details /\ Parent[d] = t /\ rows[d] = "absent"
    BY <2>2 DEF DetailsOf
  <2>. QED  BY <2>1, <2>2, <2>3, TaskSets DEF StartsDetails, Ids
<1>6. ASSUME NEW t \in Ids, Append(t) PROVE RunInv'
  BY <1>6 DEF Append
<1>7. ASSUME NEW t \in Ids, CallFact(t) PROVE RunInv'
  <2>1. PICK s \in Settled : rows' = [rows EXCEPT ![t] = s]
    BY <1>7, CallRows DEF SettlesFact
  <2>2. phase = "facts" /\ t \in Facts /\ todo' = todo \ {t} /\ phase' = phase
        /\ resuming' = resuming /\ pending' = pending
    BY <1>7 DEF CallFact
  <2>. QED  BY <2>1, <2>2, TaskSets DEF Ids
<1>8. CASE RunReturns
  BY <1>8, TaskSets DEF RunReturns
<1>9. CASE WriteSomeCoverage \/ WriteCoverage
  BY <1>9 DEF WriteSomeCoverage, WriteCoverage
<1>10. CASE EndKept \/ EndRemoved \/ Crash
  BY <1>10, TaskSets DEF EndKept, EndRemoved, Crash, Exits, NoRows, Ids
<1>11. CASE Interrupt \/ UNCHANGED vars
  BY <1>11 DEF Interrupt, vars, disk, run, history
<1>. QED
  BY <1>1, <1>2, <1>3, <1>4, <1>5, <1>6, <1>7, <1>8, <1>9, <1>10, <1>11 DEF Next
LEMMA FreshStep == IInv /\ [Next]_vars => FreshInv'
<1>. SUFFICES ASSUME TypeOK, RunInv, FreshInv, [Next]_vars, phase' # "off", ~resuming'
              PROVE  /\ \A t \in Emitters :
                          inventory'[t] = IF rows'[t] = "ok" /\ t \notin pending' THEN 1 ELSE 0
                     /\ \A t \in pending' : rows'[t] = "ok"
                     /\ \A f \in Facts :
                          /\ phase' = "collect" \/ f \in todo' => inventory'[f] = 0
                          /\ ~(phase' = "collect" \/ f \in todo') =>
                               inventory'[f] \in IF rows'[f] = "ok" THEN {1} ELSE {0, 1}
  BY DEF IInv, FreshInv
<1>. DEFINE Goal == /\ \A t \in Emitters :
                          inventory'[t] = IF rows'[t] = "ok" /\ t \notin pending' THEN 1 ELSE 0
                    /\ \A t \in pending' : rows'[t] = "ok"
                    /\ \A f \in Facts :
                          /\ phase' = "collect" \/ f \in todo' => inventory'[f] = 0
                          /\ ~(phase' = "collect" \/ f \in todo') =>
                               inventory'[f] \in IF rows'[f] = "ok" THEN {1} ELSE {0, 1}
<1>. USE DEF TypeOK, RunInv, FreshInv
<1>1. CASE BeginFresh
  BY <1>1, TaskSets DEF BeginFresh, NewRun, NoRows, NothingIn, Ids
<1>2. CASE BeginResume
  BY <1>2 DEF BeginResume, NewRun
<1>3. ASSUME NEW t \in Ids, CallBarren(t) PROVE Goal
  <2>1. PICK s \in Settled \ {"ok"} : rows' = [rows EXCEPT ![t] = s] /\ Answer(t, s)
    BY <1>3, CallRows
  <2>2. /\ phase = "collect" /\ phase' = "collect" /\ t \in todo /\ rows[t] = "absent"
        /\ pending' = pending /\ inventory' = inventory /\ resuming' = resuming
    BY <1>3, TaskSets DEF CallBarren, disk
  <2>. QED  BY <2>1, <2>2, TaskSets DEF Ids
<1>4. ASSUME NEW t \in Ids, CallEmitter(t) PROVE Goal
  <2>1. rows' = [rows EXCEPT ![t] = "ok"]
    BY <1>4, CallRows
  <2>2. /\ phase = "collect" /\ phase' = "collect" /\ t \in todo /\ rows[t] = "absent"
        /\ pending' = pending \cup {t} /\ inventory' = inventory /\ resuming' = resuming
    BY <1>4, TaskSets DEF CallEmitter, disk
  <2>. QED  BY <2>1, <2>2, TaskSets DEF Ids
<1>5. ASSUME NEW t \in Ids, CallChained(t) PROVE Goal
  <2>0. PICK found \in SUBSET DetailsOf(t) :
          \E unresolved \in SUBSET found : StartsDetails(t, found, unresolved)
    BY <1>5, CallRows
  <2>1. PICK unresolved \in SUBSET found : StartsDetails(t, found, unresolved)
    BY <2>0
  <2>2. /\ phase = "collect" /\ phase' = "collect" /\ t \in todo /\ rows[t] = "absent"
        /\ pending' = pending /\ inventory' = inventory /\ resuming' = resuming
        /\ t \in Chained
    BY <1>5, TaskSets DEF CallChained, disk
  <2>3. \A d \in found : rows[d] = "absent" /\ d \notin pending
    BY <2>2, TaskSets DEF DetailsOf
  <2>4. ASSUME NEW u \in Ids, u # t PROVE (rows'[u] = "ok") <=> (rows[u] = "ok")
    BY <2>1, <2>3, <2>4 DEF StartsDetails
  <2>. QED  BY <2>2, <2>4, TaskSets DEF Ids
<1>6. ASSUME NEW t \in Ids, Append(t) PROVE Goal
  <2>1. /\ t \in pending /\ pending' = pending \ {t} /\ inventory' = [inventory EXCEPT ![t] = @ + 1]
        /\ rows' = rows /\ phase' = phase /\ resuming' = resuming /\ todo' = todo
    BY <1>6 DEF Append
  <2>2. t \in Emitters /\ inventory[t] = 0 /\ rows[t] = "ok"
    BY <2>1
  <2>. QED  BY <2>1, <2>2, TaskSets DEF Ids
<1>7. ASSUME NEW t \in Ids, CallFact(t) PROVE Goal
  <2>0. PICK s \in Settled : \E n \in {0, 1} : SettlesFact(t, s, n)
    BY <1>7, CallRows
  <2>1. PICK n \in {0, 1} : SettlesFact(t, s, n)
    BY <2>0
  <2>2. /\ phase = "facts" /\ phase' = "facts" /\ t \in Facts /\ t \in todo
        /\ todo' = todo \ {t} /\ resuming' = resuming /\ pending' = {} /\ pending = {}
        /\ inventory[t] = 0
    BY <1>7 DEF CallFact
  <2>3. \A u \in Ids : u # t => inventory'[u] = inventory[u] /\ rows'[u] = rows[u]
    BY <2>1 DEF SettlesFact
  <2>4. inventory'[t] = n /\ rows'[t] = s
    BY <2>1, <2>2 DEF SettlesFact
  <2>5. \A u \in Emitters : inventory'[u] = IF rows'[u] = "ok" /\ u \notin pending' THEN 1 ELSE 0
    BY <2>2, <2>3, TaskSets DEF Ids
  <2>. QED  BY <2>1, <2>2, <2>3, <2>4, <2>5 DEF SettlesFact, Ids
<1>8. CASE RunReturns
  BY <1>8 DEF RunReturns, disk
<1>9. CASE WriteSomeCoverage \/ WriteCoverage
  BY <1>9 DEF WriteSomeCoverage, WriteCoverage
<1>10. CASE EndKept \/ EndRemoved \/ Crash
  BY <1>10 DEF EndKept, EndRemoved, Crash, Exits
<1>11. CASE Interrupt \/ UNCHANGED vars
  BY <1>11 DEF Interrupt, vars, disk, run, history
<1>. QED
  BY <1>1, <1>2, <1>3, <1>4, <1>5, <1>6, <1>7, <1>8, <1>9, <1>10, <1>11 DEF Next

LEMMA OnceStep == IInv /\ [Next]_vars => OnceInv'
<1>. SUFFICES ASSUME TypeOK, RunInv, OnceInv, [Next]_vars, ~crashed', NEW u \in Emitters
              PROVE  /\ inventory'[u] <= 1
                     /\ phase' = "off" /\ inventory'[u] = 1 => coverage'[Root(u)] \in DoneStatus
                     /\ u \in pending' => inventory'[u] = 0
                     /\ phase' # "off" /\ (inventory'[u] = 1 \/ u \in pending') =>
                          rows'[Root(u)] \in {"ok", "skipped"} /\ u \notin todo'
  BY DEF IInv, OnceInv
<1>. DEFINE Goal == /\ inventory'[u] <= 1
                    /\ phase' = "off" /\ inventory'[u] = 1 => coverage'[Root(u)] \in DoneStatus
                    /\ u \in pending' => inventory'[u] = 0
                    /\ phase' # "off" /\ (inventory'[u] = 1 \/ u \in pending') =>
                          rows'[Root(u)] \in {"ok", "skipped"} /\ u \notin todo'
<1>. USE DEF TypeOK, RunInv, OnceInv
<1>0. Root(u) \in Seeds /\ (u \in Seeds => Root(u) = u) /\ u \in Ids /\ Root(u) \in Ids
      /\ u \in Seeds \cup Details /\ inventory[u] \in Nat
  BY TaskSets DEF Ids
<1>1. CASE BeginFresh
  BY <1>0, <1>1 DEF BeginFresh, NewRun, NothingIn
<1>2. CASE BeginResume
  <2>1. rows' = [id \in Ids |-> IF id \in Seeds \cap PriorDone(coverage) THEN "skipped" ELSE "absent"]
    BY <1>2, ResumedRows DEF BeginResume
  <2>2. /\ todo' = Seeds \ PriorDone(coverage) /\ phase = "off" /\ phase' = "collect"
        /\ pending' = {} /\ inventory' = inventory /\ crashed' = crashed
    BY <1>2 DEF BeginResume, NewRun, disk, history
  <2>3. coverage[Root(u)] \in DoneStatus => Root(u) \in PriorDone(coverage)
    BY <1>0 DEF PriorDone
  <2>. QED  BY <1>0, <2>1, <2>2, <2>3
<1>3. ASSUME NEW t \in Ids, CallBarren(t) PROVE Goal
  <2>1. PICK s \in Settled \ {"ok"} : rows' = [rows EXCEPT ![t] = s] /\ Answer(t, s)
    BY <1>3, CallRows
  <2>2. /\ phase = "collect" /\ phase' = "collect" /\ t \in todo /\ rows[t] = "absent"
        /\ todo' = todo \ {t} /\ pending' = pending /\ inventory' = inventory
        /\ crashed' = crashed
    BY <1>3, TaskSets DEF CallBarren, disk
  <2>. QED  BY <1>0, <2>1, <2>2
<1>4. ASSUME NEW t \in Ids, CallEmitter(t) PROVE Goal
  <2>1. rows' = [rows EXCEPT ![t] = "ok"]
    BY <1>4, CallRows
  <2>2. /\ phase = "collect" /\ phase' = "collect" /\ t \in todo /\ rows[t] = "absent"
        /\ todo' = todo \ {t} /\ pending' = pending \cup {t} /\ inventory' = inventory
        /\ crashed' = crashed
    BY <1>4, TaskSets DEF CallEmitter, disk
  <2>3. u = t => rows'[Root(u)] = "ok"
    BY <1>0, <2>1, <2>2, TaskSets
  <2>. QED  BY <1>0, <2>1, <2>2, <2>3
<1>5. ASSUME NEW t \in Ids, CallChained(t) PROVE Goal
  <2>0. PICK found \in SUBSET DetailsOf(t) :
          \E unresolved \in SUBSET found : StartsDetails(t, found, unresolved)
    BY <1>5, CallRows
  <2>1. PICK unresolved \in SUBSET found : StartsDetails(t, found, unresolved)
    BY <2>0
  <2>2. /\ phase = "collect" /\ phase' = "collect" /\ t \in todo /\ rows[t] = "absent"
        /\ pending' = pending /\ inventory' = inventory /\ crashed' = crashed
    BY <1>5, TaskSets DEF CallChained, disk
  <2>3. u \in found => Root(u) = t
    BY TaskSets DEF DetailsOf
  <2>4. Root(u) \notin found
    BY <1>0, TaskSets DEF DetailsOf
  <2>5. inventory[u] = 1 \/ u \in pending => rows'[Root(u)] \in {"ok", "skipped"} /\ u \notin todo'
    BY <1>0, <2>1, <2>2, <2>3, <2>4 DEF StartsDetails
  <2>. QED  BY <2>2, <2>5
<1>6. ASSUME NEW t \in Ids, Append(t) PROVE Goal
  <2>1. /\ t \in pending /\ pending' = pending \ {t} /\ inventory' = [inventory EXCEPT ![t] = @ + 1]
        /\ rows' = rows /\ phase' = phase /\ phase # "off" /\ todo' = todo /\ crashed' = crashed
    BY <1>6 DEF Append, history
  <2>. QED  BY <1>0, <2>1
<1>7. ASSUME NEW t \in Ids, CallFact(t) PROVE Goal
  <2>0. PICK s \in Settled : \E n \in {0, 1} : SettlesFact(t, s, n)
    BY <1>7, CallRows
  <2>1. PICK n \in {0, 1} : SettlesFact(t, s, n)
    BY <2>0
  <2>2. /\ phase = "facts" /\ phase' = "facts" /\ t \in Facts
        /\ todo' = todo \ {t} /\ pending' = pending /\ crashed' = crashed
    BY <1>7 DEF CallFact, history
  <2>3. u # t /\ Root(u) # t
    BY <1>0, <2>2, TaskSets
  <2>4. inventory'[u] = inventory[u] /\ rows'[Root(u)] = rows[Root(u)]
    BY <1>0, <2>1, <2>3 DEF SettlesFact
  <2>. QED  BY <2>2, <2>4
<1>8. CASE RunReturns
  BY <1>0, <1>8, TaskSets DEF RunReturns, disk, history
<1>9. CASE WriteSomeCoverage \/ WriteCoverage
  BY <1>9 DEF WriteSomeCoverage, WriteCoverage, history
<1>10. CASE EndKept
  BY <1>0, <1>10 DEF EndKept, Exits, disk, history, DoneStatus
<1>11. CASE EndRemoved \/ Crash
  BY <1>0, <1>11 DEF EndRemoved, Exits, NothingIn, Crash
<1>12. CASE Interrupt \/ UNCHANGED vars
  BY <1>12 DEF Interrupt, vars, disk, run, history
<1>. QED
  BY <1>1, <1>2, <1>3, <1>4, <1>5, <1>6, <1>7, <1>8, <1>9, <1>10, <1>11, <1>12 DEF Next
LEMMA BackedStep == IInv /\ [Next]_vars => BackedInv'
<1>. SUFFICES ASSUME TypeOK, RunInv, [Next]_vars, NEW s \in Seeds, BackedSeed(s)
              PROVE  BackedSeed(s)'
  BY DEF IInv, BackedInv
<1>. USE DEF TypeOK, RunInv, BackedSeed, BackedOnDisk, BackedInMemory, NotRepeated
<1>0. s \in Ids /\ s \notin Facts /\ s \notin Details /\ inventory[s] \in Nat
  BY TaskSets DEF Ids
<1>1. CASE BeginFresh
  <2>1. rows'[s] = "absent" /\ phase' = "collect" /\ UNCHANGED coverage
    BY <1>0, <1>1 DEF BeginFresh, NewRun, NoRows
  <2>2. ~stale' => coverage'[s] = "absent"
    BY <1>0, <1>1 DEF BeginFresh, NoRows
  <2>. QED  BY <2>1, <2>2 DEF DoneStatus
<1>2. CASE BeginResume
  <2>1. rows'[s] = IF s \in PriorDone(coverage) THEN "skipped" ELSE "absent"
    BY <1>0, <1>2, ResumedRows DEF BeginResume
  <2>2. /\ s \in PriorDone(coverage) <=> coverage[s] \in DoneStatus
        /\ todo' = Seeds \ PriorDone(coverage) /\ resuming'
        /\ UNCHANGED <<inventory, coverage, answers, stale>>
    BY <1>0, <1>2 DEF BeginResume, NewRun, PriorDone, disk, history
  <2>. QED  BY <2>1, <2>2 DEF DoneStatus
<1>3. ASSUME NEW t \in Ids, CallBarren(t) PROVE BackedSeed(s)'
  <2>1. PICK r \in Settled \ {"ok"} : rows' = [rows EXCEPT ![t] = r] /\ Answer(t, r)
    BY <1>3, CallRows
  <2>2. /\ phase = "collect" /\ phase' = "collect" /\ t \in todo /\ todo' = todo \ {t}
        /\ UNCHANGED <<inventory, coverage, resuming, pending, stale>>
    BY <1>3 DEF CallBarren, disk
  <2>3. CASE s = t
    <3>1. rows'[s] = r /\ answers'[s] = r
      BY <1>0, <2>1, <2>3 DEF Answer
    <3>. QED  BY <2>2, <2>3, <3>1
  <2>4. CASE s # t
    <3>1. rows'[s] = rows[s] /\ answers'[s] = answers[s]
      BY <1>0, <2>1, <2>4 DEF Answer
    <3>. QED  BY <2>2, <3>1
  <2>. QED  BY <2>3, <2>4
<1>4. ASSUME NEW t \in Ids, CallEmitter(t) PROVE BackedSeed(s)'
  <2>1. rows' = [rows EXCEPT ![t] = "ok"] /\ Answer(t, "ok")
    BY <1>4, CallRows DEF CallEmitter
  <2>2. /\ phase = "collect" /\ phase' = "collect" /\ t \in todo /\ todo' = todo \ {t}
        /\ pending' = pending \cup {t} /\ UNCHANGED <<inventory, coverage, resuming, stale>>
    BY <1>4 DEF CallEmitter, disk
  <2>3. CASE s = t
    <3>1. rows'[s] = "ok" /\ answers'[s] = "ok"
      BY <1>0, <2>1, <2>3 DEF Answer
    <3>. QED  BY <2>2, <2>3, <3>1 DEF DoneStatus
  <2>4. CASE s # t
    <3>1. rows'[s] = rows[s] /\ answers'[s] = answers[s]
      BY <1>0, <2>1, <2>4 DEF Answer
    <3>. QED  BY <2>2, <3>1
  <2>. QED  BY <2>3, <2>4
<1>5. ASSUME NEW t \in Ids, CallChained(t) PROVE BackedSeed(s)'
  <2>0. PICK found \in SUBSET DetailsOf(t) :
          \E unresolved \in SUBSET found : StartsDetails(t, found, unresolved)
    BY <1>5, CallRows
  <2>1. PICK unresolved \in SUBSET found : StartsDetails(t, found, unresolved)
    BY <2>0
  <2>2. /\ phase = "collect" /\ phase' = "collect" /\ t \in todo /\ t \in Chained
        /\ Answer(t, "ok") /\ UNCHANGED <<inventory, coverage, resuming, pending, stale>>
    BY <1>5 DEF CallChained, disk
  <2>3. s \notin found /\ (s \in todo' => s \in todo)
    BY <1>0, <2>1 DEF StartsDetails, DetailsOf
  <2>4. CASE s = t
    <3>1. answers'[s] = "ok" /\ s \notin Emitters
      BY <2>2, <2>4, TaskSets DEF Answer
    <3>. QED  BY <2>2, <2>3, <2>4, <3>1 DEF DoneStatus
  <2>5. CASE s # t
    <3>1. rows'[s] = rows[s] /\ answers'[s] = answers[s]
      BY <1>0, <2>1, <2>2, <2>3, <2>5 DEF StartsDetails, Answer
    <3>. QED  BY <2>2, <2>3, <3>1
  <2>. QED  BY <2>4, <2>5
<1>6. ASSUME NEW t \in Ids, Append(t) PROVE BackedSeed(s)'
  <2>1. /\ pending' = pending \ {t} /\ inventory' = [inventory EXCEPT ![t] = @ + 1]
        /\ UNCHANGED <<coverage, phase, resuming, rows, todo, answers, stale>>
    BY <1>6 DEF Append, history
  <2>2. inventory'[s] = IF s = t THEN inventory[s] + 1 ELSE inventory[s]
    BY <1>0, <2>1
  <2>. QED  BY <1>0, <2>1, <2>2
<1>7. ASSUME NEW t \in Ids, CallFact(t) PROVE BackedSeed(s)'
  <2>0. PICK r \in Settled : \E n \in {0, 1} : SettlesFact(t, r, n)
    BY <1>7, CallRows
  <2>1. PICK n \in {0, 1} : SettlesFact(t, r, n)
    BY <2>0
  <2>2. /\ phase = "facts" /\ t \in Facts /\ todo' = todo \ {t}
        /\ UNCHANGED <<coverage, phase, resuming, pending, answers, stale>>
    BY <1>7 DEF CallFact, history
  <2>3. inventory'[s] = inventory[s] /\ rows'[s] = rows[s]
    BY <1>0, <2>1, <2>2 DEF SettlesFact
  <2>. QED  BY <2>2, <2>3
<1>8. CASE RunReturns
  BY <1>0, <1>8 DEF RunReturns, disk, history
<1>9. CASE WriteSomeCoverage
  <2>1. /\ phase = "facts" /\ phase' = "writing" /\ pending = {}
        /\ stale' = (stale /\ resuming)
        /\ UNCHANGED <<inventory, resuming, rows, todo, pending, answers>>
    BY <1>9 DEF WriteSomeCoverage
  <2>2. coverage'[s] \in DoneStatus => coverage'[s] = rows[s]
    BY <1>0, <1>9 DEF WriteSomeCoverage, DoneStatus
  <2>. QED  BY <2>1, <2>2
<1>10. CASE WriteCoverage
  BY <1>10 DEF WriteCoverage, history
<1>11. CASE EndKept \/ Crash
  BY <1>11 DEF EndKept, Crash, Exits, disk, history
<1>12. CASE EndRemoved
  BY <1>0, <1>12 DEF EndRemoved, Exits, NoRows, DoneStatus
<1>13. CASE Interrupt \/ UNCHANGED vars
  BY <1>13 DEF Interrupt, vars, disk, run, history
<1>. QED
  BY <1>1, <1>2, <1>3, <1>4, <1>5, <1>6, <1>7, <1>8, <1>9, <1>10, <1>11, <1>12, <1>13 DEF Next

LEMMA RetryStep == IInv /\ [Next]_vars => RetryInv'
<1>. SUFFICES ASSUME TypeOK, RunInv, RetryInv, [Next]_vars, phase' # "off", resuming',
                     NEW s \in Seeds, prior'[s] \notin DoneStatus
              PROVE  s \in todo' \/ rows'[s] \notin {"absent", "skipped"}
  BY DEF IInv, RetryInv
<1>. DEFINE Goal == s \in todo' \/ rows'[s] \notin {"absent", "skipped"}
<1>. USE DEF TypeOK, RunInv, RetryInv
<1>0. s \in Ids /\ s \notin Facts /\ s \notin Details
  BY TaskSets DEF Ids
<1>1. CASE BeginFresh
  BY <1>1 DEF BeginFresh, NewRun
<1>2. CASE BeginResume
  BY <1>0, <1>2 DEF BeginResume, PriorDone
<1>3. ASSUME NEW t \in Ids, CallBarren(t) PROVE Goal
  <2>1. PICK r \in Failures \cup {"error", "empty"} : rows' = Settle(rows, t, r)
    BY <1>3 DEF CallBarren
  <2>2. r \in Settled \ {"skipped"}
    BY CollectAssumption DEF Settled
  <2>3. rows \in [Ids -> Status] /\ r \in Settled /\ r \notin {"absent", "skipped"}
    BY <2>2 DEF Settled
  <2>5. rows' = [rows EXCEPT ![t] = r]
    BY <2>1, <2>3, SettleSets
  <2>4. todo' = todo \ {t} /\ UNCHANGED <<phase, resuming, prior>>
    BY <1>3 DEF CallBarren
  <2>. QED  BY <1>0, <2>3, <2>4, <2>5
<1>4. ASSUME NEW t \in Ids, CallEmitter(t) PROVE Goal
  <2>1. rows' = [rows EXCEPT ![t] = "ok"]
    BY <1>4, CallRows
  <2>. QED  BY <1>0, <1>4, <2>1 DEF CallEmitter
<1>5. ASSUME NEW t \in Ids, CallChained(t) PROVE Goal
  <2>0. PICK found \in SUBSET DetailsOf(t) :
          \E unresolved \in SUBSET found : StartsDetails(t, found, unresolved)
    BY <1>5, CallRows
  <2>1. PICK unresolved \in SUBSET found : StartsDetails(t, found, unresolved)
    BY <2>0
  <2>2. s \notin found /\ UNCHANGED <<phase, resuming, prior>>
    BY <1>0, <1>5 DEF CallChained, DetailsOf
  <2>. QED  BY <1>0, <2>1, <2>2 DEF StartsDetails
<1>6. ASSUME NEW t \in Ids, Append(t) PROVE Goal
  BY <1>6 DEF Append
<1>7. ASSUME NEW t \in Ids, CallFact(t) PROVE Goal
  <2>0. PICK r \in Settled : \E n \in {0, 1} : SettlesFact(t, r, n)
    BY <1>7, CallRows
  <2>1. rows'[s] = rows[s] /\ todo' = todo \ {t} /\ s # t /\ UNCHANGED <<phase, resuming, prior>>
    BY <1>0, <1>7, <2>0 DEF SettlesFact, CallFact
  <2>. QED  BY <2>1
<1>8. CASE RunReturns
  BY <1>0, <1>8 DEF RunReturns
<1>9. CASE WriteSomeCoverage \/ WriteCoverage
  BY <1>9 DEF WriteSomeCoverage, WriteCoverage
<1>10. CASE EndKept \/ EndRemoved \/ Crash
  BY <1>10 DEF EndKept, EndRemoved, Crash, Exits
<1>11. CASE Interrupt \/ UNCHANGED vars
  BY <1>11 DEF Interrupt, vars, run
<1>. QED
  BY <1>1, <1>2, <1>3, <1>4, <1>5, <1>6, <1>7, <1>8, <1>9, <1>10, <1>11 DEF Next

-----------------------------------------------------------------------------

(* The strengthened invariant holds in every run of the scan command.      *)
THEOREM Invariance == Spec => []IInv
<1>1. Init => IInv
  BY InitIInv
<1>2. IInv /\ [Next]_vars => IInv'
  BY TypeStep, RunStep, FreshStep, OnceStep, BackedStep, RetryStep DEF IInv
<1>. QED  BY <1>1, <1>2, PTL DEF Spec

(* Disk, process and ledger keep their types over any number of runs.      *)
THEOREM TypeCorrect == Spec => []TypeOK
BY Invariance, PTL DEF IInv

(* A fresh run exports exactly what it collected (output.New, emit).       *)
THEOREM FreshIsExact == Spec => []FreshBundleExact
<1>1. IInv => FreshBundleExact
  BY DEF IInv, RunInv, FreshInv, FreshBundleExact
<1>. QED  BY <1>1, Invariance, PTL

(* Resumed any number of times, no run being killed, a bundle has every    *)
(* artifact once at most (NewPrior, Ledger.Resumed).                       *)
THEOREM CollectedOnce == Spec => []NothingCollectedTwice
<1>1. IInv => NothingCollectedTwice
  BY DEF IInv, OnceInv, NothingCollectedTwice
<1>. QED  BY <1>1, Invariance, PTL

(* What the coverage on disk has as done was answered, and the artifact is *)
(* there, after a crash at any point (Collect, NewPrior).                  *)
THEOREM CoverageHolds == Spec => []CoverageIsBacked
<1>1. IInv => CoverageIsBacked
  BY DEF IInv, BackedInv, BackedSeed, BackedOnDisk, CoverageIsBacked, PriorDone
<1>. QED  BY <1>1, Invariance, PTL

(* Only a fresh start and the removal of the whole directory take evidence *)
(* from the disk, a resumed start takes none, and a resumed run calls      *)
(* again what was retryable (output.New, Collect, NewPrior).               *)
THEOREM ResumeIsMonotone == Spec => ResumeOnlyAdds
<1>. DEFINE Keeps == \A id \in Ids : inventory'[id] >= inventory[id]
            Clears == phase = "off" /\ phase' = "collect" /\ ~resuming'
            Removes == phase = "export" /\ phase' = "off" /\ coverage' = NoRows(Ids)
            Step == /\ Keeps \/ Clears \/ Removes
                    /\ phase = "writing" /\ phase' = "export" /\ resuming =>
                         \A t \in Seeds : prior[t] \in Retryable \cup {"absent"} =>
                                             coverage'[t] \notin {"absent", "skipped"}
<1>1. ASSUME IInv, [Next]_vars PROVE [Step]_vars
  <2>. USE <1>1 DEF IInv, TypeOK
  <2>0. UNCHANGED inventory => Keeps
    OBVIOUS
  <2>1. Keeps \/ Clears \/ Removes
    <3>1. ASSUME NEW t \in Ids, CallFact(t) PROVE Keeps
      <4>0. PICK r \in Settled : \E n \in {0, 1} : SettlesFact(t, r, n)
        BY <3>1, CallRows
      <4>1. PICK n \in {0, 1} : SettlesFact(t, r, n)
        BY <4>0
      <4>. QED  BY <4>1 DEF SettlesFact
    <3>2. ASSUME NEW t \in Ids, Append(t) PROVE Keeps
      BY <3>2 DEF Append
    <3>3. ASSUME NEW t \in Ids, CallBarren(t) \/ CallEmitter(t) \/ CallChained(t)
          PROVE  Keeps
      BY <2>0, <3>3 DEF CallBarren, CallEmitter, CallChained, disk
    <3>4. CASE RunReturns \/ WriteSomeCoverage \/ WriteCoverage \/ Interrupt \/ Crash \/ UNCHANGED vars
      BY <2>0, <3>4 DEF RunReturns, WriteSomeCoverage, WriteCoverage, Interrupt, Crash, vars, disk
    <3>5. CASE BeginResume \/ EndKept
      BY <2>0, <3>5 DEF BeginResume, EndKept, disk
    <3>6. CASE BeginFresh
      BY <3>6 DEF BeginFresh, NewRun
    <3>7. CASE EndRemoved
      BY <3>7 DEF EndRemoved, Exits
    <3>. QED  BY <3>1, <3>2, <3>3, <3>4, <3>5, <3>6, <3>7 DEF Next
  <2>2. ASSUME phase = "writing", phase' = "export", resuming,
               NEW t \in Seeds, prior[t] \in Retryable \cup {"absent"}
        PROVE  coverage'[t] \notin {"absent", "skipped"}
    <3>1. coverage' = rows
      BY <2>2 DEF Next, BeginFresh, BeginResume, NewRun, CallBarren, CallEmitter, CallChained,
              Append, CallFact, RunReturns, WriteSomeCoverage, WriteCoverage, EndKept,
              EndRemoved, Crash, Exits, Interrupt, vars, run
    <3>2. prior[t] \notin DoneStatus
      BY <2>2 DEF Retryable, DoneStatus
    <3>. QED  BY <2>2, <3>1, <3>2 DEF RunInv, RetryInv
  <2>. QED  BY <2>1, <2>2
<1>. QED  BY <1>1, Invariance, PTL DEF Spec, ResumeOnlyAdds
=============================================================================
