-------------------------- MODULE SchedulerProofs ---------------------------
(***************************************************************************)
(* Proofs about Scheduler for every task tree, every assignment of task    *)
(* ids, colliding or not, and every capacity of the semaphore; then about  *)
(* what a Scheduler leaves on record: that no settled outcome is lost and  *)
(* that the counters are exact, also when task ids collide, and that it    *)
(* keeps the safety part of CoveragePromise when they do not.              *)
(***************************************************************************)
EXTENDS Scheduler, FiniteSetTheorems, TLAPS

Holders == {t \in Tasks : pc[t] \in Holding}
LiveTasks == {t \in Tasks : pc[t] \in Live}

(* The counters of the channel and of the WaitGroup count their tasks.     *)
CountInv ==
  /\ sem = Cardinality(Holders)
  /\ wg = Cardinality(LiveTasks)

(* What a task's local variables are worth at each place.                  *)
LocalInv ==
  \A t \in Tasks :
    /\ pc[t] = "skip" => t \notin Leaf /\ left[t] > 0
    /\ pc[t] = "finish" => out[t] \in Settled

(* The tasks of the records a call has yet to return, or to walk, have not *)
(* been started.                                                           *)
BeforeAnswer == {"idle", "queued", "plan", "start", "invoke", "skipped"}
FreshInv ==
  \A x \in Slots :
    (pc[x[1]] \in BeforeAnswer \/ x[2] <= left[x[1]]) => pc[Child[x]] = "idle"

(* Somebody is about to settle every row that is open.                     *)
Settling(t, r) ==
  \/ pc[t] \in {"start", "invoke", "finish"} /\ RowOf[t] = r
  \/ pc[t] = "skip" /\ RowOf[Child[<<t, left[t]>>]] = r
OwnerInv ==
  \A r \in RowIds : rows[r] \in Open => \E t \in Tasks : Settling(t, r)

(* Run has returned only after every seed had been started and nothing was *)
(* left to run.                                                            *)
QuietInv ==
  returned => /\ \A t \in Tasks : pc[t] \notin Live
              /\ \A t \in Seeds : pc[t] # "idle"

IInv == TypeOK /\ CountInv /\ LocalInv /\ FreshInv /\ OwnerInv /\ QuietInv

-----------------------------------------------------------------------------

(* Adding or removing one task changes the size of a set of tasks by one.  *)
LEMMA TaskCount ==
  ASSUME NEW S \in SUBSET Tasks, NEW t \in Tasks
  PROVE  /\ Cardinality(S) \in Nat
         /\ t \notin S => Cardinality(S \cup {t}) = Cardinality(S) + 1
         /\ t \in S => /\ Cardinality(S \ {t}) = Cardinality(S) - 1
                       /\ Cardinality(S) > 0
<1>1. IsFiniteSet(S)
  BY TasksAssumption, FS_Subset
<1>2. Cardinality(S) \in Nat
  BY <1>1, FS_CardinalityType
<1>3. t \notin S => Cardinality(S \cup {t}) = Cardinality(S) + 1
  BY <1>1, FS_AddElement
<1>4. ASSUME t \in S
      PROVE  Cardinality(S \ {t}) = Cardinality(S) - 1 /\ Cardinality(S) > 0
  <2>1. Cardinality(S \ {t}) = Cardinality(S) - 1
    BY <1>1, <1>4, FS_RemoveElement
  <2>2. Cardinality(S \ {t}) \in Nat
    BY <1>1, FS_RemoveElement, FS_CardinalityType
  <2>. QED  BY <2>1, <2>2, <1>2
<1>. QED  BY <1>2, <1>3, <1>4

(* A slot names a task before the end of its chain and one of its records. *)
LEMMA SlotFacts ==
  /\ \A x \in Slots : /\ x = <<x[1], x[2]>>
                      /\ x[1] \in Tasks \ Leaf
                      /\ x[2] \in 1..MaxRecs[x[1]]
                      /\ Child[x] \in Tasks \ Seeds
  /\ \A t \in Tasks \ Leaf, k \in Nat :
       0 < k /\ k <= MaxRecs[t] => <<t, k>> \in Slots
BY TasksAssumption, ChildAssumption DEF Slots

LEMMA InitIInv == Init => IInv
<1> SUFFICES ASSUME Init PROVE IInv
  OBVIOUS
<1>1. TypeOK
  <2>1. pc \in [Tasks -> PCs]
    BY DEF Init, PCs
  <2>2. left \in [Tasks -> Nat] /\ \A t \in Tasks : left[t] <= MaxRecs[t]
    BY TasksAssumption DEF Init
  <2>3. out \in [Tasks -> Settled \cup {"none"}]
    BY DEF Init
  <2>4. rows \in [RowIds -> Status]
    BY DEF Init, NoRows, Status
  <2>5. sem \in 0..Concurrency
    BY ConcurrencyAssumption DEF Init
  <2>6. wg \in Nat /\ tallies \in [Settled -> Nat]
    BY DEF Init
  <2>7. seedsDone \in Nat /\ detail \in Nat /\ artifacts \in Nat
    BY DEF Init
  <2>8. returned \in BOOLEAN
    BY DEF Init
  <2>. QED  BY <2>1, <2>2, <2>3, <2>4, <2>5, <2>6, <2>7, <2>8 DEF TypeOK
<1>2. CountInv
  <2>1. Holders = {} /\ LiveTasks = {}
    BY DEF Init, Holders, LiveTasks, Holding, Live
  <2>. QED  BY <2>1, FS_EmptySet DEF Init, CountInv
<1>3. LocalInv /\ QuietInv
  BY DEF Init, LocalInv, QuietInv
<1>4. FreshInv
  BY SlotFacts DEF Init, FreshInv
<1>5. OwnerInv
  BY DEF Init, OwnerInv, NoRows, Open
<1>. QED  BY <1>1, <1>2, <1>3, <1>4, <1>5 DEF IInv

-----------------------------------------------------------------------------
(* The step, one part of the invariant at a time.                          *)

LEMMA LocalStep == IInv /\ [Next]_vars => LocalInv'
<1> SUFFICES ASSUME IInv, [Next]_vars PROVE LocalInv'
  OBVIOUS
<1> USE DEF IInv, TypeOK, LocalInv
<1>1. ASSUME NEW t \in Tasks, SpawnSeed(t) \/ Acquire(t) \/ PlanRow(t) \/ StartRow(t)
      PROVE  LocalInv'
  BY <1>1 DEF SpawnSeed, Acquire, PlanRow, StartRow, Goto
<1>2. ASSUME NEW t \in Tasks, Invoke(t)
      PROVE  LocalInv'
  BY <1>2, FailuresAssumption DEF Invoke, Goto, Settled
<1>3. ASSUME NEW t \in Tasks, FinishRow(t) \/ Emit(t) \/ PlanSkipped(t) \/ Release(t) \/ Exit(t)
      PROVE  LocalInv'
  BY <1>3 DEF FinishRow, Emit, PlanSkipped, Release, Exit, Goto, Walking
<1>4. ASSUME NEW t \in Tasks, SpawnChild(t) \/ FinishSkipped(t)
      PROVE  LocalInv'
  <2>1. <<t, left[t]>> \in Slots
    BY <1>4, SlotFacts DEF SpawnChild, FinishSkipped, Walking
  <2>2. Child[<<t, left[t]>>] \in Tasks
    BY <2>1, SlotFacts
  <2>. QED  BY <1>4, <2>2 DEF SpawnChild, FinishSkipped, Walking
<1>5. CASE Return \/ Terminated \/ UNCHANGED vars
  BY <1>5 DEF Return, Terminated, vars
<1>. QED  BY <1>1, <1>2, <1>3, <1>4, <1>5 DEF Next, Step

LEMMA FreshStep == IInv /\ [Next]_vars => FreshInv'
<1> SUFFICES ASSUME IInv, [Next]_vars PROVE FreshInv'
  OBVIOUS
<1> USE SlotFacts DEF IInv, TypeOK, FreshInv, BeforeAnswer
<1>1. ASSUME NEW t \in Tasks, SpawnSeed(t)
      PROVE  FreshInv'
  BY <1>1 DEF SpawnSeed, Goto
<1>2. ASSUME NEW t \in Tasks, Acquire(t) \/ PlanRow(t) \/ StartRow(t)
      PROVE  FreshInv'
  BY <1>2 DEF Acquire, PlanRow, StartRow, Goto
<1>3. ASSUME NEW t \in Tasks, Invoke(t)
      PROVE  FreshInv'
  BY <1>3 DEF Invoke, Goto
<1>4. ASSUME NEW t \in Tasks, FinishRow(t) \/ PlanSkipped(t) \/ Release(t) \/ Exit(t)
      PROVE  FreshInv'
  BY <1>4 DEF FinishRow, PlanSkipped, Release, Exit, Goto, Walking
<1>5. ASSUME NEW t \in Tasks, Emit(t)
      PROVE  FreshInv'
  BY <1>5 DEF Emit, Walking
<1>6. ASSUME NEW t \in Tasks, SpawnChild(t) \/ FinishSkipped(t)
      PROVE  FreshInv'
  <2> DEFINE s == <<t, left[t]>>
             c == Child[s]
  <2>1. s \in Slots /\ c \in Tasks
    BY <1>6 DEF SpawnChild, FinishSkipped, Walking, LocalInv
  <2>2. pc[c] = "idle" /\ c # t
    <3>1. s[1] = t /\ s[2] = left[t] /\ left[t] \in Nat
      OBVIOUS
    <3>2. pc[c] = "idle"
      BY <2>1, <3>1
    <3>3. pc[t] # "idle"
      BY <1>6 DEF SpawnChild, FinishSkipped, Walking
    <3>. QED  BY <3>2, <3>3
  <2>3. left' = [left EXCEPT ![t] = @ - 1]
    BY <1>6 DEF SpawnChild, FinishSkipped
  <2>4. /\ pc'[t] = "walk"
        /\ pc'[c] \in {"queued", "skipped"}
        /\ \A u \in Tasks : u # t /\ u # c => pc'[u] = pc[u]
    <3>1. CASE SpawnChild(t)
      BY <3>1, <2>1, <2>2 DEF SpawnChild, Walking
    <3>2. CASE FinishSkipped(t)
      BY <3>2, <2>1, <2>2 DEF FinishSkipped
    <3>. QED  BY <1>6, <3>1, <3>2
  <2>5. SUFFICES ASSUME NEW x \in Slots,
                        pc'[x[1]] \in BeforeAnswer \/ x[2] <= left'[x[1]]
                 PROVE  pc'[Child[x]] = "idle"
    BY DEF FreshInv
  <2>6. CASE x[1] = t
    <3>1. x[2] < left[t] /\ x # s
      BY <2>3, <2>4, <2>5, <2>6
    <3>2. Child[x] # c /\ pc[Child[x]] = "idle"
      BY <2>1, <2>6, <3>1, ChildAssumption
    <3>3. Child[x] # t
      BY <3>2, <1>6 DEF SpawnChild, FinishSkipped, Walking
    <3>. QED  BY <3>2, <3>3, <2>4
  <2>7. CASE x[1] # t
    <3>1. x # s /\ Child[x] # c
      BY <2>1, <2>7, ChildAssumption
    <3>2. pc[Child[x]] = "idle"
      BY <2>2, <2>3, <2>4, <2>5, <2>7
    <3>3. Child[x] # t
      BY <3>2, <1>6 DEF SpawnChild, FinishSkipped, Walking
    <3>. QED  BY <3>1, <3>2, <3>3, <2>4
  <2>. QED  BY <2>6, <2>7
<1>7. CASE Return \/ Terminated \/ UNCHANGED vars
  BY <1>7 DEF Return, Terminated, vars
<1>. QED  BY <1>1, <1>2, <1>3, <1>4, <1>5, <1>6, <1>7 DEF Next, Step

LEMMA QuietStep == IInv /\ [Next]_vars => QuietInv'
<1> SUFFICES ASSUME IInv, [Next]_vars PROVE QuietInv'
  OBVIOUS
<1> USE DEF IInv, TypeOK, QuietInv, Live, Holding
<1>1. ASSUME NEW t \in Tasks, SpawnSeed(t) \/ Step(t)
      PROVE  QuietInv'
  <2>1. ~returned
    BY <1>1 DEF SpawnSeed, Step, Acquire, PlanRow, StartRow, Invoke, FinishRow, Emit,
                SpawnChild, PlanSkipped, FinishSkipped, Release, Exit, Goto, Walking
  <2>2. returned' = returned
    BY <1>1 DEF SpawnSeed, Step, Acquire, PlanRow, StartRow, Invoke, FinishRow, Emit,
                SpawnChild, PlanSkipped, FinishSkipped, Release, Exit
  <2>. QED  BY <2>1, <2>2
<1>2. CASE Return
  <2>1. Cardinality(LiveTasks) = 0
    BY <1>2 DEF Return, CountInv
  <2>2. LiveTasks = {}
    BY <2>1, TasksAssumption, FS_Subset, FS_EmptySet DEF LiveTasks
  <2>. QED  BY <1>2, <2>2 DEF Return, LiveTasks
<1>3. CASE Terminated \/ UNCHANGED vars
  BY <1>3 DEF Terminated, vars
<1>. QED  BY <1>1, <1>2, <1>3 DEF Next

LEMMA OwnerStep == IInv /\ [Next]_vars => OwnerInv'
<1> SUFFICES ASSUME IInv, [Next]_vars,
                    NEW r \in RowIds, rows'[r] \in Open
             PROVE  \E u \in Tasks : Settling(u, r)'
  BY DEF OwnerInv
<1> USE SlotFacts DEF IInv, TypeOK, Settling, LocalInv
<1>1. ASSUME NEW t \in Tasks, SpawnSeed(t) \/ Acquire(t) \/ Emit(t) \/ Release(t) \/ Exit(t)
      PROVE  \E u \in Tasks : Settling(u, r)'
  <2>1. PICK u \in Tasks : Settling(u, r)
    BY <1>1 DEF OwnerInv, SpawnSeed, Acquire, Emit, Release, Exit
  <2>2. u # t
    BY <1>1, <2>1 DEF SpawnSeed, Acquire, Emit, Release, Exit, Goto, Walking
  <2>. QED  BY <1>1, <2>1, <2>2 DEF SpawnSeed, Acquire, Emit, Release, Exit, Goto
<1>2. ASSUME NEW t \in Tasks, PlanRow(t) \/ StartRow(t) \/ Invoke(t)
      PROVE  \E u \in Tasks : Settling(u, r)'
  <2>1. CASE RowOf[t] = r
    BY <1>2, <2>1 DEF PlanRow, StartRow, Invoke, Goto
  <2>2. CASE RowOf[t] # r
    <3>1. rows'[r] = rows[r]
      BY <1>2, <2>2 DEF PlanRow, StartRow, Invoke, Plan, Start, RowIds
    <3>2. PICK u \in Tasks : Settling(u, r)
      BY <3>1 DEF OwnerInv
    <3>3. u # t
      BY <1>2, <2>2, <3>2 DEF PlanRow, StartRow, Invoke, Goto
    <3>. QED  BY <1>2, <3>2, <3>3 DEF PlanRow, StartRow, Invoke, Goto
  <2>. QED  BY <2>1, <2>2
<1>3. ASSUME NEW t \in Tasks, FinishRow(t)
      PROVE  \E u \in Tasks : Settling(u, r)'
  <2>1. r # RowOf[t] /\ rows'[r] = rows[r]
    BY <1>3 DEF FinishRow, Goto, Finish, RowIds, Open, Settled
  <2>2. PICK u \in Tasks : Settling(u, r)
    BY <2>1 DEF OwnerInv
  <2>3. u # t
    BY <1>3, <2>1, <2>2 DEF FinishRow, Goto
  <2>. QED  BY <1>3, <2>2, <2>3 DEF FinishRow, Goto
<1>4. ASSUME NEW t \in Tasks, SpawnChild(t)
      PROVE  \E u \in Tasks : Settling(u, r)'
  <2> DEFINE c == Child[<<t, left[t]>>]
  <2>1. <<t, left[t]>> \in Slots /\ pc[c] = "idle"
    BY <1>4 DEF SpawnChild, Walking, FreshInv
  <2>2. PICK u \in Tasks : Settling(u, r)
    BY <1>4 DEF OwnerInv, SpawnChild
  <2>3. u # t /\ u # c
    BY <1>4, <2>1, <2>2 DEF SpawnChild, Walking
  <2>. QED  BY <1>4, <2>1, <2>2, <2>3 DEF SpawnChild
<1>5. ASSUME NEW t \in Tasks, PlanSkipped(t)
      PROVE  \E u \in Tasks : Settling(u, r)'
  <2> DEFINE c == Child[<<t, left[t]>>]
  <2>1. CASE RowOf[c] = r
    BY <1>5, <2>1 DEF PlanSkipped, Walking
  <2>2. CASE RowOf[c] # r
    <3>1. c \in Tasks
      BY <1>5 DEF PlanSkipped, Walking
    <3>2. rows'[r] = rows[r]
      BY <1>5, <2>2, <3>1 DEF PlanSkipped, Plan, RowIds
    <3>3. PICK u \in Tasks : Settling(u, r)
      BY <3>2 DEF OwnerInv
    <3>4. u # t
      BY <1>5, <3>3 DEF PlanSkipped, Walking
    <3>. QED  BY <1>5, <3>3, <3>4 DEF PlanSkipped
  <2>. QED  BY <2>1, <2>2
<1>6. ASSUME NEW t \in Tasks, FinishSkipped(t)
      PROVE  \E u \in Tasks : Settling(u, r)'
  <2> DEFINE c == Child[<<t, left[t]>>]
  <2>1. <<t, left[t]>> \in Slots /\ c \in Tasks
    BY <1>6 DEF FinishSkipped
  <2>2. pc[c] = "idle"
    BY <1>6, <2>1 DEF FinishSkipped, FreshInv
  <2>3. r # RowOf[c] /\ rows'[r] = rows[r]
    BY <1>6, <2>1 DEF FinishSkipped, Finish, RowIds, Open, Settled
  <2>4. PICK u \in Tasks : Settling(u, r)
    BY <2>3 DEF OwnerInv
  <2>5. u # t /\ u # c
    BY <1>6, <2>2, <2>3, <2>4 DEF FinishSkipped
  <2>. QED  BY <1>6, <2>1, <2>4, <2>5 DEF FinishSkipped
<1>7. CASE Return \/ Terminated \/ UNCHANGED vars
  BY <1>7 DEF OwnerInv, Return, Terminated, vars
<1>. QED  BY <1>1, <1>2, <1>3, <1>4, <1>5, <1>6, <1>7 DEF Next, Step

LEMMA CountStep ==
  IInv /\ [Next]_vars => CountInv' /\ sem' \in 0..Concurrency /\ wg' \in Nat
<1> SUFFICES ASSUME IInv, [Next]_vars
             PROVE  CountInv' /\ sem' \in 0..Concurrency /\ wg' \in Nat
  OBVIOUS
<1> DEFINE Goal == CountInv' /\ sem' \in 0..Concurrency /\ wg' \in Nat
<1> USE ConcurrencyAssumption DEF IInv, TypeOK, CountInv
<1>0. Holders \in SUBSET Tasks /\ LiveTasks \in SUBSET Tasks
  BY DEF Holders, LiveTasks
<1>1. ASSUME NEW t \in Tasks, SpawnSeed(t)
      PROVE  Goal
  <2>1. t \notin Holders /\ t \notin LiveTasks
    BY <1>1 DEF SpawnSeed, Goto, Holders, LiveTasks, Holding, Live
  <2>2. \A u \in Tasks : pc'[u] = IF u = t THEN "queued" ELSE pc[u]
    BY <1>1 DEF SpawnSeed, Goto
  <2>3. Holders' = Holders /\ LiveTasks' = LiveTasks \cup {t}
    BY <2>1, <2>2 DEF Holders, LiveTasks, Holding, Live
  <2>. QED  BY <1>0, <1>1, <2>1, <2>3, TaskCount DEF SpawnSeed
<1>2. ASSUME NEW t \in Tasks, Acquire(t)
      PROVE  Goal
  <2>1. t \notin Holders /\ t \in LiveTasks
    BY <1>2 DEF Acquire, Goto, Holders, LiveTasks, Holding, Live
  <2>2. \A u \in Tasks : pc'[u] = IF u = t THEN "plan" ELSE pc[u]
    BY <1>2 DEF Acquire, Goto
  <2>3. Holders' = Holders \cup {t} /\ LiveTasks' = LiveTasks
    BY <2>1, <2>2 DEF Holders, LiveTasks, Holding, Live
  <2>. QED  BY <1>0, <1>2, <2>1, <2>3, TaskCount DEF Acquire
<1>3. ASSUME NEW t \in Tasks,
             PlanRow(t) \/ StartRow(t) \/ Invoke(t) \/ FinishRow(t) \/ PlanSkipped(t)
      PROVE  Goal
  <2>1. t \in Holders /\ t \in LiveTasks
    BY <1>3 DEF PlanRow, StartRow, Invoke, FinishRow, PlanSkipped, Goto, Walking,
                Holders, LiveTasks, Holding, Live
  <2>2. PICK to \in Holding : pc' = [pc EXCEPT ![t] = to]
    BY <1>3 DEF PlanRow, StartRow, Invoke, FinishRow, PlanSkipped, Goto, Holding
  <2>3. Holders' = Holders /\ LiveTasks' = LiveTasks
    BY <2>1, <2>2 DEF Holders, LiveTasks, Live
  <2>. QED  BY <1>3, <2>3 DEF PlanRow, StartRow, Invoke, FinishRow, PlanSkipped
<1>4. ASSUME NEW t \in Tasks, Emit(t)
      PROVE  Goal
  BY <1>4 DEF Emit, Holders, LiveTasks
<1>5. ASSUME NEW t \in Tasks, SpawnChild(t)
      PROVE  Goal
  <2> DEFINE c == Child[<<t, left[t]>>]
  <2>1. c \in Tasks /\ pc[c] = "idle"
    BY <1>5, SlotFacts DEF SpawnChild, Walking, FreshInv
  <2>2. c \notin Holders /\ c \notin LiveTasks
    BY <2>1 DEF Holders, LiveTasks, Holding, Live
  <2>3. \A u \in Tasks : pc'[u] = IF u = c THEN "queued" ELSE pc[u]
    BY <1>5, <2>1 DEF SpawnChild
  <2>4. Holders' = Holders /\ LiveTasks' = LiveTasks \cup {c}
    BY <2>1, <2>2, <2>3 DEF Holders, LiveTasks, Holding, Live
  <2>. QED  BY <1>0, <1>5, <2>1, <2>2, <2>4, TaskCount DEF SpawnChild
<1>6. ASSUME NEW t \in Tasks, FinishSkipped(t)
      PROVE  Goal
  <2> DEFINE c == Child[<<t, left[t]>>]
  <2>1. c \in Tasks /\ pc[c] = "idle"
    BY <1>6, SlotFacts DEF FinishSkipped, LocalInv, FreshInv
  <2>2. \A u \in Tasks : pc'[u] = IF u = c THEN "skipped"
                                  ELSE IF u = t THEN "walk" ELSE pc[u]
    BY <1>6, <2>1 DEF FinishSkipped
  <2>3. Holders' = Holders /\ LiveTasks' = LiveTasks
    BY <1>6, <2>1, <2>2 DEF FinishSkipped, Holders, LiveTasks, Holding, Live
  <2>. QED  BY <1>6, <2>3 DEF FinishSkipped
<1>7. ASSUME NEW t \in Tasks, Release(t)
      PROVE  Goal
  <2>1. t \in Holders /\ t \in LiveTasks
    BY <1>7 DEF Release, Goto, Holders, LiveTasks, Holding, Live
  <2>2. \A u \in Tasks : pc'[u] = IF u = t THEN "exit" ELSE pc[u]
    BY <1>7 DEF Release, Goto
  <2>3. Holders' = Holders \ {t} /\ LiveTasks' = LiveTasks
    BY <2>1, <2>2 DEF Holders, LiveTasks, Holding, Live
  <2>. QED  BY <1>0, <1>7, <2>1, <2>3, TaskCount DEF Release
<1>8. ASSUME NEW t \in Tasks, Exit(t)
      PROVE  Goal
  <2>1. t \notin Holders /\ t \in LiveTasks
    BY <1>8 DEF Exit, Goto, Holders, LiveTasks, Holding, Live
  <2>2. \A u \in Tasks : pc'[u] = IF u = t THEN "done" ELSE pc[u]
    BY <1>8 DEF Exit, Goto
  <2>3. Holders' = Holders /\ LiveTasks' = LiveTasks \ {t}
    BY <2>1, <2>2 DEF Holders, LiveTasks, Holding, Live
  <2>. QED  BY <1>0, <1>8, <2>1, <2>3, TaskCount DEF Exit
<1>9. CASE Return \/ Terminated \/ UNCHANGED vars
  BY <1>9 DEF Return, Terminated, vars, Holders, LiveTasks
<1>. QED
  BY <1>1, <1>2, <1>3, <1>4, <1>5, <1>6, <1>7, <1>8, <1>9 DEF Next, Step

(* One step of the type invariant for each variable.                       *)
LEMMA TypeStep == IInv /\ [Next]_vars => TypeOK'
<1> SUFFICES ASSUME IInv, [Next]_vars PROVE TypeOK'
  OBVIOUS
<1> USE DEF IInv, TypeOK
<1>1. CASE \E t \in Tasks : SpawnSeed(t) \/ Step(t)
  <2> PICK t \in Tasks : SpawnSeed(t) \/ Step(t)
    BY <1>1
  <2> DEFINE c == Child[<<t, left[t]>>]
  <2>1. SpawnChild(t) \/ PlanSkipped(t) \/ FinishSkipped(t) => c \in Tasks
    BY SlotFacts DEF SpawnChild, PlanSkipped, FinishSkipped, Walking, LocalInv
  <2>2. FinishRow(t) => out[t] \in Settled
    BY DEF FinishRow, Goto, LocalInv
  <2> HIDE DEF c
  <2>3. pc' \in [Tasks -> PCs]
    BY <2>1 DEF SpawnSeed, Step, Acquire, PlanRow, StartRow, Invoke, FinishRow, Emit,
       SpawnChild, PlanSkipped, FinishSkipped, Release, Exit, Goto, PCs, Live, Holding, c
  <2>4. left' \in [Tasks -> Nat] /\ \A u \in Tasks : left'[u] <= MaxRecs[u]
    <3>1. CASE Invoke(t)
      BY <3>1, TasksAssumption DEF Invoke
    <3>2. CASE Emit(t) \/ SpawnChild(t) \/ FinishSkipped(t)
      <4>1. left[t] > 0 /\ left' = [left EXCEPT ![t] = @ - 1]
        BY <3>2 DEF Emit, SpawnChild, FinishSkipped, Walking, LocalInv
      <4>2. left[t] - 1 \in Nat /\ left[t] - 1 <= MaxRecs[t]
        <5>1. left[t] \in Nat /\ MaxRecs[t] \in Nat /\ left[t] <= MaxRecs[t]
          BY TasksAssumption
        <5> HIDE DEF IInv, TypeOK
        <5>. QED  BY <4>1, <5>1
      <4>3. \A u \in Tasks : left'[u] = IF u = t THEN left[t] - 1 ELSE left[u]
        BY <4>1
      <4>4. left' \in [Tasks -> Nat]
        BY <4>1, <4>2
      <4>. QED  BY <4>2, <4>3, <4>4
    <3>3. CASE UNCHANGED left
      BY <3>3
    <3>. QED
      BY <3>1, <3>2, <3>3 DEF SpawnSeed, Step, Acquire, PlanRow, StartRow, FinishRow,
         PlanSkipped, Release, Exit
  <2>5. out' \in [Tasks -> Settled \cup {"none"}]
    BY FailuresAssumption DEF SpawnSeed, Step, Acquire, PlanRow, StartRow, Invoke,
       FinishRow, Emit, SpawnChild, PlanSkipped, FinishSkipped, Release, Exit, Settled
  <2>6. rows' \in [RowIds -> Status]
    <3>1. CASE PlanRow(t) \/ PlanSkipped(t)
      BY <3>1 DEF PlanRow, PlanSkipped, Plan, Status, Open
    <3>2. CASE StartRow(t)
      BY <3>2 DEF StartRow, Start, Status, Open
    <3>3. CASE FinishRow(t)
      BY <3>3, <2>2 DEF FinishRow, Finish, Status
    <3>4. CASE FinishSkipped(t)
      BY <3>4 DEF FinishSkipped, Finish, Status, Settled
    <3>5. CASE UNCHANGED rows
      BY <3>5
    <3>. QED
      BY <3>1, <3>2, <3>3, <3>4, <3>5 DEF SpawnSeed, Step, Acquire, Invoke, Emit,
         SpawnChild, Release, Exit
  <2>7. tallies' \in [Settled -> Nat] /\ seedsDone' \in Nat /\ detail' \in Nat
    <3>1. CASE FinishRow(t) \/ FinishSkipped(t)
      BY <3>1, <2>2 DEF FinishRow, FinishSkipped, Tally, Settled
    <3>2. CASE UNCHANGED counters
      BY <3>2 DEF counters
    <3>. QED
      BY <3>1, <3>2 DEF SpawnSeed, Step, Acquire, PlanRow, StartRow, Invoke, Emit,
         SpawnChild, PlanSkipped, Release, Exit
  <2>8. artifacts' \in Nat
    <3>1. artifacts' = artifacts \/ artifacts' = artifacts + 1
      BY DEF SpawnSeed, Step, Acquire, PlanRow, StartRow, Invoke, FinishRow, Emit,
         SpawnChild, PlanSkipped, FinishSkipped, Release, Exit
    <3>. QED  BY <3>1
  <2>9. returned' \in BOOLEAN
    BY DEF SpawnSeed, Step, Acquire, PlanRow, StartRow, Invoke, FinishRow, Emit,
       SpawnChild, PlanSkipped, FinishSkipped, Release, Exit
  <2>. QED  BY <2>3, <2>4, <2>5, <2>6, <2>7, <2>8, <2>9, CountStep
<1>2. CASE Return
  <2>1. returned' \in BOOLEAN
    BY <1>2 DEF Return
  <2>. QED  BY <1>2, <2>1 DEF Return, counters
<1>3. CASE Terminated \/ UNCHANGED vars
  BY <1>3 DEF Terminated, vars
<1>. QED  BY <1>1, <1>2, <1>3 DEF Next

-----------------------------------------------------------------------------

THEOREM Invariance == Spec => []IInv
<1>1. Init => IInv
  BY InitIInv
<1>2. IInv /\ [Next]_vars => IInv'
  BY TypeStep, CountStep, LocalStep, FreshStep, OwnerStep, QuietStep DEF IInv
<1>. QED  BY <1>1, <1>2, PTL DEF Spec

(* Every variable keeps its type; in particular the semaphore never takes  *)
(* more tokens than its capacity and the WaitGroup's counter, whose going  *)
(* below zero would be a panic, never does.                                *)
THEOREM TypeCorrect == Spec => []TypeOK
BY Invariance, PTL DEF IInv

(* One token for each task in its critical section, on every path through  *)
(* run, the early returns included.                                        *)
THEOREM SlotsAreConserved == Spec => []SlotsConserved
<1>1. IInv => SlotsConserved
  BY DEF IInv, TypeOK, CountInv, Holders, SlotsConserved
<1>. QED  BY <1>1, Invariance, PTL

(* When Run returns nothing it started is still to run.                    *)
THEOREM ReturnIsQuiet == Spec => []RunWaitsForAll
<1>1. IInv => RunWaitsForAll
  BY DEF IInv, QuietInv, RunWaitsForAll
<1>. QED  BY <1>1, Invariance, PTL

(* When Run returns no row is left open, for any assignment of task ids.   *)
THEOREM IntegrityHolds == Spec => []IntegrityAtReturn
<1>1. IInv => IntegrityAtReturn
  <2> SUFFICES ASSUME IInv, returned, NEW r \in RowIds, rows[r] \in Open
               PROVE  FALSE
    BY DEF IntegrityAtReturn, IntegrityOK, IInv, TypeOK
  <2>1. PICK t \in Tasks : Settling(t, r)
    BY DEF IInv, OwnerInv
  <2>. QED  BY <2>1 DEF IInv, QuietInv, Settling, Live, Holding
<1>. QED  BY <1>1, Invariance, PTL

-----------------------------------------------------------------------------
(* What is on record.                                                      *)

(* Places from which on a task's row exists, may be its own outcome's, its *)
(* call was answered, its outcome was recorded.                            *)
Recorded == {"walk", "skip", "exit", "done", "skipped"}
Answered == {"finish"} \cup Recorded
Touched == {"invoke"} \cup Answered
OnRecord == {"start"} \cup Touched

(* The row of a task has its outcome, unless another task of the same id   *)
(* has started or been skipped.                                            *)
OutcomeKept(t) ==
  \/ rows[RowOf[t]] = out[t]
  \/ \E u \in Tasks \ {t} : RowOf[u] = RowOf[t] /\ pc[u] \in Touched

Gap(t) ==
  /\ out[t] # "none" <=> pc[t] \in Answered
  /\ pc[t] \in OnRecord => rows[RowOf[t]] # "absent"
  /\ pc[t] = "skip" => rows[RowOf[Child[<<t, left[t]>>]]] # "absent"
  /\ pc[t] \in Recorded => OutcomeKept(t)

GapInv == \A t \in Tasks : Gap(t)

-----------------------------------------------------------------------------

(* Rows are never removed, and a task once touched stays so.               *)
LEMMA Persistence ==
  ASSUME IInv, [Next]_vars
  PROVE  /\ \A r \in RowIds : rows[r] # "absent" => rows'[r] # "absent"
         /\ \A u \in Tasks : pc[u] \in Touched => pc'[u] \in Touched
<1>. USE SlotFacts DEF IInv, TypeOK, Touched, Answered, Recorded, LocalInv
<1>1. ASSUME NEW t \in Tasks, SpawnSeed(t) \/ Acquire(t) \/ Invoke(t) \/ Emit(t)
                              \/ Release(t) \/ Exit(t)
      PROVE  rows' = rows /\ \A u \in Tasks : pc[u] \in Touched => pc'[u] \in Touched
  BY <1>1 DEF SpawnSeed, Acquire, Invoke, Emit, Release, Exit, Goto, Walking
<1>2. ASSUME NEW t \in Tasks, PlanRow(t) \/ StartRow(t) \/ FinishRow(t)
      PROVE  /\ \A r \in RowIds : rows[r] # "absent" => rows'[r] # "absent"
             /\ \A u \in Tasks : pc[u] \in Touched => pc'[u] \in Touched
  <2>1. \A r \in RowIds : rows[r] # "absent" => rows'[r] # "absent"
    BY <1>2 DEF PlanRow, StartRow, FinishRow, Goto, Plan, Start, Finish, RowIds, Settled
  <2>2. \A u \in Tasks : pc[u] \in Touched => pc'[u] \in Touched
    BY <1>2 DEF PlanRow, StartRow, FinishRow, Goto
  <2>. QED  BY <2>1, <2>2
<1>3. ASSUME NEW t \in Tasks, SpawnChild(t)
      PROVE  rows' = rows /\ \A u \in Tasks : pc[u] \in Touched => pc'[u] \in Touched
  <2>1. <<t, left[t]>> \in Slots /\ pc[Child[<<t, left[t]>>]] = "idle"
    BY <1>3 DEF SpawnChild, Walking, FreshInv
  <2>. QED  BY <1>3, <2>1 DEF SpawnChild
<1>4. ASSUME NEW t \in Tasks, PlanSkipped(t)
      PROVE  /\ \A r \in RowIds : rows[r] # "absent" => rows'[r] # "absent"
             /\ \A u \in Tasks : pc[u] \in Touched => pc'[u] \in Touched
  <2>1. Child[<<t, left[t]>>] \in Tasks
    BY <1>4 DEF PlanSkipped, Walking
  <2>2. \A r \in RowIds : rows[r] # "absent" => rows'[r] # "absent"
    BY <1>4, <2>1 DEF PlanSkipped, Plan, RowIds
  <2>3. \A u \in Tasks : pc[u] \in Touched => pc'[u] \in Touched
    BY <1>4 DEF PlanSkipped
  <2>. QED  BY <2>2, <2>3
<1>5. ASSUME NEW t \in Tasks, FinishSkipped(t)
      PROVE  /\ \A r \in RowIds : rows[r] # "absent" => rows'[r] # "absent"
             /\ \A u \in Tasks : pc[u] \in Touched => pc'[u] \in Touched
  <2>1. Child[<<t, left[t]>>] \in Tasks
    BY <1>5 DEF FinishSkipped
  <2>2. \A r \in RowIds : rows[r] # "absent" => rows'[r] # "absent"
    BY <1>5, <2>1 DEF FinishSkipped, Finish, RowIds
  <2>3. \A u \in Tasks : pc[u] \in Touched => pc'[u] \in Touched
    BY <1>5, <2>1 DEF FinishSkipped
  <2>. QED  BY <2>2, <2>3
<1>6. CASE Return \/ Terminated \/ UNCHANGED vars
  BY <1>6 DEF Return, Terminated, vars
<1>. QED  BY <1>1, <1>2, <1>3, <1>4, <1>5, <1>6 DEF Next, Step

LEMMA GapStep == IInv /\ GapInv /\ [Next]_vars => GapInv'
<1>. SUFFICES ASSUME IInv, GapInv, [Next]_vars, NEW t \in Tasks PROVE Gap(t)'
  BY DEF GapInv
<1>. USE SlotFacts DEF IInv, TypeOK, LocalInv, Gap, Touched, Answered, Recorded, OnRecord
<1>0. /\ Gap(t) /\ RowOf[t] \in RowIds
      /\ \A r \in RowIds : rows[r] # "absent" => rows'[r] # "absent"
      /\ \A u \in Tasks : pc[u] \in Touched => pc'[u] \in Touched
  BY Persistence DEF GapInv, RowIds
(* A task that the step leaves at its place keeps what it had, if its row  *)
(* is left alone or taken over by another one that is now touched.         *)
<1>00. ASSUME pc'[t] = pc[t], left'[t] = left[t], out'[t] = out[t],
              \/ rows'[RowOf[t]] = rows[RowOf[t]]
              \/ rows[RowOf[t]] = "absent"
              \/ \E u \in Tasks \ {t} : RowOf[u] = RowOf[t] /\ pc'[u] \in Touched
       PROVE  Gap(t)'
  <2>1. pc[t] = "skip" => RowOf[Child[<<t, left[t]>>]] \in RowIds
    BY DEF RowIds
  <2>2. pc[t] \in Recorded => OutcomeKept(t)'
    BY <1>0, <1>00 DEF OutcomeKept
  <2>. QED  BY <1>0, <1>00, <2>1, <2>2
<1>1. ASSUME NEW a \in Tasks, SpawnSeed(a) \/ Acquire(a) PROVE Gap(t)'
  BY <1>0, <1>00, <1>1 DEF SpawnSeed, Acquire, Goto
<1>2. ASSUME NEW a \in Tasks, PlanRow(a) PROVE Gap(t)'
  <2>1. CASE t = a
    <3>1. rows'[RowOf[t]] # "absent"
      BY <1>0, <1>2, <2>1 DEF PlanRow, Plan
    <3>. QED  BY <1>0, <1>2, <2>1, <3>1 DEF PlanRow, Goto
  <2>2. CASE t # a
    <3>1. rows'[RowOf[t]] = rows[RowOf[t]] \/ rows[RowOf[t]] = "absent"
      BY <1>0, <1>2 DEF PlanRow, Plan
    <3>. QED  BY <1>00, <1>2, <2>2, <3>1 DEF PlanRow, Goto
  <2>. QED  BY <2>1, <2>2
<1>3. ASSUME NEW a \in Tasks, StartRow(a) PROVE Gap(t)'
  <2>1. CASE t = a
    BY <1>0, <1>3, <2>1 DEF StartRow, Goto
  <2>2. CASE t # a
    <3>1. rows'[RowOf[t]] = rows[RowOf[t]] \/ RowOf[a] = RowOf[t]
      BY <1>0, <1>3 DEF StartRow, Start
    <3>2. pc'[a] \in Touched
      BY <1>3 DEF StartRow, Goto
    <3>. QED  BY <1>00, <1>3, <2>2, <3>1, <3>2 DEF StartRow, Goto
  <2>. QED  BY <2>1, <2>2
<1>4. ASSUME NEW a \in Tasks, Invoke(a) PROVE Gap(t)'
  <2>1. CASE t = a
    <3>1. out'[t] # "none"
      BY <1>4, <2>1, FailuresAssumption DEF Invoke, Settled
    <3>. QED  BY <1>0, <1>4, <2>1, <3>1 DEF Invoke, Goto
  <2>2. CASE t # a
    BY <1>00, <1>4, <2>2 DEF Invoke, Goto
  <2>. QED  BY <2>1, <2>2
<1>5. ASSUME NEW a \in Tasks, FinishRow(a) PROVE Gap(t)'
  <2>1. CASE t = a
    <3>1. rows'[RowOf[t]] = out'[t] /\ out'[t] # "none" /\ pc'[t] = "walk"
      BY <1>0, <1>5, <2>1 DEF FinishRow, Goto, Finish
    <3>. QED  BY <1>0, <1>5, <2>1, <3>1 DEF FinishRow, Goto, OutcomeKept
  <2>2. CASE t # a
    <3>1. rows'[RowOf[t]] = rows[RowOf[t]] \/ RowOf[a] = RowOf[t]
      BY <1>0, <1>5 DEF FinishRow, Finish
    <3>2. pc'[a] \in Touched
      BY <1>5 DEF FinishRow, Goto
    <3>. QED  BY <1>00, <1>5, <2>2, <3>1, <3>2 DEF FinishRow, Goto
  <2>. QED  BY <2>1, <2>2
<1>6. ASSUME NEW a \in Tasks, Emit(a) \/ Release(a) \/ Exit(a) PROVE Gap(t)'
  <2>1. CASE t = a
    <3>1. rows' = rows /\ out' = out /\ pc[t] \in Recorded /\ pc'[t] \in Recorded \ {"skip"}
      BY <1>6, <2>1 DEF Emit, Release, Exit, Goto, Walking
    <3>2. OutcomeKept(t)'
      BY <1>0, <3>1 DEF OutcomeKept
    <3>. QED  BY <1>0, <3>1, <3>2
  <2>2. CASE t # a
    BY <1>00, <1>6, <2>2 DEF Emit, Release, Exit, Goto, Walking
  <2>. QED  BY <2>1, <2>2
<1>7. ASSUME NEW a \in Tasks, SpawnChild(a) PROVE Gap(t)'
  <2>. DEFINE c == Child[<<a, left[a]>>]
  <2>1. c \in Tasks /\ pc[c] = "idle" /\ c # a
    BY <1>7 DEF SpawnChild, Walking, FreshInv
  <2>2. CASE t = a
    <3>1. rows' = rows /\ out' = out /\ pc[t] = "walk" /\ pc'[t] = "walk"
      BY <1>7, <2>1, <2>2 DEF SpawnChild, Walking
    <3>2. OutcomeKept(t)'
      BY <1>0, <3>1 DEF OutcomeKept
    <3>. QED  BY <1>0, <3>1, <3>2
  <2>3. CASE t = c
    BY <1>0, <1>7, <2>1, <2>3 DEF SpawnChild
  <2>4. CASE t # a /\ t # c
    BY <1>00, <1>7, <2>1, <2>4 DEF SpawnChild
  <2>. QED  BY <2>2, <2>3, <2>4
<1>8. ASSUME NEW a \in Tasks, PlanSkipped(a) PROVE Gap(t)'
  <2>. DEFINE c == Child[<<a, left[a]>>]
  <2>1. c \in Tasks /\ RowOf[c] \in RowIds
    BY <1>8 DEF PlanSkipped, Walking, RowIds
  <2>2. rows'[RowOf[t]] = rows[RowOf[t]] \/ rows[RowOf[t]] = "absent"
    BY <1>0, <1>8, <2>1 DEF PlanSkipped, Plan
  <2>3. CASE t = a
    <3>1. rows'[RowOf[c]] # "absent"
      BY <1>8, <2>1 DEF PlanSkipped, Plan
    <3>2. /\ out' = out /\ left' = left /\ pc[t] = "walk" /\ pc'[t] = "skip"
      BY <1>8, <2>3 DEF PlanSkipped, Walking
    <3>3. OutcomeKept(t)'
      BY <1>0, <2>2, <3>2 DEF OutcomeKept
    <3>. QED  BY <1>0, <2>3, <3>1, <3>2, <3>3
  <2>4. CASE t # a
    BY <1>00, <1>8, <2>2, <2>4 DEF PlanSkipped
  <2>. QED  BY <2>3, <2>4
<1>9. ASSUME NEW a \in Tasks, FinishSkipped(a) PROVE Gap(t)'
  <2>. DEFINE c == Child[<<a, left[a]>>]
  <2>1. /\ <<a, left[a]>> \in Slots /\ c \in Tasks /\ RowOf[c] \in RowIds
        /\ rows[RowOf[c]] # "absent"
    BY <1>9 DEF FinishSkipped, RowIds, GapInv
  <2>2. pc[c] = "idle" /\ c # a
    BY <1>9, <2>1 DEF FinishSkipped, FreshInv
  <2>3. pc'[c] = "skipped" /\ pc'[a] = "walk" /\ out'[c] = "skipped" /\ out'[a] = out[a]
        /\ rows' = [rows EXCEPT ![RowOf[c]] = "skipped"]
    BY <1>9, <2>1, <2>2 DEF FinishSkipped, Finish
  <2>4. rows'[RowOf[t]] = rows[RowOf[t]] \/ RowOf[c] = RowOf[t]
    BY <1>0, <2>3
  <2>5. CASE t = a
    <3>1. OutcomeKept(t)'
      BY <1>0, <1>9, <2>1, <2>2, <2>3, <2>4, <2>5 DEF OutcomeKept, FinishSkipped
    <3>2. pc[t] = "skip"
      BY <1>9, <2>5 DEF FinishSkipped
    <3>. QED  BY <1>0, <2>3, <2>5, <3>1, <3>2
  <2>6. CASE t = c
    BY <1>0, <2>1, <2>3, <2>6 DEF OutcomeKept
  <2>7. CASE t # a /\ t # c
    <3>1. pc'[t] = pc[t] /\ left'[t] = left[t] /\ out'[t] = out[t]
      BY <1>9, <2>1, <2>7 DEF FinishSkipped
    <3>. QED  BY <1>00, <2>1, <2>3, <2>4, <2>7, <3>1
  <2>. QED  BY <2>5, <2>6, <2>7
<1>10. CASE Return \/ Terminated \/ UNCHANGED vars
  BY <1>00, <1>10 DEF Return, Terminated, vars, counters
<1>. QED  BY <1>1, <1>2, <1>3, <1>4, <1>5, <1>6, <1>7, <1>8, <1>9, <1>10 DEF Next, Step

(* When Run returns, the row of every task that ran or was skipped is      *)
(* settled, and with the task's own outcome if no other has its id.        *)
THEOREM GapsAreOnRecord == Spec => []NoHiddenGap
<1>1. Init => GapInv
  BY DEF Init, GapInv, Gap, Recorded, Answered, Touched, OnRecord
<1>2. IInv /\ GapInv => NoHiddenGap
  <2>. SUFFICES ASSUME IInv, GapInv, returned, NEW t \in Tasks, out[t] # "none"
                PROVE  /\ rows[RowOf[t]] \in Settled
                       /\ (\A u \in {v \in Tasks : out[v] # "none"} :
                             RowOf[u] = RowOf[t] => u = t) => rows[RowOf[t]] = out[t]
    BY DEF NoHiddenGap
  <2>. USE DEF IInv, TypeOK, Recorded, Answered, Touched, OnRecord
  <2>1. \A u \in Tasks : pc[u] \in {"idle", "done", "skipped"}
    BY DEF QuietInv, PCs
  <2>2. pc[t] \in Recorded /\ RowOf[t] \in RowIds
    BY <2>1 DEF GapInv, Gap, RowIds
  <2>3. rows[RowOf[t]] # "absent" /\ OutcomeKept(t)
    BY <2>2 DEF GapInv, Gap
  <2>4. rows[RowOf[t]] \notin Open
    <3>. SUFFICES ASSUME rows[RowOf[t]] \in Open PROVE FALSE
      OBVIOUS
    <3>1. PICK u \in Tasks : Settling(u, RowOf[t])
      BY <2>2 DEF OwnerInv
    <3>. QED  BY <2>1, <3>1 DEF Settling
  <2>5. rows[RowOf[t]] \in Settled
    BY <2>2, <2>3, <2>4 DEF Status
  <2>6. \A u \in Tasks : pc[u] \in Touched => out[u] # "none"
    BY <2>1 DEF GapInv, Gap
  <2>. QED  BY <2>3, <2>5, <2>6 DEF OutcomeKept
<1>. QED  BY <1>1, <1>2, GapStep, Invariance, PTL DEF Spec

-----------------------------------------------------------------------------
(* With an id of its own, a task's row follows the task.                   *)

DistinctIds == \A t, u \in Tasks : RowOf[t] = RowOf[u] => t = u

(* The parent of the record's task is about to settle it as skipped.       *)
Parked(x) == pc[x[1]] = "skip" /\ left[x[1]] = x[2]

Follows(t) ==
  /\ pc[t] = "idle" => \/ rows[RowOf[t]] = "absent"
                       \/ \E x \in Slots : Child[x] = t /\ Parked(x)
  /\ pc[t] \in {"queued", "plan"} => rows[RowOf[t]] = "absent"
  /\ pc[t] \in {"start", "invoke", "finish"} => rows[RowOf[t]] \in Open
  /\ pc[t] \in Recorded => rows[RowOf[t]] \in Settled
  /\ pc[t] = "skip" => rows[RowOf[Child[<<t, left[t]>>]]] \in Open

FollowInv == \A t \in Tasks : Follows(t)

(* A step that changes the row of a task moves that task.                  *)
LEMMA FollowStep ==
  ASSUME DistinctIds, IInv, FollowInv, [Next]_vars
  PROVE  FollowInv'
<1>. SUFFICES ASSUME NEW t \in Tasks PROVE Follows(t)'
  BY DEF FollowInv
<1>. USE SlotFacts DEF IInv, TypeOK, LocalInv, Follows, Recorded
<1>0. Follows(t) /\ RowOf[t] \in RowIds
  BY DEF FollowInv, RowIds
(* A task of another id than the rows that the step changes.               *)
<1>00. ASSUME pc'[t] = pc[t], left'[t] = left[t], rows'[RowOf[t]] = rows[RowOf[t]],
              pc[t] = "idle" => \A x \in Slots : Child[x] = t /\ Parked(x) => Parked(x)',
              pc[t] = "skip" => LET r == RowOf[Child[<<t, left[t]>>]] IN rows'[r] = rows[r]
       PROVE  Follows(t)'
  BY <1>0, <1>00
(* A row in a parent's hands is of a task that is idle and has no other.   *)
<1>01. ASSUME pc[t] = "skip"
       PROVE  /\ <<t, left[t]>> \in Slots /\ Child[<<t, left[t]>>] \in Tasks
              /\ pc[Child[<<t, left[t]>>]] = "idle"
  <2>1. <<t, left[t]>> \in Slots
    BY <1>01
  <2>. QED  BY <1>01, <2>1 DEF FreshInv
<1>1. ASSUME NEW a \in Tasks, SpawnSeed(a) PROVE Follows(t)'
  <2>1. CASE t = a
    BY <1>0, <1>1, <2>1 DEF SpawnSeed, Goto
  <2>2. CASE t # a
    BY <1>00, <1>1, <2>2 DEF SpawnSeed, Goto, Parked
  <2>. QED  BY <2>1, <2>2
<1>2. ASSUME NEW a \in Tasks, Acquire(a) \/ Emit(a) \/ Release(a) \/ Exit(a) PROVE Follows(t)'
  <2>1. CASE t = a
    BY <1>0, <1>2, <2>1 DEF Acquire, Emit, Release, Exit, Goto, Walking
  <2>2. CASE t # a
    BY <1>00, <1>2, <2>2 DEF Acquire, Emit, Release, Exit, Goto, Walking, Parked
  <2>. QED  BY <2>1, <2>2
<1>3. ASSUME NEW a \in Tasks, PlanRow(a) \/ StartRow(a) \/ FinishRow(a) PROVE Follows(t)'
  <2>1. CASE t = a
    <3>1. CASE PlanRow(a)
      BY <1>0, <2>1, <3>1 DEF PlanRow, Plan, Goto, Open
    <3>2. CASE StartRow(a)
      BY <1>0, <2>1, <3>2 DEF StartRow, Start, Goto, Open
    <3>3. CASE FinishRow(a)
      <4>1. rows'[RowOf[t]] = out[t] /\ out[t] \in Settled /\ pc'[t] = "walk"
        BY <1>0, <2>1, <3>3 DEF FinishRow, Finish, Goto, Open
      <4>. QED  BY <4>1
    <3>. QED  BY <1>3, <3>1, <3>2, <3>3
  <2>2. CASE t # a
    <3>1. /\ left' = left /\ pc'[t] = pc[t] /\ pc[a] \in {"plan", "start", "finish"}
          /\ \A u \in Tasks \ {a} : pc'[u] = pc[u]
          /\ \A r \in RowIds : r # RowOf[a] => rows'[r] = rows[r]
      BY <1>3, <2>2 DEF PlanRow, StartRow, FinishRow, Goto, Plan, Start, Finish
    <3>2. rows'[RowOf[t]] = rows[RowOf[t]]
      BY <1>0, <2>2, <3>1 DEF DistinctIds
    <3>3. pc[t] = "skip" => LET r == RowOf[Child[<<t, left[t]>>]] IN rows'[r] = rows[r]
      BY <1>01, <3>1 DEF DistinctIds, RowIds
    <3>4. \A x \in Slots : Parked(x) => Parked(x)'
      BY <3>1 DEF Parked
    <3>. QED  BY <1>00, <3>1, <3>2, <3>3, <3>4
  <2>. QED  BY <2>1, <2>2
<1>4. ASSUME NEW a \in Tasks, Invoke(a) PROVE Follows(t)'
  <2>1. CASE t = a
    BY <1>0, <1>4, <2>1 DEF Invoke, Goto
  <2>2. CASE t # a
    BY <1>00, <1>4, <2>2 DEF Invoke, Goto, Parked
  <2>. QED  BY <2>1, <2>2
<1>5. ASSUME NEW a \in Tasks, SpawnChild(a) PROVE Follows(t)'
  <2>. DEFINE y == <<a, left[a]>>
  <2>1. y \in Slots /\ Child[y] \in Tasks /\ pc[a] = "walk"
    BY <1>5 DEF SpawnChild, Walking
  <2>2. pc[Child[y]] = "idle" /\ Child[y] # a
    BY <2>1 DEF FreshInv
  <2>3. /\ rows' = rows /\ pc' = [pc EXCEPT ![Child[y]] = "queued"]
        /\ left' = [left EXCEPT ![a] = @ - 1]
    BY <1>5 DEF SpawnChild
  <2>4. CASE t = Child[y]
    <3>1. \A x \in Slots : Child[x] = t => ~Parked(x)
      BY <2>1, <2>4, ChildAssumption DEF Parked
    <3>2. pc'[t] = "queued" /\ rows[RowOf[t]] = "absent"
      BY <1>0, <2>1, <2>2, <2>3, <2>4, <3>1
    <3>. QED  BY <2>3, <3>2
  <2>5. CASE t = a
    BY <1>0, <2>1, <2>2, <2>3, <2>5
  <2>6. CASE t # a /\ t # Child[y]
    <3>1. \A x \in Slots : Parked(x) => Parked(x)'
      BY <2>1, <2>2, <2>3 DEF Parked
    <3>. QED  BY <1>00, <2>1, <2>3, <2>6, <3>1
  <2>. QED  BY <2>4, <2>5, <2>6
<1>6. ASSUME NEW a \in Tasks, PlanSkipped(a) PROVE Follows(t)'
  <2>. DEFINE y == <<a, left[a]>>  c == Child[y]
  <2>1. y \in Slots /\ c \in Tasks /\ RowOf[c] \in RowIds /\ pc[a] = "walk"
    BY <1>6 DEF PlanSkipped, Walking, RowIds
  <2>2. pc[c] = "idle" /\ c # a
    BY <2>1 DEF FreshInv
  <2>3. \A x \in Slots : Child[x] = c => ~Parked(x)
    BY <2>1, ChildAssumption DEF Parked
  <2>4. rows[RowOf[c]] = "absent"
    BY <2>1, <2>2, <2>3 DEF FollowInv
  <2>5. /\ rows' = [rows EXCEPT ![RowOf[c]] = "planned"] /\ left' = left
        /\ pc' = [pc EXCEPT ![a] = "skip"]
    BY <1>6, <2>4 DEF PlanSkipped, Plan
  <2>6. CASE t = a
    <3>1. rows'[RowOf[t]] = rows[RowOf[t]]
      BY <1>0, <2>1, <2>2, <2>5, <2>6 DEF DistinctIds
    <3>2. rows'[RowOf[c]] \in Open
      BY <2>1, <2>5 DEF Open
    <3>. QED  BY <1>0, <2>1, <2>5, <2>6, <3>1, <3>2
  <2>7. CASE t = c
    <3>1. Parked(y)' /\ pc'[t] = "idle"
      BY <2>1, <2>2, <2>5, <2>7 DEF Parked
    <3>. QED  BY <2>1, <2>5, <2>7, <3>1
  <2>8. CASE t # a /\ t # c
    <3>1. rows'[RowOf[t]] = rows[RowOf[t]]
      BY <1>0, <2>1, <2>5, <2>8 DEF DistinctIds
    <3>2. pc[t] = "skip" => Child[<<t, left[t]>>] # c
      BY <1>01, <2>1, <2>8, ChildAssumption
    <3>3. pc[t] = "skip" => LET r == RowOf[Child[<<t, left[t]>>]] IN rows'[r] = rows[r]
      BY <1>01, <2>1, <2>5, <3>2 DEF DistinctIds, RowIds
    <3>4. \A x \in Slots : Parked(x) => Parked(x)'
      BY <2>1, <2>5 DEF Parked
    <3>. QED  BY <1>00, <2>5, <2>8, <3>1, <3>3, <3>4
  <2>. QED  BY <2>6, <2>7, <2>8
<1>7. ASSUME NEW a \in Tasks, FinishSkipped(a) PROVE Follows(t)'
  <2>. DEFINE y == <<a, left[a]>>  c == Child[y]
  <2>1. pc[a] = "skip" /\ y \in Slots /\ c \in Tasks /\ RowOf[c] \in RowIds
    BY <1>7 DEF FinishSkipped, RowIds
  <2>2. pc[c] = "idle" /\ c # a /\ rows[RowOf[c]] \in Open
    BY <2>1 DEF FreshInv, FollowInv
  <2>3. /\ rows' = [rows EXCEPT ![RowOf[c]] = "skipped"]
        /\ left' = [left EXCEPT ![a] = @ - 1]
        /\ pc' = [pc EXCEPT ![a] = "walk", ![c] = "skipped"]
    BY <1>7, <2>2 DEF FinishSkipped, Finish, Open
  <2>4. CASE t = a
    <3>1. rows'[RowOf[t]] = rows[RowOf[t]]
      BY <1>0, <2>1, <2>2, <2>3, <2>4 DEF DistinctIds
    <3>. QED  BY <1>0, <2>1, <2>2, <2>3, <2>4, <3>1
  <2>5. CASE t = c
    <3>1. pc'[t] = "skipped" /\ rows'[RowOf[t]] = "skipped"
      BY <2>1, <2>2, <2>3, <2>5
    <3>. QED  BY <3>1 DEF Settled
  <2>6. CASE t # a /\ t # c
    <3>1. rows'[RowOf[t]] = rows[RowOf[t]]
      BY <1>0, <2>1, <2>3, <2>6 DEF DistinctIds
    <3>2. pc[t] = "skip" => Child[<<t, left[t]>>] # c
      BY <1>01, <2>1, <2>6, ChildAssumption
    <3>3. pc[t] = "skip" => LET r == RowOf[Child[<<t, left[t]>>]] IN rows'[r] = rows[r]
      BY <1>01, <2>1, <2>3, <3>2 DEF DistinctIds, RowIds
    <3>4. \A x \in Slots : Child[x] = t /\ Parked(x) => Parked(x)'
      <4>. SUFFICES ASSUME NEW x \in Slots, Child[x] = t, Parked(x) PROVE Parked(x)'
        OBVIOUS
      <4>1. x[1] # a /\ x[1] # c
        BY <2>1, <2>2, <2>6 DEF Parked
      <4>. QED  BY <2>3, <4>1 DEF Parked
    <3>. QED  BY <1>00, <2>1, <2>2, <2>3, <2>6, <3>1, <3>3, <3>4
  <2>. QED  BY <2>4, <2>5, <2>6
<1>8. CASE Return \/ Terminated \/ UNCHANGED vars
  BY <1>00, <1>8 DEF Return, Terminated, vars, counters, Parked
<1>. QED  BY <1>1, <1>2, <1>3, <1>4, <1>5, <1>6, <1>7, <1>8 DEF Next, Step

(* Every step advances the one row it changes, or closes the record.       *)
LEMMA PromiseStep ==
  ASSUME DistinctIds, IInv, FollowInv, IInv', [Next]_vars
  PROVE  [Promise!Next]_(Promise!vars)
<1>. DEFINE phase == [r \in RowIds |-> IF rows[r] = "absent" THEN "unseen"
                     ELSE IF rows[r] \in Open THEN "open" ELSE "settled"]
<1>. USE DEF IInv, TypeOK
(* A task that is at work shows that Run has not returned.                 *)
<1>1. ASSUME NEW a \in Tasks, pc[a] \in Live PROVE returned = FALSE
  BY <1>1 DEF QuietInv
<1>2. ASSUME NEW a \in Tasks, SpawnSeed(a) \/ Acquire(a) \/ Invoke(a) \/ Emit(a)
                              \/ SpawnChild(a) \/ Release(a) \/ Exit(a)
      PROVE  UNCHANGED Promise!vars
  BY <1>2 DEF SpawnSeed, Acquire, Invoke, Emit, SpawnChild, Release, Exit, Promise!vars
<1>3. ASSUME NEW r \in RowIds, returned = FALSE, UNCHANGED returned,
             NEW st \in Status, rows' = [rows EXCEPT ![r] = st],
             \/ rows[r] = "absent" /\ st \in Open
             \/ rows[r] \in Open /\ st \in Settled
      PROVE  Promise!Next
  <2>1. CASE rows[r] = "absent" /\ st \in Open
    <3>1. phase[r] = "unseen" /\ phase' = [phase EXCEPT ![r] = "open"]
      BY <1>3, <2>1 DEF Open
    <3>2. Promise!Record(r)
      BY <1>3, <3>1 DEF Promise!Record, Promise!Advance
    <3>. QED  BY <3>2 DEF Promise!Next
  <2>2. CASE rows[r] \in Open /\ st \in Settled
    <3>1. phase[r] = "open" /\ phase' = [phase EXCEPT ![r] = "settled"]
      BY <1>3, <2>2 DEF Open, Settled
    <3>2. Promise!Settle(r)
      BY <1>3, <3>1 DEF Promise!Settle, Promise!Advance
    <3>. QED  BY <3>2 DEF Promise!Next
  <2>. QED  BY <1>3, <2>1, <2>2
<1>4. ASSUME NEW a \in Tasks, PlanRow(a) PROVE Promise!Next
  <2>1. rows[RowOf[a]] = "absent" /\ RowOf[a] \in RowIds /\ returned = FALSE
    BY <1>1, <1>4 DEF PlanRow, Goto, FollowInv, Follows, RowIds, Live, Holding
  <2>2. rows' = [rows EXCEPT ![RowOf[a]] = "planned"] /\ UNCHANGED returned
    BY <1>4, <2>1 DEF PlanRow, Plan
  <2>. QED  BY <1>3, <2>1, <2>2 DEF Open, Status
<1>5. ASSUME NEW a \in Tasks, StartRow(a) PROVE UNCHANGED Promise!vars
  <2>1. rows[RowOf[a]] \in Open /\ RowOf[a] \in RowIds
    BY <1>5 DEF StartRow, Goto, FollowInv, Follows, RowIds
  <2>2. rows' = [rows EXCEPT ![RowOf[a]] = "running"] /\ UNCHANGED returned
    BY <1>5, <2>1 DEF StartRow, Start, Open
  <2>3. phase' = phase
    BY <2>1, <2>2 DEF Open
  <2>. QED  BY <2>2, <2>3 DEF Promise!vars
<1>6. ASSUME NEW a \in Tasks, FinishRow(a) PROVE Promise!Next
  <2>1. rows[RowOf[a]] \in Open /\ RowOf[a] \in RowIds /\ out[a] \in Settled /\ returned = FALSE
    BY <1>1, <1>6 DEF FinishRow, Goto, FollowInv, Follows, RowIds, Live, Holding, LocalInv
  <2>2. rows' = [rows EXCEPT ![RowOf[a]] = out[a]] /\ UNCHANGED returned
    BY <1>6, <2>1 DEF FinishRow, Finish, Open
  <2>. QED  BY <1>3, <2>1, <2>2 DEF Status
<1>7. ASSUME NEW a \in Tasks, PlanSkipped(a) PROVE Promise!Next
  <2>. DEFINE y == <<a, left[a]>>
  <2>1. y \in Slots /\ Child[y] \in Tasks /\ RowOf[Child[y]] \in RowIds /\ pc[a] = "walk"
    BY <1>7, SlotFacts DEF PlanSkipped, Walking, RowIds
  <2>2. pc[Child[y]] = "idle"
    BY <2>1 DEF FreshInv
  <2>3. \A x \in Slots : Child[x] = Child[y] => ~Parked(x)
    BY <2>1, SlotFacts, ChildAssumption DEF Parked
  <2>4. rows[RowOf[Child[y]]] = "absent"
    BY <2>1, <2>2, <2>3 DEF FollowInv, Follows
  <2>5. rows' = [rows EXCEPT ![RowOf[Child[y]]] = "planned"] /\ UNCHANGED returned
    BY <1>7, <2>4 DEF PlanSkipped, Plan
  <2>6. returned = FALSE
    BY <1>1, <2>1 DEF Live, Holding
  <2>. QED  BY <1>3, <2>1, <2>4, <2>5, <2>6 DEF Open, Status
<1>8. ASSUME NEW a \in Tasks, FinishSkipped(a) PROVE Promise!Next
  <2>. DEFINE c == Child[<<a, left[a]>>]
  <2>1. pc[a] = "skip" /\ RowOf[c] \in RowIds
    BY <1>8, SlotFacts DEF FinishSkipped, RowIds, LocalInv
  <2>2. rows[RowOf[c]] \in Open /\ returned = FALSE
    BY <1>1, <2>1 DEF FollowInv, Follows, Live, Holding
  <2>3. rows' = [rows EXCEPT ![RowOf[c]] = "skipped"] /\ UNCHANGED returned
    BY <1>8, <2>2 DEF FinishSkipped, Finish, Open
  <2>. QED  BY <1>3, <2>1, <2>2, <2>3 DEF Status, Settled
<1>9. ASSUME Return PROVE Promise!Next
  <2>1. \A t \in Tasks : pc[t] \notin Live
    BY <1>9 DEF Return, QuietInv
  <2>2. \A r \in RowIds : rows[r] \notin Open
    BY <2>1 DEF OwnerInv, Settling, Live, Holding
  <2>3. \A r \in RowIds : phase[r] # "open"
    BY <2>2
  <2>4. returned = FALSE /\ returned' = TRUE /\ phase' = phase
    BY <1>9 DEF Return
  <2>5. Promise!Close
    BY <2>3, <2>4 DEF Promise!Close
  <2>. QED  BY <2>5 DEF Promise!Next
<1>10. CASE Terminated \/ UNCHANGED vars
  BY <1>10 DEF Terminated, vars, Promise!vars
<1>. QED  BY <1>2, <1>4, <1>5, <1>6, <1>7, <1>8, <1>9, <1>10 DEF Next, Step

(* If task ids are distinct the scheduler keeps the promise of the ledger: *)
(* a unit is on record before it runs, is settled once, and Run returns    *)
(* only when none is open.                                                 *)
THEOREM PromiseIsKept ==
  ASSUME DistinctIds
  PROVE  Spec => Promise!Safety
<1>1. Init => FollowInv
  BY DEF Init, FollowInv, Follows, Recorded, RowIds, NoRows
<1>2. Init => Promise!Init
  BY DEF Init, Promise!Init, NoRows
<1>. QED  BY <1>1, <1>2, FollowStep, PromiseStep, Invariance, PTL DEF Spec, Promise!Safety

-----------------------------------------------------------------------------
(* What the counters count.                                                *)

Settlers == {t \in Tasks : pc[t] \in Recorded}
With(s) == {t \in Settlers : out[t] = s}

TallyInv ==
  /\ \A s \in Settled : tallies[s] = Cardinality(With(s))
  /\ seedsDone = Cardinality(Settlers \cap Seeds)
  /\ detail = Cardinality(Settlers \ Seeds)

(* A step that settles no task leaves the counters alone.                  *)
LEMMA NothingSettled ==
  ASSUME IInv, TallyInv, UNCHANGED counters,
         \A t \in Tasks : pc'[t] \in Recorded <=> pc[t] \in Recorded,
         \A t \in Tasks : pc[t] \in Recorded => out'[t] = out[t]
  PROVE  TallyInv'
<1>1. Settlers' = Settlers
  BY DEF Settlers
<1>2. \A s \in Settled : With(s)' = With(s)
  BY <1>1 DEF With, Settlers
<1>. QED  BY <1>1, <1>2 DEF TallyInv, counters

(* A step that settles one counts it once.                                 *)
LEMMA OneSettled ==
  ASSUME IInv, TallyInv, NEW c \in Tasks, NEW st \in Settled,
         Tally(c \in Seeds, st), pc[c] \notin Recorded,
         pc'[c] \in Recorded, out'[c] = st,
         \A t \in Tasks \ {c} : pc'[t] \in Recorded <=> pc[t] \in Recorded,
         \A t \in Tasks \ {c} : out'[t] = out[t]
  PROVE  TallyInv'
<1>1. Settlers' = Settlers \cup {c} /\ c \notin Settlers /\ Settlers \subseteq Tasks
  BY DEF Settlers
<1>2. ASSUME NEW s \in Settled PROVE tallies'[s] = Cardinality(With(s)')
  <2>1. tallies'[s] = IF s = st THEN tallies[s] + 1 ELSE tallies[s]
    BY DEF Tally, IInv, TypeOK
  <2>2. tallies[s] = Cardinality(With(s)) /\ c \notin With(s) /\ With(s) \in SUBSET Tasks
    BY <1>1 DEF TallyInv, With
  <2>3. With(s)' = IF s = st THEN With(s) \cup {c} ELSE With(s)
    BY <1>1 DEF With
  <2>. QED  BY <2>1, <2>2, <2>3, TaskCount
<1>3. seedsDone' = Cardinality((Settlers \cap Seeds)')
  <2>1. (Settlers \cap Seeds)' = IF c \in Seeds THEN (Settlers \cap Seeds) \cup {c}
                                 ELSE Settlers \cap Seeds
    BY <1>1
  <2>. QED  BY <1>1, <2>1, TaskCount DEF Tally, TallyInv
<1>4. detail' = Cardinality((Settlers \ Seeds)')
  <2>1. (Settlers \ Seeds)' = IF c \in Seeds THEN Settlers \ Seeds
                              ELSE (Settlers \ Seeds) \cup {c}
    BY <1>1
  <2>. QED  BY <1>1, <2>1, TaskCount DEF Tally, TallyInv
<1>. QED  BY <1>2, <1>3, <1>4 DEF TallyInv

LEMMA TallyStep == IInv /\ TallyInv /\ [Next]_vars => TallyInv'
<1>. SUFFICES ASSUME IInv, TallyInv, [Next]_vars PROVE TallyInv'
  OBVIOUS
<1>. USE DEF TypeOK, LocalInv, Recorded
<1>1. ASSUME NEW a \in Tasks, SpawnSeed(a) \/ Acquire(a) \/ PlanRow(a) \/ StartRow(a)
                              \/ Invoke(a) \/ Emit(a) \/ PlanSkipped(a) \/ Release(a) \/ Exit(a)
      PROVE  TallyInv'
  <2>1. UNCHANGED counters
    BY <1>1 DEF SpawnSeed, Acquire, PlanRow, StartRow, Invoke, Emit, PlanSkipped, Release, Exit,
                counters
  <2>2. \A t \in Tasks : pc'[t] \in Recorded <=> pc[t] \in Recorded
    BY <1>1 DEF IInv, SpawnSeed, Acquire, PlanRow, StartRow, Invoke, Emit, PlanSkipped, Release,
                Exit, Goto, Walking
  <2>3. \A t \in Tasks : pc[t] \in Recorded => out'[t] = out[t]
    BY <1>1 DEF IInv, SpawnSeed, Acquire, PlanRow, StartRow, Invoke, Emit, PlanSkipped, Release,
                Exit, Goto
  <2>. QED  BY <2>1, <2>2, <2>3, NothingSettled
<1>2. ASSUME NEW a \in Tasks, SpawnChild(a) PROVE TallyInv'
  <2>. DEFINE c == Child[<<a, left[a]>>]
  <2>1. pc[a] = "walk" /\ c \in Tasks /\ pc[c] = "idle"
    BY <1>2, SlotFacts DEF SpawnChild, Walking, FreshInv, IInv
  <2>2. pc' = [pc EXCEPT ![c] = "queued"] /\ out' = out /\ UNCHANGED counters
    BY <1>2 DEF SpawnChild, counters
  <2>3. \A t \in Tasks : pc'[t] \in Recorded <=> pc[t] \in Recorded
    BY <2>1, <2>2 DEF IInv
  <2>. QED  BY <2>2, <2>3, NothingSettled
<1>3. ASSUME NEW a \in Tasks, FinishRow(a) PROVE TallyInv'
  <2>1. /\ out[a] \in Settled /\ out' = out /\ Tally(a \in Seeds, out[a])
        /\ pc[a] = "finish" /\ pc' = [pc EXCEPT ![a] = "walk"]
    BY <1>3 DEF FinishRow, Goto, IInv
  <2>2. /\ pc[a] \notin Recorded /\ pc'[a] \in Recorded
        /\ \A t \in Tasks \ {a} : pc'[t] \in Recorded <=> pc[t] \in Recorded
    BY <2>1 DEF IInv
  <2>. QED  BY <2>1, <2>2, OneSettled
<1>4. ASSUME NEW a \in Tasks, FinishSkipped(a) PROVE TallyInv'
  <2>. DEFINE y == <<a, left[a]>>  c == Child[y]
  <2>1. pc[a] = "skip" /\ y \in Slots /\ c \in Tasks \ Seeds
    BY <1>4, SlotFacts DEF FinishSkipped, IInv
  <2>2. pc[c] = "idle" /\ c # a
    BY <2>1 DEF IInv, FreshInv, BeforeAnswer
  <2>3. /\ pc' = [pc EXCEPT ![a] = "walk", ![c] = "skipped"]
        /\ out' = [out EXCEPT ![c] = "skipped"] /\ Tally(c \in Seeds, "skipped")
    BY <1>4, <2>1 DEF FinishSkipped, Tally
  <2>4. /\ pc[c] \notin Recorded /\ pc'[c] \in Recorded /\ out'[c] = "skipped"
        /\ \A t \in Tasks \ {c} : pc'[t] \in Recorded <=> pc[t] \in Recorded
        /\ \A t \in Tasks \ {c} : out'[t] = out[t]
    BY <2>1, <2>2, <2>3 DEF IInv
  <2>. QED  BY <2>1, <2>3, <2>4, OneSettled DEF Settled
<1>5. CASE Return \/ Terminated \/ UNCHANGED vars
  BY <1>5, NothingSettled DEF Return, Terminated, vars, counters
<1>. QED  BY <1>1, <1>2, <1>3, <1>4, <1>5 DEF Next, Step

(* When Run returns, each seed and each detail call it started or skipped  *)
(* has been counted once, and under its own outcome.                       *)
THEOREM EachCountedOnce == Spec => []CountersAgree
<1>1. Init => TallyInv
  <2>. SUFFICES ASSUME Init PROVE TallyInv
    OBVIOUS
  <2>1. Settlers = {}
    BY DEF Init, Settlers, Recorded
  <2>2. \A s \in Settled : With(s) = {}
    BY <2>1 DEF With
  <2>3. Settlers \cap Seeds = {} /\ Settlers \ Seeds = {}
    BY <2>1
  <2>. QED  BY <2>2, <2>3, FS_EmptySet DEF Init, TallyInv
<1>2. IInv /\ GapInv /\ TallyInv => CountersAgree
  <2>. SUFFICES ASSUME IInv, GapInv, TallyInv, returned PROVE CountersAgree
    BY DEF CountersAgree
  <2>. DEFINE seen == {t \in Tasks : out[t] # "none"}
  <2>. USE DEF IInv, TypeOK, Recorded, Answered, Touched
  <2>1. \A t \in Tasks : pc[t] \in {"idle", "done", "skipped"}
    BY DEF QuietInv, PCs
  <2>2. seen = Settlers
    BY <2>1 DEF Settlers, GapInv, Gap
  <2>3. Settlers \cap Seeds = Seeds
    BY <2>1, TasksAssumption DEF QuietInv, Settlers
  <2>4. \A s \in Settled : {t \in seen : out[t] = s} = With(s)
    BY <2>2 DEF With
  <2>. QED  BY <2>2, <2>3, <2>4 DEF CountersAgree, TallyInv
<1>3. Init => GapInv
  BY DEF Init, GapInv, Gap, Recorded, Answered, Touched, OnRecord
<1>. QED  BY <1>1, <1>2, <1>3, GapStep, TallyStep, Invariance, PTL DEF Spec

=============================================================================
