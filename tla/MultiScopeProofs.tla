-------------------------- MODULE MultiScopeProofs --------------------------
(***************************************************************************)
(* Proofs about MultiScope for any scopes and lists of them, any resource  *)
(* types, any pool and any number of runs in one work directory.           *)
(***************************************************************************)
EXTENDS MultiScope, FiniteSetTheorems, TLAPS

Bundles == [inventory : [Types -> SUBSET Lines], facts : SUBSET Lines, surfaces : Nat,
            coverage : [Types -> Status], ledger : SUBSET Lines]
MergedBundles == [inventory : [Types -> SUBSET Lines], facts : [Lines -> Nat],
                  surfaces : Nat, ledger : [Lines -> Nat]]

Shapes ==
  /\ bundle \in [Dirs -> Bundles] /\ merged \in MergedBundles
  /\ phase \in {"off", "collect", "merge", "done"} /\ list \in Lists \cup {<<>>}
  /\ results \in [Dirs -> {"none", "running", "ok", "error"}]
  /\ started \in 0..Len(list) /\ sem \in 0..Pool /\ at \in 1..Len(list) + 1
  /\ seen \in [surface : BOOLEAN, open : SUBSET Types]
  /\ resuming \in BOOLEAN /\ runs \in 0..MaxRuns /\ merges \in 0..MaxRuns
  /\ answered \in [Dirs -> [Types -> Accounts \cup {"nobody"}]]
  /\ held \in [Dirs -> SUBSET Accounts]

Busy == {i \in 1..started : results[i] = "running"}

(* Slots are held by scopes under way, which are among those started, and  *)
(* a run merges once.                                                      *)
CountInv ==
  /\ phase # "off" => list \in Lists /\ runs > 0
  /\ sem = IF phase = "collect" THEN Cardinality(Busy) ELSE 0
  /\ phase = "collect" => \A i \in Dirs : results[i] = "running" => i <= started
  /\ merges <= runs /\ (phase = "collect" => merges < runs)

(* What a directory's coverage has as done was answered by an account that *)
(* had this place in some run; and in the run under way by the scope's     *)
(* own, unless it was skipped.                                             *)
AnswerInv ==
  /\ \A d \in Dirs : \A t \in PriorDone(bundle[d].coverage) : answered[d][t] \in held[d]
  /\ phase # "off" => \A i \in Scopes : list[i] \in held[i]
  /\ phase # "off" =>
       \A i \in Succeeded : \A t \in PriorDone(bundle[i].coverage) :
         answered[i][t] = list[i] \/ (resuming /\ bundle[i].coverage[t] = "skipped")

(* What the first merge has come to.                                       *)
Before == {i \in Succeeded : i < at}

FirstMerge ==
  /\ \A l \in Lines :
       /\ merged.facts[l] = Cardinality({i \in Before : l \in bundle[i].facts})
       /\ merged.ledger[l] = Cardinality({i \in Before : l \in bundle[i].ledger})
  /\ \A t \in Types : merged.inventory[t] = UNION {bundle[i].inventory[t] : i \in Before}
  /\ seen.open = {t \in Types : \E i \in Before : bundle[i].inventory[t] # {}}
  /\ seen.surface <=> Before # {}
  /\ merged.surfaces = IF Before = {} THEN 0 ELSE 1

MergeInv ==
  /\ \A d \in Dirs : results[d] = "ok" => bundle[d].surfaces > 0
  /\ phase = "collect" => at = 1 /\ seen = NothingSeen
  /\ phase = "done" => at = Len(list) + 1
  /\ phase \in {"merge", "done"} => merges > 0
  /\ merges = 0 =>
       /\ \A l \in Lines : merged.facts[l] = 0 /\ merged.ledger[l] = 0
       /\ \A t \in Types : merged.inventory[t] = {}
       /\ merged.surfaces = 0
  /\ merges = 1 /\ phase \in {"merge", "done"} => FirstMerge

IInv == Shapes /\ CountInv /\ AnswerInv /\ MergeInv

-----------------------------------------------------------------------------

LEMMA ListOfScopes ==
  ASSUME NEW l \in Lists \cup {<<>>}
  PROVE  /\ Len(l) \in Nat /\ DOMAIN l = 1..Len(l)
         /\ \A i \in DOMAIN l : l[i] \in Accounts
         /\ l \in Lists => DOMAIN l \subseteq Dirs
<1>1. l \in Seq(Accounts)
  <2>1. CASE l \in Lists
    BY <2>1, MultiScopeAssumption
  <2>2. CASE l = <<>>
    BY <2>2
  <2> QED BY <2>1, <2>2
<1>2. l \in Lists => DOMAIN l \subseteq Dirs
  BY DEF Dirs
<1> QED BY <1>1, <1>2

LEMMA DirsAreNumbers == Dirs \subseteq Nat
<1> SUFFICES ASSUME NEW d \in Dirs
             PROVE  d \in Nat
  OBVIOUS
<1>1. PICK l \in Lists : d \in DOMAIN l
  BY DEF Dirs
<1>2. DOMAIN l = 1..Len(l) /\ Len(l) \in Nat
  BY ListOfScopes
<1> QED BY <1>1, <1>2

LEMMA CurrentScopes ==
  ASSUME Shapes, CountInv, phase # "off"
  PROVE  /\ Len(list) \in Nat /\ Scopes = 1..Len(list) /\ Scopes \subseteq Dirs
         /\ \A i \in Scopes : list[i] \in Accounts /\ Line(i) \in Lines
<1>1. list \in Lists /\ runs \in 1..MaxRuns
  BY MultiScopeAssumption DEF Shapes, CountInv
<1>2. /\ Len(list) \in Nat /\ Scopes = 1..Len(list) /\ Scopes \subseteq Dirs
      /\ \A i \in Scopes : list[i] \in Accounts
  BY <1>1, ListOfScopes DEF Scopes
<1> QED BY <1>1, <1>2 DEF Line, Lines

(* Counting within an interval.                                            *)
LEMMA CountOne ==
  ASSUME NEW n \in Nat, NEW S \in SUBSET (1..n), NEW i \in Int
  PROVE  /\ IsFiniteSet(S) /\ Cardinality(S) \in Nat
         /\ i \notin S => Cardinality(S \cup {i}) = Cardinality(S) + 1
         /\ i \in S => Cardinality(S \ {i}) = Cardinality(S) - 1 /\ Cardinality(S) > 0
<1>1. IsFiniteSet(1..n)
  BY FS_Interval
<1>2. IsFiniteSet(S)
  BY <1>1, FS_Subset
<1>3. Cardinality(S) \in Nat
  BY <1>2, FS_CardinalityType
<1>4. i \notin S => Cardinality(S \cup {i}) = Cardinality(S) + 1
  BY <1>2, FS_AddElement
<1>5. ASSUME i \in S
      PROVE  Cardinality(S \ {i}) = Cardinality(S) - 1 /\ Cardinality(S) > 0
  <2>1. Cardinality(S \ {i}) = Cardinality(S) - 1
    BY <1>2, <1>5, FS_RemoveElement
  <2>2. Cardinality(S \ {i}) \in Nat
    BY <1>2, FS_RemoveElement, FS_CardinalityType
  <2> QED BY <2>1, <2>2, <1>3
<1> QED BY <1>2, <1>3, <1>4, <1>5

(* A bundle opened and written to: its fields.                             *)
LEMMA EmptyBundle ==
  /\ NoBundle \in Bundles
  /\ PriorDone(NoBundle.coverage) = {}
BY DEF NoBundle, Bundles, NoRows, Status, PriorDone, DoneStatus

LEMMA OpenedBundle ==
  ASSUME NEW d \in Dirs, bundle[d] \in Bundles
  PROVE  Opened(d) \in Bundles /\ Opened(d).coverage = bundle[d].coverage
BY DEF Opened, NoBundle, Bundles

LEMMA CollectedBundle ==
  ASSUME NEW d \in Dirs, bundle[d] \in Bundles, NEW i, Line(i) \in Lines, NEW ok \in SUBSET Types
  PROVE  /\ Collected(i, d, ok) \in Bundles /\ Collected(i, d, ok).coverage = bundle[d].coverage
         /\ Collected(i, d, ok).surfaces > 0
<1>1. PICK b \in Bundles : b = Opened(d) /\ b.coverage = bundle[d].coverage
  BY OpenedBundle
<1>2. PICK line \in Lines : line = Line(i)
  OBVIOUS
<1>3. PICK inventory :
        inventory = [t \in Types |-> IF t \in ok THEN b.inventory[t] \cup {line} ELSE b.inventory[t]]
  OBVIOUS
<1>4. inventory \in [Types -> SUBSET Lines]
  BY <1>1, <1>3 DEF Bundles
<1>5. Collected(i, d, ok) =
        [b EXCEPT !.inventory = inventory, !.facts = @ \cup {line}, !.surfaces = @ + 1]
  BY <1>1, <1>2, <1>3 DEF Collected
<1>6. b.surfaces + 1 \in Nat /\ b.surfaces + 1 > 0 /\ b.facts \cup {line} \in SUBSET Lines
  BY <1>1 DEF Bundles
<1>7. Collected(i, d, ok) =
        [inventory |-> inventory, facts |-> b.facts \cup {line}, surfaces |-> b.surfaces + 1,
         coverage |-> b.coverage, ledger |-> b.ledger]
  BY <1>1, <1>5 DEF Bundles
<1> QED BY <1>1, <1>4, <1>6, <1>7 DEF Bundles


LEMMA ScopeEndsWith ==
  ASSUME Shapes, CountInv, NEW i \in Scopes, ScopeEnds(i)
  PROVE  /\ phase = "collect" /\ i \in Dirs
         /\ bundle' \in [Dirs -> Bundles] /\ answered' \in [Dirs -> [Types -> Accounts \cup {"nobody"}]]
         /\ \A d \in Dirs \ {i} : bundle'[d] = bundle[d] /\ answered'[d] = answered[d]
         /\ bundle'[i].surfaces > 0
         /\ \A t \in PriorDone(bundle'[i].coverage) :
              \/ answered'[i][t] = list[i]
              \/ /\ resuming /\ bundle'[i].coverage[t] = "skipped"
                 /\ t \in PriorDone(bundle[i].coverage) /\ answered'[i][t] = answered[i][t]
<1>1. phase = "collect"
  BY DEF ScopeEnds, Slot
<1>2. i \in Dirs /\ list[i] \in Accounts /\ Line(i) \in Lines
  BY <1>1, CurrentScopes
<1>3. bundle \in [Dirs -> Bundles] /\ answered \in [Dirs -> [Types -> Accounts \cup {"nobody"}]]
  BY Zenon DEF Shapes
<1> DEFINE Rows(ok, failed) ==
             [t \in Types |->
                CASE t \notin Todo(i) -> "skipped" [] t \in ok -> "ok"
                  [] t \in failed -> "error" [] OTHER -> "empty"]
           Answers(failed) == [t \in Types |-> IF t \in Todo(i) \ failed THEN list[i] ELSE answered[i][t]]
           Written(ok, failed) ==
             [Collected(i, i, ok) EXCEPT !.coverage = Rows(ok, failed), !.ledger = {Line(i)}]
<1>4. PICK ok \in SUBSET Todo(i), failed \in SUBSET Types :
        /\ failed \in SUBSET (Todo(i) \ ok)
        /\ bundle' = [bundle EXCEPT ![i] = Written(ok, failed)]
        /\ answered' = [answered EXCEPT ![i] = Answers(failed)]
  <2>1. PICK ok \in SUBSET Todo(i) :
          \E failed \in SUBSET (Todo(i) \ ok) :
            /\ bundle' = [bundle EXCEPT ![i] = Written(ok, failed)]
            /\ answered' = [answered EXCEPT ![i] = [t \in Types |-> IF t \in Todo(i) \ failed THEN list[i] ELSE @[t]]]
    BY Zenon DEF ScopeEnds, Dir
  <2>2. PICK failed \in SUBSET (Todo(i) \ ok) :
          /\ bundle' = [bundle EXCEPT ![i] = Written(ok, failed)]
          /\ answered' = [answered EXCEPT ![i] = Answers(failed)]
    BY <2>1, Zenon
  <2> HIDE DEF Written, Answers
  <2> QED BY <2>2 DEF Todo
<1>5. Todo(i) \subseteq Types
  BY DEF Todo
<1>6. PICK b \in Bundles : b = Collected(i, i, ok) /\ b.surfaces > 0
  BY <1>2, <1>3, <1>5, CollectedBundle
<1>7. PICK rows : rows = Rows(ok, failed)
  OBVIOUS
<1>8. rows \in [Types -> Status]
  BY <1>7 DEF Status, Settled
<1>9. /\ bundle'[i] \in Bundles /\ bundle'[i].surfaces > 0 /\ bundle'[i].coverage = rows
  <2>1. bundle'[i] = [b EXCEPT !.coverage = rows, !.ledger = {Line(i)}]
    BY <1>2, <1>3, <1>4, <1>6, <1>7
  <2>2. bundle'[i] = [inventory |-> b.inventory, facts |-> b.facts, surfaces |-> b.surfaces,
                      coverage |-> rows, ledger |-> {Line(i)}]
    BY <1>6, <2>1 DEF Bundles
  <2> QED BY <1>2, <1>6, <1>8, <2>2 DEF Bundles
<1>10. bundle' \in [Dirs -> Bundles] /\ \A d \in Dirs \ {i} : bundle'[d] = bundle[d]
  <2>1. DOMAIN bundle' = Dirs /\ bundle' = [d \in Dirs |-> bundle'[d]]
    BY <1>3, <1>4
  <2>2. \A d \in Dirs \ {i} : bundle'[d] = bundle[d]
    BY <1>3, <1>4
  <2> QED BY <1>3, <1>9, <2>1, <2>2
<1>11. /\ answered' \in [Dirs -> [Types -> Accounts \cup {"nobody"}]]
       /\ \A d \in Dirs \ {i} : answered'[d] = answered[d]
       /\ \A t \in Types : answered'[i][t] = IF t \in Todo(i) \ failed THEN list[i] ELSE answered[i][t]
  BY <1>2, <1>3, <1>4
<1>12. ASSUME NEW t \in PriorDone(rows)
       PROVE  \/ answered'[i][t] = list[i]
              \/ /\ resuming /\ rows[t] = "skipped"
                 /\ t \in PriorDone(bundle[i].coverage) /\ answered'[i][t] = answered[i][t]
  <2>1. t \in Types /\ rows[t] \in DoneStatus
    BY <1>7, <1>12 DEF PriorDone
  <2>2. CASE t \in Todo(i)
    <3>1. t \notin failed
      BY <1>4, <1>7, <2>1, <2>2 DEF DoneStatus
    <3> QED BY <1>11, <2>1, <2>2, <3>1
  <2>3. CASE t \notin Todo(i)
    <3>1. resuming /\ t \in PriorDone(bundle[i].coverage)
      BY <2>1, <2>3 DEF Todo
    <3>2. rows[t] = "skipped"
      BY <1>4, <1>7, <2>1, <2>3
    <3> QED BY <1>11, <2>1, <2>3, <3>1, <3>2
  <2> QED BY <2>2, <2>3
<1> QED BY <1>1, <1>2, <1>9, <1>10, <1>11, <1>12

LEMMA ScopeFailsWith ==
  ASSUME Shapes, CountInv, NEW i \in Scopes, ScopeFails(i)
  PROVE  /\ phase = "collect" /\ i \in Dirs /\ answered' = answered
         /\ bundle' \in [Dirs -> Bundles]
         /\ \A d \in Dirs \ {i} : bundle'[d] = bundle[d]
         /\ \A d \in Dirs : bundle'[d].coverage = bundle[d].coverage
<1>1. phase = "collect"
  BY DEF ScopeFails, Slot
<1>2. i \in Dirs /\ Line(i) \in Lines
  BY <1>1, CurrentScopes
<1>3. bundle \in [Dirs -> Bundles]
  BY Zenon DEF Shapes
<1>4. \/ bundle' = bundle
      \/ \E b \in Bundles : bundle' = [bundle EXCEPT ![i] = b] /\ b.coverage = bundle[i].coverage
  <2>1. Opened(i) \in Bundles /\ Opened(i).coverage = bundle[i].coverage
    BY <1>2, <1>3, OpenedBundle
  <2>2. \A ok \in SUBSET Todo(i) :
          Collected(i, i, ok) \in Bundles /\ Collected(i, i, ok).coverage = bundle[i].coverage
    BY <1>2, <1>3, CollectedBundle DEF Todo
  <2> QED BY <2>1, <2>2 DEF ScopeFails, Dir
<1>5. answered' = answered
  BY DEF ScopeFails
<1> QED BY <1>1, <1>2, <1>3, <1>4, <1>5

(* A scope ends, one way or the other.                                     *)
LEMMA ScopeLeaves ==
  ASSUME Shapes, CountInv, NEW i \in Scopes, ScopeEnds(i) \/ ScopeFails(i)
  PROVE  /\ phase = "collect" /\ results[i] = "running" /\ i \in Dirs
         /\ bundle' \in [Dirs -> Bundles] /\ answered' \in [Dirs -> [Types -> Accounts \cup {"nobody"}]]
         /\ \A d \in Dirs \ {i} : bundle'[d] = bundle[d]
         /\ \E status \in {"ok", "error"} :
              /\ results' = [results EXCEPT ![i] = status]
              /\ status = "ok" => bundle'[i].surfaces > 0
         /\ sem' = sem - 1 /\ merged' = merged /\ phase' = phase /\ list' = list
         /\ resuming' = resuming /\ started' = started /\ at' = at /\ seen' = seen
         /\ held' = held /\ runs' = runs /\ merges' = merges
<1>1. CASE ScopeEnds(i)
  <2>1. Slot(i, "ok")
    BY <1>1, Zenon DEF ScopeEnds
  <2> QED BY <1>1, <2>1, ScopeEndsWith DEF Slot
<1>2. CASE ScopeFails(i)
  <2>1. Slot(i, "error")
    BY <1>2, Zenon DEF ScopeFails
  <2>2. answered \in [Dirs -> [Types -> Accounts \cup {"nobody"}]]
    BY Zenon DEF Shapes
  <2> QED BY <1>2, <2>1, <2>2, ScopeFailsWith DEF Slot
<1> QED BY <1>1, <1>2

-----------------------------------------------------------------------------
(* The slots, and the shapes of all variables.                             *)

LEMMA BusyStep ==
  ASSUME Shapes, CountInv, NEW i \in Scopes, ScopeEnds(i) \/ ScopeFails(i)
  PROVE  i \in Busy /\ Busy' = Busy \ {i} /\ sem' = Cardinality(Busy') /\ sem > 0
<1>1. started \in Nat /\ sem = Cardinality(Busy) /\ i \in 1..started /\ 1..started \subseteq Dirs
  <2>1. phase = "collect" /\ results[i] = "running" /\ i \in Dirs
    BY ScopeLeaves
  <2>2. Len(list) \in Nat /\ i \in 1..Len(list) /\ 1..Len(list) \subseteq Dirs
    BY <2>1, CurrentScopes
  <2> QED BY <2>1, <2>2 DEF Shapes, CountInv
<1>2. i \in Busy /\ Busy' = Busy \ {i}
  BY <1>1, ScopeLeaves DEF Busy, Shapes
<1>3. Busy \in SUBSET (1..started)
  BY DEF Busy
<1>4. Cardinality(Busy \ {i}) = Cardinality(Busy) - 1 /\ Cardinality(Busy) > 0
  <2>1. i \in Int
    BY <1>1
  <2> QED BY <1>1, <1>2, <1>3, <2>1, CountOne, Zenon
<1>5. sem' = sem - 1
  BY ScopeLeaves
<1> QED BY <1>1, <1>2, <1>4, <1>5

LEMMA ShapesStep ==
  ASSUME Shapes, CountInv, Next
  PROVE  Shapes'
<1> USE DEF Shapes
<1>1. CASE Begin
  <2>1. /\ runs' \in 0..MaxRuns /\ results' \in [Dirs -> {"none", "running", "ok", "error"}]
        /\ seen' \in [surface : BOOLEAN, open : SUBSET Types]
    BY <1>1, MultiScopeAssumption DEF Begin, NothingSeen
  <2>2. list' \in Lists /\ Len(list') \in Nat
    BY <1>1, ListOfScopes DEF Begin
  <2>3. started' \in 0..Len(list') /\ at' \in 1..Len(list') + 1
    BY <1>1, <2>2 DEF Begin
  <2>4. phase' \in {"off", "collect", "merge", "done"} /\ resuming' \in BOOLEAN
    BY <1>1 DEF Begin
  <2>5. held' \in [Dirs -> SUBSET Accounts]
    <3>1. \A d \in DOMAIN list' : list'[d] \in Accounts
      BY <2>2, ListOfScopes
    <3> QED BY <1>1, <3>1 DEF Begin
  <2> QED BY <1>1, <2>1, <2>2, <2>3, <2>4, <2>5 DEF Begin, disk
<1>2. CASE Launch
  <2>1. Len(list) \in Nat /\ Scopes = 1..Len(list) /\ Scopes \subseteq Dirs
    BY <1>2, CurrentScopes DEF Launch
  <2>2. started' \in 0..Len(list) /\ sem' \in 0..Pool
    BY <1>2, <2>1, MultiScopeAssumption DEF Launch
  <2>3. results' \in [Dirs -> {"none", "running", "ok", "error"}]
    BY <1>2, <2>1 DEF Launch
  <2> QED BY <1>2, <2>2, <2>3 DEF Launch, disk
<1>3. ASSUME NEW i \in Scopes, ScopeEnds(i) \/ ScopeFails(i) PROVE Shapes'
  <2>1. sem' \in 0..Pool
    BY <1>3, BusyStep, ScopeLeaves, MultiScopeAssumption
  <2>2. results' \in [Dirs -> {"none", "running", "ok", "error"}]
    BY <1>3, ScopeLeaves
  <2> QED BY <1>3, <2>1, <2>2, ScopeLeaves
<1>4. CASE BeginMerge
  <2>1. merges' \in 0..MaxRuns
    BY <1>4, MultiScopeAssumption DEF BeginMerge, CountInv
  <2> QED BY <1>4, <2>1 DEF BeginMerge, disk
<1>5. CASE MergeNext
  <2>1. Len(list) \in Nat /\ Scopes = 1..Len(list) /\ Scopes \subseteq Dirs
    BY <1>5, CurrentScopes DEF MergeNext
  <2>2. at' \in 1..Len(list) + 1
    BY <1>5, <2>1 DEF MergeNext
  <2>3. at \in Dirs /\ bundle[at] \in Bundles
    BY <1>5, <2>1 DEF MergeNext
  <2>4. seen' \in [surface : BOOLEAN, open : SUBSET Types]
    <3>1. PICK surfaced \in BOOLEAN : surfaced = (seen.surface \/ bundle[at].surfaces > 0)
      OBVIOUS
    <3>2. CASE seen' = seen
      BY <3>2
    <3>3. CASE seen' = [surface |-> surfaced,
                        open |-> seen.open \cup {t \in Types : bundle[at].inventory[t] # {}}]
      BY <3>3
    <3> QED BY <1>5, <3>1, <3>2, <3>3 DEF MergeNext, MergeStep
  <2>5. merged' \in MergedBundles
    <3>1. CASE merged' = merged
      BY <3>1
    <3>2. CASE merged' = Merged(bundle[at])
      <4>1. PICK b \in Bundles : b = bundle[at]
        BY <2>3
      <4>2. \A bag \in [Lines -> Nat] : \A lines : Increase(bag, lines) \in [Lines -> Nat]
        BY DEF Increase
      <4>3. Merged(b).inventory \in [Types -> SUBSET Lines]
        BY <4>1 DEF Merged, MergedBundles, Bundles
      <4>4. merged.facts \in [Lines -> Nat] /\ merged.ledger \in [Lines -> Nat] /\ merged.surfaces \in Nat
        BY DEF MergedBundles
      <4>5. Merged(b).facts \in [Lines -> Nat] /\ Merged(b).ledger \in [Lines -> Nat]
        BY <4>2, <4>4 DEF Merged
      <4>6. Merged(b).surfaces \in Nat
        BY <4>4 DEF Merged
      <4>7. Merged(b) = [inventory |-> Merged(b).inventory, facts |-> Merged(b).facts,
                         surfaces |-> Merged(b).surfaces, ledger |-> Merged(b).ledger]
        BY DEF Merged
      <4>8. Merged(b) \in MergedBundles
        BY <4>3, <4>5, <4>6, <4>7 DEF MergedBundles
      <4> QED BY <3>2, <4>1, <4>8
    <3> QED BY <1>5, <3>1, <3>2 DEF MergeNext, MergeStep
  <2> QED BY <1>5, <2>2, <2>4, <2>5 DEF MergeNext
<1>6. CASE EndMerge
  BY <1>6 DEF EndMerge, disk
<1>7. CASE EndKept
  BY <1>7 DEF EndKept, disk
<1>8. CASE Abort
  BY <1>8, MultiScopeAssumption DEF Abort, disk
<1> QED BY <1>1, <1>2, <1>3, <1>4, <1>5, <1>6, <1>7, <1>8 DEF Next, Progress

LEMMA CountStep ==
  ASSUME Shapes, CountInv, Next
  PROVE  CountInv'
<1> USE DEF CountInv
<1>1. CASE Begin
  <2>1. Busy' = {}
    BY <1>1 DEF Begin, Busy
  <2>2. sem' = 0 /\ Cardinality(Busy') = 0
    BY <1>1, <2>1, FS_EmptySet DEF Begin
  <2> QED BY <1>1, <2>2 DEF Begin, Shapes
<1>2. CASE Launch
  <2>1. started \in Nat /\ started' = started + 1 /\ started + 1 \in Dirs
    BY <1>2, CurrentScopes DEF Launch, Shapes
  <2>2. results' = [results EXCEPT ![started + 1] = "running"]
    BY <1>2 DEF Launch
  <2>3. Busy' = Busy \cup {started + 1} /\ started + 1 \notin Busy /\ Busy \in SUBSET (1..started)
    <3>1. /\ \A i \in 1..started : results'[i] = results[i]
          /\ results'[started + 1] = "running" /\ 1..started' = (1..started) \cup {started + 1}
          /\ started + 1 \notin 1..started
      BY <2>1, <2>2 DEF Shapes
    <3> QED BY <3>1 DEF Busy
  <2>4. Cardinality(Busy') = Cardinality(Busy) + 1
    <3>1. started + 1 \in Int
      BY <2>1
    <3> QED BY <2>1, <2>3, <3>1, CountOne, Zenon
  <2>5. \A i \in Dirs : results'[i] = "running" => i <= started'
    BY <1>2, <2>1, <2>2, DirsAreNumbers DEF Launch, Shapes
  <2> QED BY <1>2, <2>4, <2>5 DEF Launch
<1>3. ASSUME NEW i \in Scopes, ScopeEnds(i) \/ ScopeFails(i) PROVE CountInv'
  <2>1. \A d \in Dirs : results'[d] = "running" => results[d] = "running"
    BY <1>3, ScopeLeaves DEF Shapes
  <2> QED BY <1>3, <2>1, BusyStep, ScopeLeaves
<1>4. CASE BeginMerge
  <2>1. Busy = {}
    BY <1>4, CurrentScopes DEF BeginMerge, Busy, Shapes
  <2>2. sem = 0
    BY <1>4, <2>1, FS_EmptySet DEF BeginMerge
  <2> QED BY <1>4, <2>2 DEF BeginMerge, Shapes
<1>5. CASE MergeNext \/ EndMerge \/ EndKept
  BY <1>5 DEF MergeNext, EndMerge, EndKept
<1>6. CASE Abort
  BY <1>6 DEF Abort
<1> QED BY <1>1, <1>2, <1>3, <1>4, <1>5, <1>6 DEF Next, Progress

-----------------------------------------------------------------------------
(* Who answered.                                                           *)

LEMMA AnswerStep ==
  ASSUME Shapes, CountInv, AnswerInv, Next
  PROVE  AnswerInv'
<1> USE DEF Shapes
<1>1. CASE Begin
  <2>1. \A d \in Dirs : held[d] \subseteq held'[d]
    BY <1>1 DEF Begin
  <2>2. bundle' = bundle /\ answered' = answered
    BY <1>1 DEF Begin, disk
  <2>3. \A i \in Scopes' : list'[i] \in held'[i]
    <3>1. list' \in Lists /\ DOMAIN list' \subseteq Dirs
      BY <1>1, ListOfScopes DEF Begin
    <3> QED BY <1>1, <3>1 DEF Begin, Scopes
  <2>4. Succeeded' = {}
    <3>1. list' \in Lists /\ DOMAIN list' \subseteq Dirs
      BY <1>1, ListOfScopes DEF Begin
    <3> QED BY <1>1, <3>1 DEF Begin, Succeeded, Scopes
  <2> QED BY <2>1, <2>2, <2>3, <2>4 DEF AnswerInv
<1>2. ASSUME NEW i \in Scopes, ScopeEnds(i) \/ ScopeFails(i) PROVE AnswerInv'
  <2>1. /\ phase = "collect" /\ phase' = "collect" /\ i \in Dirs /\ held' = held /\ list' = list
        /\ resuming' = resuming /\ Scopes' = Scopes /\ Scopes \subseteq Dirs
    BY <1>2, ScopeLeaves, CurrentScopes DEF Scopes
  <2>2. \A d \in Dirs \ {i} : bundle'[d].coverage = bundle[d].coverage /\ answered'[d] = answered[d]
    BY <1>2, ScopeEndsWith, ScopeFailsWith
  <2>3. \A d \in Scopes \ {i} : d \in Succeeded' => d \in Succeeded
    BY <1>2, <2>1, ScopeLeaves DEF Succeeded
  <2>4. ASSUME NEW t \in PriorDone(bundle'[i].coverage)
        PROVE  /\ answered'[i][t] \in held[i]
               /\ i \in Succeeded' =>
                    answered'[i][t] = list[i] \/ (resuming /\ bundle'[i].coverage[t] = "skipped")
    <3>1. CASE ScopeEnds(i)
      <4>1. CASE answered'[i][t] = list[i]
        BY <2>1, <4>1 DEF AnswerInv
      <4>2. CASE /\ resuming /\ bundle'[i].coverage[t] = "skipped"
                 /\ t \in PriorDone(bundle[i].coverage) /\ answered'[i][t] = answered[i][t]
        BY <2>1, <4>2 DEF AnswerInv
      <4> QED BY <3>1, <2>4, <4>1, <4>2, ScopeEndsWith
    <3>2. CASE ScopeFails(i)
      <4>1. answered' = answered /\ bundle'[i].coverage = bundle[i].coverage
        BY <2>1, <3>2, ScopeFailsWith
      <4>2. results'[i] = "error"
        BY <2>1, <3>2, Zenon DEF ScopeFails, Slot
      <4>3. i \notin Succeeded'
        BY <4>2 DEF Succeeded
      <4> QED BY <2>1, <2>4, <4>1, <4>3 DEF AnswerInv
    <3> QED BY <1>2, <3>1, <3>2
  <2>5. ASSUME NEW d \in Dirs, NEW t \in PriorDone(bundle'[d].coverage)
        PROVE  answered'[d][t] \in held[d]
    BY <2>2, <2>4, <2>5 DEF AnswerInv
  <2>6. ASSUME NEW d \in Succeeded', NEW t \in PriorDone(bundle'[d].coverage)
        PROVE  answered'[d][t] = list[d] \/ (resuming /\ bundle'[d].coverage[t] = "skipped")
    <3>1. d \in Scopes
      BY <2>1, <2>6 DEF Succeeded
    <3>2. CASE d = i
      BY <2>4, <2>6, <3>2
    <3>3. CASE d # i
      <4>1. /\ d \in Succeeded /\ bundle'[d].coverage = bundle[d].coverage
            /\ answered'[d] = answered[d]
        BY <2>1, <2>2, <2>3, <2>6, <3>1, <3>3
      <4> QED BY <2>1, <2>6, <4>1 DEF AnswerInv
    <3> QED BY <3>2, <3>3
  <2>7. \A j \in Scopes : list[j] \in held[j]
    BY <2>1 DEF AnswerInv
  <2> QED BY <2>1, <2>5, <2>6, <2>7 DEF AnswerInv
<1>3. CASE Launch
  <2>1. Succeeded' \subseteq Succeeded
    BY <1>3, CurrentScopes DEF Launch, Succeeded, Scopes
  <2> QED BY <1>3, <2>1 DEF Launch, AnswerInv, Scopes, disk
<1>4. CASE BeginMerge \/ MergeNext \/ EndMerge \/ EndKept \/ Abort
  BY <1>4 DEF BeginMerge, MergeNext, EndMerge, EndKept, Abort, AnswerInv, Succeeded, Scopes, disk
<1> QED BY <1>1, <1>2, <1>3, <1>4 DEF Next, Progress

-----------------------------------------------------------------------------
(* What is merged.                                                         *)

(* One bundle more.                                                        *)
LEMMA OneBundleMore ==
  ASSUME Shapes, CountInv, MergeInv, FirstMerge, phase = "merge", at \in Scopes,
         results[at] = "ok", MergeStep(at), at' = at + 1, bundle' = bundle, results' = results,
         list' = list
  PROVE  FirstMerge'
<1>1. /\ Len(list) \in Nat /\ Scopes = 1..Len(list) /\ Scopes \subseteq Dirs
      /\ Scopes' = Scopes
  BY CurrentScopes DEF Scopes
<1>2. PICK n \in 1..Len(list), b \in Bundles : n = at /\ b = bundle[at] /\ b.surfaces > 0
  BY <1>1 DEF Shapes, MergeInv
<1>3. Before' = Before \cup {n} /\ n \notin Before /\ Before \in SUBSET (1..Len(list))
  BY <1>1, <1>2 DEF Before, Succeeded
<1>4. merged' = Merged(b)
  BY <1>2 DEF MergeStep
<1>5. \A l \in Lines : merged'.facts[l] = Cardinality({i \in Before' : l \in bundle'[i].facts})
  <2> SUFFICES ASSUME NEW l \in Lines
               PROVE  merged'.facts[l] = Cardinality({i \in Before' : l \in bundle'[i].facts})
    OBVIOUS
  <2>1. PICK S \in SUBSET (1..Len(list)) : S = {i \in Before : l \in bundle[i].facts} /\ n \notin S
    BY <1>3
  <2>2. {i \in Before' : l \in bundle'[i].facts} = IF l \in b.facts THEN S \cup {n} ELSE S
    BY <1>2, <1>3, <2>1
  <2>3. merged'.facts[l] = IF l \in b.facts THEN merged.facts[l] + 1 ELSE merged.facts[l]
    BY <1>4 DEF Merged, Increase
  <2>4. merged.facts[l] = Cardinality(S)
    BY <2>1 DEF FirstMerge
  <2>5. Cardinality(S \cup {n}) = Cardinality(S) + 1
    <3>1. n \in Int
      OBVIOUS
    <3> QED BY <1>1, <2>1, <3>1, CountOne, Zenon
  <2> QED BY <2>2, <2>3, <2>4, <2>5
<1>6. \A l \in Lines : merged'.ledger[l] = Cardinality({i \in Before' : l \in bundle'[i].ledger})
  <2> SUFFICES ASSUME NEW l \in Lines
               PROVE  merged'.ledger[l] = Cardinality({i \in Before' : l \in bundle'[i].ledger})
    OBVIOUS
  <2>1. PICK S \in SUBSET (1..Len(list)) : S = {i \in Before : l \in bundle[i].ledger} /\ n \notin S
    BY <1>3
  <2>2. {i \in Before' : l \in bundle'[i].ledger} = IF l \in b.ledger THEN S \cup {n} ELSE S
    BY <1>2, <1>3, <2>1
  <2>3. merged'.ledger[l] = IF l \in b.ledger THEN merged.ledger[l] + 1 ELSE merged.ledger[l]
    BY <1>4 DEF Merged, Increase
  <2>4. merged.ledger[l] = Cardinality(S)
    BY <2>1 DEF FirstMerge
  <2>5. Cardinality(S \cup {n}) = Cardinality(S) + 1
    <3>1. n \in Int
      OBVIOUS
    <3> QED BY <1>1, <2>1, <3>1, CountOne, Zenon
  <2> QED BY <2>2, <2>3, <2>4, <2>5
<1>7. \A t \in Types : merged'.inventory[t] = UNION {bundle'[i].inventory[t] : i \in Before'}
  <2> SUFFICES ASSUME NEW t \in Types
               PROVE  merged'.inventory[t] = UNION {bundle'[i].inventory[t] : i \in Before'}
    OBVIOUS
  <2>1. PICK U : U = UNION {bundle[i].inventory[t] : i \in Before}
    OBVIOUS
  <2>2. UNION {bundle'[i].inventory[t] : i \in Before'} = U \cup b.inventory[t]
    BY <1>2, <1>3, <2>1
  <2>3. merged.inventory[t] = U /\ (t \notin seen.open => U = {})
    BY <2>1 DEF FirstMerge
  <2>4. merged'.inventory[t] =
          IF b.inventory[t] = {} THEN merged.inventory[t]
          ELSE b.inventory[t] \cup IF t \in seen.open THEN merged.inventory[t] ELSE {}
    BY <1>4 DEF Merged
  <2> QED BY <2>2, <2>3, <2>4
<1>8. seen' = [surface |-> seen.surface \/ bundle[at].surfaces > 0,
               open |-> seen.open \cup {t \in Types : bundle[at].inventory[t] # {}}]
  BY DEF MergeStep
<1>9. seen'.open = {t \in Types : \E i \in Before' : bundle'[i].inventory[t] # {}}
  BY <1>2, <1>3, <1>8 DEF FirstMerge
<1>10. seen'.surface
  BY <1>2, <1>8
<1>11. merged'.surfaces = 1
  <2>1. merged'.surfaces = merged.surfaces + IF b.surfaces > 0 /\ ~seen.surface THEN 1 ELSE 0
    BY <1>4 DEF Merged
  <2>2. CASE Before = {}
    BY <1>2, <2>1, <2>2 DEF FirstMerge
  <2>3. CASE Before # {}
    BY <1>2, <2>1, <2>3 DEF FirstMerge
  <2> QED BY <2>2, <2>3
<1> QED BY <1>3, <1>5, <1>6, <1>7, <1>9, <1>10, <1>11 DEF FirstMerge

(* A step of something else.                                               *)
LEMMA FirstMergeStays ==
  ASSUME FirstMerge, UNCHANGED <<bundle, merged, list, results, at, seen>>
  PROVE  FirstMerge'
<1>1. Before' = Before
  BY DEF Before, Succeeded, Scopes
<1>2. bundle' = bundle /\ merged' = merged /\ seen' = seen
  OBVIOUS
<1>3. \A l \in Lines :
        /\ merged'.facts[l] = Cardinality({i \in Before' : l \in bundle'[i].facts})
        /\ merged'.ledger[l] = Cardinality({i \in Before' : l \in bundle'[i].ledger})
  BY <1>1, <1>2 DEF FirstMerge
<1>4. \A t \in Types : merged'.inventory[t] = UNION {bundle'[i].inventory[t] : i \in Before'}
  BY <1>1, <1>2 DEF FirstMerge
<1>5. seen'.open = {t \in Types : \E i \in Before' : bundle'[i].inventory[t] # {}}
  BY <1>1, <1>2 DEF FirstMerge
<1>6. /\ seen'.surface <=> Before' # {}
      /\ merged'.surfaces = IF Before' = {} THEN 0 ELSE 1
  BY <1>1, <1>2 DEF FirstMerge
<1> QED BY <1>3, <1>4, <1>5, <1>6 DEF FirstMerge

LEMMA MergeStepKeeps ==
  ASSUME IInv, Next
  PROVE  MergeInv'
<1> USE DEF IInv
<1>1. CASE Begin
  <2>1. \A d \in Dirs : results'[d] = "none"
    BY <1>1 DEF Begin
  <2> QED BY <1>1, <2>1 DEF Begin, MergeInv, disk, NothingSeen
<1>2. CASE Launch
  <2>1. \A d \in Dirs : results'[d] = "ok" => results[d] = "ok"
    BY <1>2 DEF Launch, Shapes
  <2> QED BY <1>2, <2>1 DEF Launch, MergeInv, disk, NothingSeen
<1>3. ASSUME NEW i \in Scopes, ScopeEnds(i) \/ ScopeFails(i) PROVE MergeInv'
  <2>1. PICK status \in {"ok", "error"} :
          results' = [results EXCEPT ![i] = status] /\ (status = "ok" => bundle'[i].surfaces > 0)
    BY <1>3, ScopeLeaves
  <2>2. \A d \in Dirs : results'[d] = "ok" => bundle'[d].surfaces > 0
    BY <1>3, <2>1, ScopeLeaves DEF Shapes, MergeInv
  <2>3. phase' = "collect" /\ at' = at /\ seen' = seen /\ merged' = merged /\ merges' = merges
    BY <1>3, ScopeLeaves
  <2> QED BY <1>3, <2>2, <2>3, ScopeLeaves DEF MergeInv, NothingSeen
<1>4. CASE BeginMerge
  <2>1. /\ phase = "collect" /\ phase' = "merge" /\ merges' = merges + 1 /\ merges \in Nat
        /\ at = 1 /\ seen = NothingSeen
        /\ UNCHANGED <<bundle, merged, list, results, at, seen>>
    BY <1>4 DEF BeginMerge, disk, MergeInv, Shapes
  <2>2. Before' = {} /\ Before = {}
    BY <2>1, CurrentScopes DEF Before, Succeeded, Scopes
  <2>3. ASSUME merges = 0 PROVE FirstMerge'
    <3>1. /\ \A l \in Lines : merged'.facts[l] = 0 /\ merged'.ledger[l] = 0
          /\ \A t \in Types : merged'.inventory[t] = {}
          /\ merged'.surfaces = 0 /\ seen'.open = {} /\ ~seen'.surface
      BY <2>1, <2>3 DEF MergeInv, NothingSeen
    <3>2. \A l \in Lines : /\ {i \in Before' : l \in bundle'[i].facts} = {}
                          /\ {i \in Before' : l \in bundle'[i].ledger} = {}
      BY <2>2
    <3>3. Cardinality({}) = 0
      BY FS_EmptySet
    <3> QED BY <2>2, <3>1, <3>2, <3>3 DEF FirstMerge
  <2> QED BY <2>1, <2>3 DEF MergeInv
<1>5. CASE MergeNext
  <2>1. /\ phase = "merge" /\ phase' = "merge" /\ merges' = merges /\ merges > 0 /\ at \in Scopes
        /\ at' = at + 1 /\ UNCHANGED <<bundle, list, results>>
    BY <1>5 DEF MergeNext, MergeInv
  <2>2. ASSUME merges = 1 PROVE FirstMerge'
    <3>1. FirstMerge
      BY <2>1, <2>2 DEF MergeInv
    <3>2. CASE results[at] = "ok"
      BY <1>5, <2>1, <3>1, <3>2, OneBundleMore DEF MergeNext
    <3>3. CASE results[at] # "ok"
      <4>1. merged' = merged /\ seen' = seen
        BY <1>5, <3>3 DEF MergeNext
      <4>2. Before' = Before
        BY <2>1, <3>3, CurrentScopes DEF Before, Succeeded, Scopes
      <4> QED BY <2>1, <3>1, <4>1, <4>2 DEF FirstMerge
    <3> QED BY <3>2, <3>3
  <2> QED BY <2>1, <2>2 DEF MergeInv
<1>6. CASE EndMerge
  <2>1. /\ phase = "merge" /\ phase' = "done" /\ at = Len(list) + 1
        /\ UNCHANGED <<bundle, merged, list, results, at, seen, merges>>
    BY <1>6 DEF EndMerge, disk
  <2>2. ASSUME FirstMerge PROVE FirstMerge'
    <3>1. Before' = Before
      BY <2>1 DEF Before, Succeeded, Scopes
    <3>2. bundle' = bundle /\ merged' = merged /\ seen' = seen
      BY <2>1
    <3> QED BY <2>2, <3>1, <3>2 DEF FirstMerge
  <2> QED BY <2>1, <2>2 DEF MergeInv
<1>7. CASE EndKept \/ Abort
  BY <1>7 DEF EndKept, Abort, disk, MergeInv, NothingSeen
<1> QED BY <1>1, <1>2, <1>3, <1>4, <1>5, <1>6, <1>7 DEF Next, Progress

-----------------------------------------------------------------------------
(* The invariant and what follows from it.                                 *)

LEMMA InitIInv == Init => IInv
<1> SUFFICES ASSUME Init
             PROVE  IInv
  OBVIOUS
<1> USE DEF Init
<1>1. Shapes
  <2>1. bundle \in [Dirs -> Bundles]
    BY EmptyBundle
  <2>2. merged \in MergedBundles
    BY DEF MergedBundles
  <2>3. Len(list) = 0
    OBVIOUS
  <2>4. results \in [Dirs -> {"none", "running", "ok", "error"}] /\ list \in Lists \cup {<<>>}
    OBVIOUS
  <2>5. answered \in [Dirs -> [Types -> Accounts \cup {"nobody"}]]
    OBVIOUS
  <2>9. held \in [Dirs -> SUBSET Accounts]
    OBVIOUS
  <2>6. started \in 0..Len(list) /\ sem \in 0..Pool /\ at \in 1..Len(list) + 1
    BY <2>3, MultiScopeAssumption
  <2>7. seen \in [surface : BOOLEAN, open : SUBSET Types] /\ resuming \in BOOLEAN
    BY DEF NothingSeen
  <2>8. runs \in 0..MaxRuns /\ merges \in 0..MaxRuns /\ phase \in {"off", "collect", "merge", "done"}
    BY MultiScopeAssumption
  <2> QED BY <2>1, <2>2, <2>4, <2>5, <2>6, <2>7, <2>8, <2>9, Zenon DEF Shapes
<1>2. CountInv
  BY DEF CountInv
<1>3. AnswerInv
  BY EmptyBundle DEF AnswerInv
<1>4. MergeInv
  BY DEF MergeInv
<1> QED BY <1>1, <1>2, <1>3, <1>4 DEF IInv

LEMMA StutterIInv == ASSUME IInv, UNCHANGED vars PROVE IInv'
<1>1. Shapes' /\ CountInv' /\ AnswerInv'
  BY DEF IInv, Shapes, CountInv, AnswerInv, Busy, Succeeded, Scopes, vars, disk
<1>2. ASSUME FirstMerge PROVE FirstMerge'
  <2>1. UNCHANGED <<bundle, merged, list, results, at, seen>>
    BY DEF vars, disk
  <2> QED BY <1>2, <2>1, FirstMergeStays
<1>3. MergeInv'
  BY <1>2 DEF IInv, MergeInv, NothingSeen, vars, disk
<1> QED BY <1>1, <1>3 DEF IInv

LEMMA IInvHolds == Spec => []IInv
<1>1. IInv /\ [Next]_vars => IInv'
  <2>1. IInv /\ Next => IInv'
    BY ShapesStep, CountStep, AnswerStep, MergeStepKeeps DEF IInv
  <2>2. IInv /\ UNCHANGED vars => IInv'
    BY StutterIInv
  <2> QED BY <2>1, <2>2
<1> QED BY <1>1, InitIInv, PTL DEF Spec

(* The bundles, the results and the counters keep their types; no more     *)
(* scopes than the pool has places are under way (CollectScopes).          *)
THEOREM TypeCorrect == Spec => []TypeOK
<1>1. IInv => TypeOK
  BY Zenon DEF IInv, Shapes, TypeOK, Bundles, MergedBundles
<1> QED BY <1>1, IInvHolds, PTL

(* The first merge in a work directory is the union of the bundles of the  *)
(* scopes that succeeded, whatever they hold and in whatever order they    *)
(* ended (MergeBundles).                                                   *)
THEOREM MergesAreUnions == Spec => []MergeIsUnion
<1>1. ASSUME IInv, phase = "done", merges = 1
      PROVE  Before = Succeeded /\ FirstMerge
  <2>1. at = Len(list) + 1 /\ FirstMerge
    BY <1>1 DEF IInv, MergeInv
  <2>2. Succeeded \subseteq 1..Len(list) /\ Len(list) \in Nat
    BY <1>1, CurrentScopes DEF IInv, Succeeded
  <2>3. \A i \in Succeeded : i < at
    <3> SUFFICES ASSUME NEW i \in Succeeded
                 PROVE  i < at
      OBVIOUS
    <3>1. i \in 1..Len(list)
      BY <2>2
    <3> QED BY <2>1, <2>2, <3>1
  <2>4. Before = Succeeded
    BY <2>3 DEF Before
  <2> QED BY <2>1, <2>4, Zenon
<1>2. IInv => MergeIsUnion
  <2> SUFFICES ASSUME IInv, phase = "done", merges = 1, Before = Succeeded, FirstMerge
               PROVE  MergeIsUnion
    BY <1>1 DEF MergeIsUnion
  <2> QED BY Zenon DEF MergeIsUnion, FirstMerge
<1> QED BY <1>2, IInvHolds, PTL

(* Whatever lists of scopes the runs of a work directory are given, and    *)
(* through any number of resumed, failed and killed ones: a scope that     *)
(* succeeded has as done what its own account answered; the one exception  *)
(* is a seed that a resumed run skipped, which may be the answer of an     *)
(* account that had its place in an earlier list (collectOne,              *)
(* planner.enumTask).                                                      *)
THEOREM ScopesAreCollected == Spec => []ScopeCollected
<1>1. IInv => ScopeCollected
  <2> SUFFICES ASSUME IInv, phase = "done", NEW i \in Succeeded,
                      NEW t \in PriorDone(bundle[i].coverage)
               PROVE  \/ answered[i][t] = list[i]
                      \/ /\ resuming /\ bundle[i].coverage[t] = "skipped"
                         /\ answered[i][t] \in held[i]
    BY DEF ScopeCollected
  <2>1. i \in Dirs
    BY CurrentScopes DEF IInv, Succeeded
  <2> QED BY <2>1 DEF IInv, AnswerInv
<1> QED BY <1>1, IInvHolds, PTL

=============================================================================
