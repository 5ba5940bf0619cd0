---------------------------- MODULE ProberProofs ----------------------------
(***************************************************************************)
(* Proofs about Prober for every catalog, inventory and table of fetchers, *)
(* whatever ids collide, and every capacity of the semaphore; and about    *)
(* Fetch, one call of a fetcher, for every table of functions that keeps to*)
(* FetchAssumption and pages and batches of any size.                      *)
(***************************************************************************)
EXTENDS Prober, Fetch, FiniteSetTheorems, SequenceTheorems, TLAPS

Running == {"plan", "look", "fetch", "store", "leave"}
Midway == {"look", "fetch", "store"}
InCall == {"fetch", "store"}
Ended == {"leave", "done"}
PCs == {"idle"} \cup Running \cup {"done"}

LiveSites == {i \in Sites : pc[i] \in Running}
InFlight(k) == {i \in Sites : pc[i] \in InCall /\ Key(i) = k}

(* A site with nothing to probe.                                           *)
Idle(i) == i \notin Probing \/ (~Fetcher[i].listing /\ Targets[i] = <<>>)

Types ==
  /\ spawned \in 0..Len(Catalog) /\ sem \in 0..Concurrency
  /\ pc \in [Sites -> PCs]
  /\ next \in [Sites -> Nat \ {0}] /\ hits \in [Sites -> Nat]
  /\ got \in [Sites -> Answers \cup {"none"}] /\ failed \in [Sites -> Failures \cup {"none"}]
  /\ rows \in [RowIds -> Status]
  /\ cache \in [Keys -> Answers \cup {"none"}]
  /\ sum \in [Fields -> Nat] /\ sitesDone \in Nat /\ returned \in BOOLEAN
  /\ calls \in [Keys -> Nat] /\ given \in [Keys -> SUBSET Answers]

(* A slot for every live site, and where a call may be under way.          *)
PlaceInv ==
  /\ sem = Cardinality(LiveSites)
  /\ \A i \in Sites :
       /\ pc[i] \in Midway => ~Idle(i)
       /\ pc[i] \in InCall => next[i] \in DOMAIN Targets[i]
       /\ pc[i] = "store" => got[i] \in Answers /\ got[i] \in given[Key(i)]

(* As long as nothing is stored for a key, every call made for it is still *)
(* under way.                                                              *)
CallsInv ==
  \A k \in Keys :
    /\ calls[k] <= Concurrency
    /\ cache[k] = "none" => calls[k] = Cardinality(InFlight(k))
    /\ cache[k] # "none" => cache[k] \in given[k]

(* What a site has of the answers up to where it is.                       *)
ReadInv ==
  \A i \in Sites :
    /\ pc[i] \in {"idle", "plan"} \/ Idle(i) => hits[i] = 0 /\ failed[i] = "none" /\ next[i] = 1
    /\ i \in Probing =>
         /\ \A n \in DOMAIN Targets[i] :
              n < next[i] /\ failed[i] = "none" => "ok" \in given[KeysOf[i][n]]
         /\ failed[i] # "none" => \E n \in DOMAIN Targets[i] : failed[i] \in given[KeysOf[i][n]]
         /\ pc[i] \in Ended => \A n \in DOMAIN Targets[i] : n < next[i]

Alone(i) == \A j \in Sites : Catalog[j].id = Catalog[i].id => j = i

(* The row of a site that is on its way or at its end.                     *)
RowInv ==
  /\ \A i \in Sites :
       /\ pc[i] \in Midway => rows[Catalog[i].id] # "absent"
       /\ pc[i] \in Ended /\ Alone(i) =>
            rows[Catalog[i].id] = IF Idle(i) THEN "skipped" ELSE Outcome(i)
  /\ \A r \in RowIds : rows[r] \in Open => \E i \in Sites : Catalog[i].id = r /\ pc[i] \in Midway
  /\ returned => \A i \in Sites : pc[i] = "done"

(* What a site has been counted for, by the place it is at.                *)
Counters == Fields \ {"Hits"}

Verdict(i) ==
  {"Probed"} \cup (IF Outcome(i) = "denied" THEN {"Denied"} ELSE {})
              \cup (IF Outcome(i) = "error" THEN {"Errored"} ELSE {})

AtEnd(i) ==
  IF i \notin Probing THEN {"SkippedNoProbe"}
  ELSE IF Idle(i) THEN {"SkippedNoInventory"} ELSE Verdict(i)

CountsFor(i) ==
  IF pc[i] \in {"idle", "plan"} THEN {}
  ELSE IF Surface(i) THEN {"Surfaces"}
  ELSE {"ReadAPI"} \cup (IF pc[i] \in Ended THEN AtEnd(i) ELSE {})

CountedIn(f) == {i \in Sites : f \in CountsFor(i)}
DoneSites == {i \in Sites : pc[i] = "done"}
LinesOf(i) == {i} \X (1..hits[i])
LinesAtEnd == UNION {LinesOf(i) : i \in {j \in Sites : pc[j] \in Ended}}

(* The summary is the count of the sites that have come so far.            *)
SumInv ==
  /\ \A f \in Counters : sum[f] = Cardinality(CountedIn(f))
  /\ sitesDone = Cardinality(DoneSites)
  /\ IsFiniteSet(LinesAtEnd) /\ sum["Hits"] = Cardinality(LinesAtEnd)

IInv == Types /\ PlaceInv /\ CallsInv /\ ReadInv /\ RowInv /\ SumInv

-----------------------------------------------------------------------------

LEMMA SitesAreNumbers == Len(Catalog) \in Nat /\ Sites = 1..Len(Catalog)
<1> DEFINE Site == [id : STRING, service : STRING, mode : STRING, operation : STRING]
<1>1. Catalog \in Seq(Site)
  BY CatalogAssumption
<1> HIDE DEF Site
<1> QED BY <1>1 DEF Sites

LEMMA SiteCount ==
  ASSUME NEW S \in SUBSET Sites, NEW i \in Sites
  PROVE  /\ Cardinality(S) \in Nat
         /\ i \notin S => Cardinality(S \cup {i}) = Cardinality(S) + 1
         /\ i \in S => Cardinality(S \ {i}) = Cardinality(S) - 1 /\ Cardinality(S) > 0
<1>1. IsFiniteSet(Sites)
  BY SitesAreNumbers, FS_Interval
<1>2. IsFiniteSet(S)
  BY <1>1, FS_Subset
<1>3. Cardinality(S) \in Nat
  BY <1>2, FS_CardinalityType
<1>4. i \notin S => Cardinality(S \cup {i}) = Cardinality(S) + 1
  BY <1>2, FS_AddElement
<1>5. ASSUME i \in S
      PROVE  Cardinality(S \ {i}) = Cardinality(S) - 1 /\ Cardinality(S) > 0
  <2>1. Cardinality(S \ {i}) = Cardinality(S) - 1
    BY <1>2, <1>5, FS_RemoveElement
  <2>2. Cardinality(S \ {i}) \in Nat
    BY <1>2, FS_RemoveElement, FS_CardinalityType
  <2> QED BY <2>1, <2>2, <1>3
<1> QED BY <1>3, <1>4, <1>5

(* The calls under way for one key are made by live sites.                 *)
LEMMA CallsFit ==
  ASSUME NEW S \in SUBSET Sites, NEW T \in SUBSET S
  PROVE  Cardinality(T) <= Cardinality(S)
<1>1. IsFiniteSet(Sites)
  BY SitesAreNumbers, FS_Interval
<1> QED BY <1>1, FS_Subset

(* What the constants make of a site that is probed.                       *)
LEMMA ProbedSite ==
  ASSUME NEW i \in Probing
  PROVE  /\ i \in Sites /\ Fetcher[i].listing \in BOOLEAN /\ Targets[i] \in Seq(STRING)
         /\ \A n \in DOMAIN Targets[i] : KeysOf[i][n] \in Keys
<1>1. i \in Sites
  BY DEF Probing
<1> DEFINE those == IF ItemFetcher(i) # {} THEN ItemFetcher(i) ELSE ListFetcher(i)
<1>2. \E f \in those : TRUE
  BY DEF Probing
<1>3. Fetcher[i] \in those
  BY <1>2 DEF Fetcher
<1>4. those \subseteq {Registered[j] : j \in DOMAIN Registered}
  BY DEF ItemFetcher, ListFetcher, Fetchers
<1>5. PICK j \in DOMAIN Registered : Fetcher[i] = Registered[j]
  BY <1>3, <1>4
<1>6. /\ Registered[j] \in [operation : STRING, service : STRING, listing : BOOLEAN]
      /\ Registered[j].service \in DOMAIN Inventory
  <2> DEFINE Fetching == [operation : STRING, service : STRING, listing : BOOLEAN]
  <2>1. Registered \in Seq(Fetching)
    BY CatalogAssumption
  <2> HIDE DEF Fetching
  <2>2. Registered[j] \in Fetching
    BY <2>1
  <2> QED BY <2>2, CatalogAssumption DEF Fetching
<1>7. Targets[i] \in Seq(STRING)
  BY <1>5, <1>6, CatalogAssumption DEF Targets
<1>8. \A n \in DOMAIN Targets[i] : KeysOf[i][n] \in Keys
  <2> DEFINE KeysAt(k) == {KeysOf[k][n] : n \in DOMAIN Targets[k]}
  <2>1. Keys = UNION {KeysAt(k) : k \in Probing}
    BY DEF Keys
  <2>2. \A n \in DOMAIN Targets[i] : KeysOf[i][n] \in KeysAt(i)
    OBVIOUS
  <2> HIDE DEF KeysAt
  <2> QED BY <2>1, <2>2
<1> QED BY <1>1, <1>5, <1>6, <1>7, <1>8

LEMMA SiteIds == \A i \in Sites : Catalog[i].id \in RowIds
BY DEF RowIds

LEMMA InitIInv == Init => IInv
<1> SUFFICES ASSUME Init PROVE IInv
  OBVIOUS
<1>1. Types
  <2>1. spawned \in 0..Len(Catalog) /\ sem \in 0..Concurrency /\ sitesDone \in Nat
    BY SitesAreNumbers, BoundsAssumption DEF Init
  <2>2. returned \in BOOLEAN
    BY Zenon DEF Init
  <2>3. pc \in [Sites -> PCs] /\ next \in [Sites -> Nat \ {0}] /\ hits \in [Sites -> Nat]
    BY DEF Init, PCs
  <2>4. /\ got \in [Sites -> Answers \cup {"none"}] /\ failed \in [Sites -> Failures \cup {"none"}]
        /\ cache \in [Keys -> Answers \cup {"none"}]
    BY DEF Init
  <2>5. rows \in [RowIds -> Status]
    BY DEF Init, NoRows, Status
  <2>6. sum \in [Fields -> Nat] /\ calls \in [Keys -> Nat] /\ given \in [Keys -> SUBSET Answers]
    BY DEF Init
  <2> QED BY <2>1, <2>3, <2>4, <2>5, <2>6, <2>2, Zenon DEF Types
<1>2. LiveSites = {}
  BY DEF Init, LiveSites, Running
<1>3. \A k \in Keys : InFlight(k) = {}
  BY DEF Init, InFlight, InCall
<1>4. PlaceInv
  BY <1>2, FS_EmptySet DEF Init, PlaceInv, Midway, InCall
<1>5. CallsInv
  BY <1>3, FS_EmptySet, BoundsAssumption DEF Init, CallsInv
<1>6. ReadInv
  <2>1. \A i \in Probing : \A n \in DOMAIN Targets[i] : n \in Nat \ {0}
    BY ProbedSite
  <2> QED BY <2>1 DEF Init, ReadInv, Ended
<1>7. RowInv
  BY SiteIds DEF Init, RowInv, NoRows, Open, Midway, Ended
<1>8. SumInv
  <2>1. \A f \in Counters : CountedIn(f) = {}
    BY DEF Init, CountedIn, CountsFor
  <2>2. DoneSites = {} /\ LinesAtEnd = {}
    BY DEF Init, DoneSites, LinesAtEnd, Ended
  <2>3. sitesDone = 0 /\ \A f \in Fields : sum[f] = 0
    BY DEF Init
  <2> QED BY <2>1, <2>2, <2>3, FS_EmptySet DEF SumInv, Counters, Fields
<1> QED BY <1>1, <1>4, <1>5, <1>6, <1>7, <1>8 DEF IInv

-----------------------------------------------------------------------------
(* What one step does, for the invariants to share.                        *)

LEMMA NoneIsNoAnswer ==
  /\ "none" \notin Answers /\ "ok" \in Answers /\ "ok" \notin Failures
  /\ "empty" \notin Failures /\ "skipped" \notin Failures /\ "none" \notin Failures
  /\ Failures \subseteq Settled
BY BoundsAssumption DEF Answers, Settled

(* A row that is written to, whatever it was.                              *)
LEMMA RowWrites ==
  ASSUME Types, NEW r \in RowIds, NEW status
  PROVE  /\ Finish(Plan(rows, r), r, status) = [rows EXCEPT ![r] = status]
         /\ Start(Plan(rows, r), r) = [rows EXCEPT ![r] = "running"]
         /\ rows[r] # "absent" => Finish(rows, r, status) = [rows EXCEPT ![r] = status]
<1>1. rows \in [RowIds -> Status]
  BY Zenon DEF Types
<1>2. CASE rows[r] = "absent"
  <2>1. Plan(rows, r) = [rows EXCEPT ![r] = "planned"]
    BY <1>2 DEF Plan
  <2> QED BY <1>1, <1>2, <2>1 DEF Finish, Start
<1>3. CASE rows[r] # "absent"
  BY <1>1, <1>3 DEF Plan, Finish, Start
<1> QED BY <1>2, <1>3

(* What a site makes of an answer.                                         *)
LEMMA UseAnswer ==
  ASSUME Types, NEW i \in Sites, NEW answer \in Answers, Use(i, answer)
  PROVE  /\ hits' \in [Sites -> Nat] /\ failed' \in [Sites -> Failures \cup {"none"}]
         /\ next' \in [Sites -> Nat \ {0}] /\ next'[i] = next[i] + 1
         /\ \A j \in Sites \ {i} : hits'[j] = hits[j] /\ failed'[j] = failed[j] /\ next'[j] = next[j]
         /\ answer = "ok" => failed'[i] = failed[i]
         /\ answer # "ok" => failed'[i] = answer
<1>1. /\ hits \in [Sites -> Nat] /\ failed \in [Sites -> Failures \cup {"none"}]
      /\ next \in [Sites -> Nat \ {0}]
  BY Zenon DEF Types
<1>2. next' = [next EXCEPT ![i] = @ + 1]
  BY Zenon DEF Use
<1>3. CASE answer = "ok"
  <2>1. failed' = failed
    BY <1>3, Zenon DEF Use
  <2>2. PICK n \in 0..MaxHits : hits' = [hits EXCEPT ![i] = @ + n]
    BY <1>3, Zenon DEF Use
  <2> QED BY <1>1, <1>2, <1>3, <2>1, <2>2, BoundsAssumption
<1>4. CASE answer # "ok"
  <2>1. failed' = [failed EXCEPT ![i] = answer] /\ hits' = hits
    BY <1>4, Zenon DEF Use
  <2>2. answer \in Failures
    BY <1>4 DEF Answers
  <2> QED BY <1>1, <1>2, <1>4, <2>1, <2>2
<1> QED BY <1>3, <1>4

(* A site that stays on its way, and one that is in no call.               *)
LEMMA StaysLive ==
  ASSUME Types, NEW i \in Sites, NEW to \in Running, pc[i] \in Running, pc' = [pc EXCEPT ![i] = to]
  PROVE  LiveSites' = LiveSites
BY DEF Types, LiveSites

LEMMA NoNewCall ==
  ASSUME Types, NEW i \in Sites, NEW to, to \notin InCall, pc[i] \notin InCall,
         pc' = [pc EXCEPT ![i] = to], \A j \in Sites \ {i} : next'[j] = next[j],
         NEW k
  PROVE  InFlight(k)' = InFlight(k)
BY DEF Types, InFlight, Key

-----------------------------------------------------------------------------
(* Each invariant over a step.                                             *)

LEMMA PcStep ==
  ASSUME Types, NEW i \in Sites, NEW from, NEW to \in PCs, Goto(i, from, to)
  PROVE  /\ pc' \in [Sites -> PCs] /\ pc'[i] = to /\ pc[i] = from
         /\ \A j \in Sites \ {i} : pc'[j] = pc[j]
BY DEF Types, Goto

LEMMA TypesStep ==
  ASSUME Types, PlaceInv, Next
  PROVE  Types'
<1> USE DEF Types
<1>1. CASE Spawn
  <2>1. spawned + 1 \in Sites /\ spawned' \in 0..Len(Catalog) /\ sem' \in 0..Concurrency
    BY <1>1, SitesAreNumbers, BoundsAssumption DEF Spawn
  <2>2. pc' \in [Sites -> PCs]
    BY <1>1, <2>1, PcStep DEF Spawn, PCs, Running
  <2> QED BY <1>1, <2>1, <2>2, Zenon DEF Spawn
<1>2. CASE Return
  BY <1>2, Zenon DEF Return
<1>3. ASSUME NEW i \in Sites, Skip(i) PROVE Types'
  <2>1. pc' \in [Sites -> PCs]
    BY <1>3, PcStep DEF Skip, PCs, Running
  <2>2. sum' \in [Fields -> Nat]
    <3>1. PICK fs \in SUBSET Fields : Count(fs)
      BY <1>3, Zenon DEF Skip, Fields
    <3> QED BY <3>1 DEF Count
  <2>3. rows' \in [RowIds -> Status]
    <3>1. rows' = [rows EXCEPT ![Catalog[i].id] = "skipped"]
      BY <1>3, RowWrites, SiteIds, Zenon DEF Skip
    <3> QED BY <3>1 DEF Status, Settled
  <2> QED BY <1>3, <2>1, <2>2, <2>3, Zenon DEF Skip
<1>4. ASSUME NEW i \in Sites, Begin(i) PROVE Types'
  <2>1. pc' \in [Sites -> PCs]
    BY <1>4, PcStep DEF Begin, PCs, Running
  <2>2. sum' \in [Fields -> Nat]
    BY <1>4 DEF Begin, Count
  <2>3. rows' \in [RowIds -> Status]
    <3>1. rows' = [rows EXCEPT ![Catalog[i].id] = "running"]
      BY <1>4, RowWrites, SiteIds, Zenon DEF Begin
    <3> QED BY <3>1 DEF Status, Open
  <2> QED BY <1>4, <2>1, <2>2, <2>3, Zenon DEF Begin
<1>5. ASSUME NEW i \in Sites, UseCached(i) PROVE Types'
  <2>1. i \in Probing
    BY <1>5 DEF UseCached, PlaceInv, Midway, Idle
  <2>2. Key(i) \in Keys
    BY <1>5, <2>1, ProbedSite DEF UseCached, Key, AtTarget
  <2>3. cache[Key(i)] \in Answers
    BY <1>5, <2>2 DEF UseCached
  <2>4. /\ hits' \in [Sites -> Nat] /\ failed' \in [Sites -> Failures \cup {"none"}]
        /\ next' \in [Sites -> Nat \ {0}]
    BY <1>5, <2>3, UseAnswer DEF UseCached
  <2> QED BY <1>5, <2>4, Zenon DEF UseCached
<1>6. ASSUME NEW i \in Sites, Miss(i) PROVE Types'
  <2>1. pc' \in [Sites -> PCs]
    BY <1>6, PcStep DEF Miss, PCs, Running
  <2>2. calls' \in [Keys -> Nat]
    <3>1. calls' = [calls EXCEPT ![Key(i)] = @ + 1]
      BY <1>6, Zenon DEF Miss
    <3>2. Key(i) \in Keys
      BY <1>6, ProbedSite DEF Miss, Goto, PlaceInv, Midway, Idle, Key, AtTarget
    <3> QED BY <3>1, <3>2
  <2> QED BY <1>6, <2>1, <2>2, Zenon DEF Miss
<1>7. ASSUME NEW i \in Sites, Fetch(i) PROVE Types'
  <2>1. pc' \in [Sites -> PCs]
    BY <1>7, PcStep DEF Fetch, PCs, Running
  <2>2. PICK answer \in Answers :
          /\ got' = [got EXCEPT ![i] = answer]
          /\ given' = [given EXCEPT ![Key(i)] = @ \cup {answer}]
    BY <1>7, Zenon DEF Fetch
  <2>3. got' \in [Sites -> Answers \cup {"none"}]
    BY <2>2
  <2>4. given' \in [Keys -> SUBSET Answers]
    BY <2>2
  <2> QED BY <1>7, <2>1, <2>3, <2>4, Zenon DEF Fetch
<1>8. ASSUME NEW i \in Sites, Store(i) PROVE Types'
  <2>1. pc' \in [Sites -> PCs]
    BY <1>8, PcStep DEF Store, PCs, Running
  <2>2. got[i] \in Answers
    BY <1>8 DEF Store, Goto, PlaceInv
  <2>3. /\ hits' \in [Sites -> Nat] /\ failed' \in [Sites -> Failures \cup {"none"}]
        /\ next' \in [Sites -> Nat \ {0}]
    BY <1>8, <2>2, UseAnswer DEF Store
  <2>4. /\ got' \in [Sites -> Answers \cup {"none"}]
        /\ cache' \in [Keys -> Answers \cup {"none"}]
    BY <1>8, <2>2 DEF Store
  <2> QED BY <1>8, <2>1, <2>3, <2>4, Zenon DEF Store
<1>9. ASSUME NEW i \in Sites, Settle(i) PROVE Types'
  <2>1. pc' \in [Sites -> PCs]
    BY <1>9, PcStep DEF Settle, PCs, Running
  <2>2. sum' \in [Fields -> Nat]
    <3>1. sum' = [sum EXCEPT !["Probed"] = @ + 1,
                             !["Denied"] = IF Outcome(i) = "denied" THEN @ + 1 ELSE @,
                             !["Errored"] = IF Outcome(i) = "error" THEN @ + 1 ELSE @,
                             !["Hits"] = @ + hits[i]]
      BY <1>9, Zenon DEF Settle
    <3>2. hits[i] \in Nat /\ sum \in [Fields -> Nat]
      OBVIOUS
    <3>3. {"Probed", "Denied", "Errored", "Hits"} \subseteq Fields
      BY DEF Fields
    <3>4. \A f \in Fields : sum[f] \in Nat /\ sum[f] + 1 \in Nat /\ sum[f] + hits[i] \in Nat
      BY <3>2
    <3>5. DOMAIN sum' = Fields
      BY <3>1, <3>2
    <3>6. \A f \in Fields : sum'[f] \in Nat
      BY <3>1, <3>2, <3>3, <3>4
    <3>7. sum' = [f \in Fields |-> sum'[f]]
      BY <3>1, <3>2
    <3> QED BY <3>6, <3>7
  <2>3. Outcome(i) \in Status
    BY NoneIsNoAnswer DEF Outcome, Status, Settled
  <2>4. rows' \in [RowIds -> Status]
    BY <1>9, <2>3, SiteIds DEF Settle, Finish
  <2> QED BY <1>9, <2>1, <2>2, <2>4, Zenon DEF Settle
<1>10. ASSUME NEW i \in Sites, Leave(i) PROVE Types'
  <2>1. pc' \in [Sites -> PCs]
    BY <1>10, PcStep DEF Leave, PCs, Running
  <2>2. LiveSites \subseteq Sites /\ i \in LiveSites
    BY <1>10 DEF Leave, Goto, LiveSites, Running
  <2>3. sem' \in 0..Concurrency
    <3>1. Cardinality(LiveSites) > 0
      BY <2>2, SiteCount
    <3> QED BY <1>10, <3>1, BoundsAssumption DEF Leave, PlaceInv
  <2>4. sitesDone' \in Nat
    BY <1>10 DEF Leave
  <2> QED BY <1>10, <2>1, <2>3, <2>4, Zenon DEF Leave
<1> QED BY <1>1, <1>2, <1>3, <1>4, <1>5, <1>6, <1>7, <1>8, <1>9, <1>10 DEF Next, Step

(* The parts of the invariants that speak of other sites hold on.          *)
PlaceOf(i) ==
  /\ pc[i] \in Midway => ~Idle(i)
  /\ pc[i] \in InCall => next[i] \in DOMAIN Targets[i]
  /\ pc[i] = "store" => got[i] \in Answers /\ got[i] \in given[Key(i)]

LEMMA PlaceOfOthers ==
  ASSUME Types, PlaceInv, NEW i,
         \A j \in Sites \ {i} : pc'[j] = pc[j] /\ next'[j] = next[j] /\ got'[j] = got[j],
         \A k \in Keys : given[k] \subseteq given'[k]
  PROVE  \A j \in Sites \ {i} : PlaceOf(j)'
<1> SUFFICES ASSUME NEW j \in Sites \ {i}
             PROVE  PlaceOf(j)'
  OBVIOUS
<1>1. pc[j] = "store" => Key(j) \in Keys
  BY ProbedSite DEF PlaceInv, Midway, InCall, Idle, Key
<1> QED BY <1>1 DEF PlaceOf, PlaceInv, Key, Idle

LEMMA PlaceStep ==
  ASSUME Types, PlaceInv, Next
  PROVE  PlaceInv'
<1>1. CASE Spawn
  <2>1. PICK i \in Sites : i = spawned + 1
    BY <1>1, SitesAreNumbers DEF Spawn, Types
  <2>2. pc'[i] = "plan" /\ pc[i] = "idle" /\ \A j \in Sites \ {i} : pc'[j] = pc[j]
    BY <1>1, <2>1, PcStep DEF Spawn, PCs, Running
  <2>3. LiveSites' = LiveSites \cup {i} /\ i \notin LiveSites
    BY <2>1, <2>2 DEF LiveSites, Running
  <2>4. LiveSites \subseteq Sites
    BY DEF LiveSites
  <2>5. sem' = Cardinality(LiveSites')
    BY <1>1, <2>3, <2>4, SiteCount DEF Spawn, PlaceInv
  <2>6. \A j \in Sites \ {i} : PlaceOf(j)'
    BY <1>1, <2>2, PlaceOfOthers DEF Spawn
  <2>7. PlaceOf(i)'
    BY <2>2 DEF PlaceOf, Midway, InCall
  <2> QED BY <2>5, <2>6, <2>7 DEF PlaceInv, PlaceOf
<1>2. CASE Return
  <2>1. pc' = pc /\ next' = next /\ got' = got /\ given' = given /\ sem' = sem
    BY <1>2 DEF Return
  <2>2. LiveSites' = LiveSites
    BY <2>1 DEF LiveSites
  <2> QED BY <2>1, <2>2 DEF PlaceInv, Key, Idle
<1>3. ASSUME NEW i \in Sites, NEW to \in Running, pc[i] \in Running, pc' = [pc EXCEPT ![i] = to],
             sem' = sem, \A j \in Sites \ {i} : next'[j] = next[j] /\ got'[j] = got[j],
             \A k \in Keys : given[k] \subseteq given'[k],
             PlaceOf(i)'
      PROVE  PlaceInv'
  <2>1. LiveSites' = LiveSites
    BY <1>3, StaysLive
  <2>2. \A j \in Sites \ {i} : pc'[j] = pc[j]
    BY <1>3 DEF Types
  <2>3. \A j \in Sites \ {i} : PlaceOf(j)'
    BY <1>3, <2>2, PlaceOfOthers
  <2> QED BY <1>3, <2>1, <2>3 DEF PlaceInv, PlaceOf
<1>4. ASSUME NEW i \in Sites, Skip(i) PROVE PlaceInv'
  <2>1. PlaceOf(i)'
    BY <1>4, PcStep DEF Skip, PlaceOf, Midway, InCall, PCs, Running
  <2> QED BY <1>3, <1>4, <2>1 DEF Skip, Goto, Running
<1>5. ASSUME NEW i \in Sites, Begin(i) PROVE PlaceInv'
  <2>1. PlaceOf(i)'
    BY <1>5, PcStep DEF Begin, PlaceOf, Midway, InCall, PCs, Running, Idle
  <2> QED BY <1>3, <1>5, <2>1 DEF Begin, Goto, Running
<1>6. ASSUME NEW i \in Sites, UseCached(i) PROVE PlaceInv'
  <2>1. pc[i] = "look" /\ pc' = [pc EXCEPT ![i] = "look"]
    BY <1>6 DEF UseCached, Types
  <2>2. next' = [next EXCEPT ![i] = @ + 1]
    BY <1>6, Zenon DEF UseCached, Use
  <2>3. \A j \in Sites \ {i} : next'[j] = next[j]
    BY <2>2 DEF Types
  <2>4. PlaceOf(i)'
    BY <2>1 DEF PlaceOf, PlaceInv, Types, Midway, InCall, Idle
  <2> QED BY <1>3, <1>6, <2>1, <2>3, <2>4 DEF UseCached, Running
<1>7. ASSUME NEW i \in Sites, Miss(i) PROVE PlaceInv'
  <2>1. i \in Probing /\ ~Idle(i)
    BY <1>7 DEF Miss, Goto, PlaceInv, Midway, Idle
  <2>2. next[i] \in DOMAIN Targets[i]
    BY <1>7, <2>1, ProbedSite DEF Miss, AtTarget, Types
  <2>3. pc'[i] = "fetch"
    BY <1>7, PcStep DEF Miss, PCs, Running
  <2>4. PlaceOf(i)'
    BY <1>7, <2>1, <2>2, <2>3 DEF Miss, PlaceOf, Idle
  <2> QED BY <1>3, <1>7, <2>4 DEF Miss, Goto, Running
<1>8. ASSUME NEW i \in Sites, Fetch(i) PROVE PlaceInv'
  <2>1. PICK answer \in Answers :
          /\ got' = [got EXCEPT ![i] = answer]
          /\ given' = [given EXCEPT ![Key(i)] = @ \cup {answer}]
    BY <1>8, Zenon DEF Fetch
  <2>2. pc[i] = "fetch" /\ pc'[i] = "store"
    BY <1>8, PcStep DEF Fetch, PCs, Running
  <2>3. ~Idle(i) /\ next[i] \in DOMAIN Targets[i] /\ Key(i) \in Keys
    BY <2>2, ProbedSite DEF PlaceInv, Midway, InCall, Idle, Key
  <2>4. answer \in given'[Key(i)] /\ got'[i] = answer
    BY <2>1, <2>3 DEF Types
  <2>5. next' = next
    BY <1>8, Zenon DEF Fetch
  <2>6. PlaceOf(i)'
    BY <2>3, <2>4, <2>5 DEF PlaceOf, Key, Idle
  <2>7. \A k \in Keys : given[k] \subseteq given'[k]
    BY <2>1 DEF Types
  <2>8. \A j \in Sites \ {i} : got'[j] = got[j]
    BY <2>1 DEF Types
  <2>9. pc' = [pc EXCEPT ![i] = "store"] /\ sem' = sem
    BY <1>8, Zenon DEF Fetch, Goto
  <2> QED BY <1>3, <2>2, <2>5, <2>6, <2>7, <2>8, <2>9 DEF Running
<1>9. ASSUME NEW i \in Sites, Store(i) PROVE PlaceInv'
  <2>1. pc[i] = "store" /\ pc'[i] = "look"
    BY <1>9, PcStep DEF Store, PCs, Running
  <2>2. PlaceOf(i)'
    BY <2>1 DEF PlaceOf, PlaceInv, Midway, InCall, Idle
  <2>3. next' = [next EXCEPT ![i] = @ + 1]
    BY <1>9, Zenon DEF Store, Use
  <2>4. \A j \in Sites \ {i} : next'[j] = next[j] /\ got'[j] = got[j]
    BY <1>9, <2>3 DEF Store, Types
  <2> QED BY <1>3, <1>9, <2>1, <2>2, <2>4 DEF Store, Goto, Running
<1>10. ASSUME NEW i \in Sites, Settle(i) PROVE PlaceInv'
  <2>1. PlaceOf(i)'
    BY <1>10, PcStep DEF Settle, PlaceOf, Midway, InCall, PCs, Running
  <2> QED BY <1>3, <1>10, <2>1 DEF Settle, Goto, Running
<1>11. ASSUME NEW i \in Sites, Leave(i) PROVE PlaceInv'
  <2>1. pc[i] = "leave" /\ pc'[i] = "done" /\ \A j \in Sites \ {i} : pc'[j] = pc[j]
    BY <1>11, PcStep DEF Leave, PCs, Running
  <2>2. LiveSites' = LiveSites \ {i} /\ i \in LiveSites /\ LiveSites \subseteq Sites
    BY <2>1 DEF LiveSites, Running
  <2>3. sem' = Cardinality(LiveSites')
    BY <1>11, <2>2, SiteCount DEF Leave, PlaceInv
  <2>4. PlaceOf(i)'
    BY <2>1 DEF PlaceOf, Midway, InCall
  <2>5. \A j \in Sites \ {i} : PlaceOf(j)'
    BY <1>11, <2>1, PlaceOfOthers DEF Leave
  <2> QED BY <2>3, <2>4, <2>5 DEF PlaceInv, PlaceOf
<1> QED BY <1>1, <1>2, <1>4, <1>5, <1>6, <1>7, <1>8, <1>9, <1>10, <1>11 DEF Next, Step

LEMMA CallsStep ==
  ASSUME Types, PlaceInv, CallsInv, Next
  PROVE  CallsInv'
<1>1. "none" \notin Answers
  BY NoneIsNoAnswer
<1>2. ASSUME calls' = calls, cache' = cache, \A k \in Keys : given[k] \subseteq given'[k],
             \A k \in Keys : InFlight(k)' = InFlight(k)
      PROVE  CallsInv'
  BY <1>2 DEF CallsInv
<1>3. ASSUME NEW i \in Sites, NEW to, to \notin InCall, pc[i] \notin InCall,
             pc' = [pc EXCEPT ![i] = to], \A j \in Sites \ {i} : next'[j] = next[j],
             calls' = calls, cache' = cache, given' = given
      PROVE  CallsInv'
  BY <1>2, <1>3, NoNewCall
<1>4. CASE Spawn
  <2>1. spawned + 1 \in Sites
    BY <1>4, SitesAreNumbers DEF Spawn, Types
  <2> QED BY <1>3, <1>4, <2>1 DEF Spawn, Goto, InCall
<1>5. CASE Return
  <2>1. pc' = pc /\ next' = next /\ calls' = calls /\ cache' = cache /\ given' = given
    BY <1>5 DEF Return
  <2>2. \A k \in Keys : InFlight(k)' = InFlight(k)
    BY <2>1 DEF InFlight, Key
  <2> QED BY <1>2, <2>1, <2>2
<1>6. ASSUME NEW i \in Sites, Skip(i) PROVE CallsInv'
  BY <1>3, <1>6 DEF Skip, Goto, InCall
<1>7. ASSUME NEW i \in Sites, Begin(i) PROVE CallsInv'
  BY <1>3, <1>7 DEF Begin, Goto, InCall
<1>8. ASSUME NEW i \in Sites, UseCached(i) PROVE CallsInv'
  <2>1. pc[i] = "look" /\ pc' = [pc EXCEPT ![i] = "look"]
    BY <1>8 DEF UseCached, Types
  <2>2. next' = [next EXCEPT ![i] = @ + 1]
    BY <1>8, Zenon DEF UseCached, Use
  <2>3. \A j \in Sites \ {i} : next'[j] = next[j]
    BY <2>2 DEF Types
  <2> QED BY <1>3, <1>8, <2>1, <2>3 DEF UseCached, InCall
<1>9. ASSUME NEW i \in Sites, Miss(i) PROVE CallsInv'
  <2>1. PICK key : key = Key(i)
    OBVIOUS
  <2>2. i \in Probing
    BY <1>9 DEF Miss, Goto, PlaceInv, Midway, Idle
  <2>3. key \in Keys
    BY <1>9, <2>1, <2>2, ProbedSite DEF Miss, AtTarget, Key, Types
  <2>4. /\ cache[key] = "none" /\ calls' = [calls EXCEPT ![key] = @ + 1]
        /\ cache' = cache /\ given' = given /\ next' = next /\ sem' = sem
    BY <1>9, <2>1 DEF Miss
  <2>5. pc[i] = "look" /\ pc'[i] = "fetch" /\ \A j \in Sites \ {i} : pc'[j] = pc[j]
    BY <1>9, PcStep DEF Miss, PCs, Running
  <2>6. InFlight(key)' = InFlight(key) \cup {i} /\ i \notin InFlight(key)
    BY <2>1, <2>4, <2>5 DEF InFlight, InCall, Key
  <2>7. \A k \in Keys \ {key} : InFlight(k)' = InFlight(k)
    BY <2>1, <2>4, <2>5 DEF InFlight, InCall, Key
  <2>8. calls'[key] = Cardinality(InFlight(key)')
    <3>1. InFlight(key) \subseteq Sites
      BY DEF InFlight
    <3>2. calls[key] = Cardinality(InFlight(key))
      BY <2>3, <2>4 DEF CallsInv
    <3>3. calls'[key] = calls[key] + 1
      BY <2>3, <2>4 DEF Types
    <3> QED BY <2>6, <3>1, <3>2, <3>3, SiteCount
  <2>9. calls'[key] <= Concurrency
    <3>1. PlaceInv' /\ Types'
      BY PlaceStep, TypesStep
    <3>2. InFlight(key)' \subseteq LiveSites' /\ LiveSites' \subseteq Sites
      BY DEF InFlight, LiveSites, InCall, Running
    <3>3. Cardinality(InFlight(key)') <= Cardinality(LiveSites')
      BY <3>2, CallsFit
    <3>4. Cardinality(LiveSites') = sem' /\ sem' \in 0..Concurrency
      BY <3>1 DEF PlaceInv, Types
    <3>5. Cardinality(InFlight(key)') \in Nat
      BY <3>2, SiteCount, <1>9
    <3> QED BY <2>8, <3>3, <3>4, <3>5, BoundsAssumption
  <2>10. \A k \in Keys \ {key} : calls'[k] = calls[k]
    BY <2>4 DEF Types
  <2> QED BY <2>4, <2>7, <2>8, <2>9, <2>10 DEF CallsInv
<1>10. ASSUME NEW i \in Sites, Fetch(i) PROVE CallsInv'
  <2>1. PICK answer \in Answers : given' = [given EXCEPT ![Key(i)] = @ \cup {answer}]
    BY <1>10, Zenon DEF Fetch
  <2>2. \A k \in Keys : given[k] \subseteq given'[k]
    BY <2>1 DEF Types
  <2>3. /\ pc[i] = "fetch" /\ pc'[i] = "store" /\ \A j \in Sites \ {i} : pc'[j] = pc[j]
        /\ next' = next /\ calls' = calls /\ cache' = cache
    BY <1>10, PcStep DEF Fetch, PCs, Running
  <2>4. \A k \in Keys : InFlight(k)' = InFlight(k)
    BY <2>3 DEF InFlight, InCall, Key
  <2> QED BY <1>2, <2>2, <2>3, <2>4
<1>11. ASSUME NEW i \in Sites, Store(i) PROVE CallsInv'
  <2>1. PICK key : key = Key(i)
    OBVIOUS
  <2>2. pc[i] = "store" /\ pc'[i] = "look" /\ \A j \in Sites \ {i} : pc'[j] = pc[j]
    BY <1>11, PcStep DEF Store, PCs, Running
  <2>3. next' = [next EXCEPT ![i] = @ + 1]
    BY <1>11, Zenon DEF Store, Use
  <2>4. cache' = [cache EXCEPT ![key] = got[i]] /\ calls' = calls /\ given' = given
    BY <1>11, <2>1 DEF Store
  <2>5. got[i] \in Answers /\ got[i] \in given[key] /\ got[i] # "none"
    BY <2>1, <2>2, <1>1 DEF PlaceInv
  <2>6. \A k \in Keys \ {key} : InFlight(k)' = InFlight(k)
    BY <2>1, <2>2, <2>3 DEF InFlight, InCall, Key, Types
  <2>7. \A k \in Keys \ {key} : cache'[k] = cache[k]
    BY <2>4 DEF Types
  <2>8. key \in Keys => cache'[key] = got[i]
    BY <2>4 DEF Types
  <2> QED BY <2>4, <2>5, <2>6, <2>7, <2>8 DEF CallsInv
<1>12. ASSUME NEW i \in Sites, Settle(i) PROVE CallsInv'
  BY <1>3, <1>12 DEF Settle, Goto, InCall
<1>13. ASSUME NEW i \in Sites, Leave(i) PROVE CallsInv'
  BY <1>3, <1>13 DEF Leave, Goto, InCall
<1> QED BY <1>4, <1>5, <1>6, <1>7, <1>8, <1>9, <1>10, <1>11, <1>12, <1>13 DEF Next, Step

ReadOf(i) ==
  /\ pc[i] \in {"idle", "plan"} \/ Idle(i) => hits[i] = 0 /\ failed[i] = "none" /\ next[i] = 1
  /\ i \in Probing =>
       /\ \A n \in DOMAIN Targets[i] :
            n < next[i] /\ failed[i] = "none" => "ok" \in given[KeysOf[i][n]]
       /\ failed[i] # "none" => \E n \in DOMAIN Targets[i] : failed[i] \in given[KeysOf[i][n]]
       /\ pc[i] \in Ended => \A n \in DOMAIN Targets[i] : n < next[i]

(* A site that goes on with the answer to its target.                      *)
LEMMA ReadAnswer ==
  ASSUME Types, PlaceInv, ReadInv, NEW i \in Sites, pc[i] \in {"look", "store"}, pc'[i] = "look",
         i \in Probing => next[i] \in DOMAIN Targets[i],
         NEW answer \in given[Key(i)], answer \in Answers, Use(i, answer), given' = given
  PROVE  ReadOf(i)'
<1>1. i \in Probing /\ ~Idle(i)
  BY DEF PlaceInv, Midway, Idle
<1>2. /\ next'[i] = next[i] + 1
      /\ answer = "ok" => failed'[i] = failed[i]
      /\ answer # "ok" => failed'[i] = answer
  BY UseAnswer
<1>3. next[i] \in Nat /\ next[i] \in DOMAIN Targets[i] /\ DOMAIN Targets[i] \subseteq Nat
  BY <1>1, ProbedSite DEF Types
<1>4. answer # "none"
  BY NoneIsNoAnswer
<1>5. \A n \in DOMAIN Targets[i] : n < next'[i] /\ failed'[i] = "none" => "ok" \in given[KeysOf[i][n]]
  <2> SUFFICES ASSUME NEW n \in DOMAIN Targets[i], n < next'[i], failed'[i] = "none"
               PROVE  "ok" \in given[KeysOf[i][n]]
    OBVIOUS
  <2>1. answer = "ok" /\ failed[i] = "none"
    BY <1>2, <1>4
  <2>2. CASE n = next[i]
    BY <2>1, <2>2 DEF Key
  <2>3. CASE n # next[i]
    BY <1>1, <1>2, <1>3, <2>1, <2>3 DEF ReadInv
  <2> QED BY <2>2, <2>3
<1>6. failed'[i] # "none" => \E n \in DOMAIN Targets[i] : failed'[i] \in given[KeysOf[i][n]]
  <2>1. CASE answer = "ok"
    BY <1>1, <1>2, <2>1 DEF ReadInv
  <2>2. CASE answer # "ok"
    BY <1>2, <1>3, <2>2 DEF Key
  <2> QED BY <2>1, <2>2
<1>7. pc'[i] \notin {"idle", "plan"} /\ pc'[i] \notin Ended
  BY DEF Ended
<1> QED BY <1>1, <1>5, <1>6, <1>7 DEF ReadOf, Idle

LEMMA ReadStep ==
  ASSUME Types, PlaceInv, CallsInv, ReadInv, Next
  PROVE  ReadInv'
<1>1. \A i \in Sites : ReadOf(i)
  BY DEF ReadInv, ReadOf
<1>2. ASSUME NEW i, \A k \in Keys : given[k] \subseteq given'[k],
             \A j \in Sites \ {i} : /\ pc'[j] = pc[j] /\ next'[j] = next[j]
                                    /\ hits'[j] = hits[j] /\ failed'[j] = failed[j]
      PROVE  \A j \in Sites \ {i} : ReadOf(j)'
  BY <1>1, <1>2, ProbedSite DEF ReadOf, Idle
<1>3. ASSUME NEW i \in Sites, NEW from, NEW to \in PCs, Goto(i, from, to),
             next' = next, hits' = hits, failed' = failed,
             \A k \in Keys : given[k] \subseteq given'[k],
             to \in {"idle", "plan"} => from \in {"idle", "plan"},
             to \in Ended /\ i \in Probing => from \in Ended \/ \A n \in DOMAIN Targets[i] : n < next[i]
      PROVE  ReadInv'
  <2>1. pc'[i] = to /\ pc[i] = from /\ \A j \in Sites \ {i} : pc'[j] = pc[j]
    BY <1>3, PcStep
  <2>2. \A j \in Sites \ {i} : ReadOf(j)'
    BY <1>2, <1>3, <2>1
  <2>3. ReadOf(i)'
    BY <1>1, <1>3, <2>1, ProbedSite DEF ReadOf, Idle
  <2> QED BY <2>2, <2>3 DEF ReadInv, ReadOf
<1>4. CASE Spawn
  <2>1. PICK i \in Sites : i = spawned + 1
    BY <1>4, SitesAreNumbers DEF Spawn, Types
  <2> QED BY <1>3, <1>4, <2>1 DEF Spawn, PCs, Running, Ended
<1>5. CASE Return
  BY <1>5 DEF Return, ReadInv, Idle
<1>6. ASSUME NEW i \in Sites, Skip(i) PROVE ReadInv'
  <2>1. i \in Probing => DOMAIN Targets[i] = {}
    BY <1>6 DEF Skip, Probing
  <2> QED BY <1>3, <1>6, <2>1 DEF Skip, PCs, Running
<1>7. ASSUME NEW i \in Sites, Begin(i) PROVE ReadInv'
  BY <1>3, <1>7 DEF Begin, PCs, Running, Ended
<1>8. ASSUME NEW i \in Sites, Miss(i) PROVE ReadInv'
  BY <1>3, <1>8 DEF Miss, PCs, Running, Ended
<1>9. ASSUME NEW i \in Sites, Fetch(i) PROVE ReadInv'
  <2>1. PICK answer \in Answers : given' = [given EXCEPT ![Key(i)] = @ \cup {answer}]
    BY <1>9, Zenon DEF Fetch
  <2>2. \A k \in Keys : given[k] \subseteq given'[k]
    BY <2>1 DEF Types
  <2> QED BY <1>3, <1>9, <2>2 DEF Fetch, PCs, Running, Ended
<1>10. ASSUME NEW i \in Sites, Settle(i) PROVE ReadInv'
  <2>1. i \in Probing => \A n \in DOMAIN Targets[i] : n < next[i]
    BY <1>10, ProbedSite DEF Settle, AtTarget, Types
  <2> QED BY <1>3, <1>10, <2>1 DEF Settle, PCs, Running
<1>11. ASSUME NEW i \in Sites, Leave(i) PROVE ReadInv'
  BY <1>3, <1>11 DEF Leave, PCs, Running, Ended
<1>12. ASSUME NEW i \in Sites, UseCached(i) PROVE ReadInv'
  <2>1. pc[i] = "look" /\ pc' = pc /\ given' = given
    BY <1>12 DEF UseCached
  <2>2. i \in Probing /\ next[i] \in DOMAIN Targets[i] /\ Key(i) \in Keys
    BY <1>12, <2>1, ProbedSite DEF UseCached, PlaceInv, Midway, Idle, AtTarget, Key, Types
  <2>3. PICK answer : answer = cache[Key(i)]
    OBVIOUS
  <2>4. answer \in Answers /\ answer \in given[Key(i)] /\ Use(i, answer)
    BY <1>12, <2>2, <2>3 DEF UseCached, CallsInv, Types
  <2>5. ReadOf(i)'
    BY <2>1, <2>2, <2>4, ReadAnswer
  <2>6. \A j \in Sites \ {i} : ReadOf(j)'
    BY <1>2, <2>1, <2>4, UseAnswer
  <2> QED BY <2>5, <2>6 DEF ReadInv, ReadOf
<1>13. ASSUME NEW i \in Sites, Store(i) PROVE ReadInv'
  <2>1. pc[i] = "store" /\ pc'[i] = "look" /\ \A j \in Sites \ {i} : pc'[j] = pc[j]
    BY <1>13, PcStep DEF Store, PCs, Running
  <2>2. PICK answer : answer = got[i]
    OBVIOUS
  <2>3. /\ answer \in Answers /\ answer \in given[Key(i)] /\ Use(i, answer) /\ given' = given
        /\ next[i] \in DOMAIN Targets[i]
    BY <1>13, <2>1, <2>2 DEF Store, PlaceInv, InCall
  <2>4. ReadOf(i)'
    BY <2>1, <2>3, ReadAnswer
  <2>5. \A j \in Sites \ {i} : ReadOf(j)'
    BY <1>2, <2>1, <2>3, UseAnswer
  <2> QED BY <2>4, <2>5 DEF ReadInv, ReadOf
<1> QED BY <1>4, <1>5, <1>6, <1>7, <1>8, <1>9, <1>10, <1>11, <1>12, <1>13 DEF Next, Step

RowOf(i) ==
  /\ pc[i] \in Midway => rows[Catalog[i].id] # "absent"
  /\ pc[i] \in Ended /\ Alone(i) =>
       rows[Catalog[i].id] = IF Idle(i) THEN "skipped" ELSE Outcome(i)

Owned(r) == rows[r] \in Open => \E i \in Sites : Catalog[i].id = r /\ pc[i] \in Midway

LEMMA OutcomeSettles == ASSUME Types, NEW i \in Sites PROVE Outcome(i) \in Settled
BY NoneIsNoAnswer DEF Outcome, Settled, Types

LEMMA RowStep ==
  ASSUME Types, PlaceInv, RowInv, Next
  PROVE  RowInv'
<1>1. /\ \A i \in Sites : RowOf(i)
      /\ \A r \in RowIds : Owned(r)
      /\ returned => \A i \in Sites : pc[i] = "done"
  BY DEF RowInv, RowOf, Owned
<1>2. rows \in [RowIds -> Status] /\ "absent" \notin Open /\ "absent" \notin Settled
      /\ Open \cap Settled = {} /\ "skipped" \in Settled /\ "running" \in Open
  BY DEF Types, Open, Settled
(* A step that writes no row.                                              *)
<1>3. ASSUME NEW i \in Sites, NEW from, NEW to \in PCs, Goto(i, from, to), rows' = rows,
             \A j \in Sites : pc[j] \in Ended => hits'[j] = hits[j] /\ failed'[j] = failed[j],
             from \in Midway <=> to \in Midway,
             to \in Ended => from \in Ended,
             returned' = returned, from # "done"
      PROVE  RowInv'
  <2>1. pc'[i] = to /\ pc[i] = from /\ \A j \in Sites \ {i} : pc'[j] = pc[j]
    BY <1>3, PcStep
  <2>2. \A j \in Sites : RowOf(j)'
    BY <1>1, <1>3, <2>1 DEF RowOf, Alone, Idle, Outcome
  <2>3. \A r \in RowIds : Owned(r)'
    BY <1>1, <1>3, <2>1 DEF Owned
  <2>4. ~returned'
    BY <1>1, <1>3, <2>1
  <2> QED BY <2>2, <2>3, <2>4 DEF RowInv, RowOf, Owned
(* A step that writes the row of its site.                                 *)
<1>4. ASSUME NEW i \in Sites, NEW from, NEW to \in PCs, Goto(i, from, to),
             NEW status, rows' = [rows EXCEPT ![Catalog[i].id] = status],
             hits' = hits, failed' = failed, returned' = returned, from \in {"plan", "look"},
             \/ to \in Midway /\ status = "running"
             \/ /\ to = "leave" /\ status \in Settled
                /\ status = IF Idle(i) THEN "skipped" ELSE Outcome(i)
      PROVE  RowInv'
  <2>1. pc'[i] = to /\ pc[i] = from /\ \A j \in Sites \ {i} : pc'[j] = pc[j]
    BY <1>4, PcStep
  <2>2. /\ rows'[Catalog[i].id] = status
        /\ \A r \in RowIds \ {Catalog[i].id} : rows'[r] = rows[r]
    BY <1>2, <1>4, SiteIds
  <2>3. status # "absent"
    BY <1>2, <1>4
  <2>4. \A j \in Sites \ {i} : RowOf(j)'
    <3> SUFFICES ASSUME NEW j \in Sites \ {i}
                 PROVE  RowOf(j)'
      OBVIOUS
    <3>1. CASE Catalog[j].id = Catalog[i].id
      BY <2>2, <2>3, <3>1 DEF RowOf, Alone
    <3>2. CASE Catalog[j].id # Catalog[i].id
      BY <1>1, <1>4, <2>1, <2>2, <3>2, SiteIds DEF RowOf, Alone, Idle, Outcome
    <3> QED BY <3>1, <3>2
  <2>5. RowOf(i)'
    BY <1>4, <2>1, <2>2, <2>3 DEF RowOf, Idle, Outcome, Midway, Ended
  <2>6. \A r \in RowIds : Owned(r)'
    <3>1. Owned(Catalog[i].id)'
      BY <1>2, <1>4, <2>1, <2>2 DEF Owned
    <3>2. \A r \in RowIds \ {Catalog[i].id} : Owned(r)'
      BY <1>1, <2>1, <2>2 DEF Owned
    <3> QED BY <3>1, <3>2
  <2>7. ~returned'
    BY <1>1, <1>4, <2>1
  <2> QED BY <2>4, <2>5, <2>6, <2>7 DEF RowInv, RowOf, Owned
<1>5. CASE Spawn
  <2>1. PICK i \in Sites : i = spawned + 1
    BY <1>5, SitesAreNumbers DEF Spawn, Types
  <2> QED BY <1>3, <1>5, <2>1 DEF Spawn, PCs, Running, Midway, Ended
<1>6. CASE Return
  BY <1>6 DEF Return, RowInv, Idle, Outcome, Alone
<1>7. ASSUME NEW i \in Sites, Skip(i) PROVE RowInv'
  <2>1. rows' = [rows EXCEPT ![Catalog[i].id] = "skipped"]
    BY <1>7, RowWrites, SiteIds, Zenon DEF Skip
  <2>2. Idle(i)
    BY <1>7 DEF Skip, Idle, Probing
  <2> QED BY <1>2, <1>4, <1>7, <2>1, <2>2 DEF Skip, PCs, Running
<1>8. ASSUME NEW i \in Sites, Begin(i) PROVE RowInv'
  <2>1. rows' = [rows EXCEPT ![Catalog[i].id] = "running"]
    BY <1>8, RowWrites, SiteIds, Zenon DEF Begin
  <2> QED BY <1>4, <1>8, <2>1 DEF Begin, PCs, Running, Midway
<1>9. ASSUME NEW i \in Sites, Miss(i) PROVE RowInv'
  BY <1>3, <1>9 DEF Miss, PCs, Running, Midway, Ended
<1>10. ASSUME NEW i \in Sites, Fetch(i) PROVE RowInv'
  BY <1>3, <1>10 DEF Fetch, PCs, Running, Midway, Ended
<1>11. ASSUME NEW i \in Sites, UseCached(i) PROVE RowInv'
  <2>1. pc[i] = "look" /\ Goto(i, "look", "look") /\ rows' = rows /\ returned' = returned
    BY <1>11 DEF UseCached, Goto, Types
  <2>2. i \in Probing /\ Key(i) \in Keys
    BY <1>11, <2>1, ProbedSite DEF UseCached, PlaceInv, Midway, Idle, AtTarget, Key, Types
  <2>3. PICK answer \in Answers : Use(i, answer)
    BY <1>11, <2>2 DEF UseCached, Types
  <2>4. \A j \in Sites : pc[j] \in Ended => hits'[j] = hits[j] /\ failed'[j] = failed[j]
    BY <2>1, <2>3, UseAnswer DEF Ended
  <2> QED BY <1>3, <2>1, <2>4 DEF PCs, Running, Midway, Ended
<1>12. ASSUME NEW i \in Sites, Store(i) PROVE RowInv'
  <2>1. Goto(i, "store", "look") /\ pc[i] = "store" /\ rows' = rows /\ returned' = returned
    BY <1>12 DEF Store, Goto
  <2>2. PICK answer \in Answers : Use(i, answer)
    BY <1>12, <2>1 DEF Store, PlaceInv
  <2>3. \A j \in Sites : pc[j] \in Ended => hits'[j] = hits[j] /\ failed'[j] = failed[j]
    BY <2>1, <2>2, UseAnswer DEF Ended
  <2> QED BY <1>3, <2>1, <2>3 DEF PCs, Running, Midway, Ended
<1>13. ASSUME NEW i \in Sites, Settle(i) PROVE RowInv'
  <2>1. pc[i] = "look"
    BY <1>13 DEF Settle, Goto
  <2>2. ~Idle(i) /\ rows[Catalog[i].id] # "absent"
    BY <1>1, <2>1 DEF PlaceInv, RowOf, Midway
  <2>3. rows' = [rows EXCEPT ![Catalog[i].id] = Outcome(i)]
    BY <1>13, <2>2, RowWrites, SiteIds, Zenon DEF Settle
  <2>4. Outcome(i) \in Settled
    BY OutcomeSettles
  <2> QED BY <1>4, <1>13, <2>2, <2>3, <2>4 DEF Settle, PCs, Running
<1>14. ASSUME NEW i \in Sites, Leave(i) PROVE RowInv'
  BY <1>3, <1>14 DEF Leave, PCs, Running, Midway, Ended
<1> QED BY <1>5, <1>6, <1>7, <1>8, <1>9, <1>10, <1>11, <1>12, <1>13, <1>14 DEF Next, Step

-----------------------------------------------------------------------------
(* The summary over a step.                                                *)

LEMMA UpTo == ASSUME NEW n \in Nat PROVE IsFiniteSet(1..n) /\ Cardinality(1..n) = n
<1>1. IsFiniteSet(1..n) /\ Cardinality(1..n) = IF 1 > n THEN 0 ELSE n - 1 + 1
  BY FS_Interval
<1> QED BY <1>1

(* The lines of one site.                                                  *)
LEMMA LinesOfSite ==
  ASSUME Types, NEW i \in Sites
  PROVE  IsFiniteSet(LinesOf(i)) /\ Cardinality(LinesOf(i)) = hits[i]
<1>1. hits[i] \in Nat
  BY DEF Types
<1>2. IsFiniteSet(1..hits[i]) /\ Cardinality(1..hits[i]) = hits[i]
  BY <1>1, UpTo
<1>3. IsFiniteSet({i}) /\ Cardinality({i}) = 1
  BY FS_Singleton
<1>4. /\ IsFiniteSet(LinesOf(i))
      /\ Cardinality(LinesOf(i)) = Cardinality({i}) * Cardinality(1..hits[i])
  BY <1>2, <1>3, FS_Product, Zenon DEF LinesOf
<1>5. Cardinality(LinesOf(i)) = 1 * hits[i]
  BY <1>2, <1>3, <1>4
<1> QED BY <1>1, <1>4, <1>5

LEMMA DisjointUnion ==
  ASSUME NEW S, NEW T, IsFiniteSet(S), IsFiniteSet(T), S \cap T = {}
  PROVE  /\ IsFiniteSet(S \cup T)
         /\ Cardinality(S \cup T) = Cardinality(S) + Cardinality(T)
<1>1. /\ IsFiniteSet(S \cup T)
      /\ Cardinality(S \cup T) = Cardinality(S) + Cardinality(T) - Cardinality(S \cap T)
  BY FS_Union
<1>2. Cardinality(S \cap T) = 0
  BY FS_EmptySet
<1>3. Cardinality(S) \in Nat /\ Cardinality(T) \in Nat
  BY FS_CardinalityType
<1> QED BY <1>1, <1>2, <1>3

(* One site comes to count for more, and none for less.                    *)
LEMMA CountersGain ==
  ASSUME SumInv, NEW i \in Sites, NEW gains \in SUBSET Counters,
         \A j \in Sites \ {i} : CountsFor(j)' = CountsFor(j),
         CountsFor(i)' = CountsFor(i) \cup gains, CountsFor(i) \cap gains = {},
         \A f \in Counters : sum'[f] = IF f \in gains THEN sum[f] + 1 ELSE sum[f]
  PROVE  \A f \in Counters : sum'[f] = Cardinality(CountedIn(f)')
<1> SUFFICES ASSUME NEW f \in Counters
             PROVE  sum'[f] = Cardinality(CountedIn(f)')
  OBVIOUS
<1>1. sum[f] = Cardinality(CountedIn(f)) /\ CountedIn(f) \subseteq Sites
  BY DEF SumInv, CountedIn
<1>2. CASE f \in gains
  <2>1. i \notin CountedIn(f) /\ CountedIn(f)' = CountedIn(f) \cup {i}
    BY <1>2 DEF CountedIn
  <2> QED BY <1>1, <1>2, <2>1, SiteCount
<1>3. CASE f \notin gains
  <2>1. CountedIn(f)' = CountedIn(f)
    BY <1>3 DEF CountedIn
  <2> QED BY <1>1, <1>3, <2>1
<1> QED BY <1>2, <1>3

(* A site that has not come to its end, nor does.                          *)
LEMMA SumOnTheWay ==
  ASSUME Types, SumInv, NEW i \in Sites, NEW to \in PCs,
         pc' = [pc EXCEPT ![i] = to], pc[i] \notin Ended, to \notin Ended,
         pc[i] \in {"idle", "plan"} <=> to \in {"idle", "plan"},
         \A j \in Sites \ {i} : hits'[j] = hits[j] /\ failed'[j] = failed[j],
         sum' = sum, sitesDone' = sitesDone
  PROVE  SumInv'
<1>1. pc'[i] = to /\ \A j \in Sites \ {i} : pc'[j] = pc[j]
  BY DEF Types
<1>2. \A j \in Sites : CountsFor(j)' = CountsFor(j)
  BY <1>1 DEF CountsFor, AtEnd, Verdict, Outcome, Idle
<1>3. \A f \in Counters : CountedIn(f)' = CountedIn(f)
  BY <1>2 DEF CountedIn
<1>4. DoneSites' = DoneSites
  BY <1>1 DEF DoneSites, Ended
<1>5. LinesAtEnd' = LinesAtEnd
  BY <1>1 DEF LinesAtEnd, LinesOf
<1> QED BY <1>3, <1>4, <1>5 DEF SumInv

(* A site that comes to its end.                                           *)
LEMMA SumAtEnd ==
  ASSUME Types, SumInv, NEW i \in Sites, NEW gains \in SUBSET Counters,
         pc[i] \in {"plan", "look"}, pc' = [pc EXCEPT ![i] = "leave"],
         hits' = hits, failed' = failed, sitesDone' = sitesDone,
         CountsFor(i)' = CountsFor(i) \cup gains, CountsFor(i) \cap gains = {},
         \A f \in Counters : sum'[f] = IF f \in gains THEN sum[f] + 1 ELSE sum[f],
         sum'["Hits"] = sum["Hits"] + hits[i]
  PROVE  SumInv'
<1>1. pc'[i] = "leave" /\ \A j \in Sites \ {i} : pc'[j] = pc[j]
  BY DEF Types
<1>2. \A j \in Sites \ {i} : CountsFor(j)' = CountsFor(j)
  BY <1>1 DEF CountsFor, AtEnd, Verdict, Outcome, Idle
<1>3. \A f \in Counters : sum'[f] = Cardinality(CountedIn(f)')
  BY <1>2, CountersGain
<1>4. DoneSites' = DoneSites
  BY <1>1 DEF DoneSites
<1>5. LinesAtEnd' = LinesAtEnd \cup LinesOf(i)
  BY <1>1 DEF LinesAtEnd, LinesOf, Ended
<1>6. LinesAtEnd \cap LinesOf(i) = {}
  BY DEF LinesAtEnd, LinesOf, Ended
<1>7. IsFiniteSet(LinesOf(i)) /\ Cardinality(LinesOf(i)) = hits[i] /\ hits[i] \in Nat
  BY LinesOfSite DEF Types
<1>8. IsFiniteSet(LinesAtEnd) /\ sum["Hits"] = Cardinality(LinesAtEnd)
  BY DEF SumInv
<1>9. /\ IsFiniteSet(LinesAtEnd \cup LinesOf(i))
      /\ Cardinality(LinesAtEnd \cup LinesOf(i)) = Cardinality(LinesAtEnd) + hits[i]
  BY <1>6, <1>7, <1>8, DisjointUnion
<1>10. IsFiniteSet(LinesAtEnd') /\ sum'["Hits"] = Cardinality(LinesAtEnd')
  BY <1>5, <1>8, <1>9
<1> QED BY <1>3, <1>4, <1>10 DEF SumInv

LEMMA SumStep ==
  ASSUME Types, PlaceInv, ReadInv, SumInv, Next
  PROVE  SumInv'
<1>1. CASE Spawn
  <2>1. PICK i \in Sites : i = spawned + 1
    BY <1>1, SitesAreNumbers DEF Spawn, Types
  <2> QED BY <1>1, <2>1, SumOnTheWay DEF Spawn, Goto, PCs, Running, Ended
<1>2. CASE Return
  <2>1. /\ \A i \in Sites : CountsFor(i)' = CountsFor(i) /\ LinesOf(i)' = LinesOf(i)
        /\ pc' = pc /\ sum' = sum /\ sitesDone' = sitesDone
    BY <1>2 DEF Return, CountsFor, AtEnd, Verdict, Idle, Outcome, LinesOf
  <2>2. (\A f \in Counters : CountedIn(f)' = CountedIn(f)) /\ DoneSites' = DoneSites
    BY <2>1 DEF CountedIn, DoneSites
  <2>3. LinesAtEnd' = LinesAtEnd
    BY <2>1 DEF LinesAtEnd
  <2> QED BY <2>1, <2>2, <2>3 DEF SumInv
<1>3. ASSUME NEW i \in Sites, Skip(i) PROVE SumInv'
  <2>1. /\ pc[i] = "plan" /\ pc' = [pc EXCEPT ![i] = "leave"] /\ hits' = hits /\ failed' = failed
        /\ sitesDone' = sitesDone /\ pc'[i] = "leave"
    BY <1>3 DEF Skip, Goto, Types
  <2>2. Idle(i) /\ hits[i] = 0 /\ sum["Hits"] \in Nat
    BY <1>3, <2>1 DEF Skip, Idle, Probing, ReadInv, Types, Fields
  <2>3. CountsFor(i) = {}
    BY <2>1 DEF CountsFor
  <2>4. PICK gains \in SUBSET Counters : Count(gains) /\ CountsFor(i)' = gains
    <3>1. CASE Surface(i) /\ Count({"Surfaces"})
      <4>1. CountsFor(i)' = {"Surfaces"}
        BY <2>1, <3>1 DEF CountsFor, Surface
      <4> QED BY <3>1, <4>1 DEF Counters, Fields
    <3>2. CASE ~Surface(i) /\ i \notin Probing /\ Count({"ReadAPI", "SkippedNoProbe"})
      <4>1. CountsFor(i)' = {"ReadAPI", "SkippedNoProbe"}
        BY <2>1, <3>2 DEF CountsFor, Surface, Ended, AtEnd
      <4> QED BY <3>2, <4>1 DEF Counters, Fields
    <3>3. CASE i \in Probing /\ Count({"ReadAPI", "SkippedNoInventory"})
      <4>1. CountsFor(i)' = {"ReadAPI", "SkippedNoInventory"}
        BY <2>1, <2>2, <3>3 DEF CountsFor, Surface, Ended, AtEnd, Idle, Probing
      <4> QED BY <3>3, <4>1 DEF Counters, Fields
    <3> QED BY <1>3, <3>1, <3>2, <3>3 DEF Skip
  <2>5. \A f \in Fields : sum'[f] = IF f \in gains THEN sum[f] + 1 ELSE sum[f]
    BY <2>4 DEF Count
  <2>6. sum'["Hits"] = sum["Hits"] + hits[i]
    BY <2>2, <2>5 DEF Counters, Fields
  <2> QED BY <2>1, <2>3, <2>4, <2>5, <2>6, SumAtEnd DEF Counters
<1>4. ASSUME NEW i \in Sites, Begin(i) PROVE SumInv'
  <2>1. /\ pc[i] = "plan" /\ pc'[i] = "look" /\ hits' = hits /\ failed' = failed
        /\ sitesDone' = sitesDone /\ \A j \in Sites \ {i} : pc'[j] = pc[j]
    BY <1>4 DEF Begin, Goto, Types
  <2>2. CountsFor(i) = {} /\ CountsFor(i)' = {"ReadAPI"}
    BY <1>4, <2>1 DEF Begin, CountsFor, Surface, Probing, Ended
  <2>3. \A j \in Sites \ {i} : CountsFor(j)' = CountsFor(j)
    BY <2>1 DEF CountsFor, AtEnd, Verdict, Outcome, Idle
  <2>4. \A f \in Fields : sum'[f] = IF f \in {"ReadAPI"} THEN sum[f] + 1 ELSE sum[f]
    BY <1>4 DEF Begin, Count
  <2>5. {"ReadAPI"} \in SUBSET Counters
    BY DEF Counters, Fields
  <2>6. \A f \in Counters : sum'[f] = Cardinality(CountedIn(f)')
    BY <2>2, <2>3, <2>4, <2>5, CountersGain DEF Counters
  <2>7. DoneSites' = DoneSites
    BY <2>1 DEF DoneSites
  <2>8. LinesAtEnd' = LinesAtEnd
    BY <2>1 DEF LinesAtEnd, LinesOf, Ended
  <2>9. sum'["Hits"] = sum["Hits"]
    BY <2>4 DEF Fields
  <2> QED BY <2>1, <2>6, <2>7, <2>8, <2>9 DEF SumInv
<1>5. ASSUME NEW i \in Sites, UseCached(i) PROVE SumInv'
  <2>1. /\ pc[i] = "look" /\ pc' = [pc EXCEPT ![i] = "look"] /\ sum' = sum
        /\ sitesDone' = sitesDone
    BY <1>5 DEF UseCached, Types
  <2>2. Key(i) \in Keys
    BY <1>5, <2>1, ProbedSite DEF UseCached, PlaceInv, Midway, Idle, AtTarget, Key, Types
  <2>3. PICK answer \in Answers : Use(i, answer)
    BY <1>5, <2>2 DEF UseCached, Types
  <2>4. \A j \in Sites \ {i} : hits'[j] = hits[j] /\ failed'[j] = failed[j]
    BY <2>3, UseAnswer
  <2> QED BY <2>1, <2>4, SumOnTheWay DEF PCs, Running, Ended
<1>6. ASSUME NEW i \in Sites, Miss(i) PROVE SumInv'
  BY <1>6, SumOnTheWay DEF Miss, Goto, PCs, Running, Ended
<1>7. ASSUME NEW i \in Sites, Fetch(i) PROVE SumInv'
  <2>1. /\ pc[i] = "fetch" /\ pc' = [pc EXCEPT ![i] = "store"] /\ sum' = sum
        /\ sitesDone' = sitesDone /\ hits' = hits /\ failed' = failed
    BY <1>7, Zenon DEF Fetch, Goto
  <2> QED BY <2>1, SumOnTheWay DEF PCs, Running, Ended
<1>8. ASSUME NEW i \in Sites, Store(i) PROVE SumInv'
  <2>1. /\ pc[i] = "store" /\ pc' = [pc EXCEPT ![i] = "look"] /\ sum' = sum
        /\ sitesDone' = sitesDone
    BY <1>8 DEF Store, Goto
  <2>2. PICK answer \in Answers : Use(i, answer)
    BY <1>8, <2>1 DEF Store, PlaceInv
  <2>3. \A j \in Sites \ {i} : hits'[j] = hits[j] /\ failed'[j] = failed[j]
    BY <2>2, UseAnswer
  <2> QED BY <2>1, <2>3, SumOnTheWay DEF PCs, Running, Ended
<1>9. ASSUME NEW i \in Sites, Settle(i) PROVE SumInv'
  <2>1. /\ pc[i] = "look" /\ pc' = [pc EXCEPT ![i] = "leave"] /\ hits' = hits /\ failed' = failed
        /\ sitesDone' = sitesDone /\ pc'[i] = "leave"
    BY <1>9 DEF Settle, Goto, Types
  <2>2. ~Idle(i) /\ i \in Probing /\ ~Surface(i)
    BY <2>1 DEF PlaceInv, Midway, Idle, Probing
  <2>3. CountsFor(i) = {"ReadAPI"} /\ CountsFor(i)' = {"ReadAPI"} \cup Verdict(i)
    BY <2>1, <2>2 DEF CountsFor, Surface, Ended, AtEnd, Verdict, Outcome, Idle
  <2>4. Verdict(i) \in SUBSET Counters /\ "ReadAPI" \notin Verdict(i)
    BY DEF Verdict, Counters, Fields
  <2>5. /\ \A f \in Counters : sum'[f] = IF f \in Verdict(i) THEN sum[f] + 1 ELSE sum[f]
        /\ sum'["Hits"] = sum["Hits"] + hits[i]
    <3>1. sum' = [sum EXCEPT !["Probed"] = @ + 1,
                             !["Denied"] = IF Outcome(i) = "denied" THEN @ + 1 ELSE @,
                             !["Errored"] = IF Outcome(i) = "error" THEN @ + 1 ELSE @,
                             !["Hits"] = @ + hits[i]]
      BY <1>9, Zenon DEF Settle
    <3>2. sum \in [Fields -> Nat]
      BY Zenon DEF Types
    <3> QED BY <3>1, <3>2 DEF Fields, Counters, Verdict
  <2>6. /\ CountsFor(i)' = CountsFor(i) \cup Verdict(i) /\ CountsFor(i) \cap Verdict(i) = {}
        /\ pc[i] \in {"plan", "look"}
    BY <2>1, <2>3, <2>4
  <2> QED BY <2>1, <2>4, <2>5, <2>6, SumAtEnd, Zenon
<1>10. ASSUME NEW i \in Sites, Leave(i) PROVE SumInv'
  <2>1. /\ pc[i] = "leave" /\ pc'[i] = "done" /\ hits' = hits /\ failed' = failed /\ sum' = sum
        /\ sitesDone' = sitesDone + 1 /\ \A j \in Sites \ {i} : pc'[j] = pc[j]
    BY <1>10 DEF Leave, Goto, Types
  <2>2. \A j \in Sites : CountsFor(j)' = CountsFor(j)
    BY <2>1 DEF CountsFor, AtEnd, Verdict, Outcome, Idle, Ended
  <2>3. \A f \in Counters : CountedIn(f)' = CountedIn(f)
    BY <2>2 DEF CountedIn
  <2>4. LinesAtEnd' = LinesAtEnd
    BY <2>1 DEF LinesAtEnd, LinesOf, Ended
  <2>5. DoneSites' = DoneSites \cup {i} /\ i \notin DoneSites /\ DoneSites \subseteq Sites
    BY <2>1 DEF DoneSites
  <2>6. Cardinality(DoneSites') = Cardinality(DoneSites) + 1
    BY <2>5, SiteCount
  <2> QED BY <2>1, <2>3, <2>4, <2>6 DEF SumInv
<1> QED BY <1>1, <1>2, <1>3, <1>4, <1>5, <1>6, <1>7, <1>8, <1>9, <1>10 DEF Next, Step

-----------------------------------------------------------------------------
(* The theorems.                                                           *)

LEMMA StutterIInv == ASSUME IInv, UNCHANGED vars PROVE IInv'
<1>1. /\ spawned' = spawned /\ pc' = pc /\ next' = next /\ got' = got /\ hits' = hits
      /\ failed' = failed /\ rows' = rows /\ cache' = cache /\ sum' = sum /\ sitesDone' = sitesDone
      /\ sem' = sem /\ returned' = returned /\ calls' = calls
      /\ given' = given
  BY DEF vars
<1>2. Types'
  BY <1>1, Zenon DEF IInv, Types
<1>3. LiveSites' = LiveSites /\ \A k \in Keys : InFlight(k)' = InFlight(k)
  BY <1>1 DEF LiveSites, InFlight, Key
<1>4. PlaceInv'
  BY <1>1, <1>3 DEF IInv, PlaceInv, Key, Idle
<1>5. CallsInv'
  BY <1>1, <1>3 DEF IInv, CallsInv
<1>6. ReadInv'
  BY <1>1 DEF IInv, ReadInv, Idle
<1>7. RowInv'
  BY <1>1 DEF IInv, RowInv, Idle, Outcome, Alone
<1>8. SumInv'
  <2>1. \A i \in Sites : CountsFor(i)' = CountsFor(i) /\ LinesOf(i)' = LinesOf(i)
    BY <1>1 DEF CountsFor, AtEnd, Verdict, Idle, Outcome, LinesOf
  <2>2. (\A f \in Counters : CountedIn(f)' = CountedIn(f)) /\ DoneSites' = DoneSites
    BY <1>1, <2>1 DEF CountedIn, DoneSites
  <2>3. LinesAtEnd' = LinesAtEnd
    BY <1>1, <2>1 DEF LinesAtEnd
  <2> QED BY <1>1, <2>2, <2>3 DEF IInv, SumInv
<1> QED BY <1>2, <1>4, <1>5, <1>6, <1>7, <1>8 DEF IInv

LEMMA IInvHolds == Spec => []IInv
<1>1. IInv /\ [Next]_vars => IInv'
  <2>1. ASSUME IInv, Next PROVE IInv'
    BY <2>1, TypesStep, PlaceStep, CallsStep, ReadStep, RowStep, SumStep DEF IInv
  <2> QED BY <2>1, StutterIInv
<1> QED BY <1>1, InitIInv, PTL DEF Spec

(* Every variable keeps to its values, and no more slots are taken than    *)
(* the semaphore has (Run).                                                *)
THEOREM TypeCorrect == Spec => []TypeOK
<1>1. IInv => TypeOK
  <2> SUFFICES ASSUME Types PROVE TypeOK
    BY DEF IInv
  <2>1. pc \in [Sites -> {"idle", "plan", "look", "fetch", "store", "leave", "done"}]
    BY DEF Types, PCs, Running
  <2>2. next \in [Sites -> Nat]
    BY DEF Types
  <2> QED BY <2>1, <2>2, Zenon DEF Types, TypeOK
<1> QED BY <1>1, IInvHolds, PTL

(* However many sites read a response, it is fetched no more often than    *)
(* there are slots (cachedFetch, cachedListFetch): while nothing is stored *)
(* for it each call made is still under way, at a site that holds a slot.  *)
THEOREM CallsAreBounded == Spec => []CallsBounded
<1>1. IInv => CallsBounded
  BY DEF IInv, CallsInv, CallsBounded
<1> QED BY <1>1, IInvHolds, PTL

(* The summary accounts for the whole catalog (Run): each site is counted  *)
(* once on its way through and once for how it ended, and the hits are the *)
(* lines on disk, in whatever order the sites come and go.                 *)
THEOREM SummaryAddsUp == Spec => []Reconciled
<1>1. IInv => Reconciled
  <2> SUFFICES ASSUME IInv, returned
               PROVE  Reconciled
    BY DEF Reconciled
  <2> DEFINE N(f) == CountedIn(f)
  <2>1. \A i \in Sites : pc[i] = "done"
    BY DEF IInv, RowInv
  <2>2. \A i \in Sites : CountsFor(i) =
           IF Surface(i) THEN {"Surfaces"} ELSE {"ReadAPI"} \cup AtEnd(i)
    BY <2>1 DEF CountsFor, Ended
  <2>3. IsFiniteSet(Sites) /\ Cardinality(Sites) = Len(Catalog)
    BY SitesAreNumbers, UpTo
  <2>4. \A f : N(f) \subseteq Sites
    BY DEF CountedIn
  <2>5. \A f : IsFiniteSet(N(f)) /\ Cardinality(N(f)) \in Nat
    BY <2>3, <2>4, FS_Subset, FS_CardinalityType
  <2>6. \A f \in Counters : sum[f] = Cardinality(N(f))
    BY DEF IInv, SumInv
  <2>7. ASSUME NEW f, NEW g, N(f) \cap N(g) = {}
        PROVE  /\ Cardinality(N(f) \cup N(g)) = Cardinality(N(f)) + Cardinality(N(g))
               /\ IsFiniteSet(N(f) \cup N(g))
    BY <2>5, <2>7, DisjointUnion
  <2>8. sum["ReadAPI"] + sum["Surfaces"] = Len(Catalog)
    <3>1. N("ReadAPI") \cup N("Surfaces") = Sites /\ N("ReadAPI") \cap N("Surfaces") = {}
      BY <2>2 DEF CountedIn, AtEnd, Verdict
    <3> QED BY <2>3, <2>6, <2>7, <3>1 DEF Counters, Fields
  <2>9. sitesDone = Len(Catalog)
    <3>1. DoneSites = Sites
      BY <2>1 DEF DoneSites
    <3> QED BY <2>3, <3>1 DEF IInv, SumInv
  <2>10. sum["Probed"] + sum["SkippedNoProbe"] + sum["SkippedNoInventory"] = sum["ReadAPI"]
    <3>1. /\ N("Probed") \cap N("SkippedNoProbe") = {}
          /\ (N("Probed") \cup N("SkippedNoProbe")) \cap N("SkippedNoInventory") = {}
          /\ (N("Probed") \cup N("SkippedNoProbe")) \cup N("SkippedNoInventory") = N("ReadAPI")
      BY <2>2 DEF CountedIn, AtEnd, Verdict, Surface, Probing
    <3>2. /\ IsFiniteSet(N("Probed") \cup N("SkippedNoProbe"))
          /\ Cardinality(N("Probed") \cup N("SkippedNoProbe"))
               = Cardinality(N("Probed")) + Cardinality(N("SkippedNoProbe"))
      BY <2>7, <3>1
    <3>3. Cardinality(N("ReadAPI")) = Cardinality(N("Probed") \cup N("SkippedNoProbe"))
                                        + Cardinality(N("SkippedNoInventory"))
      BY <2>5, <3>1, <3>2, DisjointUnion
    <3> QED BY <2>6, <3>2, <3>3 DEF Counters, Fields
  <2>11. sum["Denied"] + sum["Errored"] <= sum["Probed"]
    <3>1. /\ N("Denied") \cap N("Errored") = {}
          /\ N("Denied") \cup N("Errored") \subseteq N("Probed")
      BY <2>2 DEF CountedIn, AtEnd, Verdict
    <3>2. Cardinality(N("Denied") \cup N("Errored")) <= Cardinality(N("Probed"))
      BY <2>5, <3>1, FS_Subset
    <3> QED BY <2>6, <2>7, <3>1, <3>2 DEF Counters, Fields
  <2>12. sum["Hits"] = Cardinality(HitLines)
    <3>1. {j \in Sites : pc[j] \in Ended} = Sites
      BY <2>1 DEF Ended
    <3>2. LinesAtEnd = HitLines
      BY <3>1 DEF LinesAtEnd, LinesOf, HitLines
    <3> QED BY <3>2 DEF IInv, SumInv
  <2> QED BY <2>8, <2>9, <2>10, <2>11, <2>12 DEF Reconciled
<1> QED BY <1>1, IInvHolds, PTL

(* When Run returns no row is open, and the row of a site that has its id  *)
(* for itself says what the API answered for this site's own targets       *)
(* (probeSite, cachedFetch), however the fetches of several sites overlap. *)
THEOREM CoverageHolds == Spec => []CoverageIsHonest
<1>1. IInv => CoverageIsHonest
  <2> SUFFICES ASSUME IInv, returned
               PROVE  /\ IntegrityOK(rows)
                      /\ \A i \in Sites : Alone(i) =>
                           LET mine == rows[Catalog[i].id] IN
                           /\ mine = "ok" <=> hits[i] > 0
                           /\ mine = "empty" =>
                                i \in Probing /\ \A n \in DOMAIN Targets[i] : "ok" \in given[KeysOf[i][n]]
                           /\ mine \in Failures => \E n \in DOMAIN Targets[i] : mine \in given[KeysOf[i][n]]
                           /\ mine = "skipped" => i \notin Probing \/ Targets[i] = <<>>
    BY DEF CoverageIsHonest, Alone
  <2>1. \A i \in Sites : pc[i] = "done"
    BY DEF IInv, RowInv
  <2>2. IntegrityOK(rows)
    BY <2>1 DEF IInv, RowInv, Types, IntegrityOK, Midway
  <2>3. ASSUME NEW i \in Sites, Alone(i)
        PROVE  LET mine == rows[Catalog[i].id] IN
               /\ mine = "ok" <=> hits[i] > 0
               /\ mine = "empty" =>
                    i \in Probing /\ \A n \in DOMAIN Targets[i] : "ok" \in given[KeysOf[i][n]]
               /\ mine \in Failures => \E n \in DOMAIN Targets[i] : mine \in given[KeysOf[i][n]]
               /\ mine = "skipped" => i \notin Probing \/ Targets[i] = <<>>
    <3>1. rows[Catalog[i].id] = IF Idle(i) THEN "skipped" ELSE Outcome(i)
      BY <2>1, <2>3 DEF IInv, RowInv, Ended
    <3>2. CASE Idle(i)
      <4>1. hits[i] = 0
        BY <3>2 DEF IInv, ReadInv
      <4> QED BY <3>1, <3>2, <4>1, NoneIsNoAnswer DEF Idle
    <3>3. CASE ~Idle(i)
      <4>1. i \in Probing /\ \A n \in DOMAIN Targets[i] : n < next[i]
        BY <2>1, <3>3 DEF IInv, ReadInv, Ended, Idle
      <4>2. failed[i] = "none" => \A n \in DOMAIN Targets[i] : "ok" \in given[KeysOf[i][n]]
        BY <4>1 DEF IInv, ReadInv
      <4>3. failed[i] # "none" => \E n \in DOMAIN Targets[i] : failed[i] \in given[KeysOf[i][n]]
        BY <4>1 DEF IInv, ReadInv
      <4>4. failed[i] \in Failures \cup {"none"} /\ hits[i] \in Nat
        BY DEF IInv, Types
      <4>5. rows[Catalog[i].id] = Outcome(i)
        BY <3>1, <3>3
      <4> QED BY <4>1, <4>2, <4>3, <4>4, <4>5, NoneIsNoAnswer DEF Outcome
    <3> QED BY <3>2, <3>3
  <2> QED BY <2>2, <2>3
<1> QED BY <1>1, IInvHolds, PTL

-----------------------------------------------------------------------------
(* One call of a function.                                                 *)

Rows == {"running", "ok", "empty", "error"}

Root(f) == Under(Each, f.reads)
NodesOf(f) == ToSet(f.reads) \cup Below(f)

Loops(f) == [node : {Root(f)} \cup NodesOf(f), left : Nat, more : BOOLEAN,
             offered : BOOLEAN, at : Nat]

FetchTypes ==
  /\ function \in Functions
  /\ stack \in Seq(Loops(function))
  /\ things \in Nat /\ lines \in Nat /\ found \in Nat /\ requests \in Nat
  /\ noted \in BOOLEAN /\ row \in Rows

(* The outermost loop goes once through the calls the function starts with, *)
(* the others are of calls, whose request may be to make.                  *)
Nested ==
  /\ stack # <<>>
  /\ stack[1].node = Root(function) /\ ~stack[1].more
  /\ \/ stack[1].at = 0 /\ stack[1].left = 1 /\ Len(stack) = 1 /\ things = 0
     \/ stack[1].at > 1 /\ stack[1].left = 0
  /\ \A k \in 2..Len(stack) :
       stack[k].node \in NodesOf(function) /\ (stack[k].more => Requested(stack[k].node))

(* As long as a request may drop the count, nothing is counted.            *)
Undropped ==
  function.table = "facts" =>
    \A k \in 2..Len(stack) : stack[k].node.onError = "fail" /\ stack[k].more =>
      /\ k = Len(stack) /\ things = 0 /\ stack[k].at = 0
      /\ stack[k].left = 0 \/ stack[k].node.read = "all"

Written == IF function.table = "facts" THEN things = lines ELSE lines = 0

FetchInv ==
  /\ FetchTypes
  /\ row = "running" => Nested /\ Undropped /\ Written
  /\ row # "running" => CountIsOnDisk

-----------------------------------------------------------------------------

LEMMA Elements ==
  ASSUME NEW S, NEW s \in Seq(S)
  PROVE  ToSet(s) \subseteq S /\ \A i \in DOMAIN s : s[i] \in ToSet(s)
BY DEF ToSet

(* All but the last loop.                                                  *)
LEMMA Shorter ==
  ASSUME NEW S, NEW s \in Seq(S), s # <<>>
  PROVE  /\ Front(s) \in Seq(S) /\ Len(Front(s)) = Len(s) - 1
         /\ \A i \in 1..(Len(s) - 1) : Front(s)[i] = s[i]
<1> DEFINE n == Len(s) - 1
<1>1. n \in Nat /\ \A i \in 1..n : s[i] \in S
  OBVIOUS
<1> HIDE DEF n
<1>2. /\ SubSeq(s, 1, n) \in Seq(S)
      /\ Len(SubSeq(s, 1, n)) = IF 1 <= n THEN n - 1 + 1 ELSE 0
      /\ \A i \in 1..(n - 1 + 1) : SubSeq(s, 1, n)[i] = s[1 + i - 1]
  <2>1. 1 \in Int /\ n \in Int
    BY <1>1
  <2> QED BY <1>1, <2>1, SubSeqProperties
<1>3. Len(SubSeq(s, 1, n)) = n
  BY <1>1, <1>2
<1>4. \A i \in 1..n : SubSeq(s, 1, n)[i] = s[i]
  <2> TAKE i \in 1..n
  <2>1. i \in 1..(n - 1 + 1) /\ 1 + i - 1 = i
    BY <1>1
  <2> QED BY <1>2, <2>1
<1> QED BY <1>2, <1>3, <1>4 DEF Front, n

(* The stack after a loop is entered: the loop at the top moves on.        *)
LEMMA Pushed ==
  ASSUME NEW S, NEW s \in Seq(S), s # <<>>, NEW x \in S, NEW y \in S
  PROVE  LET t == Append(Front(s) \o <<x>>, y) IN
         /\ t \in Seq(S) /\ Len(t) = Len(s) + 1
         /\ \A i \in 1..(Len(s) - 1) : t[i] = s[i]
         /\ t[Len(s)] = x /\ t[Len(s) + 1] = y
<1> DEFINE u == Front(s)
<1> DEFINE v == u \o <<x>>
<1>1. Len(s) \in Nat \ {0}
  OBVIOUS
<1>2. u \in Seq(S) /\ Len(u) = Len(s) - 1 /\ \A i \in 1..(Len(s) - 1) : u[i] = s[i]
  BY Shorter
<1> HIDE DEF u
<1>3. /\ v \in Seq(S) /\ Len(v) = Len(s)
      /\ \A i \in 1..(Len(s) - 1) : v[i] = s[i]
      /\ v[Len(s)] = x
  BY <1>1, <1>2
<1> HIDE DEF v
<1>4. LET t == Append(v, y) IN
      /\ t \in Seq(S) /\ Len(t) = Len(s) + 1
      /\ \A i \in 1..(Len(s) - 1) : t[i] = s[i]
      /\ t[Len(s)] = x /\ t[Len(s) + 1] = y
  BY <1>1, <1>3
<1> QED BY <1>4 DEF v, u

LEMMA Popped ==
  ASSUME NEW S, NEW s \in Seq(S), s # <<>>
  PROVE  /\ Front(s) \in Seq(S) /\ Len(Front(s)) = Len(s) - 1
         /\ \A i \in 1..(Len(s) - 1) : Front(s)[i] = s[i]
         /\ Len(s) > 1 => Front(s) # <<>>
<1>1. Len(s) \in Nat \ {0}
  OBVIOUS
<1>2. /\ Front(s) \in Seq(S) /\ Len(Front(s)) = Len(s) - 1
      /\ \A i \in 1..(Len(s) - 1) : Front(s)[i] = s[i]
  BY Shorter
<1> QED BY <1>1, <1>2

LEMMA Replaced ==
  ASSUME NEW S, NEW s \in Seq(S), s # <<>>, NEW x \in S
  PROVE  LET t == [s EXCEPT ![Len(s)] = x] IN
         /\ t \in Seq(S) /\ Len(t) = Len(s) /\ t # <<>>
         /\ \A i \in 1..(Len(s) - 1) : t[i] = s[i]
         /\ t[Len(s)] = x
OBVIOUS

LEMMA Fewer ==
  ASSUME NEW a \in Nat, NEW b \in Nat
  PROVE  Min({a, b}) \in {a, b} /\ Min({a, b}) <= a /\ Min({a, b}) <= b
<1>1. \E m \in {a, b} : \A n \in {a, b} : m <= n
  OBVIOUS
<1>2. Min({a, b}) \in {a, b} /\ \A n \in {a, b} : Min({a, b}) <= n
  BY <1>1 DEF Min
<1> QED BY <1>2

(* The calls of a function.                                                *)
LEMMA TheFunction ==
  ASSUME NEW f \in Functions
  PROVE  /\ f.reads # <<>> /\ f.reads \in Seq(NodesOf(f))
         /\ Root(f).then = f.reads /\ Root(f).read = "each" /\ Root(f).yields = "none"
         /\ \A node \in NodesOf(f) : WellFormed(node) /\ node.then \in Seq(Below(f))
         /\ \A i \in DOMAIN f.reads :
              i # 1 => f.reads[i] \in ToSet(Tail(f.reads))
         /\ f.reads[1] = Head(f.reads)
<1>1. /\ f.reads # <<>> /\ f.reads \in Seq(ToSet(f.reads))
      /\ Within(Below(f)) \subseteq Below(f)
      /\ \A node \in NodesOf(f) : WellFormed(node)
  BY FetchAssumption DEF NodesOf
<1>2. f.reads \in Seq(NodesOf(f))
  BY <1>1 DEF NodesOf
<1>3. Root(f).then = f.reads /\ Root(f).read = "each" /\ Root(f).yields = "none"
  BY DEF Root, Under, Each, Call
<1>4. ASSUME NEW node \in NodesOf(f)
      PROVE  node.then \in Seq(Below(f))
  <2>1. node.then \in Seq(ToSet(node.then))
    BY <1>1 DEF WellFormed
  <2>2. ToSet(node.then) \subseteq Below(f)
    <3>1. CASE node \in ToSet(f.reads)
      BY <3>1 DEF Below, Within
    <3>2. CASE node \in Below(f)
      BY <3>2, <1>1 DEF Within
    <3> QED BY <3>1, <3>2 DEF NodesOf
  <2> HIDE DEF NodesOf
  <2> QED BY <2>1, <2>2
<1>5. ASSUME NEW i \in DOMAIN f.reads, i # 1
      PROVE  f.reads[i] \in ToSet(Tail(f.reads))
  <2>1. i - 1 \in DOMAIN Tail(f.reads) /\ Tail(f.reads)[i - 1] = f.reads[i]
    BY <1>1, <1>5
  <2> QED BY <2>1 DEF ToSet
<1>6. f.reads[1] = Head(f.reads)
  BY <1>1
<1> QED BY <1>1, <1>2, <1>3, <1>4, <1>5, <1>6

(* The loop at the top, and the call that comes next in it.                *)
LEMMA TheTop ==
  ASSUME FetchTypes, row = "running", Nested
  PROVE  /\ Len(stack) \in Nat \ {0} /\ Top = stack[Len(stack)] /\ Top \in Loops(function)
         /\ Len(stack) = 1 => Top.node = Root(function) /\ ~Top.more
         /\ Len(stack) > 1 => Top.node \in NodesOf(function)
         /\ Top.more => Len(stack) > 1 /\ Top.node \in Reached(function)
         /\ Top.node.then = IF Len(stack) = 1 THEN function.reads ELSE Top.node.then
         /\ Top.node.then \in Seq(NodesOf(function))
         /\ Len(stack) > 1 => Top.node.then \in Seq(Below(function))
         /\ function \in Functions
<1>1. Len(stack) \in Nat \ {0} /\ Top = stack[Len(stack)] /\ Top \in Loops(function)
  BY DEF FetchTypes, Nested, Top, Last
<1>2. Len(stack) = 1 => Top.node = Root(function) /\ ~Top.more
  BY <1>1 DEF Nested
<1>3. Len(stack) > 1 => Top.node \in NodesOf(function) /\ (Top.more => Requested(Top.node))
  BY <1>1 DEF Nested
<1>4. Len(stack) = 1 \/ Len(stack) > 1
  BY <1>1
<1>5. ASSUME Top.more
      PROVE  Len(stack) > 1 /\ Top.node \in Reached(function)
  <2>1. Len(stack) > 1
    BY <1>2, <1>5, <1>4, Zenon
  <2>2. Top.node \in NodesOf(function) /\ Requested(Top.node)
    BY <2>1, <1>3, <1>5, Zenon
  <2> QED BY <2>1, <2>2, Zenon DEF Reached, NodesOf
<1>6. function \in Functions
  BY DEF FetchTypes
<1>7. Len(stack) > 1 =>
        Top.node.then \in Seq(Below(function)) /\ Top.node.then \in Seq(NodesOf(function))
  <2>1. Below(function) \subseteq NodesOf(function)
    BY DEF NodesOf
  <2> HIDE DEF NodesOf
  <2>2. \A node \in NodesOf(function) : node.then \in Seq(Below(function))
    BY <1>6, TheFunction
  <2> QED BY <1>3, <2>1, <2>2
<1>8. Len(stack) = 1 => /\ Top.node.then = function.reads
                        /\ Top.node.then \in Seq(NodesOf(function))
  BY <1>2, <1>6, TheFunction
<1> QED BY <1>1, <1>2, <1>3, <1>5, <1>6, <1>7, <1>8, <1>4, Zenon

(* Things are counted, and written down by the collectors of facts.        *)
LEMMA Counting ==
  ASSUME FetchTypes, Written, NEW node, NEW n \in Nat, Yields(node, n), function' = function
  PROVE  /\ things' \in Nat /\ lines' \in Nat /\ found' \in Nat /\ Written'
         /\ node.yields # "record" \/ n = 0 => things' = things
BY DEF FetchTypes, Written, Yields

(* The loop that another is entered from, and the one that was read.       *)
Moved(loop, at, left) == [loop EXCEPT !.at = at + 1, !.left = left]

LEMMA MovedLoop ==
  ASSUME NEW f, NEW loop \in Loops(f), NEW at \in Nat, NEW left \in Nat
  PROVE  /\ Moved(loop, at, left) \in Loops(f)
         /\ Moved(loop, at, left).node = loop.node /\ Moved(loop, at, left).more = loop.more
         /\ Moved(loop, at, left).offered = loop.offered
         /\ Moved(loop, at, left).at = at + 1 /\ Moved(loop, at, left).left = left
<1> DEFINE L == {Root(f)} \cup NodesOf(f)
<1> DEFINE L5 == [node : L, left : Nat, more : BOOLEAN, offered : BOOLEAN, at : Nat]
<1> HIDE DEF L
<1>1. loop \in L5 /\ Loops(f) = L5
  BY DEF Loops, L
<1> DEFINE x == [loop EXCEPT !.at = at + 1]
<1>2. x \in L5
  BY <1>1
<1>3. /\ x.node = loop.node /\ x.more = loop.more /\ x.offered = loop.offered
      /\ x.at = at + 1
  BY <1>1
<1> DEFINE z == [x EXCEPT !.left = left]
<1> HIDE DEF x
<1>4. z \in L5
  BY <1>2
<1>5. /\ z.node = x.node /\ z.more = x.more /\ z.offered = x.offered
      /\ z.at = x.at /\ z.left = left
  BY <1>2
<1>6. z = Moved(loop, at, left)
  BY DEF x, Moved
<1> HIDE DEF z
<1> QED BY <1>2, <1>3, <1>4, <1>5, <1>6, <1>1

(* What a loop is entered with: which call, for how many things, and what  *)
(* is left to the outer one.                                               *)
Entry(at, left, node, n, asks, inner) ==
  /\ at \in DOMAIN Top.node.then /\ node = Top.node.then[at]
  /\ stack' = Append(Front(stack) \o <<Moved(Top, at, left)>>,
                     Loop(node, inner, asks))
  /\ Yields(node, n)
  /\ asks = TRUE => Requested(node) /\ n = 0 /\ inner = 0
  /\ \/ AtThing /\ at = Top.at /\ left = Top.left
     \/ ~AtThing /\ at = 1 /\ Top.left > 0 /\ (Top.node.read = "all" => Top.more # TRUE)
  /\ Len(stack) = 1 => left = 0

LEMMA Entered ==
  ASSUME FetchTypes, row = "running", Nested, Enter
  PROVE  \E at \in Nat \ {0}, left \in Nat, node \in NodesOf(function), n \in Nat,
            asks \in BOOLEAN, inner \in Nat : Entry(at, left, node, n, asks, inner)
<1> DEFINE at == IF AtThing THEN Top.at ELSE 1
<1> DEFINE left == IF AtThing THEN Top.left ELSE Top.left - Taken(Top)
<1> DEFINE node == Top.node.then[at]
<1> DEFINE given_ == Given(node)
<1> DEFINE asks == given_ = Calls
<1> DEFINE n == IF asks THEN 0 ELSE given_
<1> DEFINE inner == IF asks \/ node.then = <<>> THEN 0 ELSE given_
<1>1. /\ Len(stack) \in Nat \ {0} /\ Top = stack[Len(stack)]
      /\ Top.at \in Nat /\ Top.left \in Nat /\ Top.more \in BOOLEAN
      /\ Top.node.then \in Seq(NodesOf(function)) /\ Top.node.then # <<>>
  BY TheTop DEF Loops, Enter
<1>2. \/ AtThing
      \/ ~AtThing /\ Top.left > 0 /\ (Top.node.read = "all" => ~Top.more)
  BY DEF Enter
<1>3. at \in DOMAIN Top.node.then /\ at \in Nat \ {0} /\ node \in NodesOf(function)
  <2>1. at \in DOMAIN Top.node.then
    BY <1>1 DEF AtThing
  <2> HIDE DEF at
  <2> QED BY <1>1, <2>1
<1>4. ~AtThing /\ Top.left > 0 =>
        /\ Taken(Top) \in Nat \ {0} /\ Taken(Top) <= Top.left
        /\ Top.left = 1 => Taken(Top) = 1
  <2>1. BatchSize \in Nat \ {0}
    BY FetchAssumption
  <2>2. Min({Top.left, BatchSize}) \in {Top.left, BatchSize} /\ Min({Top.left, BatchSize}) <= Top.left
    BY <1>1, <2>1, Fewer
  <2> QED BY <1>1, <2>1, <2>2 DEF Taken
<1>5. left \in Nat
  BY <1>1, <1>2, <1>4
<1>6. Len(stack) = 1 => left = 0
  <2> SUFFICES ASSUME Len(stack) = 1 PROVE left = 0
    OBVIOUS
  <2>1. \/ Top.at = 0 /\ Top.left = 1
        \/ Top.at > 1 /\ Top.left = 0
    BY <1>1 DEF Nested
  <2>2. AtThing => Top.at # 0
    BY <1>1 DEF AtThing
  <2> QED BY <1>1, <1>2, <1>4, <2>1, <2>2
<1>7. given_ \in Nat \/ (given_ = Calls /\ Requested(node))
  BY FetchAssumption DEF FetchTypes, Given, Calls, Requested
<1>8. asks \in BOOLEAN /\ n \in Nat /\ inner \in Nat
  <2> HIDE DEF given_, node
  <2> QED BY <1>7 DEF Calls
<1>9. asks = TRUE => Requested(node) /\ n = 0 /\ inner = 0
  <2> HIDE DEF given_, node
  <2> QED BY <1>7 DEF Calls
<1>10. /\ stack' = Append(Front(stack) \o <<Moved(Top, at, left)>>,
                          Loop(node, inner, asks))
       /\ Yields(node, n)
  BY DEF Enter, Moved
<1>11. \/ AtThing /\ at = Top.at /\ left = Top.left
       \/ ~AtThing /\ at = 1 /\ Top.left > 0 /\ (Top.node.read = "all" => Top.more # TRUE)
  BY <1>1, <1>2
<1>12. node = Top.node.then[at]
  OBVIOUS
<1> HIDE DEF at, left, node, asks, n, inner
<1>13. Entry(at, left, node, n, asks, inner)
  BY <1>3, <1>6, <1>9, <1>10, <1>11, <1>12, Zenon DEF Entry
<1> QED BY <1>3, <1>5, <1>8, <1>13, Zenon

LEMMA EnterStep ==
  ASSUME FetchInv, row = "running", Enter
  PROVE  FetchInv'
<1>1. FetchTypes /\ Nested /\ Undropped /\ Written
  BY DEF FetchInv
<1>2. function' = function /\ noted' = noted /\ row' = row /\ requests' = requests
  BY DEF Enter
<1>3. PICK at \in Nat \ {0}, left \in Nat, node \in NodesOf(function), n \in Nat,
            asks \in BOOLEAN, inner \in Nat : Entry(at, left, node, n, asks, inner)
  BY <1>1, Entered
<1>4. /\ at \in DOMAIN Top.node.then /\ node = Top.node.then[at]
      /\ stack' = Append(Front(stack) \o <<Moved(Top, at, left)>>,
                         Loop(node, inner, asks))
      /\ Yields(node, n)
      /\ asks = TRUE => Requested(node) /\ n = 0 /\ inner = 0
      /\ \/ AtThing /\ at = Top.at /\ left = Top.left
         \/ ~AtThing /\ at = 1 /\ Top.left > 0 /\ (Top.node.read = "all" => Top.more # TRUE)
      /\ Len(stack) = 1 => left = 0
  BY <1>3 DEF Entry
<1> DEFINE x == Moved(Top, at, left)
<1> DEFINE y == Loop(node, inner, asks)
<1>5. /\ Len(stack) \in Nat \ {0} /\ Top = stack[Len(stack)] /\ Top \in Loops(function)
      /\ function \in Functions /\ stack \in Seq(Loops(function))
  BY <1>1, TheTop DEF FetchTypes
<1>6. /\ Len(stack) = 1 => Top.node.then = function.reads
      /\ Len(stack) > 1 => Top.node.then \in Seq(Below(function))
  BY <1>1, TheTop
<1>7. at \in Nat /\ left \in Nat /\ at \in DOMAIN Top.node.then /\ node = Top.node.then[at]
  BY <1>3, <1>4
<1>8. /\ x.node = Top.node /\ x.more = Top.more /\ x.offered = Top.offered
      /\ x.at = at + 1 /\ x.left = left
  <2>1. PICK loop \in Loops(function) : loop = Top
    BY <1>5
  <2>2. /\ Moved(loop, at, left).node = loop.node /\ Moved(loop, at, left).more = loop.more
        /\ Moved(loop, at, left).offered = loop.offered
        /\ Moved(loop, at, left).at = at + 1 /\ Moved(loop, at, left).left = left
    <3>1. at \in Nat /\ left \in Nat /\ loop \in Loops(function)
      BY <1>7, <2>1
    <3>2. Moved(loop, at, left).node = loop.node
      BY <3>1, MovedLoop
    <3>3. Moved(loop, at, left).more = loop.more
      BY <3>1, MovedLoop
    <3>4. Moved(loop, at, left).offered = loop.offered
      BY <3>1, MovedLoop
    <3>5. Moved(loop, at, left).at = at + 1
      BY <3>1, MovedLoop
    <3>6. Moved(loop, at, left).left = left
      BY <3>1, MovedLoop
    <3> QED BY <3>2, <3>3, <3>4, <3>5, <3>6, Zenon
  <2> QED BY <2>1, <2>2, Zenon
<1>9. Len(stack) \in Nat /\ (Len(stack) = 1 \/ (Len(stack) > 1 /\ Len(stack) # 1))
  <2>1. PICK d \in Nat \ {0} : d = Len(stack)
    BY <1>5
  <2>2. d = 1 \/ (d > 1 /\ d # 1)
    OBVIOUS
  <2> QED BY <2>1, <2>2
<1>10. x \in Loops(function) /\ y \in Loops(function)
  <2>1. x \in Loops(function)
    BY <1>5, <1>7, MovedLoop, Zenon
  <2>2. y \in Loops(function)
    BY <1>3, <1>5 DEF Loops, Loop
  <2> QED BY <2>1, <2>2
<1>11. /\ y.node = node /\ y.more = asks /\ y.offered = FALSE /\ y.at = 0 /\ y.left = inner
  BY <1>3 DEF Loop
<1>12. /\ stack' \in Seq(Loops(function)) /\ Len(stack') = Len(stack) + 1
       /\ \A i \in 1..(Len(stack) - 1) : stack'[i] = stack[i]
       /\ stack'[Len(stack)] = x /\ stack'[Len(stack) + 1] = y
  <2>1. stack \in Seq(Loops(function)) /\ stack # <<>>
    BY <1>1 DEF FetchTypes, Nested
  <2> HIDE DEF x, y
  <2>2. LET t == Append(Front(stack) \o <<x>>, y) IN
        /\ t \in Seq(Loops(function)) /\ Len(t) = Len(stack) + 1
        /\ \A i \in 1..(Len(stack) - 1) : t[i] = stack[i]
        /\ t[Len(stack)] = x /\ t[Len(stack) + 1] = y
    BY <1>10, <2>1, Pushed
  <2>3. stack' = Append(Front(stack) \o <<x>>, y)
    BY <1>3, <1>4 DEF x, y
  <2> QED BY <2>2, <2>3
<1> HIDE DEF x, y
<1>13. /\ things' \in Nat /\ lines' \in Nat /\ found' \in Nat /\ Written'
       /\ n = 0 => things' = things
  BY <1>1, <1>2, <1>3, <1>4, Counting
<1>14. FetchTypes'
  BY <1>1, <1>2, <1>12, <1>13 DEF FetchTypes
<1>15. Nested'
  <2>1. stack' # <<>>
    BY <1>5, <1>12
  <2>2. CASE Len(stack) = 1
    <3>1. stack'[1] = x
      BY <2>2, <1>12
    <3>2. x.node = Root(function') /\ ~x.more
      BY <1>1, <1>2, <1>5, <1>8, <2>2, TheTop
    <3>3. x.at > 1 /\ x.left = 0
      BY <1>3, <1>4, <1>8, <2>2
    <3>4. \A k \in 2..Len(stack') :
            stack'[k].node \in NodesOf(function) /\ (stack'[k].more => Requested(stack'[k].node))
      <4> TAKE k \in 2..Len(stack')
      <4>1. stack'[k] = y
        BY <2>2, <1>12
      <4> QED BY <4>1, <1>3, <1>4, <1>11
    <3> QED BY <2>1, <3>1, <3>2, <3>3, <3>4, <1>2 DEF Nested
  <2>3. CASE Len(stack) > 1 /\ Len(stack) # 1
    <3>1. stack'[1] = stack[1]
      <4>1. 1 \in 1..(Len(stack) - 1)
        BY <2>3, <1>9
      <4> QED BY <4>1, <1>12
    <3>2. stack[1].node = Root(function) /\ ~stack[1].more /\ stack[1].at > 1 /\ stack[1].left = 0
      <4>1. Len(stack) # 1
        BY <2>3, <1>9
      <4> QED BY <4>1, <1>1, Zenon DEF Nested
    <3>3. ASSUME NEW k \in 2..Len(stack')
          PROVE  stack'[k].node \in NodesOf(function)
                 /\ (stack'[k].more => Requested(stack'[k].node))
      <4>1. CASE k < Len(stack)
        <5>1. stack'[k] = stack[k] /\ k \in 2..Len(stack)
          BY <4>1, <1>5, <1>12
        <5> QED BY <5>1, <1>1, Zenon DEF Nested
      <4>2. CASE k = Len(stack)
        <5>1. stack'[k] = x /\ k \in 2..Len(stack)
          BY <4>2, <1>5, <1>12
        <5>2. Top.node \in NodesOf(function) /\ (Top.more => Requested(Top.node))
          BY <4>2, <5>1, <1>5, <1>1, Zenon DEF Nested
        <5> QED BY <5>1, <5>2, <1>8, Zenon
      <4>3. CASE k = Len(stack) + 1
        <5>1. stack'[k] = y
          BY <4>3, <1>12
        <5> QED BY <5>1, <1>3, <1>4, <1>11
      <4> QED BY <4>1, <4>2, <4>3, <1>5, <1>12
    <3> QED BY <2>1, <3>1, <3>2, <3>3, <1>2 DEF Nested
  <2> QED BY <2>2, <2>3, <1>9
<1>16. Undropped'
  <2> SUFFICES ASSUME function.table = "facts", NEW k \in 2..Len(stack'),
                      stack'[k].node.onError = "fail", stack'[k].more = TRUE
               PROVE  /\ k = Len(stack') /\ things' = 0 /\ stack'[k].at = 0
                      /\ stack'[k].left = 0 \/ stack'[k].node.read = "all"
    BY <1>2, <1>12 DEF Undropped, Loops
  <2>1. k >= Len(stack)
    <3> SUFFICES ASSUME k < Len(stack) PROVE FALSE
      BY <1>5, <1>12
    <3>1. stack'[k] = stack[k] /\ k \in 2..Len(stack) /\ k # Len(stack)
      BY <1>5, <1>12
    <3> QED BY <3>1, <1>1 DEF Undropped
  <2>2. k # Len(stack)
    <3> SUFFICES ASSUME k = Len(stack) PROVE FALSE
      OBVIOUS
    <3>1. Top.node.onError = "fail" /\ Top.more = TRUE
      BY <1>8, <1>12
    <3>2. Top.at = 0 /\ (Top.left = 0 \/ Top.node.read = "all")
      BY <3>1, <1>1, <1>5 DEF Undropped
    <3>3. ~AtThing
      <4>1. 0 \notin DOMAIN Top.node.then
        BY <1>1, TheTop
      <4> QED BY <3>2, <4>1 DEF AtThing
    <3>4. \/ AtThing /\ at = Top.at /\ left = Top.left
          \/ ~AtThing /\ at = 1 /\ Top.left > 0 /\ (Top.node.read = "all" => Top.more # TRUE)
      BY <1>4
    <3>5. Top.left > 0 /\ (Top.node.read = "all" => Top.more # TRUE)
      BY <3>3, <3>4, Zenon
    <3>6. Top.left # 0
      BY <3>5
    <3> QED BY <3>1, <3>2, <3>5, <3>6, Zenon
  <2>3. k = Len(stack') /\ stack'[k] = y
    BY <2>1, <2>2, <1>5, <1>12
  <2>4. asks = TRUE /\ node.onError = "fail"
    BY <2>3, <1>11
  <2>5. n = 0 /\ inner = 0 /\ Requested(node)
    BY <2>4, <1>3, <1>4
  <2>6. node \notin Below(function) /\ node \notin ToSet(Tail(function.reads))
    <3>1. DropsNothing(function)
      BY <1>5, FetchAssumption
    <3>2. \A m \in Below(function) \cup ToSet(Tail(function.reads)) : m.onError # "fail"
      BY <3>1, Zenon DEF DropsNothing
    <3> QED BY <2>4, <3>2
  <2>7. Len(stack) = 1
    <3> SUFFICES ASSUME Len(stack) > 1 PROVE FALSE
      BY <1>9
    <3>1. Top.node.then \in Seq(Below(function))
      BY <1>6, Zenon
    <3> QED BY <3>1, <1>7, <2>6
  <2>8. at = 1
    BY <2>6, <2>7, <1>7, <1>5, <1>6, TheFunction
  <2>9. ~AtThing /\ Top.left > 0
    <3>1. stack[1].at # 1
      BY <1>1 DEF Nested
    <3> QED BY <3>1, <2>7, <2>8, <1>3, <1>4, <1>5
  <2>10. things = 0
    BY <1>1, <1>5, <2>7, <2>9 DEF Nested
  <2> QED BY <2>3, <2>5, <2>10, <1>11, <1>13
<1> QED BY <1>2, <1>13, <1>14, <1>15, <1>16 DEF FetchInv

(* A loop whose request was answered, or refused.                          *)
Turn(loop, more, offered, at, left) ==
  [node |-> loop.node, left |-> left, more |-> more, offered |-> offered, at |-> at]

LEMMA LoopFields ==
  ASSUME NEW f, NEW loop \in Loops(f)
  PROVE  /\ loop = Turn(loop, loop.more, loop.offered, loop.at, loop.left)
         /\ loop.node \in {Root(f)} \cup NodesOf(f) /\ loop.left \in Nat
         /\ loop.more \in BOOLEAN /\ loop.offered \in BOOLEAN /\ loop.at \in Nat
BY DEF Turn, Loops

LEMMA TurnedLoop ==
  ASSUME NEW f, NEW loop \in Loops(f), NEW more \in BOOLEAN, NEW offered \in BOOLEAN,
         NEW at \in Nat, NEW left \in Nat
  PROVE  Turn(loop, more, offered, at, left) \in Loops(f)
BY DEF Turn, Loops

LEMMA TurnFields ==
  ASSUME NEW loop, NEW more, NEW offered, NEW at, NEW left
  PROVE  LET x == Turn(loop, more, offered, at, left) IN
         /\ x.node = loop.node /\ x.more = more /\ x.offered = offered
         /\ x.at = at /\ x.left = left
BY DEF Turn

Answered(loop, more, offered, left) ==
  [loop EXCEPT !.more = more, !.offered = offered, !.at = 0, !.left = left]

LEMMA AnsweredLoop ==
  ASSUME NEW f, NEW loop \in Loops(f), NEW more, NEW offered, NEW left
  PROVE  Answered(loop, more, offered, left) = Turn(loop, more, offered, 0, left)
<1>1. PICK r : r = loop.node
  OBVIOUS
<1>2. loop = [node |-> r, left |-> loop.left, more |-> loop.more, offered |-> loop.offered,
              at |-> loop.at]
  BY <1>1, LoopFields DEF Turn
<1> DEFINE x == [loop EXCEPT !.more = more]
<1> DEFINE y == [x EXCEPT !.offered = offered]
<1> DEFINE z == [y EXCEPT !.at = 0]
<1>3. x = [node |-> r, left |-> loop.left, more |-> more, offered |-> loop.offered,
           at |-> loop.at]
  BY <1>2
<1>4. y = [node |-> r, left |-> loop.left, more |-> more, offered |-> offered, at |-> loop.at]
  <2> HIDE DEF x
  <2> QED BY <1>3
<1>5. z = [node |-> r, left |-> loop.left, more |-> more, offered |-> offered, at |-> 0]
  <2> HIDE DEF y
  <2> QED BY <1>4
<1>6. [z EXCEPT !.left = left]
        = [node |-> r, left |-> left, more |-> more, offered |-> offered, at |-> 0]
  <2> HIDE DEF z
  <2> QED BY <1>5
<1> QED BY <1>1, <1>6 DEF Turn, Answered

LEMMA RefusedLoop ==
  ASSUME NEW f, NEW loop \in Loops(f), NEW more
  PROVE  [loop EXCEPT !.more = more] = Turn(loop, more, loop.offered, loop.at, loop.left)
<1>1. PICK r : r = loop.node
  OBVIOUS
<1>2. loop = [node |-> r, left |-> loop.left, more |-> loop.more, offered |-> loop.offered,
              at |-> loop.at]
  BY <1>1, LoopFields DEF Turn
<1>3. [loop EXCEPT !.more = more]
        = [node |-> r, left |-> loop.left, more |-> more, offered |-> loop.offered,
           at |-> loop.at]
  BY <1>2
<1> QED BY <1>1, <1>3 DEF Turn

(* The call that may drop the count is the first.                          *)
LEMMA FirstCall ==
  ASSUME NEW f \in Functions, f.table = "facts", NEW node \in NodesOf(f), node.onError = "fail"
  PROVE  \/ node.read \in {"once", "first"}
         \/ node.read = "all" /\ node.yields # "record"
<1>1. DropsNothing(f)
  BY FetchAssumption
<1>2. /\ \A m \in Below(f) \cup ToSet(Tail(f.reads)) : m.onError # "fail"
      /\ Head(f.reads).onError = "fail" =>
           \/ Head(f.reads).read \in {"once", "first"}
           \/ Head(f.reads).read = "all" /\ Head(f.reads).yields # "record"
  BY <1>1, Zenon DEF DropsNothing
<1>3. node \in ToSet(f.reads)
  BY <1>2 DEF NodesOf
<1>4. PICK i \in DOMAIN f.reads : node = f.reads[i]
  BY <1>3 DEF ToSet
<1>5. i = 1
  BY <1>2, <1>4, TheFunction
<1>6. node = Head(f.reads)
  BY <1>4, <1>5, TheFunction
<1> QED BY <1>2, <1>6, Zenon

(* The loop at the top has turned its page, or given up.                   *)
LEMMA TurnStep ==
  ASSUME FetchInv, row = "running", Due, function' = function, things' \in Nat,
         NEW more \in BOOLEAN, NEW offered \in BOOLEAN, NEW at \in Nat, NEW left \in Nat,
         stack' = [stack EXCEPT ![Len(stack)] = Turn(Top, more, offered, at, left)],
         function.table = "facts" /\ Top.node.onError = "fail" /\ more = TRUE =>
           things' = 0 /\ at = 0 /\ (left = 0 \/ Top.node.read = "all")
  PROVE  stack' \in Seq(Loops(function)) /\ Nested' /\ Undropped'
<1>1. FetchTypes /\ Nested /\ Undropped /\ Written
  BY DEF FetchInv
<1>2. /\ Len(stack) \in Nat \ {0} /\ Top = stack[Len(stack)] /\ Top \in Loops(function)
      /\ function \in Functions /\ stack \in Seq(Loops(function)) /\ stack # <<>>
  BY <1>1, TheTop DEF FetchTypes, Nested
<1>3. Len(stack) > 1 /\ Top.node \in Reached(function)
  <2>1. Top.more
    BY DEF Due
  <2> QED BY <2>1, <1>1, TheTop, Zenon
<1> DEFINE x == Turn(Top, more, offered, at, left)
<1>4. x.node = Top.node /\ x.more = more /\ x.offered = offered /\ x.at = at /\ x.left = left
  BY TurnFields
<1>5. x \in Loops(function)
  BY <1>2, TurnedLoop
<1> HIDE DEF x
<1>6. /\ stack' \in Seq(Loops(function)) /\ Len(stack') = Len(stack) /\ stack' # <<>>
      /\ \A i \in 1..(Len(stack) - 1) : stack'[i] = stack[i]
      /\ stack'[Len(stack)] = x
  <2>1. LET t == [stack EXCEPT ![Len(stack)] = x] IN
        /\ t \in Seq(Loops(function)) /\ Len(t) = Len(stack) /\ t # <<>>
        /\ \A i \in 1..(Len(stack) - 1) : t[i] = stack[i]
        /\ t[Len(stack)] = x
    BY <1>2, <1>5, Replaced
  <2> QED BY <2>1 DEF x
<1>7. PICK d \in Nat : d = Len(stack) /\ d > 1
  <2>1. PICK d \in Nat \ {0} : d = Len(stack)
    BY <1>2
  <2> QED BY <2>1, <1>3
<1>8. /\ Len(stack') = d /\ Len(stack) = d /\ stack'[d] = x
      /\ \A i \in 1..(d - 1) : stack'[i] = stack[i]
  BY <1>6, <1>7
<1>9. /\ 1 \in 1..(d - 1) /\ d # 1 /\ 2..d \subseteq 1..d
      /\ \A k \in 1..d : (k \in 1..(d - 1) /\ k # d) \/ k = d
  BY <1>7
<1>10. \A k \in 1..Len(stack') :
         \/ k # Len(stack) /\ stack'[k] = stack[k]
         \/ k = Len(stack) /\ stack'[k] = x
  BY <1>8, <1>9, Zenon
<1>11. Nested'
  <2>1. /\ stack'[1].node = Root(function) /\ ~stack'[1].more
        /\ stack'[1].at > 1 /\ stack'[1].left = 0
    <3>1. stack'[1] = stack[1]
      BY <1>8, <1>9, Zenon
    <3>2. Len(stack) # 1
      BY <1>8, <1>9, Zenon
    <3> QED BY <3>1, <3>2, <1>1, Zenon DEF Nested
  <2>2. ASSUME NEW k \in 2..Len(stack')
        PROVE  stack'[k].node \in NodesOf(function)
               /\ (stack'[k].more => Requested(stack'[k].node))
    <3>1. k \in 1..Len(stack') /\ k \in 2..Len(stack)
      BY <1>8, <1>9
    <3>2. CASE stack'[k] = stack[k]
      BY <3>1, <3>2, <1>1, Zenon DEF Nested
    <3>3. CASE stack'[k] = x
      BY <3>3, <1>3, <1>4, <1>1, <1>2, TheTop, Zenon DEF Reached, NodesOf
    <3> QED BY <3>1, <3>2, <3>3, <1>10, Zenon
  <2> QED BY <2>1, <2>2, <1>6 DEF Nested
<1>12. Undropped'
  <2> SUFFICES ASSUME function.table = "facts", NEW k \in 2..Len(stack'),
                      stack'[k].node.onError = "fail", stack'[k].more
               PROVE  /\ k = Len(stack') /\ things' = 0 /\ stack'[k].at = 0
                      /\ stack'[k].left = 0 \/ stack'[k].node.read = "all"
    BY Zenon DEF Undropped
  <2>1. k \in 1..Len(stack') /\ k \in 2..Len(stack)
    BY <1>8, <1>9
  <2>2. CASE k # Len(stack) /\ stack'[k] = stack[k]
    BY <2>1, <2>2, <1>1, Zenon DEF Undropped
  <2>3. CASE k = Len(stack) /\ stack'[k] = x
    BY <2>3, <1>4, <1>6, Zenon
  <2> QED BY <2>1, <2>2, <2>3, <1>10, Zenon
<1> QED BY <1>6, <1>11, <1>12

LEMMA DueTop ==
  ASSUME FetchInv, Due
  PROVE  /\ Top \in Loops(function) /\ Top.more = TRUE /\ Len(stack) \in DOMAIN stack
         /\ Top = stack[Len(stack)] /\ Len(stack) \in 2..Len(stack)
         /\ Top.node \in Reached(function) /\ Top.node \in NodesOf(function)
<1>1. row = "running" /\ FetchTypes /\ Nested
  BY DEF FetchInv, Due
<1>2. /\ Len(stack) \in Nat \ {0} /\ Top = stack[Len(stack)] /\ Top \in Loops(function)
      /\ stack \in Seq(Loops(function))
  BY <1>1, TheTop DEF FetchTypes
<1>3. Len(stack) > 1 /\ Top.node \in Reached(function)
  <2>1. Top.more
    BY DEF Due
  <2> QED BY <2>1, <1>1, TheTop, Zenon
<1>4. Top.more = TRUE
  <2>1. Top.more \in BOOLEAN
    BY <1>2, LoopFields
  <2> QED BY <2>1 DEF Due
<1>5. PICK d \in Nat \ {0} : d = Len(stack)
  BY <1>2
<1>6. d \in 2..d
  BY <1>3, <1>5
<1>7. Len(stack) \in DOMAIN stack
  BY <1>2
<1>8. Top.node \in NodesOf(function)
  BY <1>3 DEF Reached, NodesOf
<1> QED BY <1>2, <1>3, <1>4, <1>5, <1>6, <1>7, <1>8

LEMMA AnswerStep ==
  ASSUME FetchInv, NEW n \in Nat, NEW again \in BOOLEAN, Answer(n, again)
  PROVE  FetchInv'
<1>1. /\ row = "running" /\ FetchTypes /\ Nested /\ Undropped /\ Written
      /\ Due
  BY DEF FetchInv, Answer, Due
<1>2. /\ function' = function /\ noted' = noted /\ row' = row
      /\ requests' = Min({requests + 1, MaxCalls})
  BY DEF Answer
<1>3. requests' \in Nat
  BY <1>1, <1>2, Fewer, FetchAssumption DEF FetchTypes
<1>4. /\ Top \in Loops(function) /\ Top.more = TRUE /\ Top = stack[Len(stack)]
      /\ Len(stack) \in 2..Len(stack) /\ Top.node \in NodesOf(function)
  BY <1>1, DueTop
<1>5. Top.left \in Nat
  BY <1>4, LoopFields
<1> DEFINE more == again /\ Top.node.read # "first"
<1> DEFINE left == IF Top.node.then = <<>> THEN 0 ELSE Top.left + n
<1>6. more \in BOOLEAN /\ left \in Nat
  BY <1>5
<1>7. stack' = [stack EXCEPT ![Len(stack)] = Turn(Top, more, again, 0, left)]
  <2>1. Answered(Top, more, again, left) = Turn(Top, more, again, 0, left)
    <3> HIDE DEF more, left
    <3>1. PICK loop \in Loops(function) : loop = Top
      BY <1>4
    <3>2. Answered(loop, more, again, left) = Turn(loop, more, again, 0, left)
      BY <3>1, AnsweredLoop
    <3> QED BY <3>1, <3>2
  <2> QED BY <2>1 DEF Answer, Becomes, Answered
<1>8. Yields(Top.node, n)
  BY DEF Answer
<1>9. /\ things' \in Nat /\ lines' \in Nat /\ found' \in Nat /\ Written'
      /\ Top.node.yields # "record" => things' = things
  BY <1>1, <1>2, <1>8, Counting
<1>10. ASSUME function.table = "facts", Top.node.onError = "fail", more = TRUE
       PROVE  things' = 0 /\ 0 = 0 /\ (left = 0 \/ Top.node.read = "all")
  <2>1. things = 0
    BY <1>1, <1>4, <1>10 DEF Undropped
  <2>2. function \in Functions
    BY <1>1 DEF FetchTypes
  <2>3. \/ Top.node.read \in {"once", "first"}
        \/ Top.node.read = "all" /\ Top.node.yields # "record"
    BY <1>4, <1>10, <2>2, FirstCall
  <2>4. Top.node.read \in {"pages", "all", "first"} /\ Top.node.read # "first"
    BY <1>10 DEF Answer, Paged
  <2>5. Top.node.read = "all" /\ Top.node.yields # "record"
    BY <2>3, <2>4
  <2> QED BY <2>1, <2>5, <1>9
<1> HIDE DEF more, left
<1>11. stack' \in Seq(Loops(function)) /\ Nested' /\ Undropped'
  BY <1>1, <1>2, <1>6, <1>7, <1>9, <1>10, TurnStep
<1>12. FetchTypes'
  BY <1>1, <1>2, <1>3, <1>9, <1>11 DEF FetchTypes
<1> QED BY <1>1, <1>2, <1>9, <1>11, <1>12 DEF FetchInv

LEMMA RefuseStep ==
  ASSUME FetchInv, Refuse
  PROVE  FetchInv'
<1>1. row = "running" /\ FetchTypes /\ Nested /\ Undropped /\ Written /\ Due
  BY DEF FetchInv, Refuse, Due
<1>2. function' = function /\ requests' = Min({requests + 1, MaxCalls})
  BY DEF Refuse
<1>3. requests' \in Nat
  BY <1>1, <1>2, Fewer, FetchAssumption DEF FetchTypes
<1>4. /\ Top \in Loops(function) /\ Top.more = TRUE /\ Top = stack[Len(stack)]
      /\ Len(stack) \in 2..Len(stack) /\ Top.node \in NodesOf(function)
      /\ function \in Functions
  BY <1>1, DueTop DEF FetchTypes
<1>5. PICK reaction \in Reactions(Top.node) : Refused(reaction)
  BY DEF Refuse
<1>6. function.table = "facts" => reaction = Top.node.onError
  <2>1. ASSUME function.table = "facts"
        PROVE  Top.node.onError # "take"
    <3>1. DropsNothing(function)
      BY <1>4, FetchAssumption
    <3> QED BY <2>1, <3>1, <1>4, Zenon DEF DropsNothing, NodesOf
  <2> QED BY <1>5, <2>1 DEF Reactions
<1>7. CASE reaction \in {"fail", "keep"}
  <2>1. /\ stack' = <<>> /\ noted' = noted /\ found' = found
        /\ RowSettled(TRUE, IF reaction = "fail" THEN 0 ELSE things)
    BY <1>5, <1>7 DEF Refused
  <2>2. /\ row' = "error" /\ things' = (IF reaction = "fail" THEN 0 ELSE things)
        /\ lines' = IF function.table = "facts" THEN lines ELSE 0
    BY <2>1 DEF RowSettled
  <2>3. FetchTypes'
    <3>1. stack' \in Seq(Loops(function'))
      BY <2>1
    <3> QED BY <3>1, <1>1, <1>2, <1>3, <2>1, <2>2 DEF FetchTypes, Rows
  <2>4. CountIsOnDisk'
    <3>1. function.table = "facts" /\ reaction = "fail" => things = 0
      BY <1>1, <1>4, <1>6 DEF Undropped
    <3> QED BY <3>1, <1>1, <1>2, <2>2 DEF CountIsOnDisk, Written
  <2> QED BY <2>2, <2>3, <2>4 DEF FetchInv
<1>8. CASE reaction \notin {"fail", "keep"}
  <2>1. /\ Becomes([Top EXCEPT !.more = FALSE])
        /\ noted' = Noted(reaction)
        /\ Yields(Top.node, IF reaction = "take" THEN 1 ELSE 0)
        /\ row' = row
    BY <1>5, <1>8 DEF Refused
  <2>2. stack' = [stack EXCEPT ![Len(stack)] = Turn(Top, FALSE, Top.offered, Top.at, Top.left)]
    BY <1>4, <2>1, RefusedLoop DEF Becomes
  <2>3. /\ things' \in Nat /\ lines' \in Nat /\ found' \in Nat /\ Written'
    BY <1>1, <1>2, <2>1, Counting
  <2>4. /\ Top.at \in Nat /\ Top.left \in Nat /\ FALSE \in BOOLEAN
        /\ Top.offered \in BOOLEAN
    BY <1>4, LoopFields
  <2>5. stack' \in Seq(Loops(function)) /\ Nested' /\ Undropped'
    BY <1>1, <1>2, <2>2, <2>3, <2>4, TurnStep
  <2>6. noted' \in BOOLEAN
    BY <1>1, <2>1 DEF Noted, FetchTypes
  <2>7. FetchTypes'
    BY <1>1, <1>2, <1>3, <2>1, <2>3, <2>5, <2>6 DEF FetchTypes
  <2> QED BY <1>1, <2>1, <2>3, <2>5, <2>7 DEF FetchInv
<1> QED BY <1>7, <1>8

LEMMA LeaveStep ==
  ASSUME FetchInv, LeaveLoop
  PROVE  FetchInv'
<1>1. row = "running" /\ FetchTypes /\ Nested /\ Undropped /\ Written
  BY DEF FetchInv, LeaveLoop
<1>2. /\ function' = function /\ found' = found /\ noted' = noted /\ requests' = requests
      /\ stack' = Front(stack) /\ ~Top.more
  BY DEF LeaveLoop
<1>3. /\ Top \in Loops(function) /\ Top = stack[Len(stack)] /\ function \in Functions
      /\ stack \in Seq(Loops(function)) /\ stack # <<>>
  BY <1>1, TheTop DEF FetchTypes, Nested
<1>4. PICK d \in Nat \ {0} : d = Len(stack)
  BY <1>1, TheTop
<1>5. /\ stack' \in Seq(Loops(function)) /\ Len(stack') = d - 1
      /\ \A i \in 1..(d - 1) : stack'[i] = stack[i]
  BY <1>2, <1>3, <1>4, Shorter
<1>6. CASE d > 1
  <2>1. row' = row /\ things' = things /\ lines' = lines
    BY <1>4, <1>6 DEF LeaveLoop
  <2>2. FetchTypes'
    BY <1>1, <1>2, <1>5, <2>1 DEF FetchTypes
  <2>3. /\ 1 \in 1..(d - 1) /\ d # 1 /\ 2..(d - 1) \subseteq 2..d /\ 2..(d - 1) \subseteq 1..(d - 1)
        /\ \A k \in 2..(d - 1) : k # d
        /\ 1..(d - 1) \subseteq 1..d
    BY <1>6
  <2>4. Nested'
    <3>1. stack' # <<>>
      BY <1>5, <1>6
    <3>2. stack'[1] = stack[1]
      BY <1>5, <2>3
    <3>3. Len(stack) # 1
      BY <1>4, <2>3
    <3>4. /\ stack'[1].node = Root(function) /\ ~stack'[1].more
          /\ stack'[1].at > 1 /\ stack'[1].left = 0
      BY <3>2, <3>3, <1>1, Zenon DEF Nested
    <3>5. ASSUME NEW k \in 2..Len(stack')
          PROVE  stack'[k].node \in NodesOf(function)
                 /\ (stack'[k].more => Requested(stack'[k].node))
      <4>1. k \in 2..Len(stack) /\ stack'[k] = stack[k]
        BY <1>4, <1>5, <2>3
      <4> QED BY <4>1, <1>1, Zenon DEF Nested
    <3> QED BY <3>1, <3>4, <3>5, <1>2 DEF Nested
  <2>5. Undropped'
    <3> SUFFICES ASSUME function.table = "facts", NEW k \in 2..Len(stack'),
                        stack'[k].node.onError = "fail", stack'[k].more
                 PROVE  FALSE
      BY <1>2, Zenon DEF Undropped
    <3>1. k \in 2..Len(stack) /\ stack'[k] = stack[k] /\ k # Len(stack)
      BY <1>4, <1>5, <2>3
    <3> QED BY <3>1, <1>1, Zenon DEF Undropped
  <2>6. Written'
    BY <1>1, <1>2, <2>1 DEF Written
  <2> QED BY <1>1, <2>1, <2>2, <2>4, <2>5, <2>6 DEF FetchInv
<1>7. CASE d = 1
  <2>1. RowSettled(noted, things)
    BY <1>4, <1>7 DEF LeaveLoop
  <2>2. /\ row' = (IF noted THEN "error" ELSE IF things = 0 THEN "empty" ELSE "ok")
        /\ things' = things
        /\ lines' = IF function.table = "facts" THEN lines ELSE IF noted THEN 0 ELSE things
    BY <2>1 DEF RowSettled
  <2>3. FetchTypes'
    BY <1>1, <1>2, <1>5, <2>2 DEF FetchTypes, Rows
  <2>4. CountIsOnDisk'
    BY <1>1, <1>2, <2>2 DEF CountIsOnDisk, Written, FetchTypes
  <2>5. row' # "running"
    BY <2>2
  <2> QED BY <2>3, <2>4, <2>5 DEF FetchInv
<1>8. d = 1 \/ d > 1
  OBVIOUS
<1> QED BY <1>6, <1>7, <1>8

LEMMA FetchStart == FetchInit => FetchInv
<1> SUFFICES ASSUME FetchInit PROVE FetchInv
  OBVIOUS
<1>1. /\ function \in Functions /\ stack = <<Loop(Root(function), 1, FALSE)>>
      /\ things = 0 /\ found = 0 /\ noted = FALSE /\ row = "running" /\ lines = 0
      /\ requests = 0
  BY DEF FetchInit, Root
<1>2. Loop(Root(function), 1, FALSE) \in Loops(function)
  BY DEF Loop, Loops
<1>3. FetchTypes
  <2>1. PICK loop \in Loops(function) : loop = Loop(Root(function), 1, FALSE)
    BY <1>2
  <2>2. <<loop>> \in Seq(Loops(function))
    <3> DEFINE L == Loops(function)
    <3>1. loop \in L
      BY <2>1
    <3> HIDE DEF L
    <3>2. <<loop>> \in Seq(L)
      BY <3>1
    <3> QED BY <3>2 DEF L
  <2>3. stack \in Seq(Loops(function))
    BY <1>1, <2>1, <2>2
  <2> QED BY <1>1, <2>3 DEF FetchTypes, Rows
<1>4. Nested
  BY <1>1 DEF Nested, Loop
<1>5. Undropped /\ Written
  BY <1>1 DEF Undropped, Written, Loop
<1> QED BY <1>1, <1>3, <1>4, <1>5 DEF FetchInv

LEMMA FetchStep == FetchInv /\ [FetchNext]_fetchVars => FetchInv'
<1> SUFFICES ASSUME FetchInv, [FetchNext]_fetchVars PROVE FetchInv'
  OBVIOUS
<1>1. CASE Enter
  <2>1. row = "running"
    BY <1>1 DEF Enter
  <2> QED BY <1>1, <2>1, EnterStep
<1>2. CASE Refuse
  BY <1>2, RefuseStep
<1>3. ASSUME NEW n \in 0..MaxThings, NEW again \in BOOLEAN, Answer(n, again)
      PROVE  FetchInv'
  <2>1. n \in Nat
    OBVIOUS
  <2> QED BY <1>3, <2>1, AnswerStep
<1>4. CASE LeaveLoop
  BY <1>4, LeaveStep
<1>5. CASE UNCHANGED fetchVars
  BY <1>5 DEF fetchVars, FetchInv, FetchTypes, Nested, Undropped, Written, CountIsOnDisk
<1> QED BY <1>1, <1>2, <1>3, <1>4, <1>5 DEF FetchNext, Ask

LEMMA FetchSpecInv == FetchSpec => []FetchInv
BY FetchStart, FetchStep, PTL DEF FetchSpec

LEMMA WhileRunning == FetchInv => CountIsOnDisk
BY DEF FetchInv, CountIsOnDisk

(* Whatever is answered and refused, in whatever order, the count in the   *)
(* row of a collector of facts is the number of its lines, though the      *)
(* lines are written as they come and the count is returned at the end;    *)
(* and a failed operation or probe leaves none (facts.go:runFactTask,      *)
(* scheduler.go:run, prober.go:runListFetcher).                            *)
THEOREM FetchCountsItsLines == FetchSpec => []CountIsOnDisk
BY FetchSpecInv, WhileRunning, PTL

=============================================================================
