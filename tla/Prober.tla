------------------------------- MODULE Prober -------------------------------
(***************************************************************************)
(* The exposure prober (collectors/internal/exposure/prober.go) and the    *)
(* provider's table of fetchers (providers/aws/exposure.go): the sites of  *)
(* the catalog are probed by a bounded number of goroutines, which share   *)
(* one cache of API responses, one summary and the ledger.                 *)
(*                                                                         *)
(* A response is what the site makes of it: an error of some class, or     *)
(* values of which the detector keeps some.  The catalog, the inventory    *)
(* (complete and unchanging by now) and the regions are constants.         *)
(***************************************************************************)
EXTENDS Ledger, Sequences

CONSTANTS
  Catalog,      \* the sites, in order: [id, service, mode, operation]
  Registered,   \* the fetchers in the order of init(): [operation, service, listing]
  Inventory,    \* the collected items of each service, in the order of its shard
  Regions,      \* the collectable regions, in order
  MaxHits,      \* bound: the values of one response a site keeps
  Failures,     \* the classes of error the provider's Classifier reports
  Concurrency   \* capacity of the semaphore

ASSUME CatalogAssumption ==
  /\ Catalog \in Seq([id : STRING, service : STRING, mode : STRING, operation : STRING])
  /\ Registered \in Seq([operation : STRING, service : STRING, listing : BOOLEAN])
  /\ \A i \in DOMAIN Registered : Registered[i].service \in DOMAIN Inventory
  /\ \A s \in DOMAIN Inventory : Inventory[s] \in Seq(STRING)
  /\ Regions \in Seq(STRING)

ASSUME BoundsAssumption ==
  /\ MaxHits \in Nat /\ Concurrency \in Nat \ {0}
  /\ Failures \subseteq {"denied", "throttled", "error"}

Sites == DOMAIN Catalog
RowIds == {Catalog[i].id : i \in Sites}
Answers == {"ok"} \cup Failures

(* registerFetcher and registerListFetcher store by operation alone: of    *)
(* several registrations the last one stands.                              *)
Fetchers(operation, listing) ==
  LET named == {j \in DOMAIN Registered : Registered[j].operation = operation
                                          /\ Registered[j].listing = listing} IN
  {Registered[j] : j \in {k \in named : \A l \in named : l <= k}}

Surface(i) == Catalog[i].mode # "read_api"
ItemFetcher(i) == Fetchers(Catalog[i].operation, FALSE)
ListFetcher(i) == Fetchers(Catalog[i].operation, TRUE)

Probing == {i \in Sites : ~Surface(i) /\ ItemFetcher(i) \cup ListFetcher(i) # {}}

(* The fetcher a site is probed with: an inventory fetcher goes first.     *)
Fetcher == [i \in Probing |->
  CHOOSE f \in IF ItemFetcher(i) # {} THEN ItemFetcher(i) ELSE ListFetcher(i) : TRUE]

Targets == [i \in Probing |->
  IF Fetcher[i].listing THEN Regions ELSE Inventory[Fetcher[i].service]]

KeysOf == [i \in Probing |-> [n \in DOMAIN Targets[i] |->
  <<Catalog[i].operation, Fetcher[i].listing, Targets[i][n]>>]]

Keys == UNION {{KeysOf[i][n] : n \in DOMAIN Targets[i]} : i \in Probing}

-----------------------------------------------------------------------------

VARIABLES
  spawned,   \* sites the loop of Run has started
  pc,        \* where each site's goroutine is
  next,      \* the target each site is at
  got,       \* the answer a site holds and has not yet stored
  hits,      \* hit lines each site has appended
  failed,    \* the last error each site has met, "none" before
  rows,      \* the ledger
  cache,     \* the answer stored for each key, "none" before
  sum,       \* the Summary
  sitesDone, \* the live counter
  sem,       \* tokens in the semaphore channel
  returned,  \* whether Run has returned
  calls,     \* history: the API calls made for each key
  given      \* history: the answers the API gave for each key

vars == <<spawned, pc, next, got, hits, failed, rows, cache, sum, sitesDone, sem,
          returned, calls, given>>

Fields == {"ReadAPI", "Surfaces", "Probed", "Hits", "SkippedNoProbe",
           "SkippedNoInventory", "Denied", "Errored"}

Init ==
  /\ spawned = 0
  /\ pc = [i \in Sites |-> "idle"] /\ next = [i \in Sites |-> 1]
  /\ got = [i \in Sites |-> "none"] /\ hits = [i \in Sites |-> 0]
  /\ failed = [i \in Sites |-> "none"]
  /\ rows = NoRows(RowIds)
  /\ cache = [k \in Keys |-> "none"]
  /\ sum = [f \in Fields |-> 0] /\ sitesDone = 0
  /\ sem = 0 /\ returned = FALSE
  /\ calls = [k \in Keys |-> 0] /\ given = [k \in Keys |-> {}]

Goto(i, from, to) == pc[i] = from /\ pc' = [pc EXCEPT ![i] = to]

(* A faulty variant: the loop does not wait for a slot.                    *)
SpawnUnbounded ==
  /\ spawned < Len(Catalog)
  /\ spawned' = spawned + 1 /\ sem' = sem + 1
  /\ Goto(spawned + 1, "idle", "plan")
  /\ UNCHANGED <<next, got, hits, failed, rows, cache, sum, sitesDone, returned, calls, given>>

(* Run's loop: wg.Add(1), a slot, the goroutine.                           *)
Spawn ==
  /\ spawned < Len(Catalog) /\ sem < Concurrency
  /\ spawned' = spawned + 1 /\ sem' = sem + 1
  /\ Goto(spawned + 1, "idle", "plan")
  /\ UNCHANGED <<next, got, hits, failed, rows, cache, sum, sitesDone, returned, calls, given>>

Return ==
  /\ ~returned /\ spawned = Len(Catalog)
  /\ \A i \in Sites : pc[i] = "done"
  /\ returned' = TRUE
  /\ UNCHANGED <<spawned, pc, next, got, hits, failed, rows, cache, sum, sitesDone, sem,
                 calls, given>>

Count(fs) == sum' = [f \in Fields |-> IF f \in fs THEN sum[f] + 1 ELSE sum[f]]

(* A site that is not probed: a surface, which is only recorded, a site    *)
(* without a fetcher, or one whose fetcher has no items.                   *)
Skip(i) ==
  /\ Goto(i, "plan", "leave")
  /\ \/ Surface(i) /\ Count({"Surfaces"})
     \/ ~Surface(i) /\ i \notin Probing /\ Count({"ReadAPI", "SkippedNoProbe"})
     \/ /\ i \in Probing /\ ~Fetcher[i].listing /\ Targets[i] = <<>>
        /\ Count({"ReadAPI", "SkippedNoInventory"})
  /\ rows' = Finish(Plan(rows, Catalog[i].id), Catalog[i].id, "skipped")
  /\ UNCHANGED <<spawned, next, got, hits, failed, cache, sitesDone, sem, returned, calls, given>>

Begin(i) ==
  /\ i \in Probing /\ (Fetcher[i].listing \/ Targets[i] # <<>>)
  /\ Goto(i, "plan", "look")
  /\ Count({"ReadAPI"})
  /\ rows' = Start(Plan(rows, Catalog[i].id), Catalog[i].id)
  /\ UNCHANGED <<spawned, next, got, hits, failed, cache, sitesDone, sem, returned, calls, given>>

-----------------------------------------------------------------------------
(* cachedFetch, cachedListFetch: the lock is not held during the call.     *)

AtTarget(i) == next[i] <= Len(Targets[i])
Key(i) == KeysOf[i][next[i]]

(* What a site does with an answer: errors are remembered, hits appended.  *)
Use(i, answer) ==
  /\ IF answer = "ok"
     THEN /\ \E n \in 0..MaxHits : hits' = [hits EXCEPT ![i] = @ + n]
          /\ UNCHANGED failed
     ELSE failed' = [failed EXCEPT ![i] = answer] /\ UNCHANGED hits
  /\ next' = [next EXCEPT ![i] = @ + 1]

UseCached(i) ==
  /\ pc[i] = "look" /\ AtTarget(i)
  /\ cache[Key(i)] # "none"
  /\ Use(i, cache[Key(i)])
  /\ UNCHANGED <<spawned, pc, got, rows, cache, sum, sitesDone, sem, returned, calls, given>>

Miss(i) ==
  /\ Goto(i, "look", "fetch") /\ AtTarget(i)
  /\ cache[Key(i)] = "none"
  /\ calls' = [calls EXCEPT ![Key(i)] = @ + 1]
  /\ UNCHANGED <<spawned, next, got, hits, failed, rows, cache, sum, sitesDone, sem, returned,
                 given>>

Fetch(i) ==
  /\ Goto(i, "fetch", "store")
  /\ \E answer \in Answers :
       /\ got' = [got EXCEPT ![i] = answer]
       /\ given' = [given EXCEPT ![Key(i)] = @ \cup {answer}]
  /\ UNCHANGED <<spawned, next, hits, failed, rows, cache, sum, sitesDone, sem, returned, calls>>

(* Faulty variants: the response and its error are stored under two locks  *)
(* (the site stays at "store" in between); errors are not stored.          *)
StoreInTwoSteps(i) ==
  LET key == Key(i) IN
  /\ pc[i] = "store"
  /\ IF got[i] # "ok" /\ cache[key] = "none"
     THEN /\ cache' = [cache EXCEPT ![key] = "ok"]
          /\ UNCHANGED <<pc, got, hits, failed, next>>
     ELSE /\ Goto(i, "store", "look")
          /\ cache' = [cache EXCEPT ![key] = got[i]]
          /\ got' = [got EXCEPT ![i] = "none"]
          /\ Use(i, got[i])
  /\ UNCHANGED <<spawned, rows, sum, sitesDone, sem, returned, calls, given>>

StoreUnlessFailed(i) ==
  /\ Goto(i, "store", "look")
  /\ cache' = [cache EXCEPT ![Key(i)] = IF got[i] = "ok" THEN "ok" ELSE @]
  /\ got' = [got EXCEPT ![i] = "none"]
  /\ Use(i, got[i])
  /\ UNCHANGED <<spawned, rows, sum, sitesDone, sem, returned, calls, given>>

(* The later of two redundant calls replaces what the earlier one stored;  *)
(* each site goes on with its own.                                         *)
Store(i) ==
  /\ Goto(i, "store", "look")
  /\ cache' = [cache EXCEPT ![Key(i)] = got[i]]
  /\ got' = [got EXCEPT ![i] = "none"]
  /\ Use(i, got[i])
  /\ UNCHANGED <<spawned, rows, sum, sitesDone, sem, returned, calls, given>>

-----------------------------------------------------------------------------
(* The end of a site.                                                      *)

(* An error counts only if nothing was found.                              *)
Outcome(i) ==
  IF hits[i] > 0 THEN "ok" ELSE IF failed[i] # "none" THEN failed[i] ELSE "empty"

(* A faulty variant: hits found beside an error are not counted.           *)
SettleFailedFirst(i) ==
  /\ Goto(i, "look", "leave") /\ ~AtTarget(i)
  /\ sum' = [sum EXCEPT !["Probed"] = @ + 1,
                        !["Denied"] = IF failed[i] = "denied" THEN @ + 1 ELSE @,
                        !["Errored"] = IF failed[i] = "error" THEN @ + 1 ELSE @,
                        !["Hits"] = IF failed[i] = "none" THEN @ + hits[i] ELSE @]
  /\ rows' = Finish(rows, Catalog[i].id, Outcome(i))
  /\ UNCHANGED <<spawned, next, got, hits, failed, cache, sitesDone, sem, returned, calls, given>>

Settle(i) ==
  /\ Goto(i, "look", "leave") /\ ~AtTarget(i)
  /\ sum' = [sum EXCEPT !["Probed"] = @ + 1,
                        !["Denied"] = IF Outcome(i) = "denied" THEN @ + 1 ELSE @,
                        !["Errored"] = IF Outcome(i) = "error" THEN @ + 1 ELSE @,
                        !["Hits"] = @ + hits[i]]
  /\ rows' = Finish(rows, Catalog[i].id, Outcome(i))
  /\ UNCHANGED <<spawned, next, got, hits, failed, cache, sitesDone, sem, returned, calls, given>>

(* A faulty variant: the slot of a failed site is not given back.          *)
LeaveUnlessFailed(i) ==
  /\ Goto(i, "leave", "done")
  /\ sitesDone' = sitesDone + 1
  /\ sem' = IF failed[i] = "none" THEN sem - 1 ELSE sem
  /\ UNCHANGED <<spawned, next, got, hits, failed, rows, cache, sum, returned, calls, given>>

(* The deferred calls; wg.Done() is the last of them.                      *)
Leave(i) ==
  /\ Goto(i, "leave", "done")
  /\ sitesDone' = sitesDone + 1 /\ sem' = sem - 1
  /\ UNCHANGED <<spawned, next, got, hits, failed, rows, cache, sum, returned, calls, given>>

Step(i) ==
  \/ Skip(i) \/ Begin(i) \/ UseCached(i) \/ Miss(i) \/ Fetch(i) \/ Store(i)
  \/ Settle(i) \/ Leave(i)

Next == Spawn \/ Return \/ \E i \in Sites : Step(i)

Spec == Init /\ [][Next]_vars

-----------------------------------------------------------------------------
(* Properties.                                                             *)

TypeOK ==
  /\ spawned \in 0..Len(Catalog) /\ sem \in 0..Concurrency
  /\ pc \in [Sites -> {"idle", "plan", "look", "fetch", "store", "leave", "done"}]
  /\ next \in [Sites -> Nat] /\ hits \in [Sites -> Nat]
  /\ got \in [Sites -> Answers \cup {"none"}] /\ failed \in [Sites -> Failures \cup {"none"}]
  /\ rows \in [RowIds -> Status]
  /\ cache \in [Keys -> Answers \cup {"none"}]
  /\ sum \in [Fields -> Nat] /\ sitesDone \in Nat /\ returned \in BOOLEAN
  /\ calls \in [Keys -> Nat] /\ given \in [Keys -> SUBSET Answers]

(* The lines in the shard of the hits, those of each site numbered.        *)
HitLines == UNION {{i} \X (1..hits[i]) : i \in Sites}

(* The summary "reconciles a prober run against the whole catalog": every  *)
(* site is counted once on its way through, and the hits it reports are    *)
(* the lines appended, also those of sites that met an error (Run,         *)
(* probeSite, runListFetcher).                                             *)
Reconciled ==
  returned =>
    /\ sum["ReadAPI"] + sum["Surfaces"] = Len(Catalog) /\ sitesDone = Len(Catalog)
    /\ sum["Probed"] + sum["SkippedNoProbe"] + sum["SkippedNoInventory"] = sum["ReadAPI"]
    /\ sum["Denied"] + sum["Errored"] <= sum["Probed"]
    /\ sum["Hits"] = Cardinality(HitLines)

(* The row of a site, where no other site has its id, is backed by answers *)
(* the API gave for this site's own targets: "ok" by a line on disk, an    *)
(* error by that error, and "empty" by a good answer for every one of them *)
(* - whoever fetched it, and however the calls of several sites overlap.   *)
(* No row is left open, whatever ids collide (probeSite, cachedFetch).     *)
CoverageIsHonest ==
  returned =>
    /\ IntegrityOK(rows)
    /\ \A i \in Sites : (\A j \in Sites : Catalog[j].id = Catalog[i].id => j = i) =>
         LET row == rows[Catalog[i].id] IN
         /\ row = "ok" <=> hits[i] > 0
         /\ row = "empty" =>
              i \in Probing /\ \A n \in DOMAIN Targets[i] : "ok" \in given[KeysOf[i][n]]
         /\ row \in Failures => \E n \in DOMAIN Targets[i] : row \in given[KeysOf[i][n]]
         /\ row = "skipped" => i \notin Probing \/ Targets[i] = <<>>

(* The response for one target is fetched once, "redundantly under rare    *)
(* races": never more often than there are slots, however many sites read  *)
(* it and whether the call fails or not (cachedFetch, cachedListFetch).    *)
CallsBounded == \A k \in Keys : calls[k] <= Concurrency

(* What each probe file says of the site it serves (probe_eks.go:          *)
(* "Exposure probe: ... (DescribeCluster -> ...)"): a site whose service   *)
(* has a fetcher registered for its operation, and items to fetch, is      *)
(* probed.                                                                 *)
ProbedWhereRegistered ==
  \A i \in Sites :
    /\ pc[i] = "done" /\ ~Surface(i) /\ Inventory[Catalog[i].service] # <<>>
    /\ \E j \in DOMAIN Registered : /\ Registered[j].operation = Catalog[i].operation
                                     /\ Registered[j].service = Catalog[i].service
                                     /\ ~Registered[j].listing
    => rows[Catalog[i].id] # "skipped"

=============================================================================
