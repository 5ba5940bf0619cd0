-------------------------- MODULE CoveragePromise --------------------------
(***************************************************************************)
(* What a collection promises about its coverage (the package comment of   *)
(* ledger.go and LedgerRow's in model.go): a unit of work is on record     *)
(* before it runs, it is settled exactly once, and the record is closed    *)
(* only when nothing on it is still open, so that a gap cannot hide.       *)
(***************************************************************************)
CONSTANT Units

VARIABLES
  phase,   \* of each unit: "unseen", then "open", then "settled"
  closed   \* whether the collection has handed its record over

vars == <<phase, closed>>

Init ==
  /\ phase = [u \in Units |-> "unseen"]
  /\ closed = FALSE

Advance(u, from, to) ==
  /\ ~closed
  /\ phase[u] = from
  /\ phase' = [phase EXCEPT ![u] = to]
  /\ UNCHANGED closed

Record(u) == Advance(u, "unseen", "open")

Settle(u) == Advance(u, "open", "settled")

Close ==
  /\ ~closed
  /\ \A u \in Units : phase[u] # "open"
  /\ closed' = TRUE
  /\ UNCHANGED phase

Next == (\E u \in Units : Record(u) \/ Settle(u)) \/ Close

Safety == Init /\ [][Next]_vars

(* A unit that is open gets settled, and the record gets closed once       *)
(* nothing is open any more; nobody promises that a unit is ever recorded. *)
Spec ==
  /\ Safety
  /\ \A u \in Units : WF_vars(Settle(u))
  /\ WF_vars(Close)

=============================================================================
