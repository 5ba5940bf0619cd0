------------------------------- MODULE Ledger -------------------------------
(***************************************************************************)
(* The coverage ledger (collectors/internal/ledger/ledger.go): one row per *)
(* task id, moved through its lifecycle by Plan, Start, Finish and         *)
(* Resumed.  Each of these runs under Ledger.mu, so each is one step of    *)
(* its caller; the operators below give the rows after the call.           *)
(*                                                                         *)
(* A row is abstracted to its Status: the scope, operation, count, reason  *)
(* and timestamps are never read back by the program's control flow.  An   *)
(* id that has no row yet has the status "absent".                         *)
(***************************************************************************)
EXTENDS Naturals, FiniteSets

Open == {"planned", "running"}
Settled == {"ok", "empty", "denied", "throttled", "error", "skipped"}
Status == {"absent"} \cup Open \cup Settled

(* The statuses NewPrior counts as done: a resumed run does not repeat     *)
(* them.  "throttled" and "error" are the retryable ones.                  *)
DoneStatus == {"ok", "empty", "denied", "skipped"}
Retryable == Settled \ DoneStatus

(* Plan registers a unit; it leaves an id that already has a row alone.    *)
Plan(rows, id) ==
  IF rows[id] = "absent" THEN [rows EXCEPT ![id] = "planned"] ELSE rows

(* Start and Finish overwrite whatever the row says, but do not create it. *)
Start(rows, id) ==
  IF rows[id] = "absent" THEN rows ELSE [rows EXCEPT ![id] = "running"]

Finish(rows, id, status) ==
  IF rows[id] = "absent" THEN rows ELSE [rows EXCEPT ![id] = status]

(* Resumed, called for each of the tasks the prior run already settled.     *)
Resumed(rows, done) == [id \in DOMAIN rows |-> IF id \in done THEN "skipped" ELSE rows[id]]

NoRows(ids) == [id \in ids |-> "absent"]

(* Faulty variants: a task skipped by a resumed run is not done for the    *)
(* next one; whatever was settled is done.                                 *)
PriorDoneAnswered(rows) == {id \in DOMAIN rows : rows[id] \in DoneStatus \ {"skipped"}}
PriorDoneSettled(rows) == {id \in DOMAIN rows : rows[id] \in Settled}

(* The task ids NewPrior indexes as done.                                  *)
PriorDone(rows) == {id \in DOMAIN rows : rows[id] \in DoneStatus}

(* No row is left planned or running (a crash marker).                     *)
IntegrityOK(rows) == \A id \in DOMAIN rows : rows[id] \notin Open

=============================================================================
