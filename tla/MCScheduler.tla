---------------------------- MODULE MCScheduler ----------------------------
(***************************************************************************)
(* Instances of Scheduler.  A task is named by its path: <<s>> is a seed,  *)
(* and k appended to a path is the task that record k of that call starts. *)
(***************************************************************************)
EXTENDS Scheduler, Sequences

Plain == <<"plain">>   \* a resource without detail calls
Chain == <<"chain">>   \* a resource with two (lambda)

TwoSeeds == {Plain, Chain}
Items == {<<"chain", k>> : k \in 1..2}
Blobs == {<<"chain", k, 1>> : k \in 1..2}

(* lambda:ListFunctions, then GetFunction of each function, which returns  *)
(* one record, then http:GetBlob of its code; beside it a plain resource.  *)
(* The chain has three tasks; the runs have two slots for it.              *)
TwoStepTasks == TwoSeeds \cup Items \cup Blobs
TwoStepLeaf == {Plain} \cup Blobs
TwoStepRecs == [t \in TwoStepTasks |-> IF t = Chain THEN 2 ELSE 1]

PathChild == [x \in Slots |-> Append(x[1], x[2])]

(* A task id of its own for each task.                                     *)
OwnRow == [t \in Tasks |-> t]

(* The records have none of the fields idOf looks for: every detail call   *)
(* of one step has the same id.                                            *)
SharedRow == [t \in Tasks |-> <<t[1], Len(t)>>]
=============================================================================
