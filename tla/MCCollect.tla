----------------------------- MODULE MCCollect -----------------------------
(* Instances of Collect: a plain seed, a chained seed and its detail calls. *)
EXTENDS Collect

TwoSeeds == {"plain", "chain"}
OneDetail == {"chain/d1"}
TwoDetails == {"chain/d1", "chain/d2"}
(* Detail ids sort before their seed's: GetFunction, ListFunctions.        *)
Sorted == [id \in Ids |-> CASE id \in Details -> IF id = "chain/d1" THEN 1 ELSE 2
                            [] id = "chain" -> 3 [] id = "plain" -> 5 [] OTHER -> 4]
OfChain == [d \in Details |-> "chain"]
=============================================================================
