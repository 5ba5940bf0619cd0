------------------------------ MODULE PathGraph ------------------------------
(***************************************************************************)
(* The queryable graph (engine/internal/graph/graph.go): New indexes the   *)
(* edges by their ids and by the nodes they leave and enter, ShortestPath  *)
(* is Dijkstra's algorithm over the index, Reaches and ReachedBy search it *)
(* breadth first.                                                          *)
(*                                                                         *)
(* Weights are counted in halves.  The queue gives one of the cheapest     *)
(* items, which one the heap decides.                                      *)
(***************************************************************************)
EXTENDS Naturals, Sequences, FiniteSets, SequencesExt

CONSTANT Inputs  \* what New may be given: sequences of edges [id, state, weight]

ASSUME PathAssumption ==
  \A list \in Inputs : /\ Len(list) \in Nat /\ DOMAIN list = 1..Len(list)
                       /\ \A i \in DOMAIN list : list[i].weight \in Nat

VARIABLES
  indexed,  \* the edges New is given
  query,    \* the query: [kind, from, to, conditional]
  queue,    \* ShortestPath: the items of the priority queue, <<cost, node>>
  fifo,     \* the searches: the nodes to go on from
  dist,     \* ShortestPath: the cost of the nodes seen
  prev,     \* ShortestPath: the edge by which they were
  visited,  \* ShortestPath: the nodes done; the searches: those seen
  path,     \* ShortestPath: the path, read backwards from its end
  step      \* what the query is at

pathVars == <<indexed, query, queue, fifo, dist, prev, visited, path, step>>

Nil == <<"nil">>

(* Two edges may have one id: the record is the last one's.                *)
Ids == {indexed[i].id : i \in DOMAIN indexed}
RecordOf(id) ==
  indexed[CHOOSE i \in DOMAIN indexed :
            indexed[i].id = id /\ \A j \in DOMAIN indexed : indexed[j].id = id => j <= i]

(* What is listed at a node, in the order of the edges: the id of any that *)
(* may be taken.                                                           *)
Listed == {i \in DOMAIN indexed : query.conditional \/ indexed[i].state = "ACTIVE"}
From(i) == indexed[i].id.source
To(i) == indexed[i].id.target
Out(n) == {i \in Listed : From(i) = n}
In(n) == {i \in Listed : To(i) = n}

Weight(id) == IF RecordOf(id).weight = 0 THEN 2 ELSE RecordOf(id).weight

Ends == {x.source : x \in Ids} \cup {x.target : x \in Ids}

-----------------------------------------------------------------------------

PathInit ==
  /\ indexed \in Inputs
  /\ query = Nil /\ queue = {} /\ fifo = << >> /\ visited = {} /\ path = << >>
  /\ dist = [n \in {} |-> 0] /\ prev = [n \in {} |-> Nil]
  /\ step = "idle"

Ask(kind, from, to, conditional) ==
  /\ step = "idle"
  /\ query' = [kind |-> kind, from |-> from, to |-> to, conditional |-> conditional]
  /\ dist' = [n \in {from} |-> 0]
  /\ IF kind = "path" THEN queue' = {<<0, from>>} /\ UNCHANGED <<fifo, visited>>
                      ELSE fifo' = << from >> /\ visited' = {from} /\ UNCHANGED queue
  /\ step' = "search"
  /\ UNCHANGED <<indexed, prev, path>>

(* The edges out of n that lower the cost of their target, one after the   *)
(* other: each is cheaper than what was known and than those before it.    *)
(* A faulty variant: the cost a node was first given is kept.              *)
LoweringOnce(n, cost) == {i \in Out(n) : To(i) \notin DOMAIN dist}

Lowering(n, cost) ==
  {i \in Out(n) :
     /\ To(i) \in DOMAIN dist => cost + Weight(indexed[i].id) < dist[To(i)]
     /\ \A j \in Out(n) :
          j < i /\ To(j) = To(i) => Weight(indexed[i].id) < Weight(indexed[j].id)}

(* The last of them to each node is how it is reached.                     *)
LastTo(edges) ==
  [t \in {To(i) : i \in edges} |->
     indexed[CHOOSE i \in edges : To(i) = t /\ \A j \in edges : To(j) = t => j <= i].id]

Updated(f, new) ==
  [x \in DOMAIN f \cup DOMAIN new |-> IF x \in DOMAIN new THEN new[x] ELSE f[x]]

(* One of the cheapest items; a node is gone on from the first time.       *)
Pop ==
  /\ step = "search" /\ query.kind = "path"
  /\ \E item \in {x \in queue : \A y \in queue : x[1] <= y[1]} :
       LET cost == item[1]
           n == item[2]
           lowering == Lowering(n, cost)
           by == LastTo(lowering)
       IN  IF n \in visited
           THEN queue' = queue \ {item} /\ UNCHANGED <<visited, dist, prev, step>>
           ELSE /\ visited' = visited \cup {n}
                /\ IF n = query.to
                   THEN step' = "unwind" /\ UNCHANGED <<queue, dist, prev>>
                   ELSE /\ dist' = Updated(dist, [t \in DOMAIN by |-> cost + Weight(by[t])])
                        /\ prev' = Updated(prev, by)
                        /\ queue' = (queue \ {item}) \cup
                                    {<<cost + Weight(indexed[i].id), To(i)>> : i \in lowering}
                        /\ UNCHANGED step
  /\ UNCHANGED <<indexed, query, fifo, path>>

Exhausted ==
  /\ step = "search" /\ query.kind = "path" /\ queue = {}
  /\ step' = IF query.to \in DOMAIN dist THEN "unwind" ELSE "unreachable"
  /\ UNCHANGED <<indexed, query, queue, fifo, dist, prev, visited, path>>

(* Back from the end, edge by edge.                                        *)
Unwind ==
  /\ step = "unwind"
  /\ LET at == IF path = << >> THEN query.to ELSE Head(path).source IN
     IF at = query.from THEN step' = "answered" /\ UNCHANGED path
     ELSE IF at \notin DOMAIN prev THEN step' = "unreachable" /\ UNCHANGED path
     ELSE path' = << prev[at] >> \o path /\ UNCHANGED step
  /\ UNCHANGED <<indexed, query, queue, fifo, dist, prev, visited>>

(* Reaches goes forward, ReachedBy backward.                               *)
Neighbours(n) ==
  IF query.kind = "reaches" THEN {To(i) : i \in Out(n)} ELSE {From(i) : i \in In(n)}

(* A faulty variant: a search that goes one edge far.                      *)
VisitOnce ==
  /\ step = "search" /\ query.kind # "path" /\ fifo # << >>
  /\ visited' = visited \cup Neighbours(Head(fifo)) /\ fifo' = Tail(fifo)
  /\ UNCHANGED <<indexed, query, queue, dist, prev, path, step>>

(* What is new goes to the end of the queue, in an order of its own.       *)
Visit ==
  /\ step = "search" /\ query.kind # "path" /\ fifo # << >>
  /\ LET new == Neighbours(Head(fifo)) \ visited IN
       /\ visited' = visited \cup new
       /\ fifo' = Tail(fifo) \o SetToSeq(new)
  /\ UNCHANGED <<indexed, query, queue, dist, prev, path, step>>

Searched ==
  /\ step = "search" /\ query.kind # "path" /\ fifo = << >>
  /\ step' = "answered"
  /\ UNCHANGED <<indexed, query, queue, fifo, dist, prev, visited, path>>

PathNext ==
  \/ \E from, to \in Ends, conditional \in BOOLEAN : Ask("path", from, to, conditional)
  \/ \E kind \in {"reaches", "reachedBy"}, from \in Ends, conditional \in BOOLEAN :
       Ask(kind, from, from, conditional)
  \/ Pop \/ Exhausted \/ Unwind \/ Visit \/ Searched

PathSpec == PathInit /\ [][PathNext]_pathVars

-----------------------------------------------------------------------------
(* Properties, against the walks of the graph.                             *)

Takeable == {indexed[i].id : i \in Listed}

(* Edges that may be taken, each from where the one before it leads.       *)
Linked(w) == \A k \in 1..(Len(w) - 1) : w[k].target = w[k + 1].source
IsWalk(w, a, b) ==
  /\ w \in Seq(Takeable) /\ w # << >> /\ Linked(w)
  /\ w[1].source = a /\ w[Len(w)].target = b

(* The walks from a node, up to the length it takes to visit every node.   *)
WalksFrom(a) ==
  LET upTo[k \in 1..Cardinality(Ends)] ==
        IF k = 1 THEN {<< id >> : id \in {x \in Takeable : x.source = a}}
        ELSE upTo[k - 1] \cup
             {Append(wi[1], wi[2]) : wi \in
                {x \in upTo[k - 1] \X Takeable : x[1][Len(x[1])].target = x[2].source}}
  IN  upTo[Cardinality(Ends)]

WalksBetween(a, b) == {w \in WalksFrom(a) : w[Len(w)].target = b}

Cost(w) == LET upTo[k \in 0..Len(w)] == IF k = 0 THEN 0 ELSE upTo[k - 1] + Weight(w[k])
           IN  upTo[Len(w)]

(* The answer to a path query is a walk from the one node to the other, of *)
(* no walk the cost is lower, and it is "unreachable" if there is none     *)
(* (ShortestPath).                                                         *)
ShortestPathIsLeast ==
  step \in {"answered", "unreachable"} /\ query.kind = "path" =>
    LET walks == WalksBetween(query.from, query.to) IN
    IF step = "unreachable" THEN query.from # query.to /\ walks = {}
    ELSE IF query.from = query.to THEN path = << >> /\ dist[query.to] = 0
    ELSE /\ IsWalk(path, query.from, query.to) /\ Cost(path) = dist[query.to]
         /\ \A w \in walks : Cost(path) <= Cost(w)

(* The nodes no set can leave out that has the given one and, with a node, *)
(* those one edge on.                                                      *)
Closure(n, forward) ==
  {m \in Ends : \A nodes \in SUBSET Ends :
     (/\ n \in nodes
      /\ \A id \in Takeable : IF forward THEN id.source \in nodes => id.target \in nodes
                              ELSE id.target \in nodes => id.source \in nodes)
       => m \in nodes}

(* What Reaches and ReachedBy find is what edges lead to, or from where    *)
(* they lead to the node, however many it takes, and nothing else.         *)
ReachesIsClosure ==
  step = "answered" /\ query.kind # "path" =>
    visited = Closure(query.from, query.kind = "reaches")

=============================================================================
