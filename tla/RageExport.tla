----------------------------- MODULE RageExport -----------------------------
(***************************************************************************)
(* The export of a scan (collectors/internal/rageexport/rageexport.go):    *)
(* the ledger's operations become evidence, facts are linked to it, edges  *)
(* to facts, and all of it is written to one file.                         *)
(*                                                                         *)
(* A record is what others refer to it by and what it refers to.  The      *)
(* content of evidence is left out, its id is what its hash is taken of;   *)
(* so are wording, the manifest and the records nothing refers to.         *)
(***************************************************************************)
EXTENDS Naturals, FiniteSets, Sequences, FiniteSetsExt

CONSTANTS
  GraphNodes,  \* the graph's nodes, in order: [id, names], names an id among them
  LastPart,    \* what follows the last "/" of a reference, for those that have one
  Ledgers,     \* the rows of coverage a scan may leave: sequences of [task, type]
  FactLists,   \* the facts it may leave: sequences of [id, kind, source, target]
  EdgePool,    \* edges the engine may write: records, the evidence of their own apart
  MaxEdges,    \* bound: how many of them it writes
  Alike        \* <<kind, type>>: one normalised name contains the other

ASSUME ExportAssumption ==
  /\ MaxEdges \in Nat
  /\ \A e \in EdgePool :
       /\ DOMAIN e = {"id", "nature", "source", "target", "facts", "from", "permissions",
                      "conditions", "inline", "evidence"}
       /\ e.evidence = {}

VARIABLES
  ops, observed, stamped,  \* what is read
  linked,                  \* the edges, those up to where it is with what they are linked to
  stage, at,               \* the loop of emit, and where it is
  evidence,                \* the evidence recorded so far
  byType,                  \* the evidence for each type of resource
  backing,                 \* the evidence of each fact
  between,                 \* the facts from one node to another
  receipts, lines          \* evidence written, and the edge written for each id

exportVars == <<ops, observed, stamped, linked, stage, at, evidence, byType, backing, between,
                receipts, lines>>

FactIds == {observed[n].id : n \in DOMAIN observed}
Types == UNION {{l[n].type : n \in DOMAIN l} : l \in Ledgers}

(* The engine stamps an edge with facts of the bundle that is exported.    *)
ExportInit ==
  /\ ops \in Ledgers /\ observed \in FactLists
  /\ stamped \in {es \in UNION {[1..n -> EdgePool] : n \in 0..MaxEdges} :
                 \A n \in DOMAIN es : es[n].facts \subseteq FactIds}
  /\ linked = stamped /\ stage = "ledger" /\ at = 1
  /\ evidence = {} /\ byType = [t \in Types |-> {}]
  /\ backing = [f \in FactIds |-> {}] /\ between = <<>>
  /\ receipts = {} /\ lines = <<>>

(* A reference is one of the names of a node, the last one that has it, or *)
(* ends in one; else it stays as it is.                                    *)
NamedNodes(ref) == {n \in DOMAIN GraphNodes : ref \in GraphNodes[n].names}
ResolveRef(ref) ==
  IF NamedNodes(ref) # {} THEN GraphNodes[Max(NamedNodes(ref))].id
  ELSE IF ref \in DOMAIN LastPart /\ NamedNodes(LastPart[ref]) # {}
       THEN GraphNodes[Max(NamedNodes(LastPart[ref]))].id
       ELSE ref

Walking(loop, list) == stage = loop /\ at \in DOMAIN list /\ at' = at + 1 /\ UNCHANGED stage
After(loop, list, nextLoop) == stage = loop /\ at > Len(list) /\ stage' = nextLoop /\ at' = 1

Receipt(op) == <<"operation", op.task>>

ReadOperation ==
  /\ Walking("ledger", ops)
  /\ evidence' = evidence \cup {Receipt(ops[at])}
  /\ byType' = [byType EXCEPT ![ops[at].type] = @ \cup {Receipt(ops[at])}]
  /\ UNCHANGED <<ops, observed, stamped, linked, backing, between, receipts, lines>>

-----------------------------------------------------------------------------
(* Facts: any operation of a type alike is evidence.                       *)

Backing(f) == UNION {byType[t] : t \in {u \in Types : <<f.kind, u>> \in Alike}}
FactsBetween(source, target) ==
  IF <<source, target>> \in DOMAIN between THEN between[<<source, target>>] ELSE {}

LinkFact ==
  LET f == observed[at]
      ends == <<ResolveRef(f.source), ResolveRef(f.target)>> IN
  /\ Walking("facts", observed)
  /\ backing' = [backing EXCEPT ![f.id] = Backing(f)]
  /\ between' = [p \in DOMAIN between \cup {ends} |->
                   FactsBetween(p[1], p[2]) \cup IF p = ends THEN {f.id} ELSE {}]
  /\ UNCHANGED <<ops, observed, stamped, linked, evidence, byType, receipts, lines>>

-----------------------------------------------------------------------------
(* Edges.                                                                  *)

EdgeIds == {stamped[n].id : n \in DOMAIN stamped}
LastRecord(id) == linked[Max({n \in DOMAIN stamped : stamped[n].id = id})]

(* What an edge is derived from, as far as no facts are on the way: the    *)
(* smallest set of edges that has it and, for each of its own without      *)
(* facts, those that one is derived from.                                  *)
DerivedFrom(id) == IF LastRecord(id).facts = {} THEN LastRecord(id).from \cap EdgeIds ELSE {}

StandsOn(id) ==
  {d \in EdgeIds : \A ids \in SUBSET EdgeIds :
                    (id \in ids /\ \A e \in ids : DerivedFrom(e) \subseteq ids) => d \in ids}

(* The facts stamped on it, or those it follows from, or any between the   *)
(* same two nodes.                                                         *)
FactsOf(e) ==
  LET derived == UNION {LastRecord(d).facts : d \in StandsOn(e.id)} IN
  IF e.facts # {} THEN e.facts
  ELSE IF derived # {} THEN derived
  ELSE FactsBetween(e.source, e.target)

Synthetic(e) ==
  IF e.inline # "none" THEN <<"inline", e.inline>> ELSE <<"rule", e.source, e.target, e.from>>

(* A faulty variant: evidence made up for an edge is not recorded.         *)
LinkEdgeUnrecorded ==
  LET e == stamped[at]
      known == UNION {backing[f] : f \in FactsOf(e) \cap FactIds}
      made == IF known = {} /\ (e.nature = "derived" \/ e.inline # "none")
              THEN {Synthetic(e)} ELSE {} IN
  /\ Walking("edges", stamped)
  /\ linked' = [linked EXCEPT ![at].facts = FactsOf(e), ![at].evidence = known \cup made]
  /\ UNCHANGED <<ops, observed, stamped, evidence, byType, backing, between, receipts, lines>>

(* The evidence of its facts, or what comes with a derived or explained    *)
(* edge itself.                                                            *)
LinkEdge ==
  LET e == stamped[at]
      known == UNION {backing[f] : f \in FactsOf(e) \cap FactIds}
      made == IF known = {} /\ (e.nature = "derived" \/ e.inline # "none")
              THEN {Synthetic(e)} ELSE {} IN
  /\ Walking("edges", stamped)
  /\ linked' = [linked EXCEPT ![at].facts = FactsOf(e), ![at].evidence = known \cup made]
  /\ evidence' = evidence \cup made
  /\ UNCHANGED <<ops, observed, stamped, byType, backing, between, receipts, lines>>

-----------------------------------------------------------------------------
(* The lines.  Evidence is written once the edges have made theirs up.     *)

NextLoop ==
  /\ \/ After("ledger", ops, "facts") \/ After("facts", observed, "edges")
     \/ After("write", stamped, "done")
  /\ UNCHANGED <<ops, observed, stamped, linked, evidence, byType, backing, between, receipts,
                 lines>>

WriteEvidence ==
  /\ After("edges", stamped, "write")
  /\ receipts' = evidence
  /\ UNCHANGED <<ops, observed, stamped, linked, evidence, byType, backing, between, lines>>

(* A faulty variant: the later of two edges of one id is left out.         *)
WriteEdgeFirst ==
  /\ Walking("write", stamped)
  /\ lines' = [id \in DOMAIN lines \cup {stamped[at].id} |->
                 IF id \in DOMAIN lines THEN lines[id] ELSE linked[at]]
  /\ UNCHANGED <<ops, observed, stamped, linked, evidence, byType, backing, between, receipts>>

Enriched(line, e) ==
  [line EXCEPT !.permissions = @ \cup e.permissions, !.conditions = @ \cup e.conditions,
               !.facts = @ \cup e.facts]

(* Edges of one id are one line: the first, with what the others have in   *)
(* permissions, conditions and facts.                                      *)
WriteEdge ==
  LET e == linked[at] IN
  /\ Walking("write", stamped)
  /\ lines' = [id \in DOMAIN lines \cup {e.id} |->
                 IF id # e.id THEN lines[id]
                 ELSE IF id \in DOMAIN lines THEN Enriched(lines[id], e) ELSE e]
  /\ UNCHANGED <<ops, observed, stamped, linked, evidence, byType, backing, between, receipts>>

ExportNext ==
  \/ ReadOperation \/ LinkFact \/ LinkEdge \/ NextLoop \/ WriteEvidence \/ WriteEdge

ExportSpec == ExportInit /\ [][ExportNext]_exportVars

-----------------------------------------------------------------------------
(* Properties.                                                             *)

(* What a line refers to is a line: the facts and the evidence of an edge  *)
(* and the evidence of a fact; and "the derived => evidence rule always    *)
(* holds", whatever is linked to what and in which order (emit).           *)
ReferencesResolve ==
  stage = "done" =>
    /\ \A e \in DOMAIN lines :
         /\ lines[e].facts \subseteq FactIds /\ lines[e].evidence \subseteq receipts
         /\ lines[e].nature = "derived" => lines[e].evidence # {}
    /\ \A f \in FactIds : backing[f] \subseteq receipts

(* No edge the engine found is lost where several have one id: the line    *)
(* has the permissions, the conditions and the facts of each of them; and  *)
(* an edge without facts of its own has those of the edges it is derived   *)
(* from, listed before or after it (emit, resolveFacts).  Of several edges *)
(* with one id the last one counts there.                                  *)
LastOfId(n) == \A m \in DOMAIN stamped : stamped[m].id = stamped[n].id => m <= n

MergeLosesNothing ==
  stage = "done" =>
    \A n \in DOMAIN stamped :
      LET e == stamped[n] IN
      /\ e.id \in DOMAIN lines
      /\ e.permissions \subseteq lines[e.id].permissions
      /\ e.conditions \subseteq lines[e.id].conditions
      /\ e.facts \subseteq lines[e.id].facts
      /\ e.facts = {} /\ LastOfId(n) =>
           \A m \in DOMAIN stamped :
             stamped[m].id \in e.from /\ LastOfId(m) => stamped[m].facts \subseteq lines[e.id].facts


=============================================================================
