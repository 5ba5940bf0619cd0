---------------------------- MODULE DeriveProofs ----------------------------
(***************************************************************************)
(* Proofs about Derive for every graph: every node table, every set of     *)
(* given edges whose weights are natural numbers, and every order in which *)
(* the offers of a pass meet upsert.                                       *)
(***************************************************************************)
EXTENDS Derive, TLAPS

Natures == {"explicit", "derived"}

(* An edge set in which every edge can be traced to the given edges, and   *)
(* is as weak as the weakest of them.                                      *)
Grounded(g, edges) ==
  \A x \in DOMAIN edges :
    /\ edges[x].nature \in Natures /\ edges[x].state \in States /\ edges[x].weight \in Nat
    /\ edges[x].from \subseteq DOMAIN g
    /\ Cited(edges, x) # {} /\ Cited(edges, x) \subseteq DOMAIN g
    /\ edges[x].state = WeakestOf({g[y].state : y \in Cited(edges, x)})

(* What every rule emits.                                                  *)
SoundOffer(g, e) ==
  /\ e.nature = "derived" /\ e.state \in States /\ e.weight \in Nat
  /\ e.from # {} /\ e.from \subseteq DOMAIN g
  /\ e.state = WeakestOf({g[y].state : y \in e.from})

GivenInv ==
  /\ given \in Inputs
  /\ DOMAIN given \subseteq DOMAIN present
  /\ changed \in BOOLEAN /\ phase \in {"loop", "pass", "done"}

TraceInv == Grounded(given, present) /\ \A c \in offers : SoundOffer(given, c[2])

(* What is returned is what is present, and cites something.               *)
CopyInv ==
  /\ DOMAIN derived \subseteq DOMAIN present
  /\ \A x \in DOMAIN derived : derived[x].from # {}
  /\ ExplicitEdgesKept

SafeInv == GivenInv /\ TraceInv /\ CopyInv

-----------------------------------------------------------------------------
(* The operators.                                                          *)

(* The state of two edges in a row is that of all the edges they cite.     *)
LEMMA WeakestOfUnion ==
  ASSUME NEW A \in SUBSET States, A # {}, NEW B \in SUBSET States, B # {}
  PROVE  Weakest(WeakestOf(A), WeakestOf(B)) = WeakestOf(A \cup B)
<1>1. CASE "BLOCKED" \in A \/ "BLOCKED" \in B
  BY <1>1 DEF Weakest, WeakestOf, States
<1>2. CASE "BLOCKED" \notin A /\ "BLOCKED" \notin B
  <2>1. A \cup B = {"ACTIVE"} <=> A = {"ACTIVE"} /\ B = {"ACTIVE"}
    BY <1>2 DEF States
  <2>2. {WeakestOf(A), WeakestOf(B)} = {"ACTIVE"} <=> A = {"ACTIVE"} /\ B = {"ACTIVE"}
    BY <1>2 DEF WeakestOf
  <2>3. "BLOCKED" \notin {WeakestOf(A), WeakestOf(B)} /\ "BLOCKED" \notin A \cup B
    BY <1>2 DEF WeakestOf
  <2> QED
    BY <2>1, <2>2, <2>3 DEF Weakest, WeakestOf
<1> QED
  BY <1>1, <1>2

LEMMA WeakestOfType == ASSUME NEW A PROVE WeakestOf(A) \in States
BY DEF WeakestOf, States

(* The weights that rules add are natural numbers.                         *)
LEMMA RuleWeights == ASSUME NEW r \in Rules PROVE r.weight \in Nat
<1>1. \A join, first, second, emit : \A weight \in Nat :
        Rule(join, first, second, emit, weight).weight \in Nat
  BY DEF Rule
<1> QED
  BY <1>1 DEF Rules

(* What a cited edge is among the given ones.                              *)
LEMMA GivenEdges ==
  ASSUME NEW g \in Inputs, NEW x \in DOMAIN g
  PROVE  /\ g[x].nature \in Natures /\ g[x].state \in States
         /\ g[x].weight \in Nat /\ g[x].from = {}
BY InputsAssumption DEF Natures

(* Each rule, applied to a grounded edge set, emits sound offers.          *)
LEMMA ComposeIsSound ==
  ASSUME NEW g \in Inputs, NEW edges, Grounded(g, edges), NEW r \in Rules,
         NEW x \in DOMAIN edges, NEW y \in DOMAIN edges
  PROVE  SoundOffer(g, ComposeEdge(edges, r, x, y)[2])
<1> DEFINE A == {g[z].state : z \in Cited(edges, x)}
           B == {g[z].state : z \in Cited(edges, y)}
           from == Cited(edges, x) \cup Cited(edges, y)
<1>1. /\ A \in SUBSET States /\ A # {} /\ edges[x].state = WeakestOf(A)
      /\ B \in SUBSET States /\ B # {} /\ edges[y].state = WeakestOf(B)
      /\ Cited(edges, x) \subseteq DOMAIN g /\ Cited(edges, y) \subseteq DOMAIN g
      /\ Cited(edges, x) # {} /\ edges[x].weight \in Nat /\ edges[y].weight \in Nat
  BY GivenEdges DEF Grounded
<1>2. {g[z].state : z \in from} = A \cup B
  OBVIOUS
<1>3. Weakest(edges[x].state, edges[y].state) = WeakestOf({g[z].state : z \in from})
  BY <1>1, <1>2, WeakestOfUnion
<1>4. edges[x].weight + edges[y].weight + r.weight \in Nat
  BY <1>1, RuleWeights
<1> QED
  BY <1>1, <1>3, <1>4, WeakestOfType DEF SoundOffer, ComposeEdge, Edge

LEMMA PromoteIsSound ==
  ASSUME NEW g \in Inputs, NEW edges, Grounded(g, edges), NEW p, NEW x \in DOMAIN edges
  PROVE  SoundOffer(g, Promote(edges, p, x)[2])
BY DEF Grounded, SoundOffer, Promote, Edge

LEMMA TakeoverIsSound ==
  ASSUME NEW g \in Inputs, NEW edges, Grounded(g, edges), NEW x \in DOMAIN edges, NEW n, NEW type
  PROVE  SoundOffer(g, TakeoverEdge(edges, x, n, type)[2])
<1>1. edges[x].weight \in Nat
  BY DEF Grounded
<1>2. edges[x].weight + 4 \in Nat
  BY <1>1
<1> QED
  BY <1>2 DEF Grounded, SoundOffer, TakeoverEdge, Edge

LEMMA CandidatesAreSound ==
  ASSUME NEW g \in Inputs, NEW edges, Grounded(g, edges), NEW c \in Candidates(edges)
  PROVE  SoundOffer(g, c[2])
<1>1. CASE c \in Composed(edges)
  <2>1. PICK r \in Rules, x \in DOMAIN edges, y \in DOMAIN edges : c = ComposeEdge(edges, r, x, y)
    BY <1>1 DEF Composed
  <2> QED
    BY <2>1, ComposeIsSound
<1>2. CASE c \in Promoted(edges)
  <2>1. PICK p \in Promotions, x \in DOMAIN edges : c = Promote(edges, p, x)
    BY <1>2 DEF Promoted
  <2> QED
    BY <2>1, PromoteIsSound
<1>3. CASE c \in Takeovers(edges)
  <2>1. \E x \in DOMAIN edges : \E n, type : c = TakeoverEdge(edges, x, n, type)
    BY <1>3 DEF Takeovers
  <2> QED
    BY <2>1, TakeoverIsSound
<1> QED
  BY <1>1, <1>2, <1>3 DEF Candidates

-----------------------------------------------------------------------------
(* The steps.                                                              *)

LEMMA InitSafe == Init => SafeInv
<1> SUFFICES ASSUME Init PROVE SafeInv
  OBVIOUS
<1>1. GivenInv
  BY DEF Init, GivenInv
<1>2. ASSUME NEW x \in DOMAIN given
      PROVE  /\ Cited(given, x) = {x}
             /\ given[x].state = WeakestOf({given[y].state : y \in {x}})
  <2>1. given[x].from = {} /\ given[x].state \in States
    BY GivenEdges DEF Init
  <2>2. {given[y].state : y \in {x}} = {given[x].state}
    OBVIOUS
  <2> QED
    BY <2>1, <2>2 DEF Cited, WeakestOf, States
<1>3. Grounded(given, given)
  BY <1>2, GivenEdges DEF Init, Grounded
<1>4. TraceInv
  BY <1>3 DEF Init, TraceInv
<1>5. CopyInv
  BY DEF Init, CopyInv, ExplicitEdgesKept
<1> QED
  BY <1>1, <1>4, <1>5 DEF SafeInv

(* What upsert does with the offers for one id, in the terms of the proofs.*)
LEMMA UpsertCases ==
  ASSUME Upsert
  PROVE  /\ UNCHANGED <<given, phase>> /\ phase = "pass"
         /\ offers' \subseteq offers
         /\ \/ /\ UNCHANGED <<present, derived, changed>>
               /\ \A c \in offers \ offers' :
                    c[1] \in DOMAIN present /\ ~BetterEdge(c[2], present[c[1]])
            \/ \E c \in offers :
                 /\ c[1] \in DOMAIN present => BetterEdge(c[2], present[c[1]])
                 /\ present' = Put(present, c[1], c[2])
                 /\ derived' = Put(derived, c[1], c[2])
                 /\ changed' = TRUE
<1> DEFINE x == NextId
           better == Improving(x, OffersFor(x))
<1>1. ASSUME better = {}
      PROVE  /\ UNCHANGED <<present, derived, changed>>
             /\ \A c \in offers \ offers' :
                  c[1] \in DOMAIN present /\ ~BetterEdge(c[2], present[c[1]])
  <2>1. UNCHANGED <<present, derived, changed>> /\ offers' = {c \in offers : c[1] # x}
    BY <1>1 DEF Upsert
  <2> SUFFICES ASSUME NEW c \in offers, c \notin offers'
               PROVE  c[1] \in DOMAIN present /\ ~BetterEdge(c[2], present[c[1]])
    BY <2>1
  <2>2. c[1] = x /\ c[2] \in OffersFor(x)
    BY <2>1 DEF OffersFor
  <2> QED
    BY <1>1, <2>2 DEF Improving
<1>2. ASSUME better # {} PROVE \E c \in offers :
                 /\ c[1] \in DOMAIN present => BetterEdge(c[2], present[c[1]])
                 /\ present' = Put(present, c[1], c[2])
                 /\ derived' = Put(derived, c[1], c[2])
                 /\ changed' = TRUE
  <2>1. PICK e \in Winners(better) :
          present' = Put(present, x, e) /\ derived' = Put(derived, x, e) /\ changed' = TRUE
    BY <1>2 DEF Upsert
  <2>2. e \in OffersFor(x) /\ (x \in DOMAIN present => BetterEdge(e, present[x]))
    BY <2>1 DEF Winners, Improving
  <2>3. PICK c \in offers : c[1] = x /\ c[2] = e
    BY <2>2 DEF OffersFor
  <2> QED
    BY <2>1, <2>2, <2>3
<1>3. UNCHANGED <<given, phase>> /\ phase = "pass" /\ offers' \subseteq offers
  BY DEF Upsert
<1> QED
  BY <1>1, <1>2, <1>3

(* Putting a sound offer in its place keeps everything traceable.          *)
LEMMA PutIsGrounded ==
  ASSUME NEW g \in Inputs, NEW edges, Grounded(g, edges), NEW x, NEW e, SoundOffer(g, e)
  PROVE  Grounded(g, Put(edges, x, e))
<1> DEFINE after == Put(edges, x, e)
<1>1. DOMAIN after = DOMAIN edges \cup {x} /\ after[x] = e
  BY DEF Put
<1>2. Cited(after, x) = e.from
  BY <1>1 DEF Cited, SoundOffer
<1>3. ASSUME NEW y \in DOMAIN edges, y # x
      PROVE  after[y] = edges[y] /\ Cited(after, y) = Cited(edges, y)
  BY <1>3 DEF Put, Cited
<1> QED
  BY <1>1, <1>2, <1>3 DEF Grounded, SoundOffer, Natures

LEMMA StepSafe == SafeInv /\ [Next]_vars => SafeInv'
<1> SUFFICES ASSUME SafeInv, [Next]_vars PROVE SafeInv'
  OBVIOUS
<1> USE DEF SafeInv
<1>1. CASE BeginPass
  <2>1. UNCHANGED <<given, present, derived>> /\ offers' = Candidates(present)
        /\ changed' = FALSE /\ phase' = "pass"
    BY <1>1 DEF BeginPass
  <2>2. \A c \in offers' : SoundOffer(given', c[2])
    BY <2>1, CandidatesAreSound DEF TraceInv, GivenInv
  <2>3. TraceInv'
    BY <2>1, <2>2 DEF TraceInv
  <2> QED
    BY <2>1, <2>3 DEF GivenInv, CopyInv, ExplicitEdgesKept
<1>2. CASE Upsert
  <2>1. UNCHANGED <<given, phase>> /\ offers' \subseteq offers
    BY <1>2, UpsertCases
  <2>2. CASE UNCHANGED <<present, derived, changed>>
    BY <2>1, <2>2 DEF GivenInv, TraceInv, CopyInv, ExplicitEdgesKept
  <2>3. ASSUME NEW c \in offers,
               c[1] \in DOMAIN present => BetterEdge(c[2], present[c[1]]),
               present' = Put(present, c[1], c[2]),
               derived' = Put(derived, c[1], c[2]), changed' = TRUE
        PROVE  SafeInv'
    <3> DEFINE x == c[1]
               e == c[2]
    <3>1. SoundOffer(given, e)
      BY DEF TraceInv
    <3>2. /\ DOMAIN present' = DOMAIN present \cup {x} /\ present'[x] = e
          /\ \A y \in DOMAIN present : y # x => present'[y] = present[y]
      BY <2>3 DEF Put
    <3>3. /\ DOMAIN derived' = DOMAIN derived \cup {x} /\ derived'[x] = e
          /\ \A y \in DOMAIN derived : y # x => derived'[y] = derived[y]
      BY <2>3 DEF Put
    <3>4. GivenInv'
      BY <2>1, <2>3, <3>2 DEF GivenInv
    <3>5. Grounded(given, Put(present, x, e))
      BY <3>1, PutIsGrounded DEF TraceInv, GivenInv
    <3>6. TraceInv'
      BY <3>5, <2>1, <2>3 DEF TraceInv
    <3>7. x \in DOMAIN given => given[x].nature # "explicit"
      BY <2>3 DEF BetterEdge, CopyInv, GivenInv, ExplicitEdgesKept
    <3>8. \A y \in DOMAIN given : given[y].nature = "explicit" => present'[y] = given[y]
      BY <3>2, <3>7 DEF CopyInv, GivenInv, ExplicitEdgesKept
    <3>9. \A y \in DOMAIN derived' :
             derived'[y] = present'[y] /\ derived'[y].nature = "derived" /\ derived'[y].from # {}
      BY <3>1, <3>2, <3>3 DEF CopyInv, ExplicitEdgesKept, SoundOffer
    <3>10. CopyInv'
      BY <2>1, <3>2, <3>3, <3>8, <3>9 DEF CopyInv, ExplicitEdgesKept
    <3> QED
      BY <3>4, <3>6, <3>10
  <2> QED
    BY <1>2, <2>2, <2>3, UpsertCases
<1>3. CASE EndPass
  BY <1>3 DEF EndPass, GivenInv, TraceInv, CopyInv, ExplicitEdgesKept
<1>4. CASE UNCHANGED vars
  BY <1>4 DEF vars, GivenInv, TraceInv, CopyInv, ExplicitEdgesKept
<1> QED
  BY <1>1, <1>2, <1>3, <1>4 DEF Next

-----------------------------------------------------------------------------
(* The fixpoint.                                                           *)

(* e is as light as f, and as strong if they weigh the same.               *)
AtLeast(e, f) ==
  \/ e.weight < f.weight
  \/ e.weight = f.weight /\ StateRank(e.state) >= StateRank(f.state)

(* Something the rules emit at id x is as good as e.                       *)
Backs(edges, x, e) == \E c \in Candidates(edges) : c[1] = x /\ AtLeast(c[2], e)

Improved(was, now) ==
  DOMAIN was \subseteq DOMAIN now /\ \A x \in DOMAIN was : AtLeast(now[x], was[x])

(* There is nothing in the offer c for upsert.                             *)
Spent(edges, c) == c[1] \in DOMAIN edges /\ ~BetterEdge(c[2], edges[c[1]])

FixInv ==
  /\ phase = "pass" /\ ~changed => \A c \in Candidates(present) : c \in offers \/ Spent(present, c)
  /\ phase = "done" => \A c \in Candidates(present) : Spent(present, c)
  /\ \A x \in DOMAIN derived : Backs(present, x, derived[x])
  /\ \A c \in offers : Backs(present, c[1], c[2])

LEMMA Ranks ==
  ASSUME NEW s \in States
  PROVE  /\ StateRank(s) \in 0..2
         /\ \A t \in States : StateRank(s) = StateRank(t) => s = t
         /\ \A t \in States : StateRank(Weakest(s, t)) =
                             IF StateRank(s) < StateRank(t) THEN StateRank(s) ELSE StateRank(t)
BY DEF States, StateRank, Weakest

(* The rules are monotone: from better edges they emit edges as good.      *)
LEMMA ComposeMonotone ==
  ASSUME NEW g, NEW was, NEW now, Grounded(g, was), Grounded(g, now), Improved(was, now),
         NEW r \in Rules, NEW x \in DOMAIN was, NEW y \in DOMAIN was
  PROVE  /\ ComposeEdge(now, r, x, y)[1] = ComposeEdge(was, r, x, y)[1]
         /\ AtLeast(ComposeEdge(now, r, x, y)[2], ComposeEdge(was, r, x, y)[2])
<1>1. /\ x \in DOMAIN now /\ AtLeast(now[x], was[x])
      /\ y \in DOMAIN now /\ AtLeast(now[y], was[y])
  BY DEF Improved
<1>2. /\ was[x].weight \in Nat /\ was[y].weight \in Nat
      /\ now[x].weight \in Nat /\ now[y].weight \in Nat
      /\ was[x].state \in States /\ was[y].state \in States
      /\ now[x].state \in States /\ now[y].state \in States
  BY <1>1 DEF Grounded
<1> DEFINE wOld == was[x].weight + was[y].weight + r.weight
           wNew == now[x].weight + now[y].weight + r.weight
           sOld == Weakest(was[x].state, was[y].state)
           sNew == Weakest(now[x].state, now[y].state)
<1>3. /\ ComposeEdge(was, r, x, y)[2].weight = wOld /\ ComposeEdge(was, r, x, y)[2].state = sOld
      /\ ComposeEdge(now, r, x, y)[2].weight = wNew /\ ComposeEdge(now, r, x, y)[2].state = sNew
      /\ ComposeEdge(now, r, x, y)[1] = ComposeEdge(was, r, x, y)[1]
  BY DEF ComposeEdge, Edge
<1>4. wNew < wOld \/ (now[x].weight = was[x].weight /\ now[y].weight = was[y].weight)
  BY <1>1, <1>2, RuleWeights DEF AtLeast
<1>5. ASSUME now[x].weight = was[x].weight, now[y].weight = was[y].weight
      PROVE  StateRank(sNew) >= StateRank(sOld)
  <2>1. StateRank(now[x].state) >= StateRank(was[x].state)
        /\ StateRank(now[y].state) >= StateRank(was[y].state)
    BY <1>1, <1>2, <1>5 DEF AtLeast
  <2> QED
    BY <2>1, <1>2, Ranks
<1> QED
  BY <1>3, <1>4, <1>5 DEF AtLeast

LEMMA CandidatesMonotone ==
  ASSUME NEW g, NEW was, NEW now, Grounded(g, was), Grounded(g, now), Improved(was, now),
         NEW c \in Candidates(was)
  PROVE  Backs(now, c[1], c[2])
<1>1. CASE c \in Composed(was)
  <2>1. PICK r \in Rules, x \in DOMAIN was, y \in DOMAIN was :
          Joins(r, x, y) /\ c = ComposeEdge(was, r, x, y)
    BY <1>1 DEF Composed
  <2>2. x \in DOMAIN now /\ y \in DOMAIN now
    BY DEF Improved
  <2>3. ComposeEdge(now, r, x, y) \in Composed(now)
    <3> DEFINE p == <<x, y>>
    <3>1. p \in {q \in (DOMAIN now) \X (DOMAIN now) : Joins(r, q[1], q[2])}
      BY <2>1, <2>2
    <3>2. ComposeEdge(now, r, x, y) = ComposeEdge(now, r, p[1], p[2])
      OBVIOUS
    <3> HIDE DEF p
    <3> QED
      BY <3>1, <3>2 DEF Composed
  <2> QED
    BY <2>1, <2>3, ComposeMonotone DEF Backs, Candidates
<1>2. CASE c \in Promoted(was)
  <2>1. PICK p \in Promotions, x \in DOMAIN was :
          x.type \in p.match /\ NodeType[x.target] \in p.targets /\ c = Promote(was, p, x)
    BY <1>2 DEF Promoted
  <2>2. Promote(now, p, x) \in Promoted(now)
    BY <2>1 DEF Promoted, Improved
  <2>3. Promote(now, p, x)[1] = c[1] /\ AtLeast(Promote(now, p, x)[2], c[2])
    BY <2>1 DEF Promote, Edge, AtLeast, Improved
  <2> QED
    BY <2>2, <2>3 DEF Backs, Candidates
<1>3. CASE c \in Takeovers(was)
  <2>1. PICK x \in DOMAIN was :
          /\ x.type \in {"CanControl", "CanGrantPermission"}
          /\ \/ \E n \in Owned(x) \cup OwnedSubscriptions(x) : c = TakeoverEdge(was, x, n, "CanControl")
             \/ \E n \in {o \in Owned(x) : NodeType[o] \in IdentityTypes} \cup OwnedIdentities(x) :
                  c = TakeoverEdge(was, x, n, "CanEscalateTo")
    BY <1>3 DEF Takeovers
  <2>2. PICK n, type : c = TakeoverEdge(was, x, n, type) /\ TakeoverEdge(now, x, n, type) \in Takeovers(now)
    BY <2>1 DEF Takeovers, Improved
  <2>3. now[x].weight \in Nat /\ was[x].weight \in Nat /\ AtLeast(now[x], was[x])
    BY DEF Improved, Grounded
  <2>4. TakeoverEdge(now, x, n, type)[1] = c[1] /\ AtLeast(TakeoverEdge(now, x, n, type)[2], c[2])
    <3>1. AtLeast(Edge("derived", now[x].state, now[x].weight + 4, Cited(now, x)),
                  Edge("derived", was[x].state, was[x].weight + 4, Cited(was, x)))
      BY <2>3 DEF Edge, AtLeast
    <3> QED
      BY <2>2, <3>1 DEF TakeoverEdge
  <2> QED
    BY <2>2, <2>4 DEF Backs, Candidates
<1> QED
  BY <1>1, <1>2, <1>3 DEF Candidates

(* What was backed stays backed when edges improve.                        *)
LEMMA BacksMonotone ==
  ASSUME NEW g \in Inputs, NEW was, NEW now, Grounded(g, was), Grounded(g, now), Improved(was, now),
         NEW x, NEW e, e.weight \in Nat, e.state \in States, Backs(was, x, e)
  PROVE  Backs(now, x, e)
<1>1. PICK c \in Candidates(was) : c[1] = x /\ AtLeast(c[2], e)
  BY DEF Backs
<1>2. PICK d \in Candidates(now) : d[1] = x /\ AtLeast(d[2], c[2])
  BY <1>1, CandidatesMonotone DEF Backs
<1>3. SoundOffer(g, c[2]) /\ SoundOffer(g, d[2])
  BY CandidatesAreSound
<1>4. /\ c[2].weight \in Nat /\ d[2].weight \in Nat
      /\ StateRank(c[2].state) \in Nat /\ StateRank(d[2].state) \in Nat /\ StateRank(e.state) \in Nat
  BY <1>3, Ranks DEF SoundOffer
<1>5. AtLeast(d[2], e)
  BY <1>1, <1>2, <1>4 DEF AtLeast
<1> QED
  BY <1>2, <1>5 DEF Backs

LEMMA InitFix == Init => FixInv
BY DEF Init, FixInv

LEMMA StepFix == SafeInv /\ FixInv /\ [Next]_vars => FixInv'
<1> SUFFICES ASSUME SafeInv, FixInv, [Next]_vars PROVE FixInv'
  OBVIOUS
<1>0. given \in Inputs /\ Grounded(given, present) /\ \A c \in offers : SoundOffer(given, c[2])
  BY DEF SafeInv, GivenInv, TraceInv
<1>1. CASE BeginPass
  <2>1. UNCHANGED <<given, present, derived>> /\ offers' = Candidates(present)
        /\ changed' = FALSE /\ phase' = "pass"
    BY <1>1 DEF BeginPass
  <2>2. ASSUME NEW c \in Candidates(present) PROVE Backs(present, c[1], c[2])
    <3>1. c[2].weight \in Nat /\ c[2].state \in States
      BY <1>0, CandidatesAreSound DEF SoundOffer
    <3>2. AtLeast(c[2], c[2])
      BY <3>1, Ranks DEF AtLeast
    <3> QED
      BY <3>2 DEF Backs
  <2> QED
    BY <2>1, <2>2 DEF FixInv
<1>2. CASE Upsert
  <2>1. UNCHANGED <<given, phase>> /\ phase = "pass" /\ offers' \subseteq offers
    BY <1>2, UpsertCases
  <2>2. ASSUME UNCHANGED <<present, derived, changed>>, \A c \in offers \ offers' : Spent(present, c)
        PROVE  FixInv'
    BY <2>1, <2>2 DEF FixInv
  <2>3. ASSUME NEW c \in offers,
               c[1] \in DOMAIN present => BetterEdge(c[2], present[c[1]]),
               present' = Put(present, c[1], c[2]),
               derived' = Put(derived, c[1], c[2]), changed' = TRUE
        PROVE  FixInv'
    <3> DEFINE x == c[1]
               e == c[2]
    <3>1. e.weight \in Nat /\ e.state \in States /\ SoundOffer(given, e)
      BY <1>0 DEF SoundOffer
    <3>2. Grounded(given, present')
      BY <1>0, <2>3, <3>1, PutIsGrounded
    <3>3. Improved(present, present')
      <4> SUFFICES ASSUME NEW y \in DOMAIN present PROVE AtLeast(present'[y], present[y])
        BY <2>3 DEF Improved, Put
      <4>0. present[y].weight \in Nat /\ present[y].state \in States
        BY <1>0 DEF Grounded
      <4>1. present[y].weight \in Nat /\ StateRank(present[y].state) \in Nat
        BY <4>0, Ranks
      <4>2. CASE y = x
        BY <4>1, <4>2, <3>1, <2>3, Ranks DEF BetterEdge, AtLeast, Put
      <4>3. CASE y # x
        BY <4>1, <4>3, <2>3 DEF AtLeast, Put
      <4> QED
        BY <4>2, <4>3
    <3>4. ASSUME NEW d \in offers PROVE Backs(present', d[1], d[2])
      <4>1. d[2].weight \in Nat /\ d[2].state \in States /\ Backs(present, d[1], d[2])
        BY <1>0 DEF SoundOffer, FixInv
      <4> QED
        BY <4>1, <1>0, <3>2, <3>3, BacksMonotone
    <3>5. ASSUME NEW y \in DOMAIN derived' PROVE Backs(present', y, derived'[y])
      <4>1. CASE y = x
        BY <4>1, <3>4, <2>3 DEF Put
      <4>2. CASE y # x
        <5>1. y \in DOMAIN derived /\ derived'[y] = derived[y]
          BY <4>2, <2>3 DEF Put
        <5>2. derived[y].weight \in Nat /\ derived[y].state \in States
          BY <5>1, <1>0 DEF SafeInv, CopyInv, ExplicitEdgesKept, Grounded
        <5> QED
          BY <5>1, <5>2, <1>0, <3>2, <3>3, BacksMonotone DEF FixInv
      <4> QED
        BY <4>1, <4>2
    <3> QED
      BY <2>1, <2>3, <3>4, <3>5 DEF FixInv
  <2> QED
    BY <1>2, <2>2, <2>3, UpsertCases DEF Spent
<1>3. CASE EndPass
  BY <1>3 DEF EndPass, FixInv
<1>4. CASE UNCHANGED vars
  BY <1>4 DEF vars, FixInv
<1> QED
  BY <1>1, <1>2, <1>3, <1>4 DEF Next

THEOREM Invariance == Spec => [](SafeInv /\ FixInv)
<1>1. Init => SafeInv /\ FixInv
  BY InitSafe, InitFix
<1>2. SafeInv /\ FixInv /\ [Next]_vars => (SafeInv /\ FixInv)'
  BY StepSafe, StepFix
<1> QED
  BY <1>1, <1>2, PTL DEF Spec

-----------------------------------------------------------------------------
(* The theorems.                                                           *)

(* Types: what is present has the shape of an edge and cites given edges,  *)
(* and every given id stays present (Derive, upsert).                      *)
THEOREM TypeCorrect == Spec => []TypeOK
<1>1. SafeInv => TypeOK
  BY DEF SafeInv, GivenInv, TraceInv, CopyInv, Grounded, SoundOffer, TypeOK, IsEdge, Natures
<1> QED
  BY <1>1, Invariance, PTL

(* Explicit edges are never replaced, and what is returned is what is      *)
(* present (betterEdge, upsert, replaceDerived).                           *)
THEOREM ExplicitKept == Spec => []ExplicitEdgesKept
<1>1. SafeInv => ExplicitEdgesKept
  BY DEF SafeInv, CopyInv
<1> QED
  BY <1>1, Invariance, PTL

(* The state of a derived edge is the weakest of the given edges it cites, *)
(* over any number of joins, promotions and takeovers (weakest,            *)
(* appendDerivedFrom, promote, takeoverEdge).                              *)
THEOREM StatePropagates == Spec => []StateIsWeakest
<1>1. SafeInv => StateIsWeakest
  <2> SUFFICES ASSUME SafeInv, NEW x \in DOMAIN derived
               PROVE  /\ derived[x].from # {}
                      /\ derived[x].state = WeakestOf({given[y].state : y \in derived[x].from})
    BY DEF StateIsWeakest
  <2>1. x \in DOMAIN present /\ derived[x] = present[x] /\ derived[x].from # {}
    BY DEF SafeInv, CopyInv, ExplicitEdgesKept
  <2>2. Cited(present, x) = derived[x].from
    BY <2>1 DEF Cited
  <2> QED
    BY <2>1, <2>2 DEF SafeInv, TraceInv, Grounded
<1> QED
  BY <1>1, Invariance, PTL


(* When the loop ends no rule can add or improve an edge (Derive).         *)
THEOREM FixpointIsClosed == Spec => []Closed
<1>1. FixInv => Closed
  BY DEF FixInv, Closed, Spent
<1> QED
  BY <1>1, Invariance, PTL

(* When the loop ends every derived edge can be had from the edges present *)
(* at its weight and state: replacing the edges it was computed from never *)
(* leaves it outdated (Derive, upsert).                                    *)
THEOREM FixpointIsSupported == Spec => []Supported
<1>1. SafeInv /\ FixInv => Supported
  <2> SUFFICES ASSUME SafeInv, FixInv, phase = "done", NEW x \in DOMAIN derived
               PROVE  \E c \in Candidates(present) :
                 c[1] = x /\ c[2].weight = derived[x].weight /\ c[2].state = derived[x].state
    BY DEF Supported
  <2>1. PICK c \in Candidates(present) : c[1] = x /\ AtLeast(c[2], derived[x])
    BY DEF FixInv, Backs
  <2>2. SoundOffer(given, c[2])
    BY CandidatesAreSound DEF SafeInv, GivenInv, TraceInv
  <2>3. derived[x] = present[x] /\ derived[x].nature = "derived"
        /\ derived[x].weight \in Nat /\ derived[x].state \in States
    BY DEF SafeInv, TraceInv, CopyInv, ExplicitEdgesKept, Grounded
  <2>4. ~BetterEdge(c[2], derived[x])
    BY <2>1, <2>3 DEF FixInv, Spent
  <2>5. c[2].weight \in Nat /\ c[2].state \in States /\ c[2].nature = "derived"
    BY <2>2 DEF SoundOffer
  <2>6. c[2].weight = derived[x].weight /\ StateRank(c[2].state) = StateRank(derived[x].state)
    BY <2>1, <2>3, <2>4, <2>5, Ranks DEF AtLeast, BetterEdge
  <2> QED
    BY <2>1, <2>3, <2>5, <2>6, Ranks
<1> QED
  BY <1>1, Invariance, PTL

=============================================================================
