---------------------------- MODULE OutputProofs ----------------------------
(***************************************************************************)
(* Proofs about what leaves a run: about NetMap, what the redactor makes of*)
(* addresses and networks, whatever the hash; about PathGraph, the searches*)
(* over the indexed graph, for every graph; and about RageExport, the      *)
(* document that is exported, for every bundle.                            *)
(***************************************************************************)
EXTENDS NetMap, PathGraph, RageExport, FiniteSetTheorems, WellFoundedInduction, TLAPS

(* Addresses and networks.                                                 *)

Binary(n) == [1..n -> {0, 1}]

(* The bits of a literal are a sequence, also where its host bits are cut. *)
LEMMA Words ==
  ASSUME NEW n \in Nat, NEW v \in Binary(n)
  PROVE  v \in Seq({0, 1}) /\ Len(v) = n /\ DOMAIN v = 1..n
BY DEF Binary

LEMMA Classes ==
  ASSUME NEW v
  PROVE  Class(v) \in Seq({0, 1}) /\ DOMAIN Class(v) = 1..Len(Class(v)) /\ Len(Class(v)) \in 4..16
<1>1. \A c \in Private \cup {Reserved, UniqueLocal} : c \in Seq({0, 1}) /\ Len(c) \in 4..16
  <2>1. /\ <<0, 0, 0, 0, 1, 0, 1, 0>> \in Seq({0, 1})
        /\ Len(<<0, 0, 0, 0, 1, 0, 1, 0>>) = 8
    OBVIOUS
  <2>2. /\ <<1, 0, 1, 0, 1, 1, 0, 0, 0, 0, 0, 1>> \in Seq({0, 1})
        /\ Len(<<1, 0, 1, 0, 1, 1, 0, 0, 0, 0, 0, 1>>) = 12
    OBVIOUS
  <2>3. /\ <<1, 1, 0, 0, 0, 0, 0, 0, 1, 0, 1, 0, 1, 0, 0, 0>> \in Seq({0, 1})
        /\ Len(<<1, 1, 0, 0, 0, 0, 0, 0, 1, 0, 1, 0, 1, 0, 0, 0>>) = 16
    OBVIOUS
  <2>4. /\ <<0, 1, 1, 1, 1, 1, 1, 1>> \in Seq({0, 1})
        /\ Len(<<0, 1, 1, 1, 1, 1, 1, 1>>) = 8
    OBVIOUS
  <2>5. /\ <<1, 0, 1, 0, 1, 0, 0, 1, 1, 1, 1, 1, 1, 1, 1, 0>> \in Seq({0, 1})
        /\ Len(<<1, 0, 1, 0, 1, 0, 0, 1, 1, 1, 1, 1, 1, 1, 1, 0>>) = 16
    OBVIOUS
  <2>6. /\ <<0, 1, 1, 0, 0, 1, 0, 0, 0, 1>> \in Seq({0, 1})
        /\ Len(<<0, 1, 1, 0, 0, 1, 0, 0, 0, 1>>) = 10
    OBVIOUS
  <2>7. /\ <<1, 1, 1, 1>> \in Seq({0, 1}) /\ Len(<<1, 1, 1, 1>>) = 4
    OBVIOUS
  <2>8. /\ <<1, 1, 1, 1, 1, 1, 0, 1>> \in Seq({0, 1})
        /\ Len(<<1, 1, 1, 1, 1, 1, 0, 1>>) = 8
    OBVIOUS
  <2>9. 4 \in 4..16 /\ 8 \in 4..16 /\ 10 \in 4..16 /\ 12 \in 4..16 /\ 16 \in 4..16
    OBVIOUS
  <2> QED
    BY <2>1, <2>2, <2>3, <2>4, <2>5, <2>6, <2>7, <2>8, <2>9, Zenon
       DEF Private, Reserved, UniqueLocal
<1>2. Class(v) \in Private \cup {Reserved, UniqueLocal}
  BY DEF Class
<1> QED BY <1>1, <1>2

(* The literal that is mapped has the bits of the one that is read.        *)
LEMMA Reals ==
  ASSUME NEW l \in Literals
  PROVE  /\ Len(l.bits) \in {32, 128}
         /\ Real(l) \in Binary(Len(l.bits)) /\ Len(Real(l)) = Len(l.bits)
         /\ Ones(l) \in 0..Len(l.bits)
<1>1. Len(l.bits) \in {32, 128} /\ l.bits \in Binary(Len(l.bits)) /\ l.ones \in 0..Len(l.bits)
  BY NetMapAssumption DEF Binary
<1>2. Masked(l.bits, l.ones) \in Binary(Len(l.bits))
  BY <1>1 DEF Masked, Binary
<1>3. Real(l) \in Binary(Len(l.bits)) /\ Ones(l) \in 0..Len(l.bits)
  BY <1>1, <1>2 DEF Real, Ones
<1> QED BY <1>1, <1>3, Words

-----------------------------------------------------------------------------

(* The bits before a bit are hashed alike where they are alike.            *)
LEMMA HashedAlike ==
  ASSUME NEW L \in {32, 128}, NEW v \in Binary(L), NEW w \in Binary(L), Class(v) = Class(w),
         NEW n \in 1..L, Share(v, w, n - 1)
  PROVE  Before(v, n) = Before(w, n)
<1>1. Len(v) = L /\ Len(w) = L
  BY Words
<1>2. 8 * ((n - 1) \div 8) \in Nat /\ 8 * ((n - 1) \div 8) <= n - 1
  OBVIOUS
<1> DEFINE top == IF L = 128 THEN 8 * ((n - 1) \div 8) ELSE n - 1
<1>3. top \in Nat /\ top <= n - 1
  BY <1>2
<1>4. \A j \in (Len(Class(v)) + 1)..top : v[j] = w[j]
  BY <1>3, Classes DEF Share
<1> QED BY <1>1, <1>4 DEF Before

(* Within a class a bit that is not one of the class is the same in the    *)
(* fakes if it is in the addresses, and only then.                         *)
LEMMA ScrambledApart ==
  ASSUME NEW L \in {32, 128}, NEW v \in Binary(L), NEW w \in Binary(L), Class(v) = Class(w),
         NEW n \in 1..L, Share(v, w, n - 1), n \notin DOMAIN Class(v)
  PROVE  Scrambled(v)[n] = Scrambled(w)[n] <=> v[n] = w[n]
<1>1. Len(v) = L /\ Len(w) = L
  BY Words
<1>2. Before(v, n) = Before(w, n)
  BY HashedAlike
<1>3. v[n] \in {0, 1} /\ w[n] \in {0, 1}
  BY DEF Binary
<1> DEFINE odd == Flips(Class(v), Before(v, n), n)
<1>4. /\ Scrambled(v)[n] = IF odd THEN 1 - v[n] ELSE v[n]
      /\ Scrambled(w)[n] = IF odd THEN 1 - w[n] ELSE w[n]
  BY <1>1, <1>2 DEF Scrambled
<1> HIDE DEF odd
<1>5. CASE odd
  BY <1>3, <1>4, <1>5
<1>6. CASE ~odd
  BY <1>3, <1>4, <1>6
<1> QED BY <1>5, <1>6

(* And one of the class always is.                                         *)
LEMMA ScrambledAlike ==
  ASSUME NEW L \in {32, 128}, NEW v \in Binary(L), NEW w \in Binary(L), Class(v) = Class(w),
         NEW n \in 1..L, Share(v, w, n - 1), v[n] = w[n]
  PROVE  Scrambled(v)[n] = Scrambled(w)[n]
<1>1. Len(v) = L /\ Len(w) = L
  BY Words
<1>2. CASE n \in DOMAIN Class(v)
  BY <1>1, <1>2 DEF Scrambled
<1>3. CASE n \notin DOMAIN Class(v)
  BY <1>3, ScrambledApart
<1> QED BY <1>2, <1>3

(* Cutting the host bits of a fake network leaves those of the network.    *)
LEMMA MappedBits ==
  ASSUME NEW l \in Literals, ~Verbatim(l), NEW i \in 1..Ones(l)
  PROVE  Mapped(l)[i] = Scrambled(Real(l))[i] /\ i \in 1..Len(l.bits)
<1>1. i \in 1..Len(l.bits) /\ Len(Real(l)) = Len(l.bits)
  BY Reals
<1>2. CASE l.net /\ Len(l.bits) = 32
  <2>1. Mapped(l) = Masked(Scrambled(Real(l)), l.ones) /\ i <= l.ones
    BY <1>2 DEF Mapped, Ones
  <2>2. Scrambled(Real(l)) \in [1..Len(l.bits) -> {Scrambled(Real(l))[j] : j \in 1..Len(l.bits)}]
    BY <1>1 DEF Scrambled
  <2>3. Len(Scrambled(Real(l))) = Len(l.bits)
    BY <2>2, <1>2
  <2> QED BY <1>1, <2>1, <2>3 DEF Masked
<1>3. CASE ~(l.net /\ Len(l.bits) = 32)
  BY <1>1, <1>3 DEF Mapped
<1> QED BY <1>2, <1>3

-----------------------------------------------------------------------------

(* Each literal that was met has the fake that is its own.                 *)
OwnFake == /\ estate \subseteq Literals
           /\ \A l \in DOMAIN fakes : l \in Literals /\ fakes[l] = Mapped(l)

LEMMA OwnFakes == NetSpec => []OwnFake
<1>1. NetInit => OwnFake
  <2> SUFFICES ASSUME NetInit
               PROVE  OwnFake
    OBVIOUS
  <2>1. DOMAIN fakes = {}
    BY DEF NetInit
  <2>2. \A f \in [1..MaxLiterals -> Literals] : {f[i] : i \in 1..MaxLiterals} \subseteq Literals
    OBVIOUS
  <2>3. estate \subseteq Literals
    BY <2>2, Zenon DEF NetInit
  <2> QED BY <2>1, <2>3 DEF OwnFake
<1>2. OwnFake /\ [NetNext]_netVars => OwnFake'
  <2> SUFFICES ASSUME OwnFake, [NetNext]_netVars
               PROVE  OwnFake'
    OBVIOUS
  <2>1. ASSUME NEW l \in estate, Replace(l)
        PROVE  OwnFake'
    BY <2>1 DEF OwnFake, Replace
  <2>2. CASE UNCHANGED netVars
    BY <2>2 DEF OwnFake, netVars
  <2> QED BY <2>1, <2>2 DEF NetNext
<1> QED BY <1>1, <1>2, PTL DEF NetSpec

LEMMA OwnKeepsTopology == OwnFake => TopologyPreserved
<1> SUFFICES ASSUME OwnFake, NEW k \in Replaced, NEW l \in Replaced
             PROVE  /\ ClassKept(l)
                    /\ Alikes(k, l) => \A n \in 1..Len(k.bits) : n <= Ones(k) /\ n <= Ones(l) =>
                         /\ Share(Real(k), Real(l), n) => Share(fakes[k], fakes[l], n)
                         /\ Share(Real(k), Real(l), n - 1) /\ n \notin DOMAIN Class(Real(k)) =>
                              (fakes[k][n] = fakes[l][n] <=> Real(k)[n] = Real(l)[n])
  BY DEF TopologyPreserved
<1>1. /\ k \in Literals /\ ~Verbatim(k) /\ fakes[k] = Mapped(k)
      /\ l \in Literals /\ ~Verbatim(l) /\ fakes[l] = Mapped(l)
  BY DEF OwnFake, Replaced
<1>2. /\ Ones(k) \in 0..Len(k.bits) /\ Len(k.bits) \in {32, 128} /\ Real(k) \in Binary(Len(k.bits))
      /\ Ones(l) \in 0..Len(l.bits) /\ Len(l.bits) \in {32, 128} /\ Real(l) \in Binary(Len(l.bits))
      /\ Len(Real(l)) = Len(l.bits)
  BY <1>1, Reals
<1>3. /\ \A i \in 1..Ones(k) : fakes[k][i] = Scrambled(Real(k))[i]
      /\ \A i \in 1..Ones(l) : fakes[l][i] = Scrambled(Real(l))[i]
  BY <1>1, MappedBits
<1>4. ClassKept(l)
  <2> SUFFICES ASSUME Ones(l) >= Len(Class(Real(l))), NEW i \in DOMAIN Class(Real(l))
               PROVE  fakes[l][i] = Class(Real(l))[i]
    BY DEF ClassKept, StartsWith
  <2>1. i \in 1..Ones(l) /\ i \in 1..Len(Real(l))
    BY <1>2, Classes
  <2> QED BY <1>3, <2>1 DEF Scrambled
<1>5. ASSUME Alikes(k, l), NEW n \in 1..Len(k.bits), n <= Ones(k), n <= Ones(l)
      PROVE  /\ Share(Real(k), Real(l), n) => Share(fakes[k], fakes[l], n)
             /\ Share(Real(k), Real(l), n - 1) /\ n \notin DOMAIN Class(Real(k)) =>
                  (fakes[k][n] = fakes[l][n] <=> Real(k)[n] = Real(l)[n])
  <2>1. Len(k.bits) = Len(l.bits) /\ Class(Real(k)) = Class(Real(l))
    BY <1>5 DEF Alikes
  <2> DEFINE L == Len(k.bits)
  <2>2. L \in {32, 128} /\ Real(k) \in Binary(L) /\ Real(l) \in Binary(L) /\ n \in 1..L
    BY <1>2, <2>1
  <2> HIDE DEF L
  <2>3. ASSUME Share(Real(k), Real(l), n), NEW i \in 1..n
        PROVE  fakes[k][i] = fakes[l][i]
    <3>1. i \in 1..L /\ i \in 1..Ones(k) /\ i \in 1..Ones(l)
      BY <1>2, <1>5, <2>2
    <3>2. Share(Real(k), Real(l), i - 1) /\ Real(k)[i] = Real(l)[i]
      BY <2>3, <2>2 DEF Share
    <3>3. Scrambled(Real(k))[i] = Scrambled(Real(l))[i]
      BY <2>2, <2>1, <3>1, <3>2, ScrambledAlike, ZenonT(90)
    <3> QED BY <1>3, <3>1, <3>3
  <2>4. ASSUME Share(Real(k), Real(l), n - 1), n \notin DOMAIN Class(Real(k))
        PROVE  fakes[k][n] = fakes[l][n] <=> Real(k)[n] = Real(l)[n]
    <3>1. n \in 1..Ones(k) /\ n \in 1..Ones(l)
      BY <1>2, <1>5
    <3>2. Scrambled(Real(k))[n] = Scrambled(Real(l))[n] <=> Real(k)[n] = Real(l)[n]
      BY <2>2, <2>1, <2>4, ScrambledApart, ZenonT(90)
    <3> QED BY <1>3, <3>1, <3>2
  <2> QED BY <2>3, <2>4 DEF Share
<1> QED BY <1>4, <1>5

(* Addresses and networks keep their class, what they share and where they *)
(* part, whatever the hash and in whatever order they are met.             *)
THEOREM TopologyIsPreserved == NetSpec => []TopologyPreserved
BY OwnFakes, OwnKeepsTopology, PTL

-----------------------------------------------------------------------------
(* Numbers.                                                                *)

(* Every set of numbers has a least one, which is what proofs by induction *)
(* here rest on, and a bounded one a greatest.                             *)
LEMMA LeastNumber ==
  ASSUME NEW S \in SUBSET Nat, S # {}
  PROVE  \E n \in S : \A m \in S : n <= m
<1> DEFINE Less == OpToRel(<, Nat)
<1>1. \A x, y \in Nat : <<x, y>> \in Less <=> x < y
  BY Zenon DEF OpToRel
<1>2. IsWellFoundedOn(Less, Nat)
  BY NatLessThanWellFounded
<1> HIDE DEF Less
<1>3. PICK n \in S : \A m \in S : <<m, n>> \notin Less
  BY <1>2, WFMin
<1>4. ASSUME NEW m \in S PROVE n <= m
  <2>1. m \in Nat /\ n \in Nat /\ <<m, n>> \notin Less
    BY <1>3, <1>4
  <2>2. ~(m < n)
    BY <1>1, <2>1
  <2> QED BY <2>1, <2>2
<1> QED BY <1>3, <1>4

LEMMA GreatestNumber ==
  ASSUME NEW bound \in Nat, NEW S \in SUBSET (0..bound), S # {}
  PROVE  Max(S) \in S /\ \A m \in S : m <= Max(S)
<1> DEFINE Below == {bound - n : n \in S}
<1>1. Below \in SUBSET Nat /\ Below # {}
  <2>1. \A n \in S : bound - n \in Nat
    OBVIOUS
  <2> QED BY <2>1
<1>2. PICK least \in Below : \A m \in Below : least <= m
  BY <1>1, LeastNumber
<1>3. PICK n \in S : least = bound - n
  BY <1>2
<1>4. \A m \in S : n >= m
  BY <1>2, <1>3
<1> QED BY <1>3, <1>4 DEF Max

(* The numbers of which something holds are all, if 0 is one of them and   *)
(* with a number the next.                                                 *)
LEMMA Induction ==
  ASSUME NEW S, 0 \in S, \A n \in Nat : n \in S => n + 1 \in S
  PROVE  Nat \subseteq S
<1> SUFFICES ASSUME NEW k \in Nat, k \notin S
             PROVE  FALSE
  OBVIOUS
<1>1. PICK n \in Nat \ S : \A m \in Nat \ S : n <= m
  BY LeastNumber
<1>2. n # 0 /\ n - 1 \in Nat /\ n - 1 \in S
  BY <1>1
<1> QED BY <1>1, <1>2

-----------------------------------------------------------------------------
(* The graph that is searched.                                             *)

GraphTypes ==
  /\ Len(indexed) \in Nat /\ DOMAIN indexed = 1..Len(indexed)
  /\ \A i \in DOMAIN indexed : indexed[i].weight \in Nat
  /\ step \in {"idle", "search", "unwind", "answered", "unreachable"}
  /\ step # "idle" => query.from \in Ends /\ query.to \in Ends
                      /\ query.kind \in {"path", "reaches", "reachedBy"}

SameGraph == indexed' = indexed /\ query' = query

LEMMA SameWalks ==
  ASSUME SameGraph
  PROVE  /\ Ends' = Ends /\ Listed' = Listed /\ Takeable' = Takeable
         /\ \A n : Out(n)' = Out(n) /\ In(n)' = In(n) /\ Neighbours(n)' = Neighbours(n)
         /\ \A i : To(i)' = To(i) /\ From(i)' = From(i)
         /\ \A id : Weight(id)' = Weight(id)
BY DEF SameGraph, Ends, Ids, Listed, Takeable, Out, In, Neighbours, To, From, Weight, RecordOf

(* An id has one record, the last one's, and a weight above nothing.       *)
LEMMA Weights ==
  ASSUME GraphTypes, NEW id \in Ids
  PROVE  Weight(id) \in Nat \ {0}
<1> DEFINE Same == {i \in DOMAIN indexed : indexed[i].id = id}
<1>1. Same \in SUBSET (0..Len(indexed)) /\ Same # {} /\ Len(indexed) \in Nat
  BY DEF GraphTypes, Ids
<1>2. Max(Same) \in Same /\ \A j \in Same : j <= Max(Same)
  <2> HIDE DEF Same
  <2> QED BY <1>1, GreatestNumber
<1>3. \E k \in DOMAIN indexed :
        indexed[k].id = id /\ \A j \in DOMAIN indexed : indexed[j].id = id => j <= k
  BY <1>2
<1>4. PICK k \in DOMAIN indexed : RecordOf(id) = indexed[k]
  BY <1>3 DEF RecordOf
<1>5. RecordOf(id).weight \in Nat
  BY <1>4 DEF GraphTypes
<1> QED BY <1>5 DEF Weight

LEMMA Edges ==
  ASSUME GraphTypes, NEW i \in Listed
  PROVE  /\ From(i) \in Ends /\ To(i) \in Ends /\ indexed[i].id \in Takeable
         /\ From(i) = indexed[i].id.source /\ To(i) = indexed[i].id.target
         /\ Weight(indexed[i].id) \in Nat \ {0}
<1>1. i \in DOMAIN indexed /\ indexed[i].id \in Ids
  BY DEF Listed, Ids
<1> QED BY <1>1, Weights DEF Ends, From, To, Takeable

LEMMA FiniteEnds ==
  ASSUME GraphTypes
  PROVE  IsFiniteSet(Ends)
<1> DEFINE N == 1..Len(indexed)
           f == [i \in N |-> indexed[i].id.source]
           g == [i \in N |-> indexed[i].id.target]
           Sources == {x.source : x \in Ids}
           Sinks == {x.target : x \in Ids}
<1>1. IsFiniteSet(N)
  BY FS_Interval DEF GraphTypes
<1>2. f \in Surjection(N, Sources) /\ g \in Surjection(N, Sinks)
  BY DEF Surjection, Ids, GraphTypes
<1>3. IsFiniteSet(Sources) /\ IsFiniteSet(Sinks)
  <2> HIDE DEF N, f, g, Sources, Sinks
  <2> QED BY <1>1, <1>2, FS_Surjection
<1> QED BY <1>3, FS_Union DEF Ends

LEMMA Ordered ==
  ASSUME NEW S, IsFiniteSet(S)
  PROVE  SetToSeq(S) \in Seq(S) /\ \A x \in S : \E i \in DOMAIN SetToSeq(S) : SetToSeq(S)[i] = x
<1> DEFINE n == Cardinality(S)
<1>1. n \in Nat /\ ExistsBijection(1..n, S)
  BY FS_CardinalityType
<1>2. \E f \in [1..n -> S] : IsInjective(f)
  BY <1>1 DEF ExistsBijection, Bijection, Injection
<1>3. SetToSeq(S) \in [1..n -> S] /\ IsInjective(SetToSeq(S))
  BY <1>2 DEF SetToSeq
<1>4. SetToSeq(S) \in Injection(1..n, S)
  BY <1>3 DEF Injection
<1>5. IsFiniteSet(1..n) /\ Cardinality(1..n) = n
  BY <1>1, FS_Interval
<1>6. SetToSeq(S) \in Surjection(1..n, S)
  BY <1>4, <1>5, FS_Injection
<1> QED BY <1>1, <1>3, <1>6 DEF Surjection

-----------------------------------------------------------------------------
(* The searches: what is seen is what edges lead to, and what is not in    *)
(* the queue any more has been gone on from.                               *)

Queued == {fifo[k] : k \in DOMAIN fifo}

Search ==
  query.kind # "path" /\ step # "idle" =>
    /\ step \in {"search", "answered"}
    /\ fifo \in Seq(visited) /\ visited \subseteq Ends /\ query.from \in visited
    /\ visited \subseteq Closure(query.from, query.kind = "reaches")
    /\ \A n \in visited \ Queued : Neighbours(n) \subseteq visited
    /\ step = "answered" => fifo = << >>

Waiting ==
  step = "idle" => /\ path = << >> /\ DOMAIN prev = {} /\ visited = {} /\ queue = {} /\ fifo = << >>

LEMMA ClosureKept ==
  ASSUME SameGraph
  PROVE  \A n : \A forward \in BOOLEAN : Closure(n, forward)' = Closure(n, forward)
BY SameWalks, Zenon DEF Closure

(* What a member of the closure has an edge to is a member.                *)
LEMMA ClosureIsClosed ==
  ASSUME GraphTypes, step # "idle", NEW a,
         NEW n \in Closure(a, query.kind = "reaches"), NEW m \in Neighbours(n)
  PROVE  m \in Closure(a, query.kind = "reaches")
<1> DEFINE forward == query.kind = "reaches"
<1>1. CASE forward
  <2>1. PICK i \in Out(n) : m = To(i)
    BY <1>1 DEF Neighbours
  <2>2. /\ indexed[i].id \in Takeable /\ m \in Ends
        /\ indexed[i].id.source = n /\ indexed[i].id.target = m
    BY <2>1, Edges DEF Out
  <2> QED BY <1>1, <2>2 DEF Closure
<1>2. CASE ~forward
  <2>1. PICK i \in In(n) : m = From(i)
    BY <1>2 DEF Neighbours
  <2>2. /\ indexed[i].id \in Takeable /\ m \in Ends
        /\ indexed[i].id.source = m /\ indexed[i].id.target = n
    BY <2>1, Edges DEF In
  <2> QED BY <1>2, <2>2 DEF Closure
<1> QED BY <1>1, <1>2

(* And a set that is closed is all of it.                                  *)
LEMMA ClosureIsLeast ==
  ASSUME GraphTypes, step # "idle", NEW nodes \in SUBSET Ends, NEW a \in nodes,
         \A n \in nodes : Neighbours(n) \subseteq nodes
  PROVE  Closure(a, query.kind = "reaches") \subseteq nodes
<1>1. CASE query.kind = "reaches"
  <2>1. ASSUME NEW id \in Takeable, id.source \in nodes
        PROVE  id.target \in nodes
    <3>1. PICK i \in Listed : id = indexed[i].id
      BY DEF Takeable
    <3>2. i \in Out(id.source) /\ To(i) = id.target
      BY <3>1, Edges DEF Out
    <3> QED BY <1>1, <2>1, <3>2 DEF Neighbours
  <2> QED BY <1>1, <2>1 DEF Closure
<1>2. CASE query.kind # "reaches"
  <2>1. ASSUME NEW id \in Takeable, id.target \in nodes
        PROVE  id.source \in nodes
    <3>1. PICK i \in Listed : id = indexed[i].id
      BY DEF Takeable
    <3>2. i \in In(id.target) /\ From(i) = id.source
      BY <3>1, Edges DEF In
    <3> QED BY <1>2, <2>1, <3>2 DEF Neighbours
  <2> QED BY <1>2, <2>1 DEF Closure
<1> QED BY <1>1, <1>2

LEMMA VisitStep ==
  ASSUME GraphTypes, Search, Visit
  PROVE  Search'
<1> DEFINE n == Head(fifo)
           new == Neighbours(n) \ visited
<1>1. /\ SameGraph /\ step = "search" /\ step' = step /\ query.kind # "path" /\ fifo # << >>
      /\ visited' = visited \cup new /\ fifo' = Tail(fifo) \o SetToSeq(new)
  BY DEF Visit, SameGraph
<1>2. /\ fifo \in Seq(visited) /\ visited \subseteq Ends /\ query.from \in visited
      /\ visited \subseteq Closure(query.from, query.kind = "reaches")
      /\ \A m \in visited \ Queued : Neighbours(m) \subseteq visited
  BY <1>1 DEF Search
<1>3. n \in visited /\ Tail(fifo) \in Seq(visited) /\ Len(fifo) \in Nat \ {0}
  BY <1>1, <1>2
<1>4. new \subseteq Closure(query.from, query.kind = "reaches")
  BY <1>1, <1>2, <1>3, ClosureIsClosed
<1>5. new \subseteq Ends
  BY <1>4 DEF Closure
<1>6. IsFiniteSet(new)
  BY <1>5, FiniteEnds, FS_Subset
<1> HIDE DEF new
<1>7. SetToSeq(new) \in Seq(new) /\ \A x \in new : \E k \in DOMAIN SetToSeq(new) : SetToSeq(new)[k] = x
  BY <1>6, Ordered
<1> DEFINE order == SetToSeq(new)
<1> HIDE DEF order
<1>8. fifo' \in Seq(visited')
  BY <1>1, <1>3, <1>7 DEF order
<1>9. \A x \in new : x \in Queued'
  <2> SUFFICES ASSUME NEW x \in new PROVE x \in Queued'
    OBVIOUS
  <2>1. PICK k \in DOMAIN order : order[k] = x
    BY <1>7 DEF order
  <2>2. PICK tail \in Seq(visited) : tail = Tail(fifo)
    BY <1>3
  <2>3. fifo' = tail \o order /\ order \in Seq(new)
    BY <1>1, <1>7, <2>2 DEF order
  <2>4. Len(tail) + k \in DOMAIN (tail \o order) /\ (tail \o order)[Len(tail) + k] = x
    BY <2>1, <2>2, <2>3
  <2> QED BY <2>3, <2>4 DEF Queued
<1>10. \A x \in Queued : x = n \/ x \in Queued'
  <2> SUFFICES ASSUME NEW k \in DOMAIN fifo, fifo[k] # n PROVE fifo[k] \in Queued'
    BY DEF Queued
  <2>1. k - 1 \in DOMAIN Tail(fifo) /\ Tail(fifo)[k - 1] = fifo[k]
    BY <1>2, <1>3
  <2>2. k - 1 \in DOMAIN fifo' /\ fifo'[k - 1] = fifo[k]
    BY <1>1, <1>3, <1>7, <2>1 DEF order
  <2> QED BY <2>2 DEF Queued
<1>11. \A m \in visited' \ Queued' : Neighbours(m)' \subseteq visited'
  BY <1>1, <1>2, <1>9, <1>10, SameWalks DEF new
<1>12. (visited \subseteq Closure(query.from, query.kind = "reaches"))'
  BY <1>1, <1>2, <1>4, ClosureKept DEF SameGraph
<1>13. visited' \subseteq Ends' /\ query'.from \in visited'
  BY <1>1, <1>2, <1>5, SameWalks DEF SameGraph
<1> QED BY <1>1, <1>8, <1>11, <1>12, <1>13 DEF Search, SameGraph

LEMMA AskStep ==
  ASSUME GraphTypes, Waiting, NEW kind \in {"path", "reaches", "reachedBy"},
         NEW from \in Ends, NEW to \in Ends, NEW conditional, Ask(kind, from, to, conditional)
  PROVE  GraphTypes' /\ Search' /\ Waiting'
<1>1. /\ step = "idle" /\ step' = "search" /\ indexed' = indexed
      /\ query' = [kind |-> kind, from |-> from, to |-> to, conditional |-> conditional]
  BY DEF Ask
<1>2. query'.kind = kind /\ query'.from = from /\ query'.to = to
  BY <1>1
<1>3. Ends' = Ends
  BY <1>1 DEF Ends, Ids
<1>4. GraphTypes'
  BY <1>1, <1>2, <1>3 DEF GraphTypes
<1>5. Waiting'
  BY <1>1 DEF Waiting
<1>6. Search'
  <2> SUFFICES ASSUME kind # "path" PROVE Search'
    BY <1>2 DEF Search
  <2>1. fifo' = << from >> /\ visited' = {from}
    BY DEF Ask
  <2>2. 1 \in DOMAIN fifo' /\ fifo'[1] = from
    BY <2>1
  <2>3. from \in Queued'
    BY <2>2 DEF Queued
  <2>4. from \in Closure(from, kind = "reaches")'
    BY <1>3 DEF Closure
  <2> QED BY <1>1, <1>2, <1>3, <2>1, <2>3, <2>4 DEF Search
<1> QED BY <1>4, <1>5, <1>6

(* The steps that leave the graph and what the searches keep alone.        *)
LEMMA SearchKept ==
  ASSUME Search, SameGraph, fifo' = fifo, visited' = visited, step' = step
  PROVE  Search'
<1>1. Queued' = Queued
  BY DEF Queued
<1>2. Closure(query.from, query.kind = "reaches")' = Closure(query.from, query.kind = "reaches")
  BY ClosureKept DEF SameGraph
<1>3. Ends' = Ends /\ \A n : Neighbours(n)' = Neighbours(n)
  BY SameWalks
<1> QED BY <1>1, <1>2, <1>3 DEF Search, SameGraph

LEMMA SearchedStep ==
  ASSUME Search, Searched
  PROVE  Search'
<1>1. /\ SameGraph /\ fifo' = fifo /\ visited' = visited /\ fifo = <<>>
      /\ step = "search" /\ step' = "answered" /\ query.kind # "path"
  BY DEF Searched, SameGraph
<1>2. Queued' = Queued
  BY <1>1 DEF Queued
<1>3. Closure(query.from, query.kind = "reaches")' = Closure(query.from, query.kind = "reaches")
  BY <1>1, ClosureKept DEF SameGraph
<1>4. Ends' = Ends /\ \A n : Neighbours(n)' = Neighbours(n)
  BY <1>1, SameWalks
<1> QED BY <1>1, <1>2, <1>3, <1>4 DEF Search, SameGraph

LEMMA GraphStarts ==
  PathInit => GraphTypes /\ Waiting /\ Search
<1> SUFFICES ASSUME PathInit PROVE GraphTypes /\ Waiting /\ Search
  OBVIOUS
<1>1. indexed \in Inputs /\ step = "idle"
  BY DEF PathInit
<1>2. GraphTypes
  BY <1>1, PathAssumption DEF GraphTypes
<1>3. Waiting
  BY DEF PathInit, Waiting
<1>4. Search
  BY <1>1 DEF Search
<1> QED BY <1>2, <1>3, <1>4

LEMMA SearchSteps ==
  ASSUME GraphTypes, Waiting, Search, [PathNext]_pathVars
  PROVE  GraphTypes' /\ Waiting' /\ Search'
<1>1. ASSUME NEW from \in Ends, NEW to \in Ends, NEW conditional \in BOOLEAN,
             Ask("path", from, to, conditional)
      PROVE  GraphTypes' /\ Waiting' /\ Search'
  BY <1>1, AskStep
<1>2. ASSUME NEW kind \in {"reaches", "reachedBy"}, NEW from \in Ends,
             NEW conditional \in BOOLEAN, Ask(kind, from, from, conditional)
      PROVE  GraphTypes' /\ Waiting' /\ Search'
  BY <1>2, AskStep
<1>3. CASE Pop
  <2>1. SameGraph /\ step = "search" /\ query.kind = "path" /\ step' \in {"search", "unwind"}
    BY <1>3 DEF Pop, SameGraph
  <2>2. GraphTypes'
    BY <2>1, SameWalks DEF GraphTypes, SameGraph
  <2> QED BY <2>1, <2>2 DEF Waiting, Search, SameGraph
<1>4. CASE Exhausted
  <2>1. /\ SameGraph /\ step = "search" /\ query.kind = "path"
        /\ step' \in {"unwind", "unreachable"}
    BY <1>4 DEF Exhausted, SameGraph
  <2>2. GraphTypes'
    BY <2>1, SameWalks DEF GraphTypes, SameGraph
  <2> QED BY <2>1, <2>2 DEF Waiting, Search, SameGraph
<1>5. CASE Unwind
  <2>1. SameGraph /\ step = "unwind" /\ step' \in {"unwind", "unreachable", "answered"}
    BY <1>5 DEF Unwind, SameGraph
  <2>2. GraphTypes'
    BY <2>1, SameWalks DEF GraphTypes, SameGraph
  <2>3. query.kind = "path"
    BY <2>1 DEF Search
  <2> QED BY <2>1, <2>2, <2>3 DEF Waiting, Search, SameGraph
<1>6. CASE Visit
  <2>1. SameGraph /\ step = "search" /\ step' = step
    BY <1>6 DEF Visit, SameGraph
  <2>2. GraphTypes' /\ Waiting'
    BY <2>1, SameWalks DEF GraphTypes, SameGraph, Waiting
  <2> QED BY <1>6, <2>2, VisitStep
<1>7. CASE Searched
  <2>1. SameGraph /\ step = "search" /\ step' = "answered"
    BY <1>7 DEF Searched, SameGraph
  <2>2. GraphTypes' /\ Waiting'
    BY <2>1, SameWalks DEF GraphTypes, SameGraph, Waiting
  <2> QED BY <1>7, <2>2, SearchedStep
<1>8. CASE UNCHANGED pathVars
  <2>1. /\ SameGraph /\ step' = step /\ fifo' = fifo /\ visited' = visited /\ path' = path
        /\ prev' = prev /\ queue' = queue
    BY <1>8 DEF pathVars, SameGraph
  <2>2. GraphTypes' /\ Waiting'
    BY <2>1, SameWalks DEF GraphTypes, SameGraph, Waiting
  <2> QED BY <2>1, <2>2, SearchKept
<1> QED BY <1>1, <1>2, <1>3, <1>4, <1>5, <1>6, <1>7, <1>8 DEF PathNext

(* What Reaches and ReachedBy find is what edges lead to, or from where    *)
(* they lead to the node, over any graph and however many edges it takes.  *)
THEOREM GraphReachesClosure ==
  PathSpec => []ReachesIsClosure
<1>1. PathInit => GraphTypes /\ Waiting /\ Search
  BY GraphStarts
<1>2. GraphTypes /\ Waiting /\ Search /\ [PathNext]_pathVars
        => (GraphTypes /\ Waiting /\ Search)'
  BY SearchSteps
<1>3. GraphTypes /\ Search => ReachesIsClosure
  <2> SUFFICES ASSUME GraphTypes, Search, step = "answered", query.kind # "path"
               PROVE  visited = Closure(query.from, query.kind = "reaches")
    BY DEF ReachesIsClosure
  <2>1. Queued = {}
    BY DEF Search, Queued
  <2>2. \A n \in visited : Neighbours(n) \subseteq visited
    BY <2>1 DEF Search
  <2>3. visited \in SUBSET Ends /\ query.from \in visited
    BY DEF Search
  <2>4. Closure(query.from, query.kind = "reaches") \subseteq visited
    BY <2>2, <2>3, ClosureIsLeast
  <2> QED BY <2>4 DEF Search
<1> QED BY <1>1, <1>2, <1>3, PTL DEF PathSpec

-----------------------------------------------------------------------------
(* The shortest path.  How each node seen was reached, what the nodes done *)
(* have settled, what waits in the queue, and what the answer goes by.     *)

PathAsked == step # "idle" /\ query.kind = "path"

Tree ==
  PathAsked =>
    /\ \A n \in DOMAIN dist : dist[n] \in Nat
    /\ visited \subseteq DOMAIN dist
    /\ query.from \in DOMAIN dist /\ dist[query.from] = 0
    /\ DOMAIN prev = DOMAIN dist \ {query.from}
    /\ \A n \in DOMAIN prev : /\ prev[n] \in Takeable
                              /\ prev[n].target = n /\ prev[n].source \in visited
                              /\ dist[n] = dist[prev[n].source] + Weight(prev[n])

Settled ==
  PathAsked =>
    \A n \in visited \ {query.to} : \A i \in Out(n) :
      To(i) \in DOMAIN dist /\ dist[To(i)] <= dist[n] + Weight(indexed[i].id)

Frontier ==
  PathAsked /\ step = "search" =>
    /\ path = << >> /\ query.to \notin visited
    /\ queue \subseteq Nat \X DOMAIN dist
    /\ \A x \in queue : dist[x[2]] <= x[1]
    /\ \A n \in DOMAIN dist \ visited : <<dist[n], n>> \in queue
    /\ \A n \in visited : \A x \in queue : dist[n] <= x[1]

Back == IF path = << >> THEN query.to ELSE Head(path).source

Answer ==
  PathAsked /\ step \in {"unwind", "answered"} =>
    /\ query.to \in DOMAIN dist /\ Back \in DOMAIN dist
    /\ \A n \in DOMAIN dist \ visited : dist[query.to] <= dist[n]
    /\ path \in Seq(Takeable) /\ Linked(path)
    /\ \A k \in 1..Len(path) :
         /\ path[k].source \in DOMAIN dist /\ path[k].target \in DOMAIN dist
         /\ dist[path[k].target] = dist[path[k].source] + Weight(path[k])
    /\ path # << >> => path[Len(path)].target = query.to /\ query.from # query.to
    /\ step = "answered" => Back = query.from

NoAnswer ==
  PathAsked /\ step = "unreachable" =>
    query.to \notin DOMAIN dist /\ DOMAIN dist \subseteq visited

PathInv == Tree /\ Settled /\ Frontier /\ Answer /\ NoAnswer

(* Of the edges to a node, the last to lower its cost is a cheapest.       *)
LEMMA Cheapest ==
  ASSUME GraphTypes, NEW n, NEW cost \in Nat, NEW i \in Out(n),
         \A m \in DOMAIN dist : dist[m] \in Nat
  PROVE  \/ /\ To(i) \in DOMAIN dist /\ dist[To(i)] <= cost + Weight(indexed[i].id)
            /\ To(i) \notin DOMAIN LastTo(Lowering(n, cost))
         \/ /\ To(i) \in DOMAIN LastTo(Lowering(n, cost))
            /\ \E m \in Lowering(n, cost) :
                 /\ LastTo(Lowering(n, cost))[To(i)] = indexed[m].id /\ To(m) = To(i)
                 /\ Weight(indexed[m].id) <= Weight(indexed[i].id)
<1> DEFINE t == To(i)
           mine == {j \in Out(n) : To(j) = t}
           W(j) == Weight(indexed[j].id)
           L == Lowering(n, cost)
<1>1. \A j \in mine : W(j) \in Nat /\ j \in Nat /\ W(j) # 0
  BY Edges DEF Out, Listed, GraphTypes
<1>2. i \in mine
  OBVIOUS
<1>3. PICK least \in {W(j) : j \in mine} : \A w \in {W(j) : j \in mine} : least <= w
  <2>1. {W(j) : j \in mine} \in SUBSET Nat /\ {W(j) : j \in mine} # {}
    BY <1>1, <1>2
  <2> HIDE DEF mine, W
  <2> QED BY <2>1, LeastNumber
<1> DEFINE cheap == {j \in mine : W(j) = least}
<1>4. PICK m \in cheap : \A j \in cheap : m <= j
  <2>1. cheap \in SUBSET Nat /\ cheap # {}
    BY <1>1, <1>3
  <2> HIDE DEF cheap
  <2> QED BY <2>1, LeastNumber
<1>5. m \in mine /\ W(m) = least /\ \A j \in mine : W(m) <= W(j) /\ (j < m => W(m) < W(j))
  <2>1. m \in mine /\ W(m) = least /\ \A j \in mine : W(m) <= W(j)
    BY <1>3, <1>4
  <2>2. \A j \in mine : j < m => W(j) # least
    <3> SUFFICES ASSUME NEW j \in mine, j < m, W(j) = least PROVE FALSE
      OBVIOUS
    <3>1. m <= j
      BY <1>4
    <3> QED BY <1>1, <2>1, <3>1
  <2> QED BY <1>1, <2>1, <2>2
<1>6. \A j \in L : To(j) = t => j \in mine /\ j <= m
  <2> SUFFICES ASSUME NEW j \in L, To(j) = t PROVE j \in mine /\ j <= m
    OBVIOUS
  <2>1. j \in mine
    BY DEF Lowering
  <2>2. m < j => W(j) < W(m)
    BY <1>5 DEF Lowering
  <2> QED BY <1>1, <1>5, <2>1, <2>2
<1>7. CASE t \in DOMAIN dist => cost + W(m) < dist[t]
  <2>1. m \in L
    BY <1>5, <1>7 DEF Lowering
  <2>2. t \in DOMAIN LastTo(L)
    BY <1>5, <2>1 DEF LastTo
  <2>3. \A k \in L : (To(k) = t /\ \A j \in L : To(j) = t => j <= k) => k = m
    BY <1>1, <1>5, <1>6, <2>1
  <2>4. LastTo(L)[t] = indexed[m].id
    <3> HIDE DEF L, t
    <3> QED BY <1>5, <1>6, <2>1, <2>2, <2>3 DEF LastTo, t
  <2> QED BY <1>2, <1>5, <2>1, <2>2, <2>4
<1>8. CASE t \in DOMAIN dist /\ ~(cost + W(m) < dist[t])
  <2>1. dist[t] \in Nat /\ dist[t] <= cost + W(m)
    BY <1>1, <1>5, <1>8
  <2>2. \A j \in mine : j \notin L
    <3> SUFFICES ASSUME NEW j \in mine, j \in L PROVE FALSE
      OBVIOUS
    <3>1. cost + W(j) < dist[t]
      BY <1>8 DEF Lowering
    <3> QED BY <1>1, <1>5, <2>1, <3>1
  <2>3. t \notin DOMAIN LastTo(L)
    BY <1>6, <2>2 DEF LastTo
  <2>4. dist[t] <= cost + W(i)
    BY <1>1, <1>2, <1>5, <2>1
  <2> QED BY <1>8, <2>3, <2>4
<1> QED BY <1>7, <1>8

(* What lowering the costs of a node's neighbours does to them.            *)
Lowered(n, cost, by, new) ==
  /\ DOMAIN new = DOMAIN dist \cup DOMAIN by
  /\ \A m \in DOMAIN new : new[m] \in Nat
  /\ \A m \in DOMAIN dist : new[m] <= dist[m]
  /\ \A m \in DOMAIN dist \ DOMAIN by : new[m] = dist[m]
  /\ \A m \in visited \cup {n} : m \notin DOMAIN by
  /\ \A i \in Out(n) : /\ To(i) \in DOMAIN new
                       /\ new[To(i)] <= cost + Weight(indexed[i].id)
  /\ \A t \in DOMAIN by : /\ by[t] \in Takeable /\ by[t].source = n /\ by[t].target = t
                          /\ new[t] = cost + Weight(by[t]) /\ Weight(by[t]) \in Nat \ {0}
                          /\ \E i \in Lowering(n, cost) : To(i) = t /\ by[t] = indexed[i].id

LEMMA Relaxed ==
  ASSUME GraphTypes, NEW n \in DOMAIN dist, NEW cost \in Nat, dist[n] = cost,
         \A m \in DOMAIN dist : dist[m] \in Nat,
         \A m \in visited : m \in DOMAIN dist /\ dist[m] <= cost,
         NEW by, by = LastTo(Lowering(n, cost)),
         NEW new, new = Updated(dist, [t \in DOMAIN by |-> cost + Weight(by[t])])
  PROVE  Lowered(n, cost, by, new)
<1> DEFINE L == Lowering(n, cost)
<1>1. /\ DOMAIN new = DOMAIN dist \cup DOMAIN by
      /\ \A m \in DOMAIN by : new[m] = cost + Weight(by[m])
      /\ \A m \in DOMAIN dist \ DOMAIN by : new[m] = dist[m]
  BY DEF Updated
<1>2. \A i \in L : /\ i \in Out(n) /\ Weight(indexed[i].id) \in Nat \ {0}
                   /\ indexed[i].id \in Takeable /\ From(i) = n
                   /\ indexed[i].id.source = n /\ indexed[i].id.target = To(i)
                   /\ To(i) \in DOMAIN dist => cost + Weight(indexed[i].id) < dist[To(i)]
  BY Edges DEF Lowering, Out
<1>3. ASSUME NEW t \in DOMAIN by
      PROVE  \E i \in L : To(i) = t /\ by[t] = indexed[i].id
  <2>1. PICK i \in L : To(i) = t
    BY DEF LastTo
  <2>2. i \in Out(n)
    BY <1>2
  <2>3. \E m \in L : LastTo(L)[To(i)] = indexed[m].id /\ To(m) = To(i)
    BY <1>3, <2>1, <2>2, Cheapest
  <2> QED BY <2>1, <2>3
<1>4. \A t \in DOMAIN by : /\ by[t] \in Takeable /\ by[t].source = n /\ by[t].target = t
                           /\ new[t] = cost + Weight(by[t]) /\ Weight(by[t]) \in Nat \ {0}
                           /\ t \in DOMAIN dist => new[t] < dist[t]
  <2> SUFFICES ASSUME NEW t \in DOMAIN by
               PROVE  /\ by[t] \in Takeable /\ by[t].source = n /\ by[t].target = t
                      /\ new[t] = cost + Weight(by[t]) /\ Weight(by[t]) \in Nat \ {0}
                      /\ t \in DOMAIN dist => new[t] < dist[t]
    OBVIOUS
  <2>1. PICK i \in L : To(i) = t /\ by[t] = indexed[i].id
    BY <1>3
  <2> HIDE DEF L
  <2> QED BY <1>1, <1>2, <2>1
<1>5. ASSUME NEW m \in DOMAIN new
      PROVE  new[m] \in Nat
  <2>1. CASE m \in DOMAIN by
    <3>1. new[m] = cost + Weight(by[m]) /\ Weight(by[m]) \in Nat
      BY <1>4, <2>1
    <3> QED BY <3>1
  <2>2. CASE m \notin DOMAIN by
    BY <1>1, <2>2
  <2> QED BY <2>1, <2>2
<1>6. ASSUME NEW m \in DOMAIN dist
      PROVE  new[m] <= dist[m]
  <2>1. CASE m \in DOMAIN by
    <3>1. new[m] < dist[m] /\ new[m] \in Nat /\ dist[m] \in Nat
      BY <1>1, <1>4, <1>5, <2>1
    <3> QED BY <3>1
  <2>2. CASE m \notin DOMAIN by
    BY <1>1, <2>2
  <2> QED BY <2>1, <2>2
<1>7. ASSUME NEW m \in visited \cup {n}, m \in DOMAIN by
      PROVE  FALSE
  <2>1. m \in DOMAIN dist /\ dist[m] <= cost /\ dist[m] \in Nat
    OBVIOUS
  <2>2. new[m] = cost + Weight(by[m]) /\ Weight(by[m]) \in Nat /\ new[m] < dist[m]
    BY <1>4, <1>7, <2>1
  <2> QED BY <2>1, <2>2
<1>8. \A i \in Out(n) : To(i) \in DOMAIN new /\ new[To(i)] <= cost + Weight(indexed[i].id)
  <2> SUFFICES ASSUME NEW i \in Out(n)
               PROVE  To(i) \in DOMAIN new /\ new[To(i)] <= cost + Weight(indexed[i].id)
    OBVIOUS
  <2>1. Weight(indexed[i].id) \in Nat
    BY Edges DEF Out
  <2>2. CASE To(i) \in DOMAIN dist /\ dist[To(i)] <= cost + Weight(indexed[i].id)
                /\ To(i) \notin DOMAIN by
    BY <1>1, <2>2
  <2>3. CASE To(i) \in DOMAIN by /\ \E m \in L : /\ by[To(i)] = indexed[m].id /\ To(m) = To(i)
                                                 /\ Weight(indexed[m].id) <= Weight(indexed[i].id)
    <3>1. PICK m \in L : /\ by[To(i)] = indexed[m].id /\ To(m) = To(i)
                        /\ Weight(indexed[m].id) <= Weight(indexed[i].id)
      BY <2>3
    <3>2. new[To(i)] = cost + Weight(indexed[m].id) /\ Weight(indexed[m].id) \in Nat
      BY <1>1, <1>2, <2>3, <3>1
    <3> QED BY <1>1, <2>1, <2>3, <3>1, <3>2
  <2> QED BY <2>2, <2>3, Cheapest
<1>9. \A m \in visited \cup {n} : m \notin DOMAIN by
  BY <1>7
<1> HIDE DEF L
<1>10. \A t \in DOMAIN by : /\ by[t] \in Takeable /\ by[t].source = n /\ by[t].target = t
                            /\ new[t] = cost + Weight(by[t]) /\ Weight(by[t]) \in Nat \ {0}
                            /\ \E i \in L : To(i) = t /\ by[t] = indexed[i].id
  BY <1>3, <1>4
<1> QED BY <1>1, <1>5, <1>6, <1>8, <1>9, <1>10 DEF L, Lowered

(* Going on from the cheapest node not done.                               *)
LEMMA RelaxStep ==
  ASSUME GraphTypes, GraphTypes', PathInv, PathAsked, step = "search", SameGraph, step' = step,
         path' = path,
         NEW item \in queue, \A y \in queue : item[1] <= y[1],
         item[2] \notin visited, item[2] # query.to,
         visited' = visited \cup {item[2]},
         NEW by, by = LastTo(Lowering(item[2], item[1])),
         dist' = Updated(dist, [t \in DOMAIN by |-> item[1] + Weight(by[t])]),
         prev' = Updated(prev, by),
         queue' = (queue \ {item}) \cup
                  {<<item[1] + Weight(indexed[i].id), To(i)>> : i \in Lowering(item[2], item[1])}
  PROVE  PathInv'
<1> DEFINE cost == item[1]
           n == item[2]
           L == Lowering(n, cost)
           added == {<<cost + Weight(indexed[i].id), To(i)>> : i \in L}
<1>1. PathAsked' /\ step' = "search"
  BY DEF PathAsked, SameGraph
<1>2. /\ \A m \in DOMAIN dist : dist[m] \in Nat
      /\ visited \subseteq DOMAIN dist
      /\ query.from \in DOMAIN dist /\ dist[query.from] = 0
      /\ DOMAIN prev = DOMAIN dist \ {query.from}
      /\ \A m \in DOMAIN prev : /\ prev[m] \in Takeable
                                /\ prev[m].target = m /\ prev[m].source \in visited
                                /\ dist[m] = dist[prev[m].source] + Weight(prev[m])
  BY DEF PathInv, Tree
<1>3. /\ path = << >> /\ query.to \notin visited
      /\ queue \subseteq Nat \X DOMAIN dist
      /\ \A x \in queue : dist[x[2]] <= x[1]
      /\ \A m \in DOMAIN dist \ visited : <<dist[m], m>> \in queue
      /\ \A m \in visited : \A x \in queue : dist[m] <= x[1]
  BY DEF PathInv, Frontier
<1>4. cost \in Nat /\ n \in DOMAIN dist /\ item = <<cost, n>>
  BY <1>3
<1>5. dist[n] = cost
  <2>1. <<dist[n], n>> \in queue
    BY <1>3, <1>4
  <2>2. item[1] <= dist[n]
    BY <2>1
  <2> QED BY <1>2, <1>3, <1>4, <2>2
<1>6. /\ DOMAIN dist' = DOMAIN dist \cup DOMAIN by
      /\ \A m \in DOMAIN dist' : dist'[m] \in Nat
      /\ \A m \in DOMAIN dist : dist'[m] <= dist[m]
      /\ \A m \in DOMAIN dist \ DOMAIN by : dist'[m] = dist[m]
      /\ \A m \in visited \cup {n} : m \notin DOMAIN by
      /\ \A i \in Out(n) : /\ To(i) \in DOMAIN dist'
                           /\ dist'[To(i)] <= cost + Weight(indexed[i].id)
      /\ \A t \in DOMAIN by : /\ by[t] \in Takeable /\ by[t].source = n /\ by[t].target = t
                              /\ dist'[t] = cost + Weight(by[t]) /\ Weight(by[t]) \in Nat \ {0}
                              /\ \E i \in L : To(i) = t /\ by[t] = indexed[i].id
  <2>1. \A m \in visited : m \in DOMAIN dist /\ dist[m] <= cost
    BY <1>2, <1>3
  <2>2. by = LastTo(Lowering(n, cost))
        /\ dist' = Updated(dist, [t \in DOMAIN by |-> cost + Weight(by[t])])
    OBVIOUS
  <2>3. Lowered(n, cost, by, dist')
    <3> HIDE DEF cost, n
    <3> QED BY <1>2, <1>4, <1>5, <2>1, <2>2, Relaxed
  <2> QED BY <2>3 DEF Lowered
<1>7. /\ Takeable' = Takeable /\ \A id : Weight(id)' = Weight(id)
      /\ \A m : Out(m)' = Out(m)
      /\ \A i : To(i)' = To(i)
      /\ query' = query /\ indexed' = indexed
  BY SameWalks DEF SameGraph
<1>8. n \notin DOMAIN by /\ \A m \in visited \cup {n} : m \in DOMAIN dist /\ dist'[m] = dist[m]
  BY <1>2, <1>4, <1>6
<1>9. query.from \notin DOMAIN by
  <2> SUFFICES ASSUME query.from \in DOMAIN by PROVE FALSE
    OBVIOUS
  <2>1. dist'[query.from] = cost + Weight(by[query.from]) /\ dist'[query.from] <= 0
    BY <1>2, <1>6
  <2> QED BY <1>4, <1>6, <2>1
<1>10. DOMAIN prev' = DOMAIN prev \cup DOMAIN by
       /\ \A t \in DOMAIN prev' : prev'[t] = IF t \in DOMAIN by THEN by[t] ELSE prev[t]
  BY DEF Updated
<1>11. Tree'
  <2>1. visited' \subseteq DOMAIN dist' /\ query.from \in DOMAIN dist' /\ dist'[query.from] = 0
    BY <1>2, <1>4, <1>6, <1>9
  <2>2. DOMAIN prev' = DOMAIN dist' \ {query.from}
    BY <1>2, <1>6, <1>9, <1>10
  <2>3. ASSUME NEW t \in DOMAIN prev'
        PROVE  /\ prev'[t] \in Takeable
               /\ prev'[t].target = t /\ prev'[t].source \in visited'
               /\ dist'[t] = dist'[prev'[t].source] + Weight(prev'[t])
    <3>1. CASE t \in DOMAIN by
      BY <1>5, <1>6, <1>8, <1>10, <3>1
    <3>2. CASE t \notin DOMAIN by
      <4>1. t \in DOMAIN prev /\ prev'[t] = prev[t] /\ t \in DOMAIN dist /\ dist'[t] = dist[t]
        BY <1>2, <1>6, <1>10, <2>3, <3>2
      <4>2. dist'[prev[t].source] = dist[prev[t].source]
        BY <1>2, <1>8, <4>1
      <4> QED BY <1>2, <4>1, <4>2
    <3> QED BY <3>1, <3>2
  <2>4. \A t : (Weight(prev[t]))' = Weight(prev'[t])
    BY <1>7 DEF Weight, RecordOf
  <2> QED BY <1>6, <1>7, <2>1, <2>2, <2>3, <2>4 DEF Tree
<1>12. Settled'
  <2> SUFFICES ASSUME NEW m \in visited' \ {query.to}, NEW i \in Out(m)
               PROVE  /\ To(i) \in DOMAIN dist'
                      /\ dist'[To(i)] <= dist'[m] + Weight(indexed[i].id)
    BY <1>7 DEF Settled
  <2>1. Weight(indexed[i].id) \in Nat
    BY Edges DEF Out
  <2>2. CASE m = n
    BY <1>5, <1>6, <1>8, <2>2
  <2>3. CASE m \in visited
    <3>1. To(i) \in DOMAIN dist /\ dist[To(i)] <= dist[m] + Weight(indexed[i].id)
      BY <2>3 DEF PathInv, Settled
    <3>2. dist'[m] = dist[m] /\ dist[m] \in Nat /\ m \in DOMAIN dist
      BY <1>2, <1>8, <2>3
    <3>3. dist'[To(i)] <= dist[To(i)] /\ dist'[To(i)] \in Nat /\ dist[To(i)] \in Nat
      BY <1>2, <1>6, <3>1
    <3> QED BY <1>6, <2>1, <3>1, <3>2, <3>3
  <2> QED BY <2>2, <2>3
<1>13. Frontier'
  <2>1. query.to \notin visited'
    BY <1>3
  <2>2. ASSUME NEW x \in added
        PROVE  /\ x \in Nat \X DOMAIN dist' /\ dist'[x[2]] <= x[1] /\ cost <= x[1]
    <3>1. PICK i \in L : x = <<cost + Weight(indexed[i].id), To(i)>>
      OBVIOUS
    <3>2. i \in Out(n) /\ Weight(indexed[i].id) \in Nat
      BY Edges DEF Lowering, Out
    <3> QED BY <1>4, <1>6, <3>1, <3>2
  <2>3. ASSUME NEW x \in queue
        PROVE  /\ x \in Nat \X DOMAIN dist' /\ dist'[x[2]] <= x[1] /\ cost <= x[1]
    <3>1. x[1] \in Nat /\ x[2] \in DOMAIN dist /\ x = <<x[1], x[2]>>
      BY <1>3
    <3>2. dist'[x[2]] <= dist[x[2]] /\ dist[x[2]] <= x[1] /\ dist[x[2]] \in Nat
      BY <1>2, <1>3, <1>6, <3>1
    <3>3. dist'[x[2]] \in Nat /\ x[2] \in DOMAIN dist'
      BY <1>6, <3>1
    <3> QED BY <3>1, <3>2, <3>3
  <2>4. ASSUME NEW m \in DOMAIN dist' \ visited'
        PROVE  <<dist'[m], m>> \in queue'
    <3>1. CASE m \in DOMAIN by
      <4>1. PICK i \in L : To(i) = m /\ by[m] = indexed[i].id
        BY <1>6, <3>1
      <4>2. dist'[m] = cost + Weight(indexed[i].id)
        BY <1>6, <3>1, <4>1
      <4> QED BY <4>1, <4>2
    <3>2. CASE m \notin DOMAIN by
      <4>1. m \in DOMAIN dist \ visited /\ m # n /\ dist'[m] = dist[m]
        BY <1>6, <2>4, <3>2
      <4>2. <<dist[m], m>> \in queue /\ <<dist[m], m>> # item
        BY <1>3, <1>4, <4>1
      <4> QED BY <4>1, <4>2
    <3> QED BY <3>1, <3>2
  <2>5. ASSUME NEW m \in visited', NEW x \in queue'
        PROVE  dist'[m] <= x[1]
    <3>1. dist'[m] = dist[m] /\ dist[m] \in Nat /\ dist[m] <= cost
      BY <1>2, <1>3, <1>5, <1>8
    <3>2. cost <= x[1] /\ x[1] \in Nat
      BY <2>2, <2>3
    <3> QED BY <1>4, <3>1, <3>2
  <2>6. queue' \subseteq Nat \X DOMAIN dist' /\ \A x \in queue' : dist'[x[2]] <= x[1]
    BY <2>2, <2>3
  <2> QED BY <1>1, <1>3, <1>7, <2>1, <2>4, <2>5, <2>6 DEF Frontier
<1>14. Answer' /\ NoAnswer'
  BY <1>1 DEF Answer, NoAnswer
<1> QED BY <1>11, <1>12, <1>13, <1>14 DEF PathInv

(* A step that takes an item from the queue, or ends the search.           *)
LEMMA PopStep ==
  ASSUME GraphTypes, GraphTypes', PathInv, Pop
  PROVE  PathInv'
<1>1. /\ SameGraph /\ path' = path /\ step = "search" /\ PathAsked
      /\ step' \in {"search", "unwind"} /\ PathAsked'
  BY DEF Pop, SameGraph, PathAsked
<1>2. PICK item \in {x \in queue : \A y \in queue : x[1] <= y[1]} :
        LET cost == item[1]
            n == item[2]
            lowering == Lowering(n, cost)
            by == LastTo(lowering)
        IN  IF n \in visited
            THEN queue' = queue \ {item} /\ UNCHANGED <<visited, dist, prev, step>>
            ELSE /\ visited' = visited \cup {n}
                 /\ IF n = query.to
                    THEN step' = "unwind" /\ UNCHANGED <<queue, dist, prev>>
                    ELSE /\ dist' = Updated(dist, [t \in DOMAIN by |-> cost + Weight(by[t])])
                         /\ prev' = Updated(prev, by)
                         /\ queue' = (queue \ {item}) \cup
                                     {<<cost + Weight(indexed[i].id), To(i)>> : i \in lowering}
                         /\ UNCHANGED step
  BY Zenon DEF Pop
<1>3. item \in queue /\ \A y \in queue : item[1] <= y[1]
  OBVIOUS
<1>4. /\ path = << >> /\ query.to \notin visited
      /\ queue \subseteq Nat \X DOMAIN dist
      /\ \A x \in queue : dist[x[2]] <= x[1]
      /\ \A m \in DOMAIN dist \ visited : <<dist[m], m>> \in queue
      /\ \A m \in visited : \A x \in queue : dist[m] <= x[1]
  BY <1>1 DEF PathInv, Frontier
<1>5. /\ Takeable' = Takeable /\ \A id : Weight(id)' = Weight(id)
      /\ \A m : Out(m)' = Out(m)
      /\ \A i : To(i)' = To(i)
      /\ query' = query /\ indexed' = indexed
  BY <1>1, SameWalks DEF SameGraph
<1>6. CASE item[2] \in visited
  <2>1. /\ queue' = queue \ {item} /\ visited' = visited /\ dist' = dist /\ prev' = prev
        /\ step' = step
    BY <1>2, <1>6
  <2>2. Tree' /\ Settled'
    BY <1>1, <1>5, <2>1 DEF PathInv, Tree, Settled
  <2>3. \A m \in DOMAIN dist \ visited : <<dist[m], m>> # item
    BY <1>6
  <2>4. Frontier'
    BY <1>1, <1>4, <1>5, <2>1, <2>3 DEF Frontier
  <2>5. Answer' /\ NoAnswer'
    BY <1>1, <2>1 DEF Answer, NoAnswer
  <2> QED BY <2>2, <2>4, <2>5 DEF PathInv
<1>7. CASE item[2] \notin visited /\ item[2] = query.to
  <2>1. /\ visited' = visited \cup {query.to} /\ step' = "unwind"
        /\ queue' = queue /\ dist' = dist /\ prev' = prev
    BY <1>2, <1>7
  <2>2. query.to \in DOMAIN dist /\ dist[query.to] \in Nat
    BY <1>1, <1>3, <1>4, <1>7 DEF PathInv, Tree
  <2>3. Tree'
    BY <1>1, <1>5, <2>1, <2>2 DEF PathInv, Tree
  <2>4. Settled'
    BY <1>1, <1>5, <2>1 DEF PathInv, Settled
  <2>5. ASSUME NEW m \in DOMAIN dist \ visited
        PROVE  dist[query.to] <= dist[m]
    <3>1. dist[query.to] <= item[1] /\ item[1] \in Nat
      BY <1>3, <1>4, <1>7
    <3>2. item[1] <= dist[m] /\ dist[m] \in Nat
      BY <1>1, <1>3, <1>4 DEF PathInv, Tree
    <3> QED BY <2>2, <3>1, <3>2
  <2>6. path' = << >>
    BY <1>1, <1>4
  <2>7. Linked(path') /\ path' \in Seq(Takeable') /\ Len(path') = 0
    BY <2>6 DEF Linked
  <2>8. Back' = query.to
    BY <1>5, <2>6 DEF Back
  <2>9. Answer'
    BY <1>5, <2>1, <2>2, <2>5, <2>6, <2>7, <2>8 DEF Answer
  <2>10. Frontier' /\ NoAnswer'
    BY <2>1 DEF Frontier, NoAnswer
  <2> QED BY <2>3, <2>4, <2>9, <2>10 DEF PathInv
<1>8. CASE item[2] \notin visited /\ item[2] # query.to
  <2> DEFINE by == LastTo(Lowering(item[2], item[1]))
  <2>1. /\ visited' = visited \cup {item[2]} /\ step' = step
        /\ dist' = Updated(dist, [t \in DOMAIN by |-> item[1] + Weight(by[t])])
        /\ prev' = Updated(prev, by)
        /\ queue' = (queue \ {item}) \cup
                    {<<item[1] + Weight(indexed[i].id), To(i)>> : i \in Lowering(item[2], item[1])}
    BY <1>2, <1>8
  <2>2. PICK last : last = by
    OBVIOUS
  <2>3. /\ last = LastTo(Lowering(item[2], item[1]))
        /\ dist' = Updated(dist, [t \in DOMAIN last |-> item[1] + Weight(last[t])])
        /\ prev' = Updated(prev, last)
    BY <2>1, <2>2
  <2> HIDE DEF by
  <2> QED BY <1>1, <1>3, <1>8, <2>1, <2>3, RelaxStep
<1> QED BY <1>6, <1>7, <1>8

LEMMA ExhaustedStep ==
  ASSUME PathInv, Exhausted
  PROVE  PathInv'
<1>1. /\ SameGraph /\ path' = path /\ dist' = dist /\ prev' = prev /\ visited' = visited
      /\ step = "search" /\ queue = {} /\ PathAsked
      /\ step' = IF query.to \in DOMAIN dist THEN "unwind" ELSE "unreachable"
  BY DEF Exhausted, SameGraph, PathAsked
<1>2. /\ Takeable' = Takeable /\ \A id : Weight(id)' = Weight(id)
      /\ \A m : Out(m)' = Out(m)
      /\ \A i : To(i)' = To(i)
      /\ query' = query /\ indexed' = indexed
  BY <1>1, SameWalks DEF SameGraph
<1>3. DOMAIN dist \subseteq visited /\ query.to \notin visited
  BY <1>1 DEF PathInv, Frontier
<1>4. Tree' /\ Settled'
  BY <1>1, <1>2 DEF PathInv, Tree, Settled
<1>5. step' = "unreachable"
  BY <1>1, <1>3
<1>6. Frontier' /\ Answer' /\ NoAnswer'
  BY <1>1, <1>3, <1>5, <1>2 DEF Frontier, Answer, NoAnswer
<1> QED BY <1>4, <1>6 DEF PathInv

LEMMA UnwindStep ==
  ASSUME GraphTypes, PathInv, PathAsked, Unwind
  PROVE  PathInv'
<1>1. /\ SameGraph /\ dist' = dist /\ prev' = prev /\ visited' = visited
      /\ step = "unwind" /\ step' \in {"unwind", "unreachable", "answered"} /\ PathAsked
  BY DEF Unwind, SameGraph, PathAsked
<1>2. /\ Takeable' = Takeable /\ \A id : Weight(id)' = Weight(id)
      /\ \A m : Out(m)' = Out(m)
      /\ \A i : To(i)' = To(i)
      /\ query' = query /\ indexed' = indexed
  BY <1>1, SameWalks DEF SameGraph
<1>3. Tree' /\ Settled'
  BY <1>1, <1>2 DEF PathInv, Tree, Settled, PathAsked
<1>4. /\ query.to \in DOMAIN dist /\ Back \in DOMAIN dist
      /\ \A n \in DOMAIN dist \ visited : dist[query.to] <= dist[n]
      /\ path \in Seq(Takeable) /\ Linked(path)
      /\ \A k \in 1..Len(path) :
           /\ path[k].source \in DOMAIN dist /\ path[k].target \in DOMAIN dist
           /\ dist[path[k].target] = dist[path[k].source] + Weight(path[k])
      /\ path # << >> => path[Len(path)].target = query.to /\ query.from # query.to
  BY <1>1 DEF PathInv, Answer
<1>5. /\ visited \subseteq DOMAIN dist
      /\ DOMAIN prev = DOMAIN dist \ {query.from}
      /\ \A n \in DOMAIN prev : /\ prev[n] \in Takeable
                                /\ prev[n].target = n /\ prev[n].source \in visited
                                /\ dist[n] = dist[prev[n].source] + Weight(prev[n])
  BY DEF PathInv, Tree
<1>6. Frontier'
  BY <1>1 DEF Frontier
<1>7. CASE Back = query.from
  <2>1. step' = "answered" /\ path' = path
    BY <1>7 DEF Unwind, Back
  <2>2. Back' = Back /\ Linked(path)'
    BY <1>2, <1>4, <2>1 DEF Back, Linked
  <2>3. Answer'
    BY <1>1, <1>2, <1>4, <1>7, <2>1, <2>2 DEF Answer
  <2> QED BY <1>3, <1>6, <2>1, <2>3 DEF PathInv, NoAnswer
<1>8. CASE Back # query.from
  <2>1. Back \in DOMAIN prev
    BY <1>4, <1>5, <1>8
  <2>2. step' = step /\ path' = << prev[Back] >> \o path
    BY <1>8, <2>1 DEF Unwind, Back
  <2>3. PICK id \in Takeable : id = prev[Back]
    BY <1>5, <2>1
  <2>4. id.target = Back /\ id.source \in DOMAIN dist /\ dist[Back] = dist[id.source] + Weight(id)
    BY <1>5, <2>1, <2>3
  <2>5. PICK rest \in Seq(Takeable) : rest = path
    BY <1>4
  <2>6. path' = << id >> \o rest
    BY <2>2, <2>3, <2>5
  <2>7. /\ path' \in Seq(Takeable) /\ Len(path') = Len(rest) + 1 /\ path'[1] = id
        /\ path' # << >> /\ Head(path') = id
        /\ \A k \in 1..Len(rest) : path'[k + 1] = rest[k]
        /\ \A k \in 2..Len(path') : k - 1 \in 1..Len(rest) /\ path'[k] = rest[k - 1]
    BY <2>6
  <2>8. path # << >> => Head(path) = path[1]
    BY <1>4
  <2>9. Linked(path')
    <3> SUFFICES ASSUME NEW k \in 1..(Len(path') - 1)
                 PROVE  path'[k].target = path'[k + 1].source
      BY DEF Linked
    <3>1. CASE k = 1
      <4>1. rest # << >> /\ 1 \in 1..Len(rest) /\ path'[2] = rest[1]
        BY <2>5, <2>7, <3>1
      <4>2. Back = rest[1].source
        BY <2>5, <2>8, <4>1 DEF Back
      <4> QED BY <2>4, <2>7, <3>1, <4>1, <4>2
    <3>2. CASE k # 1
      <4>1. k - 1 \in 1..(Len(rest) - 1) /\ path'[k] = rest[k - 1] /\ path'[k + 1] = rest[k]
        BY <2>5, <2>7, <3>2
      <4>2. rest[k - 1].target = rest[(k - 1) + 1].source
        BY <1>4, <2>5, <4>1 DEF Linked
      <4> QED BY <4>1, <4>2
    <3> QED BY <3>1, <3>2
  <2>10. ASSUME NEW k \in 1..Len(path')
         PROVE  /\ path'[k].source \in DOMAIN dist /\ path'[k].target \in DOMAIN dist
                /\ dist[path'[k].target] = dist[path'[k].source] + Weight(path'[k])
    <3>1. CASE k = 1
      BY <1>4, <2>4, <2>7, <3>1
    <3>2. CASE k # 1
      <4>1. k - 1 \in 1..Len(path) /\ path'[k] = path[k - 1]
        BY <2>5, <2>7, <3>2
      <4> QED BY <1>4, <4>1
    <3> QED BY <3>1, <3>2
  <2>11. path'[Len(path')].target = query.to
    <3>1. CASE rest = << >>
      <4>1. Len(path') = 1 /\ Back = query.to
        BY <2>5, <2>7, <3>1 DEF Back
      <4> QED BY <2>4, <2>7, <4>1
    <3>2. CASE rest # << >>
      <4>1. Len(rest) \in 1..Len(rest) /\ path'[Len(rest) + 1] = rest[Len(rest)]
        BY <2>5, <2>7, <3>2
      <4> QED BY <1>4, <2>5, <2>7, <3>2, <4>1
    <3> QED BY <3>1, <3>2
  <2>12. query.from # query.to
    BY <1>4, <1>8 DEF Back
  <2>13. Back' = id.source
    BY <2>7 DEF Back
  <2>14. \A k : (Weight(path[k]))' = Weight(path'[k])
    BY <1>2 DEF Weight, RecordOf
  <2>15. Answer'
    BY <1>1, <1>2, <1>4, <2>2, <2>4, <2>7, <2>9, <2>10, <2>11, <2>12, <2>13, <2>14 DEF Answer
  <2> QED BY <1>1, <1>3, <1>6, <2>2, <2>15 DEF PathInv, NoAnswer
<1> QED BY <1>7, <1>8

LEMMA AskPath ==
  ASSUME Waiting, NEW kind, NEW from, NEW to, NEW conditional, Ask(kind, from, to, conditional)
  PROVE  PathInv'
<1>1. /\ step = "idle" /\ step' = "search" /\ path' = path /\ prev' = prev
      /\ query' = [kind |-> kind, from |-> from, to |-> to, conditional |-> conditional]
      /\ dist' = [n \in {from} |-> 0]
      /\ path = << >> /\ DOMAIN prev = {} /\ visited = {} /\ queue = {}
  BY DEF Ask, Waiting
<1>2. query'.kind = kind /\ query'.from = from /\ query'.to = to
  BY <1>1
<1>3. CASE kind # "path"
  BY <1>2, <1>3 DEF PathInv, Tree, Settled, Frontier, Answer, NoAnswer, PathAsked
<1>4. CASE kind = "path"
  <2>1. queue' = {<<0, from>>} /\ visited' = visited
    BY <1>4 DEF Ask
  <2>2. DOMAIN dist' = {from} /\ dist'[from] = 0
    BY <1>1
  <2>3. Tree'
    BY <1>1, <1>2, <2>1, <2>2 DEF Tree
  <2>4. Settled'
    BY <1>1, <2>1 DEF Settled
  <2>5. Frontier'
    BY <1>1, <2>1, <2>2 DEF Frontier
  <2>6. Answer' /\ NoAnswer'
    BY <1>1 DEF Answer, NoAnswer
  <2> QED BY <2>3, <2>4, <2>5, <2>6 DEF PathInv
<1> QED BY <1>3, <1>4

LEMMA PathKept ==
  ASSUME PathInv, UNCHANGED pathVars
  PROVE  PathInv'
<1>1. /\ SameGraph /\ dist' = dist /\ prev' = prev /\ visited' = visited /\ queue' = queue
      /\ path' = path /\ step' = step
  BY DEF SameGraph, pathVars
<1>2. /\ Takeable' = Takeable /\ \A id : Weight(id)' = Weight(id)
      /\ \A m : Out(m)' = Out(m)
      /\ \A i : To(i)' = To(i)
      /\ query' = query /\ indexed' = indexed
  BY <1>1, SameWalks DEF SameGraph
<1>3. (Tree /\ Settled)' /\ PathAsked' = PathAsked
  BY <1>1, <1>2 DEF PathInv, Tree, Settled, PathAsked
<1>4. (Frontier /\ NoAnswer)'
  BY <1>1, <1>2 DEF PathInv, Frontier, NoAnswer, PathAsked
<1>5. Back' = Back /\ Linked(path)' = Linked(path)
  BY <1>1, <1>2 DEF Back, Linked
<1>6. \A k : (Weight(path[k]))' = Weight(path[k])
  BY <1>1, <1>2 DEF Weight, RecordOf
<1>7. Answer'
  BY <1>1, <1>2, <1>5, <1>6 DEF PathInv, Answer, PathAsked
<1> QED BY <1>3, <1>4, <1>7 DEF PathInv

LEMMA PathSteps ==
  ASSUME GraphTypes, GraphTypes', Waiting, Search, PathInv, [PathNext]_pathVars
  PROVE  PathInv'
<1>1. ASSUME NEW kind, NEW from, NEW to, NEW conditional, Ask(kind, from, to, conditional)
      PROVE  PathInv'
  BY <1>1, AskPath
<1>2. CASE Pop
  BY <1>2, PopStep
<1>3. CASE Exhausted
  BY <1>3, ExhaustedStep
<1>4. CASE Unwind
  <2>1. PathAsked
    BY <1>4 DEF Unwind, Search, PathAsked
  <2> QED BY <1>4, <2>1, UnwindStep
<1>5. CASE Visit \/ Searched
  <2>1. query.kind # "path" /\ query' = query
    BY <1>5 DEF Visit, Searched
  <2> QED BY <2>1 DEF PathInv, Tree, Settled, Frontier, Answer, NoAnswer, PathAsked
<1>6. CASE UNCHANGED pathVars
  BY <1>6, PathKept
<1> QED BY <1>1, <1>2, <1>3, <1>4, <1>5, <1>6 DEF PathNext

-----------------------------------------------------------------------------
(* What a walk costs, edge by edge.                                        *)
LEMMA Costs ==
  ASSUME GraphTypes, NEW w \in Seq(Takeable)
  PROVE  \E c \in [0..Len(w) -> Nat] :
           /\ c[0] = 0 /\ Cost(w) = c[Len(w)]
           /\ \A k \in 1..Len(w) : c[k] = c[k - 1] + Weight(w[k])
<1> DEFINE Sums(n) == {g \in [0..n -> Nat] : /\ g[0] = 0
                                            /\ \A k \in 1..n : g[k] = g[k - 1] + Weight(w[k])}
           Good == {n \in Nat : n <= Len(w) => Sums(n) # {}}
<1>1. Len(w) \in Nat /\ \A k \in 1..Len(w) : Weight(w[k]) \in Nat
  <2>1. Takeable \subseteq Ids
    BY DEF Takeable, Listed, Ids
  <2> QED BY <2>1, Weights
<1>2. 0 \in Good
  <2>1. [k \in 0..0 |-> 0] \in Sums(0)
    OBVIOUS
  <2> QED BY <2>1
<1>3. ASSUME NEW n \in Nat, n \in Good
      PROVE  n + 1 \in Good
  <2> SUFFICES ASSUME n + 1 <= Len(w) PROVE Sums(n + 1) # {}
    <3> HIDE DEF Sums
    <3> QED OBVIOUS
  <2>1. PICK g \in [0..n -> Nat] : g[0] = 0 /\ \A k \in 1..n : g[k] = g[k - 1] + Weight(w[k])
    BY <1>1, <1>3
  <2> DEFINE h == [k \in 0..(n + 1) |-> IF k <= n THEN g[k] ELSE g[n] + Weight(w[n + 1])]
  <2>2. Weight(w[n + 1]) \in Nat
    BY <1>1
  <2>3. h \in [0..(n + 1) -> Nat] /\ h[0] = 0
    BY <2>1, <2>2
  <2>4. ASSUME NEW k \in 1..(n + 1)
        PROVE  h[k] = h[k - 1] + Weight(w[k])
    <3>1. CASE k <= n
      BY <2>1, <3>1
    <3>2. CASE k = n + 1
      BY <2>1, <3>2
    <3> QED BY <3>1, <3>2
  <2>5. h \in Sums(n + 1)
    BY <2>3, <2>4
  <2> QED BY <2>5
<1>4. Sums(Len(w)) # {}
  <2> HIDE DEF Sums
  <2>1. Nat \subseteq Good
    BY <1>2, <1>3, Induction
  <2> QED BY <1>1, <2>1
<1>5. PICK g \in [0..Len(w) -> Nat] : /\ g[0] = 0
                                      /\ \A k \in 1..Len(w) : g[k] = g[k - 1] + Weight(w[k])
  BY <1>4
<1> DEFINE Rec(f) == f = [k \in 0..Len(w) |-> IF k = 0 THEN 0 ELSE f[k - 1] + Weight(w[k])]
           f == CHOOSE f : Rec(f)
<1>6. Rec(g)
  <2>1. \A k \in 0..Len(w) : k # 0 => k \in 1..Len(w)
    BY <1>1
  <2> QED BY <1>5, <2>1
<1>7. Rec(f)
  <2> HIDE DEF Rec
  <2> QED BY <1>6
<1>8. f[0] = 0 /\ \A k \in 1..Len(w) : f[k] = f[k - 1] + Weight(w[k])
  <2> HIDE DEF f
  <2> QED BY <1>1, <1>7
<1> DEFINE Same == {n \in Nat : n <= Len(w) => f[n] = g[n]}
<1>9. Len(w) \in Same
  <2> HIDE DEF f
  <2>1. 0 \in Same
    BY <1>5, <1>8
  <2>2. ASSUME NEW n \in Nat, n \in Same
        PROVE  n + 1 \in Same
    <3> SUFFICES ASSUME n + 1 <= Len(w) PROVE f[n + 1] = g[n + 1]
      OBVIOUS
    <3>1. n + 1 \in 1..Len(w) /\ (n + 1) - 1 = n /\ f[n] = g[n]
      BY <1>1, <2>2
    <3> QED BY <1>5, <1>8, <3>1
  <2> HIDE DEF Same
  <2> QED BY <1>1, <2>1, <2>2, Induction
<1>10. Cost(w) = f[Len(w)]
  BY DEF Cost
<1>11. Cost(w) = g[Len(w)]
  <2> HIDE DEF f
  <2> QED BY <1>1, <1>9, <1>10
<1> QED BY <1>5, <1>11

(* What can be walked from a node.                                         *)
LEMMA Walks ==
  ASSUME GraphTypes, NEW a \in Ends, NEW w \in WalksFrom(a)
  PROVE  w \in Seq(Takeable) /\ w # << >> /\ Linked(w) /\ w[1].source = a
<1> DEFINE first == {<< id >> : id \in {x \in Takeable : x.source = a}}
           Longer(W) == W \cup {Append(wi[1], wi[2]) : wi \in
                                 {x \in W \X Takeable : x[1][Len(x[1])].target = x[2].source}}
           N == Cardinality(Ends)
           Rec(f) == f = [k \in 1..N |-> IF k = 1 THEN first ELSE Longer(f[k - 1])]
           Good == {n \in Nat : \E g : /\ DOMAIN g = 1..n
                                       /\ \A k \in 1..n : g[k] = IF k = 1 THEN first
                                                                 ELSE Longer(g[k - 1])}
<1>1. N \in Nat /\ N # 0
  BY FiniteEnds, FS_CardinalityType, FS_EmptySet
<1>2. 0 \in Good
  <2> HIDE DEF first, Longer
  <2>1. DOMAIN [k \in 1..0 |-> first] = 1..0
    OBVIOUS
  <2> QED BY <2>1
<1>3. ASSUME NEW n \in Nat, n \in Good
      PROVE  n + 1 \in Good
  <2> HIDE DEF first, Longer
  <2>1. PICK g : DOMAIN g = 1..n /\ \A k \in 1..n : g[k] = IF k = 1 THEN first ELSE Longer(g[k - 1])
    BY <1>3
  <2> DEFINE h == [k \in 1..(n + 1) |-> IF k <= n THEN g[k]
                                        ELSE IF k = 1 THEN first ELSE Longer(g[k - 1])]
  <2>2. ASSUME NEW k \in 1..(n + 1)
        PROVE  h[k] = IF k = 1 THEN first ELSE Longer(h[k - 1])
    <3>1. CASE k = 1
      BY <2>1, <3>1
    <3>2. CASE k # 1
      <4>1. k - 1 \in 1..(n + 1) /\ k - 1 <= n /\ h[k - 1] = g[k - 1]
        BY <3>2
      <4>2. h[k] = Longer(g[k - 1])
        BY <2>1, <3>2
      <4> QED BY <3>2, <4>1, <4>2
    <3> QED BY <3>1, <3>2
  <2>3. DOMAIN h = 1..(n + 1)
    OBVIOUS
  <2> HIDE DEF h
  <2> QED BY <2>2, <2>3
<1>4. N \in Good
  <2> HIDE DEF Good
  <2> QED BY <1>1, <1>2, <1>3, Induction
<1>5. PICK g : DOMAIN g = 1..N /\ \A k \in 1..N : g[k] = IF k = 1 THEN first ELSE Longer(g[k - 1])
  <2> HIDE DEF first, Longer
  <2> QED BY <1>4
<1> DEFINE h == [k \in 1..N |-> g[k]]
           f == CHOOSE f : Rec(f)
<1>6. Rec(h)
  <2> HIDE DEF first, Longer, N
  <2>1. ASSUME NEW k \in 1..N
        PROVE  h[k] = IF k = 1 THEN first ELSE Longer(h[k - 1])
    <3>1. CASE k = 1
      BY <1>5, <3>1
    <3>2. CASE k # 1
      <4>1. k - 1 \in 1..N /\ h[k - 1] = g[k - 1]
        BY <1>1, <3>2
      <4> QED BY <1>5, <3>2, <4>1
    <3> QED BY <3>1, <3>2
  <2>2. h = [k \in 1..N |-> h[k]]
    OBVIOUS
  <2> HIDE DEF h
  <2> QED BY <2>1, <2>2
<1>7. Rec(f)
  <2> HIDE DEF Rec, h
  <2> QED BY <1>6
<1>8. WalksFrom(a) = f[N]
  BY Zenon DEF WalksFrom
<1>9. \A k \in 1..N : f[k] = IF k = 1 THEN first ELSE Longer(f[k - 1])
  <2> HIDE DEF first, Longer, f, N
  <2> QED BY <1>7
<1> DEFINE Along(x) == x \in Seq(Takeable) /\ x # << >> /\ Linked(x) /\ x[1].source = a
           Sound == {n \in Nat : n + 1 <= N => \A x \in f[n + 1] : Along(x)}
<1> HIDE DEF f
<1>10. 0 \in Sound
  <2> SUFFICES ASSUME NEW x \in f[1] PROVE Along(x)
    OBVIOUS
  <2>1. x \in first
    <3> HIDE DEF first, Longer, N
    <3> QED BY <1>1, <1>9
  <2>2. PICK id \in Takeable : x = << id >> /\ id.source = a
    BY <2>1
  <2> QED BY <2>2 DEF Linked
<1>11. ASSUME NEW n \in Nat, n \in Sound
       PROVE  n + 1 \in Sound
  <2> SUFFICES ASSUME (n + 1) + 1 <= N, NEW x \in f[(n + 1) + 1] PROVE Along(x)
    OBVIOUS
  <2>1. n + 1 <= N /\ (n + 1) + 1 \in 1..N /\ (n + 1) + 1 # 1 /\ ((n + 1) + 1) - 1 = n + 1
    BY <1>1
  <2>2. x \in Longer(f[n + 1])
    <3> HIDE DEF Longer, first, N
    <3> QED BY <1>9, <2>1
  <2>3. \A y \in f[n + 1] : Along(y)
    BY <1>11, <2>1
  <2>4. CASE x \in f[n + 1]
    BY <2>3, <2>4
  <2>5. CASE \E y \in f[n + 1], id \in Takeable : /\ y[Len(y)].target = id.source
                                                  /\ x = Append(y, id)
    <3>1. PICK y \in f[n + 1], id \in Takeable : y[Len(y)].target = id.source /\ x = Append(y, id)
      BY <2>5
    <3>2. y \in Seq(Takeable) /\ y # << >> /\ Linked(y) /\ y[1].source = a
      BY <2>3
    <3>3. /\ x \in Seq(Takeable) /\ Len(x) = Len(y) + 1 /\ Len(y) \in Nat \ {0}
          /\ \A k \in 1..Len(y) : x[k] = y[k]
          /\ x[Len(y) + 1] = id
      BY <3>1, <3>2
    <3>4. Linked(x)
      <4> SUFFICES ASSUME NEW k \in 1..(Len(x) - 1) PROVE x[k].target = x[k + 1].source
        BY DEF Linked
      <4>1. CASE k = Len(y)
        BY <3>1, <3>3, <4>1
      <4>2. CASE k # Len(y)
        <5>1. k \in 1..(Len(y) - 1) /\ x[k] = y[k] /\ x[k + 1] = y[k + 1]
          BY <3>3, <4>2
        <5> QED BY <3>2, <5>1 DEF Linked
      <4> QED BY <4>1, <4>2
    <3> QED BY <3>2, <3>3, <3>4
  <2>6. x \in f[n + 1] \/ \E y \in f[n + 1], id \in Takeable : /\ y[Len(y)].target = id.source
                                                               /\ x = Append(y, id)
    BY <2>2
  <2> QED BY <2>4, <2>5, <2>6
<1>12. \A x \in f[N] : Along(x)
  <2>1. N - 1 \in Nat /\ (N - 1) + 1 = N
    BY <1>1
  <2>2. N - 1 \in Sound
    <3> HIDE DEF Sound, N
    <3> QED BY <1>10, <1>11, <2>1, Induction
  <2> HIDE DEF Along, N
  <2> QED BY <1>1, <2>1, <2>2
<1> QED BY <1>8, <1>12

(* What has been settled bounds every walk from the node that was asked    *)
(* about: its k-th node has been seen, at no more than the edges to it     *)
(* cost, unless the end has at that cost already.                          *)
LEMMA WalksAreBounded ==
  ASSUME GraphTypes, PathInv, PathAsked, step \in {"answered", "unreachable"},
         NEW w \in Seq(Takeable), w # << >>, Linked(w), w[1].source = query.from,
         NEW c \in [0..Len(w) -> Nat], c[0] = 0,
         \A k \in 1..Len(w) : c[k] = c[k - 1] + Weight(w[k])
  PROVE  \A k \in 1..Len(w) :
           \/ w[k].target \in DOMAIN dist /\ dist[w[k].target] <= c[k]
           \/ query.to \in DOMAIN dist /\ dist[query.to] <= c[k]
<1> DEFINE Known(x, k) == x \in DOMAIN dist /\ dist[x] <= c[k]
           Good == {n \in Nat : n + 1 <= Len(w) => \/ Known(w[n + 1].target, n + 1)
                                                   \/ Known(query.to, n + 1)}
<1>1. /\ \A n \in DOMAIN dist : dist[n] \in Nat
      /\ visited \subseteq DOMAIN dist
      /\ query.from \in DOMAIN dist /\ dist[query.from] = 0
  BY DEF PathInv, Tree
<1>2. \A n \in DOMAIN dist \ (visited \ {query.to}) :
        query.to \in DOMAIN dist /\ dist[query.to] <= dist[n]
  BY <1>1 DEF PathInv, Answer, NoAnswer
<1>3. \A n \in visited \ {query.to} : \A i \in Out(n) :
        To(i) \in DOMAIN dist /\ dist[To(i)] <= dist[n] + Weight(indexed[i].id)
  BY DEF PathInv, Settled
<1>4. ASSUME NEW x, NEW k \in 1..Len(w), x = w[k].source,
             Known(x, k - 1) \/ Known(query.to, k - 1)
      PROVE  Known(w[k].target, k) \/ Known(query.to, k)
  <2>1. PICK i \in Listed : indexed[i].id = w[k]
    BY DEF Takeable
  <2>2. /\ i \in Out(x) /\ To(i) = w[k].target /\ Weight(indexed[i].id) = Weight(w[k])
        /\ Weight(w[k]) \in Nat
    BY <1>4, <2>1, Edges DEF Out
  <2>3. c[k] = c[k - 1] + Weight(w[k]) /\ c[k - 1] \in Nat /\ c[k] \in Nat
    BY <2>2
  <2>4. CASE Known(query.to, k - 1)
    <3>1. dist[query.to] \in Nat /\ dist[query.to] <= c[k - 1]
      BY <1>1, <2>4
    <3> QED BY <2>2, <2>3, <2>4, <3>1
  <2>5. CASE Known(x, k - 1) /\ x \in visited \ {query.to}
    <3>1. To(i) \in DOMAIN dist /\ dist[To(i)] <= dist[x] + Weight(w[k])
      BY <1>3, <2>2, <2>5
    <3>2. dist[To(i)] \in Nat /\ dist[x] \in Nat /\ dist[x] <= c[k - 1]
      BY <1>1, <2>5, <3>1
    <3> QED BY <2>2, <2>3, <3>1, <3>2
  <2>6. CASE Known(x, k - 1) /\ x \notin visited \ {query.to}
    <3>1. query.to \in DOMAIN dist /\ dist[query.to] <= dist[x]
      BY <1>2, <2>6
    <3>2. dist[query.to] \in Nat /\ dist[x] \in Nat /\ dist[x] <= c[k - 1]
      BY <1>1, <2>6, <3>1
    <3> QED BY <2>2, <2>3, <3>1, <3>2
  <2> QED BY <1>4, <2>4, <2>5, <2>6
<1>5. Len(w) \in Nat \ {0}
  OBVIOUS
<1>6. 0 \in Good
  <2>1. 1 \in 1..Len(w) /\ 1 - 1 = 0
    BY <1>5
  <2>2. Known(query.from, 0)
    BY <1>1
  <2>3. Known(w[1].target, 1) \/ Known(query.to, 1)
    <3> HIDE DEF Known
    <3> QED BY <1>4, <2>1, <2>2
  <2> HIDE DEF Known
  <2> QED BY <2>3
<1>7. ASSUME NEW n \in Nat, n \in Good
      PROVE  n + 1 \in Good
  <2> SUFFICES ASSUME (n + 1) + 1 <= Len(w)
               PROVE  \/ Known(w[(n + 1) + 1].target, (n + 1) + 1)
                      \/ Known(query.to, (n + 1) + 1)
    <3> HIDE DEF Known
    <3> QED OBVIOUS
  <2>1. /\ n + 1 \in 1..(Len(w) - 1) /\ (n + 1) + 1 \in 1..Len(w) /\ ((n + 1) + 1) - 1 = n + 1
        /\ n + 1 <= Len(w)
    BY <1>5
  <2>2. w[n + 1].target = w[(n + 1) + 1].source
    BY <2>1 DEF Linked
  <2>3. Known(w[n + 1].target, n + 1) \/ Known(query.to, n + 1)
    <3> HIDE DEF Known
    <3> QED BY <1>7, <2>1
  <2> HIDE DEF Known
  <2> QED BY <1>4, <2>1, <2>2, <2>3
<1>8. Nat \subseteq Good
  <2> HIDE DEF Good
  <2> QED BY <1>6, <1>7, Induction
<1>9. \A k \in 1..Len(w) : Known(w[k].target, k) \/ Known(query.to, k)
  <2> SUFFICES ASSUME NEW k \in 1..Len(w) PROVE Known(w[k].target, k) \/ Known(query.to, k)
    OBVIOUS
  <2>1. k - 1 \in Nat /\ (k - 1) + 1 = k /\ k <= Len(w)
    BY <1>5
  <2>2. k - 1 \in Good
    <3> HIDE DEF Good
    <3> QED BY <1>8, <2>1
  <2> HIDE DEF Known
  <2> QED BY <2>1, <2>2
<1> QED BY <1>9

(* The cost of the answer is what the end was reached at.                  *)
LEMMA AnswerCosts ==
  ASSUME GraphTypes, PathInv, PathAsked, step = "answered", path # << >>
  PROVE  Cost(path) = dist[query.to] /\ IsWalk(path, query.from, query.to)
<1>1. /\ query.to \in DOMAIN dist /\ Back = query.from
      /\ path \in Seq(Takeable) /\ Linked(path)
      /\ \A k \in 1..Len(path) :
           /\ path[k].source \in DOMAIN dist /\ path[k].target \in DOMAIN dist
           /\ dist[path[k].target] = dist[path[k].source] + Weight(path[k])
      /\ path[Len(path)].target = query.to
  BY DEF PathInv, Answer
<1>2. /\ \A n \in DOMAIN dist : dist[n] \in Nat
      /\ dist[query.from] = 0
  BY DEF PathInv, Tree
<1>3. path[1].source = query.from /\ Len(path) \in Nat \ {0}
  BY <1>1 DEF Back
<1>4. PICK c \in [0..Len(path) -> Nat] :
        /\ c[0] = 0 /\ Cost(path) = c[Len(path)]
        /\ \A k \in 1..Len(path) : c[k] = c[k - 1] + Weight(path[k])
  BY <1>1, Costs
<1> DEFINE Good == {n \in Nat : n + 1 <= Len(path) => c[n + 1] = dist[path[n + 1].target]}
<1>5. 0 \in Good
  <2>1. 1 \in 1..Len(path) /\ 1 - 1 = 0
    BY <1>3
  <2>2. c[1] = 0 + Weight(path[1]) /\ dist[path[1].target] = 0 + Weight(path[1])
    BY <1>1, <1>2, <1>3, <1>4, <2>1
  <2> QED BY <2>2
<1>6. ASSUME NEW n \in Nat, n \in Good
      PROVE  n + 1 \in Good
  <2> SUFFICES ASSUME (n + 1) + 1 <= Len(path)
               PROVE  c[(n + 1) + 1] = dist[path[(n + 1) + 1].target]
    OBVIOUS
  <2>1. /\ n + 1 \in 1..(Len(path) - 1) /\ (n + 1) + 1 \in 1..Len(path)
        /\ ((n + 1) + 1) - 1 = n + 1 /\ n + 1 <= Len(path)
    BY <1>3
  <2>2. path[n + 1].target = path[(n + 1) + 1].source /\ c[n + 1] = dist[path[n + 1].target]
    BY <1>1, <1>6, <2>1 DEF Linked
  <2>3. c[(n + 1) + 1] = c[n + 1] + Weight(path[(n + 1) + 1])
    BY <1>4, <2>1
  <2> QED BY <1>1, <2>1, <2>2, <2>3
<1>7. Len(path) - 1 \in Good
  <2> HIDE DEF Good
  <2> QED BY <1>3, <1>5, <1>6, Induction
<1>8. Cost(path) = dist[query.to]
  <2>1. (Len(path) - 1) + 1 = Len(path)
    BY <1>3
  <2> QED BY <1>1, <1>3, <1>4, <1>7, <2>1
<1> QED BY <1>1, <1>3, <1>8 DEF IsWalk

(* The answer against every walk there is, however long: none is cheaper,  *)
(* and there is none where ShortestPath finds none.                        *)
LeastOfAll ==
  step \in {"answered", "unreachable"} /\ query.kind = "path" =>
    \A w \in Seq(Takeable) :
      IsWalk(w, query.from, query.to) =>
        step = "answered" /\ query.to \in DOMAIN dist /\ dist[query.to] <= Cost(w)

LEMMA NoWalkIsCheaper ==
  ASSUME GraphTypes, PathInv
  PROVE  LeastOfAll
<1> SUFFICES ASSUME step \in {"answered", "unreachable"}, query.kind = "path",
                    NEW w \in Seq(Takeable), IsWalk(w, query.from, query.to)
             PROVE  step = "answered" /\ query.to \in DOMAIN dist /\ dist[query.to] <= Cost(w)
  BY DEF LeastOfAll
<1>1. PathAsked
  BY DEF PathAsked
<1>2. w # << >> /\ Linked(w) /\ w[1].source = query.from /\ w[Len(w)].target = query.to
  BY DEF IsWalk
<1>3. PICK c \in [0..Len(w) -> Nat] :
        /\ c[0] = 0 /\ Cost(w) = c[Len(w)]
        /\ \A k \in 1..Len(w) : c[k] = c[k - 1] + Weight(w[k])
  BY Costs
<1>4. Len(w) \in 1..Len(w)
  BY <1>2
<1>5. query.to \in DOMAIN dist /\ dist[query.to] <= c[Len(w)]
  BY <1>1, <1>2, <1>3, <1>4, WalksAreBounded
<1>6. step = "answered"
  BY <1>1, <1>5 DEF PathInv, NoAnswer
<1> QED BY <1>3, <1>5, <1>6

LEMMA PathIsLeast ==
  ASSUME GraphTypes, PathInv
  PROVE  ShortestPathIsLeast
<1> SUFFICES ASSUME step \in {"answered", "unreachable"}, query.kind = "path"
             PROVE  LET walks == WalksBetween(query.from, query.to) IN
                    IF step = "unreachable" THEN query.from # query.to /\ walks = {}
                    ELSE IF query.from = query.to THEN path = << >> /\ dist[query.to] = 0
                    ELSE /\ IsWalk(path, query.from, query.to) /\ Cost(path) = dist[query.to]
                         /\ \A w \in walks : Cost(path) <= Cost(w)
  BY DEF ShortestPathIsLeast
<1>1. PathAsked /\ query.from \in Ends
  BY DEF PathAsked, GraphTypes
<1>2. \A w \in WalksBetween(query.from, query.to) :
        /\ step = "answered" /\ query.to \in DOMAIN dist /\ dist[query.to] <= Cost(w)
  <2> SUFFICES ASSUME NEW w \in WalksBetween(query.from, query.to)
               PROVE  step = "answered" /\ query.to \in DOMAIN dist /\ dist[query.to] <= Cost(w)
    OBVIOUS
  <2>1. w \in WalksFrom(query.from) /\ w[Len(w)].target = query.to
    BY DEF WalksBetween
  <2>2. w \in Seq(Takeable) /\ IsWalk(w, query.from, query.to)
    BY <1>1, <2>1, Walks DEF IsWalk
  <2> QED BY <2>2, NoWalkIsCheaper DEF LeastOfAll
<1>3. CASE step = "unreachable"
  <2>1. query.from # query.to
    BY <1>1, <1>3 DEF PathInv, Tree, NoAnswer
  <2> QED BY <1>2, <1>3, <2>1
<1>4. CASE step = "answered" /\ query.from = query.to
  <2>1. path = << >> /\ dist[query.to] = 0
    BY <1>1, <1>4 DEF PathInv, Tree, Answer
  <2> QED BY <1>4, <2>1
<1>5. CASE step = "answered" /\ query.from # query.to
  <2>1. path # << >>
    BY <1>1, <1>5 DEF PathInv, Answer, Back
  <2>2. Cost(path) = dist[query.to] /\ IsWalk(path, query.from, query.to)
    BY <1>1, <1>5, <2>1, AnswerCosts
  <2> QED BY <1>2, <1>5, <2>2
<1> QED BY <1>3, <1>4, <1>5

(* ShortestPath answers with a walk from the one node to the other no walk *)
(* is cheaper than, over any graph, with parallel and looping edges, edges *)
(* of one id and edges left out; what it calls unreachable is.             *)
THEOREM GraphPathIsLeast ==
  PathSpec => [](ShortestPathIsLeast /\ LeastOfAll)
<1>1. PathInit => GraphTypes /\ Waiting /\ Search
  BY GraphStarts
<1>2. PathInit => PathInv
  BY DEF PathInit, PathInv, Tree, Settled, Frontier, Answer, NoAnswer, PathAsked
<1>3. GraphTypes /\ Waiting /\ Search /\ PathInv /\ [PathNext]_pathVars
        => (GraphTypes /\ Waiting /\ Search /\ PathInv)'
  BY SearchSteps, PathSteps
<1>4. GraphTypes /\ PathInv => ShortestPathIsLeast /\ LeastOfAll
  BY PathIsLeast, NoWalkIsCheaper
<1> QED BY <1>1, <1>2, <1>3, <1>4, PTL DEF PathSpec

-----------------------------------------------------------------------------
(* The export.                                                             *)

Fields == {"id", "nature", "source", "target", "facts", "from", "permissions", "conditions",
           "inline", "evidence"}

(* Where the loops are with an edge.                                       *)
IsLinked(n) == stage \in {"write", "done"} \/ (stage = "edges" /\ n < at)
IsWritten(n) == stage = "done" \/ (stage = "write" /\ n < at)

ReadTypes ==
  /\ stage \in {"ledger", "facts", "edges", "write", "done"} /\ at \in Nat \ {0}
  /\ ops \in Ledgers /\ Len(stamped) \in Nat /\ DOMAIN stamped = 1..Len(stamped)
  /\ \A n \in DOMAIN stamped : stamped[n] \in EdgePool /\ stamped[n].facts \subseteq FactIds

(* What is known of the facts is evidence that is recorded.                *)
Backed ==
  /\ DOMAIN byType = Types /\ \A t \in Types : byType[t] \subseteq evidence
  /\ DOMAIN backing = FactIds /\ \A f \in FactIds : backing[f] \subseteq evidence
  /\ \A p \in DOMAIN between : between[p] \subseteq FactIds

(* An edge stays the edge it was, but for its facts and its evidence; once *)
(* it is linked it has those it stands on.                                 *)
LinkedEdge(n) ==
  LET e == stamped[n]
      l == linked[n] IN
  /\ DOMAIN l = Fields
  /\ l.id = e.id /\ l.nature = e.nature /\ l.from = e.from
  /\ l.permissions = e.permissions /\ l.conditions = e.conditions
  /\ l.facts \subseteq FactIds /\ e.facts \subseteq l.facts
  /\ ~IsLinked(n) => l.facts = e.facts
  /\ IsLinked(n) => l.evidence \subseteq evidence /\ (l.nature = "derived" => l.evidence # {})

DerivedFacts(n) ==
  IsLinked(n) /\ stamped[n].facts = {} /\ LastOfId(n) =>
    \A m \in DOMAIN stamped :
      stamped[m].id \in stamped[n].from /\ LastOfId(m) => stamped[m].facts \subseteq linked[n].facts

LinkedEdges ==
  /\ DOMAIN linked = DOMAIN stamped
  /\ \A n \in DOMAIN stamped : LinkedEdge(n)
  /\ \A n \in DOMAIN stamped : DerivedFacts(n)

(* A line is there once an edge is written, and refers to what is there.   *)
Line(id) ==
  /\ DOMAIN lines[id] = Fields
  /\ lines[id].facts \subseteq FactIds /\ lines[id].evidence \subseteq evidence
  /\ lines[id].nature = "derived" => lines[id].evidence # {}

HasLine(n) ==
  LET e == linked[n] IN
  /\ e.id \in DOMAIN lines
  /\ e.permissions \subseteq lines[e.id].permissions
  /\ e.conditions \subseteq lines[e.id].conditions
  /\ e.facts \subseteq lines[e.id].facts

WrittenLines ==
  /\ stage \in {"write", "done"} => receipts = evidence
  /\ stage \notin {"write", "done"} => DOMAIN lines = {}
  /\ \A id \in DOMAIN lines : Line(id)
  /\ \A n \in DOMAIN stamped : IsWritten(n) => HasLine(n)

ExportInv == ReadTypes /\ Backed /\ LinkedEdges /\ WrittenLines

-----------------------------------------------------------------------------
LEMMA ExportStarts == ExportInit => ExportInv
<1> SUFFICES ASSUME ExportInit PROVE ExportInv
  OBVIOUS
<1>1. PICK n \in 0..MaxEdges : stamped \in [1..n -> EdgePool]
  BY Zenon DEF ExportInit
<1>2. Len(stamped) = n /\ n \in Nat /\ DOMAIN stamped = 1..n
  BY <1>1, ExportAssumption
<1>3. \A k \in DOMAIN stamped : stamped[k].facts \subseteq FactIds
  BY Zenon DEF ExportInit
<1>4. ReadTypes
  BY <1>1, <1>2, <1>3 DEF ExportInit, ReadTypes
<1>5. Backed
  BY DEF ExportInit, Backed
<1>6. LinkedEdges
  <2>1. \A k \in DOMAIN stamped : ~IsLinked(k)
    BY DEF ExportInit, IsLinked
  <2>2. \A k \in DOMAIN stamped : DOMAIN stamped[k] = Fields
    BY <1>4, ExportAssumption DEF ReadTypes, Fields
  <2>3. linked = stamped
    BY DEF ExportInit
  <2> QED BY <1>3, <2>1, <2>2, <2>3 DEF LinkedEdges, LinkedEdge, DerivedFacts
<1>7. WrittenLines
  BY DEF ExportInit, WrittenLines, IsWritten
<1> QED BY <1>4, <1>5, <1>6, <1>7 DEF ExportInv

(* The record of the last edge of an id is that edge's.                    *)
LEMMA RecordOfLast ==
  ASSUME ReadTypes, NEW n \in DOMAIN stamped, LastOfId(n)
  PROVE  LastRecord(stamped[n].id) = linked[n]
<1> DEFINE Same == {m \in DOMAIN stamped : stamped[m].id = stamped[n].id}
<1>1. n \in Same /\ Same \subseteq 1..Len(stamped) /\ \A m \in Same : n >= m
  BY DEF ReadTypes, LastOfId
<1>2. Max(Same) \in Same /\ \A m \in Same : Max(Same) >= m
  BY <1>1, Zenon DEF Max
<1>3. Max(Same) = n
  <2> HIDE DEF Same
  <2> QED BY <1>1, <1>2 DEF ReadTypes
<1> QED BY <1>3, Zenon DEF LastRecord

LEMMA RecordIsLinked ==
  ASSUME ReadTypes, NEW id \in EdgeIds
  PROVE  \E n \in DOMAIN stamped : LastRecord(id) = linked[n] /\ stamped[n].id = id
<1> DEFINE Same == {m \in DOMAIN stamped : stamped[m].id = id}
<1>1. Same \in SUBSET (0..Len(stamped)) /\ Same # {} /\ Len(stamped) \in Nat
  BY DEF ReadTypes, EdgeIds
<1>2. Max(Same) \in Same
  <2> HIDE DEF Same
  <2> QED BY <1>1, GreatestNumber
<1> QED BY <1>2, Zenon DEF LastRecord

(* What an edge is linked to: facts that are there, its own among them,    *)
(* and, when it has none, those of the edges it is derived from.           *)
LEMMA FactsFound ==
  ASSUME ReadTypes, Backed, LinkedEdges, NEW n \in DOMAIN stamped, ~IsLinked(n)
  PROVE  /\ FactsOf(stamped[n]) \subseteq FactIds /\ stamped[n].facts \subseteq FactsOf(stamped[n])
         /\ stamped[n].facts = {} /\ LastOfId(n) =>
              \A m \in DOMAIN stamped :
                stamped[m].id \in stamped[n].from /\ LastOfId(m)
                  => stamped[m].facts \subseteq FactsOf(stamped[n])
<1> DEFINE e == stamped[n]
           derived == UNION {LastRecord(d).facts : d \in StandsOn(e.id)}
<1>1. \A d \in EdgeIds : LastRecord(d).facts \subseteq FactIds
  BY RecordIsLinked DEF LinkedEdges, LinkedEdge
<1>2. derived \subseteq FactIds
  BY <1>1 DEF StandsOn
<1>3. FactsBetween(e.source, e.target) \subseteq FactIds
  BY DEF FactsBetween, Backed
<1>4. FactsOf(e) \subseteq FactIds /\ e.facts \subseteq FactsOf(e)
  <2>1. e.facts \subseteq FactIds
    BY DEF ReadTypes
  <2> HIDE DEF derived
  <2>2. FactsOf(e) = IF e.facts # {} THEN e.facts ELSE IF derived # {} THEN derived
                     ELSE FactsBetween(e.source, e.target)
    BY DEF FactsOf, derived
  <2> QED BY <1>2, <1>3, <2>1, <2>2
<1>5. ASSUME e.facts = {}, LastOfId(n), NEW m \in DOMAIN stamped,
             stamped[m].id \in e.from, LastOfId(m)
      PROVE  stamped[m].facts \subseteq FactsOf(e)
  <2>1. LastRecord(e.id) = linked[n] /\ linked[n].facts = {} /\ linked[n].from = e.from
    BY <1>5, RecordOfLast DEF LinkedEdges, LinkedEdge
  <2>2. LastRecord(stamped[m].id) = linked[m] /\ stamped[m].facts \subseteq linked[m].facts
    BY <1>5, RecordOfLast DEF LinkedEdges, LinkedEdge
  <2>3. stamped[m].id \in DerivedFrom(e.id)
    BY <1>5, <2>1 DEF DerivedFrom, EdgeIds
  <2>4. stamped[m].id \in StandsOn(e.id)
    BY <2>3 DEF StandsOn, EdgeIds
  <2>5. stamped[m].facts \subseteq derived
    BY <2>2, <2>4
  <2> HIDE DEF derived
  <2>6. FactsOf(e) = IF derived # {} THEN derived ELSE FactsBetween(e.source, e.target)
    BY <1>5 DEF FactsOf, derived
  <2> QED BY <2>5, <2>6
<1> QED BY <1>4, <1>5

-----------------------------------------------------------------------------
(* One lemma for each step.                                                *)

ReadSame == /\ ops' = ops /\ observed' = observed /\ stamped' = stamped

LEMMA SameReading ==
  ASSUME ReadSame
  PROVE  /\ FactIds' = FactIds /\ EdgeIds' = EdgeIds
         /\ \A n : LastOfId(n)' <=> LastOfId(n)
BY DEF ReadSame, FactIds, EdgeIds, LastOfId

LEMMA ReadKept ==
  ASSUME ReadTypes, ReadSame, stage' \in {"ledger", "facts", "edges", "write", "done"},
         at' \in Nat \ {0}
  PROVE  ReadTypes'
BY SameReading DEF ReadTypes, ReadSame

(* Before the edges nothing is linked or written.                          *)
LEMMA FactsStep ==
  ASSUME ExportInv, ReadOperation \/ LinkFact
  PROVE  ExportInv'
<1>1. /\ ReadSame /\ linked' = linked /\ receipts' = receipts /\ lines' = lines
      /\ stage \in {"ledger", "facts"} /\ stage' = stage /\ at' = at + 1
      /\ evidence \subseteq evidence'
  BY DEF ReadOperation, LinkFact, Walking, ReadSame
<1>2. ReadTypes'
  BY <1>1, ReadKept DEF ExportInv, ReadTypes
<1>3. Backed'
  <2>1. CASE ReadOperation
    <3>1. ops[at].type \in Types
      BY <2>1 DEF ReadOperation, Walking, Types, ExportInv, ReadTypes
    <3>2. /\ byType' = [byType EXCEPT ![ops[at].type] = @ \cup {Receipt(ops[at])}]
          /\ evidence' = evidence \cup {Receipt(ops[at])}
          /\ backing' = backing /\ between' = between
      BY <2>1 DEF ReadOperation
    <3> QED BY <1>1, <3>1, <3>2, SameReading DEF ExportInv, Backed
  <2>2. CASE LinkFact
    <3> DEFINE f == observed[at]
               ends == <<ResolveRef(f.source), ResolveRef(f.target)>>
    <3>1. /\ backing' = [backing EXCEPT ![f.id] = Backing(f)]
          /\ between' = [p \in DOMAIN between \cup {ends} |->
                           FactsBetween(p[1], p[2]) \cup IF p = ends THEN {f.id} ELSE {}]
          /\ evidence' = evidence /\ byType' = byType /\ f.id \in FactIds
      BY <2>2 DEF LinkFact, Walking, FactIds
    <3>2. Backing(f) \subseteq evidence
      BY DEF Backing, ExportInv, Backed
    <3>3. \A p : FactsBetween(p[1], p[2]) \subseteq FactIds
      BY DEF FactsBetween, ExportInv, Backed
    <3>4. \A p \in DOMAIN between' : between'[p] \subseteq FactIds
      <4> HIDE DEF f, ends
      <4> QED BY <3>1, <3>3
    <3>5. DOMAIN backing' = FactIds /\ \A g \in FactIds : backing'[g] \subseteq evidence
      <4> HIDE DEF f, ends
      <4> QED BY <3>1, <3>2 DEF ExportInv, Backed
    <3> HIDE DEF f, ends
    <3> QED BY <1>1, <3>1, <3>4, <3>5, SameReading DEF ExportInv, Backed
  <2> QED BY <2>1, <2>2
<1>4. LinkedEdges'
  <2>1. \A n : ~IsLinked(n) /\ ~IsLinked(n)'
    BY <1>1 DEF IsLinked
  <2> QED BY <1>1, <2>1, SameReading DEF ExportInv, LinkedEdges, LinkedEdge, DerivedFacts, ReadSame
<1>5. WrittenLines'
  BY <1>1 DEF ExportInv, WrittenLines, IsWritten
<1> QED BY <1>2, <1>3, <1>4, <1>5 DEF ExportInv

(* The edge that is linked, those before it and those after it.            *)
LEMMA LinkStep ==
  ASSUME ExportInv, LinkEdge
  PROVE  ExportInv'
<1> DEFINE e == stamped[at]
           known == UNION {backing[f] : f \in FactsOf(e) \cap FactIds}
           made == IF known = {} /\ (e.nature = "derived" \/ e.inline # "none")
                   THEN {Synthetic(e)} ELSE {}
           found == FactsOf(e)
<1>1. /\ ReadSame /\ byType' = byType /\ backing' = backing /\ between' = between
      /\ receipts' = receipts /\ lines' = lines
      /\ stage = "edges" /\ stage' = stage /\ at' = at + 1 /\ at \in DOMAIN stamped
      /\ linked' = [linked EXCEPT ![at].facts = found, ![at].evidence = known \cup made]
      /\ evidence' = evidence \cup made
  BY DEF LinkEdge, Walking, ReadSame
<1>2. ReadTypes'
  BY <1>1, ReadKept DEF ExportInv, ReadTypes
<1>3. Backed'
  <2> HIDE DEF made
  <2> QED BY <1>1, SameReading DEF ExportInv, Backed
<1>4. /\ found \subseteq FactIds /\ e.facts \subseteq found
      /\ e.facts = {} /\ LastOfId(at) =>
           \A m \in DOMAIN stamped :
             stamped[m].id \in e.from /\ LastOfId(m) => stamped[m].facts \subseteq found
  <2>1. ~IsLinked(at)
    BY <1>1 DEF IsLinked, ExportInv, ReadTypes
  <2> QED BY <1>1, <2>1, FactsFound DEF ExportInv
<1>5. known \subseteq evidence /\ (e.nature = "derived" => known \cup made # {})
  BY DEF ExportInv, Backed
<1> HIDE DEF known, made, found
<1>6. LinkedEdges'
  <2>1. PICK here \in DOMAIN stamped : here = at
    BY <1>1
  <2>2. DOMAIN linked' = DOMAIN stamped' /\ \A n \in DOMAIN stamped : n # here => linked'[n] = linked[n]
    BY <1>1, <2>1 DEF ExportInv, LinkedEdges, ReadSame
  <2>3. /\ DOMAIN linked'[here] = Fields
        /\ \A x \in Fields \ {"facts", "evidence"} : linked'[here][x] = linked[here][x]
        /\ linked'[here].facts = found /\ linked'[here].evidence = known \cup made
    BY <1>1, <2>1 DEF ExportInv, LinkedEdges, LinkedEdge, Fields
  <2>4. \A n \in DOMAIN stamped : n # here => (IsLinked(n)' <=> IsLinked(n))
    BY <1>1, <2>1 DEF IsLinked, ExportInv, ReadTypes
  <2>5. \A n \in DOMAIN stamped : LinkedEdge(n)'
    <3>1. LinkedEdge(here)'
      <4>1. linked'[here].id = linked[here].id /\ linked'[here].nature = linked[here].nature
            /\ linked'[here].from = linked[here].from
            /\ linked'[here].permissions = linked[here].permissions
            /\ linked'[here].conditions = linked[here].conditions
        BY <2>3 DEF Fields
      <4>2. linked[here].id = e.id /\ linked[here].nature = e.nature /\ linked[here].from = e.from
            /\ linked[here].permissions = e.permissions /\ linked[here].conditions = e.conditions
        BY <1>1, <2>1 DEF ExportInv, LinkedEdges, LinkedEdge
      <4>3. IsLinked(here)'
        BY <1>1, <2>1 DEF IsLinked, ExportInv, ReadTypes
      <4> QED
        BY <1>1, <2>1, <1>4, <1>5, <2>3, <4>1, <4>2, <4>3, SameReading DEF LinkedEdge, ReadSame
    <3>2. ASSUME NEW n \in DOMAIN stamped, n # here
          PROVE  LinkedEdge(n)'
      BY <1>1, <2>1, <2>2, <2>4, <3>2, SameReading DEF ExportInv, LinkedEdges, LinkedEdge, ReadSame
    <3> QED BY <3>1, <3>2
  <2>6. \A n \in DOMAIN stamped : DerivedFacts(n)'
    <3>1. DerivedFacts(here)'
      BY <1>1, <2>1, <1>4, <2>3, SameReading DEF DerivedFacts, ReadSame
    <3>2. ASSUME NEW n \in DOMAIN stamped, n # here
          PROVE  DerivedFacts(n)'
      BY <1>1, <2>1, <2>2, <2>4, <3>2, SameReading DEF ExportInv, LinkedEdges, DerivedFacts, ReadSame
    <3> QED BY <3>1, <3>2
  <2> QED BY <1>1, <2>1, <2>2, <2>5, <2>6 DEF LinkedEdges, ReadSame
<1>7. WrittenLines'
  BY <1>1 DEF ExportInv, WrittenLines, IsWritten
<1> QED BY <1>2, <1>3, <1>6, <1>7 DEF ExportInv

(* From one loop to the next: the edges are all linked, or all written, or *)
(* none is.                                                                *)
LEMMA LoopStep ==
  ASSUME ExportInv, NextLoop \/ WriteEvidence
  PROVE  ExportInv'
<1>1. /\ ReadSame /\ linked' = linked /\ evidence' = evidence /\ lines' = lines
      /\ byType' = byType /\ backing' = backing /\ between' = between /\ at' = 1
  BY DEF NextLoop, WriteEvidence, After, ReadSame
<1>2. \/ stage = "ledger" /\ stage' = "facts" /\ receipts' = receipts
      \/ stage = "facts" /\ stage' = "edges" /\ receipts' = receipts
      \/ stage = "edges" /\ stage' = "write" /\ receipts' = evidence /\ at > Len(stamped)
      \/ stage = "write" /\ stage' = "done" /\ receipts' = receipts /\ at > Len(stamped)
  BY DEF NextLoop, WriteEvidence, After
<1>3. ReadTypes'
  BY <1>1, <1>2, ReadKept
     DEF ExportInv
<1>4. Backed'
  BY <1>1, SameReading DEF ExportInv, Backed
<1>5. \A n \in DOMAIN stamped : (IsLinked(n)' <=> IsLinked(n)) /\ (IsWritten(n)' <=> IsWritten(n))
  BY <1>1, <1>2 DEF ExportInv, ReadTypes, IsLinked, IsWritten
<1>6. LinkedEdges'
  BY <1>1, <1>5, SameReading DEF ExportInv, LinkedEdges, LinkedEdge, DerivedFacts, ReadSame
<1>7. WrittenLines'
  <2>1. (\A id \in DOMAIN lines : Line(id))' /\ (stage' \notin {"write", "done"} => DOMAIN lines' = {})
    BY <1>1, <1>2, SameReading DEF ExportInv, WrittenLines, Line
  <2>2. \A n \in DOMAIN stamped : (IsWritten(n) => HasLine(n))'
    BY <1>1, <1>5 DEF ExportInv, WrittenLines, HasLine
  <2>3. stage' \in {"write", "done"} => receipts' = evidence'
    BY <1>1, <1>2 DEF ExportInv, WrittenLines
  <2> QED BY <1>1, <2>1, <2>2, <2>3 DEF WrittenLines, ReadSame
<1> QED BY <1>3, <1>4, <1>6, <1>7 DEF ExportInv

LEMMA WriteStep ==
  ASSUME ExportInv, WriteEdge
  PROVE  ExportInv'
<1>1. /\ ReadSame /\ linked' = linked /\ evidence' = evidence /\ receipts' = receipts
      /\ byType' = byType /\ backing' = backing /\ between' = between
      /\ stage = "write" /\ stage' = stage /\ at' = at + 1
  BY DEF WriteEdge, Walking, ReadSame
<1>2. PICK here \in DOMAIN stamped : here = at
  BY DEF WriteEdge, Walking
<1>3. PICK e : e = linked[here]
  OBVIOUS
<1>4. lines' = [id \in DOMAIN lines \cup {e.id} |->
                  IF id # e.id THEN lines[id]
                  ELSE IF id \in DOMAIN lines THEN Enriched(lines[id], e) ELSE e]
  BY <1>2, <1>3 DEF WriteEdge
<1>5. ReadTypes'
  BY <1>1, ReadKept DEF ExportInv, ReadTypes
<1>6. Backed'
  BY <1>1, SameReading DEF ExportInv, Backed
<1>7. /\ \A n \in DOMAIN stamped : IsLinked(n) /\ IsLinked(n)'
      /\ \A n \in DOMAIN stamped : n # here => (IsWritten(n)' <=> IsWritten(n))
  BY <1>1, <1>2 DEF ExportInv, ReadTypes, IsLinked, IsWritten
<1>8. LinkedEdges'
  BY <1>1, <1>7, SameReading DEF ExportInv, LinkedEdges, LinkedEdge, DerivedFacts, ReadSame
<1>9. /\ DOMAIN e = Fields /\ e.facts \subseteq FactIds /\ e.evidence \subseteq evidence
      /\ e.nature = "derived" => e.evidence # {}
  BY <1>2, <1>3, <1>7 DEF ExportInv, LinkedEdges, LinkedEdge
<1>10. ASSUME NEW id \in DOMAIN lines
       PROVE  LET l == Enriched(lines[id], e) IN
              /\ DOMAIN l = Fields /\ l.nature = lines[id].nature
              /\ l.evidence = lines[id].evidence /\ l.facts = lines[id].facts \cup e.facts
              /\ l.permissions = lines[id].permissions \cup e.permissions
              /\ l.conditions = lines[id].conditions \cup e.conditions
  <2>1. DOMAIN lines[id] = Fields
    BY DEF ExportInv, WrittenLines, Line
  <2> QED BY <2>1 DEF Enriched, Fields
<1>11. \A id \in DOMAIN lines' : Line(id)'
  <2>1. ASSUME NEW id \in DOMAIN lines', id # e.id
        PROVE  Line(id)'
    <3>1. id \in DOMAIN lines /\ lines'[id] = lines[id] /\ Line(id)
      BY <1>4, <2>1 DEF ExportInv, WrittenLines
    <3> QED BY <1>1, <3>1, SameReading DEF Line
  <2>2. Line(e.id)'
    <3>1. CASE e.id \notin DOMAIN lines
      BY <1>1, <1>4, <1>9, <3>1, SameReading DEF Line
    <3>2. CASE e.id \in DOMAIN lines
      <4>1. PICK id \in DOMAIN lines : id = e.id
        BY <3>2
      <4>2. lines'[id] = Enriched(lines[id], e) /\ Line(id)
        BY <1>4, <4>1 DEF ExportInv, WrittenLines
      <4> QED BY <1>1, <1>9, <1>10, <4>1, <4>2, SameReading DEF Line
    <3> QED BY <3>1, <3>2
  <2> QED BY <2>1, <2>2
<1>12. \A n \in DOMAIN stamped : (IsWritten(n) => HasLine(n))'
  <2>1. ASSUME NEW id \in DOMAIN lines
        PROVE  /\ id \in DOMAIN lines' /\ lines[id].permissions \subseteq lines'[id].permissions
               /\ lines[id].conditions \subseteq lines'[id].conditions
               /\ lines[id].facts \subseteq lines'[id].facts
    <3>1. CASE id # e.id
      BY <1>4, <3>1
    <3>2. CASE id = e.id
      <4>1. lines'[id] = Enriched(lines[id], e) /\ id \in DOMAIN lines'
        BY <1>4, <3>2
      <4> QED BY <1>10, <4>1
    <3> QED BY <3>1, <3>2
  <2>2. ASSUME NEW n \in DOMAIN stamped, n # here, IsWritten(n)'
        PROVE  HasLine(n)'
    <3>1. HasLine(n)
      BY <1>7, <2>2 DEF ExportInv, WrittenLines
    <3> QED BY <1>1, <2>1, <3>1 DEF HasLine
  <2>3. HasLine(here)'
    <3>1. linked'[here] = e
      BY <1>1, <1>3
    <3>2. CASE e.id \notin DOMAIN lines
      BY <1>4, <3>1, <3>2 DEF HasLine
    <3>3. CASE e.id \in DOMAIN lines
      <4>1. PICK id \in DOMAIN lines : id = e.id
        BY <3>3
      <4>2. lines'[id] = Enriched(lines[id], e) /\ id \in DOMAIN lines'
        BY <1>4, <4>1
      <4> QED BY <1>10, <3>1, <4>1, <4>2 DEF HasLine
    <3> QED BY <3>2, <3>3
  <2> QED BY <2>2, <2>3
<1>13. WrittenLines'
  BY <1>1, <1>11, <1>12 DEF ExportInv, WrittenLines, ReadSame
<1> QED BY <1>5, <1>6, <1>8, <1>13 DEF ExportInv

(* In every state of an export what is written so far holds together.      *)
THEOREM ExportHolds == ExportSpec => []ExportInv
<1>1. ExportInit => ExportInv
  BY ExportStarts
<1>2. ExportInv /\ [ExportNext]_exportVars => ExportInv'
  <2> SUFFICES ASSUME ExportInv, [ExportNext]_exportVars PROVE ExportInv'
    OBVIOUS
  <2>1. CASE UNCHANGED exportVars
    <3>1. /\ ops' = ops /\ observed' = observed /\ stamped' = stamped /\ linked' = linked
          /\ stage' = stage /\ at' = at /\ evidence' = evidence /\ byType' = byType
          /\ backing' = backing /\ between' = between /\ receipts' = receipts /\ lines' = lines
      BY <2>1 DEF exportVars
    <3>2. /\ \A n : IsLinked(n)' <=> IsLinked(n)
          /\ \A n : IsWritten(n)' <=> IsWritten(n)
      BY <3>1 DEF IsLinked, IsWritten
    <3>3. ReadTypes' /\ Backed'
      BY <3>1 DEF ExportInv, ReadTypes, Backed, FactIds
    <3>4. LinkedEdges'
      BY <3>1, <3>2 DEF ExportInv, LinkedEdges, LinkedEdge, DerivedFacts, LastOfId, FactIds
    <3>5. WrittenLines'
      BY <3>1, <3>2 DEF ExportInv, WrittenLines, Line, HasLine, FactIds
    <3> QED BY <3>3, <3>4, <3>5 DEF ExportInv
  <2> QED BY <2>1, FactsStep, LinkStep, LoopStep, WriteStep DEF ExportNext
<1> QED BY <1>1, <1>2, PTL DEF ExportSpec

(* Whatever a line refers to is a line, and a derived edge has evidence,   *)
(* however facts, evidence and edges are linked (emit).                    *)
THEOREM ExportReferencesResolve == ExportSpec => []ReferencesResolve
<1>1. ExportInv => ReferencesResolve
  BY DEF ExportInv, Backed, WrittenLines, Line, ReferencesResolve
<1> QED BY <1>1, ExportHolds, PTL

(* Edges that share an id lose neither permissions nor conditions nor      *)
(* facts, and an edge without facts of its own gets those of the edges it  *)
(* is derived from, in whatever order they are listed (resolveFacts).      *)
THEOREM ExportMergeLosesNothing == ExportSpec => []MergeLosesNothing
<1>1. ExportInv => MergeLosesNothing
  <2> SUFFICES ASSUME ExportInv, stage = "done", NEW n \in DOMAIN stamped
               PROVE  LET e == stamped[n] IN
                      /\ e.id \in DOMAIN lines
                      /\ e.permissions \subseteq lines[e.id].permissions
                      /\ e.conditions \subseteq lines[e.id].conditions
                      /\ e.facts \subseteq lines[e.id].facts
                      /\ e.facts = {} /\ LastOfId(n) =>
                           \A m \in DOMAIN stamped :
                             stamped[m].id \in e.from /\ LastOfId(m)
                               => stamped[m].facts \subseteq lines[e.id].facts
    BY DEF MergeLosesNothing
  <2>1. IsLinked(n) /\ IsWritten(n)
    BY DEF IsLinked, IsWritten
  <2>2. LinkedEdge(n) /\ DerivedFacts(n) /\ HasLine(n)
    BY <2>1 DEF ExportInv, LinkedEdges, WrittenLines
  <2>3. /\ linked[n].id = stamped[n].id /\ stamped[n].facts \subseteq linked[n].facts
        /\ linked[n].permissions = stamped[n].permissions
        /\ linked[n].conditions = stamped[n].conditions
    BY <2>2 DEF LinkedEdge
  <2> QED BY <2>1, <2>2, <2>3 DEF HasLine, DerivedFacts
<1> QED BY <1>1, ExportHolds, PTL

=============================================================================
