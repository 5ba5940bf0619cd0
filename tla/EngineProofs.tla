---------------------------- MODULE EngineProofs ----------------------------
(***************************************************************************)
(* Proofs about how the graph is made: about the evaluators of GCP and     *)
(* Azure, for any estate, any table and any order in which the facts and   *)
(* the grants are met; and about Build, the graph they add to, for any     *)
(* evidence bundle in any order.                                           *)
(***************************************************************************)
EXTENDS GcpEvaluator, AzureEvaluator, Build, FiniteSetTheorems, WellFoundedInduction, TLAPS

-----------------------------------------------------------------------------
(* GCP.  What each loop has gathered: roles are settled before a binding   *)
(* is read, the grants hold what the bindings filed under them give.       *)

GcpFiled ==
  /\ gcpPhase \in {"roles", "bindings", "emit", "done"}
  /\ gcpFacts \subseteq GcpFactPool
  /\ gcpPhase = "roles" => Bindings = {} /\ DOMAIN grants = {}
  /\ \A b \in Bindings :
       PermsOf(b.role) # {} =>
         /\ KeyOf(b) \in DOMAIN grants
         /\ PermsOf(b.role) \subseteq grants[KeyOf(b)].perms
         /\ ~b.condition => grants[KeyOf(b)].anyUncond
         /\ b.condition => grants[KeyOf(b)].anyCond
  /\ \A key \in DOMAIN grants :
       /\ \A perm \in grants[key].perms : \E b \in Bindings : KeyOf(b) = key /\ perm \in PermsOf(b.role)
       /\ grants[key].anyUncond =>
            \E b \in Bindings : KeyOf(b) = key /\ PermsOf(b.role) # {} /\ ~b.condition

(* Every offer the grants make, and the edge one makes.                    *)
AllOffers ==
  UNION {UNION {{Offer(i, key, n) : n \in Reached(key, GcpCapabilities[i])} :
            i \in Carrying(key)} :
         key \in {k \in DOMAIN grants : Granting(k)}}

EdgeFor(o, s) == GcpEdgeId(GcpCapabilities[o.row].edge, s, GcpNodes[o.node].id)

Taken(o) ==
  \A s \in ResolveMember(o.member) \ {GcpNodes[o.node].id} :
    /\ EdgeFor(o, s) \in DOMAIN gcpEdges
    /\ ~o.conditional => gcpEdges[EdgeFor(o, s)] = "ACTIVE"

GcpOffered ==
  /\ gcpPhase \in {"roles", "bindings"} => offers = {} /\ DOMAIN gcpEdges = {}
  /\ gcpPhase \in {"emit", "done"} =>
       /\ offers \subseteq AllOffers
       /\ \A o \in AllOffers : o \in offers \/ Taken(o)
       /\ \A id \in DOMAIN gcpEdges :
            \E o \in AllOffers : \E s \in ResolveMember(o.member) :
              id = EdgeFor(o, s) /\ (gcpEdges[id] = "ACTIVE" => ~o.conditional)
  /\ gcpPhase = "done" => offers = {}

GcpInv == GcpFiled /\ GcpOffered

-----------------------------------------------------------------------------

(* A member stands for one node at most.                                   *)
LEMMA OneNode ==
  ASSUME NEW m, NEW s \in ResolveMember(m)
  PROVE  ResolveMember(m) = {s}
<1>1. ByName(Members[m].name) = {} \/ \E x : ByName(Members[m].name) = {x}
  BY DEF ByName
<1> QED BY <1>1 DEF ResolveMember

(* What a plain binding on one resource covers is all it reaches.          *)
LEMMA PlainReach ==
  ASSUME NEW b, Plain(b), b.level # "project", NEW n \in Indices, Covers(b, n)
  PROVE  Resource(b.target) = {n}
<1> DEFINE named == {m \in Indices : b.target \in NamesOf(m)}
<1>1. n \in named
  BY DEF Covers, NamesOf
<1>2. Cardinality(named) = 1
  BY DEF Plain
<1>3. IsFiniteSet(named)
  <2>1. IsFiniteSet(Indices)
    BY GcpAssumption, FS_Interval DEF Indices
  <2> QED BY <2>1, FS_Subset
<1>4. named = {n}
  <2> HIDE DEF named
  <2>1. PICK x : named = {x}
    BY <1>2, <1>3, FS_Singleton
  <2> QED BY <1>1, <2>1
<1>5. n \in Nat
  BY GcpAssumption DEF Indices
<1>6. Max({n}) = n
  BY <1>5 DEF Max
<1>7. ByName(b.target) = {n}
  BY <1>4, <1>6 DEF ByName
<1> QED BY <1>7 DEF Resource

LEMMA Offered ==
  ASSUME NEW o
  PROVE  o \in AllOffers <=>
           \E key \in DOMAIN grants : \E i \in Carrying(key) :
             \E n \in Reached(key, GcpCapabilities[i]) : Granting(key) /\ o = Offer(i, key, n)
BY DEF AllOffers

LEMMA OfferFields ==
  ASSUME NEW i, NEW key, NEW n
  PROVE  LET o == Offer(i, key, n)
         IN  /\ o.row = i /\ o.member = key.member /\ o.node = n
             /\ o.conditional = Conditional(grants[key])
BY DEF Offer

LEMMA GcpStarts ==
  GcpInit => GcpInv
BY DEF GcpInit, GcpInv, GcpFiled, GcpOffered, Bindings, NoKeys

LEMMA ReadRoleStep ==
  ASSUME GcpInv, NEW f \in GcpFactPool, ReadRole(f)
  PROVE  GcpInv'
<1>1. /\ gcpPhase = "roles" /\ gcpPhase' = "roles" /\ gcpFacts' = gcpFacts \cup {f}
      /\ f.kind = "role_permissions"
      /\ grants' = grants /\ offers' = offers /\ gcpEdges' = gcpEdges
  BY DEF ReadRole, Read
<1>2. Bindings = {} /\ DOMAIN grants = {} /\ offers = {} /\ DOMAIN gcpEdges = {}
  BY <1>1 DEF GcpInv, GcpFiled, GcpOffered
<1>3. Bindings' = {}
  BY <1>1, <1>2 DEF Bindings
<1>4. gcpFacts' \subseteq GcpFactPool
  BY <1>1 DEF GcpInv, GcpFiled
<1>5. GcpFiled'
  BY <1>1, <1>2, <1>3, <1>4 DEF GcpFiled
<1>6. GcpOffered'
  BY <1>1, <1>2 DEF GcpOffered
<1> QED BY <1>5, <1>6 DEF GcpInv

LEMMA ReadBindingStep ==
  ASSUME GcpInv, NEW f \in GcpFactPool, ReadBinding(f)
  PROVE  GcpInv'
<1> DEFINE key == KeyOf(f)
           g == IF key \in DOMAIN grants THEN grants[key] ELSE NoGrant
<1>1. /\ gcpPhase = "bindings" /\ gcpPhase' = "bindings" /\ gcpFacts' = gcpFacts \cup {f}
      /\ f.kind = "iam_binding" /\ f.condition \in BOOLEAN
      /\ roles' = roles /\ offers' = offers /\ gcpEdges' = gcpEdges
      /\ grants' = IF PermsOf(f.role) = {} THEN grants
                   ELSE WithKey(grants, key, MergePerms(g, PermsOf(f.role), f.condition))
  BY GcpAssumption DEF ReadBinding, Read
<1>2. Bindings' = Bindings \cup {f} /\ \A role : PermsOf(role)' = PermsOf(role)
  BY <1>1 DEF Bindings, PermsOf
<1>3. \A b : KeyOf(b)' = KeyOf(b)
  BY DEF KeyOf
<1>4. /\ \A b \in Bindings :
           PermsOf(b.role) # {} =>
             /\ KeyOf(b) \in DOMAIN grants
             /\ PermsOf(b.role) \subseteq grants[KeyOf(b)].perms
             /\ ~b.condition => grants[KeyOf(b)].anyUncond
             /\ b.condition => grants[KeyOf(b)].anyCond
      /\ \A k \in DOMAIN grants :
           /\ \A perm \in grants[k].perms : \E b \in Bindings : KeyOf(b) = k /\ perm \in PermsOf(b.role)
           /\ grants[k].anyUncond =>
                \E b \in Bindings : KeyOf(b) = k /\ PermsOf(b.role) # {} /\ ~b.condition
  BY DEF GcpInv, GcpFiled
<1>5. gcpFacts' \subseteq GcpFactPool
  BY <1>1 DEF GcpInv, GcpFiled
<1>6. GcpOffered'
  BY <1>1 DEF GcpInv, GcpOffered
<1>7. CASE PermsOf(f.role) = {}
  <2>1. grants' = grants
    BY <1>1, <1>7
  <2>2. \A b \in Bindings' : PermsOf(b.role) # {} => b \in Bindings
    BY <1>2, <1>7
  <2>3. GcpFiled'
    BY <1>1, <1>2, <1>3, <1>4, <1>5, <2>1, <2>2 DEF GcpFiled
  <2> QED BY <1>6, <2>3 DEF GcpInv
<1>8. CASE PermsOf(f.role) # {}
  <2> DEFINE new == MergePerms(g, PermsOf(f.role), f.condition)
  <2>1. /\ DOMAIN grants' = DOMAIN grants \cup {key} /\ grants'[key] = new
        /\ \A k \in DOMAIN grants : k # key => grants'[k] = grants[k]
    BY <1>1, <1>8 DEF WithKey
  <2>2. /\ new.perms = g.perms \cup PermsOf(f.role)
        /\ new.anyCond = (g.anyCond \/ f.condition)
        /\ new.anyUncond = (g.anyUncond \/ ~f.condition)
    BY DEF MergePerms
  <2>3. key \in DOMAIN grants => g = grants[key]
    OBVIOUS
  <2>4. key \notin DOMAIN grants => g.perms = {} /\ ~g.anyUncond
    BY DEF NoGrant
  <2>5. ASSUME NEW b \in Bindings', PermsOf(b.role) # {}
        PROVE  /\ KeyOf(b) \in DOMAIN grants'
               /\ PermsOf(b.role) \subseteq grants'[KeyOf(b)].perms
               /\ ~b.condition => grants'[KeyOf(b)].anyUncond
               /\ b.condition => grants'[KeyOf(b)].anyCond
    <3> HIDE DEF key, g, new
    <3>1. CASE KeyOf(b) # key
      <4>1. b \in Bindings
        BY <1>2, <3>1 DEF key
      <4> QED BY <1>4, <2>1, <2>5, <3>1, <4>1
    <3>2. CASE KeyOf(b) = key /\ b = f
      BY <1>1, <2>1, <2>2, <3>2
    <3>3. CASE KeyOf(b) = key /\ b # f
      <4>1. b \in Bindings /\ key \in DOMAIN grants
        BY <1>2, <1>4, <2>5, <3>3
      <4> QED BY <1>4, <2>1, <2>2, <2>3, <2>5, <3>3, <4>1
    <3> QED BY <3>1, <3>2, <3>3
  <2>6. ASSUME NEW k \in DOMAIN grants'
        PROVE  /\ \A perm \in grants'[k].perms :
                    \E b \in Bindings' : KeyOf(b) = k /\ perm \in PermsOf(b.role)
               /\ grants'[k].anyUncond =>
                    \E b \in Bindings' : KeyOf(b) = k /\ PermsOf(b.role) # {} /\ ~b.condition
    <3>1. CASE k # key
      <4>1. k \in DOMAIN grants /\ grants'[k] = grants[k]
        BY <2>1, <2>6, <3>1
      <4> QED BY <1>2, <1>4, <4>1
    <3>2. CASE k = key
      <4> HIDE DEF key, g, new
      <4>1. ASSUME NEW perm \in new.perms
            PROVE  \E b \in Bindings' : KeyOf(b) = key /\ perm \in PermsOf(b.role)
        <5>1. CASE perm \in PermsOf(f.role)
          BY <1>2, <5>1 DEF key
        <5>2. CASE perm \notin PermsOf(f.role)
          <6>1. perm \in g.perms /\ key \in DOMAIN grants /\ g = grants[key]
            BY <2>2, <2>3, <2>4, <4>1, <5>2
          <6> QED BY <1>2, <1>4, <6>1
        <5> QED BY <5>1, <5>2
      <4>2. ASSUME new.anyUncond
            PROVE  \E b \in Bindings' : KeyOf(b) = key /\ PermsOf(b.role) # {} /\ ~b.condition
        <5>1. CASE ~f.condition
          BY <1>2, <1>8, <5>1 DEF key
        <5>2. CASE f.condition
          <6>1. g.anyUncond /\ key \in DOMAIN grants /\ g = grants[key]
            BY <2>2, <2>3, <2>4, <4>2, <5>2
          <6> QED BY <1>2, <1>4, <6>1
        <5> QED BY <1>1, <5>1, <5>2
      <4> QED BY <2>1, <3>2, <4>1, <4>2
    <3> QED BY <3>1, <3>2
  <2>7. GcpFiled'
    <3> HIDE DEF key, g
    <3> QED BY <1>1, <1>2, <1>3, <1>5, <2>5, <2>6 DEF GcpFiled
  <2> QED BY <1>6, <2>7 DEF GcpInv
<1> QED BY <1>7, <1>8

(* What is filed does not change once the bindings are read.               *)
LEMMA FiledKept ==
  ASSUME GcpFiled, gcpFacts' = gcpFacts, roles' = roles, grants' = grants,
         gcpPhase' \in {"bindings", "emit", "done"}
  PROVE  /\ GcpFiled' /\ AllOffers' = AllOffers
         /\ \A o, s : EdgeFor(o, s)' = EdgeFor(o, s)
         /\ \A m : ResolveMember(m)' = ResolveMember(m)
<1>1. Bindings' = Bindings /\ \A role : PermsOf(role)' = PermsOf(role)
  BY DEF Bindings, PermsOf
<1>2. \A b : KeyOf(b)' = KeyOf(b)
  BY DEF KeyOf
<1>3. GcpFiled'
  BY <1>1, <1>2 DEF GcpFiled
<1>4. AllOffers' = AllOffers
  BY DEF AllOffers, Carrying, Offer, Reached, Granting, Resource, ByName, OfType
<1> QED BY <1>3, <1>4 DEF EdgeFor, ResolveMember, ByName

LEMMA TakeOfferStep ==
  ASSUME GcpInv, NEW o \in offers, TakeOffer(o)
  PROVE  GcpInv'
<1> DEFINE source == ResolveMember(o.member)
           node == GcpNodes[o.node].id
<1>1. /\ gcpPhase = "emit" /\ gcpPhase' = "emit" /\ offers' = offers \ {o}
      /\ gcpFacts' = gcpFacts /\ roles' = roles /\ grants' = grants
      /\ IF source \subseteq {node} THEN gcpEdges' = gcpEdges
         ELSE Emit(o, EdgeFor(o, CHOOSE s \in source : TRUE))
  BY DEF TakeOffer, EdgeFor
<1>2. /\ GcpFiled' /\ AllOffers' = AllOffers
      /\ \A x, s : EdgeFor(x, s)' = EdgeFor(x, s)
      /\ \A m : ResolveMember(m)' = ResolveMember(m)
  BY <1>1, FiledKept DEF GcpInv
<1>3. /\ offers \subseteq AllOffers
      /\ \A x \in AllOffers : x \in offers \/ Taken(x)
      /\ \A id \in DOMAIN gcpEdges :
           \E x \in AllOffers : \E s \in ResolveMember(x.member) :
             id = EdgeFor(x, s) /\ (gcpEdges[id] = "ACTIVE" => ~x.conditional)
  BY <1>1 DEF GcpInv, GcpOffered
<1>4. ASSUME DOMAIN gcpEdges \subseteq DOMAIN gcpEdges',
             \A id \in DOMAIN gcpEdges : gcpEdges[id] = "ACTIVE" => gcpEdges'[id] = "ACTIVE",
             NEW x, Taken(x)
      PROVE  Taken(x)'
  BY <1>2, <1>4 DEF Taken
<1>5. CASE source \subseteq {node}
  <2>1. gcpEdges' = gcpEdges /\ Taken(o)
    BY <1>1, <1>5 DEF Taken
  <2>2. \A x \in AllOffers : x \in offers' \/ Taken(x)'
    BY <1>1, <1>3, <1>4, <2>1
  <2>3. GcpOffered'
    BY <1>1, <1>2, <1>3, <2>1, <2>2 DEF GcpOffered
  <2> QED BY <1>2, <2>3 DEF GcpInv
<1>6. CASE ~(source \subseteq {node})
  <2>1. PICK s \in source : s # node
    BY <1>6
  <2>2. source = {s}
    BY <2>1, OneNode
  <2>3. (CHOOSE x \in source : TRUE) = s
    BY <2>2
  <2> DEFINE id == EdgeFor(o, s)
  <2>4. gcpEdges' = IF id \in DOMAIN gcpEdges /\ o.conditional THEN gcpEdges
                    ELSE WithKey(gcpEdges, id, StateOf(o.conditional))
    BY <1>1, <1>6, <2>3 DEF Emit
  <2> HIDE DEF id
  <2>5. /\ DOMAIN gcpEdges' = DOMAIN gcpEdges \cup {id}
        /\ \A k \in DOMAIN gcpEdges : k # id => gcpEdges'[k] = gcpEdges[k]
    BY <2>4 DEF WithKey
  <2>6. ~(id \in DOMAIN gcpEdges /\ o.conditional) => gcpEdges'[id] = StateOf(o.conditional)
    BY <2>4 DEF WithKey
  <2>7. id \in DOMAIN gcpEdges /\ o.conditional => gcpEdges'[id] = gcpEdges[id]
    BY <2>4
  <2>8. /\ DOMAIN gcpEdges \subseteq DOMAIN gcpEdges'
        /\ \A k \in DOMAIN gcpEdges : gcpEdges[k] = "ACTIVE" => gcpEdges'[k] = "ACTIVE"
    BY <2>5, <2>6, <2>7 DEF StateOf
  <2>9. id \in DOMAIN gcpEdges' /\ (~o.conditional => gcpEdges'[id] = "ACTIVE")
    BY <2>5, <2>6 DEF StateOf
  <2>10. Taken(o)'
    BY <1>2, <2>2, <2>9 DEF Taken, id
  <2>11. \A x \in AllOffers : x \in offers' \/ Taken(x)'
    BY <1>1, <1>3, <1>4, <2>8, <2>10
  <2>12. ASSUME NEW k \in DOMAIN gcpEdges'
         PROVE  \E x \in AllOffers : \E y \in ResolveMember(x.member) :
                  k = EdgeFor(x, y) /\ (gcpEdges'[k] = "ACTIVE" => ~x.conditional)
    <3>1. CASE k # id \/ (id \in DOMAIN gcpEdges /\ o.conditional)
      <4>1. k \in DOMAIN gcpEdges /\ gcpEdges'[k] = gcpEdges[k]
        BY <2>5, <2>7, <2>12, <3>1
      <4> QED BY <1>3, <4>1
    <3>2. CASE k = id /\ ~(id \in DOMAIN gcpEdges /\ o.conditional)
      <4>1. gcpEdges'[k] = "ACTIVE" => ~o.conditional
        BY <2>6, <3>2 DEF StateOf
      <4>2. o \in AllOffers /\ s \in ResolveMember(o.member) /\ k = EdgeFor(o, s)
        BY <1>3, <2>1, <3>2 DEF id
      <4> QED BY <4>1, <4>2
    <3> QED BY <3>1, <3>2
  <2>13. GcpOffered'
    BY <1>1, <1>2, <1>3, <2>11, <2>12 DEF GcpOffered
  <2> QED BY <1>2, <2>13 DEF GcpInv
<1> QED BY <1>5, <1>6

LEMMA GcpSteps ==
  ASSUME GcpInv, [GcpNext]_gcpVars
  PROVE  GcpInv'
<1>1. ASSUME NEW f \in GcpFactPool, ReadRole(f) PROVE GcpInv'
  BY <1>1, ReadRoleStep
<1>2. ASSUME NEW f \in GcpFactPool, ReadBinding(f) PROVE GcpInv'
  BY <1>2, ReadBindingStep
<1>3. CASE RolesRead
  <2>1. /\ gcpPhase = "roles" /\ gcpPhase' = "bindings" /\ gcpFacts' = gcpFacts /\ roles' = roles
        /\ grants' = grants /\ offers' = offers /\ gcpEdges' = gcpEdges
    BY <1>3 DEF RolesRead
  <2>2. GcpFiled'
    BY <2>1, FiledKept DEF GcpInv
  <2>3. GcpOffered'
    BY <2>1 DEF GcpInv, GcpOffered
  <2> QED BY <2>2, <2>3 DEF GcpInv
<1>4. CASE BindingsRead
  <2>1. /\ gcpPhase = "bindings" /\ gcpPhase' = "emit" /\ gcpFacts' = gcpFacts /\ roles' = roles
        /\ grants' = grants /\ offers' = AllOffers /\ gcpEdges' = gcpEdges
    BY <1>4 DEF BindingsRead, AllOffers
  <2>2. GcpFiled' /\ AllOffers' = AllOffers
    BY <2>1, FiledKept DEF GcpInv
  <2>3. DOMAIN gcpEdges = {}
    BY <2>1 DEF GcpInv, GcpOffered
  <2>4. GcpOffered'
    BY <2>1, <2>2, <2>3 DEF GcpOffered
  <2> QED BY <2>2, <2>4 DEF GcpInv
<1>5. ASSUME NEW o \in offers, TakeOffer(o) PROVE GcpInv'
  BY <1>5, TakeOfferStep
<1>6. CASE EvaluateGcpPermissions
  <2>1. /\ gcpPhase = "emit" /\ gcpPhase' = "done" /\ gcpFacts' = gcpFacts /\ roles' = roles
        /\ grants' = grants /\ offers' = offers /\ gcpEdges' = gcpEdges /\ offers = {}
    BY <1>6 DEF EvaluateGcpPermissions
  <2>2. /\ GcpFiled' /\ AllOffers' = AllOffers
        /\ \A o, s : EdgeFor(o, s)' = EdgeFor(o, s)
        /\ \A m : ResolveMember(m)' = ResolveMember(m)
    BY <2>1, FiledKept DEF GcpInv
  <2>3. \A o : Taken(o) => Taken(o)'
    BY <2>1, <2>2 DEF Taken
  <2>4. GcpOffered'
    BY <2>1, <2>2, <2>3 DEF GcpInv, GcpOffered
  <2> QED BY <2>2, <2>4 DEF GcpInv
<1>7. CASE UNCHANGED gcpVars
  <2>1. /\ gcpPhase' = gcpPhase /\ gcpFacts' = gcpFacts /\ roles' = roles
        /\ grants' = grants /\ offers' = offers /\ gcpEdges' = gcpEdges
    BY <1>7 DEF gcpVars
  <2>2. CASE gcpPhase = "roles"
    <3>1. Bindings' = Bindings
      BY <2>1 DEF Bindings
    <3>2. GcpFiled'
      BY <2>1, <2>2, <3>1 DEF GcpInv, GcpFiled
    <3>3. GcpOffered'
      BY <2>1, <2>2 DEF GcpInv, GcpOffered
    <3> QED BY <3>2, <3>3 DEF GcpInv
  <2>3. CASE gcpPhase # "roles"
    <3>1. gcpPhase' \in {"bindings", "emit", "done"}
      BY <2>1, <2>3 DEF GcpInv, GcpFiled
    <3>2. /\ GcpFiled' /\ AllOffers' = AllOffers
          /\ \A o, s : EdgeFor(o, s)' = EdgeFor(o, s)
          /\ \A m : ResolveMember(m)' = ResolveMember(m)
      BY <2>1, <3>1, FiledKept DEF GcpInv
    <3>3. \A o : Taken(o) => Taken(o)'
      BY <2>1, <3>2 DEF Taken
    <3>4. GcpOffered'
      BY <2>1, <3>2, <3>3 DEF GcpInv, GcpOffered
    <3> QED BY <3>2, <3>4 DEF GcpInv
  <2> QED BY <2>2, <2>3
<1> QED BY <1>1, <1>2, <1>3, <1>4, <1>5, <1>6, <1>7 DEF GcpNext

(* Whatever a plain binding gives has an edge in the end, an ACTIVE one    *)
(* where the binding has no condition.                                     *)
THEOREM GcpGrantsAreKept ==
  GcpSpec => []NoGrantMissed
<1>1. GcpInv => NoGrantMissed
  <2> SUFFICES ASSUME GcpInv, gcpPhase = "done", NEW b \in Bindings, Plain(b),
                      NEW i \in DOMAIN GcpCapabilities, NEW n \in Indices,
                      Gives(b, GcpCapabilities[i], n),
                      NEW s \in Holder(b) \ {GcpNodes[n].id}
               PROVE  LET id == GcpEdgeId(GcpCapabilities[i].edge, s, GcpNodes[n].id)
                      IN  id \in DOMAIN gcpEdges /\ (b.condition \/ gcpEdges[id] = "ACTIVE")
    BY DEF NoGrantMissed
  <2> DEFINE row == GcpCapabilities[i]
             key == KeyOf(b)
             o == Offer(i, key, n)
  <2>1. /\ GcpCapabilities[i].perm \in PermsOf(b.role) /\ OfType(n, row) /\ Covers(b, n)
    BY DEF Gives
  <2>2. /\ key \in DOMAIN grants /\ GcpCapabilities[i].perm \in grants[key].perms
        /\ ~b.condition => grants[key].anyUncond
    <3> HIDE DEF key
    <3> QED BY <2>1 DEF GcpInv, GcpFiled, key
  <2>3. i \in Carrying(key)
    BY <2>2 DEF Carrying
  <2>4. key.member = b.source /\ Granting(key) /\ s \in ResolveMember(b.source)
    BY DEF KeyOf, Granting, Holder
  <2>5. n \in Reached(key, row)
    <3>1. CASE b.level = "project"
      <4>1. key.level = "project" /\ key.on = b.account
        BY <3>1 DEF KeyOf
      <4> QED BY <2>1, <3>1, <4>1 DEF Reached, Covers
    <3>2. CASE b.level # "project"
      <4>1. key.level # "project" /\ key.on = b.target
        BY <3>2 DEF KeyOf
      <4>2. n \in Resource(b.target)
        BY <2>1, <3>2, PlainReach
      <4> QED BY <2>1, <4>1, <4>2 DEF Reached
    <3> QED BY <3>1, <3>2
  <2>6. /\ o.row = i /\ o.member = b.source /\ o.node = n
        /\ o.conditional = Conditional(grants[key])
    BY <2>4, OfferFields
  <2>7. o \in AllOffers
    <3> HIDE DEF key, o, row
    <3> QED BY <2>2, <2>3, <2>4, <2>5, Offered DEF o, row
  <2> HIDE DEF o, key
  <2>8. Taken(o)
    BY <2>7 DEF GcpInv, GcpOffered
  <2>9. EdgeFor(o, s) = GcpEdgeId(GcpCapabilities[i].edge, s, GcpNodes[n].id)
    BY <2>6 DEF EdgeFor
  <2>10. /\ EdgeFor(o, s) \in DOMAIN gcpEdges
         /\ ~o.conditional => gcpEdges[EdgeFor(o, s)] = "ACTIVE"
    BY <2>4, <2>6, <2>8 DEF Taken
  <2>11. ~b.condition => ~o.conditional
    BY <2>2, <2>6 DEF Conditional
  <2> QED BY <2>9, <2>10, <2>11
<1> QED BY <1>1, GcpStarts, GcpSteps, PTL DEF GcpSpec

(* And an edge stands for a binding that gives just that, in the binding's *)
(* own project, ACTIVE for one without a condition.                        *)
THEOREM GcpEdgesAreGranted ==
  GcpSpec => []NoGrantInvented
<1>1. GcpInv => NoGrantInvented
  <2> SUFFICES ASSUME GcpInv, \A b \in Bindings : Plain(b) /\ Exists(b),
                      NEW id \in DOMAIN gcpEdges
               PROVE  \E b \in Bindings, i \in DOMAIN GcpCapabilities, n \in Indices :
                        /\ id = GcpEdgeId(GcpCapabilities[i].edge, id.source, GcpNodes[n].id)
                        /\ id.source \in Holder(b)
                        /\ Gives(b, GcpCapabilities[i], n)
                        /\ gcpEdges[id] = "ACTIVE" => \E x \in Merged(b) : ~x.condition
    BY DEF NoGrantInvented
  <2>1. gcpPhase \in {"emit", "done"}
    BY DEF GcpInv, GcpFiled, GcpOffered
  <2>2. PICK o \in AllOffers : \E s \in ResolveMember(o.member) :
               id = EdgeFor(o, s) /\ (gcpEdges[id] = "ACTIVE" => ~o.conditional)
    BY <2>1 DEF GcpInv, GcpOffered
  <2>3. PICK s \in ResolveMember(o.member) :
               id = EdgeFor(o, s) /\ (gcpEdges[id] = "ACTIVE" => ~o.conditional)
    BY <2>2
  <2>4. PICK key \in DOMAIN grants : \E i, n :
              /\ i \in Carrying(key) /\ n \in Reached(key, GcpCapabilities[i])
              /\ Granting(key) /\ o = Offer(i, key, n)
    BY Offered
  <2>5. PICK i, n :
               /\ i \in Carrying(key) /\ n \in Reached(key, GcpCapabilities[i])
               /\ Granting(key) /\ o = Offer(i, key, n)
    BY <2>4
  <2>6. /\ o.row = i /\ o.member = key.member /\ o.node = n
        /\ o.conditional = Conditional(grants[key])
    BY <2>5, OfferFields
  <2>7. i \in DOMAIN GcpCapabilities /\ GcpCapabilities[i].perm \in grants[key].perms
    BY <2>5 DEF Carrying
  <2>8. PICK b \in Bindings : KeyOf(b) = key /\ GcpCapabilities[i].perm \in PermsOf(b.role)
    BY <2>7 DEF GcpInv, GcpFiled
  <2>9. n \in Indices /\ Covers(b, n)
    <3>1. CASE b.level = "project"
      <4>1. key.level = "project" /\ key.on = b.account
        BY <2>8, <3>1 DEF KeyOf
      <4> QED BY <2>5, <3>1, <4>1 DEF Reached, Covers
    <3>2. CASE b.level # "project"
      <4>1. key.level # "project" /\ key.on = b.target
        BY <2>8, <3>2 DEF KeyOf
      <4>2. PICK m \in Indices : Covers(b, m)
        BY <3>2 DEF Exists
      <4>3. Resource(b.target) = {m}
        BY <3>2, <4>2, PlainReach
      <4> QED BY <2>5, <4>1, <4>2, <4>3 DEF Reached
    <3> QED BY <3>1, <3>2
  <2>10. id = GcpEdgeId(GcpCapabilities[i].edge, s, GcpNodes[n].id) /\ id.source = s
    BY <2>3, <2>6 DEF EdgeFor, GcpEdgeId
  <2>11. key.member = b.source /\ s \in Holder(b)
    BY <2>3, <2>5, <2>6, <2>8 DEF KeyOf, Granting, Holder
  <2>12. OfType(n, GcpCapabilities[i])
    BY <2>5 DEF Reached
  <2>13. Gives(b, GcpCapabilities[i], n)
    BY <2>8, <2>9, <2>12 DEF Gives
  <2>14. ASSUME gcpEdges[id] = "ACTIVE"
         PROVE  \E x \in Merged(b) : ~x.condition
    <3>1. ~grants[key].anyCond \/ grants[key].anyUncond
      BY <2>3, <2>6, <2>14 DEF Conditional
    <3>2. CASE grants[key].anyUncond
      <4>1. PICK x \in Bindings : KeyOf(x) = key /\ PermsOf(x.role) # {} /\ ~x.condition
        BY <3>2 DEF GcpInv, GcpFiled
      <4> QED BY <2>8, <4>1 DEF Merged
    <3>3. CASE ~grants[key].anyCond
      <4>1. ~b.condition
        BY <2>8, <3>3 DEF GcpInv, GcpFiled
      <4> QED BY <2>8, <4>1 DEF Merged
    <3> QED BY <3>1, <3>2, <3>3
  <2> QED BY <2>7, <2>9, <2>10, <2>11, <2>13, <2>14
<1> QED BY <1>1, GcpStarts, GcpSteps, PTL DEF GcpSpec

-----------------------------------------------------------------------------
(* Azure.  Numbers first, for the descent down the management groups.      *)

(* Every set of numbers has a least one, which is what induction is.       *)
LEMMA LeastNumber ==
  ASSUME NEW S \in SUBSET Nat, S # {}
  PROVE  \E n \in S : \A m \in S : n <= m
<1> DEFINE Less == OpToRel(<, Nat)
<1>1. \A x, y \in Nat : <<x, y>> \in Less <=> x < y
  BY Zenon DEF OpToRel
<1>2. IsWellFoundedOn(Less, Nat)
  BY NatLessThanWellFounded
<1> HIDE DEF Less
<1>3. PICK n \in S : \A m \in S : <<m, n>> \notin Less
  BY <1>2, WFMin
<1>4. ASSUME NEW m \in S PROVE n <= m
  <2>1. m \in Nat /\ n \in Nat /\ <<m, n>> \notin Less
    BY <1>3, <1>4
  <2>2. ~(m < n)
    BY <1>1, <2>1
  <2> QED BY <2>1, <2>2
<1> QED BY <1>3, <1>4

LEMMA Induction ==
  ASSUME NEW S, 0 \in S, \A n \in Nat : n \in S => n + 1 \in S
  PROVE  Nat \subseteq S
<1> SUFFICES ASSUME NEW k \in Nat, k \notin S
             PROVE  FALSE
  OBVIOUS
<1>1. PICK n \in Nat \ S : \A m \in Nat \ S : n <= m
  BY LeastNumber
<1>2. n # 0 /\ n - 1 \in Nat /\ n - 1 \in S
  BY <1>1
<1> QED BY <1>1, <1>2

(* What the levels of a descent are, one from the other: the recursive     *)
(* definition has a function, which is put together of finite ones.        *)
Begins(s, g, k, below) ==
  below[0] = {g} /\ \A j \in 1..k : below[j] = GoneInto(s, below[j - 1])

LEMMA Beginnings ==
  ASSUME NEW s, NEW g
  PROVE  \A k \in Nat : \E below : Begins(s, g, k, below)
<1> DEFINE S == {k \in Nat : \E below : Begins(s, g, k, below)}
<1>1. 0 \in S
  <2>1. Begins(s, g, 0, [j \in {0} |-> {g}])
    BY DEF Begins
  <2> QED BY <2>1
<1>2. ASSUME NEW n \in Nat, n \in S
      PROVE  n + 1 \in S
  <2>1. PICK below : Begins(s, g, n, below)
    BY <1>2
  <2> DEFINE more == [j \in 0..(n + 1) |->
                        IF j = n + 1 THEN GoneInto(s, below[n]) ELSE below[j]]
  <2>2. more[0] = {g}
    BY <2>1 DEF Begins
  <2>3. ASSUME NEW j \in 1..(n + 1)
        PROVE  more[j] = GoneInto(s, more[j - 1])
    <3>1. CASE j = n + 1
      <4>1. j \in 0..(n + 1) /\ j - 1 = n /\ n \in 0..(n + 1) /\ n # n + 1
        BY <3>1
      <4>2. more[j] = GoneInto(s, below[n]) /\ more[j - 1] = below[n]
        BY <3>1, <4>1
      <4> QED BY <4>2
    <3>2. CASE j # n + 1
      <4>1. /\ j \in 1..n /\ j \in 0..(n + 1) /\ j - 1 \in 0..(n + 1) /\ j - 1 # n + 1
        BY <3>2
      <4>2. more[j] = below[j] /\ more[j - 1] = below[j - 1]
        BY <3>2, <4>1
      <4> QED BY <2>1, <4>1, <4>2 DEF Begins
    <3> QED BY <3>1, <3>2
  <2>4. Begins(s, g, n + 1, more)
    <3> HIDE DEF more
    <3> QED BY <2>2, <2>3 DEF Begins
  <2> QED BY <2>4
<1> HIDE DEF S
<1>3. Nat \subseteq S
  BY <1>1, <1>2, Induction
<1> QED BY <1>3 DEF S

LEMMA BeginningsAgree ==
  ASSUME NEW s, NEW g, NEW k \in Nat, NEW f, NEW h, Begins(s, g, k, f), Begins(s, g, k + 1, h)
  PROVE  f[k] = h[k]
<1> DEFINE S == {j \in Nat : j <= k => f[j] = h[j]}
<1>1. 0 \in S
  BY DEF Begins
<1>2. ASSUME NEW n \in Nat, n \in S
      PROVE  n + 1 \in S
  <2>1. CASE n + 1 <= k
    <3>1. n + 1 \in 1..k /\ n + 1 \in 1..(k + 1) /\ (n + 1) - 1 = n /\ n <= k
      BY <2>1
    <3>2. f[n] = h[n]
      BY <1>2, <3>1
    <3>3. f[n + 1] = GoneInto(s, f[n]) /\ h[n + 1] = GoneInto(s, h[n])
      <4>1. f[n + 1] = GoneInto(s, f[(n + 1) - 1]) /\ h[n + 1] = GoneInto(s, h[(n + 1) - 1])
        BY <3>1, Zenon DEF Begins
      <4> QED BY <3>1, <4>1
    <3> QED BY <3>2, <3>3
  <2>2. CASE ~(n + 1 <= k)
    BY <2>2
  <2> QED BY <2>1, <2>2
<1> HIDE DEF S
<1>3. Nat \subseteq S
  BY <1>1, <1>2, Induction
<1> QED BY <1>3 DEF S

LEMMA DescentLevels ==
  ASSUME NEW s, NEW g
  PROVE  /\ Descent(s, g)[0] = {g}
         /\ \A k \in Nat : Descent(s, g)[k + 1] = GoneInto(s, Descent(s, g)[k])
<1> DEFINE part == [k \in Nat |-> CHOOSE below : Begins(s, g, k, below)]
           whole == [k \in Nat |-> part[k][k]]
<1>1. \A k \in Nat : Begins(s, g, k, part[k])
  <2> SUFFICES ASSUME NEW k \in Nat
               PROVE  Begins(s, g, k, part[k])
    OBVIOUS
  <2>1. \E below : Begins(s, g, k, below)
    BY Beginnings
  <2>2. Begins(s, g, k, CHOOSE below : Begins(s, g, k, below))
    BY <2>1, Zenon
  <2> QED BY <2>2
<1> HIDE DEF part
<1>2. whole[0] = {g}
  BY <1>1 DEF Begins
<1>3. ASSUME NEW k \in Nat
      PROVE  whole[k + 1] = GoneInto(s, whole[k])
  <2>1. Begins(s, g, k, part[k]) /\ Begins(s, g, k + 1, part[k + 1])
    BY <1>1
  <2>2. part[k][k] = part[k + 1][k]
    BY <2>1, BeginningsAgree
  <2>3. k + 1 \in 1..(k + 1) /\ (k + 1) - 1 = k /\ k + 1 \in Nat
    OBVIOUS
  <2>4. part[k + 1][k + 1] = GoneInto(s, part[k + 1][(k + 1) - 1])
    BY <2>1, <2>3, Zenon DEF Begins
  <2> QED BY <2>2, <2>3, <2>4
<1> HIDE DEF whole
<1>4. whole = [k \in Nat |-> IF k = 0 THEN {g} ELSE GoneInto(s, whole[k - 1])]
  <2>1. DOMAIN whole = Nat /\ whole = [k \in Nat |-> whole[k]]
    BY DEF whole
  <2>2. ASSUME NEW k \in Nat
        PROVE  whole[k] = IF k = 0 THEN {g} ELSE GoneInto(s, whole[k - 1])
    <3>1. CASE k = 0
      BY <1>2, <3>1
    <3>2. CASE k # 0
      <4>1. k - 1 \in Nat /\ (k - 1) + 1 = k
        BY <3>2
      <4>2. whole[(k - 1) + 1] = GoneInto(s, whole[k - 1])
        BY <1>3, <4>1
      <4> QED BY <3>2, <4>1, <4>2
    <3> QED BY <3>1, <3>2
  <2> QED BY <2>1, <2>2
<1>5. \E below : below = [k \in Nat |-> IF k = 0 THEN {g} ELSE GoneInto(s, below[k - 1])]
  BY <1>4
<1>6. Descent(s, g) = [k \in Nat |-> IF k = 0 THEN {g} ELSE GoneInto(s, Descent(s, g)[k - 1])]
  BY <1>5, Zenon DEF Descent
<1>7. Descent(s, g)[0] = {g}
  BY <1>6
<1>8. ASSUME NEW k \in Nat
      PROVE  Descent(s, g)[k + 1] = GoneInto(s, Descent(s, g)[k])
  <2>1. k + 1 \in Nat /\ k + 1 # 0 /\ (k + 1) - 1 = k
    OBVIOUS
  <2>2. Descent(s, g)[k + 1] = GoneInto(s, Descent(s, g)[(k + 1) - 1])
    BY <1>6, <2>1
  <2> QED BY <2>1, <2>2
<1> QED BY <1>7, <1>8

(* What the index keeps of the facts.                                      *)
StoreFields == {"roles", "assigns", "denies", "members", "owners", "children", "childType",
                "publicContainers", "entra"}

IsStore(s) == s = [x \in StoreFields |-> s[x]]

IsParent(name) == \E f \in AzureFactPool : f.kind = "mg_hierarchy" /\ f.source = name

IsLeaf(name) ==
  \E f \in AzureFactPool : f.kind = "mg_hierarchy" /\ f.target = name /\ f.childType = "subscription"

StoreInv(s) ==
  /\ IsStore(s)
  /\ \A a \in s.assigns : a \in AzureFactPool /\ a.kind = "role_assignment"
  /\ IsFiniteSet(DOMAIN s.childType)
  /\ \A x \in s.children : x.target \in DOMAIN s.childType \ {""} /\ IsParent(x.source)
  /\ \A c \in DOMAIN s.childType : IsSub(s, c) => IsLeaf(c)
  /\ \A y \in s.owners : \E f \in s.entra : f.source = y.source

LEMMA LeafIsNoParent == \A name : ~(IsLeaf(name) /\ IsParent(name))
BY AzureAssumption DEF IsLeaf, IsParent

LEMMA StoreStarts == StoreInv(EmptyStore)
<1>1. IsStore(EmptyStore)
  BY DEF EmptyStore, StoreFields, IsStore
<1>2. /\ EmptyStore.assigns = {} /\ EmptyStore.children = {} /\ EmptyStore.owners = {}
      /\ DOMAIN EmptyStore.childType = {}
  BY DEF EmptyStore, Empty
<1> QED BY <1>1, <1>2, FS_EmptySet DEF StoreInv

LEMMA StoreStep ==
  ASSUME NEW s, StoreInv(s), NEW f \in AzureFactPool
  PROVE  StoreInv(IndexFact(s, f))
<1> DEFINE t == IndexFact(s, f)
<1>1. s = [x \in StoreFields |-> s[x]]
  BY DEF StoreInv, IsStore
<1>2. ASSUME IsStore(t), t.children = s.children, t.childType = s.childType,
             \A a \in t.assigns : a \in s.assigns \/ (a = f /\ f.kind = "role_assignment"),
             \A y \in t.owners : y \in s.owners \/ (f \in t.entra /\ y.source = f.source),
             s.entra \subseteq t.entra
      PROVE  StoreInv(t)
  <2> HIDE DEF t
  <2>1. \A a \in t.assigns : a \in AzureFactPool /\ a.kind = "role_assignment"
    BY <1>2 DEF StoreInv
  <2>2. \A y \in t.owners : \E h \in t.entra : h.source = y.source
    <3> SUFFICES ASSUME NEW y \in t.owners
                 PROVE  \E h \in t.entra : h.source = y.source
      OBVIOUS
    <3>1. CASE y \in s.owners
      <4>1. PICK h \in s.entra : h.source = y.source
        BY <3>1 DEF StoreInv
      <4> QED BY <1>2, <4>1
    <3>2. CASE y \notin s.owners
      BY <1>2, <3>2
    <3> QED BY <3>1, <3>2
  <2> QED BY <1>2, <2>1, <2>2 DEF StoreInv, IsSub
<1>3. CASE f.kind = "mg_hierarchy"
  <2>1. t = [s EXCEPT !.children = @ \cup {Pair(f)},
                      !.childType = Put(@, f.target, f.childType)]
    BY <1>3 DEF IndexFact, EntraKinds
  <2>2. /\ IsStore(t)
        /\ t.children = s.children \cup {Pair(f)}
        /\ t.childType = Put(s.childType, f.target, f.childType)
        /\ t.assigns = s.assigns /\ t.owners = s.owners /\ t.entra = s.entra
    BY <1>1, <2>1 DEF StoreFields, IsStore
  <2>3. /\ DOMAIN t.childType = DOMAIN s.childType \cup {f.target}
        /\ \A c \in DOMAIN t.childType :
             t.childType[c] = IF c = f.target THEN f.childType ELSE s.childType[c]
    BY <2>2 DEF Put
  <2>4. Pair(f).source = f.source /\ Pair(f).target = f.target /\ f.target # ""
    BY <1>3, AzureAssumption DEF Pair
  <2> HIDE DEF t
  <2>5. IsFiniteSet(DOMAIN t.childType)
    <3>1. IsFiniteSet(DOMAIN s.childType)
      BY DEF StoreInv
    <3>2. IsFiniteSet(DOMAIN s.childType \cup {f.target})
      BY <3>1, FS_AddElement
    <3> QED BY <2>3, <3>2
  <2>6. \A x \in t.children :
          x.target \in DOMAIN t.childType \ {""} /\ IsParent(x.source)
    <3>1. IsParent(f.source)
      BY <1>3 DEF IsParent
    <3>2. ASSUME NEW x \in s.children
          PROVE  x.target \in DOMAIN t.childType \ {""} /\ IsParent(x.source)
      BY <2>3 DEF StoreInv
    <3> QED BY <2>2, <2>3, <2>4, <3>1, <3>2
  <2>7. \A c \in DOMAIN t.childType :
          IsSub(t, c) => IsLeaf(c)
    <3> SUFFICES ASSUME NEW c \in DOMAIN t.childType, IsSub(t, c)
                 PROVE  IsLeaf(c)
      OBVIOUS
    <3>1. CASE c = f.target
      BY <1>3, <2>3, <3>1 DEF IsSub, IsLeaf
    <3>2. CASE c # f.target
      <4>1. c \in DOMAIN s.childType /\ IsSub(s, c)
        BY <2>3, <3>2 DEF IsSub
      <4> QED BY <4>1 DEF StoreInv
    <3> QED BY <3>1, <3>2
  <2>8. /\ \A a \in t.assigns : a \in AzureFactPool /\ a.kind = "role_assignment"
        /\ \A y \in t.owners : \E h \in t.entra : h.source = y.source
    BY <2>2 DEF StoreInv
  <2>9. StoreInv(t)
    BY <2>2, <2>5, <2>6, <2>7, <2>8 DEF StoreInv
  <2> QED BY <2>9 DEF t
<1>4. CASE f.kind = "public_container"
  <2>1. t = [s EXCEPT !.publicContainers = @ \cup {f.source}]
    BY <1>4 DEF IndexFact, EntraKinds
  <2> QED BY <1>1, <1>2, <2>1 DEF StoreFields, IsStore
<1>5. CASE f.kind = "entra_group_owner"
  <2>1. t = [s EXCEPT !.owners = @ \cup {Pair(f)}, !.entra = @ \cup {f}]
    BY <1>5 DEF IndexFact, EntraKinds
  <2>2. Pair(f).source = f.source
    BY DEF Pair
  <2> QED BY <1>1, <1>2, <2>1, <2>2 DEF StoreFields, IsStore
<1>6. CASE f.kind = "role_definition"
  <2>1. t = [s EXCEPT !.roles = Put(@, f.source, f.grants)]
    BY <1>6 DEF IndexFact, EntraKinds
  <2> QED BY <1>1, <1>2, <2>1 DEF StoreFields, IsStore
<1>7. CASE f.kind = "role_assignment"
  <2>1. t = [s EXCEPT !.assigns = @ \cup {f}]
    BY <1>7 DEF IndexFact, EntraKinds
  <2> QED BY <1>1, <1>2, <1>7, <2>1 DEF StoreFields, IsStore
<1>8. CASE f.kind = "deny_assignment"
  <2>1. t = [s EXCEPT !.denies = @ \cup {f}]
    BY <1>8 DEF IndexFact, EntraKinds
  <2> QED BY <1>1, <1>2, <2>1 DEF StoreFields, IsStore
<1>9. CASE f.kind = "member_of"
  <2>1. t = [s EXCEPT !.members = @ \cup {Pair(f)}]
    BY <1>9 DEF IndexFact, EntraKinds
  <2> QED BY <1>1, <1>2, <2>1 DEF StoreFields, IsStore
<1>10. CASE f.kind \in EntraKinds
  <2>1. t = [s EXCEPT !.entra = @ \cup {f}]
    BY <1>10 DEF IndexFact, EntraKinds
  <2> QED BY <1>1, <1>2, <2>1 DEF StoreFields, IsStore
<1>11. CASE f.kind \notin EntraKinds \cup {"mg_hierarchy", "public_container", "entra_group_owner",
                                          "role_definition", "role_assignment", "deny_assignment",
                                          "member_of"}
  <2>1. t = s
    BY <1>11 DEF IndexFact, EntraKinds
  <2> QED BY <2>1
<1> QED BY <1>3, <1>4, <1>5, <1>6, <1>7, <1>8, <1>9, <1>10, <1>11 DEF EntraKinds

-----------------------------------------------------------------------------
(* The descent finds the subscriptions below a group.                      *)

ChildrenStay(s, groups) == \A c \in ChildrenOf(s, groups) : ~IsSub(s, c) => c \in groups

LEMMA DescentIsBounded ==
  ASSUME NEW s, StoreInv(s), NEW g, NEW names,
         \A x \in s.children : x.source \in names \cup {g} => x.target \in names
  PROVE  \A k \in Nat : Descent(s, g)[k] \subseteq names \cup {g}
<1> DEFINE S == {k \in Nat : Descent(s, g)[k] \subseteq names \cup {g}}
<1>1. 0 \in S
  BY DescentLevels
<1>2. ASSUME NEW n \in Nat, n \in S
      PROVE  n + 1 \in S
  <2>1. Descent(s, g)[n + 1] = GoneInto(s, Descent(s, g)[n])
    BY DescentLevels
  <2> QED BY <1>2, <2>1 DEF GoneInto, ChildrenOf
<1> HIDE DEF S
<1>3. Nat \subseteq S
  BY <1>1, <1>2, Induction
<1> QED BY <1>3 DEF S

(* By as many levels as there are names nothing is left to go into: each   *)
(* level before has one more.                                              *)
LEMMA DescentEnds ==
  ASSUME NEW s, StoreInv(s), NEW g
  PROVE  /\ g \in Descent(s, g)[Cardinality(DOMAIN s.childType)]
         /\ ChildrenStay(s, Descent(s, g)[Cardinality(DOMAIN s.childType)])
<1> DEFINE names == DOMAIN s.childType
           K == Cardinality(names)
           level(k) == Descent(s, g)[k]
           S == {k \in Nat : /\ g \in level(k)
                             /\ ChildrenStay(s, level(k)) \/ Cardinality(level(k)) > k}
<1>1. IsFiniteSet(names) /\ K \in Nat
  BY FS_CardinalityType DEF StoreInv
<1>2. \A x \in s.children : x.target \in names
  BY DEF StoreInv
<1>3. \A k \in Nat : level(k) \subseteq names \cup {g}
  BY <1>2, DescentIsBounded
<1>4. IsFiniteSet(names \cup {g}) /\ Cardinality(names \cup {g}) <= K + 1
  BY <1>1, FS_AddElement
<1>5. \A k \in Nat : IsFiniteSet(level(k)) /\ Cardinality(level(k)) \in Nat
  <2> HIDE DEF level
  <2> QED BY <1>3, <1>4, FS_Subset, FS_CardinalityType
<1>6. 0 \in S
  <2>1. level(0) = {g}
    BY DescentLevels
  <2>2. Cardinality(level(0)) = 1
    BY <2>1, FS_Singleton
  <2> QED BY <2>1, <2>2
<1>7. ASSUME NEW n \in Nat, n \in S
      PROVE  n + 1 \in S
  <2>1. level(n + 1) = GoneInto(s, level(n))
    BY DescentLevels
  <2>2. g \in level(n + 1)
    BY <1>7, <2>1 DEF GoneInto
  <2>3. CASE ChildrenStay(s, level(n))
    <3>1. level(n + 1) = level(n)
      BY <2>1, <2>3 DEF GoneInto, ChildrenStay
    <3> QED BY <2>2, <2>3, <3>1
  <2>4. CASE ~ChildrenStay(s, level(n))
    <3>1. level(n) \subseteq level(n + 1) /\ level(n) # level(n + 1)
      BY <2>1, <2>4 DEF GoneInto, ChildrenStay
    <3>2. IsFiniteSet(level(n + 1)) /\ Cardinality(level(n + 1)) \in Nat
      BY <1>5
    <3>3. /\ Cardinality(level(n)) <= Cardinality(level(n + 1))
          /\ Cardinality(level(n)) # Cardinality(level(n + 1))
      <4> HIDE DEF level
      <4> QED BY <3>1, <3>2, FS_Subset
    <3>4. Cardinality(level(n)) > n /\ Cardinality(level(n)) \in Nat
      BY <1>5, <1>7, <2>4
    <3>5. Cardinality(level(n + 1)) > n + 1
      <4> HIDE DEF level
      <4> QED BY <3>2, <3>3, <3>4
    <3> QED BY <2>2, <3>5
  <2> QED BY <2>3, <2>4
<1>8. K \in S
  <2> HIDE DEF S
  <2>1. Nat \subseteq S
    BY <1>6, <1>7, Induction
  <2> QED BY <1>1, <2>1
<1>9. CASE Cardinality(level(K)) > K
  <2>1. level(K) \subseteq names \cup {g} /\ Cardinality(level(K)) \in Nat
    BY <1>1, <1>3, <1>5
  <2>2. Cardinality(level(K)) <= Cardinality(names \cup {g})
    BY <1>4, <2>1, FS_Subset
  <2>3. Cardinality(names \cup {g}) \in Nat
    BY <1>4, FS_CardinalityType
  <2>4. Cardinality(level(K)) = Cardinality(names \cup {g})
    <3> HIDE DEF K, level
    <3> QED BY <1>1, <1>4, <1>9, <2>1, <2>2, <2>3
  <2>5. level(K) = names \cup {g}
    <3> HIDE DEF K, level
    <3> QED BY <1>4, <2>1, <2>4, FS_Subset
  <2>6. ChildrenStay(s, level(K))
    BY <1>2, <2>5 DEF ChildrenStay, ChildrenOf
  <2> QED BY <1>8, <2>6
<1> QED BY <1>8, <1>9

(* What is found below a group is what no closed set leaves out.           *)
LEMMA SubsBelow ==
  ASSUME StoreInv(azureStore), NEW g, NEW c
  PROVE  /\ c \in MgSubs(azureStore, g) =>
              c # "" /\ c \in DOMAIN azureStore.childType /\ IsSub(azureStore, c) /\ Below(g, c)
         /\ c \in DOMAIN azureStore.childType /\ IsSub(azureStore, c) /\ Below(g, c) =>
              c \in MgSubs(azureStore, g)
<1> DEFINE s == azureStore
           K == Cardinality(DOMAIN s.childType)
           last == Descent(s, g)[K]
<1>1. K \in Nat
  BY FS_CardinalityType DEF StoreInv
<1>2. \A d \in ChildrenOf(s, last) : d \in DOMAIN s.childType /\ d # ""
  <2> HIDE DEF last
  <2> QED BY DEF StoreInv, ChildrenOf
<1>3. ASSUME c \in MgSubs(s, g)
      PROVE  c # "" /\ c \in DOMAIN s.childType /\ IsSub(s, c) /\ Below(g, c)
  <2>1. c \in ChildrenOf(s, last) /\ IsSub(s, c)
    BY <1>3 DEF MgSubs
  <2>2. ASSUME NEW names \in SUBSET DOMAIN s.childType,
               \A x \in s.children : x.source \in names \cup {g} => x.target \in names
        PROVE  c \in names
    <3>1. last \subseteq names \cup {g}
      BY <1>1, <2>2, DescentIsBounded
    <3> HIDE DEF last
    <3> QED BY <2>1, <2>2, <3>1 DEF ChildrenOf
  <2>3. Below(g, c)
    BY <2>2 DEF Below
  <2> QED BY <1>2, <2>1, <2>3
<1>4. ASSUME c \in DOMAIN s.childType, IsSub(s, c), Below(g, c)
      PROVE  c \in MgSubs(s, g)
  <2> DEFINE names == ChildrenOf(s, last)
  <2>1. g \in last /\ ChildrenStay(s, last)
    BY DescentEnds
  <2>2. names \in SUBSET DOMAIN s.childType
    BY <1>2
  <2>3. ASSUME NEW x \in s.children, x.source \in names \cup {g}
        PROVE  x.target \in names
    <3>1. CASE x.source \in last
      BY <3>1 DEF ChildrenOf
    <3>2. CASE x.source \notin last
      <4>1. x.source \in names /\ IsSub(s, x.source) /\ x.source \in DOMAIN s.childType
        BY <1>2, <2>1, <2>3, <3>2 DEF ChildrenStay
      <4>2. IsLeaf(x.source) /\ IsParent(x.source)
        BY <4>1 DEF StoreInv
      <4> QED BY <4>2, LeafIsNoParent
    <3> QED BY <3>1, <3>2
  <2>4. c \in names
    <3> HIDE DEF names
    <3> QED BY <1>4, <2>2, <2>3 DEF Below
  <2> QED BY <1>4, <2>4 DEF MgSubs
<1> QED BY <1>3, <1>4

-----------------------------------------------------------------------------
(* What the evaluator emits, and what Azure says.                          *)

(* The scopes the code takes a node to be under are scopes it is under,    *)
(* and all of them but the management groups a group is under.             *)
LEMMA CoveredIsUnder ==
  ASSUME StoreInv(azureStore), NEW scope, NEW n
  PROVE  /\ ScopeCovers(azureStore, scope, n) => Under(scope, n)
         /\ Under(scope, n) /\ ~GroupUnderGroup(scope, n) => ScopeCovers(azureStore, scope, n)
<1>1. CASE ~IsManagementGroup(scope)
  BY <1>1 DEF ScopeCovers, ScopeContains, Under
<1>2. CASE IsManagementGroup(scope) /\ scope[2] \notin AllMGs(azureStore)
  BY <1>2 DEF ScopeCovers, ScopeContains, Under
<1>3. CASE IsManagementGroup(scope) /\ scope[2] \in AllMGs(azureStore)
  <2> DEFINE InSub == /\ IsArm(n) /\ n[2] \in DOMAIN azureStore.childType
                      /\ IsSub(azureStore, n[2]) /\ Below(scope[2], n[2])
  <2>1. ScopeCovers(azureStore, scope, n) <=> SubOf(n) \in MgSubs(azureStore, scope[2])
    BY <1>3 DEF ScopeCovers
  <2>2. /\ InSub => Under(scope, n)
        /\ Under(scope, n) /\ ~GroupUnderGroup(scope, n) => InSub
    BY <1>3 DEF Under, IsSub, GroupUnderGroup
  <2>3. CASE IsArm(n)
    <3>1. SubOf(n) = n[2]
      BY <2>3 DEF SubOf
    <3> QED BY <2>1, <2>2, <2>3, <3>1, SubsBelow
  <2>4. CASE ~IsArm(n)
    <3>1. SubOf(n) = ""
      BY <2>4 DEF SubOf
    <3> QED BY <2>1, <2>2, <2>4, <3>1, SubsBelow
  <2> QED BY <2>3, <2>4
<1> QED BY <1>1, <1>2, <1>3

(* A denial of Azure's is one of the code's, and the other way about but   *)
(* for those at management groups.                                         *)
LEMMA DenialsCount ==
  ASSUME NEW pid, NEW row, NEW n
  PROVE  /\ Denied({pid}, row, n) => DeniedFor(azureStore, pid, row.action, n)
         /\ DeniedFor(azureStore, pid, row.action, n) /\ ~DeniedAtAGroup(pid, row)
              => Denied({pid}, row, n)
BY DEF DeniedFor, Denied, DeniedAtAGroup, ScopeContains, Under

LEMMA EdgesAre ==
  ASSUME NEW emissions
  PROVE  /\ \A id \in DOMAIN EdgesOf(emissions) :
              /\ \E e \in emissions : e.id = id
              /\ EdgesOf(emissions)[id] = "ACTIVE" => \E e \in emissions : e.id = id /\ ~e.conditional
         /\ \A e \in emissions : e.id.source # e.id.target =>
              /\ e.id \in DOMAIN EdgesOf(emissions)
              /\ ~e.conditional => EdgesOf(emissions)[e.id] = "ACTIVE"
<1> DEFINE proper == {e \in emissions : e.id.source # e.id.target}
           ids == {e.id : e \in proper}
           Sure(id) == \E e \in proper : e.id = id /\ ~e.conditional
<1>1. EdgesOf(emissions) = [id \in ids |-> IF Sure(id) THEN "ACTIVE" ELSE "CONDITIONAL"]
  BY DEF EdgesOf
<1>2. ASSUME NEW id \in ids
      PROVE  /\ \E e \in emissions : e.id = id
             /\ Sure(id) => \E e \in emissions : e.id = id /\ ~e.conditional
  OBVIOUS
<1>3. ASSUME NEW e \in emissions, e.id.source # e.id.target
      PROVE  e.id \in ids /\ (~e.conditional => Sure(e.id))
  BY <1>3
<1> HIDE DEF proper, ids, Sure
<1>4. DOMAIN EdgesOf(emissions) = ids
  BY <1>1
<1>5. \A id \in ids : EdgesOf(emissions)[id] = "ACTIVE" <=> Sure(id)
  BY <1>1
<1> QED BY <1>2, <1>3, <1>4, <1>5

(* What one map has over another.                                          *)
Same(f, g, k) == k \in DOMAIN f /\ k \in DOMAIN g /\ f[k] = g[k]

LEMMA OverIs ==
  ASSUME NEW f, NEW g, NEW k
  PROVE  /\ k \in DOMAIN Over(f, g) <=> k \in DOMAIN f \/ k \in DOMAIN g
         /\ k \in DOMAIN f => Same(Over(f, g), f, k)
         /\ k \in DOMAIN g /\ k \notin DOMAIN f => Same(Over(f, g), g, k)
BY DEF Over, Same

LEMMA EmissionFields ==
  ASSUME NEW type, NEW source, NEW target, NEW conditional
  PROVE  LET e == Emission(type, source, target, conditional)
         IN  /\ e.id = AzureEdgeId(type, source, target) /\ e.conditional = conditional
             /\ e.id.type = type /\ e.id.source = source /\ e.id.target = target
BY DEF Emission, AzureEdgeId

(* An assignment, to a principal itself or to a group it is a member of.   *)
LEMMA AssignsAre ==
  ASSUME StoreInv(azureStore)
  PROVE  /\ \A a \in Assigns(azureStore) : \E b \in azureStore.assigns :
              /\ b.source \in ActsAs(a.source) /\ a.source \in Principals
              /\ a.role = b.role /\ a.target = b.target /\ a.condition = b.condition
         /\ \A b \in azureStore.assigns : \A pid : b.source \in ActsAs(pid) =>
              \E a \in Assigns(azureStore) :
                /\ a.source = pid
                /\ a.role = b.role /\ a.target = b.target /\ a.condition = b.condition
<1> DEFINE s == azureStore
<1>1. ASSUME NEW b \in s.assigns, NEW m
      PROVE  LET a == [b EXCEPT !.source = m]
             IN  /\ a.source = m
                 /\ a.role = b.role /\ a.target = b.target /\ a.condition = b.condition
  BY AzureAssumption DEF StoreInv
<1>2. \A x \in s.members : \A b : x.source \in MembersOf(s, b) <=> x \in s.members
                             /\ \E y \in s.members : y.target = b /\ y.source = x.source
  BY DEF MembersOf
<1>3. \A m, group : m \in MembersOf(s, group) <=> \E y \in s.members : y.source = m /\ y.target = group
  BY DEF MembersOf
<1>4. \A m, group : group \in ActsAs(m) <=> group = m \/ m \in MembersOf(s, group)
  BY <1>3 DEF ActsAs
<1>5. \A a : a \in Assigns(s) <=>
        a \in s.assigns \/ \E b \in s.assigns : \E m \in MembersOf(s, b.source) :
                             a = [b EXCEPT !.source = m]
  BY DEF Assigns
<1>6. \A b \in s.assigns : b.source \in Principals
  BY DEF Principals
<1>7. \A group : \A m \in MembersOf(s, group) : m \in Principals
  BY <1>3 DEF Principals
<1>8. ASSUME NEW a \in Assigns(s)
      PROVE  \E b \in s.assigns :
               /\ b.source \in ActsAs(a.source) /\ a.source \in Principals
               /\ a.role = b.role /\ a.target = b.target /\ a.condition = b.condition
  <2>1. CASE a \in s.assigns
    BY <1>4, <1>6, <2>1
  <2>2. CASE a \notin s.assigns
    <3>1. PICK b \in s.assigns : \E m \in MembersOf(s, b.source) : a = [b EXCEPT !.source = m]
      BY <1>5, <1>8, <2>2
    <3>2. PICK m \in MembersOf(s, b.source) : a = [b EXCEPT !.source = m]
      BY <3>1
    <3>3. a.source = m /\ a.role = b.role /\ a.target = b.target /\ a.condition = b.condition
      BY <1>1, <3>2
    <3>4. b.source \in ActsAs(m) /\ m \in Principals
      BY <1>4, <1>7, <3>2
    <3> QED BY <3>3, <3>4
  <2> QED BY <2>1, <2>2
<1>9. ASSUME NEW b \in s.assigns, NEW pid, b.source \in ActsAs(pid)
      PROVE  \E a \in Assigns(s) :
               /\ a.source = pid
               /\ a.role = b.role /\ a.target = b.target /\ a.condition = b.condition
  <2>1. CASE b.source = pid
    BY <1>5, <2>1
  <2>2. CASE b.source # pid
    <3>1. pid \in MembersOf(s, b.source)
      BY <1>4, <1>9, <2>2
    <3>2. [b EXCEPT !.source = pid] \in Assigns(s)
      BY <1>5, <3>1
    <3> QED BY <1>1, <3>2
  <2> QED BY <2>1, <2>2
<1> QED BY <1>8, <1>9

(* One emission for each assignment, row and node under its scope.         *)
Emits(a, row, n) ==
  /\ a.role \in DOMAIN azureStore.roles /\ Allows(azureStore.roles[a.role], row)
  /\ \E t \in row.targets : n \in ByType(azureStore, t)
  /\ ScopeCovers(azureStore, a.target, n) /\ ~DeniedFor(azureStore, a.source, row.action, n)

LEMMA RolesEmit ==
  ASSUME NEW e
  PROVE  e \in RoleEmissions(azureStore) <=>
           \E a \in Assigns(azureStore) : \E row \in AzureCapabilities : \E n :
             Emits(a, row, n) /\ e = Emission(row.edge, ResolvePrincipal(a.source), n, a.condition)
<1> DEFINE s == azureStore
           Nodes(a, row) == {m \in UNION {ByType(s, t) : t \in row.targets} :
                               ScopeCovers(s, a.target, m) /\ ~DeniedFor(s, a.source, row.action, m)}
           OfRow(a, row) == {Emission(row.edge, ResolvePrincipal(a.source), n, a.condition) :
                               n \in Nodes(a, row)}
           Rows(a) == {r \in AzureCapabilities : Allows(s.roles[a.role], r)}
           Of(a) == UNION {OfRow(a, row) : row \in Rows(a)}
           Known == {x \in Assigns(s) : x.role \in DOMAIN s.roles}
<1>1. RoleEmissions(s) = UNION {Of(a) : a \in Known}
  BY DEF RoleEmissions
<1>2. e \in UNION {Of(a) : a \in Known} <=> \E a \in Known : e \in Of(a)
  <2> HIDE DEF Of, Known
  <2> QED OBVIOUS
<1>3. \A a : e \in Of(a) <=> \E row \in Rows(a) : e \in OfRow(a, row)
  <2> HIDE DEF OfRow, Rows
  <2> QED BY DEF Of
<1>4. \A a, row : e \in OfRow(a, row) <=>
        \E n \in Nodes(a, row) : e = Emission(row.edge, ResolvePrincipal(a.source), n, a.condition)
  <2> HIDE DEF Nodes
  <2> QED BY DEF OfRow
<1>5. \A a \in Known : \A row \in Rows(a) : \A n : n \in Nodes(a, row) <=> Emits(a, row, n)
  BY DEF Emits
<1>6. \A a \in Assigns(s) : \A row \in AzureCapabilities : \A n :
        Emits(a, row, n) => a \in Known /\ row \in Rows(a)
  BY DEF Emits
<1>7. Known \subseteq Assigns(s) /\ \A a : Rows(a) \subseteq AzureCapabilities
  OBVIOUS
<1> HIDE DEF Known, Rows, Of, OfRow, Nodes
<1> QED BY <1>1, <1>2, <1>3, <1>4, <1>5, <1>6, <1>7

(* What Entra gives is given to a principal, or to a group it is in or     *)
(* owns.                                                                   *)
Holding(pid, f) ==
  f.source \in ActsAs(pid) \cup {x.target : x \in {y \in azureStore.owners : y.source = pid}}

LEMMA HoldersHold ==
  ASSUME StoreInv(azureStore), NEW f \in azureStore.entra, NEW pid \in Holders(azureStore, f)
  PROVE  pid \in Principals /\ Holding(pid, f)
<1> DEFINE s == azureStore
<1>1. CASE pid = f.source
  BY <1>1 DEF Principals, Holding, ActsAs
<1>2. CASE pid \in MembersOf(s, f.source)
  <2>1. PICK y \in s.members : y.source = pid /\ y.target = f.source
    BY <1>2 DEF MembersOf
  <2> QED BY <2>1 DEF Principals, Holding, ActsAs
<1>3. CASE pid \in OwnersOf(s, f.source)
  <2>1. PICK y \in s.owners : y.source = pid /\ y.target = f.source
    BY <1>3 DEF OwnersOf
  <2>2. PICK h \in s.entra : h.source = pid
    BY <2>1 DEF StoreInv
  <2> QED BY <2>1, <2>2 DEF Principals, Holding
<1> QED BY <1>1, <1>2, <1>3 DEF Holders, Expand

LEMMA EntraEmits ==
  ASSUME StoreInv(azureStore), NEW e \in EntraEmissions(azureStore)
  PROVE  \E f \in azureStore.entra : \E pid \in Principals : \E n \in Given(azureStore, f).to :
           /\ Holding(pid, f)
           /\ e = Emission(Given(azureStore, f).edge, ResolvePrincipal(pid), n,
                           f.kind = "entra_role_eligible")
<1> DEFINE s == azureStore
           ToAll(f, pid) == {Emission(Given(s, f).edge, ResolvePrincipal(pid), n,
                                      f.kind = "entra_role_eligible") : n \in Given(s, f).to}
           Of(f) == UNION {ToAll(f, pid) : pid \in Holders(s, f)}
<1>1. EntraEmissions(s) = UNION {Of(f) : f \in s.entra}
  BY DEF EntraEmissions
<1>2. PICK f \in s.entra : e \in Of(f)
  <2> HIDE DEF Of
  <2> QED BY <1>1
<1>3. PICK pid \in Holders(s, f) : e \in ToAll(f, pid)
  <2> HIDE DEF ToAll
  <2> QED BY <1>2 DEF Of
<1>4. PICK n \in Given(s, f).to :
        e = Emission(Given(s, f).edge, ResolvePrincipal(pid), n, f.kind = "entra_role_eligible")
  BY <1>3
<1> QED BY <1>3, <1>4, HoldersHold

(* An owned node lies below what it is owned through.                      *)
LEMMA OwnedIsUnder ==
  ASSUME StoreInv(azureStore), NEW c, NEW n \in Owned(azureStore, c)
  PROVE  IF IsManagementGroup(c) THEN Under(c, n) /\ n \in Subscriptions
         ELSE c \in ResourceGroups /\ Under(c, n) /\ n # c
<1>1. CASE IsManagementGroup(c)
  <2>1. n \in Subscriptions /\ \E x \in MgSubs(azureStore, c[2]) : n = Subscription(x)
    BY <1>1 DEF Owned
  <2>2. PICK x \in MgSubs(azureStore, c[2]) : n = Subscription(x)
    BY <2>1
  <2>3. IsArm(n) /\ n[2] = x
    BY <2>2 DEF Subscription, IsArm
  <2>4. n[2] \in DOMAIN azureStore.childType /\ IsSub(azureStore, n[2]) /\ Below(c[2], n[2])
    BY <2>2, <2>3, SubsBelow
  <2>5. Under(c, n)
    BY <1>1, <2>3, <2>4 DEF Under, IsSub
  <2> QED BY <1>1, <2>1, <2>5
<1>2. CASE ~IsManagementGroup(c)
  <2>1. c \in ResourceGroups /\ IsStrictPrefix(c, n)
    BY <1>2 DEF Owned
  <2> QED BY <1>2, <2>1 DEF Under, IsStrictPrefix
<1> QED BY <1>1, <1>2

-----------------------------------------------------------------------------
(* Azure: the index is in order, and the edges are what it gives.          *)

GrantedBy(s) == EdgesOf(RoleEmissions(s))
OwnedBy(s) == Takeovers(s, GrantedBy(s))
FromRoles(s) == Over(GrantedBy(s), OwnedBy(s))
FromEntra(s) == EdgesOf(EntraEmissions(s))

AzureInv ==
  /\ StoreInv(azureStore)
  /\ azurePhase \in {"index", "done"}
  /\ azurePhase = "index" => DOMAIN azureEdges = {}
  /\ azurePhase = "done" =>
       azureEdges = Over(FromRoles(azureStore), FromEntra(azureStore))

LEMMA AzureStarts ==
  AzureInit => AzureInv
BY StoreStarts DEF AzureInit, AzureInv, Empty

LEMMA AzureSteps ==
  ASSUME AzureInv, [AzureNext]_azureVars
  PROVE  AzureInv'
<1>1. ASSUME NEW f \in AzureFactPool, Index(f)
      PROVE  AzureInv'
  <2>1. /\ azurePhase = "index" /\ azurePhase' = "index" /\ azureEdges' = azureEdges
        /\ azureStore' = IndexFact(azureStore, f)
    BY <1>1 DEF Index
  <2>2. StoreInv(azureStore) /\ DOMAIN azureEdges = {}
    BY <2>1 DEF AzureInv
  <2>3. StoreInv(azureStore')
    BY <2>1, <2>2, StoreStep
  <2> QED BY <2>1, <2>2, <2>3 DEF AzureInv
<1>2. CASE EvaluateAzurePermissions
  <2>1. /\ azurePhase' = "done" /\ azureStore' = azureStore
        /\ azureEdges' = Over(FromRoles(azureStore), FromEntra(azureStore))
    BY <1>2 DEF EvaluateAzurePermissions, FromRoles, FromEntra, GrantedBy, OwnedBy
  <2> QED BY <2>1 DEF AzureInv
<1>3. CASE UNCHANGED azureVars
  BY <1>3 DEF azureVars, AzureInv
<1> QED BY <1>1, <1>2, <1>3 DEF AzureNext

(* What an edge of each of the three kinds says of the index.              *)
LEMMA GrantedHasReason ==
  ASSUME StoreInv(azureStore), NEW id \in DOMAIN GrantedBy(azureStore)
  PROVE  /\ id = AzureEdgeId(id.type, id.source, id.target) /\ id.target \in AzureTargets
         /\ Assigned(id, LAMBDA pid : {pid}, GrantedBy(azureStore)[id] = "ACTIVE")
<1> DEFINE s == azureStore
           sure == GrantedBy(s)[id] = "ACTIVE"
<1>1. PICK e \in RoleEmissions(s) : e.id = id /\ (sure => ~e.conditional)
  BY EdgesAre DEF GrantedBy
<1>2. PICK a \in Assigns(s), row \in AzureCapabilities :
        \E n : /\ Emits(a, row, n)
               /\ e = Emission(row.edge, ResolvePrincipal(a.source), n, a.condition)
  BY RolesEmit
<1>3. PICK n : /\ Emits(a, row, n)
               /\ e = Emission(row.edge, ResolvePrincipal(a.source), n, a.condition)
  BY <1>2
<1>4. /\ id = AzureEdgeId(row.edge, ResolvePrincipal(a.source), n)
      /\ id.type = row.edge /\ id.source = ResolvePrincipal(a.source) /\ id.target = n
      /\ sure => ~a.condition
  BY <1>1, <1>3, EmissionFields
<1>5. PICK b \in s.assigns :
        /\ b.source \in ActsAs(a.source) /\ a.source \in Principals
        /\ a.role = b.role /\ a.target = b.target /\ a.condition = b.condition
  BY AssignsAre
<1>6. Grants(b, a.source, row, n) /\ ~Denied({a.source}, row, n)
  BY <1>3, <1>5, CoveredIsUnder, DenialsCount DEF Emits, Grants
<1>7. n \in AzureTargets
  BY <1>3 DEF Emits, AzureTargets
<1>8. sure => ~b.condition
  BY <1>4, <1>5
<1>9. Assigned(id, LAMBDA pid : {pid}, sure)
  <2> HIDE DEF sure
  <2> QED BY <1>4, <1>5, <1>6, <1>8 DEF Assigned
<1> QED BY <1>4, <1>7, <1>9

LEMMA TakeoversAre ==
  ASSUME NEW granted, NEW id \in DOMAIN Takeovers(azureStore, granted)
  PROVE  \E x \in DOMAIN granted : \E n \in Owned(azureStore, x.target) :
           x.type = "CanGrantPermission" /\ id = AzureEdgeId("CanControl", x.source, n)
<1> DEFINE Of(x) == {[type |-> "CanControl", source |-> x.source, target |-> n] :
                       n \in Owned(azureStore, x.target)}
           granting == {x \in DOMAIN granted : x.type = "CanGrantPermission"}
<1>1. DOMAIN Takeovers(azureStore, granted) = UNION {Of(x) : x \in granting}
  BY DEF Takeovers
<1>2. PICK x \in granting : id \in Of(x)
  <2> HIDE DEF Of, granting
  <2> QED BY <1>1
<1>3. PICK n \in Owned(azureStore, x.target) :
        id = [type |-> "CanControl", source |-> x.source, target |-> n]
  BY <1>2
<1> QED BY <1>2, <1>3 DEF AzureEdgeId

LEMMA OwnedHasReason ==
  ASSUME AzureInv, azurePhase = "done", NEW id \in DOMAIN OwnedBy(azureStore)
  PROVE  OwnedBelow(id)
<1> DEFINE s == azureStore
<1>1. StoreInv(s)
  BY DEF AzureInv
<1>2. PICK x \in DOMAIN GrantedBy(s) : \E n \in Owned(s, x.target) :
             x.type = "CanGrantPermission" /\ id = AzureEdgeId("CanControl", x.source, n)
  BY TakeoversAre DEF OwnedBy
<1>3. PICK n \in Owned(s, x.target) :
             x.type = "CanGrantPermission" /\ id = AzureEdgeId("CanControl", x.source, n)
  BY <1>2
<1>4. id.type = "CanControl" /\ id.source = x.source /\ id.target = n
  BY <1>3 DEF AzureEdgeId
<1>5. x = AzureEdgeId("CanGrantPermission", id.source, x.target) /\ x.target \in AzureTargets
  BY <1>1, <1>3, <1>4, GrantedHasReason
<1>6. x \in DOMAIN azureEdges
  <2>1. x \in DOMAIN FromRoles(s)
    BY OverIs DEF FromRoles
  <2>2. azureEdges = Over(FromRoles(s), FromEntra(s))
    BY DEF AzureInv
  <2> QED BY <2>1, <2>2, OverIs
<1>7. IF IsManagementGroup(x.target) THEN Under(x.target, n) /\ n \in Subscriptions
      ELSE x.target \in ResourceGroups /\ Under(x.target, n) /\ n # x.target
  BY <1>1, OwnedIsUnder
<1> QED BY <1>4, <1>5, <1>6, <1>7 DEF OwnedBelow

LEMMA DirectoryHasReason ==
  ASSUME StoreInv(azureStore), NEW id \in DOMAIN FromEntra(azureStore)
  PROVE  Directory(id, FromEntra(azureStore)[id] = "ACTIVE")
<1> DEFINE s == azureStore
           sure == FromEntra(s)[id] = "ACTIVE"
<1>1. PICK e \in EntraEmissions(s) : e.id = id /\ (sure => ~e.conditional)
  BY EdgesAre DEF FromEntra
<1>2. PICK f \in s.entra, pid \in Principals : \E n \in Given(s, f).to :
        /\ Holding(pid, f)
        /\ e = Emission(Given(s, f).edge, ResolvePrincipal(pid), n, f.kind = "entra_role_eligible")
  BY EntraEmits
<1>3. PICK n \in Given(s, f).to :
        e = Emission(Given(s, f).edge, ResolvePrincipal(pid), n, f.kind = "entra_role_eligible")
  BY <1>2
<1>4. /\ id.type = Given(s, f).edge /\ id.source = ResolvePrincipal(pid) /\ id.target = n
      /\ sure => f.kind # "entra_role_eligible"
  <2> DEFINE eligible == f.kind = "entra_role_eligible"
  <2> HIDE DEF sure
  <2>1. sure => ~e.conditional
    BY <1>1
  <2>2. e = Emission(Given(s, f).edge, ResolvePrincipal(pid), n, eligible)
    BY <1>3
  <2> HIDE DEF eligible
  <2>3. /\ e.id.type = Given(s, f).edge /\ e.id.source = ResolvePrincipal(pid) /\ e.id.target = n
        /\ e.conditional = eligible
    BY <2>2, EmissionFields
  <2> QED BY <1>1, <2>1, <2>3 DEF eligible
<1> HIDE DEF sure
<1>5. Directory(id, sure)
  BY <1>2, <1>4 DEF Directory, Holding
<1> QED BY <1>5 DEF sure

(* What an assignment gives a principal, itself or as a member, and no     *)
(* denial takes, has an edge, an ACTIVE one if it has no condition: for    *)
(* every tree of management groups, and every order of the facts.  It is   *)
(* NoAssignmentMissed, which leaves out two cases the code gets wrong: a   *)
(* management group as the target of an assignment at a management group   *)
(* (evaluator.go:scopeCovers), and who is denied the action at a           *)
(* management group (scopeContains).                                       *)
THEOREM AzureMissesNothing ==
  AzureSpec => []NoAssignmentMissed
<1>1. AzureInv => NoAssignmentMissed
  <2> SUFFICES ASSUME AzureInv, azurePhase = "done", NEW b \in azureStore.assigns,
                      NEW row \in AzureCapabilities, NEW pid \in Principals, NEW n \in AzureTargets,
                      Effective(b, pid, row, n),
                      ~GroupUnderGroup(b.target, n), ~DeniedAtAGroup(pid, row)
               PROVE  HasEdge(b, pid, row, n)
    BY DEF NoAssignmentMissed
  <2> DEFINE s == azureStore
             id == AzureEdgeId(row.edge, ResolvePrincipal(pid), n)
             e == Emission(row.edge, ResolvePrincipal(pid), n, b.condition)
  <2>1. StoreInv(s)
    BY DEF AzureInv
  <2>2. /\ Grants(b, pid, row, n) /\ b.source \in ActsAs(pid)
        /\ ~Denied(ActsAs(pid), row, n) /\ ResolvePrincipal(pid) # n
    BY DEF Effective, Grants
  <2>3. PICK a \in Assigns(s) :
          /\ a.source = pid
          /\ a.role = b.role /\ a.target = b.target /\ a.condition = b.condition
    BY <2>1, <2>2, AssignsAre
  <2>4. ~Denied({pid}, row, n)
    BY <2>2 DEF Denied, ActsAs
  <2>5. Emits(a, row, n)
    BY <2>1, <2>2, <2>3, <2>4, CoveredIsUnder, DenialsCount DEF Grants, Emits
  <2>6. e \in RoleEmissions(s)
    BY <2>3, <2>5, RolesEmit
  <2>7. /\ e.id = id /\ e.conditional = b.condition
        /\ e.id.source = ResolvePrincipal(pid) /\ e.id.target = n
    BY EmissionFields
  <2> HIDE DEF e, id
  <2>8. /\ id \in DOMAIN GrantedBy(s)
        /\ ~b.condition => GrantedBy(s)[id] = "ACTIVE"
    BY <2>2, <2>6, <2>7, EdgesAre DEF GrantedBy
  <2>9. id \in DOMAIN azureEdges /\ azureEdges[id] = GrantedBy(s)[id]
    <3>1. Same(FromRoles(s), GrantedBy(s), id)
      BY <2>8, OverIs DEF FromRoles
    <3>2. azureEdges = Over(FromRoles(s), FromEntra(s))
      BY DEF AzureInv
    <3>3. Same(azureEdges, FromRoles(s), id)
      BY <3>1, <3>2, OverIs DEF Same
    <3> QED BY <3>1, <3>3 DEF Same
  <2> QED BY <2>8, <2>9 DEF id, HasEdge
<1> QED BY <1>1, AzureStarts, AzureSteps, PTL DEF AzureSpec

(* And every edge has its reason, an ACTIVE one a reason without condition *)
(* or activation.                                                          *)
THEOREM AzureEdgesHaveReasons ==
  AzureSpec => []NoEdgeInvented
<1>1. AzureInv => NoEdgeInvented
  <2> SUFFICES ASSUME AzureInv, NEW id \in DOMAIN azureEdges
               PROVE  \/ Assigned(id, LAMBDA pid : {pid}, azureEdges[id] = "ACTIVE")
                      \/ OwnedBelow(id)
                      \/ Directory(id, azureEdges[id] = "ACTIVE")
    BY DEF NoEdgeInvented
  <2> DEFINE s == azureStore
  <2>1. /\ StoreInv(s) /\ azurePhase = "done"
        /\ azureEdges = Over(FromRoles(s), FromEntra(s))
    BY DEF AzureInv
  <2>2. CASE id \in DOMAIN GrantedBy(s)
    <3>1. Same(FromRoles(s), GrantedBy(s), id)
      BY <2>2, OverIs DEF FromRoles
    <3>2. Same(azureEdges, FromRoles(s), id)
      BY <2>1, <3>1, OverIs DEF Same
    <3>3. Assigned(id, LAMBDA pid : {pid}, GrantedBy(s)[id] = "ACTIVE")
      BY <2>1, <2>2, GrantedHasReason
    <3> QED BY <3>1, <3>2, <3>3 DEF Same
  <2>3. CASE id \in DOMAIN OwnedBy(s)
    BY <2>1, <2>3, OwnedHasReason
  <2>4. CASE id \notin DOMAIN GrantedBy(s) \cup DOMAIN OwnedBy(s)
    <3>1. id \notin DOMAIN FromRoles(s)
      BY <2>4, OverIs DEF FromRoles
    <3>2. Same(azureEdges, FromEntra(s), id)
      BY <2>1, <3>1, OverIs
    <3>3. Directory(id, FromEntra(s)[id] = "ACTIVE")
      BY <2>1, <3>2, DirectoryHasReason DEF Same
    <3> QED BY <3>2, <3>3 DEF Same
  <2> QED BY <2>2, <2>3, <2>4
<1> QED BY <1>1, AzureStarts, AzureSteps, PTL DEF AzureSpec

-----------------------------------------------------------------------------
(* The base graph.  Sequences first: of what, does not matter.             *)

IsASeq(s) == \E S : s \in Seq(S)

LEMMA Pieces ==
  ASSUME NEW s, IsASeq(s)
  PROVE  Len(s) \in Nat /\ DOMAIN s = 1..Len(s)
BY DEF IsASeq

(* What is in one sequence or the other is in their concatenation.         *)
LEMMA JoinedSeqs ==
  ASSUME NEW s, NEW t, IsASeq(s), IsASeq(t)
  PROVE  IsASeq(s \o t) /\ \A x : x \in ToSet(s \o t) <=> x \in ToSet(s) \/ x \in ToSet(t)
<1>1. PICK S : s \in Seq(S)
  BY DEF IsASeq
<1>2. PICK T : t \in Seq(T)
  BY DEF IsASeq
<1>3. s \in Seq(S \cup T) /\ t \in Seq(S \cup T)
  <2>1. \A i \in 1..Len(s) : s[i] \in S \cup T
    BY <1>1
  <2>2. \A i \in 1..Len(t) : t[i] \in S \cup T
    BY <1>2
  <2>3. s = [i \in 1..Len(s) |-> s[i]] /\ t = [i \in 1..Len(t) |-> t[i]]
    BY <1>1, <1>2
  <2> QED BY <1>1, <1>2, <2>1, <2>2, <2>3
<1>4. s \o t \in Seq(S \cup T)
  BY <1>3
<1>5. /\ DOMAIN (s \o t) = 1..(Len(s) + Len(t))
      /\ \A i \in 1..(Len(s) + Len(t)) : (s \o t)[i] = IF i <= Len(s) THEN s[i] ELSE t[i - Len(s)]
  BY <1>3
<1>6. DOMAIN s = 1..Len(s) /\ DOMAIN t = 1..Len(t) /\ Len(s) \in Nat /\ Len(t) \in Nat
  BY <1>3
<1>7. ASSUME NEW x \in ToSet(s \o t)
      PROVE  x \in ToSet(s) \/ x \in ToSet(t)
  <2>1. PICK i \in 1..(Len(s) + Len(t)) : x = (s \o t)[i]
    BY <1>5, <1>7 DEF ToSet
  <2>2. CASE i <= Len(s)
    BY <1>5, <1>6, <2>1, <2>2 DEF ToSet
  <2>3. CASE ~(i <= Len(s))
    <3>1. i - Len(s) \in 1..Len(t) /\ x = t[i - Len(s)]
      BY <1>5, <1>6, <2>1, <2>3
    <3> QED BY <1>6, <3>1 DEF ToSet
  <2> QED BY <2>2, <2>3
<1>8. ASSUME NEW x \in ToSet(s)
      PROVE  x \in ToSet(s \o t)
  <2>1. PICK i \in 1..Len(s) : x = s[i]
    BY <1>6, <1>8 DEF ToSet
  <2>2. i \in 1..(Len(s) + Len(t)) /\ (s \o t)[i] = x
    BY <1>5, <1>6, <2>1
  <2> QED BY <1>5, <2>2 DEF ToSet
<1>9. ASSUME NEW x \in ToSet(t)
      PROVE  x \in ToSet(s \o t)
  <2>1. PICK i \in 1..Len(t) : x = t[i]
    BY <1>6, <1>9 DEF ToSet
  <2>2. Len(s) + i \in 1..(Len(s) + Len(t)) /\ (s \o t)[Len(s) + i] = x
    BY <1>5, <1>6, <2>1
  <2> QED BY <1>5, <2>2 DEF ToSet
<1> QED BY <1>4, <1>7, <1>8, <1>9 DEF IsASeq

(* All that is in several sequences is in the one made of them.            *)
Flattens(ss, k, f) ==
  f = [i \in 1..k |-> f[i]] /\ \A i \in 1..k : f[i] = IF i = 1 THEN ss[i] ELSE f[i - 1] \o ss[i]

LEMMA Flattening ==
  ASSUME NEW ss
  PROVE  \A k \in Nat : \E f : Flattens(ss, k, f)
<1> DEFINE S == {k \in Nat : \E f : Flattens(ss, k, f)}
<1>1. 0 \in S
  <2>1. Flattens(ss, 0, [i \in 1..0 |-> ss])
    BY DEF Flattens
  <2> QED BY <2>1
<1>2. ASSUME NEW n \in Nat, n \in S
      PROVE  n + 1 \in S
  <2>1. PICK f : Flattens(ss, n, f)
    BY <1>2
  <2> DEFINE last == IF n = 0 THEN ss[1] ELSE f[n] \o ss[n + 1]
             more == [i \in 1..(n + 1) |-> IF i = n + 1 THEN last ELSE f[i]]
  <2> HIDE DEF last
  <2>2. more = [i \in 1..(n + 1) |-> more[i]] /\ more[n + 1] = last /\ \A i \in 1..n : more[i] = f[i]
    OBVIOUS
  <2> HIDE DEF more
  <2>3. ASSUME NEW i \in 1..(n + 1)
        PROVE  more[i] = IF i = 1 THEN ss[i] ELSE more[i - 1] \o ss[i]
    <3>1. CASE i = n + 1 /\ n = 0
      BY <2>2, <3>1 DEF last
    <3>2. CASE i = n + 1 /\ n # 0
      <4>1. i - 1 = n /\ n \in 1..n /\ i # 1
        BY <3>2
      <4> QED BY <2>2, <3>2, <4>1 DEF last
    <3>3. CASE i # n + 1
      <4>1. i \in 1..n /\ (i # 1 => i - 1 \in 1..n)
        BY <3>3
      <4> QED BY <2>1, <2>2, <4>1 DEF Flattens
    <3> QED BY <3>1, <3>2, <3>3
  <2>4. Flattens(ss, n + 1, more)
    BY <2>2, <2>3 DEF Flattens
  <2> QED BY <2>4
<1> HIDE DEF S
<1>3. Nat \subseteq S
  BY <1>1, <1>2, Induction
<1> QED BY <1>3 DEF S

(* FlattenSeq, which the library defines by a function it chooses: it is a *)
(* sequence of what the pieces have.                                       *)
LEMMA Flattened ==
  ASSUME NEW ss, IsASeq(ss), \A i \in DOMAIN ss : IsASeq(ss[i])
  PROVE  /\ IsASeq(FlattenSeq(ss))
         /\ \A x : x \in ToSet(FlattenSeq(ss)) <=> \E i \in DOMAIN ss : x \in ToSet(ss[i])
<1> DEFINE n == Len(ss)
<1>1. n \in Nat /\ DOMAIN ss = 1..n
  BY Pieces
<1>2. CASE n = 0
  <2>1. FlattenSeq(ss) = ss /\ DOMAIN ss = {}
    BY <1>1, <1>2 DEF FlattenSeq
  <2> QED BY <2>1 DEF ToSet
<1>3. CASE n # 0
  <2> DEFINE flatten == CHOOSE f : f = [i \in 1..n |-> IF i = 1 THEN ss[i] ELSE f[i - 1] \o ss[i]]
  <2>1. PICK f : Flattens(ss, n, f)
    BY <1>1, Flattening
  <2>2. f = [i \in 1..n |-> IF i = 1 THEN ss[i] ELSE f[i - 1] \o ss[i]]
    <3> HIDE DEF n
    <3> QED BY <2>1 DEF Flattens
  <2>3. flatten = [i \in 1..n |-> IF i = 1 THEN ss[i] ELSE flatten[i - 1] \o ss[i]]
    BY <2>2, Zenon
  <2>4. FlattenSeq(ss) = flatten[n]
    BY <1>3 DEF FlattenSeq
  <2> HIDE DEF flatten, n
  <2>5. Flattens(ss, n, flatten)
    BY <2>3 DEF Flattens
  <2> DEFINE Has(k) == /\ IsASeq(flatten[k])
                       /\ \A x : x \in ToSet(flatten[k]) <=> \E i \in 1..k : x \in ToSet(ss[i])
             S == {k \in Nat : k # 0 /\ k <= n => Has(k)}
  <2>6. 0 \in S
    OBVIOUS
  <2>7. ASSUME NEW k \in Nat, k \in S
        PROVE  k + 1 \in S
    <3>1. CASE k + 1 <= n /\ k = 0
      <4>1. flatten[1] = ss[1] /\ 1 \in DOMAIN ss /\ 1..1 = {1}
        <5>1. 1 \in 1..n /\ 1..1 = {1}
          BY <1>1, <3>1
        <5>2. flatten[1] = ss[1]
          BY <2>5, <5>1, Zenon DEF Flattens
        <5> QED BY <1>1, <5>1, <5>2
      <4> QED BY <3>1, <4>1
    <3>2. CASE k + 1 <= n /\ k # 0
      <4>1. k + 1 \in 1..n /\ k + 1 \in DOMAIN ss /\ (k + 1) - 1 = k /\ k + 1 # 1 /\ k <= n
        BY <1>1, <3>2 DEF n
      <4>2. flatten[k + 1] = flatten[k] \o ss[k + 1]
        <5>1. flatten[k + 1] = flatten[(k + 1) - 1] \o ss[k + 1]
          BY <2>5, <4>1, Zenon DEF Flattens
        <5> QED BY <4>1, <5>1
      <4>3. Has(k) /\ IsASeq(ss[k + 1])
        BY <2>7, <3>2, <4>1
      <4>4. /\ IsASeq(flatten[k + 1])
            /\ \A x : x \in ToSet(flatten[k + 1]) <=> x \in ToSet(flatten[k]) \/ x \in ToSet(ss[k + 1])
        BY <4>2, <4>3, JoinedSeqs
      <4>5. \A i : i \in 1..(k + 1) <=> i \in 1..k \/ i = k + 1
        BY <1>1 DEF n
      <4>6. Has(k + 1)
        BY <4>3, <4>4, <4>5
      <4> QED BY <4>6
    <3>3. CASE ~(k + 1 <= n)
      BY <3>3
    <3> QED BY <3>1, <3>2, <3>3
  <2> HIDE DEF S
  <2>8. Nat \subseteq S
    BY <2>6, <2>7, Induction
  <2>9. Has(n)
    <3>1. n \in S /\ n <= n
      BY <1>1, <2>8 DEF n
    <3> QED BY <1>3, <3>1 DEF S
  <2> QED BY <1>1, <2>4, <2>9 DEF n
<1> QED BY <1>2, <1>3

-----------------------------------------------------------------------------
(* A graph in order: what is filed under an ARN is a node and what the ARN *)
(* means, each resource read has its node, and no node is of another name. *)

IsGraph(g) == g = [nodes |-> g.nodes, byArn |-> g.byArn] /\ IsASeq(g.nodes)

Inventoried == ToSet(artifacts)

InOrder(g) ==
  /\ IsGraph(g)
  /\ <<>> \notin DOMAIN g.byArn
  /\ \A v \in DOMAIN g.byArn : HasNode(g, g.byArn[v]) /\ g.byArn[v] \in Meant(v)
  /\ \A a \in Inventoried : HasNode(g, NodeID(a)) /\ (a.arn # <<>> => a.arn \in DOMAIN g.byArn)
  /\ \A id : HasNode(g, id) =>
       id[1] \in {"arn|", "name|"} \/ \E a \in ArtifactPool : id = NodeID(a)

(* A name that may be looked up.                                           *)
Proper(r) == r.name # <<>> /\ (AsArn(r) \/ Unlisted(r.name))

(* A graph with one more node.                                             *)
LEMMA Appended ==
  ASSUME NEW g, IsGraph(g), NEW n, NEW byArn
  PROVE  LET h == [nodes |-> Append(g.nodes, n), byArn |-> byArn]
         IN  IsGraph(h) /\ \A id : HasNode(h, id) <=> HasNode(g, id) \/ id = n.id
<1> DEFINE h == [nodes |-> Append(g.nodes, n), byArn |-> byArn]
<1>1. PICK S : g.nodes \in Seq(S)
  BY DEF IsGraph, IsASeq
<1>2. g.nodes \in Seq(S \cup {n})
  <2>1. g.nodes = [i \in 1..Len(g.nodes) |-> g.nodes[i]] /\ \A i \in 1..Len(g.nodes) : g.nodes[i] \in S
    BY <1>1
  <2> QED BY <1>1, <2>1
<1>3. Append(g.nodes, n) \in Seq(S \cup {n})
  BY <1>2
<1>4. /\ Len(g.nodes) \in Nat /\ DOMAIN g.nodes = 1..Len(g.nodes)
      /\ DOMAIN Append(g.nodes, n) = 1..(Len(g.nodes) + 1)
      /\ \A i \in 1..(Len(g.nodes) + 1) :
           Append(g.nodes, n)[i] = IF i <= Len(g.nodes) THEN g.nodes[i] ELSE n
  BY <1>2
<1>5. h.nodes = Append(g.nodes, n) /\ h = [nodes |-> h.nodes, byArn |-> h.byArn]
  OBVIOUS
<1> HIDE DEF h
<1>6. IsGraph(h)
  BY <1>3, <1>5 DEF IsGraph, IsASeq
<1>7. ASSUME NEW id, HasNode(h, id)
      PROVE  HasNode(g, id) \/ id = n.id
  <2>1. PICK i \in 1..(Len(g.nodes) + 1) : h.nodes[i].id = id
    BY <1>4, <1>5, <1>7 DEF HasNode
  <2>2. CASE i <= Len(g.nodes)
    BY <1>4, <1>5, <2>1, <2>2 DEF HasNode
  <2>3. CASE ~(i <= Len(g.nodes))
    BY <1>4, <1>5, <2>1, <2>3
  <2> QED BY <2>2, <2>3
<1>8. ASSUME NEW id, HasNode(g, id)
      PROVE  HasNode(h, id)
  <2>1. PICK i \in 1..Len(g.nodes) : g.nodes[i].id = id
    BY <1>4, <1>8 DEF HasNode
  <2>2. i \in 1..(Len(g.nodes) + 1) /\ h.nodes[i] = g.nodes[i]
    BY <1>4, <1>5, <2>1
  <2> QED BY <1>4, <1>5, <2>1, <2>2 DEF HasNode
<1>9. HasNode(h, n.id)
  <2>1. Len(g.nodes) + 1 \in 1..(Len(g.nodes) + 1) /\ h.nodes[Len(g.nodes) + 1] = n
    BY <1>4, <1>5
  <2> QED BY <1>4, <1>5, <2>1 DEF HasNode
<1> QED BY <1>6, <1>7, <1>8, <1>9 DEF h

(* A name leads to what it means.                                          *)
LEMMA LeadsToMeant ==
  ASSUME NEW g, InOrder(g), NEW r, Proper(r), Inventoried \subseteq ArtifactPool
  PROVE  NodeOf(g, r) \in Meant(r.name)
<1>1. CASE AsArn(r) /\ r.name \in DOMAIN g.byArn
  BY <1>1 DEF NodeOf, InOrder
<1>2. CASE AsArn(r) /\ r.name \notin DOMAIN g.byArn
  <2>1. \A a \in Inventoried : a.arn # r.name
    BY <1>2 DEF InOrder, Proper
  <2>2. <<"arn|", r.name>> \in Meant(r.name)
    BY <2>1 DEF Meant, Inventoried
  <2> QED BY <1>2, <2>2 DEF NodeOf
<1>3. CASE ~AsArn(r)
  <2>1. Unlisted(r.name)
    BY <1>3 DEF Proper
  <2>2. ~HasNode(g, r.name)
    BY <2>1 DEF InOrder, Unlisted
  <2>3. ~IsArn(r.name) /\ \A a \in Inventoried : a.arn # r.name
    BY <2>1 DEF Unlisted, IsArn
  <2>4. <<"name|", r.name>> \in Meant(r.name)
    BY <2>3 DEF Meant, Inventoried
  <2> QED BY <1>3, <2>2, <2>4 DEF NodeOf
<1> QED BY <1>1, <1>2, <1>3

(* A graph that has all of another one's nodes has the node of a name the  *)
(* other has.                                                              *)
Extends(g, h) ==
  /\ \A id : HasNode(g, id) => HasNode(h, id)
  /\ \A v \in DOMAIN g.byArn : v \in DOMAIN h.byArn /\ h.byArn[v] = g.byArn[v]

(* What a name led to stays a node of the graph, also if the name leads    *)
(* elsewhere by then.                                                      *)
LEMMA NodeStays ==
  ASSUME NEW g, NEW h, InOrder(g), InOrder(h), Extends(g, h), NEW r, Proper(r),
         HasNode(g, NodeOf(g, r))
  PROVE  HasNode(h, NodeOf(h, r))
<1>1. CASE AsArn(r) /\ r.name \in DOMAIN h.byArn
  BY <1>1 DEF NodeOf, InOrder
<1>2. CASE AsArn(r) /\ r.name \notin DOMAIN h.byArn
  BY <1>2 DEF NodeOf, Extends
<1>3. CASE ~AsArn(r)
  <2>1. Unlisted(r.name)
    BY <1>3 DEF Proper
  <2>2. ~HasNode(g, r.name) /\ ~HasNode(h, r.name)
    BY <2>1 DEF InOrder, Unlisted
  <2> QED BY <1>3, <2>2 DEF NodeOf, Extends
<1> QED BY <1>1, <1>2, <1>3

(* ensureNode: the graph stays in order, loses no node, and has one for    *)
(* the name.                                                               *)
LEMMA EnsureStep ==
  ASSUME NEW g, InOrder(g), NEW r, Proper(r), Inventoried \subseteq ArtifactPool
  PROVE  LET h == Ensure(g, r)
         IN  InOrder(h) /\ Extends(g, h) /\ HasNode(h, NodeOf(h, r))
<1> DEFINE h == Ensure(g, r)
           id == NodeOf(g, r)
           n == Node(id, r.type, IF id[1] = "name|" THEN "" ELSE AccountOf[r.name],
                     IF id[1] = "name|" THEN <<>> ELSE r.name)
<1>1. CASE HasNode(g, id)
  <2>1. h = g
    BY <1>1 DEF Ensure
  <2> QED BY <1>1, <2>1 DEF Extends
<1>2. CASE ~HasNode(g, id)
  <2>1. \/ AsArn(r) /\ r.name \notin DOMAIN g.byArn /\ id = <<"arn|", r.name>>
        \/ ~AsArn(r) /\ Unlisted(r.name) /\ id = <<"name|", r.name>>
    <3>1. CASE AsArn(r)
      BY <1>2, <3>1 DEF NodeOf, InOrder
    <3>2. CASE ~AsArn(r)
      <4>1. Unlisted(r.name) /\ ~HasNode(g, r.name)
        BY <3>2 DEF Proper, InOrder, Unlisted
      <4> QED BY <3>2, <4>1 DEF NodeOf
    <3> QED BY <3>1, <3>2
  <2> DEFINE byArn == IF AsArn(r) THEN Filed(g.byArn, r.name, id) ELSE g.byArn
  <2>2. h = [nodes |-> Append(g.nodes, n), byArn |-> byArn]
    <3>1. AsArn(r) => id[1] # "name|"
      BY <2>1
    <3>2. ~AsArn(r) => id[1] = "name|"
      BY <2>1
    <3> HIDE DEF id
    <3>3. CASE AsArn(r)
      BY <1>2, <3>1, <3>3 DEF Ensure, id
    <3>4. CASE ~AsArn(r)
      BY <1>2, <3>2, <3>4 DEF Ensure, id
    <3> QED BY <3>3, <3>4
  <2>3. n.id = id
    BY DEF Node
  <2>4. IsGraph(g)
    BY DEF InOrder
  <2> HIDE DEF h, n, byArn, id
  <2>5. h.byArn = byArn
    BY <2>2
  <2>6. IsGraph(h) /\ \A x : HasNode(h, x) <=> HasNode(g, x) \/ x = id
    BY <2>2, <2>3, <2>4, Appended
  <2>7. id \in Meant(r.name)
    BY LeadsToMeant DEF id
  <2>8. CASE AsArn(r)
    <3>1. /\ DOMAIN h.byArn = DOMAIN g.byArn \cup {r.name} /\ h.byArn[r.name] = id
          /\ \A v \in DOMAIN g.byArn : v # r.name => h.byArn[v] = g.byArn[v]
      <4>1. h.byArn = Filed(g.byArn, r.name, id)
        BY <2>5, <2>8 DEF byArn
      <4> QED BY <4>1 DEF Filed
    <3>2. r.name \notin DOMAIN g.byArn /\ id[1] = "arn|"
      BY <2>1, <2>8
    <3>3. Extends(g, h)
      BY <2>6, <3>1, <3>2 DEF Extends
    <3>4. \A v \in DOMAIN h.byArn : HasNode(h, h.byArn[v]) /\ h.byArn[v] \in Meant(v)
      BY <2>6, <2>7, <3>1, <3>2 DEF InOrder
    <3>5. InOrder(h)
      BY <2>6, <3>1, <3>2, <3>4 DEF InOrder, Proper
    <3>6. NodeOf(h, r) = id
      BY <2>8, <3>1 DEF NodeOf
    <3> QED BY <2>6, <3>3, <3>5, <3>6 DEF h
  <2>9. CASE ~AsArn(r)
    <3>1. h.byArn = g.byArn
      BY <2>5, <2>9 DEF byArn
    <3>2. id[1] = "name|" /\ id = <<"name|", r.name>> /\ Unlisted(r.name)
      BY <2>1, <2>9
    <3>3. Extends(g, h)
      BY <2>6, <3>1 DEF Extends
    <3>4. InOrder(h)
      BY <2>6, <3>1, <3>2 DEF InOrder
    <3>5. ~HasNode(h, r.name)
      BY <3>2, <3>4 DEF InOrder, Unlisted
    <3>6. NodeOf(h, r) = id
      BY <2>9, <3>2, <3>5 DEF NodeOf
    <3> QED BY <2>6, <3>3, <3>4, <3>6 DEF h
  <2> QED BY <2>8, <2>9
<1> QED BY <1>1, <1>2

(* One name after the other.                                               *)
Afters(g, refs, k, f) ==
  /\ f = [i \in 0..k |-> f[i]] /\ f[0] = g
  /\ \A i \in 1..k : f[i] = Ensure(f[i - 1], refs[i])

LEMMA AftersExist ==
  ASSUME NEW g, NEW refs
  PROVE  \A k \in Nat : \E f : Afters(g, refs, k, f)
<1> DEFINE S == {k \in Nat : \E f : Afters(g, refs, k, f)}
<1>1. 0 \in S
  <2>1. Afters(g, refs, 0, [i \in 0..0 |-> g])
    BY DEF Afters
  <2> QED BY <2>1
<1>2. ASSUME NEW n \in Nat, n \in S
      PROVE  n + 1 \in S
  <2>1. PICK f : Afters(g, refs, n, f)
    BY <1>2
  <2> DEFINE last == Ensure(f[n], refs[n + 1])
             more == [i \in 0..(n + 1) |-> IF i = n + 1 THEN last ELSE f[i]]
  <2> HIDE DEF last
  <2>2. /\ more = [i \in 0..(n + 1) |-> more[i]]
        /\ more[n + 1] = last /\ \A i \in 0..n : more[i] = f[i]
    OBVIOUS
  <2> HIDE DEF more
  <2>3. more[0] = g
    <3>1. 0 \in 0..n
      OBVIOUS
    <3> QED BY <2>1, <2>2, <3>1, Zenon DEF Afters
  <2>4. ASSUME NEW i \in 1..(n + 1)
        PROVE  more[i] = Ensure(more[i - 1], refs[i])
    <3>1. CASE i = n + 1
      <4>1. i - 1 = n /\ n \in 0..n
        BY <3>1
      <4> QED BY <2>2, <3>1, <4>1 DEF last
    <3>2. CASE i # n + 1
      <4>1. i \in 1..n /\ i \in 0..n /\ i - 1 \in 0..n
        BY <3>2
      <4> QED BY <2>1, <2>2, <4>1 DEF Afters
    <3> QED BY <3>1, <3>2
  <2>5. Afters(g, refs, n + 1, more)
    BY <2>2, <2>3, <2>4 DEF Afters
  <2> QED BY <2>5
<1> HIDE DEF S
<1>3. Nat \subseteq S
  BY <1>1, <1>2, Induction
<1> QED BY <1>3 DEF S

(* The same of several names, one after the other.                         *)
LEMMA EnsureAllStep ==
  ASSUME NEW g, InOrder(g), Inventoried \subseteq ArtifactPool,
         NEW refs, IsASeq(refs), \A r \in ToSet(refs) : Proper(r)
  PROVE  LET h == EnsureAll(g, refs)
         IN  InOrder(h) /\ Extends(g, h) /\ \A r \in ToSet(refs) : HasNode(h, NodeOf(h, r))
<1> DEFINE n == Len(refs)
           after == CHOOSE f : f = [i \in 0..n |-> IF i = 0 THEN g ELSE Ensure(f[i - 1], refs[i])]
<1>1. n \in Nat /\ DOMAIN refs = 1..n
  BY Pieces
<1>2. Afters(g, refs, n, after)
  <2>1. PICK f : Afters(g, refs, n, f)
    BY <1>1, AftersExist
  <2>2. f = [i \in 0..n |-> IF i = 0 THEN g ELSE Ensure(f[i - 1], refs[i])]
    <3> HIDE DEF n
    <3>1. \A i \in 0..n : i # 0 => i \in 1..n
      BY <1>1
    <3> QED BY <2>1, <3>1 DEF Afters
  <2>3. after = [i \in 0..n |-> IF i = 0 THEN g ELSE Ensure(after[i - 1], refs[i])]
    BY <2>2, Zenon
  <2> HIDE DEF after, n
  <2>4. 0 \in 0..n /\ \A i \in 1..n : i \in 0..n /\ i # 0
    BY <1>1
  <2> QED BY <2>3, <2>4 DEF Afters
<1>3. EnsureAll(g, refs) = after[n]
  BY DEF EnsureAll
<1> HIDE DEF after, n
<1> DEFINE Has(k) == /\ InOrder(after[k]) /\ Extends(g, after[k])
                     /\ \A j \in 1..k : HasNode(after[k], NodeOf(after[k], refs[j]))
           S == {k \in Nat : k <= n => Has(k)}
<1>4. 0 \in S
  BY <1>2 DEF Afters, Extends
<1>5. ASSUME NEW k \in Nat, k \in S
      PROVE  k + 1 \in S
  <2>1. CASE k + 1 <= n
    <3>1. k + 1 \in 1..n /\ (k + 1) - 1 = k /\ k <= n
      BY <1>1, <2>1
    <3>2. after[k + 1] = Ensure(after[k], refs[k + 1])
      <4>1. after[k + 1] = Ensure(after[(k + 1) - 1], refs[k + 1])
        BY <1>2, <3>1, Zenon DEF Afters
      <4> QED BY <3>1, <4>1
    <3>3. Has(k)
      BY <1>5, <3>1
    <3>4. \A j \in 1..n : Proper(refs[j])
      BY <1>1 DEF ToSet
    <3>5. /\ InOrder(after[k + 1]) /\ Extends(after[k], after[k + 1])
          /\ HasNode(after[k + 1], NodeOf(after[k + 1], refs[k + 1]))
      BY <3>1, <3>2, <3>3, <3>4, EnsureStep
    <3>6. Extends(g, after[k + 1])
      BY <3>3, <3>5 DEF Extends
    <3>7. ASSUME NEW j \in 1..k
          PROVE  HasNode(after[k + 1], NodeOf(after[k + 1], refs[j]))
      <4>1. j \in 1..n
        BY <1>1, <3>1
      <4> QED BY <3>3, <3>4, <3>5, <4>1, NodeStays
    <3>8. \A j \in 1..(k + 1) : j \in 1..k \/ j = k + 1
      OBVIOUS
    <3>9. Has(k + 1)
      BY <3>5, <3>6, <3>7, <3>8
    <3> QED BY <3>9
  <2>2. CASE ~(k + 1 <= n)
    BY <2>2
  <2> QED BY <2>1, <2>2
<1> HIDE DEF S
<1>6. Nat \subseteq S
  BY <1>4, <1>5, Induction
<1>7. Has(n)
  <2>1. n \in S /\ n <= n
    BY <1>1, <1>6
  <2> QED BY <2>1 DEF S
<1> QED BY <1>1, <1>3, <1>7 DEF ToSet

-----------------------------------------------------------------------------
(* What a fact's links state.                                              *)

(* Each: a sequence with one for each of another one.                      *)
LEMMA Mapped ==
  ASSUME NEW s, IsASeq(s), NEW t, t = [i \in DOMAIN s |-> t[i]]
  PROVE  /\ IsASeq(t) /\ DOMAIN t = DOMAIN s
         /\ \A x : x \in ToSet(t) <=> \E i \in DOMAIN s : x = t[i]
<1>1. Len(s) \in Nat /\ DOMAIN s = 1..Len(s)
  BY Pieces
<1>2. DOMAIN t = DOMAIN s
  OBVIOUS
<1> DEFINE n == Len(s)
           T == {t[i] : i \in 1..n}
<1>3. n \in Nat /\ t = [i \in 1..n |-> t[i]]
  BY <1>1
<1> HIDE DEF n
<1>4. t \in Seq(T)
  <2>1. \A i \in 1..n : t[i] \in T
    OBVIOUS
  <2> HIDE DEF T
  <2> QED BY <1>3, <2>1
<1> QED BY <1>2, <1>4 DEF IsASeq, ToSet

States(l) == <<l.type, l.source.name, l.target.name>>

(* Of the links made of a statement or a fact: each relates names that may *)
(* be looked up, and together they state what it states.                   *)
State(links, stated) ==
  /\ IsASeq(links)
  /\ \A l \in ToSet(links) : Proper(l.source) /\ Proper(l.target) /\ States(l) \in stated
  /\ \A r \in stated : \E l \in ToSet(links) : States(l) = r

TrustOf(f, st) ==
  IF st.effect # "Allow" THEN << >>
  ELSE Each(st.aws, LAMBDA p :
              Link("CanAssume", Ref("arn", p, "Identity"), Ref("arn", f.source, "Role"),
                   "ACTIVE", 2, f.source))
       \o Each(st.services, LAMBDA s :
              Link("CanAssume", Ref("name", s, "Service"), Ref("arn", f.source, "Role"),
                   "ACTIVE", 4, f.source))

TrustStated(f, st) ==
  IF st.effect # "Allow" THEN {}
  ELSE {<<"CanAssume", p, f.source>> : p \in ToSet(st.aws) \cup ToSet(st.services)}

(* What BuildAssumption says of a fact's statements.                       *)
LEMMA StatementsOf ==
  ASSUME BuildAssumption, NEW f \in FactPool
  PROVE  /\ IsASeq(f.statements)
         /\ \A i \in DOMAIN f.statements :
              LET st == f.statements[i]
              IN  /\ IsASeq(st.aws) /\ IsASeq(st.services)
                  /\ \A j \in DOMAIN st.aws : st.aws[j] # <<>>
                  /\ \A j \in DOMAIN st.services : st.services[j] # <<>> /\ Unlisted(st.services[j])
<1>1. f.statements \in Seq(Statements)
  BY DEF BuildAssumption
<1>2. ASSUME NEW i \in DOMAIN f.statements
      PROVE  LET st == f.statements[i]
             IN  /\ IsASeq(st.aws) /\ IsASeq(st.services)
                 /\ \A j \in DOMAIN st.aws : st.aws[j] # <<>>
                 /\ \A j \in DOMAIN st.services : st.services[j] # <<>> /\ Unlisted(st.services[j])
  <2> DEFINE st == f.statements[i]
  <2>1. st \in Statements
    BY <1>1, <1>2
  <2>2. st \in ToSet(f.statements)
    BY <1>2 DEF ToSet
  <2> HIDE DEF st
  <2>3. IsASeq(st.aws) /\ IsASeq(st.services)
    BY <2>1 DEF Statements, IsASeq
  <2>4. <<>> \notin ToSet(st.aws) /\ \A s \in ToSet(st.services) : s # <<>> /\ Unlisted(s)
    BY <2>2 DEF BuildAssumption
  <2>5. /\ \A j \in DOMAIN st.aws : st.aws[j] # <<>>
        /\ \A j \in DOMAIN st.services : st.services[j] # <<>> /\ Unlisted(st.services[j])
    BY <2>4 DEF ToSet
  <2> QED BY <2>3, <2>5 DEF st
<1> QED BY <1>1, <1>2 DEF IsASeq

(* fromTrustPolicy, of one statement.                                      *)
LEMMA TrustOfStates ==
  ASSUME NEW f, f.source # <<>>, NEW st, IsASeq(st.aws), IsASeq(st.services),
         \A j \in DOMAIN st.aws : st.aws[j] # <<>>,
         \A j \in DOMAIN st.services : st.services[j] # <<>> /\ Unlisted(st.services[j])
  PROVE  State(TrustOf(f, st), TrustStated(f, st))
<1>1. CASE st.effect # "Allow"
  <2>1. TrustOf(f, st) = << >> /\ TrustStated(f, st) = {}
    BY <1>1 DEF TrustOf, TrustStated
  <2>2. IsASeq(<< >>) /\ ToSet(<< >>) = {}
    BY DEF IsASeq, ToSet
  <2> QED BY <2>1, <2>2 DEF State
<1>2. CASE st.effect = "Allow"
  <2> DEFINE role == Ref("arn", f.source, "Role")
             aws == [i \in DOMAIN st.aws |->
                       Link("CanAssume", Ref("arn", st.aws[i], "Identity"), role,
                            "ACTIVE", 2, f.source)]
             services == [i \in DOMAIN st.services |->
                       Link("CanAssume", Ref("name", st.services[i], "Service"), role,
                            "ACTIVE", 4, f.source)]
  <2>1. TrustOf(f, st) = aws \o services
    BY <1>2 DEF TrustOf, Each
  <2>2. /\ aws = [i \in DOMAIN st.aws |-> aws[i]]
        /\ \A i \in DOMAIN st.aws : /\ Proper(aws[i].source) /\ Proper(aws[i].target)
                                    /\ States(aws[i]) = <<"CanAssume", st.aws[i], f.source>>
    BY DEF Link, Ref, Proper, AsArn, States
  <2>3. /\ services = [i \in DOMAIN st.services |-> services[i]]
        /\ \A i \in DOMAIN st.services :
             /\ Proper(services[i].source) /\ Proper(services[i].target)
             /\ States(services[i]) = <<"CanAssume", st.services[i], f.source>>
    BY DEF Link, Ref, Proper, AsArn, States
  <2> HIDE DEF aws, services
  <2>4. IsASeq(aws) /\ \A x : x \in ToSet(aws) <=> \E i \in DOMAIN st.aws : x = aws[i]
    BY <2>2, Mapped
  <2>5. /\ IsASeq(services)
        /\ \A x : x \in ToSet(services) <=> \E i \in DOMAIN st.services : x = services[i]
    BY <2>3, Mapped
  <2>6. /\ IsASeq(aws \o services)
        /\ \A x : x \in ToSet(aws \o services) <=> x \in ToSet(aws) \/ x \in ToSet(services)
    BY <2>4, <2>5, JoinedSeqs
  <2>7. /\ \A i \in DOMAIN st.aws : <<"CanAssume", st.aws[i], f.source>> \in TrustStated(f, st)
        /\ \A i \in DOMAIN st.services :
             <<"CanAssume", st.services[i], f.source>> \in TrustStated(f, st)
        /\ \A r \in TrustStated(f, st) :
             \/ \E i \in DOMAIN st.aws : r = <<"CanAssume", st.aws[i], f.source>>
             \/ \E i \in DOMAIN st.services : r = <<"CanAssume", st.services[i], f.source>>
    BY <1>2 DEF TrustStated, ToSet
  <2>8. ASSUME NEW l \in ToSet(aws \o services)
        PROVE  Proper(l.source) /\ Proper(l.target) /\ States(l) \in TrustStated(f, st)
    <3>1. CASE l \in ToSet(aws)
      <4>1. PICK i \in DOMAIN st.aws : l = aws[i]
        BY <2>4, <3>1, Zenon
      <4> QED BY <2>2, <2>7, <4>1
    <3>2. CASE l \in ToSet(services)
      <4>1. PICK i \in DOMAIN st.services : l = services[i]
        BY <2>5, <3>2, Zenon
      <4> QED BY <2>3, <2>7, <4>1
    <3> QED BY <2>6, <2>8, <3>1, <3>2, Zenon
  <2>9. ASSUME NEW r \in TrustStated(f, st)
        PROVE  \E l \in ToSet(aws \o services) : States(l) = r
    <3>1. ASSUME NEW i \in DOMAIN st.aws, r = <<"CanAssume", st.aws[i], f.source>>
          PROVE  aws[i] \in ToSet(aws \o services) /\ States(aws[i]) = r
      <4>1. aws[i] \in ToSet(aws)
        BY <2>4, Zenon
      <4> QED BY <2>2, <2>6, <3>1, <4>1
    <3>2. ASSUME NEW i \in DOMAIN st.services, r = <<"CanAssume", st.services[i], f.source>>
          PROVE  services[i] \in ToSet(aws \o services) /\ States(services[i]) = r
      <4>1. services[i] \in ToSet(services)
        BY <2>5, Zenon
      <4> QED BY <2>3, <2>6, <3>2, <4>1
    <3> QED BY <2>7, <2>9, <3>1, <3>2
  <2> QED BY <2>1, <2>6, <2>8, <2>9 DEF State
<1> QED BY <1>1, <1>2

(* The links of all of a fact's statements state what each of them states. *)
LEMMA TogetherTheyState ==
  ASSUME NEW ss, IsASeq(ss), NEW stated, NEW all,
         \A i \in DOMAIN ss : State(ss[i], stated[i]),
         \A r : r \in all <=> \E i \in DOMAIN ss : r \in stated[i]
  PROVE  State(FlattenSeq(ss), all)
<1>1. \A i \in DOMAIN ss : IsASeq(ss[i])
  BY DEF State
<1>2. /\ IsASeq(FlattenSeq(ss))
      /\ \A x : x \in ToSet(FlattenSeq(ss)) <=> \E i \in DOMAIN ss : x \in ToSet(ss[i])
  BY <1>1, Flattened
<1> QED BY <1>2 DEF State

LEMMA TrustLinksState ==
  ASSUME BuildAssumption, NEW f \in FactPool, f.kind = "trust_policy"
  PROVE  State(Links(f), Stated(f))
<1> DEFINE ss == [i \in DOMAIN f.statements |-> TrustOf(f, f.statements[i])]
           stated == [i \in DOMAIN f.statements |-> TrustStated(f, f.statements[i])]
<1>1. Links(f) = FlattenSeq(ss)
  <2>1. Links(f) = TrustLinks(f)
    BY DEF Links, EvaluatorKinds
  <2>2. \A st : TrustOf(f, st) = IF st.effect # "Allow" THEN << >>
             ELSE [i \in DOMAIN st.aws |->
                    Link("CanAssume", Ref("arn", st.aws[i], "Identity"), Ref("arn", f.source, "Role"),
                         "ACTIVE", 2, f.source)]
                  \o [i \in DOMAIN st.services |->
                       Link("CanAssume", Ref("name", st.services[i], "Service"),
                            Ref("arn", f.source, "Role"), "ACTIVE", 4, f.source)]
    BY Zenon DEF TrustOf, Each
  <2>3. TrustLinks(f) = FlattenSeq(ss)
    BY <2>2, Zenon DEF TrustLinks, OfEach, Each
  <2> QED BY <2>1, <2>3
<1>2. ss = [i \in DOMAIN f.statements |-> ss[i]] /\ DOMAIN ss = DOMAIN f.statements
  OBVIOUS
<1>3. \A r : r \in Stated(f) <=> \E i \in DOMAIN f.statements : r \in stated[i]
  <2>1. Stated(f) = UNION {{<<"CanAssume", p, f.source>> :
                              p \in ToSet(st.aws) \cup ToSet(st.services)} :
                             st \in {x \in ToSet(f.statements) : x.effect = "Allow"}}
    BY DEF Stated, EvaluatorKinds
  <2>2. \A r : r \in Stated(f) <=> \E st \in ToSet(f.statements) : r \in TrustStated(f, st)
    BY <2>1, Zenon DEF TrustStated
  <2> QED BY <2>2, Zenon DEF ToSet
<1>4. f.source # <<>>
  BY DEF BuildAssumption, Policies
<1>5. \A i \in DOMAIN f.statements : State(ss[i], stated[i])
  BY <1>4, StatementsOf, TrustOfStates
<1> HIDE DEF ss, stated
<1>6. IsASeq(ss)
  BY <1>2, Mapped, StatementsOf
<1> QED BY <1>1, <1>2, <1>3, <1>5, <1>6, TogetherTheyState

Foreign(f, p) == AccountOf[p] # AccountOf[f.source] \/ AccountOf[p] = ""

PrincipalOf(f, p) ==
  IF AccountOf[p] # "" /\ AccountOf[f.source] # "" /\ AccountOf[p] = AccountOf[f.source] THEN << >>
  ELSE << Link("CrossAccountTrust", Ref("arn", f.source, "Resource"), Ref("arn", p, "Identity"),
               "ACTIVE", 2, f.source) >>

PrincipalStated(f, p) == IF Foreign(f, p) THEN {<<"CrossAccountTrust", f.source, p>>} ELSE {}

Confined(f, st) == st.public /\ SameAccountConfined(st.conditions, AccountOf[f.source])

ResourceOf(f, st) ==
  IF st.effect # "Allow" \/ Confined(f, st) THEN << >>
  ELSE IF st.public
  THEN << Link("CrossAccountTrust", Ref("arn", f.source, "Resource"), Everyone,
               IF st.conditions = {} THEN "ACTIVE" ELSE "CONDITIONAL", 2, f.source) >>
  ELSE FlattenSeq([i \in DOMAIN st.aws |-> PrincipalOf(f, st.aws[i])])

PrincipalsStated(f, st) ==
  {<<"CrossAccountTrust", f.source, p>> :
     p \in {q \in ToSet(st.aws) : AccountOf[q] # AccountOf[f.source] \/ AccountOf[q] = ""}}

ResourceStated(f, st) ==
  IF st.effect # "Allow" \/ Confined(f, st) THEN {}
  ELSE IF st.public THEN {<<"CrossAccountTrust", f.source, <<"principal:*">>>>}
  ELSE PrincipalsStated(f, st)

LEMMA NothingStated == State(<< >>, {})
<1>1. IsASeq(<< >>) /\ ToSet(<< >>) = {}
  BY DEF IsASeq, ToSet
<1> QED BY <1>1 DEF State

LEMMA OneStated ==
  ASSUME NEW l, Proper(l.source), Proper(l.target), NEW r, r = States(l)
  PROVE  State(<< l >>, {r})
<1>1. << l >> \in Seq({l}) /\ ToSet(<< l >>) = {l}
  BY DEF ToSet
<1> QED BY <1>1 DEF State, IsASeq

(* fromResourcePolicy, of one statement.                                   *)
LEMMA ResourceOfStates ==
  ASSUME Unlisted(<<"principal:*">>), NEW f, f.source # <<>>, NEW st, IsASeq(st.aws),
         \A j \in DOMAIN st.aws : st.aws[j] # <<>>
  PROVE  State(ResourceOf(f, st), ResourceStated(f, st))
<1>1. CASE st.effect # "Allow" \/ Confined(f, st)
  BY <1>1, NothingStated DEF ResourceOf, ResourceStated
<1>2. CASE ~(st.effect # "Allow" \/ Confined(f, st)) /\ st.public
  <2> DEFINE l == Link("CrossAccountTrust", Ref("arn", f.source, "Resource"), Everyone,
                       IF st.conditions = {} THEN "ACTIVE" ELSE "CONDITIONAL", 2, f.source)
  <2>1. /\ Proper(l.source) /\ Proper(l.target)
        /\ <<"CrossAccountTrust", f.source, <<"principal:*">>>> = States(l)
    BY DEF Link, Ref, Everyone, Proper, AsArn, States
  <2>2. ResourceOf(f, st) = << l >>
    BY <1>2 DEF ResourceOf
  <2>3. ResourceStated(f, st) = {<<"CrossAccountTrust", f.source, <<"principal:*">>>>}
    BY <1>2 DEF ResourceStated
  <2> HIDE DEF l
  <2> QED BY <2>1, <2>2, <2>3, OneStated
<1>3. CASE ~(st.effect # "Allow" \/ Confined(f, st)) /\ ~st.public
  <2> DEFINE ss == [i \in DOMAIN st.aws |-> PrincipalOf(f, st.aws[i])]
             stated == [i \in DOMAIN st.aws |-> PrincipalStated(f, st.aws[i])]
  <2>1. ResourceOf(f, st) = FlattenSeq(ss)
    BY <1>3 DEF ResourceOf
  <2>2. ss = [i \in DOMAIN st.aws |-> ss[i]] /\ DOMAIN ss = DOMAIN st.aws
    OBVIOUS
  <2>3. \A r : r \in ResourceStated(f, st) <=> \E i \in DOMAIN st.aws : r \in stated[i]
    <3>1. ResourceStated(f, st) =
            {<<"CrossAccountTrust", f.source, p>> : p \in {q \in ToSet(st.aws) : Foreign(f, q)}}
      BY <1>3 DEF ResourceStated, PrincipalsStated, Foreign
    <3>2. \A r : r \in ResourceStated(f, st) <=> \E p \in ToSet(st.aws) : r \in PrincipalStated(f, p)
      BY <3>1 DEF PrincipalStated
    <3> QED BY <3>2, Zenon DEF ToSet
  <2>4. ASSUME NEW i \in DOMAIN st.aws
        PROVE  State(ss[i], stated[i])
    <3> DEFINE p == st.aws[i]
               l == Link("CrossAccountTrust", Ref("arn", f.source, "Resource"),
                         Ref("arn", p, "Identity"), "ACTIVE", 2, f.source)
    <3>1. ss[i] = PrincipalOf(f, p) /\ stated[i] = PrincipalStated(f, p) /\ p # <<>>
      OBVIOUS
    <3>2. /\ Proper(l.source) /\ Proper(l.target)
          /\ <<"CrossAccountTrust", f.source, p>> = States(l)
      BY <3>1 DEF Link, Ref, Proper, AsArn, States
    <3>3. PrincipalOf(f, p) = IF Foreign(f, p) THEN << l >> ELSE << >>
      BY DEF PrincipalOf, Foreign
    <3> HIDE DEF l, p, ss, stated
    <3>4. State(<< l >>, {<<"CrossAccountTrust", f.source, p>>})
      BY <3>2, OneStated
    <3> QED BY <3>1, <3>3, <3>4, NothingStated DEF PrincipalStated
  <2> HIDE DEF ss, stated
  <2>5. IsASeq(ss)
    BY <2>2, Mapped
  <2> QED BY <2>1, <2>2, <2>3, <2>4, <2>5, TogetherTheyState
<1> QED BY <1>1, <1>2, <1>3

LEMMA ResourceLinksState ==
  ASSUME BuildAssumption, NEW f \in FactPool, f.kind = "resource_policy"
  PROVE  State(Links(f), Stated(f))
<1> DEFINE ss == [i \in DOMAIN f.statements |-> ResourceOf(f, f.statements[i])]
           stated == [i \in DOMAIN f.statements |-> ResourceStated(f, f.statements[i])]
<1>1. Links(f) = FlattenSeq(ss)
  <2>1. Links(f) = ResourceLinks(f)
    BY DEF Links, EvaluatorKinds
  <2>2. ResourceLinks(f) = FlattenSeq(ss)
    BY DEF ResourceLinks, OfEach, Each, ResourceOf, PrincipalOf, Confined
  <2> QED BY <2>1, <2>2
<1>2. ss = [i \in DOMAIN f.statements |-> ss[i]] /\ DOMAIN ss = DOMAIN f.statements
  OBVIOUS
<1>3. \A r : r \in Stated(f) <=> \E i \in DOMAIN f.statements : r \in stated[i]
  <2> DEFINE allowing == {st \in ToSet(f.statements) : st.effect = "Allow"}
  <2>1. Stated(f) =
          (UNION {{<<"CrossAccountTrust", f.source, p>> :
                     p \in {q \in ToSet(st.aws) : AccountOf[q] # AccountOf[f.source] \/ AccountOf[q] = ""}} :
                  st \in {x \in allowing : ~x.public}})
          \cup {<<"CrossAccountTrust", f.source, <<"principal:*">>>> :
                  st \in {x \in allowing : x.public /\ ~SameAccountConfined(x.conditions, AccountOf[f.source])}}
    BY DEF Stated, EvaluatorKinds
  <2> HIDE DEF allowing
  <2>2. \A r : r \in Stated(f) <=> \E st \in allowing :
          \/ ~st.public /\ r \in PrincipalsStated(f, st)
          \/ /\ st.public /\ ~SameAccountConfined(st.conditions, AccountOf[f.source])
             /\ r = <<"CrossAccountTrust", f.source, <<"principal:*">>>>
    <3> DEFINE closed == {<<"CrossAccountTrust", f.source, <<"principal:*">>>> :
                            st \in {x \in allowing : x.public /\ ~SameAccountConfined(x.conditions, AccountOf[f.source])}}
    <3>1. \A r : r \in closed <=> \E st \in allowing :
                                  /\ st.public
                                  /\ ~SameAccountConfined(st.conditions, AccountOf[f.source])
                                  /\ r = <<"CrossAccountTrust", f.source, <<"principal:*">>>>
      OBVIOUS
    <3> DEFINE open == {x \in allowing : ~x.public}
               named == {PrincipalsStated(f, st) : st \in open}
    <3>3. \A st : st \in open <=> st \in allowing /\ ~st.public
      OBVIOUS
    <3> HIDE DEF closed, open, named
    <3>2. Stated(f) = (UNION named) \cup closed
      BY <2>1 DEF PrincipalsStated, named, closed, open
    <3>4. \A r : r \in UNION named <=> \E st \in open : r \in PrincipalsStated(f, st)
      BY Zenon DEF named
    <3>5. \A r : r \in Stated(f) <=>
                  r \in closed \/ \E st \in allowing : ~st.public /\ r \in PrincipalsStated(f, st)
      <4>1. \A r : r \in Stated(f) <=> r \in (UNION named) \/ r \in closed
        BY <3>2, Zenon
      <4> QED BY <3>3, <3>4, <4>1, Zenon
    <3> QED BY <3>1, <3>5
  <2>3. \A st, r : r \in ResourceStated(f, st) <=>
          /\ st.effect = "Allow"
          /\ \/ ~st.public /\ r \in PrincipalsStated(f, st)
             \/ /\ st.public /\ ~SameAccountConfined(st.conditions, AccountOf[f.source])
                /\ r = <<"CrossAccountTrust", f.source, <<"principal:*">>>>
    BY DEF ResourceStated, Confined
  <2>4. \A st : st \in allowing <=> st \in ToSet(f.statements) /\ st.effect = "Allow"
    BY DEF allowing
  <2>5. \A r : r \in Stated(f) <=> \E st \in ToSet(f.statements) : r \in ResourceStated(f, st)
    BY <2>2, <2>3, <2>4, Zenon
  <2> QED BY <2>5, Zenon DEF ToSet
<1>4. f.source # <<>> /\ Unlisted(<<"principal:*">>)
  BY DEF BuildAssumption, Policies
<1>5. \A i \in DOMAIN f.statements : State(ss[i], stated[i])
  BY <1>4, StatementsOf, ResourceOfStates
<1> HIDE DEF ss, stated
<1>6. IsASeq(ss)
  BY <1>2, Mapped, StatementsOf
<1> QED BY <1>1, <1>2, <1>3, <1>5, <1>6, TogetherTheyState

LEMMA DirectLinksState ==
  ASSUME BuildAssumption, NEW f \in FactPool, f.kind \notin Policies \cup EvaluatorKinds
  PROVE  State(Links(f), Stated(f))
<1>1. Links(f) = DirectLinks(f)
  BY DEF Links, Policies, EvaluatorKinds
<1>2. Stated(f) = IF f.source = <<>> \/ f.target = <<>> \/ f.hint = "" THEN {}
                  ELSE {<<f.hint, f.source, f.target>>}
  BY DEF Stated, Policies, EvaluatorKinds
<1>3. CASE f.source = <<>> \/ f.target = <<>> \/ f.hint = ""
  BY <1>1, <1>2, <1>3, NothingStated DEF DirectLinks
<1>4. CASE ~(f.source = <<>> \/ f.target = <<>> \/ f.hint = "")
  <2> DEFINE l == Link(f.hint, Ref("endpoint", f.source, EndpointType(f.source)),
                       Ref("endpoint", f.target, EndpointType(f.target)), "ACTIVE", 2, f.region)
  <2>1. DirectLinks(f) = << l >>
    BY <1>4 DEF DirectLinks
  <2>2. \A v \in {f.source, f.target} : IsArn(v) \/ Unlisted(v)
    BY <1>4 DEF BuildAssumption
  <2>3. Proper(l.source) /\ Proper(l.target) /\ <<f.hint, f.source, f.target>> = States(l)
    BY <1>4, <2>2 DEF Link, Ref, Proper, AsArn, States
  <2> HIDE DEF l
  <2> QED BY <1>1, <1>2, <1>4, <2>1, <2>3, OneStated
<1> QED BY <1>3, <1>4

(* Whatever a fact is, its links state what it states.                     *)
LEMMA LinksState ==
  ASSUME BuildAssumption, NEW f \in FactPool
  PROVE  State(Links(f), Stated(f))
<1>1. CASE f.kind \in EvaluatorKinds
  <2>1. Links(f) = << >> /\ Stated(f) = {}
    BY <1>1 DEF Links, Stated, EvaluatorKinds
  <2> QED BY <2>1, NothingStated
<1> QED BY <1>1, TrustLinksState, ResourceLinksState, DirectLinksState DEF Policies

(* Whatever a fact names is looked up before its links are made.           *)
LEMMA NamedByFact ==
  ASSUME BuildAssumption, NEW f \in FactPool
  PROVE  /\ IsASeq(Named(f)) /\ \A r \in ToSet(Named(f)) : Proper(r)
         /\ \A l \in ToSet(Links(f)) : l.source \in ToSet(Named(f)) /\ l.target \in ToSet(Named(f))
<1> DEFINE links == Links(f)
           ends == [i \in DOMAIN links |-> << links[i].source, links[i].target >>]
           own == CASE f.kind = "trust_policy" -> << Ref("arn", f.source, "Role") >>
                    [] f.kind = "resource_policy" -> << Ref("arn", f.source, "Resource") >>
                    [] OTHER -> << >>
<1>1. Named(f) = own \o FlattenSeq(ends)
  BY Zenon DEF Named, OfEach, Each
<1>2. State(links, Stated(f))
  BY LinksState
<1>3. IsASeq(own) /\ \A r \in ToSet(own) : Proper(r)
  <2>1. CASE f.kind \notin Policies
    <3>1. own = << >>
      BY <2>1 DEF Policies
    <3> QED BY <3>1, NothingStated DEF State, ToSet
  <2>2. CASE f.kind \in Policies
    <3> DEFINE r == Ref("arn", f.source, IF f.kind = "trust_policy" THEN "Role" ELSE "Resource")
    <3>1. own = << r >>
      BY <2>2 DEF Policies
    <3>2. Proper(r)
      BY <2>2 DEF BuildAssumption, Ref, Proper, AsArn
    <3> HIDE DEF own, r
    <3>3. << r >> \in Seq({r}) /\ ToSet(<< r >>) = {r}
      BY DEF ToSet
    <3> QED BY <3>1, <3>2, <3>3 DEF IsASeq
  <2> QED BY <2>1, <2>2
<1>4. ends = [i \in DOMAIN links |-> ends[i]] /\ DOMAIN ends = DOMAIN links
  OBVIOUS
<1>5. \A i \in DOMAIN links : /\ IsASeq(ends[i])
                              /\ \A x : x \in ToSet(ends[i]) <=> x \in {links[i].source, links[i].target}
  <2>1. \A s, t : /\ << s, t >> \in Seq({s, t})
                  /\ ToSet(<< s, t >>) = {s, t}
    BY DEF ToSet
  <2> HIDE DEF links
  <2> QED BY <2>1 DEF IsASeq
<1> HIDE DEF links, ends, own
<1>6. IsASeq(ends)
  BY <1>2, <1>4, Mapped DEF State
<1>7. /\ IsASeq(FlattenSeq(ends))
      /\ \A x : x \in ToSet(FlattenSeq(ends)) <=> \E i \in DOMAIN ends : x \in ToSet(ends[i])
  BY <1>4, <1>5, <1>6, Flattened
<1>8. /\ IsASeq(Named(f))
      /\ \A x : x \in ToSet(Named(f)) <=> x \in ToSet(own) \/ x \in ToSet(FlattenSeq(ends))
  BY <1>1, <1>3, <1>7, JoinedSeqs
<1>9. ASSUME NEW r \in ToSet(Named(f))
      PROVE  Proper(r)
  <2>1. CASE r \in ToSet(own)
    BY <1>3, <2>1
  <2>2. CASE r \in ToSet(FlattenSeq(ends))
    <3>1. PICK i \in DOMAIN links : r \in {links[i].source, links[i].target}
      BY <1>4, <1>5, <1>7, <2>2
    <3>2. links[i] \in ToSet(links)
      BY DEF ToSet
    <3> QED BY <1>2, <3>1, <3>2 DEF State
  <2> QED BY <1>8, <2>1, <2>2
<1>10. ASSUME NEW l \in ToSet(links)
       PROVE  l.source \in ToSet(Named(f)) /\ l.target \in ToSet(Named(f))
  <2>1. PICK i \in DOMAIN links : l = links[i]
    BY DEF ToSet
  <2>2. l.source \in ToSet(ends[i]) /\ l.target \in ToSet(ends[i])
    BY <1>5, <2>1
  <2> QED BY <1>4, <1>7, <1>8, <2>2
<1> QED BY <1>8, <1>9, <1>10 DEF links

-----------------------------------------------------------------------------
(* The edges, over all of a build.                                         *)

(* Edges that are what is stated, between nodes.                           *)
FromEvidence(es, g, stated) ==
  /\ IsASeq(es)
  /\ \A r \in stated : \E e \in ToSet(es) : Between(e, r)
  /\ \A e \in ToSet(es) : AreNodes(g, e) /\ \E r \in stated : Between(e, r)

BuildInv ==
  /\ artifacts \in Seq(ArtifactPool) /\ facts \in Seq(FactPool)
  /\ phase = "inventory" => facts = << >> /\ edges = << >>
  /\ phase \in {"inventory", "facts"} => InOrder(graph)
  /\ phase \in {"inventory", "facts", "permissions"} => FromEvidence(edges, graph, AllStated)

(* Edges that are added for what is newly stated.                          *)
LEMMA EvidenceGrows ==
  ASSUME NEW es, NEW g, NEW stated, FromEvidence(es, g, stated),
         NEW more, NEW h, NEW new, FromEvidence(more, h, new), Extends(g, h)
  PROVE  FromEvidence(es \o more, h, stated \cup new)
<1>1. /\ IsASeq(es \o more)
      /\ \A x : x \in ToSet(es \o more) <=> x \in ToSet(es) \/ x \in ToSet(more)
  BY JoinedSeqs DEF FromEvidence
<1>2. \A e : AreNodes(g, e) => AreNodes(h, e)
  BY DEF AreNodes, Extends
<1> QED BY <1>1, <1>2 DEF FromEvidence

(* What is read stays what it is as long as the inventory does.            *)
LEMMA SameInventory ==
  ASSUME artifacts' = artifacts
  PROVE  /\ Inventoried' = Inventoried /\ \A v : Meant(v)' = Meant(v)
         /\ \A e, r : Between(e, r)' <=> Between(e, r)
BY DEF Inventoried, Meant, Between

LEMMA InOrderStays ==
  ASSUME artifacts' = artifacts, InOrder(graph')
  PROVE  InOrder(graph)'
<1>1. Inventoried' = Inventoried /\ \A v : Meant(v)' = Meant(v)
  BY SameInventory
<1> QED BY <1>1 DEF InOrder

LEMMA EvidenceStays ==
  ASSUME artifacts' = artifacts, FromEvidence(edges', graph', AllStated')
  PROVE  FromEvidence(edges, graph, AllStated)'
<1>1. \A e, r : Between(e, r)' <=> Between(e, r)
  BY SameInventory
<1> QED BY <1>1 DEF FromEvidence

LEMMA ReadIsOfPool ==
  ASSUME artifacts \in Seq(ArtifactPool)
  PROVE  Inventoried \subseteq ArtifactPool
BY DEF Inventoried, ToSet

LEMMA BuildStarts == Init => BuildInv
<1> SUFFICES ASSUME Init PROVE BuildInv
  OBVIOUS
<1>1. artifacts = << >> /\ facts = << >> /\ edges = << >> /\ phase = "inventory"
  BY DEF Init
<1>2. graph.nodes = << >> /\ DOMAIN graph.byArn = {} /\ graph = [nodes |-> graph.nodes, byArn |-> graph.byArn]
  BY DEF Init
<1>3. ToSet(<< >>) = {} /\ IsASeq(<< >>)
  BY DEF ToSet, IsASeq
<1>4. \A id : ~HasNode(graph, id)
  BY <1>2 DEF HasNode
<1>5. InOrder(graph)
  BY <1>1, <1>2, <1>3, <1>4 DEF InOrder, IsGraph, Inventoried
<1>6. AllStated = {}
  BY <1>1, <1>3 DEF AllStated
<1>7. FromEvidence(edges, graph, AllStated)
  BY <1>1, <1>3, <1>6 DEF FromEvidence
<1> QED BY <1>1, <1>5, <1>7 DEF BuildInv

(* An artifact is read: its ARN now means its node, whatever that was.     *)
LEMMA ArtifactStep ==
  ASSUME BuildInv, NEW a \in ArtifactPool, ReadArtifact(a)
  PROVE  BuildInv'
<1> DEFINE n == Node(NodeID(a), a.nodeType, a.account, a.arn)
           byArn == IF a.arn = <<>> THEN graph.byArn ELSE Filed(graph.byArn, a.arn, NodeID(a))
<1>1. /\ phase = "inventory" /\ phase' = "inventory" /\ artifacts' = Append(artifacts, a)
      /\ facts = << >> /\ edges = << >> /\ facts' = << >> /\ edges' = << >>
      /\ artifacts \in Seq(ArtifactPool) /\ InOrder(graph)
  BY DEF ReadArtifact, BuildInv
<1>2. artifacts' \in Seq(ArtifactPool) /\ Inventoried' = Inventoried \cup {a}
  <2>1. artifacts' \in Seq(ArtifactPool)
    BY <1>1
  <2>2. /\ DOMAIN artifacts = 1..Len(artifacts) /\ Len(artifacts) \in Nat
        /\ DOMAIN artifacts' = 1..(Len(artifacts) + 1)
        /\ \A i \in 1..(Len(artifacts) + 1) :
             artifacts'[i] = IF i <= Len(artifacts) THEN artifacts[i] ELSE a
    BY <1>1
  <2>3. \A i \in 1..(Len(artifacts) + 1) : i \in 1..Len(artifacts) \/ i = Len(artifacts) + 1
    BY <2>2
  <2>4. ASSUME NEW x PROVE x \in ToSet(artifacts') <=> x \in ToSet(artifacts) \/ x = a
    <3>1. ASSUME x = a PROVE x \in ToSet(artifacts')
      <4>1. Len(artifacts) + 1 \in 1..(Len(artifacts) + 1) /\ artifacts'[Len(artifacts) + 1] = a
        BY <2>2
      <4> QED BY <2>2, <3>1, <4>1 DEF ToSet
    <3>2. ASSUME x \in ToSet(artifacts) PROVE x \in ToSet(artifacts')
      <4>1. PICK i \in 1..Len(artifacts) : x = artifacts[i]
        BY <2>2, <3>2 DEF ToSet
      <4>2. i \in 1..(Len(artifacts) + 1) /\ artifacts'[i] = x
        BY <2>2, <4>1
      <4> QED BY <2>2, <4>2 DEF ToSet
    <3>3. ASSUME x \in ToSet(artifacts') PROVE x \in ToSet(artifacts) \/ x = a
      <4>1. PICK i \in 1..(Len(artifacts) + 1) : x = artifacts'[i]
        BY <2>2, <3>3 DEF ToSet
      <4> QED BY <2>2, <2>3, <4>1 DEF ToSet
    <3> QED BY <3>1, <3>2, <3>3
  <2> QED BY <2>1, <2>4 DEF Inventoried
<1>3. IsGraph(graph') /\ graph'.byArn = byArn
      /\ \A x : HasNode(graph', x) <=> HasNode(graph, x) \/ x = NodeID(a)
  <2>1. n.id = NodeID(a)
    BY DEF Node
  <2>2. IsGraph(graph)
    BY <1>1 DEF InOrder
  <2>3. CASE HasNode(graph, NodeID(a))
    <3>1. graph' = [nodes |-> graph.nodes, byArn |-> byArn]
      BY <2>1, <2>2, <2>3 DEF ReadArtifact, AddNode, IsGraph
    <3> HIDE DEF byArn
    <3>2. graph'.nodes = graph.nodes /\ graph'.byArn = byArn
      BY <3>1
    <3> QED BY <2>2, <2>3, <3>1, <3>2 DEF IsGraph, HasNode
  <2>4. CASE ~HasNode(graph, NodeID(a))
    <3>1. graph' = [nodes |-> Append(graph.nodes, n), byArn |-> byArn]
      BY <2>1, <2>2, <2>4 DEF ReadArtifact, AddNode, IsGraph
    <3> HIDE DEF byArn, n
    <3>2. graph'.byArn = byArn
      BY <3>1
    <3> QED BY <2>1, <2>2, <3>1, <3>2, Appended
  <2> QED BY <2>3, <2>4
<1>4. \A v : v # a.arn => Meant(v)' = Meant(v)
  BY <1>2 DEF Meant, Inventoried
<1>5. NodeID(a) \in Meant(a.arn)'
  BY <1>2 DEF Meant, Inventoried
<1>6. /\ DOMAIN byArn = DOMAIN graph.byArn \cup (IF a.arn = <<>> THEN {} ELSE {a.arn})
      /\ a.arn # <<>> => byArn[a.arn] = NodeID(a)
      /\ \A v \in DOMAIN graph.byArn : v # a.arn => byArn[v] = graph.byArn[v]
  BY DEF Filed
<1> HIDE DEF byArn, n
<1>7. InOrder(graph)'
  <2>1. <<>> \notin DOMAIN graph'.byArn
    BY <1>1, <1>3, <1>6 DEF InOrder
  <2>2. ASSUME NEW v \in DOMAIN graph'.byArn
        PROVE  HasNode(graph', graph'.byArn[v]) /\ graph'.byArn[v] \in Meant(v)'
    <3>1. CASE v = a.arn
      <4>1. graph'.byArn[v] = NodeID(a)
        BY <1>3, <1>6, <2>1, <3>1
      <4> QED BY <1>3, <1>5, <3>1, <4>1
    <3>2. CASE v # a.arn
      <4>1. v \in DOMAIN graph.byArn /\ graph'.byArn[v] = graph.byArn[v]
        BY <1>3, <1>6, <3>2
      <4>2. HasNode(graph, graph.byArn[v]) /\ graph.byArn[v] \in Meant(v)
        BY <1>1, <4>1 DEF InOrder
      <4> QED BY <1>3, <1>4, <3>2, <4>1, <4>2
    <3> QED BY <3>1, <3>2
  <2>3. \A b \in Inventoried' : HasNode(graph', NodeID(b)) /\ (b.arn # <<>> => b.arn \in DOMAIN graph'.byArn)
    BY <1>1, <1>2, <1>3, <1>6 DEF InOrder
  <2>4. \A id : HasNode(graph', id) =>
           id[1] \in {"arn|", "name|"} \/ \E b \in ArtifactPool : id = NodeID(b)
    BY <1>1, <1>3 DEF InOrder
  <2> QED BY <1>3, <2>1, <2>2, <2>3, <2>4 DEF InOrder
<1>8. FromEvidence(edges, graph, AllStated)'
  <2>1. ToSet(<< >>) = {} /\ IsASeq(<< >>)
    BY DEF ToSet, IsASeq
  <2>2. AllStated' = {}
    BY <1>1, <2>1 DEF AllStated
  <2> QED BY <1>1, <2>1, <2>2 DEF FromEvidence
<1> QED BY <1>1, <1>2, <1>7, <1>8 DEF BuildInv

(* A fact is read: every link of it becomes an edge between nodes that are *)
(* there.                                                                  *)
LEMMA FactStep ==
  ASSUME BuildAssumption, BuildInv, NEW f \in FactPool, ReadFact(f)
  PROVE  BuildInv'
<1> DEFINE g == EnsureAll(graph, Named(f))
           links == Links(f)
           more == [i \in DOMAIN links |-> EdgeOf(g, links[i])]
<1>1. /\ phase = "facts" /\ phase' = "facts" /\ artifacts' = artifacts /\ facts' = Append(facts, f)
      /\ artifacts \in Seq(ArtifactPool) /\ facts \in Seq(FactPool)
      /\ InOrder(graph) /\ FromEvidence(edges, graph, AllStated)
  BY DEF ReadFact, BuildInv
<1>2. graph' = g /\ edges' = edges \o more
  BY DEF ReadFact, Each
<1>3. Inventoried \subseteq ArtifactPool
  BY <1>1, ReadIsOfPool
<1>4. State(links, Stated(f))
  BY LinksState
<1>5. /\ IsASeq(Named(f)) /\ \A r \in ToSet(Named(f)) : Proper(r)
      /\ \A l \in ToSet(links) : l.source \in ToSet(Named(f)) /\ l.target \in ToSet(Named(f))
  BY NamedByFact
<1>6. InOrder(g) /\ Extends(graph, g) /\ \A r \in ToSet(Named(f)) : HasNode(g, NodeOf(g, r))
  BY <1>1, <1>3, <1>5, EnsureAllStep
<1>7. /\ more = [i \in DOMAIN links |-> more[i]]
      /\ \A i \in DOMAIN links : more[i] = EdgeOf(g, links[i])
  OBVIOUS
<1> HIDE DEF g, links, more
<1>8. IsASeq(more) /\ \A e : e \in ToSet(more) <=> \E i \in DOMAIN links : e = more[i]
  BY <1>4, <1>7, Mapped DEF State
<1>9. ASSUME NEW i \in DOMAIN links
      PROVE  AreNodes(g, more[i]) /\ Between(more[i], States(links[i])) /\ States(links[i]) \in Stated(f)
  <2> DEFINE l == links[i]
             e == more[i]
  <2>1. l \in ToSet(links)
    BY DEF ToSet
  <2>2. Proper(l.source) /\ Proper(l.target) /\ States(l) \in Stated(f)
    BY <1>4, <2>1 DEF State
  <2>3. e = EdgeOf(g, l)
    BY <1>7
  <2> HIDE DEF l, e
  <2>4. e.id.type = l.type /\ e.id.source = NodeOf(g, l.source) /\ e.id.target = NodeOf(g, l.target)
    BY <2>3 DEF EdgeOf, Edge, Id
  <2>5. AreNodes(g, e)
    BY <1>5, <1>6, <2>1, <2>4 DEF AreNodes
  <2>6. NodeOf(g, l.source) \in Meant(l.source.name) /\ NodeOf(g, l.target) \in Meant(l.target.name)
    BY <1>3, <1>6, <2>2, LeadsToMeant
  <2>7. Between(e, States(l))
    BY <2>4, <2>6 DEF Between, States
  <2> QED BY <2>2, <2>5, <2>7 DEF l, e
<1>10. ASSUME NEW r \in Stated(f)
       PROVE  \E e \in ToSet(more) : Between(e, r)
  <2>1. PICK i \in DOMAIN links : States(links[i]) = r
    BY <1>4 DEF State, ToSet
  <2> QED BY <1>8, <1>9, <2>1
<1>11. FromEvidence(more, g, Stated(f))
  BY <1>8, <1>9, <1>10 DEF FromEvidence
<1>12. facts' \in Seq(FactPool) /\ AllStated' = AllStated \cup Stated(f)
  <2>1. facts' \in Seq(FactPool) /\ \A x : x \in ToSet(facts') <=> x \in ToSet(facts) \/ x = f
    <3>1. /\ DOMAIN facts = 1..Len(facts) /\ Len(facts) \in Nat
          /\ DOMAIN facts' = 1..(Len(facts) + 1) /\ facts' \in Seq(FactPool)
          /\ \A i \in 1..(Len(facts) + 1) : facts'[i] = IF i <= Len(facts) THEN facts[i] ELSE f
      BY <1>1
    <3>2. \A i \in 1..(Len(facts) + 1) : i \in 1..Len(facts) \/ i = Len(facts) + 1
      BY <3>1
    <3>3. /\ \A i \in 1..Len(facts) : i \in 1..(Len(facts) + 1) /\ facts'[i] = facts[i]
          /\ Len(facts) + 1 \in 1..(Len(facts) + 1) /\ facts'[Len(facts) + 1] = f
      BY <3>1
    <3> QED BY <3>1, <3>2, <3>3 DEF ToSet
  <2>2. AllStated = UNION {Stated(x) : x \in ToSet(facts)}
    BY <1>1 DEF AllStated
  <2>3. AllStated' = UNION {Stated(x) : x \in ToSet(facts')}
    BY <1>1 DEF AllStated
  <2>4. ToSet(facts') = ToSet(facts) \cup {f}
    BY <2>1
  <2> QED BY <2>1, <2>2, <2>3, <2>4
<1>13. InOrder(graph)'
  BY <1>1, <1>2, <1>6, InOrderStays
<1>14. FromEvidence(edges', graph', AllStated')
  BY <1>1, <1>2, <1>6, <1>11, <1>12, EvidenceGrows
<1>15. FromEvidence(edges, graph, AllStated)'
  BY <1>1, <1>14, EvidenceStays
<1> QED BY <1>1, <1>12, <1>13, <1>15 DEF BuildInv

(* What executes as a role is linked to it.                                *)
LEMMA ExecutesStep ==
  ASSUME BuildInv, ExecutesAs
  PROVE  BuildInv'
<1> DEFINE picks == [i \in DOMAIN artifacts |-> IF artifacts[i].role = <<>> THEN << >> ELSE << artifacts[i] >>]
           users == FlattenSeq(picks)
           refs == [i \in DOMAIN users |-> Ref("arn", users[i].role, "Role")]
           g == EnsureAll(graph, refs)
           more == [i \in DOMAIN users |->
                      Edge(Id("ExecutesAs", NodeID(users[i]),
                              NodeOf(g, Ref("arn", users[i].role, "Role")), ""), "ACTIVE", 2)]
           stated == {<<"ExecutesAs", a.arn, a.role>> : a \in {x \in ToSet(artifacts) : x.role # <<>>}}
<1>1. /\ phase = "facts" /\ phase' = "permissions" /\ artifacts' = artifacts /\ facts' = facts
      /\ artifacts \in Seq(ArtifactPool) /\ facts \in Seq(FactPool)
      /\ InOrder(graph) /\ FromEvidence(edges, graph, AllStated)
  BY DEF ExecutesAs, BuildInv
<1>2. graph' = g /\ edges' = edges \o more
  BY DEF ExecutesAs, OfEach, Each
<1>3. Inventoried \subseteq ArtifactPool
  BY <1>1, ReadIsOfPool
<1>4. picks = [i \in DOMAIN artifacts |-> picks[i]] /\ DOMAIN picks = DOMAIN artifacts
      /\ \A i \in DOMAIN artifacts : picks[i] = IF artifacts[i].role = <<>> THEN << >> ELSE << artifacts[i] >>
  OBVIOUS
<1> HIDE DEF users
<1>5. /\ refs = [i \in DOMAIN users |-> refs[i]]
      /\ \A i \in DOMAIN users : refs[i] = Ref("arn", users[i].role, "Role")
  BY DEF refs
<1>6. /\ more = [i \in DOMAIN users |-> more[i]]
      /\ \A i \in DOMAIN users : more[i] = Edge(Id("ExecutesAs", NodeID(users[i]), NodeOf(g, refs[i]), ""), "ACTIVE", 2)
  BY DEF refs, more
<1> HIDE DEF picks, refs, g, more
<1>7. /\ IsASeq(users)
      /\ \A x : x \in ToSet(users) <=> x \in Inventoried /\ x.role # <<>>
  <2>1. IsASeq(artifacts)
    BY <1>1 DEF IsASeq
  <2>2. IsASeq(picks)
    BY <1>4, <2>1, Mapped
  <2>3. \A i \in DOMAIN artifacts :
          /\ IsASeq(picks[i])
          /\ \A x : x \in ToSet(picks[i]) <=> x = artifacts[i] /\ x.role # <<>>
    <3>1. ASSUME NEW x
          PROVE  IsASeq(<< x >>) /\ ToSet(<< x >>) = {x}
      <4>1. << x >> \in Seq({x}) /\ ToSet(<< x >>) = {x}
        BY DEF ToSet
      <4> QED BY <4>1 DEF IsASeq
    <3>2. IsASeq(<< >>) /\ ToSet(<< >>) = {}
      BY DEF IsASeq, ToSet
    <3> QED BY <1>4, <3>1, <3>2
  <2>4. /\ IsASeq(users)
        /\ \A x : x \in ToSet(users) <=> \E i \in DOMAIN picks : x \in ToSet(picks[i])
    BY <1>4, <2>2, <2>3, Flattened DEF users
  <2>5. \A x : x \in Inventoried <=> \E i \in DOMAIN artifacts : x = artifacts[i]
    BY DEF Inventoried, ToSet
  <2> QED BY <1>4, <2>3, <2>4, <2>5
<1>8. IsASeq(refs) /\ (\A x : x \in ToSet(refs) <=> \E i \in DOMAIN users : x = refs[i])
  BY <1>5, <1>7, Mapped
<1>9. IsASeq(more) /\ (\A x : x \in ToSet(more) <=> \E i \in DOMAIN users : x = more[i])
  <2>1. more = [i \in DOMAIN users |-> more[i]]
    BY <1>6
  <2> QED BY <1>7, <2>1, Mapped
<1>10. \A i \in DOMAIN users : /\ users[i] \in Inventoried /\ users[i].role # <<>>
                               /\ Proper(refs[i]) /\ refs[i].name = users[i].role
  <2>1. \A i \in DOMAIN users : users[i] \in Inventoried /\ users[i].role # <<>>
    BY <1>7 DEF ToSet
  <2> QED BY <1>5, <2>1 DEF Ref, Proper, AsArn
<1>11. InOrder(g) /\ Extends(graph, g) /\ \A r \in ToSet(refs) : HasNode(g, NodeOf(g, r))
  <2>1. \A r \in ToSet(refs) : Proper(r)
    BY <1>8, <1>10
  <2> QED BY <1>1, <1>3, <1>8, <2>1, EnsureAllStep DEF g
<1>12. ASSUME NEW i \in DOMAIN users
       PROVE  /\ AreNodes(g, more[i])
              /\ Between(more[i], <<"ExecutesAs", users[i].arn, users[i].role>>)
  <2> DEFINE e == more[i]
             a == users[i]
             r == refs[i]
  <2>1. e = Edge(Id("ExecutesAs", NodeID(a), NodeOf(g, r), ""), "ACTIVE", 2)
    BY <1>6
  <2>2. a \in Inventoried /\ Proper(r) /\ r.name = a.role /\ r \in ToSet(refs)
    BY <1>8, <1>10
  <2> HIDE DEF e, a, r
  <2>3. e.id.type = "ExecutesAs" /\ e.id.source = NodeID(a) /\ e.id.target = NodeOf(g, r)
    BY <2>1 DEF Edge, Id
  <2>4. AreNodes(g, e)
    BY <1>11, <2>2, <2>3 DEF AreNodes, InOrder
  <2>5. NodeOf(g, r) \in Meant(a.role)
    BY <1>3, <1>11, <2>2, LeadsToMeant
  <2>6. NodeID(a) \in Meant(a.arn)
    BY <2>2 DEF Meant, Inventoried
  <2>7. Between(e, <<"ExecutesAs", a.arn, a.role>>)
    BY <2>3, <2>5, <2>6 DEF Between
  <2> QED BY <2>4, <2>7 DEF e, a
<1>13. \A x : x \in stated <=> \E i \in DOMAIN users : x = <<"ExecutesAs", users[i].arn, users[i].role>>
  <2>1. \A x : x \in stated <=> \E a \in ToSet(users) : x = <<"ExecutesAs", a.arn, a.role>>
    BY <1>7 DEF Inventoried
  <2> HIDE DEF stated
  <2> QED BY <2>1 DEF ToSet
<1> HIDE DEF stated
<1>14. FromEvidence(more, g, stated)
  <2>1. ASSUME NEW e \in ToSet(more)
        PROVE  AreNodes(g, e) /\ \E r \in stated : Between(e, r)
    <3>1. PICK i \in DOMAIN users : e = more[i]
      BY <1>9, <2>1, Zenon
    <3>2. <<"ExecutesAs", users[i].arn, users[i].role>> \in stated
      BY <1>13, Zenon
    <3> QED BY <1>12, <3>1, <3>2
  <2>2. ASSUME NEW r \in stated
        PROVE  \E e \in ToSet(more) : Between(e, r)
    <3>1. PICK i \in DOMAIN users : r = <<"ExecutesAs", users[i].arn, users[i].role>>
      BY <1>13, <2>2, Zenon
    <3>2. more[i] \in ToSet(more)
      BY <1>9, Zenon
    <3> QED BY <1>12, <3>1, <3>2
  <2> QED BY <1>9, <2>1, <2>2 DEF FromEvidence
<1>15. AllStated' = AllStated \cup stated
  BY <1>1 DEF AllStated, stated
<1>16. FromEvidence(edges', graph', AllStated')
  BY <1>1, <1>2, <1>11, <1>14, <1>15, EvidenceGrows
<1>17. FromEvidence(edges, graph, AllStated)'
  BY <1>1, <1>16, EvidenceStays
<1> QED BY <1>1, <1>17 DEF BuildInv

(* What the later steps of the pipeline do is of no consequence to it.     *)
LEMMA BuildSteps ==
  ASSUME BuildAssumption, BuildInv, [Next]_vars
  PROVE  BuildInv'
<1>1. CASE \E a \in ArtifactPool : ReadArtifact(a)
  BY <1>1, ArtifactStep
<1>2. CASE InventoryRead
  <2>1. /\ phase = "inventory" /\ phase' = "facts" /\ UNCHANGED <<artifacts, facts, graph, edges>>
        /\ InOrder(graph) /\ FromEvidence(edges, graph, AllStated)
    BY <1>2 DEF InventoryRead, BuildInv
  <2>2. AllStated' = AllStated
    BY <2>1 DEF AllStated
  <2>3. InOrder(graph)' /\ FromEvidence(edges, graph, AllStated)'
    BY <2>1, <2>2, InOrderStays, EvidenceStays
  <2> QED BY <2>1, <2>3 DEF BuildInv
<1>3. CASE \E f \in FactPool : ReadFact(f)
  BY <1>3, FactStep
<1>4. CASE ExecutesAs
  BY <1>4, ExecutesStep
<1>5. CASE EvaluatePermissions
  BY <1>5 DEF EvaluatePermissions, BuildInv
<1>6. CASE ApplyFootholds
  BY <1>6 DEF ApplyFootholds, BuildInv
<1>7. CASE AddDerived
  BY <1>7 DEF AddDerived, BuildInv
<1>8. CASE UNCHANGED vars
  <2>1. /\ UNCHANGED <<artifacts, facts, graph, edges, phase>>
    BY <1>8 DEF vars
  <2>2. AllStated' = AllStated
    BY <2>1 DEF AllStated
  <2>3. InOrder(graph) => InOrder(graph)'
    BY <2>1, InOrderStays
  <2>4. FromEvidence(edges, graph, AllStated) => FromEvidence(edges, graph, AllStated)'
    BY <2>1, <2>2, EvidenceStays
  <2> QED BY <2>1, <2>3, <2>4 DEF BuildInv
<1> QED BY <1>1, <1>2, <1>3, <1>4, <1>5, <1>6, <1>7, <1>8 DEF Next

LEMMA EvidenceIsKept ==
  ASSUME BuildInv
  PROVE  EdgesFromEvidence
<1> SUFFICES ASSUME phase \in {"facts", "permissions"}, FromEvidence(edges, graph, AllStated)
             PROVE  EdgesFromEvidence
  BY DEF BuildInv, EdgesFromEvidence
<1>1. \A r \in AllStated : \E i \in DOMAIN edges : Between(edges[i], r)
  BY DEF FromEvidence, ToSet
<1>2. \A i \in DOMAIN edges : edges[i] \in ToSet(edges)
  BY DEF ToSet
<1> QED BY <1>1, <1>2 DEF FromEvidence, EdgesFromEvidence

(* EdgesFromEvidence, in whatever order artifacts and facts are read, for  *)
(* any bundle: the base graph has an edge for every relation the facts and *)
(* the artifacts state, none without, between the nodes the names mean     *)
(* (Build, fromTrustPolicy, fromResourcePolicy, directFact).               *)
THEOREM GraphIsTheEvidence == Spec => []EdgesFromEvidence
<1>1. Init => BuildInv
  BY BuildStarts
<1>2. BuildInv /\ [Next]_vars => BuildInv'
  BY BuildAssumption, BuildSteps
<1>3. BuildInv => EdgesFromEvidence
  BY EvidenceIsKept
<1> QED BY <1>1, <1>2, <1>3, PTL DEF Spec

=============================================================================
