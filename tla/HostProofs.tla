----------------------------- MODULE HostProofs -----------------------------
(***************************************************************************)
(* Proofs about the reference host, for all catalogs and commands.  Its    *)
(* books: no capacity is exceeded, a transaction that is rolled back       *)
(* restores what it replaced, leases expire, and no resource is overdrawn. *)
(* Its statuses: the flags of the entities are those of their instances.   *)
(***************************************************************************)
EXTENDS HostBooks, MemoryHost, FixedPointProofs, SetLemmas, TLAPS

Table(D, R) == UNION {[d -> R] : d \in SUBSET D}
Tier == {"owner", "source", "team"}

MetaRecord == [owner : Hero, template : DOMAIN Template, source : {c[3] : c \in Spawn}, born : Int, due : Int]
WorldRecord == [alive : BOOLEAN, place : Int, owner : Hero \cup {0}]
MetaTable == Table(Nat, MetaRecord)
WorldTable == Table(Nat, WorldRecord)

OwnedType(o) ==
    o \in [clock : Int, next : Nat, meta : MetaTable, world : WorldTable,
           open : [created : SUBSET Nat, meta : MetaTable, world : WorldTable,
                   was : {<<>>} \cup (MetaTable \X WorldTable)]]

(* The spawned entities have metadata and the heroes have none; numbers    *)
(* are given out once.                                                     *)
Whole(o) ==
    /\ Hero \cap DOMAIN o.meta = {}
    /\ DOMAIN o.world = Hero \cup DOMAIN o.meta
    /\ \A x \in DOMAIN o.world : x < o.next

(* A capacity, the metadata it counts and the group it bounds. *)
Most(c, k) == CASE k = "owner" -> Template[c[2]].perOwner
                [] k = "source" -> Template[c[2]].perSource
                [] k = "team" -> Template[c[2]].perTeam
Limited(c, k) == k = "owner" \/ Most(c, k) > 0
Counts(c, m, k) ==
    /\ m.template = c[2]
    /\ k \in {"owner", "source"} => m.owner = c[1]
    /\ k = "source" => m.source = c[3]
    /\ k = "team" => SameTeam(c[1], m.owner)
Group(o, c, k) == {x \in DOMAIN o.meta : Counts(c, o.meta[x], k)}
Kind(m) == <<m.owner, m.template, m.source>>

Fits(o) == \A x \in DOMAIN o.meta : \A k \in Tier :
             Limited(Kind(o.meta[x]), k) =>
               Cardinality(Group(o, Kind(o.meta[x]), k)) <= Most(Kind(o.meta[x]), k)

(* An open transaction can be taken back: what would be there then is what *)
(* was there before it.                                                    *)
Reversible(o) ==
    o.open # NoTransaction =>
      /\ <<RolledBack(o).meta, RolledBack(o).world>> = o.open.was
      /\ Whole(RolledBack(o)) /\ Fits(RolledBack(o))

OwnedInv == OwnedType(owned) /\ Whole(owned) /\ Fits(owned) /\ Reversible(owned)

-----------------------------------------------------------------------------
(* The three groups that the code counts are the groups of the tiers. *)
LEMMA GroupIs ==
    ASSUME NEW o, NEW c
    PROVE  /\ Group(o, c, "owner") = OfOwner(o, c)
           /\ Group(o, c, "source") = OfSource(o, c)
           /\ Group(o, c, "team") = OfTeam(o, c)
BY DEF Group, Counts, OfOwner, OfSource, OfTeam, OfTemplate

(* The capacities of the model are those of the tiers. *)
LEMMA FitsIs == WithinCapacities <=> Fits(owned)
<1> DEFINE c(x) == <<owned.meta[x].owner, owned.meta[x].template, owned.meta[x].source>>
           t(x) == Template[owned.meta[x].template]
<1>1. \A x \in DOMAIN owned.meta : Kind(owned.meta[x]) = c(x)
  BY DEF Kind
<1>2. \A x \in DOMAIN owned.meta : /\ Most(c(x), "owner") = t(x).perOwner
                                   /\ Most(c(x), "source") = t(x).perSource
                                   /\ Most(c(x), "team") = t(x).perTeam
  BY DEF Most
<1>3. \A x \in DOMAIN owned.meta : /\ Group(owned, c(x), "owner") = OfOwner(owned, c(x))
                                   /\ Group(owned, c(x), "source") = OfSource(owned, c(x))
                                   /\ Group(owned, c(x), "team") = OfTeam(owned, c(x))
  BY GroupIs
<1>4. WithinCapacities <=>
        \A x \in DOMAIN owned.meta :
          /\ Cardinality(OfOwner(owned, c(x))) <= t(x).perOwner
          /\ t(x).perSource > 0 => Cardinality(OfSource(owned, c(x))) <= t(x).perSource
          /\ t(x).perTeam > 0 => Cardinality(OfTeam(owned, c(x))) <= t(x).perTeam
  BY DEF WithinCapacities
<1>5. Fits(owned) <=>
        \A x \in DOMAIN owned.meta : \A k \in Tier :
          Limited(c(x), k) => Cardinality(Group(owned, c(x), k)) <= Most(c(x), k)
  BY <1>1 DEF Fits
<1> HIDE DEF c, t
<1> QED BY <1>2, <1>3, <1>4, <1>5 DEF Tier, Limited

(* What the tables of a state hold. *)
LEMMA TableFacts ==
    ASSUME NEW o, OwnedType(o)
    PROVE  /\ \A x \in DOMAIN o.meta : x \in Nat /\ o.meta[x] \in MetaRecord
           /\ \A x \in DOMAIN o.world : x \in Nat /\ o.world[x] \in WorldRecord
           /\ o.clock \in Int /\ o.next \in Nat
           /\ o.meta \in MetaTable /\ o.world \in WorldTable
<1>1. o.clock \in Int /\ o.next \in Nat /\ o.meta \in MetaTable /\ o.world \in WorldTable
  BY DEF OwnedType
<1>2. \A x \in DOMAIN o.meta : x \in Nat /\ o.meta[x] \in MetaRecord
  BY <1>1 DEF MetaTable, Table
<1>3. \A x \in DOMAIN o.world : x \in Nat /\ o.world[x] \in WorldRecord
  BY <1>1 DEF WorldTable, Table
<1> QED BY <1>1, <1>2, <1>3

(* Metadata is kept of finitely many entities. *)
LEMMA MetaIsFinite ==
    ASSUME NEW o, OwnedType(o), Whole(o)
    PROVE  /\ IsFiniteSet(DOMAIN o.meta)
           /\ \A c, k : IsFiniteSet(Group(o, c, k)) /\ Cardinality(Group(o, c, k)) \in Nat
<1>1. o.next \in Nat /\ DOMAIN o.meta \in SUBSET Nat
  BY DEF OwnedType, MetaTable, Table
<1>2. DOMAIN o.meta \in SUBSET (0..o.next)
  BY <1>1 DEF Whole
<1>3. IsFiniteSet(0..o.next)
  BY <1>1, FS_Interval
<1>4. IsFiniteSet(DOMAIN o.meta)
  BY <1>2, <1>3, FS_Subset
<1>5. ASSUME NEW c, NEW k
      PROVE  IsFiniteSet(Group(o, c, k)) /\ Cardinality(Group(o, c, k)) \in Nat
  <2>1. Group(o, c, k) \in SUBSET (DOMAIN o.meta)
    BY DEF Group
  <2>2. IsFiniteSet(Group(o, c, k))
    BY <1>4, <2>1, FS_Subset
  <2> QED BY <2>2, FS_CardinalityType
<1> QED BY <1>4, <1>5

(* Who removes entities exceeds no capacity. *)
LEMMA FewerFit ==
    ASSUME NEW o, NEW p, OwnedType(o), Whole(o), Fits(o),
           DOMAIN p.meta \subseteq DOMAIN o.meta, \A x \in DOMAIN p.meta : p.meta[x] = o.meta[x]
    PROVE  Fits(p)
<1> SUFFICES ASSUME NEW x \in DOMAIN p.meta, NEW k \in Tier, Limited(Kind(p.meta[x]), k)
             PROVE  Cardinality(Group(p, Kind(p.meta[x]), k)) <= Most(Kind(p.meta[x]), k)
  BY DEF Fits
<1> DEFINE c == Kind(p.meta[x])
<1>1. c = Kind(o.meta[x]) /\ x \in DOMAIN o.meta
  OBVIOUS
<1>2. Cardinality(Group(o, c, k)) <= Most(c, k)
  BY <1>1 DEF Fits
<1>3. Group(p, c, k) \in SUBSET Group(o, c, k)
  BY DEF Group
<1>4. IsFiniteSet(Group(o, c, k)) /\ Cardinality(Group(o, c, k)) \in Nat
  BY MetaIsFinite
<1>5. Cardinality(Group(p, c, k)) <= Cardinality(Group(o, c, k)) /\ IsFiniteSet(Group(p, c, k))
  BY <1>3, <1>4, FS_Subset
<1>6. Cardinality(Group(p, c, k)) \in Nat
  BY <1>5, FS_CardinalityType
<1>7. Most(c, k) \in Int
  <2>1. p.meta[x] \in MetaRecord
    BY TableFacts
  <2>2. c[2] \in DOMAIN Template
    BY <2>1 DEF Kind, MetaRecord
  <2> QED BY <2>2, TemplatesAreBounded DEF Most, Tier
<1> QED
  <2> HIDE DEF c
  <2>1. Cardinality(Group(p, c, k)) <= Most(c, k)
    BY ONLY <1>2, <1>4, <1>5, <1>6, <1>7
  <2> QED BY <2>1 DEF c

-----------------------------------------------------------------------------
(* The order of the candidates names each of them once. *)
LEMMA OrderEnumerates ==
    ASSUME NEW o, OwnedType(o), Whole(o), NEW c \in Spawn
    PROVE  /\ CandidateOrder(o, c) \in [1..Cardinality(Replaceable(o, c)) -> Replaceable(o, c)]
           /\ \A i, j \in 1..Cardinality(Replaceable(o, c)) :
                CandidateOrder(o, c)[i] = CandidateOrder(o, c)[j] => i = j
           /\ Cardinality(Replaceable(o, c)) \in Nat
<1> DEFINE S == Replaceable(o, c)
           R == {p \in S \X S : GivenUpBefore(o, c, p[1], p[2])}
           far(z) == Square(o.world[z].place - c[5])
<1>1. S \in SUBSET (DOMAIN o.meta)
  BY DEF Replaceable, OfTemplate
<1>2. IsFiniteSet(S)
  BY <1>1, MetaIsFinite, FS_Subset
<1>3. ASSUME NEW x \in S
      PROVE  x \in Int /\ o.meta[x].born \in Int /\ far(x) \in Int
  <2>1. x \in Nat /\ o.meta[x] \in MetaRecord
    BY <1>1, TableFacts
  <2>2. x \in DOMAIN o.world
    BY <1>1 DEF Whole
  <2>3. o.world[x] \in WorldRecord
    BY <2>2, TableFacts
  <2>4. o.world[x].place \in Int /\ c[5] \in Int /\ o.meta[x].born \in Int
    BY <2>1, <2>3, SpawnsAreTyped DEF WorldRecord, MetaRecord
  <2>5. \A a, b \in Int : (a - b) * (a - b) \in Int
    OBVIOUS
  <2> QED BY <2>1, <2>4, <2>5 DEF Square
<1> DEFINE b(x) == o.meta[x].born
           older(x, y) == b(x) < b(y) \/ (b(x) = b(y) /\ x < y)
           policy == Template[c[2]].replacement
<1>4. \A x, y \in S : <<x, y>> \in R <=>
        CASE policy = "replace_newest" -> older(y, x)
          [] policy = "replace_nearest" -> far(x) < far(y) \/ (far(x) = far(y) /\ x < y)
          [] policy = "replace_farthest" -> far(x) > far(y) \/ (far(x) = far(y) /\ x < y)
          [] OTHER -> older(x, y)
  BY DEF GivenUpBefore
<1>5. /\ \A x \in S : <<x, x>> \notin R
      /\ \A x, y, z \in S : <<x, y>> \in R /\ <<y, z>> \in R => <<x, z>> \in R
      /\ \A x, y \in S : x = y \/ <<x, y>> \in R \/ <<y, x>> \in R
  <2> HIDE DEF S, R, far, b, policy
  <2>0. \A x \in S : x \in Int /\ b(x) \in Int /\ far(x) \in Int
    BY <1>3 DEF b
  <2>1. CASE policy = "replace_newest"
    <3>1. \A x, y \in S : <<x, y>> \in R <=> older(y, x)
      BY <1>4, <2>1
    <3> QED BY ONLY <2>0, <3>1
  <2>2. CASE policy = "replace_nearest"
    <3>1. \A x, y \in S : <<x, y>> \in R <=> far(x) < far(y) \/ (far(x) = far(y) /\ x < y)
      BY <1>4, <2>2
    <3> QED BY ONLY <2>0, <3>1
  <2>3. CASE policy = "replace_farthest"
    <3>1. \A x, y \in S : <<x, y>> \in R <=> far(x) > far(y) \/ (far(x) = far(y) /\ x < y)
      BY <1>4, <2>3
    <3> QED BY ONLY <2>0, <3>1
  <2>4. CASE policy \notin {"replace_newest", "replace_nearest", "replace_farthest"}
    <3>1. \A x, y \in S : <<x, y>> \in R <=> older(x, y)
      BY <1>4, <2>4
    <3> QED BY ONLY <2>0, <3>1
  <2> QED BY <2>1, <2>2, <2>3, <2>4
<1>6. /\ \A x, y \in S : RankIn(S, R, x) = RankIn(S, R, y) => x = y
      /\ \A i \in 1..Cardinality(S) : \E x \in S : RankIn(S, R, x) = i
  <2> HIDE DEF S, R
  <2>1. \A x \in S : <<x, x>> \notin R
    BY <1>5
  <2>2. \A x, y, z \in S : <<x, y>> \in R /\ <<y, z>> \in R => <<x, z>> \in R
    BY <1>5
  <2>3. \A x, y \in S : x = y \/ <<x, y>> \in R \/ <<y, x>> \in R
    BY <1>5
  <2> QED BY ONLY <1>2, <2>1, <2>2, <2>3, RankEnumerates
<1>7. \A x \in S : RankIn(S, R, x) = Cardinality({y \in S : y = x \/ GivenUpBefore(o, c, y, x)})
  <2>1. \A x \in S : {y \in S : y = x \/ <<y, x>> \in R} = {y \in S : y = x \/ GivenUpBefore(o, c, y, x)}
    OBVIOUS
  <2> HIDE DEF S, R
  <2> QED BY <2>1 DEF RankIn
<1>8. CandidateOrder(o, c) =
        [i \in 1..Cardinality(S) |-> CHOOSE x \in S : Cardinality({y \in S : y = x \/ GivenUpBefore(o, c, y, x)}) = i]
  BY DEF CandidateOrder
<1>9. \A i \in 1..Cardinality(S) : CandidateOrder(o, c)[i] \in S /\ RankIn(S, R, CandidateOrder(o, c)[i]) = i
  <2> HIDE DEF S, R
  <2> QED BY <1>6, <1>7, <1>8
<1>10. Cardinality(S) \in Nat
  BY <1>2, FS_CardinalityType
<1> HIDE DEF R
<1> QED BY <1>8, <1>9, <1>10

(* A plan that is carried out makes room in every capacity for the whole   *)
(* spawn.                                                                  *)
Room(o, c, k, gone) == Limited(c, k) => Cardinality(Group(o, c, k) \ gone) + c[4] <= Most(c, k)

LEMMA PlanMakesRoom ==
    ASSUME NEW o, OwnedType(o), Whole(o), NEW c \in Spawn, ReplacementPlan(o, c).ok
    PROVE  /\ \A k \in Tier : Room(o, c, k, ReplacementPlan(o, c).remove)
           /\ ReplacementPlan(o, c).remove \subseteq Replaceable(o, c)
<1> DEFINE S == Replaceable(o, c)
           n == Cardinality(S)
           order == CandidateOrder(o, c)
           e == Excess(o, c)
           start == [excess |-> e, remove |-> {}]
           P == [excess : [owner : Int, source : Int, team : Int], remove : SUBSET S]
<1>1. order \in [1..n -> S] /\ n \in Nat /\ \A i, j \in 1..n : order[i] = order[j] => i = j
  BY OrderEnumerates
<1>2. Len(order) = n
  BY <1>1
<1>3. ASSUME NEW k \in Tier
      PROVE  /\ Cardinality(Group(o, c, k)) \in Nat /\ IsFiniteSet(Group(o, c, k)) /\ Most(c, k) \in Int
             /\ e[k] \in Int
             /\ Limited(c, k) => e[k] = Cardinality(Group(o, c, k)) + c[4] - Most(c, k)
  <2>1. Cardinality(Group(o, c, k)) \in Nat /\ IsFiniteSet(Group(o, c, k))
    BY MetaIsFinite
  <2>2. Most(c, k) \in Int /\ c[4] \in Int
    BY SpawnsAreTyped, TemplatesAreBounded DEF Most, Tier
  <2>3. CASE k = "owner"
    <3>1. e[k] = Cardinality(Group(o, c, k)) + c[4] - Most(c, k)
      BY <2>3, GroupIs DEF Excess, Most
    <3> QED BY <2>1, <2>2, <3>1
  <2>4. CASE k = "source"
    <3>1. e[k] = IF Most(c, k) > 0 THEN Cardinality(Group(o, c, k)) + c[4] - Most(c, k) ELSE 0
      BY <2>4, GroupIs DEF Excess, Most
    <3> QED BY <2>1, <2>2, <2>4, <3>1 DEF Limited
  <2>5. CASE k = "team"
    <3>1. e[k] = IF Most(c, k) > 0 THEN Cardinality(Group(o, c, k)) + c[4] - Most(c, k) ELSE 0
      BY <2>5, GroupIs DEF Excess, Most
    <3> QED BY <2>1, <2>2, <2>5, <3>1 DEF Limited
  <2> QED BY <2>3, <2>4, <2>5 DEF Tier
<1>4. start \in P /\ DOMAIN e = Tier
  <2>1. e["owner"] \in Int /\ e["source"] \in Int /\ e["team"] \in Int
    BY <1>3 DEF Tier
  <2>2. e = [owner |-> e["owner"], source |-> e["source"], team |-> e["team"]]
    BY DEF Excess
  <2>3. e \in [owner : Int, source : Int, team : Int]
    <3> HIDE DEF e
    <3> QED BY <2>1, <2>2
  <2> QED BY <2>2, <2>3 DEF Tier
<1>5. ASSUME NEW p \in P, NEW x \in S
      PROVE  /\ Considered(o, c, p, x) \in P
             /\ Considered(o, c, p, x).remove \subseteq p.remove \cup {x}
             /\ p.remove \subseteq Considered(o, c, p, x).remove
             /\ \A k \in Tier : Considered(o, c, p, x).excess[k] =
                  IF p.excess[k] > 0 /\ x \in Group(o, c, k) THEN p.excess[k] - 1 ELSE p.excess[k]
             /\ (\E k \in Tier : p.excess[k] > 0 /\ x \in Group(o, c, k)) => x \in Considered(o, c, p, x).remove
  <2> DEFINE m == Relieves(o, c, p.excess, x)
             t == [excess |-> [k \in DOMAIN m |-> IF m[k] THEN p.excess[k] - 1 ELSE p.excess[k]], remove |-> p.remove \cup {x}]
  <2>1. DOMAIN m = Tier /\ \A k \in Tier : m[k] <=> p.excess[k] > 0 /\ x \in Group(o, c, k)
    <3>1. m = [owner |-> p.excess.owner > 0 /\ x \in Group(o, c, "owner"),
               source |-> p.excess.source > 0 /\ x \in Group(o, c, "source"),
               team |-> p.excess.team > 0 /\ x \in Group(o, c, "team")]
      BY GroupIs DEF Relieves
    <3>2. DOMAIN m = Tier
      BY <3>1 DEF Tier
    <3>3. /\ m["owner"] <=> p.excess.owner > 0 /\ x \in Group(o, c, "owner")
          /\ m["source"] <=> p.excess.source > 0 /\ x \in Group(o, c, "source")
          /\ m["team"] <=> p.excess.team > 0 /\ x \in Group(o, c, "team")
      <4> HIDE DEF m
      <4> QED BY ONLY <3>1, Zenon
    <3> HIDE DEF m
    <3> QED BY <3>2, <3>3 DEF Tier
  <2>2. Considered(o, c, p, x) = IF \E k \in DOMAIN m : m[k] THEN t ELSE p
    BY DEF Considered
  <2>3. \A k \in Tier : p.excess[k] \in Int
    BY DEF Tier
  <2> HIDE DEF m
  <2>4. DOMAIN t.excess = Tier /\ \A k \in Tier : t.excess[k] = IF m[k] THEN p.excess[k] - 1 ELSE p.excess[k]
    BY <2>1
  <2>5. t.excess \in [owner : Int, source : Int, team : Int]
    BY <2>1, <2>3, <2>4 DEF Tier
  <2>6. t \in P /\ t.remove = p.remove \cup {x}
    BY <2>5
  <2>7. CASE \E k \in DOMAIN m : m[k]
    <3>1. Considered(o, c, p, x) = t
      BY <2>2, <2>7
    <3> HIDE DEF t, P
    <3> QED BY <2>1, <2>4, <2>6, <3>1
  <2>8. CASE ~\E k \in DOMAIN m : m[k]
    <3>1. Considered(o, c, p, x) = p
      BY <2>2, <2>8
    <3>2. \A k \in Tier : ~(p.excess[k] > 0 /\ x \in Group(o, c, k))
      BY <2>1, <2>8
    <3> HIDE DEF t, P
    <3> QED BY <3>1, <3>2
  <2> QED BY <2>7, <2>8
<1> DEFINE steps == [f \in P \X (1..n) |-> Considered(o, c, f[1], order[f[2]])]
<1>6. PICK after \in [0..n -> P] :
        /\ after[0] = start
        /\ \A i \in 1..n : after[i] = Considered(o, c, after[i - 1], order[i])
  <2>1. \A v \in P : \A i \in 1..n : steps[<<v, i>>] = Considered(o, c, v, order[i])
    OBVIOUS
  <2>2. \A v \in P : \A i \in 1..n : steps[<<v, i>>] \in P
    BY <1>1, <1>5, <2>1
  <2>3. StepsIn(n, P, steps) /\ n \in Nat /\ start \in P
    <3>1. n \in Nat /\ start \in P
      BY <1>1, <1>4
    <3> HIDE DEF steps, P, start, n
    <3> QED BY <2>2, <3>1 DEF StepsIn
  <2>4. PICK f : Iterates(f, n, P, start, steps)
    <3> HIDE DEF steps, P, start, n
    <3> QED BY ONLY <2>3, Iteration
  <2>5. f \in [0..n -> P] /\ f[0] = start /\ \A i \in 1..n : f[i - 1] \in P
    <3> HIDE DEF steps, P, start, n
    <3> QED BY <1>1, <2>4 DEF Iterates
  <2>6. \A i \in 1..n : f[i] = Considered(o, c, f[i - 1], order[i])
    <3> HIDE DEF steps, P, start, n
    <3> QED BY <2>1, <2>4, <2>5 DEF Iterates
  <2> HIDE DEF steps, P, start, n
  <2> QED BY <2>5, <2>6
<1> DEFINE eq(f) == [i \in 0..n |-> IF i = 0 THEN start ELSE Considered(o, c, f[i - 1], order[i])]
           A == CHOOSE f : f = eq(f)
<1>7. A = eq(A)
  <2>1. after = eq(after)
    <3>1. \A i \in 0..n : after[i] = IF i = 0 THEN start ELSE Considered(o, c, after[i - 1], order[i])
      <4> HIDE DEF P, start, n
      <4> QED BY <1>1, <1>6
    <3> HIDE DEF P, start, n
    <3> QED BY <3>1
  <2> HIDE DEF eq
  <2> QED BY <2>1
<1>8. ReplacementPlan(o, c) = IF Relieved(start) THEN [ok |-> TRUE, remove |-> {}]
                              ELSE [ok |-> Template[c[2]].replacement # "reject_new" /\ Relieved(A[n]), remove |-> A[n].remove]
  BY <1>2 DEF ReplacementPlan
<1>9. A[0] = start /\ \A i \in 1..n : A[i] = Considered(o, c, A[i - 1], order[i])
  <2>0. n \in Nat
    BY <1>1
  <2> HIDE DEF A, start, n
  <2>1. A[0] = eq(A)[0] /\ \A i \in 1..n : A[i] = eq(A)[i]
    BY <1>7
  <2>2. eq(A)[0] = start /\ \A i \in 1..n : eq(A)[i] = Considered(o, c, A[i - 1], order[i])
    BY ONLY <2>0
  <2> HIDE DEF eq
  <2> QED BY ONLY <2>1, <2>2
<1> DEFINE taken(k, i) == Group(o, c, k) \cap A[i].remove
           J(i) == /\ A[i] \in P
                   /\ A[i].remove \subseteq {order[j] : j \in 1..i}
                   /\ \A k \in Tier : A[i].excess[k] >= e[k] - Cardinality(taken(k, i))
           G == {i \in 0..n : J(i)}
<1>10. 0 \in G
  <2>1. A[0].remove = {} /\ A[0].excess = e /\ A[0] \in P
    <3>1. start.remove = {} /\ start.excess = e /\ start \in P
      BY <1>4
    <3> HIDE DEF A, start, P, e
    <3> QED BY <1>9, <3>1
  <2>2. \A k \in Tier : taken(k, 0) = {} /\ Cardinality(taken(k, 0)) = 0
    BY <2>1, FS_EmptySet
  <2>3. \A k \in Tier : e[k] \in Int
    BY <1>3
  <2>4. J(0)
    <3> HIDE DEF P, A, e
    <3> QED BY <2>1, <2>2, <2>3
  <2> HIDE DEF J
  <2> QED BY <1>1, <2>4
<1>11. ASSUME NEW i \in 0..(n - 1), i \in G
       PROVE  i + 1 \in G
  <2> DEFINE x == order[i + 1]
             v == A[i]
             w == A[i + 1]
  <2>1. J(i) /\ v \in P /\ i + 1 \in 1..n /\ (i + 1) - 1 = i
    <3>1. J(i)
      <4> HIDE DEF J
      <4> QED BY <1>11
    <3>2. i + 1 \in 1..n /\ (i + 1) - 1 = i
      BY <1>1
    <3>3. v \in P
      BY <3>1
    <3> QED BY <3>1, <3>2, <3>3
  <2>2. x \in S /\ w = Considered(o, c, v, x)
    <3> HIDE DEF A, P, S, order
    <3> QED BY <1>1, <1>9, <2>1
  <2>3. x \notin v.remove
    <3>1. \A j \in 1..i : order[j] # x
      <4>1. \A j \in 1..i : j \in 1..n /\ j # i + 1
        BY <1>1, <2>1
      <4> HIDE DEF order, S, n
      <4> QED BY <1>1, <2>1, <4>1
    <3> HIDE DEF A, P, S, order
    <3> QED BY <2>1, <3>1
  <2>4. /\ w \in P
        /\ w.remove \subseteq v.remove \cup {x} /\ v.remove \subseteq w.remove
        /\ \A k \in Tier : w.excess[k] = IF v.excess[k] > 0 /\ x \in Group(o, c, k) THEN v.excess[k] - 1 ELSE v.excess[k]
        /\ \A k \in Tier : v.excess[k] > 0 /\ x \in Group(o, c, k) => x \in w.remove
    <3> HIDE DEF A, P, S, order, x
    <3> QED BY <1>5, <2>1, <2>2
  <2>5. w.remove \subseteq {order[j] : j \in 1..(i + 1)}
    <3>1. {order[j] : j \in 1..i} \cup {x} \subseteq {order[j] : j \in 1..(i + 1)}
      BY <1>1
    <3> HIDE DEF A, P, S, order, x
    <3> QED BY <2>1, <2>4, <3>1
  <2>6. ASSUME NEW k \in Tier
        PROVE  w.excess[k] >= e[k] - Cardinality(taken(k, i + 1))
    <3>1. IsFiniteSet(taken(k, i)) /\ IsFiniteSet(taken(k, i + 1))
      BY <1>3, FS_Intersection
    <3>2. Cardinality(taken(k, i)) \in Nat /\ Cardinality(taken(k, i + 1)) \in Nat
      BY <3>1, FS_CardinalityType
    <3>3. taken(k, i) \in SUBSET taken(k, i + 1)
      BY <2>4
    <3>4. v.excess[k] \in Int /\ w.excess[k] \in Int /\ e[k] \in Int
      BY <1>3, <2>1, <2>4 DEF Tier
    <3>5. v.excess[k] >= e[k] - Cardinality(taken(k, i))
      BY <2>1
    <3>6. CASE v.excess[k] > 0 /\ x \in Group(o, c, k)
      <4>1. taken(k, i + 1) = taken(k, i) \cup {x} /\ x \notin taken(k, i)
        BY <2>3, <2>4, <3>6
      <4>2. Cardinality(taken(k, i + 1)) = Cardinality(taken(k, i)) + 1
        <5> HIDE DEF taken, x
        <5> QED BY <3>1, <4>1, FS_AddElement
      <4>3. w.excess[k] = v.excess[k] - 1
        BY <2>4, <3>6
      <4> HIDE DEF taken, v, w, e
      <4> QED BY ONLY <3>2, <3>4, <3>5, <4>2, <4>3
    <3>7. CASE ~(v.excess[k] > 0 /\ x \in Group(o, c, k))
      <4>1. w.excess[k] = v.excess[k]
        BY <2>4, <3>7
      <4>2. Cardinality(taken(k, i)) <= Cardinality(taken(k, i + 1))
        <5> HIDE DEF taken
        <5> QED BY <3>1, <3>3, FS_Subset
      <4> HIDE DEF taken, v, w, e
      <4> QED BY ONLY <3>2, <3>4, <3>5, <4>1, <4>2
    <3> QED BY <3>6, <3>7
  <2>7. J(i + 1)
    <3> HIDE DEF P, order, taken, e, A
    <3> QED BY <2>4, <2>5, <2>6
  <2> HIDE DEF J
  <2> QED BY <2>1, <2>7
<1>12. J(n)
  <2>1. G \subseteq 0..n
    OBVIOUS
  <2>2. G = 0..n
    <3> HIDE DEF G, n
    <3> QED BY ONLY <1>1, <1>10, <1>11, <2>1, CountsUp
  <2>3. n \in 0..n
    BY <1>1
  <2> HIDE DEF J
  <2> QED BY ONLY <2>2, <2>3
<1>13. ASSUME NEW k \in Tier, Limited(c, k)
       PROVE  Cardinality(Group(o, c, k) \ ReplacementPlan(o, c).remove) + c[4] <= Most(c, k)
  <2>0. c[4] \in Int
    BY SpawnsAreTyped
  <2>1. CASE Relieved(start)
    <3>1. ReplacementPlan(o, c).remove = {} /\ Group(o, c, k) \ {} = Group(o, c, k)
      BY <1>8, <2>1
    <3>2. e[k] <= 0
      <4>1. start.excess = e
        OBVIOUS
      <4> HIDE DEF start, e
      <4> QED BY <1>4, <2>1, <4>1 DEF Relieved
    <3> HIDE DEF e
    <3> QED BY <1>3, <1>13, <2>0, <3>1, <3>2
  <2>2. CASE ~Relieved(start)
    <3> HIDE DEF A, start, n
    <3>0. ReplacementPlan(o, c) = [ok |-> Template[c[2]].replacement # "reject_new" /\ Relieved(A[n]), remove |-> A[n].remove]
      BY <1>8, <2>2
    <3>1. ReplacementPlan(o, c).remove = A[n].remove /\ Relieved(A[n])
      <4>1. ReplacementPlan(o, c).remove = A[n].remove
        BY ONLY <3>0
      <4>2. ReplacementPlan(o, c).ok <=> Template[c[2]].replacement # "reject_new" /\ Relieved(A[n])
        <5> DEFINE X == Template[c[2]].replacement # "reject_new" /\ Relieved(A[n])
        <5>1. ReplacementPlan(o, c) = [ok |-> X, remove |-> A[n].remove]
          BY ONLY <3>0
        <5> HIDE DEF X
        <5>2. ReplacementPlan(o, c).ok = X
          BY ONLY <5>1
        <5> QED BY <5>2 DEF X
      <4> QED BY ONLY <4>1, <4>2, ReplacementPlan(o, c).ok, Zenon
    <3>2. A[n].excess[k] <= 0
      <4>1. DOMAIN A[n].excess = Tier
        BY <1>12 DEF Tier
      <4> HIDE DEF A
      <4> QED BY <3>1, <4>1 DEF Relieved
    <3>3. Cardinality(taken(k, n)) >= e[k] /\ Cardinality(taken(k, n)) \in Nat
      <4>1. IsFiniteSet(taken(k, n))
        BY <1>3, FS_Intersection
      <4>2. Cardinality(taken(k, n)) \in Nat
        BY <4>1, FS_CardinalityType
      <4>3. A[n].excess[k] \in Int /\ A[n].excess[k] >= e[k] - Cardinality(taken(k, n))
        BY <1>12 DEF Tier
      <4>4. e[k] \in Int
        BY <1>3
      <4> HIDE DEF A, taken, e
      <4> QED BY ONLY <3>2, <4>2, <4>3, <4>4
    <3>4. Cardinality(Group(o, c, k) \ A[n].remove) = Cardinality(Group(o, c, k)) - Cardinality(taken(k, n))
      <4> HIDE DEF A
      <4> QED BY <1>3, FS_Difference
    <3> HIDE DEF A, taken, e
    <3> QED BY <1>3, <1>13, <2>0, <3>1, <3>3, <3>4
  <2> QED BY <2>1, <2>2
<1>14. ReplacementPlan(o, c).remove \subseteq S
  <2>1. A[n].remove \subseteq S
    BY <1>12
  <2> HIDE DEF A, start, S
  <2> QED BY <1>8, <2>1
<1> QED
  BY <1>13, <1>14 DEF Room

-----------------------------------------------------------------------------
(* A table that is cut down is a table. *)
LEMMA OnlyOfIsTable ==
    ASSUME NEW D, NEW R, NEW f \in Table(D, R), NEW S
    PROVE  OnlyOf(f, S) \in Table(D, R)
<1>1. PICK d \in SUBSET D : f \in [d -> R]
  BY DEF Table
<1>2. OnlyOf(f, S) \in [d \cap S -> R] /\ d \cap S \in SUBSET D
  BY <1>1 DEF OnlyOf
<1> QED BY <1>2 DEF Table

(* A table laid over another is a table. *)
LEMMA OverIsTable ==
    ASSUME NEW D, NEW R, NEW f \in Table(D, R), NEW g \in Table(D, R)
    PROVE  Over(f, g) \in Table(D, R)
<1>1. PICK d \in SUBSET D : f \in [d -> R]
  BY DEF Table
<1>2. PICK e \in SUBSET D : g \in [e -> R]
  BY DEF Table
<1>3. Over(f, g) \in [d \cup e -> R] /\ d \cup e \in SUBSET D
  BY <1>1, <1>2 DEF Over
<1> QED BY <1>3 DEF Table

(* A state without some of its spawned entities. *)
IsWithout(p, o, gone) ==
    /\ OwnedType(p) /\ p.clock = o.clock /\ p.next = o.next /\ p.open = o.open
    /\ DOMAIN p.meta = DOMAIN o.meta \ gone /\ DOMAIN p.world = DOMAIN o.world \ gone
    /\ \A x \in DOMAIN o.meta \ gone : p.meta[x] = o.meta[x]
    /\ \A x \in DOMAIN o.world \ gone : p.world[x] = o.world[x]

(* What a removal does. *)
LEMMA RemovedIs ==
    ASSUME NEW o, OwnedType(o), NEW gone
    PROVE  IsWithout(Removed(o, gone), o, gone)
<1>1. o.meta \in MetaTable /\ o.world \in WorldTable
  BY TableFacts
<1> DEFINE m == OnlyOf(o.meta, DOMAIN o.meta \ gone)
           w == OnlyOf(o.world, DOMAIN o.world \ gone)
<1>2. m \in MetaTable /\ DOMAIN m = DOMAIN o.meta \ gone /\ \A x \in DOMAIN o.meta \ gone : m[x] = o.meta[x]
  <2>1. DOMAIN o.meta \cap (DOMAIN o.meta \ gone) = DOMAIN o.meta \ gone
    OBVIOUS
  <2>2. m \in MetaTable
    BY <1>1, OnlyOfIsTable DEF MetaTable
  <2>4. DOMAIN m = DOMAIN o.meta \cap (DOMAIN o.meta \ gone)
    BY DEF OnlyOf
  <2>3. \A x \in DOMAIN o.meta \ gone : m[x] = o.meta[x]
    BY DEF OnlyOf
  <2> HIDE DEF m
  <2> QED BY <2>1, <2>2, <2>3, <2>4
<1>3. w \in WorldTable /\ DOMAIN w = DOMAIN o.world \ gone /\ \A x \in DOMAIN o.world \ gone : w[x] = o.world[x]
  <2>1. DOMAIN o.world \cap (DOMAIN o.world \ gone) = DOMAIN o.world \ gone
    OBVIOUS
  <2>2. w \in WorldTable
    BY <1>1, OnlyOfIsTable DEF WorldTable
  <2>4. DOMAIN w = DOMAIN o.world \cap (DOMAIN o.world \ gone)
    BY DEF OnlyOf
  <2>3. \A x \in DOMAIN o.world \ gone : w[x] = o.world[x]
    BY DEF OnlyOf
  <2> HIDE DEF w
  <2> QED BY <2>1, <2>2, <2>3, <2>4
<1>4. Removed(o, gone) = [o EXCEPT !.meta = m, !.world = w]
  BY DEF Removed
<1> HIDE DEF m, w
<1>5. /\ Removed(o, gone).meta = m /\ Removed(o, gone).world = w /\ OwnedType(Removed(o, gone))
      /\ Removed(o, gone).clock = o.clock /\ Removed(o, gone).next = o.next /\ Removed(o, gone).open = o.open
  BY <1>2, <1>3, <1>4 DEF OwnedType
<1> QED BY <1>2, <1>3, <1>5 DEF IsWithout

(* Removing spawned entities keeps a state whole and within capacities. *)
LEMMA RemovedKeeps ==
    ASSUME NEW o, OwnedType(o), Whole(o), Fits(o), NEW gone, gone \cap Hero = {}
    PROVE  Whole(Removed(o, gone)) /\ Fits(Removed(o, gone))
<1> DEFINE p == Removed(o, gone)
<1>1. IsWithout(p, o, gone)
  BY RemovedIs
<1> HIDE DEF p
<1>2. Whole(p)
  BY <1>1 DEF IsWithout, Whole
<1>3. Fits(p)
  <2>1. DOMAIN p.meta \subseteq DOMAIN o.meta /\ \A x \in DOMAIN p.meta : p.meta[x] = o.meta[x]
    BY <1>1 DEF IsWithout
  <2> QED BY <2>1, FewerFit
<1> QED BY <1>2, <1>3 DEF p

(* A state that differs in what no capacity looks at. *)
LEMMA Same ==
    ASSUME NEW o, NEW p, p.meta = o.meta
    PROVE  Fits(o) <=> Fits(p)
BY DEF Fits, Group

-----------------------------------------------------------------------------
(* The metadata and the entities of a spawn. *)
NewMeta(o, c) == [x \in o.next..(o.next + c[4] - 1) |->
                    [owner |-> c[1], template |-> c[2], source |-> c[3], born |-> o.clock, due |-> o.clock + c[6]]]
NewWorld(o, c) == [x \in o.next..(o.next + c[4] - 1) |-> [alive |-> TRUE, place |-> c[5], owner |-> c[1]]]

(* A spawn lays its tables over what the plan leaves. *)
LEMMA SpawnedIs ==
    ASSUME NEW o, OwnedType(o), NEW c \in Spawn, c[4] >= 1, NEW plan
    PROVE  /\ NewMeta(o, c) \in MetaTable /\ NewWorld(o, c) \in WorldTable
           /\ Spawned(o, c, plan).meta = Over(NewMeta(o, c), Removed(o, plan.remove).meta)
           /\ Spawned(o, c, plan).world = Over(NewWorld(o, c), Removed(o, plan.remove).world)
           /\ Spawned(o, c, plan).clock = o.clock
           /\ Spawned(o, c, plan).next = o.next + c[4]
           /\ Spawned(o, c, plan).open =
                IF c[7] THEN [created |-> o.next..(o.next + c[4] - 1), meta |-> OnlyOf(o.meta, plan.remove),
                              world |-> OnlyOf(o.world, plan.remove), was |-> <<o.meta, o.world>>]
                ELSE o.open
           /\ OwnedType(Spawned(o, c, plan))
<1> DEFINE new == o.next..(o.next + c[4] - 1)
           r == Removed(o, plan.remove)
           open == [created |-> new, meta |-> OnlyOf(o.meta, plan.remove),
                    world |-> OnlyOf(o.world, plan.remove), was |-> <<o.meta, o.world>>]
<1>1. /\ c[1] \in Hero /\ c[2] \in DOMAIN Template /\ c[4] \in Int /\ c[5] \in Int /\ c[6] \in Int /\ c[7] \in BOOLEAN
      /\ c[3] \in {d[3] : d \in Spawn}
  BY SpawnsAreTyped
<1>2. o.next \in Nat /\ o.clock \in Int /\ o.meta \in MetaTable /\ o.world \in WorldTable
  BY TableFacts
<1>3. new \in SUBSET Nat
  BY <1>1, <1>2
<1>4. NewMeta(o, c) \in MetaTable
  <2>1. NewMeta(o, c) \in [new -> MetaRecord]
    BY <1>1, <1>2 DEF NewMeta, MetaRecord
  <2> QED BY <1>3, <2>1 DEF MetaTable, Table
<1>5. NewWorld(o, c) \in WorldTable
  <2>1. NewWorld(o, c) \in [new -> WorldRecord]
    BY <1>1, <1>2 DEF NewWorld, WorldRecord
  <2> QED BY <1>3, <2>1 DEF WorldTable, Table
<1>6. IsWithout(r, o, plan.remove)
  BY RemovedIs
<1>7. r.meta \in MetaTable /\ r.world \in WorldTable
  BY <1>6, TableFacts DEF IsWithout
<1>8. Over(NewMeta(o, c), r.meta) \in MetaTable /\ Over(NewWorld(o, c), r.world) \in WorldTable
  BY <1>4, <1>5, <1>7, OverIsTable DEF MetaTable, WorldTable
<1>9. open \in [created : SUBSET Nat, meta : MetaTable, world : WorldTable, was : {<<>>} \cup (MetaTable \X WorldTable)]
  <2>1. OnlyOf(o.meta, plan.remove) \in MetaTable /\ OnlyOf(o.world, plan.remove) \in WorldTable
    BY <1>2, OnlyOfIsTable DEF MetaTable, WorldTable
  <2> HIDE DEF new
  <2> QED BY <1>2, <1>3, <2>1
<1>10. Spawned(o, c, plan) = [r EXCEPT !.next = @ + c[4], !.meta = Over(NewMeta(o, c), @),
                                       !.world = Over(NewWorld(o, c), @), !.open = IF c[7] THEN open ELSE @]
  BY DEF Spawned, NewMeta, NewWorld
<1>11. OwnedType(r) /\ r.clock = o.clock /\ r.next = o.next /\ r.open = o.open
  BY <1>6 DEF IsWithout
<1>12. r.next + c[4] \in Nat
  BY <1>1, <1>2, <1>11
<1> DEFINE s == Spawned(o, c, plan)
<1>13. /\ s.next = o.next + c[4] /\ s.meta = Over(NewMeta(o, c), r.meta) /\ s.world = Over(NewWorld(o, c), r.world)
       /\ s.clock = o.clock /\ s.open = (IF c[7] THEN open ELSE o.open) /\ OwnedType(s)
  <2> HIDE DEF r, open
  <2>1. r \in [clock: Int, next : Nat, meta : MetaTable, world : WorldTable,
                open : [created : SUBSET Nat, meta : MetaTable, world : WorldTable,
                        was : {<<>>} \cup (MetaTable \X WorldTable)]]
    BY <1>11 DEF OwnedType
  <2>2. (IF c[7] THEN open ELSE r.open) \in
          [created : SUBSET Nat, meta : MetaTable, world : WorldTable, was : {<<>>} \cup (MetaTable \X WorldTable)]
    BY <1>9, <2>1
  <2> QED BY <1>8, <1>10, <1>11, <1>12, <2>1, <2>2 DEF OwnedType
<1> QED BY <1>4, <1>5, <1>13

(* A transactional spawn that is taken back leaves the tables as they were. *)
LEMMA RollbackOfSpawn ==
    ASSUME NEW o, OwnedType(o), Whole(o), NEW c \in Spawn, c[4] >= 1, NEW plan, c[7]
    PROVE  /\ RolledBack(Spawned(o, c, plan)).meta = o.meta
           /\ RolledBack(Spawned(o, c, plan)).world = o.world
           /\ RolledBack(Spawned(o, c, plan)).next = o.next + c[4]
<1> DEFINE s == Spawned(o, c, plan)
           new == o.next..(o.next + c[4] - 1)
           r == Removed(o, plan.remove)
           u == Removed(s, new)
<1>1. /\ s.meta = Over(NewMeta(o, c), r.meta) /\ s.world = Over(NewWorld(o, c), r.world)
      /\ s.next = o.next + c[4] /\ OwnedType(s)
      /\ s.open = [created |-> new, meta |-> OnlyOf(o.meta, plan.remove),
                   world |-> OnlyOf(o.world, plan.remove), was |-> <<o.meta, o.world>>]
  BY SpawnedIs
<1> HIDE DEF s
<1>2. RolledBack(s) = [u EXCEPT !.meta = Over(OnlyOf(o.meta, plan.remove), @),
                                !.world = Over(OnlyOf(o.world, plan.remove), @), !.open = NoTransaction]
  BY <1>1 DEF RolledBack
<1>3. IsWithout(r, o, plan.remove) /\ IsWithout(u, s, new)
  BY <1>1, RemovedIs
<1> HIDE DEF r, u
<1>4. o.next \in Nat /\ c[4] \in Int
  BY TableFacts, SpawnsAreTyped
<1>5. new \cap DOMAIN o.meta = {} /\ new \cap DOMAIN o.world = {}
  <2>1. \A x \in DOMAIN o.world : x \in Nat /\ x < o.next
    BY TableFacts DEF Whole
  <2>2. DOMAIN o.meta \subseteq DOMAIN o.world
    BY DEF Whole
  <2> QED BY <1>4, <2>1, <2>2
<1>6. DOMAIN NewMeta(o, c) = new /\ DOMAIN NewWorld(o, c) = new
  BY DEF NewMeta, NewWorld
<1> HIDE DEF new
<1>7. u.meta = OnlyOf(o.meta, DOMAIN o.meta \ plan.remove)
  <2>1. DOMAIN u.meta = DOMAIN o.meta \ plan.remove
    BY <1>1, <1>3, <1>5, <1>6 DEF IsWithout, Over
  <2>2. ASSUME NEW x \in DOMAIN u.meta
        PROVE  u.meta[x] = o.meta[x]
    <3>1. x \in DOMAIN o.meta \ plan.remove /\ x \notin new /\ x \in DOMAIN r.meta
      BY <1>3, <1>5, <2>1 DEF IsWithout
    <3>2. DOMAIN s.meta = new \cup DOMAIN r.meta /\ s.meta[x] = r.meta[x]
      BY <1>1, <1>6, <3>1 DEF Over
    <3>3. u.meta[x] = s.meta[x]
      BY <1>3, <3>1, <3>2 DEF IsWithout
    <3>4. r.meta[x] = o.meta[x]
      BY <1>3, <3>1 DEF IsWithout
    <3> QED BY <3>2, <3>3, <3>4
  <2>3. u.meta = [x \in DOMAIN u.meta |-> u.meta[x]]
    <3>1. u.meta \in MetaTable
      BY <1>3, TableFacts DEF IsWithout
    <3> QED BY <3>1 DEF MetaTable, Table
  <2> QED BY <2>1, <2>2, <2>3 DEF OnlyOf
<1>8. u.world = OnlyOf(o.world, DOMAIN o.world \ plan.remove)
  <2>1. DOMAIN u.world = DOMAIN o.world \ plan.remove
    BY <1>1, <1>3, <1>5, <1>6 DEF IsWithout, Over
  <2>2. ASSUME NEW x \in DOMAIN u.world
        PROVE  u.world[x] = o.world[x]
    <3>1. x \in DOMAIN o.world \ plan.remove /\ x \notin new /\ x \in DOMAIN r.world
      BY <1>3, <1>5, <2>1 DEF IsWithout
    <3>2. DOMAIN s.world = new \cup DOMAIN r.world /\ s.world[x] = r.world[x]
      BY <1>1, <1>6, <3>1 DEF Over
    <3>3. u.world[x] = s.world[x]
      BY <1>3, <3>1, <3>2 DEF IsWithout
    <3>4. r.world[x] = o.world[x]
      BY <1>3, <3>1 DEF IsWithout
    <3> QED BY <3>2, <3>3, <3>4
  <2>3. u.world = [x \in DOMAIN u.world |-> u.world[x]]
    <3>1. u.world \in WorldTable
      BY <1>3, TableFacts DEF IsWithout
    <3> QED BY <3>1 DEF WorldTable, Table
  <2> QED BY <2>1, <2>2, <2>3 DEF OnlyOf
<1>9. \A D, R, f, S : f \in Table(D, R) => Over(OnlyOf(f, S), OnlyOf(f, DOMAIN f \ S)) = f
  BY DEF Over, OnlyOf, Table
<1>10. /\ Over(OnlyOf(o.meta, plan.remove), u.meta) = o.meta
       /\ Over(OnlyOf(o.world, plan.remove), u.world) = o.world
  BY <1>7, <1>8, <1>9, TableFacts DEF MetaTable, WorldTable
<1>11. /\ RolledBack(s).meta = Over(OnlyOf(o.meta, plan.remove), u.meta)
       /\ RolledBack(s).world = Over(OnlyOf(o.world, plan.remove), u.world)
       /\ RolledBack(s).next = s.next
  <2>1. u \in [clock: Int, next : Nat, meta : MetaTable, world : WorldTable,
                open : [created : SUBSET Nat, meta : MetaTable, world : WorldTable,
                        was : {<<>>} \cup (MetaTable \X WorldTable)]] /\ u.next = s.next
    BY <1>3 DEF IsWithout, OwnedType
  <2> QED BY <1>2, <2>1
<1> QED BY <1>1, <1>10, <1>11 DEF s

(* Metadata that joins a group of a command is of the command's kind: the  *)
(* group of either is the same.                                            *)
LEMMA SameKind ==
    ASSUME NEW c \in Spawn, NEW m \in MetaRecord, NEW k \in Tier,
           Counts(Kind(m), [owner |-> c[1], template |-> c[2], source |-> c[3], born |-> 0, due |-> 0], k)
    PROVE  /\ \A z \in MetaRecord : Counts(Kind(m), z, k) <=> Counts(c, z, k)
           /\ Most(Kind(m), k) = Most(c, k) /\ (Limited(Kind(m), k) <=> Limited(c, k))
<1> DEFINE w == [owner |-> c[1], template |-> c[2], source |-> c[3], born |-> 0, due |-> 0]
           d == Kind(m)
<1>1. d[1] = m.owner /\ d[2] = m.template /\ d[3] = m.source
  BY DEF Kind
<1>2. w.owner = c[1] /\ w.template = c[2] /\ w.source = c[3]
  OBVIOUS
<1> HIDE DEF d, w
<1>3. Counts(d, w, k)
  BY DEF d, w
<1>4. c[2] = d[2]
  BY <1>2, <1>3 DEF Counts
<1>5. Most(d, k) = Most(c, k) /\ (Limited(d, k) <=> Limited(c, k))
  BY <1>4 DEF Most, Limited
<1>6. ASSUME NEW z \in MetaRecord
      PROVE  Counts(d, z, k) <=> Counts(c, z, k)
  <2>1. CASE k = "owner"
    <3>1. c[1] = d[1]
      BY <1>2, <1>3, <2>1 DEF Counts
    <3> QED BY <1>4, <2>1, <3>1 DEF Counts
  <2>2. CASE k = "source"
    <3>1. c[1] = d[1] /\ c[3] = d[3]
      BY <1>2, <1>3, <2>2 DEF Counts
    <3> QED BY <1>4, <2>2, <3>1 DEF Counts
  <2>3. CASE k = "team"
    <3>1. SameTeam(d[1], c[1])
      BY <1>2, <1>3, <2>3 DEF Counts
    <3>2. SameTeam(d[1], z.owner) <=> SameTeam(c[1], z.owner)
      BY <3>1 DEF SameTeam
    <3> QED BY <1>4, <2>3, <3>2 DEF Counts
  <2> QED BY <2>1, <2>2, <2>3 DEF Tier
<1> QED BY <1>5, <1>6 DEF d

(* A spawn for which the plan has made room keeps every capacity, also of  *)
(* those of the same team and of the groups it adds nothing to.            *)
LEMMA SpawnFits ==
    ASSUME NEW o, OwnedType(o), Whole(o), Fits(o), NEW c \in Spawn, c[4] >= 1,
           ReplacementPlan(o, c).ok
    PROVE  Fits(Spawned(o, c, ReplacementPlan(o, c)))
<1> DEFINE gone == ReplacementPlan(o, c).remove
           s == Spawned(o, c, ReplacementPlan(o, c))
           new == o.next..(o.next + c[4] - 1)
           r == Removed(o, gone)
           w == [owner |-> c[1], template |-> c[2], source |-> c[3], born |-> 0, due |-> 0]
<1>1. s.meta = Over(NewMeta(o, c), r.meta) /\ NewMeta(o, c) \in MetaTable /\ OwnedType(s)
  BY SpawnedIs
<1>2. IsWithout(r, o, gone)
  BY RemovedIs
<1>3. o.next \in Nat /\ c[4] \in Int /\ c[4] >= 1
  BY TableFacts, SpawnsAreTyped
<1>4. \A k \in Tier : Room(o, c, k, gone)
  BY PlanMakesRoom
<1>5. IsFiniteSet(new) /\ Cardinality(new) = c[4]
  <2>1. o.next \in Int /\ o.next + c[4] - 1 \in Int /\ ~(o.next > o.next + c[4] - 1)
    BY <1>3
  <2>2. IsFiniteSet(new) /\ Cardinality(new) = (o.next + c[4] - 1) - o.next + 1
    BY ONLY <2>1, FS_Interval
  <2> QED BY <1>3, <2>2
<1>6. DOMAIN NewMeta(o, c) = new
  BY DEF NewMeta
<1>7. \A x \in new : /\ NewMeta(o, c)[x].owner = w.owner /\ w.owner = c[1]
                     /\ NewMeta(o, c)[x].template = w.template /\ w.template = c[2]
                     /\ NewMeta(o, c)[x].source = w.source /\ w.source = c[3]
  BY DEF NewMeta
<1>8. \A x \in new : \A d, k : Counts(d, NewMeta(o, c)[x], k) <=> Counts(d, w, k)
  <2> HIDE DEF w, new
  <2> QED BY <1>7 DEF Counts
<1>9. /\ DOMAIN s.meta = new \cup (DOMAIN o.meta \ gone)
      /\ \A x \in new : s.meta[x] = NewMeta(o, c)[x]
      /\ \A x \in (DOMAIN o.meta \ gone) \ new : s.meta[x] = o.meta[x]
  <2> HIDE DEF s, r, new, gone
  <2>1. DOMAIN s.meta = new \cup (DOMAIN o.meta \ gone)
    BY <1>1, <1>2, <1>6 DEF Over, IsWithout
  <2>2. \A x \in new : s.meta[x] = NewMeta(o, c)[x]
    BY <1>1, <1>6 DEF Over
  <2>3. \A x \in (DOMAIN o.meta \ gone) \ new : x \in DOMAIN r.meta /\ s.meta[x] = r.meta[x] /\ r.meta[x] = o.meta[x]
    BY <1>1, <1>2, <1>6 DEF Over, IsWithout
  <2> QED BY <2>1, <2>2, <2>3
<1>10. new \cap DOMAIN o.meta = {}
  <2>1. \A x \in DOMAIN o.meta : x \in Nat /\ x < o.next
    BY TableFacts DEF Whole
  <2> QED BY <1>3, <2>1
<1> HIDE DEF new, s, r, gone
<1>11. ASSUME NEW x \in DOMAIN s.meta, NEW k \in Tier, Limited(Kind(s.meta[x]), k)
       PROVE  Cardinality(Group(s, Kind(s.meta[x]), k)) <= Most(Kind(s.meta[x]), k)
  <2> DEFINE m == s.meta[x]
             d == Kind(m)
             old == Group(o, d, k) \ gone
  <2>1. m \in MetaRecord
    BY <1>1, TableFacts
  <2>2. d[2] \in DOMAIN Template /\ Most(d, k) \in Int
    <3>1. d[2] = m.template
      BY DEF Kind
    <3> HIDE DEF d
    <3>2. d[2] \in DOMAIN Template
      BY <2>1, <3>1 DEF MetaRecord
    <3> QED BY <3>2, TemplatesAreBounded DEF Most, Tier
  <2>3. Group(s, d, k) = old \cup {y \in new : Counts(d, w, k)}
    <3> HIDE DEF d, w
    <3>1. \A y \in new : Counts(d, s.meta[y], k) <=> Counts(d, w, k)
      BY <1>8, <1>9
    <3>2. \A y \in DOMAIN o.meta \ gone : s.meta[y] = o.meta[y]
      BY <1>9, <1>10
    <3> QED BY <1>9, <3>1, <3>2 DEF Group
  <2>4. IsFiniteSet(Group(o, d, k)) /\ Cardinality(Group(o, d, k)) \in Nat
    BY MetaIsFinite
  <2>5. IsFiniteSet(old) /\ Cardinality(old) <= Cardinality(Group(o, d, k))
    BY <2>4, FS_Subset
  <2>6. Cardinality(old) \in Nat
    BY <2>5, FS_CardinalityType
  <2>7. CASE Counts(d, w, k)
    <3>1. (\A z \in MetaRecord : Counts(d, z, k) <=> Counts(c, z, k)) /\ Most(d, k) = Most(c, k) /\ Limited(c, k)
      BY <1>11, <2>1, <2>7, SameKind
    <3>2. Group(o, d, k) = Group(o, c, k)
      <4> HIDE DEF d
      <4> QED BY <3>1, TableFacts DEF Group
    <3> HIDE DEF d
    <3>3. Cardinality(old) + c[4] <= Most(d, k)
      BY <1>4, <3>1, <3>2 DEF Room
    <3>4. Group(s, d, k) = old \cup new /\ old \cap new = {}
      BY <1>10, <2>3, <2>7 DEF Group
    <3>5. Cardinality(Group(s, d, k)) = Cardinality(old) + c[4]
      <4> HIDE DEF old
      <4>1. Cardinality(old \cup new) = Cardinality(old) + Cardinality(new) - Cardinality(old \cap new)
        BY <1>5, <2>5, FS_Union
      <4>2. Cardinality(old \cap new) = 0
        BY <3>4, FS_EmptySet
      <4> QED BY <1>3, <1>5, <2>6, <3>4, <4>1, <4>2
    <3> QED BY <3>3, <3>5 DEF d
  <2>8. CASE ~Counts(d, w, k)
    <3>1. x \notin new
      <4>1. ASSUME x \in new PROVE Counts(d, w, k)
        <5>1. m = NewMeta(o, c)[x]
          BY <1>9, <4>1
        <5>2. m.owner = c[1] /\ m.template = c[2] /\ m.source = c[3]
          BY <1>7, <4>1, <5>1
        <5>3. \A a, b : SameTeam(a, a)
          BY DEF SameTeam
        <5> QED BY <5>2, <5>3 DEF Counts, Kind
      <4> QED BY <2>8, <4>1
    <3>2. x \in DOMAIN o.meta /\ m = o.meta[x]
      BY <1>9, <3>1
    <3>3. Cardinality(Group(o, d, k)) <= Most(d, k)
      BY <1>11, <3>2 DEF Fits
    <3>4. Group(s, d, k) = old
      BY <2>3, <2>8
    <3> HIDE DEF d, old
    <3>5. Cardinality(Group(s, d, k)) <= Most(d, k)
      BY ONLY <2>2, <2>4, <2>5, <2>6, <3>3, <3>4
    <3> QED BY <3>5 DEF d
  <2> QED BY <2>7, <2>8
<1> QED BY <1>11 DEF Fits, s

-----------------------------------------------------------------------------
(* A state without a transaction has nothing to take back. *)
LEMMA Settled ==
    ASSUME NEW o, o.open = NoTransaction
    PROVE  Reversible(o)
BY DEF Reversible

(* The initial state. *)
LEMMA OwnedInitOk == OwnedInit => OwnedInv
<1> SUFFICES ASSUME OwnedInit PROVE OwnedInv
  OBVIOUS
<1> DEFINE top == Max(Hero \cup {0})
           w == [h \in Hero |-> [alive |-> TRUE, place |-> 0, owner |-> 0]]
<1>1. top \in Nat /\ \A h \in Hero : h <= top
  <2>1. IsFiniteSet(Hero \cup {0})
    BY HeroesAreNumbered, FS_AddElement
  <2>2. Hero \cup {0} \subseteq Int /\ Hero \cup {0} # {} /\ Hero \cup {0} \subseteq Nat
    BY HeroesAreNumbered
  <2>3. top \in Hero \cup {0} /\ \A h \in Hero \cup {0} : h <= top
    BY ONLY <2>1, <2>2, MaxOfFinite
  <2> QED BY <2>2, <2>3
<1> HIDE DEF top
<1>2. owned = [clock |-> 0, next |-> top + 1, meta |-> <<>>, open |-> NoTransaction, world |-> w]
  BY DEF OwnedInit, top
<1>3. w \in WorldTable /\ DOMAIN w = Hero
  <2>1. w \in [Hero -> WorldRecord]
    BY DEF WorldRecord
  <2>2. Hero \in SUBSET Nat
    BY HeroesAreNumbered
  <2> HIDE DEF w
  <2>3. w \in WorldTable
    BY <2>1, <2>2 DEF WorldTable, Table
  <2> QED BY <2>1, <2>3
<1> HIDE DEF w
<1>4. <<>> \in MetaTable /\ <<>> \in WorldTable /\ DOMAIN <<>> = {}
  <2>1. <<>> \in [{} -> MetaRecord] /\ <<>> \in [{} -> WorldRecord] /\ {} \in SUBSET Nat
    OBVIOUS
  <2> QED BY <2>1 DEF MetaTable, WorldTable, Table
<1>5. NoTransaction \in [created : SUBSET Nat, meta : MetaTable, world : WorldTable,
                        was : {<<>>} \cup (MetaTable \X WorldTable)]
  BY <1>4 DEF NoTransaction
<1>6. OwnedType(owned)
  <2>1. top + 1 \in Nat
    BY <1>1
  <2> QED BY <1>2, <1>3, <1>4, <1>5, <2>1 DEF OwnedType
<1>7. Whole(owned)
  <2>1. \A h \in Hero : h < top + 1
    BY <1>1, HeroesAreNumbered
  <2> QED BY <1>2, <1>3, <1>4, <2>1 DEF Whole
<1>8. Fits(owned)
  <2>1. DOMAIN owned.meta = {}
    BY <1>2, <1>4
  <2> QED BY <2>1 DEF Fits
<1>9. Reversible(owned)
  BY <1>2, Settled
<1> QED BY <1>6, <1>7, <1>8, <1>9 DEF OwnedInv

(* A spawn. *)
LEMMA SpawnOk == OwnedInv /\ SpawnOwned => OwnedInv'
<1> SUFFICES ASSUME OwnedInv, SpawnOwned PROVE OwnedInv'
  OBVIOUS
<1>1. PICK c \in Spawn :
        /\ Idle
        /\ c[4] \in 1..Template[c[2]].maximum
        /\ ReplacementPlan(owned, c).ok
        /\ owned' = Spawned(owned, c, ReplacementPlan(owned, c))
  BY DEF SpawnOwned
<1> DEFINE o == owned
           plan == ReplacementPlan(o, c)
           gone == plan.remove
           s == Spawned(o, c, plan)
           new == o.next..(o.next + c[4] - 1)
<1>2. OwnedType(o) /\ Whole(o) /\ Fits(o) /\ o.open = NoTransaction
  BY <1>1 DEF OwnedInv, Idle
<1>3. c[4] >= 1 /\ c[4] \in Int /\ plan.ok
  BY <1>1
<1>4. Fits(s)
  BY <1>2, <1>3, SpawnFits
<1>5. gone \subseteq DOMAIN o.meta
  BY <1>2, <1>3, PlanMakesRoom DEF Replaceable, OfTemplate
<1>6. /\ s.meta = Over(NewMeta(o, c), Removed(o, gone).meta)
      /\ s.world = Over(NewWorld(o, c), Removed(o, gone).world)
      /\ s.next = o.next + c[4]
      /\ s.open = IF c[7] THEN [created |-> new, meta |-> OnlyOf(o.meta, gone),
                                world |-> OnlyOf(o.world, gone), was |-> <<o.meta, o.world>>]
                  ELSE o.open
      /\ OwnedType(s)
  BY <1>2, <1>3, SpawnedIs
<1>7. IsWithout(Removed(o, gone), o, gone)
  BY <1>2, RemovedIs
<1>8. DOMAIN NewMeta(o, c) = new /\ DOMAIN NewWorld(o, c) = new
  BY DEF NewMeta, NewWorld
<1>9. o.next \in Nat /\ \A h \in Hero : h < o.next
  BY <1>2, TableFacts DEF Whole
<1>10. Hero \subseteq Nat
  BY HeroesAreNumbered
<1>11. Whole(s)
  <2>1. DOMAIN s.meta = new \cup (DOMAIN o.meta \ gone) /\ DOMAIN s.world = new \cup (DOMAIN o.world \ gone)
    <3> HIDE DEF s, new, gone
    <3> QED BY <1>6, <1>7, <1>8 DEF Over, IsWithout
  <2>2. Hero \cap new = {} /\ \A x \in new : x < o.next + c[4]
    BY <1>3, <1>9, <1>10
  <2>3. \A x \in DOMAIN o.world : x < o.next + c[4]
    <3>1. \A x \in DOMAIN o.world : x \in Nat /\ x < o.next
      BY <1>2, TableFacts DEF Whole
    <3> QED BY <1>3, <1>9, <3>1
  <2> HIDE DEF s, new, gone
  <2>4. Hero \cap DOMAIN s.meta = {} /\ DOMAIN s.world = Hero \cup DOMAIN s.meta
    BY <1>2, <1>5, <2>1, <2>2 DEF Whole
  <2>5. \A x \in DOMAIN s.world : x < s.next
    BY <1>6, <2>1, <2>2, <2>3
  <2> QED BY <2>4, <2>5 DEF Whole
<1>12. Reversible(s)
  <2>1. CASE ~c[7]
    <3> HIDE DEF s
    <3>1. s.open = NoTransaction
      BY <1>2, <1>6, <2>1
    <3> QED BY <3>1, Settled
  <2>2. CASE c[7]
    <3>1. /\ RolledBack(s).meta = o.meta /\ RolledBack(s).world = o.world
          /\ RolledBack(s).next = o.next + c[4]
      BY <1>2, <1>3, <2>2, RollbackOfSpawn
    <3>2. s.open.was = <<o.meta, o.world>>
      BY <1>6, <2>2
    <3> HIDE DEF s
    <3>3. Fits(RolledBack(s))
      BY <1>2, <3>1, Same
    <3>4. Whole(RolledBack(s))
      <4>1. \A x \in DOMAIN o.world : x \in Nat /\ x < o.next
        BY <1>2, TableFacts DEF Whole
      <4>2. \A x \in DOMAIN o.world : x < o.next + c[4]
        BY <1>3, <1>9, <4>1
      <4> QED BY <1>2, <3>1, <4>2 DEF Whole
    <3> QED BY <3>1, <3>2, <3>3, <3>4 DEF Reversible
  <2> QED BY <2>1, <2>2
<1>13. owned' = s
  BY <1>1
<1> HIDE DEF s
<1> QED BY <1>4, <1>6, <1>11, <1>12, <1>13 DEF OwnedInv

(* The fields of a state, for the provers. *)
OwnedRecord == [clock : Int, next : Nat, meta : MetaTable, world : WorldTable,
                open : [created : SUBSET Nat, meta : MetaTable, world : WorldTable,
                        was : {<<>>} \cup (MetaTable \X WorldTable)]]

(* The end of a transaction. *)
LEMMA CommitOk == OwnedInv /\ CommitOwnedSpawn => OwnedInv'
<1> SUFFICES ASSUME OwnedInv, CommitOwnedSpawn PROVE OwnedInv'
  OBVIOUS
<1> DEFINE p == [owned EXCEPT !.open = NoTransaction]
<1>1. owned \in OwnedRecord /\ Whole(owned) /\ Fits(owned)
  BY DEF OwnedInv, OwnedType, OwnedRecord
<1>2. <<>> \in MetaTable /\ <<>> \in WorldTable
  <2>1. <<>> \in [{} -> MetaRecord] /\ <<>> \in [{} -> WorldRecord] /\ {} \in SUBSET Nat
    OBVIOUS
  <2> QED BY <2>1 DEF MetaTable, WorldTable, Table
<1>3. /\ p \in OwnedRecord
      /\ p.open = NoTransaction /\ p.meta = owned.meta /\ p.world = owned.world /\ p.next = owned.next
  BY <1>1, <1>2 DEF OwnedRecord, NoTransaction
<1>4. owned' = p
  BY DEF CommitOwnedSpawn
<1> HIDE DEF p
<1>5. Whole(p) /\ Fits(p)
  BY <1>1, <1>3, Same DEF Whole
<1>6. OwnedType(p) /\ Reversible(p)
  BY <1>3, Settled DEF OwnedType, OwnedRecord
<1> QED BY <1>4, <1>5, <1>6 DEF OwnedInv

(* A transaction taken back. *)
LEMMA RollbackOk == OwnedInv /\ RollbackOwnedSpawn => OwnedInv' /\ <<owned'.meta, owned'.world>> = owned.open.was
<1> SUFFICES ASSUME OwnedInv, RollbackOwnedSpawn
             PROVE  OwnedInv' /\ <<owned'.meta, owned'.world>> = owned.open.was
  OBVIOUS
<1> DEFINE r == Removed(owned, owned.open.created)
           p == RolledBack(owned)
<1>1. owned' = p /\ owned.open # NoTransaction
  BY DEF RollbackOwnedSpawn, Idle
<1>2. OwnedType(owned) /\ Whole(p) /\ Fits(p) /\ <<p.meta, p.world>> = owned.open.was
  BY <1>1 DEF OwnedInv, Reversible
<1>3. r \in OwnedRecord
  <2>1. IsWithout(r, owned, owned.open.created)
    BY <1>2, RemovedIs
  <2> HIDE DEF r
  <2> QED BY <2>1 DEF IsWithout, OwnedType, OwnedRecord
<1>4. owned.open.meta \in MetaTable /\ owned.open.world \in WorldTable
  BY <1>2 DEF OwnedType
<1>5. Over(owned.open.meta, r.meta) \in MetaTable /\ Over(owned.open.world, r.world) \in WorldTable
  <2>1. r.meta \in MetaTable /\ r.world \in WorldTable
    <3> HIDE DEF r
    <3> QED BY <1>3 DEF OwnedRecord
  <2> HIDE DEF r
  <2> QED BY <1>4, <2>1, OverIsTable DEF MetaTable, WorldTable
<1>6. <<>> \in MetaTable /\ <<>> \in WorldTable
  <2>1. <<>> \in [{} -> MetaRecord] /\ <<>> \in [{} -> WorldRecord] /\ {} \in SUBSET Nat
    OBVIOUS
  <2> QED BY <2>1 DEF MetaTable, WorldTable, Table
<1>7. p = [r EXCEPT !.meta = Over(owned.open.meta, @), !.world = Over(owned.open.world, @), !.open = NoTransaction]
  BY DEF RolledBack
<1> HIDE DEF r, p
<1>8. OwnedType(p) /\ p.open = NoTransaction
  BY <1>3, <1>5, <1>6, <1>7 DEF OwnedRecord, OwnedType, NoTransaction
<1>9. Reversible(p)
  BY <1>8, Settled
<1> QED BY <1>1, <1>2, <1>8, <1>9 DEF OwnedInv

(* Entities leave the host: an end of a program, of the match or a despawn. *)
LEMMA DepartureOk ==
    ASSUME OwnedInv, Idle, NEW gone, gone \subseteq DOMAIN owned.meta, owned' = Removed(owned, gone)
    PROVE  OwnedInv'
<1> DEFINE p == Removed(owned, gone)
<1>1. OwnedType(owned) /\ Whole(owned) /\ Fits(owned) /\ owned.open = NoTransaction
  BY DEF OwnedInv, Idle
<1>2. gone \cap Hero = {}
  BY <1>1 DEF Whole
<1>3. IsWithout(p, owned, gone)
  BY <1>1, RemovedIs
<1>4. Whole(p) /\ Fits(p)
  BY <1>1, <1>2, RemovedKeeps
<1>5. owned' = p
  OBVIOUS
<1> HIDE DEF p
<1>6. OwnedType(p) /\ Reversible(p)
  BY <1>1, <1>3, Settled DEF IsWithout
<1> QED BY <1>4, <1>5, <1>6 DEF OwnedInv

(* An entity of the world moves, dies or revives. *)
LEMMA WorldOk ==
    ASSUME OwnedInv, Idle, NEW x \in DOMAIN owned.world, NEW e \in WorldRecord,
           owned' = [owned EXCEPT !.world[x] = e]
    PROVE  OwnedInv'
<1> DEFINE w == [owned.world EXCEPT ![x] = e]
           p == [owned EXCEPT !.world = w]
<1>1. owned \in OwnedRecord /\ Whole(owned) /\ Fits(owned) /\ owned.open = NoTransaction
  BY DEF OwnedInv, OwnedType, OwnedRecord, Idle
<1>2. w \in WorldTable /\ DOMAIN w = DOMAIN owned.world
  <2>1. PICK d \in SUBSET Nat : owned.world \in [d -> WorldRecord]
    BY <1>1 DEF OwnedRecord, WorldTable, Table
  <2>2. w \in [d -> WorldRecord]
    BY <2>1
  <2>3. w \in WorldTable
    <3> HIDE DEF w
    <3> QED BY <2>2 DEF WorldTable, Table
  <2> QED BY <2>1, <2>3
<1>3. owned' = p
  BY <1>1 DEF OwnedRecord
<1> HIDE DEF w
<1>4. /\ p \in OwnedRecord /\ p.open = NoTransaction
      /\ p.meta = owned.meta /\ p.world = w /\ p.next = owned.next
  BY <1>1, <1>2 DEF OwnedRecord
<1> HIDE DEF p
<1>5. Whole(p) /\ Fits(p)
  BY <1>1, <1>2, <1>4, Same DEF Whole
<1>6. OwnedType(p) /\ Reversible(p)
  BY <1>4, Settled DEF OwnedType, OwnedRecord
<1> QED BY <1>3, <1>5, <1>6 DEF OwnedInv

(* A command of an owner. *)
LEMMA CommandOk == OwnedInv /\ Command => OwnedInv'
<1> SUFFICES ASSUME OwnedInv, Command PROVE OwnedInv'
  OBVIOUS
<1>1. PICK x \in DOMAIN owned.meta, c \in Order :
        /\ Idle
        /\ owned' = CASE c[2] = "move_to" -> [owned EXCEPT !.world[x].place = c[3]]
                      [] c[2] = "return_to_owner" -> [owned EXCEPT !.world[x].place = owned.world[c[1]].place]
                      [] c[2] = "despawn" -> Removed(owned, {x})
  BY DEF Command
<1>2. OwnedType(owned) /\ Whole(owned) /\ owned \in OwnedRecord
  BY DEF OwnedInv, OwnedType, OwnedRecord
<1>3. c[1] \in Hero /\ c[2] \in {"move_to", "return_to_owner", "despawn"} /\ c[3] \in Int
  BY OrdersAreTyped
<1>4. x \in DOMAIN owned.world /\ c[1] \in DOMAIN owned.world
  BY <1>2, <1>3 DEF Whole
<1>5. owned.world[x] \in WorldRecord /\ owned.world[c[1]].place \in Int
  <2>1. owned.world[x] \in WorldRecord /\ owned.world[c[1]] \in WorldRecord
    BY <1>2, <1>4, TableFacts
  <2> QED BY <2>1 DEF WorldRecord
<1>6. ASSUME NEW n \in Int, owned' = [owned EXCEPT !.world[x].place = n]
      PROVE  OwnedInv'
  <2> DEFINE e == [owned.world[x] EXCEPT !.place = n]
  <2>1. e \in WorldRecord
    BY <1>5 DEF WorldRecord
  <2>2. owned' = [owned EXCEPT !.world[x] = e]
    BY <1>6
  <2> HIDE DEF e
  <2> QED BY <1>1, <1>4, <2>1, <2>2, WorldOk
<1>7. CASE c[2] = "move_to"
  <2>1. owned' = [owned EXCEPT !.world[x].place = c[3]]
    BY <1>1, <1>7
  <2> QED BY <1>3, <1>6, <2>1
<1>8. CASE c[2] = "return_to_owner"
  <2>1. owned' = [owned EXCEPT !.world[x].place = owned.world[c[1]].place]
    BY <1>1, <1>8
  <2> QED BY <1>5, <1>6, <2>1
<1>9. CASE c[2] = "despawn"
  <2>1. owned' = Removed(owned, {x}) /\ {x} \subseteq DOMAIN owned.meta
    BY <1>1, <1>9
  <2> QED BY <1>1, <2>1, DepartureOk
<1> QED BY <1>3, <1>7, <1>8, <1>9

(* The clock moves on. *)
LEMMA AdvanceOk ==
    OwnedInv /\ OwnedAdvance =>
      /\ OwnedInv'
      /\ \A x \in DOMAIN owned'.meta :
           /\ owned'.meta[x].due > owned'.clock
           /\ Template[owned'.meta[x].template].ownerDeath = "despawn" => owned'.world[owned'.meta[x].owner].alive
<1> SUFFICES ASSUME OwnedInv, OwnedAdvance
             PROVE  /\ OwnedInv'
                    /\ \A x \in DOMAIN owned'.meta :
                         /\ owned'.meta[x].due > owned'.clock
                         /\ Template[owned'.meta[x].template].ownerDeath = "despawn" =>
                              owned'.world[owned'.meta[x].owner].alive
  OBVIOUS
<1>1. PICK tick \in (owned.clock + 1)..MaxClock :
        owned' = [Removed(owned, ExpiredAt(owned, tick)) EXCEPT !.clock = tick]
  BY DEF OwnedAdvance
<1> DEFINE gone == ExpiredAt(owned, tick)
           r == Removed(owned, gone)
           p == [r EXCEPT !.clock = tick]
<1>2. OwnedType(owned) /\ Whole(owned) /\ Fits(owned) /\ owned.open = NoTransaction
  BY DEF OwnedInv, OwnedAdvance, Idle
<1>3. gone \subseteq DOMAIN owned.meta /\ gone \cap Hero = {}
  BY <1>2 DEF ExpiredAt, Whole
<1>4. IsWithout(r, owned, gone)
  BY <1>2, RemovedIs
<1>5. Whole(r) /\ Fits(r)
  BY <1>2, <1>3, RemovedKeeps
<1>6. owned' = p
  BY <1>1
<1> HIDE DEF r
<1>7. r \in OwnedRecord /\ r.open = NoTransaction
  BY <1>2, <1>4 DEF IsWithout, OwnedType, OwnedRecord
<1>8. /\ p \in OwnedRecord /\ p.open = NoTransaction /\ p.clock = tick
      /\ p.meta = r.meta /\ p.world = r.world /\ p.next = r.next
  BY <1>7 DEF OwnedRecord
<1> HIDE DEF p
<1>9. OwnedInv'
  <2>1. Whole(p) /\ Fits(p)
    BY <1>5, <1>8, Same DEF Whole
  <2>2. OwnedType(p) /\ Reversible(p)
    BY <1>8, Settled DEF OwnedType, OwnedRecord
  <2> QED BY <1>6, <2>1, <2>2 DEF OwnedInv
<1>10. ASSUME NEW x \in DOMAIN p.meta
       PROVE  /\ p.meta[x].due > p.clock
              /\ Template[p.meta[x].template].ownerDeath = "despawn" => p.world[p.meta[x].owner].alive
  <2>1. x \in DOMAIN owned.meta /\ x \notin gone /\ p.meta[x] = owned.meta[x]
    BY <1>4, <1>8 DEF IsWithout
  <2>2. owned.meta[x] \in MetaRecord
    BY <1>2, <2>1, TableFacts
  <2>3. owned.meta[x].owner \in Hero /\ owned.meta[x].due \in Int
    BY <2>2 DEF MetaRecord
  <2>4. ~(owned.meta[x].due <= tick)
    BY <2>1 DEF ExpiredAt
  <2>5. Template[owned.meta[x].template].ownerDeath = "despawn" => owned.world[owned.meta[x].owner].alive
    BY <2>1 DEF ExpiredAt
  <2>6. owned.meta[x].owner \in DOMAIN owned.world /\ owned.meta[x].owner \notin gone
    BY <1>2, <1>3, <2>3 DEF Whole
  <2> HIDE DEF gone
  <2>7. p.world[owned.meta[x].owner] = owned.world[owned.meta[x].owner]
    BY <1>4, <1>8, <2>6 DEF IsWithout
  <2> QED BY <1>8, <2>1, <2>3, <2>4, <2>5, <2>7
<1> QED BY <1>6, <1>9, <1>10

(* An operation other than an advance leaves the clock. *)
ClockStays == owned'.clock = owned.clock

LEMMA ClockMoves == OwnedInv /\ OwnedNext => OwnedAdvance \/ ClockStays
<1> SUFFICES ASSUME OwnedInv, OwnedNext, ~OwnedAdvance PROVE ClockStays
  OBVIOUS
<1>1. owned \in OwnedRecord /\ OwnedType(owned)
  BY DEF OwnedInv, OwnedType, OwnedRecord
<1>2. \A gone : Removed(owned, gone).clock = owned.clock
  BY <1>1 DEF Removed, OwnedRecord
<1>3. CASE SpawnOwned
  <2>1. PICK c \in Spawn :
          /\ c[4] \in 1..Template[c[2]].maximum
          /\ owned' = Spawned(owned, c, ReplacementPlan(owned, c))
    BY <1>3 DEF SpawnOwned
  <2>2. c[4] >= 1
    BY <2>1, SpawnsAreTyped
  <2>3. Spawned(owned, c, ReplacementPlan(owned, c)).clock = owned.clock
    BY <1>1, <2>2, SpawnedIs
  <2> QED BY <2>1, <2>3 DEF ClockStays
<1>4. CASE CommitOwnedSpawn
  BY <1>1, <1>4 DEF CommitOwnedSpawn, ClockStays, OwnedRecord
<1>5. CASE RollbackOwnedSpawn
  <2>1. RolledBack(owned).clock = Removed(owned, owned.open.created).clock
    BY <1>1 DEF RolledBack, Removed, OwnedRecord
  <2> QED BY <1>2, <1>5, <2>1 DEF RollbackOwnedSpawn, ClockStays
<1>6. CASE Command
  <2>1. PICK x \in DOMAIN owned.meta, c \in Order :
          owned' = CASE c[2] = "move_to" -> [owned EXCEPT !.world[x].place = c[3]]
                     [] c[2] = "return_to_owner" -> [owned EXCEPT !.world[x].place = owned.world[c[1]].place]
                     [] c[2] = "despawn" -> Removed(owned, {x})
    BY <1>6 DEF Command
  <2>2. CASE c[2] = "move_to"
    <3>1. owned' = [owned EXCEPT !.world[x].place = c[3]]
      BY <2>1, <2>2
    <3> QED BY <1>1, <3>1 DEF ClockStays, OwnedRecord
  <2>3. CASE c[2] = "return_to_owner"
    <3>1. owned' = [owned EXCEPT !.world[x].place = owned.world[c[1]].place]
      BY <2>1, <2>3
    <3> QED BY <1>1, <3>1 DEF ClockStays, OwnedRecord
  <2>4. CASE c[2] = "despawn"
    <3>1. owned' = Removed(owned, {x})
      BY <2>1, <2>4
    <3> QED BY <1>2, <3>1 DEF ClockStays
  <2> QED BY <2>2, <2>3, <2>4, OrdersAreTyped
<1>7. CASE RemoveOwnedEntities
  BY <1>2, <1>7 DEF RemoveOwnedEntities, ClockStays
<1>8. CASE OwnerLife
  <2>1. PICK h \in Hero : owned' = [owned EXCEPT !.world[h].alive = ~@]
    BY <1>8 DEF OwnerLife
  <2> QED BY <1>1, <2>1 DEF ClockStays, OwnedRecord
<1> QED BY <1>3, <1>4, <1>5, <1>6, <1>7, <1>8 DEF OwnedNext

(* Every operation on the entities keeps the invariant. *)
LEMMA OwnedStepOk == OwnedInv /\ [OwnedNext]_owned => OwnedInv'
<1> SUFFICES ASSUME OwnedInv, [OwnedNext]_owned PROVE OwnedInv'
  OBVIOUS
<1>1. CASE RemoveOwnedEntities
  <2>1. PICK gone \in SUBSET (DOMAIN owned.meta) : Idle /\ owned' = Removed(owned, gone)
    BY <1>1 DEF RemoveOwnedEntities
  <2> QED BY <2>1, DepartureOk
<1>2. CASE OwnerLife
  <2>1. PICK h \in Hero : Idle /\ owned' = [owned EXCEPT !.world[h].alive = ~@]
    BY <1>2 DEF OwnerLife
  <2>2. h \in DOMAIN owned.world /\ owned.world[h] \in WorldRecord
    BY TableFacts DEF OwnedInv, Whole
  <2> DEFINE e == [owned.world[h] EXCEPT !.alive = ~@]
  <2>3. e \in WorldRecord
    BY <2>2 DEF WorldRecord
  <2>4. owned' = [owned EXCEPT !.world[h] = e]
    BY <2>1
  <2> HIDE DEF e
  <2> QED BY <2>1, <2>2, <2>3, <2>4, WorldOk
<1>3. CASE UNCHANGED owned
  BY <1>3 DEF OwnedInv
<1> QED BY <1>1, <1>2, <1>3, SpawnOk, CommitOk, RollbackOk, CommandOk, AdvanceOk DEF OwnedNext

(* The entities of the host are whole, within their capacities, and an     *)
(* open transaction can be taken back (memory_host_owned_entity.go:111).   *)
THEOREM OwnedInvariance == BooksSpec => []OwnedInv
<1>1. BooksInit => OwnedInv
  BY OwnedInitOk DEF BooksInit
<1>2. OwnedInv /\ [BooksNext]_books => OwnedInv'
  <2>1. [BooksNext]_books => [OwnedNext]_owned
    BY DEF BooksNext, books
  <2> QED BY <2>1, OwnedStepOk
<1> QED BY <1>1, <1>2, PTL DEF BooksSpec

(* What a step of the entities must do. *)
Restores == /\ RollbackOwnedSpawn => <<owned'.meta, owned'.world>> = owned.open.was
            /\ DOMAIN owned'.meta = DOMAIN owned'.world \ Hero
Expires == owned'.clock > owned.clock =>
             \A x \in DOMAIN owned'.meta :
               /\ owned'.meta[x].due > owned'.clock
               /\ Template[owned'.meta[x].template].ownerDeath = "despawn" => owned'.world[owned'.meta[x].owner].alive

(* A rolled back spawn restores what was there before it, and an advance   *)
(* leaves no lease behind that ran out (memory_host_owned_entity.go:320,   *)
(* 412).                                                                   *)
THEOREM OwnedSettled == BooksSpec => OwnedIsSettled
<1>1. OwnedInv /\ OwnedInv' /\ [BooksNext]_books => [Restores]_owned /\ [Expires]_owned
  <2> SUFFICES ASSUME OwnedInv, OwnedInv', OwnedNext PROVE Restores /\ Expires
    BY DEF BooksNext, books
  <2>1. Restores
    <3>1. DOMAIN owned'.meta = DOMAIN owned'.world \ Hero
      BY DEF OwnedInv, Whole
    <3> QED BY <3>1, RollbackOk DEF Restores
  <2>2. Expires
    <3>1. CASE OwnedAdvance
      BY <3>1, AdvanceOk DEF Expires
    <3>2. CASE ClockStays
      <4>1. owned.clock \in Int
        BY TableFacts DEF OwnedInv
      <4> QED BY <3>2, <4>1 DEF ClockStays, Expires
    <3> QED BY <3>1, <3>2, ClockMoves
  <2> QED BY <2>1, <2>2
<1>2. BooksSpec => [][Restores]_owned /\ [][Expires]_owned
  BY <1>1, OwnedInvariance, PTL DEF BooksSpec
<1>3. RollbackRestores <=> [][Restores]_owned
  BY DEF RollbackRestores, Restores
<1>4. LeasesExpire <=> [][Expires]_owned
  BY DEF LeasesExpire, Expires
<1> QED BY <1>2, <1>3, <1>4 DEF OwnedIsSettled

-----------------------------------------------------------------------------
(* The states and the resources.  A value is typed by its policy alone.    *)
LedgerType(h) ==
    /\ h = [now |-> h.now, seq |-> h.seq, rec |-> h.rec, living |-> h.living, pool |-> h.pool]
    /\ h.now \in Int /\ h.seq \in Int
    /\ DOMAIN h.rec \subseteq Key
    /\ \A k \in DOMAIN h.rec : h.rec[k].due \in Int /\ h.rec[k].seq \in Int
    /\ h.pool \in [Being -> [Resource -> 0..Top]]
RecordBounded(h, k) ==
    /\ h.rec[k].due > h.now
    /\ PolicyOf(k).most > 0 => h.rec[k].due <= h.now + PolicyOf(k).most
    /\ PolicyOf(k).type = "int" => h.rec[k].value \in PolicyOf(k).minimum..PolicyOf(k).maximum
    /\ h.rec[k].seq <= h.seq
LedgerGood(h) == LedgerType(h) /\ \A k \in DOMAIN h.rec : RecordBounded(h, k)

(* The invariant holds what the books promise. *)
LEMMA GoodIsBounded == LedgerGood(ledger) => StatesAreBounded /\ NothingIsOverdrawn
BY DEF LedgerGood, LedgerType, RecordBounded, StatesAreBounded, NothingIsOverdrawn

(* What the declared policies promise. *)
LEMMA PolicyFacts ==
    ASSUME NEW k \in Key
    PROVE  /\ PolicyOf(k).most \in Int
           /\ PolicyOf(k).type = "int" => /\ PolicyOf(k).minimum \in Int /\ PolicyOf(k).maximum \in Int
                                          /\ PolicyOf(k).minimum <= PolicyOf(k).maximum
                                          /\ PolicyOf(k).default \in Int
<1>1. PICK p \in DOMAIN StatePolicy : PolicyOf(k) = StatePolicy[p]
  BY PoliciesAreTyped DEF PolicyOf
<1> QED BY <1>1, PoliciesAreTyped

(* What an operation makes of a number is a number within its bounds. *)
LEMMA ValueIsBounded ==
    ASSUME NEW k \in Key, PolicyOf(k).type = "int", NEW before \in Int, NEW m \in Mutation,
           StateAfter(PolicyOf(k), m[1], before, m[2]) # None
    PROVE  StateAfter(PolicyOf(k), m[1], before, m[2]) \in PolicyOf(k).minimum..PolicyOf(k).maximum
<1> DEFINE p == PolicyOf(k)
           result == CASE m[1] = "set" -> m[2]
                       [] m[1] = "add" -> CheckedAdd(before, m[2])
                       [] m[1] = "mul_bp" -> LET product == CheckedMul(before, m[2])
                                             IN  IF product = None THEN None ELSE Quot(product, Scale)
                       [] m[1] = "min" -> Lesser(before, m[2])
                       [] m[1] = "max" -> Greater(before, m[2])
<1>1. m[1] \in {"set", "add", "mul_bp", "min", "max"} /\ m[2] \in Int
  BY MutationsAreTyped
<1>2. None \in Int /\ \A n \in Int : Wrap(n) \in Int
  BY WrapIs, TopIsAWord DEF None, Int64, Bottom
<1>3. CheckedAdd(before, m[2]) \in Int /\ CheckedMul(before, m[2]) \in Int
  <2>1. CheckedAdd(before, m[2]) \in Int
    BY <1>1, <1>2 DEF CheckedAdd
  <2>2. CheckedMul(before, m[2]) \in {0, None, Wrap(before * m[2])}
    <3> DEFINE a == before = 0 \/ m[2] = 0
               b == <<before, m[2]>> \in {<<Bottom, -1>>, <<-1, Bottom>>}
    <3>1. ~(a /\ b)
      BY TopIsAWord DEF Bottom
    <3>2. CheckedMul(before, m[2]) =
            CASE a -> 0 [] b -> None [] OTHER -> IF Quot(Wrap(before * m[2]), m[2]) = before THEN Wrap(before * m[2]) ELSE None
      BY DEF CheckedMul
    <3> HIDE DEF a, b
    <3> QED BY <3>1, <3>2
  <2>3. before * m[2] \in Int
    BY <1>1
  <2> QED BY <1>2, <2>1, <2>2, <2>3
<1>4. \A n \in Int : Quot(n, Scale) \in Int
  BY QuotIs, TopIsAWord
<1>5. result \in Int
  <2>1. CASE m[1] \in {"set", "min", "max"}
    BY <1>1, <2>1 DEF Lesser, Greater
  <2>2. CASE m[1] = "add"
    <3>1. result = CheckedAdd(before, m[2])
      BY <2>2
    <3> QED BY <1>3, <3>1
  <2>3. CASE m[1] = "mul_bp"
    <3> DEFINE product == CheckedMul(before, m[2])
    <3> HIDE DEF product
    <3>1. result = IF product = None THEN None ELSE Quot(product, Scale)
      BY <2>3 DEF product
    <3> QED BY <1>2, <1>3, <1>4, <3>1 DEF product
  <2> QED BY <1>1, <2>1, <2>2, <2>3
<1>6. StateAfter(p, m[1], before, m[2]) = IF result = None THEN None ELSE Bounded(p, result)
  BY DEF StateAfter
<1> HIDE DEF result
<1>7. Bounded(p, result) \in p.minimum..p.maximum
  BY <1>5, PolicyFacts DEF Bounded, Greater, Lesser
<1> QED BY <1>6, <1>7

(* A state lasts from now, and not longer than its longest. *)
LEMMA DueIsBounded ==
    ASSUME NEW h, LedgerGood(h), NEW k \in Key, NEW d \in Int, d > 0
    PROVE  /\ DueAfter(h, k, d) \in Int /\ DueAfter(h, k, d) > h.now
           /\ PolicyOf(k).most > 0 => DueAfter(h, k, d) <= h.now + PolicyOf(k).most
<1> DEFINE p == PolicyOf(k)
           lasting == IF p.most > 0 THEN Lesser(p.most, d) ELSE d
           old == h.rec[k].due
<1>1. p.most \in Int /\ h.now \in Int
  BY PolicyFacts DEF LedgerGood, LedgerType
<1>2. k \in DOMAIN h.rec => old \in Int /\ old > h.now /\ (p.most > 0 => old <= h.now + p.most)
  BY DEF LedgerGood, LedgerType, RecordBounded
<1>3. lasting \in Int /\ lasting > 0 /\ (p.most > 0 => lasting <= p.most)
  BY <1>1 DEF Lesser
<1>4. DueAfter(h, k, d) = CASE k \in DOMAIN h.rec /\ p.expiry = "keep" -> old
                            [] k \in DOMAIN h.rec /\ p.expiry = "extend" ->
                                 IF p.most > 0 THEN Lesser(h.now + p.most, old + lasting) ELSE old + lasting
                            [] OTHER -> h.now + lasting
  BY DEF DueAfter
<1> DEFINE due == DueAfter(h, k, d)
<1> HIDE DEF p, lasting, old, due
<1>5. CASE k \in DOMAIN h.rec /\ p.expiry = "keep"
  <2>1. due = old
    BY <1>4, <1>5 DEF due
  <2> QED BY <1>2, <1>5, <2>1 DEF due, p
<1>6. CASE k \in DOMAIN h.rec /\ p.expiry = "extend"
  <2>1. due = IF p.most > 0 THEN Lesser(h.now + p.most, old + lasting) ELSE old + lasting
    BY <1>4, <1>6 DEF due
  <2>2. due \in Int /\ due > h.now /\ (p.most > 0 => due <= h.now + p.most)
    BY <1>1, <1>2, <1>3, <1>6, <2>1 DEF Lesser
  <2> QED BY <2>2 DEF due, p
<1>7. CASE ~(k \in DOMAIN h.rec /\ p.expiry \in {"keep", "extend"})
  <2>1. due = h.now + lasting
    BY <1>4, <1>7 DEF due
  <2>2. due \in Int /\ due > h.now /\ (p.most > 0 => due <= h.now + p.most)
    BY <1>1, <1>3, <2>1
  <2> QED BY <2>2 DEF due, p
<1> QED BY <1>5, <1>6, <1>7

(* The costs of one resource, summed without overflow. *)
LEMMA TotalIs ==
    ASSUME NEW c \in Costs, NEW r \in Resource
    PROVE  Total(c[2], r) \in 0..Top
<1> DEFINE costs == c[2]
           n == Len(costs)
           step(v, i) == IF costs[i][1] = r THEN SaturatingAdd(v, costs[i][2]) ELSE v
           steps == [a \in (0..Top) \X (1..n) |-> step(a[1], a[2])]
           eq(f) == [i \in 0..n |-> IF i = 0 THEN 0
                                   ELSE IF costs[i][1] = r THEN SaturatingAdd(f[i - 1], costs[i][2]) ELSE f[i - 1]]
           A == CHOOSE f : f = eq(f)
<1>1. n \in Nat /\ \A i \in 1..n : costs[i][2] \in 0..Top
  BY PaymentsAreTyped
<1> HIDE DEF costs, n
<1>2. \A v \in 0..Top : \A i \in 1..n : step(v, i) \in 0..Top /\ steps[<<v, i>>] = step(v, i)
  <2>1. ASSUME NEW v \in 0..Top, NEW w \in 0..Top
        PROVE  SaturatingAdd(v, w) \in 0..Top
    <3>1. v \in Int64 /\ w \in Int64
      BY TopIsAWord DEF Int64, Bottom
    <3> QED BY <3>1, AddIs, TopIsAWord DEF Clip, Bottom
  <2> QED BY <1>1, <2>1
<1>3. StepsIn(n, 0..Top, steps) /\ 0 \in 0..Top
  <2>1. 0 \in 0..Top
    BY TopIsAWord
  <2> HIDE DEF steps, step
  <2> QED BY <1>2, <2>1 DEF StepsIn
<1> HIDE DEF steps
<1>4. PICK f : Iterates(f, n, 0..Top, 0, steps)
  BY <1>1, <1>3, Iteration
<1>5. f \in [0..n -> 0..Top] /\ f[0] = 0 /\ \A i \in 1..n : f[i] = step(f[i - 1], i)
  <2>1. f \in [0..n -> 0..Top] /\ f[0] = 0 /\ \A i \in 1..n : f[i] = steps[<<f[i - 1], i>>] /\ i - 1 \in 0..n
    BY <1>1, <1>4 DEF Iterates
  <2> HIDE DEF step
  <2> QED BY <1>2, <2>1
<1>6. f = eq(f)
  <2>1. \A i \in 0..n : f[i] = IF i = 0 THEN 0 ELSE step(f[i - 1], i)
    BY <1>1, <1>5
  <2> QED BY <1>5, <2>1
<1>7. A = eq(A)
  <2> HIDE DEF eq
  <2> QED BY <1>6
<1> HIDE DEF A
<1>8. A[0] = 0 /\ \A i \in 1..n : A[i] = step(A[i - 1], i)
  BY <1>1, <1>7
<1> DEFINE G == {i \in 0..n : A[i] \in 0..Top}
<1>9. G = 0..n
  <2>1. 0 \in G /\ G \subseteq 0..n
    BY <1>1, <1>3, <1>8
  <2>2. ASSUME NEW i \in 0..(n - 1), i \in G
        PROVE  i + 1 \in G
    <3>1. i + 1 \in 1..n /\ (i + 1) - 1 = i
      BY <1>1
    <3> HIDE DEF step
    <3>2. A[i + 1] = step(A[i], i + 1)
      BY <1>8, <3>1
    <3>3. A[i] \in 0..Top /\ i + 1 \in 0..n
      BY <1>1, <2>2
    <3>4. step(A[i], i + 1) \in 0..Top
      BY <1>2, <3>1, <3>3
    <3> QED BY <3>2, <3>3, <3>4
  <2> HIDE DEF G
  <2> QED BY <1>1, <2>1, <2>2, CountsUp
<1>10. A[n] \in 0..Top
  BY <1>1, <1>9
<1>11. Total(costs, r) = A[n]
  BY DEF Total, A, n
<1> QED BY <1>10, <1>11 DEF costs

(* A record that goes leaves the others as they are. *)
LEMMA WithoutOk ==
    ASSUME NEW h, LedgerGood(h), NEW gone
    PROVE  LedgerGood(Without(h, gone))
<1> DEFINE rec == [k \in DOMAIN h.rec \ gone |-> h.rec[k]]
           p == [now |-> h.now, seq |-> h.seq, rec |-> rec, living |-> h.living, pool |-> h.pool]
<1>1. LedgerType(h)
  BY DEF LedgerGood
<1>2. Without(h, gone) = [h EXCEPT !.rec = rec]
  BY DEF Without
<1>3. DOMAIN rec = DOMAIN h.rec \ gone /\ \A k \in DOMAIN rec : rec[k] = h.rec[k]
  OBVIOUS
<1> HIDE DEF rec
<1>4. Without(h, gone) = p
  BY <1>1, <1>2 DEF LedgerType
<1>5. LedgerType(p)
  BY <1>1, <1>3 DEF LedgerType
<1>6. \A k \in DOMAIN rec : RecordBounded(p, k)
  BY <1>3 DEF LedgerGood, RecordBounded
<1> QED BY <1>4, <1>5, <1>6 DEF LedgerGood

(* The resources of one entity change. *)
LEMMA PoolOk ==
    ASSUME LedgerGood(ledger), NEW q \in [Being -> [Resource -> 0..Top]], ledger' = [ledger EXCEPT !.pool = q]
    PROVE  LedgerGood(ledger')
<1> DEFINE p == [now |-> ledger.now, seq |-> ledger.seq, rec |-> ledger.rec, living |-> ledger.living, pool |-> q]
<1>1. ledger' = p
  BY DEF LedgerGood, LedgerType
<1>2. LedgerGood(p)
  BY DEF LedgerGood, LedgerType, RecordBounded
<1> QED BY <1>1, <1>2

(* Every operation on the states and the resources keeps their invariant. *)
LEMMA LedgerStepOk == LedgerGood(ledger) /\ [LedgerNext]_ledger => LedgerGood(ledger')
<1> SUFFICES ASSUME LedgerGood(ledger), [LedgerNext]_ledger PROVE LedgerGood(ledger')
  OBVIOUS
<1>1. LedgerType(ledger) /\ \A k \in DOMAIN ledger.rec : RecordBounded(ledger, k)
  BY DEF LedgerGood
<1>2. CASE ModifyState
  <2>1. PICK k \in Key, m \in Mutation :
          LET p == PolicyOf(k)
              before == IF k \in DOMAIN ledger.rec THEN ledger.rec[k].value ELSE p.default
              after == StateAfter(p, m[1], before, m[2])
          IN  /\ after # None /\ m[3] > 0
              /\ ledger' = [ledger EXCEPT !.seq = @ + 1,
                     !.rec = [j \in DOMAIN @ \cup {k} |->
                                IF j # k THEN @[j]
                                ELSE [value |-> after, due |-> DueAfter(ledger, k, m[3]), seq |-> ledger.seq + 1]]]
    BY <1>2 DEF ModifyState
  <2> DEFINE p == PolicyOf(k)
             before == IF k \in DOMAIN ledger.rec THEN ledger.rec[k].value ELSE p.default
             after == StateAfter(p, m[1], before, m[2])
             due == DueAfter(ledger, k, m[3])
             new == [value |-> after, due |-> due, seq |-> ledger.seq + 1]
             rec == [j \in DOMAIN ledger.rec \cup {k} |-> IF j # k THEN ledger.rec[j] ELSE new]
             h == [now |-> ledger.now, seq |-> ledger.seq + 1, rec |-> rec, living |-> ledger.living, pool |-> ledger.pool]
  <2>2. after # None /\ m[3] > 0 /\ m[3] \in Int
    BY <2>1, MutationsAreTyped
  <2>3. due \in Int /\ due > ledger.now /\ (p.most > 0 => due <= ledger.now + p.most)
    BY <2>2, DueIsBounded
  <2>4. p.type = "int" => after \in p.minimum..p.maximum
    <3> SUFFICES ASSUME p.type = "int" PROVE after \in p.minimum..p.maximum
      OBVIOUS
    <3>1. before \in Int
      BY <1>1, PolicyFacts DEF RecordBounded
    <3> QED BY <2>2, <3>1, ValueIsBounded
  <2>5. ledger' = [ledger EXCEPT !.seq = @ + 1, !.rec = rec]
    BY <2>1
  <2> HIDE DEF rec
  <2>6. ledger' = h
    BY <1>1, <2>5 DEF LedgerType
  <2> HIDE DEF after, due, p
  <2>7. /\ DOMAIN rec = DOMAIN ledger.rec \cup {k}
        /\ rec[k] = new
        /\ \A j \in DOMAIN rec : j # k => j \in DOMAIN ledger.rec /\ rec[j] = ledger.rec[j]
    BY DEF rec
  <2>8. new.due = due /\ new.seq = ledger.seq + 1 /\ new.value = after /\ ledger.seq + 1 \in Int
    BY <1>1 DEF LedgerType
  <2> HIDE DEF new
  <2>9. LedgerType(h)
    <3>1. \A j \in DOMAIN rec : rec[j].due \in Int /\ rec[j].seq \in Int
      BY <1>1, <2>3, <2>7, <2>8 DEF LedgerType
    <3> QED BY <1>1, <2>7, <2>8, <3>1 DEF LedgerType
  <2>10. RecordBounded(h, k)
    BY <1>1, <2>3, <2>4, <2>7, <2>8 DEF RecordBounded, LedgerType, p
  <2>11. ASSUME NEW j \in DOMAIN rec, j # k PROVE RecordBounded(h, j)
    BY <1>1, <2>7, <2>11 DEF RecordBounded, LedgerType
  <2> QED BY <2>6, <2>9, <2>10, <2>11 DEF LedgerGood
<1>3. CASE ClearState
  BY <1>3, WithoutOk DEF ClearState
<1>4. CASE ReadState
  BY <1>4, WithoutOk DEF ReadState
<1>5. CASE StatesAdvance
  <2>1. PICK tick \in (ledger.now + 1)..MaxTime : ledger' = StatesAdvanced(ledger, tick)
    BY <1>5 DEF StatesAdvance
  <2> DEFINE gone == {k \in DOMAIN ledger.rec : ledger.rec[k].due <= tick}
             rec == [k \in DOMAIN ledger.rec \ gone |-> ledger.rec[k]]
             h == [now |-> tick, seq |-> ledger.seq, rec |-> rec, living |-> ledger.living, pool |-> ledger.pool]
  <2>2. ledger' = [[ledger EXCEPT !.now = tick] EXCEPT !.rec = rec]
    <3>1. [ledger EXCEPT !.now = tick].rec = ledger.rec
      BY <1>1 DEF LedgerType
    <3> QED BY <2>1, <3>1 DEF StatesAdvanced, Without
  <2>3. DOMAIN rec = DOMAIN ledger.rec \ gone /\ \A k \in DOMAIN rec : rec[k] = ledger.rec[k] /\ ~(rec[k].due <= tick)
    OBVIOUS
  <2>4. ledger.now \in Int /\ tick \in Int /\ tick > ledger.now
    BY <1>1 DEF LedgerType
  <2> HIDE DEF rec
  <2>5. ledger' = h
    BY <1>1, <2>2 DEF LedgerType
  <2>6. LedgerType(h)
    BY <1>1, <2>3, <2>4 DEF LedgerType
  <2>7. ASSUME NEW k \in DOMAIN rec PROVE RecordBounded(h, k)
    <3>1. k \in DOMAIN ledger.rec /\ rec[k] = ledger.rec[k] /\ ~(rec[k].due <= tick) /\ k \in Key /\ rec[k].due \in Int
      BY <1>1, <2>3 DEF LedgerType
    <3>2. PolicyOf(k).most \in Int
      BY <3>1, PolicyFacts
    <3>3. RecordBounded(ledger, k)
      BY <1>1, <3>1
    <3> QED BY <2>4, <3>1, <3>2, <3>3 DEF RecordBounded
  <2> QED BY <2>5, <2>6, <2>7 DEF LedgerGood
<1>6. CASE ClearStateLifecycle
  BY <1>6, WithoutOk DEF ClearStateLifecycle
<1>7. CASE Death
  <2>1. PICK b \in ledger.living : ledger' = [ledger EXCEPT !.living = @ \ {b}]
    BY <1>7 DEF Death
  <2> DEFINE h == [now |-> ledger.now, seq |-> ledger.seq, rec |-> ledger.rec, living |-> ledger.living \ {b}, pool |-> ledger.pool]
  <2>2. ledger' = h
    BY <1>1, <2>1 DEF LedgerType
  <2>3. LedgerGood(h)
    BY <1>1 DEF LedgerGood, LedgerType, RecordBounded
  <2> QED BY <2>2, <2>3
<1>8. CASE PayCosts
  <2>1. PICK c \in Costs :
          /\ Affordable(ledger.pool[c[1]], c[2])
          /\ ledger' = [ledger EXCEPT !.pool[c[1]] = [r \in Resource |-> @[r] - Total(c[2], r)]]
    BY <1>8 DEF PayCosts
  <2> DEFINE left == [r \in Resource |-> ledger.pool[c[1]][r] - Total(c[2], r)]
             q == [ledger.pool EXCEPT ![c[1]] = left]
  <2>2. c[1] \in Being /\ ledger.pool \in [Being -> [Resource -> 0..Top]]
    BY <1>1, PaymentsAreTyped DEF LedgerType
  <2>3. \A r \in Resource : ledger.pool[c[1]][r] - Total(c[2], r) \in 0..Top
    <3>1. \A r \in Resource : ledger.pool[c[1]][r] \in 0..Top /\ Total(c[2], r) \in 0..Top
      BY <2>2, TotalIs
    <3> QED BY <2>1, <3>1, TopIsAWord DEF Affordable
  <2>4. ledger' = [ledger EXCEPT !.pool = q]
    BY <1>1, <2>1 DEF LedgerType
  <2>5. q \in [Being -> [Resource -> 0..Top]]
    BY <2>2, <2>3
  <2> HIDE DEF q
  <2> QED BY <2>4, <2>5, PoolOk
<1>9. CASE ChangeResource
  <2>1. PICK c \in Change :
          LET before == ledger.pool[c[1]][c[2]]
              after == CASE c[3] = "set" -> c[4]
                         [] c[3] = "add" -> SaturatingAdd(before, c[4])
                         [] c[3] = "sub" -> IF c[4] < 0 \/ before < c[4] THEN -1 ELSE before - c[4]
          IN  after >= 0 /\ after # before /\ ledger' = [ledger EXCEPT !.pool[c[1]][c[2]] = after]
    BY <1>9 DEF ChangeResource
  <2> DEFINE before == ledger.pool[c[1]][c[2]]
             n == CASE c[3] = "set" -> c[4]
                    [] c[3] = "add" -> SaturatingAdd(before, c[4])
                    [] c[3] = "sub" -> IF c[4] < 0 \/ before < c[4] THEN -1 ELSE before - c[4]
  <2>2. c[1] \in Being /\ c[2] \in Resource /\ c[3] \in {"set", "add", "sub"} /\ c[4] \in Int64
    BY PaymentsAreTyped
  <2>3. ledger.pool \in [Being -> [Resource -> 0..Top]] /\ before \in 0..Top
    BY <1>1, <2>2 DEF LedgerType
  <2>4. n >= 0 /\ ledger' = [ledger EXCEPT !.pool[c[1]][c[2]] = n]
    BY <2>1
  <2> HIDE DEF before
  <2>5. n \in 0..Top
    <3>1. c[4] \in Int /\ c[4] <= Top /\ before \in Int64
      BY <2>2, <2>3, TopIsAWord DEF Int64, Bottom
    <3>2. CASE c[3] = "set"
      <4>1. n = c[4]
        BY <3>2
      <4> HIDE DEF n
      <4> QED BY <2>4, <3>1, <4>1
    <3>3. CASE c[3] = "add"
      <4>1. n = Clip(before + c[4])
        BY <2>2, <3>1, <3>3, AddIs
      <4> HIDE DEF n
      <4> QED BY <2>3, <2>4, <3>1, <4>1, TopIsAWord DEF Clip, Bottom
    <3>4. CASE c[3] = "sub"
      <4>1. n = IF c[4] < 0 \/ before < c[4] THEN -1 ELSE before - c[4]
        BY <3>4
      <4> HIDE DEF n
      <4> QED BY <2>3, <2>4, <3>1, <4>1, TopIsAWord
    <3> QED BY <2>2, <3>2, <3>3, <3>4
  <2> HIDE DEF n
  <2> DEFINE q == [ledger.pool EXCEPT ![c[1]][c[2]] = n]
  <2>6. ledger' = [ledger EXCEPT !.pool = q]
    BY <1>1, <2>4 DEF LedgerType
  <2>7. q \in [Being -> [Resource -> 0..Top]]
    BY <2>2, <2>3, <2>5
  <2> HIDE DEF q
  <2> QED BY <2>6, <2>7, PoolOk
<1>10. CASE UNCHANGED ledger
  BY <1>10
<1> QED BY <1>2, <1>3, <1>4, <1>5, <1>6, <1>7, <1>8, <1>9, <1>10 DEF LedgerNext

(* The states, the resources and the entities stay within their bounds     *)
(* (memory_host_state.go:60, memory_host.go:295).                          *)
THEOREM BooksBounded == BooksSpec => []BooksAreBounded
<1>1. BooksInit => LedgerGood(ledger)
  <2> SUFFICES ASSUME LedgerInit PROVE LedgerGood(ledger)
    BY DEF BooksInit
  <2>1. 2 \in 0..Top
    BY PoolsFit, TopIsAWord
  <2>2. [b \in Being |-> [r \in Resource |-> 2]] \in [Being -> [Resource -> 0..Top]]
    BY <2>1
  <2>3. DOMAIN <<>> = {}
    OBVIOUS
  <2> QED BY <2>2, <2>3 DEF LedgerInit, LedgerGood, LedgerType
<1>2. LedgerGood(ledger) /\ [BooksNext]_books => LedgerGood(ledger')
  <2>1. [BooksNext]_books => [LedgerNext]_ledger
    BY DEF BooksNext, books
  <2> QED BY <2>1, LedgerStepOk
<1>3. LedgerGood(ledger) /\ OwnedInv => BooksAreBounded
  BY GoodIsBounded, FitsIs DEF OwnedInv, BooksAreBounded
<1>4. LedgerGood(ledger)' <=> LedgerGood(ledger')
  OBVIOUS
<1> QED BY <1>1, <1>2, <1>3, <1>4, OwnedInvariance, PTL DEF BooksSpec

-----------------------------------------------------------------------------
(* Statuses.  The records of the host by their fields: no property of the  *)
(* statuses depends on a type, so no catalog is assumed to be sound.       *)

IsHost(h) == h = [tick |-> h.tick, seq |-> h.seq, token |-> h.token, inst |-> h.inst, mods |-> h.mods,
                  snaps |-> h.snaps, ent |-> h.ent]
IsItem(i) == {"target", "status", "owner", "seq", "applied", "stacks", "due", "shield"} \subseteq DOMAIN i
IsBeing(b) == {"alive", "health", "shield", "spell", "flags", "pos"} \subseteq DOMAIN b
IsSnapshot(s) == s = [owner |-> s.owner, target |-> s.target, expires |-> s.expires, ent |-> s.ent, inst |-> s.inst]

Beings(ent) == ent = [e \in Entity |-> ent[e]] /\ \A e \in Entity : IsBeing(ent[e])
Shaped(h) == /\ IsHost(h)
             /\ Beings(h.ent)
             /\ \A k \in DOMAIN h.snaps : IsSnapshot(h.snaps[k])

(* The list of the instances and those of the snapshots. *)
InstanceLists(h) == {h.inst} \cup {h.snaps[k].inst : k \in DOMAIN h.snaps}

IsSequence(s) == Len(s) \in Nat /\ s = [k \in 1..Len(s) |-> s[k]]

(* Numbers are below the counter, one instance of a list has each, and in  *)
(* all lists it is of one entity.                                          *)
Listed(s, n) ==
    /\ IsSequence(s)
    /\ \A i \in DOMAIN s : IsItem(s[i]) /\ s[i].seq \in 1..n
    /\ \A i, j \in DOMAIN s : s[i].seq = s[j].seq => i = j
Agree(s, t) == \A i \in DOMAIN s, j \in DOMAIN t : s[i].seq = t[j].seq => s[i].target = t[j].target
Numbered(h) ==
    /\ h.seq \in Nat
    /\ \A s \in InstanceLists(h) : Listed(s, h.seq)
    /\ \A s, t \in InstanceLists(h) : Agree(s, t)

(* The statuses that a list gives an entity. *)
StatusesOf(s, e) == {s[i].status : i \in {j \in DOMAIN s : s[j].target = e}}

(* A snapshot has the instances of its target, and their flags. *)
Faithful(s) ==
    /\ \A i \in DOMAIN s.inst : s.inst[i].target = s.target
    /\ ("statuses" \in Profile.fields /\ s.target \in Entity) => s.ent.flags = StatusesOf(s.inst, s.target)

Sane(h) == /\ Shaped(h)
           /\ Numbered(h)
           /\ \A k \in DOMAIN h.snaps : Faithful(h.snaps[k])

Mirrored(h) == \A e \in Entity : h.ent[e].flags = StatusesOf(h.inst, e)

HostInv == Sane(host) /\ Mirrored(host)

-----------------------------------------------------------------------------
(* Lists *)

(* A sequence is a function of its places. *)
LEMMA SequenceIs ==
    ASSUME NEW R, NEW s \in Seq(R)
    PROVE  IsSequence(s) /\ DOMAIN s = 1..Len(s)
<1>1. Len(s) \in Nat /\ DOMAIN s = 1..Len(s) /\ s \in [1..Len(s) -> R]
  OBVIOUS
<1>2. s = [k \in 1..Len(s) |-> s[k]]
  BY <1>1
<1> QED BY <1>1, <1>2 DEF IsSequence

(* Leaving keeps the places that do not go, each once. *)
LEMMA LeavingIs ==
    ASSUME NEW s, IsSequence(s), NEW gone
    PROVE  /\ IsSequence(Leaving(s, gone))
           /\ \E at \in [DOMAIN Leaving(s, gone) -> DOMAIN s \ gone] :
                /\ \A k \in DOMAIN Leaving(s, gone) : Leaving(s, gone)[k] = s[at[k]]
                /\ \A k, l \in DOMAIN Leaving(s, gone) : at[k] = at[l] => k = l
                /\ \A i \in DOMAIN s \ gone : \E k \in DOMAIN Leaving(s, gone) : at[k] = i
<1> DEFINE left == DOMAIN s \ gone
           n == Cardinality(left)
           upTo(i) == {j \in left : j <= i}
           pick(k) == CHOOSE i \in left : Cardinality(upTo(i)) = k
           at == [k \in 1..n |-> pick(k)]
           new == Leaving(s, gone)
<1>1. DOMAIN s = 1..Len(s) /\ Len(s) \in Nat
  BY DEF IsSequence
<1>2. left \subseteq Int
  BY <1>1
<1>3. IsFiniteSet(left)
  <2>1. IsFiniteSet(1..Len(s)) /\ left \in SUBSET (1..Len(s))
    BY <1>1, FS_Interval
  <2> HIDE DEF left
  <2> QED BY ONLY <2>1, FS_Subset
<1>4. n \in Nat
  BY <1>3, FS_CardinalityType
<1>5. new = [k \in 1..n |-> s[at[k]]]
  BY DEF Leaving
<1> HIDE DEF left, new
<1>6. /\ \A i \in left : Cardinality(upTo(i)) \in 1..n
      /\ \A i, j \in left : i < j => Cardinality(upTo(i)) < Cardinality(upTo(j))
      /\ \A k \in 1..n : \E i \in left : Cardinality(upTo(i)) = k
  BY <1>2, <1>3, CountEnumerates
<1>7. \A k \in 1..n : at[k] \in left /\ Cardinality(upTo(at[k])) = k
  <2> TAKE k \in 1..n
  <2>1. \E i \in left : Cardinality(upTo(i)) = k
    <3> HIDE DEF upTo, pick
    <3> QED BY <1>6
  <2>2. pick(k) \in left /\ Cardinality(upTo(pick(k))) = k
    <3> HIDE DEF upTo
    <3> QED BY <2>1
  <2>3. at[k] = pick(k)
    <3> HIDE DEF pick
    <3> QED OBVIOUS
  <2> HIDE DEF pick, at
  <2> QED BY <2>2, <2>3
<1>8. at \in [1..n -> left]
  <2>1. \A k \in 1..n : pick(k) \in left
    <3>1. \A k \in 1..n : at[k] \in left
      BY <1>7
    <3> HIDE DEF pick
    <3> QED BY <3>1
  <2> HIDE DEF pick
  <2> QED BY <2>1
<1> HIDE DEF at, pick
<1>9. \A k, l \in 1..n : at[k] = at[l] => k = l
  BY <1>7
<1>10. \A i \in left : \E k \in 1..n : at[k] = i
  <2> TAKE i \in left
  <2> DEFINE k == Cardinality(upTo(i))
  <2>1. k \in 1..n
    BY <1>6
  <2>2. at[k] \in left /\ Cardinality(upTo(at[k])) = k
    BY <1>7, <2>1
  <2>3. ~(at[k] < i) /\ ~(i < at[k])
    <3> HIDE DEF upTo
    <3>1. at[k] < i => k < k
      BY <1>6, <2>2
    <3>2. i < at[k] => k < k
      BY <1>6, <2>2
    <3> QED BY <2>1, <3>1, <3>2
  <2> HIDE DEF k
  <2>4. at[k] \in Int /\ i \in Int
    BY <1>2, <2>2
  <2>5. at[k] = i
    BY ONLY <2>3, <2>4
  <2> QED BY <2>1, <2>5
<1> HIDE DEF n
<1>11. DOMAIN new = 1..n /\ \A k \in 1..n : new[k] = s[at[k]]
  BY <1>5
<1>12. Len(new) = n
  <2>1. new \in Seq({s[at[k]] : k \in 1..n})
    BY <1>4, <1>5
  <2> QED BY <1>4, <1>11, <2>1
<1>13. IsSequence(new)
  BY <1>4, <1>5, <1>11, <1>12 DEF IsSequence
<1>14. /\ at \in [DOMAIN new -> left]
       /\ \A k \in DOMAIN new : new[k] = s[at[k]]
       /\ \A k, l \in DOMAIN new : at[k] = at[l] => k = l
       /\ \A i \in left : \E k \in DOMAIN new : at[k] = i
  BY <1>8, <1>9, <1>10, <1>11
<1> QED
  BY <1>13, <1>14 DEF left, new

(* An instance appended comes last. *)
LEMMA AppendIs ==
    ASSUME NEW s, IsSequence(s), NEW x
    PROVE  /\ IsSequence(Append(s, x))
           /\ DOMAIN Append(s, x) = DOMAIN s \cup {Len(s) + 1}
           /\ \A k \in DOMAIN s : Append(s, x)[k] = s[k] /\ k # Len(s) + 1
           /\ Append(s, x)[Len(s) + 1] = x
<1> DEFINE R == {s[k] : k \in DOMAIN s} \cup {x}
<1>1. s \in Seq(R) /\ DOMAIN s = 1..Len(s) /\ Len(s) \in Nat
  BY DEF IsSequence
<1>2. Append(s, x) \in Seq(R) /\ Len(Append(s, x)) = Len(s) + 1 /\ DOMAIN Append(s, x) = 1..(Len(s) + 1)
  BY <1>1
<1>3. \A k \in 1..Len(s) : Append(s, x)[k] = s[k]
  BY <1>1
<1>4. Append(s, x)[Len(s) + 1] = x
  BY <1>1
<1> HIDE DEF R
<1>5. IsSequence(Append(s, x))
  BY <1>2, SequenceIs
<1>6. 1..(Len(s) + 1) = (1..Len(s)) \cup {Len(s) + 1} /\ \A k \in 1..Len(s) : k # Len(s) + 1
  BY <1>1
<1> QED
  BY <1>1, <1>2, <1>3, <1>4, <1>5, <1>6 DEF IsSequence

(* Of two lists put together the second comes last. *)
LEMMA ConcatIs ==
    ASSUME NEW s, IsSequence(s), NEW t, IsSequence(t)
    PROVE  /\ IsSequence(s \o t)
           /\ \A k \in DOMAIN (s \o t) : \/ k \in DOMAIN s /\ (s \o t)[k] = s[k]
                                         \/ \E j \in DOMAIN t : k = Len(s) + j /\ (s \o t)[k] = t[j]
           /\ \A k \in DOMAIN s : k \in DOMAIN (s \o t) /\ (s \o t)[k] = s[k]
           /\ \A j \in DOMAIN t : Len(s) + j \in DOMAIN (s \o t) /\ (s \o t)[Len(s) + j] = t[j]
<1> DEFINE R == {s[k] : k \in DOMAIN s} \cup {t[k] : k \in DOMAIN t}
           c == s \o t
<1>1. s \in Seq(R) /\ DOMAIN s = 1..Len(s) /\ Len(s) \in Nat
  BY DEF IsSequence
<1>2. t \in Seq(R) /\ DOMAIN t = 1..Len(t) /\ Len(t) \in Nat
  BY DEF IsSequence
<1> HIDE DEF R
<1>3. c \in Seq(R) /\ Len(c) = Len(s) + Len(t) /\ DOMAIN c = 1..(Len(s) + Len(t))
  BY <1>1, <1>2
<1>4. \A k \in 1..Len(s) : c[k] = s[k]
  BY <1>1, <1>2
<1>5. \A j \in 1..Len(t) : c[Len(s) + j] = t[j]
  <2> TAKE j \in 1..Len(t)
  <2>1. Len(s) + j \in 1..(Len(s) + Len(t)) /\ ~(Len(s) + j <= Len(s)) /\ (Len(s) + j) - Len(s) = j
    BY <1>1, <1>2
  <2>2. c[Len(s) + j] = t[(Len(s) + j) - Len(s)]
    BY ONLY <1>1, <1>2, <2>1
  <2> QED BY <2>1, <2>2
<1>6. \A k \in 1..(Len(s) + Len(t)) : k \in 1..Len(s) \/ \E j \in 1..Len(t) : k = Len(s) + j
  <2> TAKE k \in 1..(Len(s) + Len(t))
  <2>1. CASE k <= Len(s)
    BY <1>1, <1>2, <2>1
  <2>2. CASE k > Len(s)
    <3>1. k - Len(s) \in 1..Len(t) /\ k = Len(s) + (k - Len(s))
      BY <1>1, <1>2, <2>2
    <3> QED BY <3>1
  <2> QED BY <1>1, <1>2, <2>1, <2>2
<1>7. /\ \A k \in 1..Len(s) : k \in 1..(Len(s) + Len(t))
      /\ \A j \in 1..Len(t) : Len(s) + j \in 1..(Len(s) + Len(t))
  BY <1>1, <1>2
<1> HIDE DEF c
<1>9. IsSequence(c)
  BY <1>3, SequenceIs
<1>10. ASSUME NEW k \in DOMAIN c
       PROVE  \/ k \in DOMAIN s /\ c[k] = s[k]
              \/ \E j \in DOMAIN t : k = Len(s) + j /\ c[k] = t[j]
  <2>1. CASE k \in 1..Len(s)
    BY <1>1, <1>4, <2>1
  <2>2. ASSUME NEW j \in 1..Len(t), k = Len(s) + j
        PROVE  \E i \in DOMAIN t : k = Len(s) + i /\ c[k] = t[i]
    <3>1. c[k] = t[j]
      BY <1>5, <2>2
    <3> QED BY <1>2, <2>2, <3>1
  <2> QED BY <1>3, <1>6, <2>1, <2>2
<1> QED
  BY <1>1, <1>2, <1>3, <1>4, <1>5, <1>7, <1>9, <1>10 DEF c

-----------------------------------------------------------------------------
(* A change of the list *)

(* The host with another list, other entities and another counter. *)
Changed(h, inst, ent, seq) == [tick |-> h.tick, seq |-> seq, token |-> h.token, inst |-> inst,
                               mods |-> h.mods, snaps |-> h.snaps, ent |-> ent]

(* Every instance of s is one of t, perhaps rewritten, or has a number     *)
(* after n.                                                                *)
ComesFrom(s, t, n, m) ==
    /\ IsSequence(s)
    /\ \A i \in DOMAIN s : /\ IsItem(s[i])
                           /\ \/ s[i].seq \in (n + 1)..m
                              \/ \E j \in DOMAIN t : s[i].seq = t[j].seq /\ s[i].target = t[j].target
    /\ \A i, j \in DOMAIN s : s[i].seq = s[j].seq => i = j

(* A host whose list comes from a sane one is sane. *)
LEMMA ChangedIsSane ==
    ASSUME NEW h, Sane(h), NEW s, NEW ent, Beings(ent), NEW m \in Nat, m >= h.seq,
           ComesFrom(s, h.inst, h.seq, m)
    PROVE  Sane(Changed(h, s, ent, m))
<1> DEFINE g == Changed(h, s, ent, m)
<1>1. /\ g.inst = s /\ g.snaps = h.snaps /\ g.ent = ent /\ g.seq = m
      /\ IsHost(g)
  BY DEF Changed, IsHost
<1> HIDE DEF g
<1>2. Shaped(g)
  BY <1>1 DEF Sane, Shaped
<1>3. h.seq \in Nat /\ \A t \in InstanceLists(h) : Listed(t, h.seq)
  BY DEF Sane, Numbered
<1>4. \A t, u \in InstanceLists(h) : Agree(t, u)
  BY DEF Sane, Numbered
<1>5. h.inst \in InstanceLists(h) /\ \A t \in InstanceLists(g) : t = s \/ t \in InstanceLists(h)
  BY <1>1 DEF InstanceLists
<1>6. Listed(s, m)
  <2> SUFFICES ASSUME NEW i \in DOMAIN s PROVE s[i].seq \in 1..m
    BY DEF ComesFrom, Listed
  <2>1. CASE s[i].seq \in (h.seq + 1)..m
    BY ONLY <1>3, <2>1, m \in Nat
  <2>2. CASE \E j \in DOMAIN h.inst : s[i].seq = h.inst[j].seq
    <3>1. s[i].seq \in 1..h.seq
      BY <1>3, <1>5, <2>2 DEF Listed
    <3> QED BY ONLY <1>3, <3>1, m \in Nat, m >= h.seq
  <2> QED BY <2>1, <2>2 DEF ComesFrom
<1>7. \A t \in InstanceLists(g) : Listed(t, m)
  <2> TAKE t \in InstanceLists(g)
  <2>1. CASE t = s
    BY <1>6, <2>1
  <2>2. CASE t \in InstanceLists(h)
    <3>1. Listed(t, h.seq)
      BY <1>3, <2>2
    <3>2. \A n \in 1..h.seq : n \in 1..m
      BY ONLY <1>3, m \in Nat, m >= h.seq
    <3> QED BY <3>1, <3>2 DEF Listed
  <2> QED BY <1>5, <2>1, <2>2
<1>8. \A t \in InstanceLists(h) : Agree(s, t) /\ Agree(t, s)
  <2> TAKE t \in InstanceLists(h)
  <2> SUFFICES ASSUME NEW i \in DOMAIN s, NEW j \in DOMAIN t, s[i].seq = t[j].seq
               PROVE  s[i].target = t[j].target
    BY DEF Agree
  <2>1. t[j].seq \in 1..h.seq
    BY <1>3 DEF Listed
  <2>2. s[i].seq \notin (h.seq + 1)..m
    BY <1>3, <2>1
  <2>3. PICK k \in DOMAIN h.inst : s[i].seq = h.inst[k].seq /\ s[i].target = h.inst[k].target
    BY <2>2 DEF ComesFrom
  <2> QED BY <1>4, <1>5, <2>3 DEF Agree
<1>9. Agree(s, s)
  BY DEF Agree, ComesFrom
<1>10. \A t, u \in InstanceLists(g) : Agree(t, u)
  BY <1>4, <1>5, <1>8, <1>9
<1> QED
  BY <1>1, <1>2, <1>7, <1>10 DEF Sane, Numbered, g

(* Less of a list comes from it, and gives its entities the statuses of    *)
(* what stays.                                                             *)
LEMMA LeavingComes ==
    ASSUME NEW s, NEW n, Listed(s, n), NEW gone, NEW m
    PROVE  /\ ComesFrom(Leaving(s, gone), s, n, m)
           /\ \A e : StatusesOf(Leaving(s, gone), e)
                       = {s[i].status : i \in {j \in DOMAIN s : s[j].target = e} \ gone}
           /\ \A k \in DOMAIN Leaving(s, gone) : \E i \in DOMAIN s \ gone : Leaving(s, gone)[k] = s[i]
<1> DEFINE r == Leaving(s, gone)
<1>1. IsSequence(r)
  BY LeavingIs DEF Listed
<1>2. PICK at \in [DOMAIN r -> DOMAIN s \ gone] :
             /\ \A k \in DOMAIN r : r[k] = s[at[k]]
             /\ \A k, l \in DOMAIN r : at[k] = at[l] => k = l
             /\ \A i \in DOMAIN s \ gone : \E k \in DOMAIN r : at[k] = i
  BY LeavingIs DEF Listed
<1> HIDE DEF r
<1>3. \A k \in DOMAIN r : at[k] \in DOMAIN s \ gone
  BY <1>2
<1>4. ComesFrom(r, s, n, m)
  <2>1. \A k \in DOMAIN r : IsItem(r[k]) /\ \E j \in DOMAIN s : r[k].seq = s[j].seq /\ r[k].target = s[j].target
    BY <1>2, <1>3 DEF Listed
  <2>2. \A k, l \in DOMAIN r : r[k].seq = r[l].seq => k = l
    BY <1>2, <1>3 DEF Listed
  <2> QED BY <1>1, <2>1, <2>2 DEF ComesFrom
<1>5. ASSUME NEW e
      PROVE  StatusesOf(r, e) = {s[i].status : i \in {j \in DOMAIN s : s[j].target = e} \ gone}
  <2>1. \A k \in DOMAIN r : r[k].target = e => at[k] \in {j \in DOMAIN s : s[j].target = e} \ gone /\ r[k].status = s[at[k]].status
    BY <1>2, <1>3
  <2>2. \A i \in {j \in DOMAIN s : s[j].target = e} \ gone : \E k \in DOMAIN r : r[k].target = e /\ r[k].status = s[i].status
    BY <1>2, <1>3
  <2> QED BY <2>1, <2>2 DEF StatusesOf
<1> QED
  BY <1>2, <1>3, <1>4, <1>5 DEF r

(* An entity that is marked anew has the marks it is given. *)
LEMMA StrippedIs ==
    ASSUME NEW b, IsBeing(b), NEW points, NEW flags
    PROVE  IsBeing(Stripped(b, points, flags)) /\ Stripped(b, points, flags).flags = flags
<1> DEFINE shield == IF points > 0 THEN AtLeast0(b.shield - points) ELSE b.shield
<1>1. Stripped(b, points, flags) = [b EXCEPT !.shield = shield, !.flags = flags]
  BY DEF Stripped
<1> HIDE DEF shield
<1> QED BY <1>1 DEF IsBeing

(* What Filtered makes of a sane host. *)
LEMMA FilteredIsSane ==
    ASSUME NEW h, Sane(h), NEW gone
    PROVE  /\ Sane(Filtered(h, gone))
           /\ Filtered(h, gone).seq = h.seq
           /\ Filtered(h, gone).inst = Leaving(h.inst, gone)
           /\ Filtered(h, gone).snaps = h.snaps
           /\ \A e \in Entity :
                \/ Filtered(h, gone).ent[e].flags = StatusesOf(Leaving(h.inst, gone), e)
                \/ /\ Filtered(h, gone).ent[e].flags = h.ent[e].flags
                   /\ StatusesOf(Leaving(h.inst, gone), e) = StatusesOf(h.inst, e)
<1> DEFINE g == Filtered(h, gone)
           mine(e) == gone \cap On(h, e)
           points(e) == PointsAt(h, {i \in mine(e) : IsShield(h.inst[i].status)})
           names(e) == {h.inst[i].status : i \in On(h, e) \ mine(e)}
           ent == [e \in Entity |-> IF mine(e) = {} THEN h.ent[e] ELSE Stripped(h.ent[e], points(e), names(e))]
<1>1. IsHost(h) /\ \A e \in Entity : IsBeing(h.ent[e])
  BY DEF Sane, Shaped, Beings
<1>2. g = [h EXCEPT !.inst = Leaving(h.inst, gone), !.ent = ent]
  BY DEF Filtered
<1> HIDE DEF ent
<1>3. g = Changed(h, Leaving(h.inst, gone), ent, h.seq)
  BY ONLY <1>1, <1>2 DEF IsHost, Changed
<1>4. ASSUME NEW e \in Entity
      PROVE  /\ IsBeing(ent[e])
             /\ ent[e].flags = IF mine(e) = {} THEN h.ent[e].flags ELSE names(e)
  <2> HIDE DEF mine, points, names
  <2>1. CASE mine(e) = {}
    BY <1>1, <2>1 DEF ent
  <2>2. CASE mine(e) # {}
    <3>1. ent[e] = Stripped(h.ent[e], points(e), names(e))
      BY <2>2 DEF ent
    <3> HIDE DEF ent
    <3> QED BY <1>1, <2>2, <3>1, StrippedIs
  <2> QED BY <2>1, <2>2
<1>5. Beings(ent)
  BY <1>4 DEF Beings, ent
<1>6. Listed(h.inst, h.seq) /\ h.seq \in Nat
  BY DEF Sane, Numbered, InstanceLists
<1>7. ComesFrom(Leaving(h.inst, gone), h.inst, h.seq, h.seq)
  BY <1>6, LeavingComes
<1>8. Sane(g)
  BY <1>3, <1>5, <1>6, <1>7, ChangedIsSane
<1>9. /\ g.seq = h.seq /\ g.inst = Leaving(h.inst, gone) /\ g.snaps = h.snaps /\ g.ent = ent
  BY <1>3 DEF Changed
<1>10. \A e \in Entity : StatusesOf(Leaving(h.inst, gone), e) = {h.inst[i].status : i \in On(h, e) \ gone}
  BY <1>6, LeavingComes DEF On
<1>11. ASSUME NEW e \in Entity
       PROVE  \/ ent[e].flags = StatusesOf(Leaving(h.inst, gone), e)
              \/ ent[e].flags = h.ent[e].flags /\ StatusesOf(Leaving(h.inst, gone), e) = StatusesOf(h.inst, e)
  <2>1. CASE mine(e) = {}
    <3>1. On(h, e) \ gone = On(h, e)
      BY <2>1
    <3>2. StatusesOf(h.inst, e) = {h.inst[i].status : i \in On(h, e)}
      BY DEF StatusesOf, On
    <3> QED BY <1>4, <1>10, <2>1, <3>1, <3>2
  <2>2. CASE mine(e) # {}
    <3>1. On(h, e) \ gone = On(h, e) \ mine(e)
      OBVIOUS
    <3> QED BY <1>4, <1>10, <2>2, <3>1
  <2> QED BY <2>1, <2>2
<1> HIDE DEF g
<1> QED
  BY <1>8, <1>9, <1>11 DEF g

-----------------------------------------------------------------------------
(* Hosts whose flags mirror the instances *)

Good(h) == Sane(h) /\ Mirrored(h)

(* The facts about a sane host that every step uses. *)
LEMMA SaneFacts ==
    ASSUME NEW h, Sane(h)
    PROVE  /\ IsHost(h) /\ Beings(h.ent) /\ h.seq \in Nat
           /\ Listed(h.inst, h.seq) /\ IsSequence(h.inst)
           /\ ComesFrom(h.inst, h.inst, h.seq, h.seq)
           /\ \A i \in DOMAIN h.inst : IsItem(h.inst[i])
<1>1. Listed(h.inst, h.seq)
  BY DEF Sane, Numbered, InstanceLists
<1> QED
  BY <1>1 DEF Sane, Shaped, Numbered, Listed, ComesFrom

(* Removing instances keeps flags and instances together. *)
LEMMA FilteredIsGood ==
    ASSUME NEW h, Good(h), NEW gone
    PROVE  Good(Filtered(h, gone)) /\ Filtered(h, gone).seq = h.seq
<1> DEFINE g == Filtered(h, gone)
<1>1. Sane(h) /\ \A e \in Entity : h.ent[e].flags = StatusesOf(h.inst, e)
  BY DEF Good, Mirrored
<1>2. /\ Sane(g) /\ g.seq = h.seq /\ g.inst = Leaving(h.inst, gone)
      /\ \A e \in Entity : \/ g.ent[e].flags = StatusesOf(Leaving(h.inst, gone), e)
                           \/ /\ g.ent[e].flags = h.ent[e].flags
                              /\ StatusesOf(Leaving(h.inst, gone), e) = StatusesOf(h.inst, e)
  BY <1>1, FilteredIsSane
<1> HIDE DEF g
<1>3. Mirrored(g)
  BY <1>1, <1>2 DEF Mirrored
<1> QED
  BY <1>2, <1>3 DEF Good, g

(* So does the use of a hook. *)
LEMMA ConsumedIsGood ==
    ASSUME NEW h, Good(h), NEW e, NEW hooks
    PROVE  Good(Consumed(h, e, hooks))
BY FilteredIsGood DEF Consumed

(* Entities that keep their flags. *)
LEMMA FlagsKept ==
    ASSUME NEW h, Good(h), NEW ent, Beings(ent), \A e \in Entity : ent[e].flags = h.ent[e].flags
    PROVE  Good(Changed(h, h.inst, ent, h.seq))
<1>1. Sane(h) /\ \A e \in Entity : h.ent[e].flags = StatusesOf(h.inst, e)
  BY DEF Good, Mirrored
<1>2. h.seq \in Nat /\ ComesFrom(h.inst, h.inst, h.seq, h.seq) /\ h.seq >= h.seq
  BY <1>1, SaneFacts
<1>3. Sane(Changed(h, h.inst, ent, h.seq))
  BY <1>1, <1>2, ChangedIsSane
<1>4. Mirrored(Changed(h, h.inst, ent, h.seq))
  BY <1>1 DEF Mirrored, Changed
<1> QED BY <1>3, <1>4 DEF Good

(* A list whose instances are rewritten in their places. *)
LEMMA RewrittenComes ==
    ASSUME NEW t, NEW n, Listed(t, n), NEW s, IsSequence(s), DOMAIN s = DOMAIN t,
           \A i \in DOMAIN s : /\ IsItem(s[i]) /\ s[i].target = t[i].target
                               /\ s[i].status = t[i].status /\ s[i].seq = t[i].seq
    PROVE  /\ ComesFrom(s, t, n, n)
           /\ \A e : StatusesOf(s, e) = StatusesOf(t, e)
<1>1. ComesFrom(s, t, n, n)
  BY DEF ComesFrom, Listed
<1>2. \A e : StatusesOf(s, e) = StatusesOf(t, e)
  BY DEF StatusesOf
<1> QED BY <1>1, <1>2

(* A function of the places of a sequence is one. *)
LEMMA ReplacedIs ==
    ASSUME NEW s, IsSequence(s), NEW t, t = [i \in DOMAIN s |-> t[i]]
    PROVE  IsSequence(t) /\ DOMAIN t = DOMAIN s
<1>1. DOMAIN s = 1..Len(s) /\ Len(s) \in Nat
  BY DEF IsSequence
<1>2. t = [i \in 1..Len(s) |-> t[i]]
  BY <1>1
<1>3. t \in Seq({t[i] : i \in 1..Len(s)})
  BY <1>1, <1>2
<1> QED BY <1>1, <1>2, <1>3, SequenceIs

(* A host whose instances are rewritten in their places. *)
LEMMA Rewritten ==
    ASSUME NEW h, Sane(h), NEW s, IsSequence(s), DOMAIN s = DOMAIN h.inst,
           \A i \in DOMAIN s : /\ IsItem(s[i]) /\ s[i].target = h.inst[i].target
                               /\ s[i].status = h.inst[i].status /\ s[i].seq = h.inst[i].seq
    PROVE  /\ Sane(Changed(h, s, h.ent, h.seq))
           /\ Mirrored(h) => Mirrored(Changed(h, s, h.ent, h.seq))
           /\ \A e : StatusesOf(s, e) = StatusesOf(h.inst, e)
<1>1. Beings(h.ent) /\ h.seq \in Nat /\ Listed(h.inst, h.seq) /\ h.seq >= h.seq
  BY SaneFacts
<1>2. ComesFrom(s, h.inst, h.seq, h.seq) /\ \A e : StatusesOf(s, e) = StatusesOf(h.inst, e)
  BY <1>1, RewrittenComes
<1>3. Sane(Changed(h, s, h.ent, h.seq))
  BY <1>1, <1>2, ChangedIsSane
<1>4. Mirrored(h) => Mirrored(Changed(h, s, h.ent, h.seq))
  BY <1>2 DEF Mirrored, Changed
<1> QED BY <1>2, <1>3, <1>4

-----------------------------------------------------------------------------
(* Hits *)

(* So does the drain of a shield, whose empty instances go. *)
LEMMA DrainedIsGood ==
    ASSUME NEW h, Good(h), NEW e, NEW absorbed
    PROVE  Good(Drained(h, e, absorbed))
<1> DEFINE shields == {i \in On(h, e) : IsShield(h.inst[i].status)}
           before(i) == PointsAt(h, {j \in shields : j < i})
           reached == {i \in shields : before(i) < absorbed}
           left(i) == h.inst[i].shield - Lesser(h.inst[i].shield, absorbed - before(i))
           s == [i \in DOMAIN h.inst |-> IF i \in reached THEN [h.inst[i] EXCEPT !.shield = left(i)] ELSE h.inst[i]]
           d == [h EXCEPT !.inst = s]
           empty == {i \in reached : left(i) = 0}
<1>1. Drained(h, e, absorbed) = IF empty = {} THEN d ELSE Filtered(d, empty)
  BY DEF Drained
<1> HIDE DEF reached, left
<1>2. Sane(h) /\ Mirrored(h) /\ IsHost(h) /\ IsSequence(h.inst) /\ \A i \in DOMAIN h.inst : IsItem(h.inst[i])
  BY SaneFacts DEF Good
<1>3. DOMAIN s = DOMAIN h.inst /\ DOMAIN s = 1..Len(h.inst) /\ Len(h.inst) \in Nat
  BY <1>2 DEF IsSequence
<1>4. IsSequence(s)
  <2>1. s \in Seq({s[i] : i \in 1..Len(h.inst)})
    <3> HIDE DEF s
    <3>1. s = [i \in 1..Len(h.inst) |-> s[i]]
      BY <1>3 DEF s
    <3> QED BY <1>3, <3>1
  <2> HIDE DEF s
  <2> QED BY <2>1, SequenceIs
<1>5. ASSUME NEW i \in DOMAIN s
      PROVE  /\ IsItem(s[i]) /\ s[i].target = h.inst[i].target
             /\ s[i].status = h.inst[i].status /\ s[i].seq = h.inst[i].seq
  <2>1. CASE i \in reached
    <3>1. s[i] = [h.inst[i] EXCEPT !.shield = left(i)] /\ IsItem(h.inst[i])
      BY <1>2, <1>3, <1>5, <2>1
    <3> HIDE DEF s
    <3> QED BY ONLY <3>1 DEF IsItem
  <2>2. CASE i \notin reached
    <3>1. s[i] = h.inst[i] /\ IsItem(h.inst[i])
      BY <1>2, <1>3, <1>5, <2>2
    <3> HIDE DEF s
    <3> QED BY ONLY <3>1
  <2> QED BY <2>1, <2>2
<1> HIDE DEF s
<1>6. d = Changed(h, s, h.ent, h.seq)
  BY ONLY <1>2 DEF IsHost, Changed
<1>7. Good(d)
  <2> HIDE DEF d
  <2> QED BY <1>2, <1>3, <1>4, <1>5, <1>6, Rewritten DEF Good
<1> HIDE DEF d, empty
<1> QED BY <1>1, <1>7, FilteredIsGood

(* What a hit spends before it is resolved. *)
LEMMA SpentIsGood ==
    ASSUME NEW h, Good(h), NEW c, NEW absorbed
    PROVE  Good(Spent(h, c, absorbed))
<1> DEFINE a == IF c[3].crit /\ Overridden(h, c[1]) THEN Consumed(h, c[1], {"critical_override"}) ELSE h
<1>1. Good(a)
  BY ConsumedIsGood
<1>2. Spent(h, c, absorbed) = IF absorbed > 0 THEN Drained(a, c[2], absorbed) ELSE a
  BY DEF Spent
<1> HIDE DEF a
<1> QED BY <1>1, <1>2, DrainedIsGood

(* An entity is written with its flags as they are. *)
LEMMA LifeWritten ==
    ASSUME NEW h, Good(h), NEW x, NEW b, x \in Entity => IsBeing(b) /\ b.flags = h.ent[x].flags
    PROVE  Good([h EXCEPT !.ent[x] = b])
<1> DEFINE ent == [h.ent EXCEPT ![x] = b]
<1>1. Sane(h) /\ IsHost(h) /\ Beings(h.ent)
  BY SaneFacts DEF Good
<1>2. [h EXCEPT !.ent[x] = b] = Changed(h, h.inst, ent, h.seq)
  BY ONLY <1>1 DEF IsHost, Changed
<1>3. Beings(ent) /\ \A e \in Entity : ent[e].flags = h.ent[e].flags
  BY <1>1 DEF Beings
<1> HIDE DEF ent
<1> QED BY <1>2, <1>3, FlagsKept

(* What a hit leaves of its source and its target. *)
LEMMA WrittenIsGood ==
    ASSUME NEW h, NEW d, Good(d), NEW c, NEW o
    PROVE  Good(Written(h, d, c, o))
<1> DEFINE b == [d.ent[c[1]] EXCEPT !.health = o.source.health]
           sourced == IF o.vamp > 0 THEN [d EXCEPT !.ent[c[1]] = b] ELSE d
           r == [sourced.ent[c[2]] EXCEPT !.health = o.target.health, !.shield = o.target.shield,
                                          !.alive = o.target.alive, !.spell = o.target.spellShield]
<1>1. Written(h, d, c, o) = IF o.immune /\ ~h.ent[c[2]].spell THEN sourced
                            ELSE [sourced EXCEPT !.ent[c[2]] = r]
  BY DEF Written
<1>2. ASSUME NEW g, Good(g), NEW x \in Entity
      PROVE  IsBeing(g.ent[x])
  BY <1>2, SaneFacts DEF Good, Beings
<1>3. Good(sourced)
  <2>1. c[1] \in Entity => IsBeing(b) /\ b.flags = d.ent[c[1]].flags
    <3>1. c[1] \in Entity => IsBeing(d.ent[c[1]])
      BY <1>2
    <3> QED BY ONLY <3>1 DEF IsBeing
  <2> HIDE DEF b
  <2>2. Good([d EXCEPT !.ent[c[1]] = b])
    BY <2>1, LifeWritten
  <2> QED BY <2>2
<1> HIDE DEF sourced
<1>4. Good([sourced EXCEPT !.ent[c[2]] = r])
  <2>1. c[2] \in Entity => IsBeing(r) /\ r.flags = sourced.ent[c[2]].flags
    <3>1. c[2] \in Entity => IsBeing(sourced.ent[c[2]])
      BY <1>2, <1>3
    <3> QED BY ONLY <3>1 DEF IsBeing
  <2> HIDE DEF r
  <2> QED BY ONLY <1>3, <2>1, LifeWritten
<1> HIDE DEF r
<1> QED BY <1>1, <1>3, <1>4

(* A whole hit, whichever hook it meets. *)
LEMMA StruckIsGood ==
    ASSUME NEW h, Good(h), NEW c
    PROVE  Good(Struck(h, c))
<1>1. Good(Spent(h, c, Taken(h, c)))
  BY SpentIsGood
<1>2. ASSUME NEW b, Good(b)
      PROVE  Good(StruckThrough(h, b, c))
  <2> DEFINE o == Result(h, c, FALSE, Hooked(b, c[2], DeathHooks) # {})
             d == IF o.prevented THEN Consumed(b, c[2], DeathHooks) ELSE b
  <2>1. StruckThrough(h, b, c) = Written(h, d, c, o)
    BY DEF StruckThrough
  <2>2. Good(d)
    BY <1>2, ConsumedIsGood
  <2> HIDE DEF o, d
  <2> QED BY <2>1, <2>2, WrittenIsGood
<1>3. /\ Good(Written(h, Consumed(h, c[2], {"spell_shield"}), c, Result(h, c, TRUE, FALSE)))
      /\ Good(Written(h, h, c, Result(h, c, FALSE, FALSE)))
      /\ Good(StruckThrough(h, Spent(h, c, Taken(h, c)), c))
  BY <1>1, <1>2, WrittenIsGood, ConsumedIsGood
<1> DEFINE warded == c[3].spell /\ Hooked(h, c[2], {"spell_shield"}) # {}
           immune == Immune(Combatant(h, c[2]))
<1>4. Struck(h, c) \in {Written(h, Consumed(h, c[2], {"spell_shield"}), c, Result(h, c, TRUE, FALSE)),
                        Written(h, h, c, Result(h, c, FALSE, FALSE)),
                        StruckThrough(h, Spent(h, c, Taken(h, c)), c)}
  BY DEF Struck
<1> QED BY ONLY <1>3, <1>4

-----------------------------------------------------------------------------
(* Statuses *)

(* An instance with the next number. *)
LEMMA AppendComes ==
    ASSUME NEW s, NEW n \in Nat, Listed(s, n), NEW x, IsItem(x), x.seq = n + 1
    PROVE  /\ ComesFrom(Append(s, x), s, n, n + 1)
           /\ \A e : StatusesOf(Append(s, x), e) = StatusesOf(s, e) \cup (IF x.target = e THEN {x.status} ELSE {})
<1> DEFINE a == Append(s, x)
           m == Len(s) + 1
<1>1. /\ IsSequence(a) /\ DOMAIN a = DOMAIN s \cup {m}
      /\ \A k \in DOMAIN s : a[k] = s[k] /\ k # m
      /\ a[m] = x
  BY AppendIs DEF Listed
<1> HIDE DEF a, m
<1>2. \A i \in DOMAIN s : IsItem(s[i]) /\ s[i].seq \in 1..n
  BY DEF Listed
<1>3. \A i, j \in DOMAIN s : s[i].seq = s[j].seq => i = j
  BY DEF Listed
<1>4. \A k \in 1..n : k # n + 1
  OBVIOUS
<1>5. n + 1 \in (n + 1)..(n + 1)
  OBVIOUS
<1>6. \A i \in DOMAIN a : /\ IsItem(a[i])
                          /\ \/ a[i].seq \in (n + 1)..(n + 1)
                             \/ \E j \in DOMAIN s : a[i].seq = s[j].seq /\ a[i].target = s[j].target
  BY ONLY <1>1, <1>2, <1>5, IsItem(x), x.seq = n + 1
<1>7. \A i, j \in DOMAIN a : a[i].seq = a[j].seq => i = j
  BY ONLY <1>1, <1>2, <1>3, <1>4, x.seq = n + 1
<1>8. ASSUME NEW e
      PROVE  StatusesOf(a, e) = StatusesOf(s, e) \cup (IF x.target = e THEN {x.status} ELSE {})
  BY <1>1 DEF StatusesOf
<1> QED
  BY <1>1, <1>6, <1>7, <1>8 DEF ComesFrom, a

(* The entities when one of them is marked. *)
MarkedEnt(f, x, s, shield) == [f.ent EXCEPT ![x] = [f.ent[x] EXCEPT !.flags = f.ent[x].flags \cup {s}, !.shield = shield]]

(* Marking an entity changes the entities only. *)
LEMMA MarkedIs ==
    ASSUME NEW f, IsHost(f), Beings(f.ent), NEW x, NEW s, NEW shield
    PROVE  /\ Marked(f, x, s, shield) = Changed(f, f.inst, MarkedEnt(f, x, s, shield), f.seq)
           /\ Beings(MarkedEnt(f, x, s, shield))
           /\ \A e \in Entity : MarkedEnt(f, x, s, shield)[e].flags
                                 = IF e = x THEN f.ent[e].flags \cup {s} ELSE f.ent[e].flags
<1> DEFINE flags == f.ent[x].flags \cup {s}
           b == [f.ent[x] EXCEPT !.flags = flags, !.shield = shield]
           ent == [f.ent EXCEPT ![x] = b]
<1>1. Marked(f, x, s, shield) = [f EXCEPT !.ent = ent]
  BY DEF IsHost, Beings, Marked
<1>2. x \in Entity => IsBeing(b) /\ b.flags = flags
  <2>1. x \in Entity => IsBeing(f.ent[x])
    BY DEF Beings
  <2> HIDE DEF flags
  <2> QED BY ONLY <2>1 DEF IsBeing
<1>3. MarkedEnt(f, x, s, shield) = ent
  BY DEF MarkedEnt
<1> HIDE DEF b
<1>4. Beings(ent) /\ \A e \in Entity : ent[e].flags = IF e = x THEN flags ELSE f.ent[e].flags
  BY <1>2 DEF Beings
<1> HIDE DEF ent
<1>5. [f EXCEPT !.ent = ent] = Changed(f, f.inst, ent, f.seq)
  BY ONLY IsHost(f) DEF IsHost, Changed
<1> QED BY <1>1, <1>3, <1>4, <1>5

(* A host with an instance more is the host with the longer list. *)
LEMMA AppendedIs ==
    ASSUME NEW f, IsHost(f), NEW x
    PROVE  Appended(f, x) = Changed(f, Append(f.inst, x), f.ent, f.seq + 1)
<1> DEFINE s == Append(f.inst, x)
           n == f.seq + 1
<1>1. Appended(f, x) = [f EXCEPT !.inst = s, !.seq = n]
  BY DEF Appended
<1> HIDE DEF s, n
<1>2. [f EXCEPT !.inst = s, !.seq = n] = Changed(f, s, f.ent, n)
  <2> DEFINE g == [f EXCEPT !.inst = s]
  <2>1. [f EXCEPT !.inst = s, !.seq = n] = [g EXCEPT !.seq = n]
    OBVIOUS
  <2>2. g = Changed(f, s, f.ent, f.seq)
    BY ONLY IsHost(f) DEF IsHost, Changed
  <2> HIDE DEF g
  <2>3. IsHost(g) /\ g.inst = s /\ g.ent = f.ent /\ Changed(g, s, f.ent, n) = Changed(f, s, f.ent, n)
    BY <2>2 DEF Changed, IsHost
  <2>4. [g EXCEPT !.seq = n] = Changed(g, s, f.ent, n)
    BY ONLY <2>3 DEF IsHost, Changed
  <2> QED BY <2>1, <2>3, <2>4
<1> QED BY <1>1, <1>2 DEF s, n

(* An instance is added, and its entity marked. *)
LEMMA AddedIsGood ==
    ASSUME NEW h, Good(h), NEW x, IsItem(x), x.seq = h.seq + 1, NEW ent, Beings(ent),
           \A e \in Entity : ent[e].flags = IF e = x.target THEN h.ent[e].flags \cup {x.status} ELSE h.ent[e].flags
    PROVE  Good(Changed(h, Append(h.inst, x), ent, h.seq + 1))
<1> DEFINE g == Changed(h, Append(h.inst, x), ent, h.seq + 1)
<1>1. Sane(h) /\ \A e \in Entity : h.ent[e].flags = StatusesOf(h.inst, e)
  BY DEF Good, Mirrored
<1>2. h.seq \in Nat /\ Listed(h.inst, h.seq) /\ h.seq + 1 \in Nat /\ h.seq + 1 >= h.seq
  BY <1>1, SaneFacts
<1>3. /\ ComesFrom(Append(h.inst, x), h.inst, h.seq, h.seq + 1)
      /\ \A e : StatusesOf(Append(h.inst, x), e) = StatusesOf(h.inst, e) \cup (IF x.target = e THEN {x.status} ELSE {})
  BY <1>2, AppendComes
<1>4. Sane(g)
  BY <1>1, <1>2, <1>3, ChangedIsSane
<1> DEFINE a == Append(h.inst, x)
<1>5. g.ent = ent /\ g.inst = a
  BY DEF Changed
<1>6. \A e : StatusesOf(a, e) = StatusesOf(h.inst, e) \cup (IF x.target = e THEN {x.status} ELSE {})
  BY <1>3
<1> HIDE DEF g, a
<1>7. ASSUME NEW e \in Entity
      PROVE  ent[e].flags = StatusesOf(a, e)
  <2>0. StatusesOf(a, e) = StatusesOf(h.inst, e) \cup (IF x.target = e THEN {x.status} ELSE {})
    BY ONLY <1>6
  <2>1. CASE e = x.target
    <3>1. ent[e].flags = StatusesOf(h.inst, e) \cup {x.status}
      BY <1>1, <2>1
    <3> QED BY ONLY <2>0, <2>1, <3>1
  <2>2. CASE e # x.target
    <3>1. ent[e].flags = StatusesOf(h.inst, e)
      BY <1>1, <2>2
    <3> QED BY ONLY <2>0, <2>2, <3>1
  <2> QED BY <2>1, <2>2
<1>8. Mirrored(g)
  BY <1>5, <1>7 DEF Mirrored
<1> QED BY <1>4, <1>8 DEF Good, g

(* Of two changes of the same the second counts. *)
LEMMA ChangedTwice ==
    ASSUME NEW h, NEW inst, NEW ent, NEW seq, NEW g, g = Changed(h, inst, ent, seq)
    PROVE  /\ \A s, b, n : Changed(g, s, b, n) = Changed(h, s, b, n)
           /\ g.inst = inst /\ g.ent = ent /\ g.seq = seq /\ g.snaps = h.snaps
           /\ IsHost(g)
BY DEF Changed, IsHost

(* A status applied is refreshed or gets an instance, and a flag either way. *)
LEMMA AppliedIsGood ==
    ASSUME NEW h, Good(h), NEW c
    PROVE  Good(Applied(h, c))
<1> DEFINE s == c[1]
           owner == c[2]
           e == c[3]
           due == h.tick + Lasting(e, s, c[5])
           r == IF Policy[s].refresh = "replace"
                THEN Filtered(h, {i \in On(h, e) : h.inst[i].status = s}) ELSE h
           same == {i \in On(r, e) : r.inst[i].status = s /\ r.inst[i].owner = owner}
           first == Min(same)
           fresh == [target |-> e, status |-> s, owner |-> owner, seq |-> h.seq + 1, applied |-> h.tick,
                     stacks |-> Lesser(MaxStacks(s), c[4]), due |-> due, shield |-> 0]
           shield == h.ent[e].shield
           marked == Marked(r, e, s, shield)
           stacks == Lesser(MaxStacks(s), marked.inst[first].stacks + c[4])
           inst == [marked.inst EXCEPT ![first].stacks = stacks, ![first].due = due]
<1>1. Good(r) /\ r.seq = h.seq
  BY FilteredIsGood
<1>2. \/ same # {} /\ Applied(h, c) = [marked EXCEPT !.inst = inst]
      \/ same = {} /\ Applied(h, c) = Appended(marked, fresh)
  <2> HIDE DEF r
  <2>1. [marked EXCEPT !.inst[first].stacks = Lesser(MaxStacks(s), @ + c[4]), !.inst[first].due = due]
          = [marked EXCEPT !.inst = inst]
    OBVIOUS
  <2>2. Applied(h, c) = IF same # {}
                        THEN [marked EXCEPT !.inst[first].stacks = Lesser(MaxStacks(s), @ + c[4]), !.inst[first].due = due]
                        ELSE Appended(marked, fresh)
    BY DEF Applied, r
  <2> HIDE DEF same, fresh, marked, due
  <2> QED BY ONLY <2>1, <2>2
<1> HIDE DEF r
<1>3. Sane(r) /\ Mirrored(r) /\ IsHost(r) /\ Beings(r.ent) /\ r.seq \in Nat /\ Listed(r.inst, r.seq)
  BY <1>1, SaneFacts DEF Good
<1> DEFINE ent == MarkedEnt(r, e, s, shield)
<1>4. /\ marked = Changed(r, r.inst, ent, r.seq)
      /\ Beings(ent)
      /\ \A x \in Entity : ent[x].flags = IF x = e THEN r.ent[x].flags \cup {s} ELSE r.ent[x].flags
  BY ONLY <1>3, MarkedIs
<1> HIDE DEF ent
<1> HIDE DEF marked
<1>5. /\ marked.inst = r.inst /\ marked.seq = r.seq /\ marked.ent = ent /\ IsHost(marked)
      /\ \A t, b, n : Changed(marked, t, b, n) = Changed(r, t, b, n)
  BY <1>4, ChangedTwice
<1>6. ASSUME same = {}
      PROVE  Good(Appended(marked, fresh))
  <2>1. IsItem(fresh) /\ fresh.seq = r.seq + 1 /\ fresh.target = e /\ fresh.status = s
    BY <1>1 DEF IsItem
  <2> HIDE DEF fresh
  <2>2. Appended(marked, fresh) = Changed(r, Append(r.inst, fresh), ent, r.seq + 1)
    <3>1. Appended(marked, fresh) = Changed(marked, Append(marked.inst, fresh), marked.ent, marked.seq + 1)
      BY ONLY <1>5, AppendedIs
    <3> QED BY ONLY <1>5, <3>1
  <2>3. \A x \in Entity : ent[x].flags = IF x = fresh.target THEN r.ent[x].flags \cup {fresh.status} ELSE r.ent[x].flags
    BY <1>4, <2>1
  <2>4. Good(Changed(r, Append(r.inst, fresh), ent, r.seq + 1))
    BY ONLY <1>1, <1>4, <2>1, <2>3, AddedIsGood
  <2> QED BY <2>2, <2>4
<1>7. ASSUME same # {}
      PROVE  Good([marked EXCEPT !.inst = inst])
  <2> HIDE DEF stacks, due, first
  <2>1. [marked EXCEPT !.inst = inst] = Changed(r, inst, ent, r.seq)
    <3> HIDE DEF inst
    <3> QED BY ONLY <1>4 DEF Changed
  <2>2. IsSequence(r.inst) /\ \A i \in DOMAIN r.inst : IsItem(r.inst[i])
    BY <1>3 DEF Listed
  <2>3. \A i \in DOMAIN inst : /\ IsItem(inst[i]) /\ inst[i].target = r.inst[i].target
                               /\ inst[i].status = r.inst[i].status /\ inst[i].seq = r.inst[i].seq
    BY ONLY <1>5, <2>2 DEF IsItem
  <2>4. DOMAIN inst = DOMAIN r.inst /\ IsSequence(inst)
    BY ONLY <1>5, <2>2, ReplacedIs
  <2> HIDE DEF inst
  <2>5. ComesFrom(inst, r.inst, r.seq, r.seq) /\ \A x : StatusesOf(inst, x) = StatusesOf(r.inst, x)
    BY <1>3, <2>3, <2>4, RewrittenComes
  <2>7. s \in StatusesOf(r.inst, e)
    BY <1>7 DEF StatusesOf, On
  <2>8. ASSUME NEW x \in Entity
        PROVE  ent[x].flags = StatusesOf(inst, x)
    <3>1. StatusesOf(inst, x) = StatusesOf(r.inst, x)
      BY ONLY <2>5
    <3>2. r.ent[x].flags = StatusesOf(r.inst, x)
      BY <1>3 DEF Mirrored
    <3>3. ent[x].flags = IF x = e THEN r.ent[x].flags \cup {s} ELSE r.ent[x].flags
      BY ONLY <1>4, x \in Entity
    <3> QED BY ONLY <2>7, <3>1, <3>2, <3>3
  <2> DEFINE g == Changed(r, inst, ent, r.seq)
  <2>9. Sane(g)
    BY <1>3, <1>4, <2>5, ChangedIsSane
  <2>10. g.ent = ent /\ g.inst = inst
    BY DEF Changed
  <2> HIDE DEF g
  <2>11. Good(g)
    BY <2>8, <2>9, <2>10 DEF Good, Mirrored
  <2> QED BY <2>1, <2>11 DEF g
<1> HIDE DEF same, fresh, stacks, due, first
<1> QED BY ONLY <1>2, <1>6, <1>7

(* Two instances that differ in what gives no status. *)
Alike(i, j) == IsItem(i) /\ i.target = j.target /\ i.status = j.status /\ i.seq = j.seq

(* No operation changes the entity, the status or the number of an instance. *)
LEMMA OperatedIs ==
    ASSUME NEW h, NEW i, IsItem(i), NEW s, NEW op, NEW value
    PROVE  Alike(Shortened(h, s, i), i) /\ Alike(Operated(h, i, op, value), i)
<1>1. \A x : Alike([i EXCEPT !.due = x], i) /\ Alike([i EXCEPT !.stacks = x], i)
  BY DEF Alike, IsItem
<1>2. Alike(i, i)
  BY DEF Alike
<1>3. Alike(Shortened(h, s, i), i)
  BY <1>1, <1>2 DEF Shortened
<1> DEFINE left == AtLeast0(i.due - h.tick)
           stacks(n) == Lesser(MaxStacks(i.status), AtLeast0(n))
           d1 == h.tick + Greater(1, left + value)
           d2 == h.tick + Greater(1, value)
           d3 == h.tick + Greater(1, ScaleBasisPoints(left, value))
           d4 == h.tick + Greater(1, i.due - i.applied)
           s1 == stacks(i.stacks + value)
           s2 == stacks(value)
<1>4. Operated(h, i, op, value) \in {[i EXCEPT !.stacks = s1], [i EXCEPT !.stacks = s2], [i EXCEPT !.due = d1],
                                     [i EXCEPT !.due = d2], [i EXCEPT !.due = d3], [i EXCEPT !.due = d4], i}
  BY DEF Operated
<1> HIDE DEF s1, s2, d1, d2, d3, d4
<1>5. /\ Alike([i EXCEPT !.stacks = s1], i) /\ Alike([i EXCEPT !.stacks = s2], i)
      /\ Alike([i EXCEPT !.due = d1], i) /\ Alike([i EXCEPT !.due = d2], i)
      /\ Alike([i EXCEPT !.due = d3], i) /\ Alike([i EXCEPT !.due = d4], i)
  BY DEF Alike, IsItem
<1> QED BY ONLY <1>2, <1>3, <1>4, <1>5

(* The host with an instance rewritten. *)
With(h, at, i) == [h EXCEPT !.inst[at] = i]

(* Its statuses are the same. *)
LEMMA OneRewritten ==
    ASSUME NEW h, Sane(h), NEW at \in DOMAIN h.inst, NEW i, Alike(i, h.inst[at])
    PROVE  /\ Sane(With(h, at, i)) /\ (Mirrored(h) => Mirrored(With(h, at, i)))
           /\ With(h, at, i).ent = h.ent
           /\ \A e : StatusesOf(With(h, at, i).inst, e) = StatusesOf(h.inst, e)
<1> DEFINE s == [h.inst EXCEPT ![at] = i]
           g == With(h, at, i)
<1>1. IsHost(h) /\ IsSequence(h.inst) /\ \A k \in DOMAIN h.inst : IsItem(h.inst[k])
  BY SaneFacts
<1>2. g = [h EXCEPT !.inst = s]
  BY DEF With
<1> HIDE DEF g
<1>3. \A k \in DOMAIN s : /\ IsItem(s[k]) /\ s[k].target = h.inst[k].target
                          /\ s[k].status = h.inst[k].status /\ s[k].seq = h.inst[k].seq
  BY <1>1 DEF Alike
<1>4. IsSequence(s) /\ DOMAIN s = DOMAIN h.inst
  BY ONLY <1>1, ReplacedIs
<1> HIDE DEF s
<1>5. g = Changed(h, s, h.ent, h.seq)
  BY ONLY <1>1, <1>2 DEF IsHost, Changed
<1>6. g.inst = s /\ g.ent = h.ent /\ g.seq = h.seq
  BY <1>5 DEF Changed
<1> QED BY <1>1, <1>3, <1>4, <1>5, <1>6, Rewritten DEF g

(* A copy is appended before the original goes: whatever stays of the      *)
(* original, its entity and that of the copy have the flags they should.   *)
LEMMA MovedIsGood ==
    ASSUME NEW h, Good(h), NEW at \in DOMAIN h.inst, NEW i, Alike(i, h.inst[at]),
           NEW op, NEW owner, NEW to, NEW kept
    PROVE  Good(Moved(h, at, i, op, owner, to, kept))
<1> DEFINE holder == CASE kept = "original_owner" -> i.target [] kept = "new_owner" -> to [] OTHER -> owner
           copy == [i EXCEPT !.seq = h.seq + 1, !.target = to, !.applied = h.tick, !.owner = holder]
           a == Appended(h, copy)
           leaves == op = "transfer_to" \/ i.stacks = 0
           f == IF leaves THEN Filtered(a, {at}) ELSE [a EXCEPT !.inst[at] = i]
           shield == IF IsShield(i.status) THEN SaturatingAdd(f.ent[to].shield, i.shield) ELSE f.ent[to].shield
<1>1. Moved(h, at, i, op, owner, to, kept) = Marked(f, to, i.status, shield)
  BY DEF Moved
<1> HIDE DEF holder
<1>2. IsItem(copy) /\ copy.seq = h.seq + 1 /\ copy.target = to /\ copy.status = i.status
  BY DEF Alike, IsItem
<1> HIDE DEF copy, shield
<1>3. Sane(h) /\ IsHost(h) /\ Beings(h.ent) /\ h.seq \in Nat /\ Listed(h.inst, h.seq) /\ IsSequence(h.inst)
  BY SaneFacts DEF Good
<1>4. \A e \in Entity : h.ent[e].flags = StatusesOf(h.inst, e)
  BY DEF Good, Mirrored
<1> DEFINE list == Append(h.inst, copy)
<1>5. a = Changed(h, list, h.ent, h.seq + 1)
  BY <1>3, AppendedIs
<1>6. /\ ComesFrom(list, h.inst, h.seq, h.seq + 1)
      /\ \A e : StatusesOf(list, e) = StatusesOf(h.inst, e) \cup (IF copy.target = e THEN {copy.status} ELSE {})
  BY <1>2, <1>3, AppendComes
<1>7. /\ DOMAIN list = DOMAIN h.inst \cup {Len(h.inst) + 1} /\ list[Len(h.inst) + 1] = copy
      /\ Len(h.inst) + 1 # at /\ list[at] = h.inst[at]
  BY <1>3, AppendIs
<1> HIDE DEF list
<1>8. Sane(a) /\ a.inst = list /\ a.ent = h.ent
  <2>1. h.seq + 1 \in Nat /\ h.seq + 1 >= h.seq
    BY <1>3
  <2> HIDE DEF a
  <2> QED BY <1>3, <1>5, <1>6, <2>1, ChangedIsSane, ChangedTwice
<1> HIDE DEF a, leaves
<1>9. /\ Sane(f)
      /\ \A e \in Entity : f.ent[e].flags \cup (IF e = to THEN {i.status} ELSE {}) = StatusesOf(f.inst, e)
  <2>1. CASE leaves
    <3> DEFINE g == Filtered(a, {at})
               rest == Leaving(list, {at})
    <3>1. /\ Sane(g) /\ g.inst = rest
          /\ \A e \in Entity : \/ g.ent[e].flags = StatusesOf(rest, e)
                               \/ g.ent[e].flags = h.ent[e].flags /\ StatusesOf(rest, e) = StatusesOf(list, e)
      BY <1>8, FilteredIsSane
    <3>2. i.status \in StatusesOf(rest, to)
      <4>1. StatusesOf(rest, to) = {list[k].status : k \in {j \in DOMAIN list : list[j].target = to} \ {at}}
        <5>1. Listed(list, a.seq)
          BY <1>8, SaneFacts
        <5>2. /\ ComesFrom(Leaving(list, {at}), list, a.seq, a.seq)
              /\ \A e : StatusesOf(Leaving(list, {at}), e)
                          = {list[k].status : k \in {j \in DOMAIN list : list[j].target = e} \ {at}}
          BY ONLY <5>1, LeavingComes
        <5> QED BY <5>2
      <4>2. Len(h.inst) + 1 \in {j \in DOMAIN list : list[j].target = to} \ {at} /\ list[Len(h.inst) + 1].status = i.status
        BY <1>2, <1>7
      <4> HIDE DEF rest
      <4> QED BY <4>1, <4>2
    <3>3. f = g
      BY <2>1
    <3> HIDE DEF f, g, rest
    <3>4. ASSUME NEW e \in Entity
          PROVE  g.ent[e].flags \cup (IF e = to THEN {i.status} ELSE {}) = StatusesOf(rest, e)
      <4>1. CASE g.ent[e].flags = StatusesOf(rest, e)
        BY <3>2, <4>1
      <4>2. CASE g.ent[e].flags = h.ent[e].flags /\ StatusesOf(rest, e) = StatusesOf(list, e)
        BY <1>2, <1>4, <1>6, <4>2
      <4> QED BY <3>1, <4>1, <4>2
    <3> QED BY <3>1, <3>3, <3>4
  <2>2. CASE ~leaves
    <3>1. f = With(a, at, i)
      BY <2>2 DEF With
    <3>2. at \in DOMAIN a.inst /\ Alike(i, a.inst[at])
      BY <1>7, <1>8
    <3> HIDE DEF f
    <3>3. Sane(f) /\ f.ent = a.ent /\ \A e : StatusesOf(f.inst, e) = StatusesOf(a.inst, e)
      BY ONLY <1>8, <3>1, <3>2, OneRewritten
    <3>4. ASSUME NEW e \in Entity
          PROVE  f.ent[e].flags \cup (IF e = to THEN {i.status} ELSE {}) = StatusesOf(f.inst, e)
      <4>1. StatusesOf(f.inst, e) = StatusesOf(list, e) /\ f.ent[e].flags = StatusesOf(h.inst, e)
        BY <1>4, <1>8, <3>3
      <4> QED BY ONLY <1>2, <1>6, <4>1
    <3> QED BY <3>3, <3>4
  <2> QED BY <2>1, <2>2
<1> HIDE DEF f
<1>10. IsHost(f) /\ Beings(f.ent) /\ f.seq \in Nat /\ ComesFrom(f.inst, f.inst, f.seq, f.seq) /\ f.seq >= f.seq
  BY <1>9, SaneFacts
<1> DEFINE ent == MarkedEnt(f, to, i.status, shield)
           g == Marked(f, to, i.status, shield)
<1>11. /\ g = Changed(f, f.inst, ent, f.seq) /\ Beings(ent)
       /\ \A e \in Entity : ent[e].flags = IF e = to THEN f.ent[e].flags \cup {i.status} ELSE f.ent[e].flags
  BY ONLY <1>10, MarkedIs
<1> HIDE DEF ent, g
<1>12. Sane(g)
  BY <1>9, <1>10, <1>11, ChangedIsSane
<1>13. g.ent = ent /\ g.inst = f.inst
  BY <1>11, ChangedTwice
<1>14. Mirrored(g)
  BY <1>9, <1>11, <1>13 DEF Mirrored
<1> QED BY <1>1, <1>12, <1>14 DEF Good, g

(* Any operation on an instance. *)
LEMMA ModifiedIsGood ==
    ASSUME NEW h, Good(h), NEW at \in DOMAIN h.inst, NEW m
    PROVE  Good(InstanceModified(h, at, m))
<1> DEFINE i == Shortened(h, h.inst[at].status, h.inst[at])
           o == Shortened(h, i.status, Operated(h, i, m[1], m[3]))
<1>1. InstanceModified(h, at, m) = IF m[1] \in Moves THEN Moved(h, at, o, m[1], m[2], m[4], m[5])
                                   ELSE IF m[1] = "remove" \/ o.stacks = 0 THEN Filtered(h, {at})
                                   ELSE [h EXCEPT !.inst[at] = o]
  BY DEF InstanceModified
<1>2. IsItem(h.inst[at])
  BY SaneFacts DEF Good
<1>3. Alike(i, h.inst[at])
  BY <1>2, OperatedIs
<1> HIDE DEF i
<1>4. Alike(Operated(h, i, m[1], m[3]), i) /\ IsItem(Operated(h, i, m[1], m[3]))
  BY <1>3, OperatedIs DEF Alike
<1>5. Alike(o, Operated(h, i, m[1], m[3]))
  BY <1>4, OperatedIs
<1> HIDE DEF o
<1>6. Alike(o, h.inst[at])
  BY ONLY <1>3, <1>4, <1>5 DEF Alike
<1>7. Good(Moved(h, at, o, m[1], m[2], m[4], m[5])) /\ Good(Filtered(h, {at}))
  BY <1>6, MovedIsGood, FilteredIsGood
<1>8. Good(With(h, at, o))
  BY <1>6, OneRewritten DEF Good
<1> QED BY ONLY <1>1, <1>7, <1>8 DEF With

-----------------------------------------------------------------------------
(* Snapshots *)

(* A host is as good with another clock, other modifiers, fewer snapshots  *)
(* and snapshots of what it is.                                            *)
LEMMA RecordedIsGood ==
    ASSUME NEW h, Good(h), NEW g, IsHost(g), g.inst = h.inst, g.ent = h.ent, g.seq \in Nat, g.seq >= h.seq,
           \A k \in DOMAIN g.snaps :
              \/ k \in DOMAIN h.snaps /\ g.snaps[k] = h.snaps[k]
              \/ /\ IsSnapshot(g.snaps[k]) /\ Faithful(g.snaps[k])
                 /\ ComesFrom(g.snaps[k].inst, h.inst, h.seq, h.seq)
    PROVE  Good(g)
<1>1. Sane(h) /\ Mirrored(h) /\ h.seq \in Nat /\ Beings(h.ent)
  BY SaneFacts DEF Good
<1>2. \A t \in InstanceLists(h) : Listed(t, h.seq)
  BY <1>1 DEF Sane, Numbered
<1>3. \A t, u \in InstanceLists(h) : Agree(t, u)
  BY <1>1 DEF Sane, Numbered
<1>4. h.inst \in InstanceLists(h) /\ \A t \in InstanceLists(g) :
        t \in InstanceLists(h) \/ ComesFrom(t, h.inst, h.seq, h.seq)
  BY DEF InstanceLists
<1>5. \A t \in InstanceLists(g) :
        /\ IsSequence(t)
        /\ \A i \in DOMAIN t : /\ IsItem(t[i])
                               /\ \E u \in InstanceLists(h) : \E j \in DOMAIN u : t[i].seq = u[j].seq /\ t[i].target = u[j].target
        /\ \A i, j \in DOMAIN t : t[i].seq = t[j].seq => i = j
  <2> TAKE t \in InstanceLists(g)
  <2>1. CASE t \in InstanceLists(h)
    BY <1>2, <2>1 DEF Listed
  <2>2. CASE ComesFrom(t, h.inst, h.seq, h.seq)
    <3>1. \A x : x \notin (h.seq + 1)..h.seq
      BY <1>1
    <3> QED BY <1>4, <2>2, <3>1 DEF ComesFrom
  <2> QED BY <1>4, <2>1, <2>2
<1>6. \A x \in 1..h.seq : x \in 1..g.seq
  BY ONLY <1>1, g.seq \in Nat, g.seq >= h.seq
<1>7. \A t \in InstanceLists(g) : Listed(t, g.seq)
  BY <1>2, <1>5, <1>6 DEF Listed
<1>8. \A t, u \in InstanceLists(g) : Agree(t, u)
  BY <1>3, <1>5 DEF Agree
<1>9. \A k \in DOMAIN g.snaps : IsSnapshot(g.snaps[k]) /\ Faithful(g.snaps[k])
  BY <1>1 DEF Sane, Shaped
<1>10. Sane(g)
  BY <1>1, <1>7, <1>8, <1>9 DEF Sane, Shaped, Numbered
<1> QED BY <1>1, <1>10 DEF Good, Mirrored

(* A host whose list is drawn from the list and the snapshots is sane. *)
LEMMA DrawnIsSane ==
    ASSUME NEW h, Sane(h), NEW s, IsSequence(s), NEW ent, Beings(ent),
           \A i \in DOMAIN s : /\ IsItem(s[i])
                               /\ \E t \in InstanceLists(h) : \E j \in DOMAIN t :
                                    s[i].seq = t[j].seq /\ s[i].target = t[j].target,
           \A i, j \in DOMAIN s : s[i].seq = s[j].seq => i = j
    PROVE  Sane(Changed(h, s, ent, h.seq))
<1> DEFINE g == Changed(h, s, ent, h.seq)
<1>1. g.inst = s /\ g.snaps = h.snaps /\ g.ent = ent /\ g.seq = h.seq /\ IsHost(g)
  BY DEF Changed, IsHost
<1> HIDE DEF g
<1>2. Shaped(g)
  BY <1>1 DEF Sane, Shaped
<1>3. h.seq \in Nat /\ \A t \in InstanceLists(h) : Listed(t, h.seq)
  BY DEF Sane, Numbered
<1>4. \A t, u \in InstanceLists(h) : Agree(t, u)
  BY DEF Sane, Numbered
<1>5. \A t \in InstanceLists(g) : t = s \/ t \in InstanceLists(h)
  BY <1>1 DEF InstanceLists
<1>6. Listed(s, h.seq)
  BY <1>3 DEF Listed
<1>7. \A t \in InstanceLists(h) : Agree(s, t) /\ Agree(t, s)
  BY <1>4 DEF Agree
<1>8. Agree(s, s)
  BY DEF Agree
<1>9. \A t, u \in InstanceLists(g) : Agree(t, u)
  BY <1>4, <1>5, <1>7, <1>8
<1> QED
  BY <1>1, <1>2, <1>3, <1>5, <1>6, <1>9 DEF Sane, Numbered, g

(* A rewind of statuses takes the instances of an entity, and gives it     *)
(* those of the snapshot with their flags; numbers stay apart because the  *)
(* instances of other entities have others.                                *)
LEMMA RewoundIsGood ==
    ASSUME NEW h, Good(h), NEW k \in DOMAIN h.snaps
    PROVE  Good(Rewound(h, k))
<1> DEFINE e == h.snaps[k].target
           was == h.snaps[k].ent
           at == IF was.pos \notin DOMAIN Unwalkable THEN was.pos
                 ELSE IF Profile.blocked = "nearest" THEN Unwalkable[was.pos] ELSE h.ent[e].pos
           pos == IF "position" \in Profile.fields THEN at ELSE h.ent[e].pos
           health == IF "health" \in Profile.fields THEN was.health ELSE h.ent[e].health
           alive == IF "health" \in Profile.fields THEN was.alive ELSE h.ent[e].alive
           flags == IF "statuses" \in Profile.fields THEN was.flags ELSE h.ent[e].flags
           r == [h.ent[e] EXCEPT !.pos = pos, !.health = health, !.alive = alive, !.flags = flags]
           rest == Leaving(h.inst, On(h, e))
           old == h.snaps[k].inst
           list == IF "statuses" \in Profile.fields THEN rest \o old ELSE h.inst
           ent == [h.ent EXCEPT ![e] = r]
<1>1. Rewound(h, k) = [h EXCEPT !.ent = ent, !.inst = list]
  BY DEF Rewound
<1>2. Sane(h) /\ IsHost(h) /\ Beings(h.ent) /\ Listed(h.inst, h.seq) /\ IsSequence(h.inst) /\ h.seq \in Nat
  BY SaneFacts DEF Good
<1>3. \A x \in Entity : h.ent[x].flags = StatusesOf(h.inst, x)
  BY DEF Good, Mirrored
<1>4. e \in Entity => IsBeing(r) /\ r.flags = flags
  <2>1. e \in Entity => IsBeing(h.ent[e])
    BY <1>2 DEF Beings
  <2> HIDE DEF pos, health, alive, flags, e
  <2> QED BY ONLY <2>1 DEF IsBeing
<1> HIDE DEF r, list
<1>5. /\ Beings(ent)
      /\ \A x \in Entity : ent[x].flags = IF x = e THEN flags ELSE h.ent[x].flags
  <2> HIDE DEF flags, e
  <2> QED BY <1>2, <1>4 DEF Beings
<1> HIDE DEF ent
<1>6. [h EXCEPT !.ent = ent, !.inst = list] = Changed(h, list, ent, h.seq)
  <2> DEFINE d == [h EXCEPT !.ent = ent]
  <2>1. [h EXCEPT !.ent = ent, !.inst = list] = [d EXCEPT !.inst = list]
    OBVIOUS
  <2>2. d = Changed(h, h.inst, ent, h.seq)
    BY ONLY <1>2 DEF IsHost, Changed
  <2> HIDE DEF d
  <2>3. IsHost(d) /\ d.ent = ent /\ d.seq = h.seq /\ Changed(d, list, ent, h.seq) = Changed(h, list, ent, h.seq)
    BY <2>2 DEF Changed, IsHost
  <2>4. [d EXCEPT !.inst = list] = Changed(d, list, ent, h.seq)
    BY ONLY <2>3 DEF IsHost, Changed
  <2> QED BY <2>1, <2>3, <2>4
<1> DEFINE g == Changed(h, list, ent, h.seq)
<1>7. g.ent = ent /\ g.inst = list
  BY DEF Changed
<1> HIDE DEF g
<1>8. CASE "statuses" \notin Profile.fields
  <2>1. list = h.inst /\ flags = h.ent[e].flags
    BY <1>8 DEF list
  <2>2. \A x \in Entity : ent[x].flags = h.ent[x].flags
    <3>1. flags = h.ent[e].flags
      BY <2>1
    <3>2. \A x \in Entity : ent[x].flags = IF x = e THEN flags ELSE h.ent[x].flags
      BY <1>5
    <3> HIDE DEF flags, e
    <3> TAKE x \in Entity
    <3>3. ent[x].flags = IF x = e THEN flags ELSE h.ent[x].flags
      BY ONLY <3>2, x \in Entity
    <3>4. CASE x = e
      BY ONLY <3>1, <3>3, <3>4
    <3>5. CASE x # e
      BY ONLY <3>3, <3>5
    <3> QED BY <3>4, <3>5
  <2> QED BY <1>1, <1>5, <1>6, <2>1, <2>2, FlagsKept
<1>9. CASE "statuses" \in Profile.fields
  <2>1. list = rest \o old /\ flags = was.flags
    BY <1>9 DEF list
  <2>2. /\ h.inst \in InstanceLists(h) /\ old \in InstanceLists(h)
        /\ Faithful(h.snaps[k]) /\ Listed(old, h.seq) /\ Agree(h.inst, old)
    <3>1. h.inst \in InstanceLists(h) /\ old \in InstanceLists(h)
      BY DEF InstanceLists
    <3> HIDE DEF old
    <3> QED BY <1>2, <3>1 DEF Sane, Numbered
  <2>3. /\ \A i \in DOMAIN old : old[i].target = e
        /\ e \in Entity => flags = StatusesOf(old, e)
    BY <1>9, <2>1, <2>2 DEF Faithful
  <2>4. /\ ComesFrom(rest, h.inst, h.seq, h.seq)
        /\ \A x : StatusesOf(rest, x) = {h.inst[i].status : i \in {j \in DOMAIN h.inst : h.inst[j].target = x} \ On(h, e)}
        /\ \A n \in DOMAIN rest : \E i \in DOMAIN h.inst \ On(h, e) : rest[n] = h.inst[i]
    <3> HIDE DEF e
    <3> QED BY ONLY <1>2, LeavingComes
  <2>5. \A n \in DOMAIN rest : /\ rest[n].target # e /\ IsItem(rest[n])
                               /\ \E i \in DOMAIN h.inst : rest[n] = h.inst[i]
    <3> HIDE DEF e, rest
    <3> QED BY <2>4 DEF On, ComesFrom
  <2>6. \A i, j \in DOMAIN rest : rest[i].seq = rest[j].seq => i = j
    <3> HIDE DEF rest
    <3> QED BY <2>4 DEF ComesFrom
  <2>7. IsSequence(rest) /\ IsSequence(old)
    <3> HIDE DEF rest, old
    <3> QED BY <2>2, <2>4 DEF ComesFrom, Listed
  <2> HIDE DEF rest, old, e
  <2>8. /\ IsSequence(list)
        /\ \A n \in DOMAIN list : \/ n \in DOMAIN rest /\ list[n] = rest[n]
                                  \/ \E j \in DOMAIN old : n = Len(rest) + j /\ list[n] = old[j]
        /\ \A n \in DOMAIN rest : n \in DOMAIN list /\ list[n] = rest[n]
        /\ \A j \in DOMAIN old : Len(rest) + j \in DOMAIN list /\ list[Len(rest) + j] = old[j]
    BY ONLY <2>1, <2>7, ConcatIs
  <2>9. \A n \in DOMAIN list : /\ IsItem(list[n])
                               /\ \E t \in InstanceLists(h) : \E j \in DOMAIN t :
                                    list[n].seq = t[j].seq /\ list[n].target = t[j].target
    <3> TAKE n \in DOMAIN list
    <3>1. CASE n \in DOMAIN rest /\ list[n] = rest[n]
      BY <2>2, <2>5, <3>1
    <3>2. CASE \E j \in DOMAIN old : list[n] = old[j]
      BY <2>2, <3>2 DEF Listed
    <3> QED BY <2>8, <3>1, <3>2
  <2>10. \A i \in DOMAIN rest, j \in DOMAIN old : rest[i].seq # old[j].seq
    BY <2>2, <2>3, <2>5 DEF Agree
  <2>11. \A i, j \in DOMAIN old : old[i].seq = old[j].seq => i = j
    BY <2>2 DEF Listed
  <2>12. ASSUME NEW i \in DOMAIN list, NEW j \in DOMAIN list, list[i].seq = list[j].seq
         PROVE  i = j
    BY ONLY <2>6, <2>8, <2>10, <2>11, <2>12
  <2>13. Sane(g)
    BY <1>2, <1>5, <2>8, <2>9, <2>12, DrawnIsSane DEF g
  <2>14. ASSUME NEW x \in Entity
         PROVE  ent[x].flags = StatusesOf(list, x)
    <3>1. StatusesOf(list, x) = StatusesOf(rest, x) \cup StatusesOf(old, x)
      <4>1. \A n \in DOMAIN list : list[n].target = x =>
              \/ \E i \in DOMAIN rest : rest[i].target = x /\ rest[i].status = list[n].status
              \/ \E j \in DOMAIN old : old[j].target = x /\ old[j].status = list[n].status
        BY ONLY <2>8
      <4>2. /\ \A i \in DOMAIN rest : rest[i].target = x =>
                 \E n \in DOMAIN list : list[n].target = x /\ list[n].status = rest[i].status
            /\ \A j \in DOMAIN old : old[j].target = x =>
                 \E n \in DOMAIN list : list[n].target = x /\ list[n].status = old[j].status
        BY ONLY <2>8
      <4> QED BY ONLY <4>1, <4>2 DEF StatusesOf
    <3>2. CASE x = e
      <4>1. StatusesOf(rest, x) = {}
        BY <2>5, <3>2 DEF StatusesOf
      <4>2. ent[x].flags = flags
        BY <1>5, <3>2
      <4>3. flags = StatusesOf(old, x)
        BY <2>3, <3>2
      <4> QED BY ONLY <3>1, <4>1, <4>2, <4>3
    <3>3. CASE x # e
      <4>1. StatusesOf(old, x) = {}
        BY <2>3, <3>3 DEF StatusesOf
      <4>2. {j \in DOMAIN h.inst : h.inst[j].target = x} \ On(h, e) = {j \in DOMAIN h.inst : h.inst[j].target = x}
        BY <3>3 DEF On
      <4>3. StatusesOf(rest, x) = StatusesOf(h.inst, x)
        BY <2>4, <4>2 DEF StatusesOf
      <4>4. ent[x].flags = h.ent[x].flags
        BY <1>5, <3>3
      <4> QED BY ONLY <1>3, <3>1, <4>1, <4>3, <4>4
    <3> QED BY <3>2, <3>3
  <2> QED BY <1>1, <1>6, <1>7, <2>13, <2>14 DEF Good, Mirrored, g
<1> QED BY <1>8, <1>9

-----------------------------------------------------------------------------
(* Steps *)

(* The first host has no instance and no flag. *)
LEMMA FirstIsGood == Init => Good(host)
<1> SUFFICES ASSUME Init PROVE Good(host)
  OBVIOUS
<1> DEFINE b(e) == [alive |-> TRUE, health |-> Stats[e].maxHealth, shield |-> 0,
                    spell |-> Stats[e].spellShield, flags |-> {}, pos |-> 0]
           ent == [e \in Entity |-> b(e)]
<1>1. host = [tick |-> 0, seq |-> 0, token |-> 0, inst |-> <<>>, mods |-> <<>>, snaps |-> <<>>, ent |-> ent]
  BY DEF Init
<1>2. Beings(ent) /\ \A e \in Entity : ent[e].flags = {}
  BY DEF Beings, IsBeing
<1> HIDE DEF ent
<1>3. host.seq = 0 /\ host.inst = <<>> /\ host.snaps = <<>> /\ host.ent = ent /\ IsHost(host)
  BY <1>1 DEF IsHost
<1>4. DOMAIN host.inst = {} /\ DOMAIN host.snaps = {} /\ IsSequence(host.inst)
  BY <1>3 DEF IsSequence
<1>5. InstanceLists(host) = {host.inst}
  BY <1>4 DEF InstanceLists
<1>6. Sane(host)
  BY <1>2, <1>3, <1>4, <1>5 DEF Sane, Shaped, Numbered, Listed, Agree
<1>7. \A e \in Entity : StatusesOf(host.inst, e) = {}
  BY <1>4 DEF StatusesOf
<1> QED BY <1>2, <1>3, <1>6, <1>7 DEF Good, Mirrored

(* A shield granted is an instance of the status of the shields. *)
LEMMA ShieldedOk == Good(host) /\ Shielded => Good(host')
<1> SUFFICES ASSUME Good(host), Shielded PROVE Good(host')
  OBVIOUS
<1>1. PICK c \in Grant :
        LET e == c[2]
            added == AddShield(Combatant(host, e), c[3])
            i == [target |-> e, status |-> ShieldStatus, owner |-> c[1], seq |-> host.seq + 1,
                  applied |-> host.tick, stacks |-> 1, shield |-> added,
                  due |-> host.tick + ClipTo(Policy[ShieldStatus].maxDuration, c[4])]
        IN  host' = Marked(Appended(host, i), e, ShieldStatus, host.ent[e].shield + added)
  BY DEF Shielded
<1> DEFINE e == c[2]
           added == AddShield(Combatant(host, e), c[3])
           due == host.tick + ClipTo(Policy[ShieldStatus].maxDuration, c[4])
           i == [target |-> e, status |-> ShieldStatus, owner |-> c[1], seq |-> host.seq + 1,
                 applied |-> host.tick, stacks |-> 1, shield |-> added, due |-> due]
           shield == host.ent[e].shield + added
           a == Appended(host, i)
<1>2. host' = Marked(a, e, ShieldStatus, shield)
  BY <1>1
<1>3. IsItem(i) /\ i.seq = host.seq + 1 /\ i.target = e /\ i.status = ShieldStatus
  BY DEF IsItem
<1> HIDE DEF i, shield, e
<1>4. IsHost(host) /\ Beings(host.ent)
  BY SaneFacts DEF Good
<1>5. a = Changed(host, Append(host.inst, i), host.ent, host.seq + 1)
  BY ONLY <1>4, AppendedIs
<1> HIDE DEF a
<1>6. /\ a.inst = Append(host.inst, i) /\ a.seq = host.seq + 1 /\ a.ent = host.ent /\ IsHost(a)
      /\ \A t, b, n : Changed(a, t, b, n) = Changed(host, t, b, n)
  BY ONLY <1>5 DEF Changed, IsHost
<1> DEFINE ent == MarkedEnt(a, e, ShieldStatus, shield)
<1>7. /\ Marked(a, e, ShieldStatus, shield) = Changed(a, a.inst, ent, a.seq)
      /\ Beings(ent)
      /\ \A x \in Entity : ent[x].flags = IF x = e THEN a.ent[x].flags \cup {ShieldStatus} ELSE a.ent[x].flags
  <2>1. IsHost(a) /\ Beings(a.ent)
    BY <1>4, <1>6
  <2> QED BY ONLY <2>1, MarkedIs
<1> HIDE DEF ent
<1>8. \A x \in Entity : ent[x].flags = IF x = i.target THEN host.ent[x].flags \cup {i.status} ELSE host.ent[x].flags
  BY <1>3, <1>6, <1>7
<1>9. Good(Changed(host, Append(host.inst, i), ent, host.seq + 1))
  BY <1>3, <1>7, <1>8, AddedIsGood
<1> QED BY <1>2, <1>6, <1>7, <1>9

(* Healing and teleporting leave the statuses alone. *)
LEMMA LifeOk == Good(host) /\ (Healed \/ Teleport) => Good(host')
<1> SUFFICES ASSUME Good(host) PROVE Healed \/ Teleport => Good(host')
  OBVIOUS
<1>1. \A e \in Entity : IsBeing(host.ent[e])
  BY SaneFacts DEF Good, Beings
<1>2. ASSUME Healed PROVE Good(host')
  <2>1. PICK e \in Entity : host' = [host EXCEPT !.ent[e].health = ResolveHeal(Combatant(host, e), 1).health]
    BY <1>2 DEF Healed
  <2> DEFINE v == ResolveHeal(Combatant(host, e), 1).health
             b == [host.ent[e] EXCEPT !.health = v]
  <2>2. host' = [host EXCEPT !.ent[e] = b]
    <3> HIDE DEF v
    <3>1. host' = [host EXCEPT !.ent[e].health = v]
      BY <2>1 DEF v
    <3> QED BY ONLY <3>1
  <2>3. IsBeing(b) /\ b.flags = host.ent[e].flags
    <3> HIDE DEF v
    <3> QED BY ONLY <1>1, e \in Entity DEF IsBeing
  <2> HIDE DEF b
  <2>4. Good([host EXCEPT !.ent[e] = b])
    BY <2>3, LifeWritten
  <2> QED BY ONLY <2>2, <2>4
<1>3. ASSUME Teleport PROVE Good(host')
  <2>1. PICK c \in Step : host' = [host EXCEPT !.ent[c[1]].pos = c[2]]
    BY <1>3 DEF Teleport
  <2> DEFINE b == [host.ent[c[1]] EXCEPT !.pos = c[2]]
  <2>2. host' = [host EXCEPT !.ent[c[1]] = b]
    BY ONLY <2>1
  <2>3. c[1] \in Entity => IsBeing(b) /\ b.flags = host.ent[c[1]].flags
    BY ONLY <1>1 DEF IsBeing
  <2> HIDE DEF b
  <2>4. Good([host EXCEPT !.ent[c[1]] = b])
    BY <2>3, LifeWritten
  <2> QED BY ONLY <2>2, <2>4
<1> QED BY <1>2, <1>3

(* A modifier takes a number and no instance. *)
LEMMA BonusOk == Good(host) /\ ApplyAttributeModifier => Good(host')
<1> SUFFICES ASSUME Good(host), ApplyAttributeModifier PROVE Good(host')
  OBVIOUS
<1>1. IsHost(host) /\ host.seq \in Nat
  BY SaneFacts DEF Good
<1>2. PICK mods : host' = [host EXCEPT !.seq = host.seq + 1, !.mods = mods]
  BY DEF ApplyAttributeModifier
<1>3. /\ IsHost(host') /\ host'.inst = host.inst /\ host'.ent = host.ent
      /\ host'.seq = host.seq + 1 /\ host'.snaps = host.snaps
  BY ONLY <1>1, <1>2 DEF IsHost
<1>4. host'.seq \in Nat /\ host'.seq >= host.seq
  BY ONLY <1>1, <1>3
<1>5. \A k \in DOMAIN host'.snaps : k \in DOMAIN host.snaps /\ host'.snaps[k] = host.snaps[k]
  BY ONLY <1>3
<1> QED BY <1>3, <1>4, <1>5, RecordedIsGood

(* Time takes what is due, and the snapshots that are too old. *)
LEMMA HostAdvanceOk == Good(host) /\ Advance => Good(host')
<1> SUFFICES ASSUME Good(host), Advance PROVE Good(host')
  OBVIOUS
<1>1. PICK tick : host' = Advanced(host, tick)
  BY DEF Advance
<1> DEFINE now == [host EXCEPT !.tick = tick]
           f == Filtered(now, {i \in DOMAIN now.inst : now.inst[i].due <= tick})
           mods == Kept(f.mods, tick)
           snaps == [k \in {k \in DOMAIN f.snaps : tick <= f.snaps[k].expires} |-> f.snaps[k]]
<1>2. host' = [f EXCEPT !.mods = mods, !.snaps = snaps]
  BY <1>1 DEF Advanced
<1>3. Good(now)
  <2>1. IsHost(host) /\ host.seq \in Nat
    BY SaneFacts DEF Good
  <2>2. /\ IsHost(now) /\ now.inst = host.inst /\ now.ent = host.ent
        /\ now.seq = host.seq /\ now.snaps = host.snaps
    BY ONLY <2>1 DEF IsHost
  <2> HIDE DEF now
  <2>3. now.seq \in Nat /\ now.seq >= host.seq
    BY ONLY <2>1, <2>2
  <2>4. \A k \in DOMAIN now.snaps : k \in DOMAIN host.snaps /\ now.snaps[k] = host.snaps[k]
    BY ONLY <2>2
  <2> QED BY <2>2, <2>3, <2>4, RecordedIsGood
<1>4. Good(f)
  <2> HIDE DEF now
  <2> QED BY <1>3, FilteredIsGood
<1> HIDE DEF f, mods
<1>5. IsHost(f) /\ f.seq \in Nat
  BY <1>4, SaneFacts DEF Good
<1>6. \A k \in DOMAIN snaps : k \in DOMAIN f.snaps /\ snaps[k] = f.snaps[k]
  OBVIOUS
<1> HIDE DEF snaps
<1> DEFINE d == [f EXCEPT !.mods = mods]
<1>7. IsHost(d) /\ d.inst = f.inst /\ d.ent = f.ent /\ d.seq = f.seq /\ d.snaps = f.snaps
  BY ONLY <1>5 DEF IsHost
<1>8. host' = [d EXCEPT !.snaps = snaps]
  BY ONLY <1>2
<1> HIDE DEF d
<1>9. /\ IsHost(host') /\ host'.inst = f.inst /\ host'.ent = f.ent /\ host'.seq = f.seq /\ host'.snaps = snaps
  BY ONLY <1>7, <1>8 DEF IsHost
<1>10. host'.seq \in Nat /\ host'.seq >= f.seq
  BY ONLY <1>5, <1>9
<1> QED BY <1>4, <1>6, <1>9, <1>10, RecordedIsGood

(* A snapshot is of what its target is. *)
LEMMA CaptureOk == Good(host) /\ CaptureSnapshot => Good(host')
<1> SUFFICES ASSUME Good(host), CaptureSnapshot PROVE Good(host')
  OBVIOUS
<1> DEFINE inst(e) == IF "statuses" \in Profile.fields
                      THEN Leaving(host.inst, DOMAIN host.inst \ On(host, e)) ELSE <<>>
           new(c) == [owner |-> c[1], target |-> c[2], expires |-> host.tick + Profile.age,
                      ent |-> host.ent[c[2]], inst |-> inst(c[2])]
           snaps(c) == [k \in DOMAIN host.snaps \cup {host.token + 1} |->
                          IF k \in DOMAIN host.snaps THEN host.snaps[k] ELSE new(c)]
<1>1. PICK c \in Capture : host' = [host EXCEPT !.token = host.token + 1, !.snaps = snaps(c)]
  BY DEF CaptureSnapshot
<1> DEFINE e == c[2]
           s == new(c)
           list == inst(e)
<1>2. Sane(host) /\ IsHost(host) /\ host.seq \in Nat /\ Listed(host.inst, host.seq)
  BY SaneFacts DEF Good
<1>3. \A x \in Entity : host.ent[x].flags = StatusesOf(host.inst, x)
  BY DEF Good, Mirrored
<1>4. IsSnapshot(s) /\ s.target = e /\ s.ent = host.ent[e] /\ s.inst = list
  <2> HIDE DEF inst
  <2> QED BY DEF IsSnapshot
<1>5. \A k \in DOMAIN snaps(c) : (k \in DOMAIN host.snaps /\ snaps(c)[k] = host.snaps[k]) \/ snaps(c)[k] = s
  <2> HIDE DEF new
  <2> QED OBVIOUS
<1> HIDE DEF new
<1>6. /\ ComesFrom(list, host.inst, host.seq, host.seq)
      /\ \A i \in DOMAIN list : list[i].target = e
      /\ "statuses" \in Profile.fields => StatusesOf(list, e) = StatusesOf(host.inst, e)
  <2>1. CASE "statuses" \in Profile.fields
    <3> DEFINE gone == DOMAIN host.inst \ On(host, e)
    <3>1. list = Leaving(host.inst, gone)
      BY <2>1
    <3> HIDE DEF list, gone, e
    <3> DEFINE was == host.inst
    <3>0. Listed(was, host.seq)
      BY <1>2
    <3> HIDE DEF was
    <3>2. /\ ComesFrom(Leaving(was, gone), was, host.seq, host.seq)
          /\ \A x : StatusesOf(Leaving(was, gone), x)
                      = {was[i].status : i \in {j \in DOMAIN was : was[j].target = x} \ gone}
          /\ \A k \in DOMAIN Leaving(was, gone) : \E i \in DOMAIN was \ gone : Leaving(was, gone)[k] = was[i]
      BY ONLY <3>0, LeavingComes
    <3>3. \A i \in DOMAIN host.inst \ gone : host.inst[i].target = e
      BY DEF gone, On
    <3>4. {j \in DOMAIN host.inst : host.inst[j].target = e} \ gone = {j \in DOMAIN host.inst : host.inst[j].target = e}
      BY DEF gone, On
    <3>5. StatusesOf(Leaving(was, gone), e) = StatusesOf(was, e)
      <4>1. {j \in DOMAIN was : was[j].target = e} \ gone = {j \in DOMAIN was : was[j].target = e}
        BY <3>4 DEF was
      <4>2. StatusesOf(Leaving(was, gone), e)
              = {was[i].status : i \in {j \in DOMAIN was : was[j].target = e} \ gone}
        BY <3>2
      <4> QED BY ONLY <4>1, <4>2 DEF StatusesOf
    <3>6. \A k \in DOMAIN list : list[k].target = e
      <4>1. \A i \in DOMAIN was \ gone : was[i].target = e
        BY <3>3 DEF was
      <4>2. list = Leaving(was, gone)
        BY <3>1 DEF was
      <4> QED BY ONLY <3>2, <4>1, <4>2
    <3> QED BY <3>1, <3>2, <3>5, <3>6 DEF was
  <2>2. CASE "statuses" \notin Profile.fields
    <3>1. list = <<>>
      BY <2>2
    <3> HIDE DEF list
    <3>2. DOMAIN list = {} /\ IsSequence(list)
      BY <3>1 DEF IsSequence
    <3> QED BY <2>2, <3>2 DEF ComesFrom
  <2> QED BY <2>1, <2>2
<1> HIDE DEF s, list, e
<1>7. Faithful(s)
  <2>1. s.target \in Entity => s.ent.flags = StatusesOf(host.inst, e)
    BY <1>3, <1>4
  <2> QED BY <1>4, <1>6, <2>1 DEF Faithful
<1> DEFINE all == snaps(c)
           token == host.token + 1
           d == [host EXCEPT !.token = token]
<1>8. host' = [d EXCEPT !.snaps = all]
  <2> HIDE DEF all
  <2> QED BY <1>1 DEF all
<1> HIDE DEF all, token
<1>9. IsHost(d) /\ d.inst = host.inst /\ d.ent = host.ent /\ d.seq = host.seq
  BY ONLY <1>2 DEF IsHost
<1> HIDE DEF d
<1>10. IsHost(host') /\ host'.inst = host.inst /\ host'.ent = host.ent /\ host'.seq = host.seq /\ host'.snaps = all
  BY ONLY <1>8, <1>9 DEF IsHost
<1>11. host'.seq \in Nat /\ host'.seq >= host.seq
  BY ONLY <1>2, <1>10
<1>12. \A k \in DOMAIN all : \/ k \in DOMAIN host.snaps /\ all[k] = host.snaps[k]
                             \/ /\ IsSnapshot(all[k]) /\ Faithful(all[k])
                                /\ ComesFrom(all[k].inst, host.inst, host.seq, host.seq)
  BY <1>4, <1>5, <1>6, <1>7 DEF all
<1> QED BY <1>10, <1>11, <1>12, RecordedIsGood

(* Every step keeps the invariant. *)
LEMMA HostStepOk == HostInv /\ [Next]_host => HostInv'
<1> SUFFICES ASSUME Good(host), [Next]_host PROVE Good(host')
  BY DEF HostInv, Good
<1>1. ASSUME ApplyStatus PROVE Good(host')
  <2>1. PICK c \in Application : host' \in {Consumed(host, c[3], {"control_immunity"}), Applied(host, c)}
    BY <1>1 DEF ApplyStatus
  <2> QED BY <2>1, AppliedIsGood, ConsumedIsGood
<1>2. ASSUME RemoveStatus \/ Dispel PROVE Good(host')
  <2>1. PICK gone : host' = Filtered(host, gone)
    BY <1>2 DEF RemoveStatus, Dispel
  <2> QED BY <2>1, FilteredIsGood
<1>3. ASSUME ModifyStatusInstance PROVE Good(host')
  <2>1. PICK at \in DOMAIN host.inst, m \in Modification : host' = InstanceModified(host, at, m)
    BY <1>3 DEF ModifyStatusInstance
  <2> QED BY <2>1, ModifiedIsGood
<1>4. ASSUME Damaged PROVE Good(host')
  <2>1. PICK c \in Hit : host' = Struck(host, c)
    BY <1>4 DEF Damaged
  <2> QED BY <2>1, StruckIsGood
<1>5. ASSUME RestoreSnapshot PROVE Good(host')
  <2>1. PICK k \in DOMAIN host.snaps : host' = Rewound(host, k)
    BY <1>5 DEF RestoreSnapshot
  <2> QED BY <2>1, RewoundIsGood
<1>6. CASE UNCHANGED host
  BY <1>6
<1> QED
  BY <1>1, <1>2, <1>3, <1>4, <1>5, <1>6, ShieldedOk, LifeOk, BonusOk, HostAdvanceOk, CaptureOk DEF Next

(* An entity is marked with a status exactly while it has an instance of   *)
(* it, and no two instances have one number, for all catalogs, profiles    *)
(* and commands.                                                           *)
THEOREM StatusesSound == Spec => []StatusesAgree
<1>1. Init => HostInv
  BY FirstIsGood DEF HostInv, Good
<1>2. HostInv /\ [Next]_host => HostInv'
  BY HostStepOk
<1>3. HostInv => StatusesAgree
  <2> SUFFICES ASSUME HostInv PROVE StatusesAgree
    OBVIOUS
  <2>1. Sane(host) /\ Mirrored(host)
    BY DEF HostInv
  <2>2. Listed(host.inst, host.seq)
    BY <2>1, SaneFacts
  <2> QED BY <2>1, <2>2 DEF StatusesAgree, NumbersAreOwn, FlagsMirror, Listed, Mirrored, StatusesOf, On
<1> QED
  BY <1>1, <1>2, <1>3, PTL DEF Spec
=============================================================================
