------------------------ MODULE VisualPlanCacheProofs ------------------------
(***************************************************************************)
(* Proofs about module VisualPlanCache, for every finite set of goroutines, *)
(* plans and keys: the table and the pointers into it are well typed, an    *)
(* entry is counted for everybody who has it, and a leased plan stays.      *)
(***************************************************************************)
EXTENDS VisualPlanCache, SetLemmas

JobState == {"none", "queued", "preload", "wait", "aliased", "unaliased", "done", "failed"}

Users(i) == {t \in Thread : mine[t] = i}
Holding == {"loading", "undo", "waiting", "leased"}

(* The table of plans and what goroutines keep of it. *)
PlanTypes ==
    /\ entries \in [Plan -> Nat \cup {None}] /\ mine \in [Thread -> Nat \cup {None}]
    /\ plan \in [LivePlans -> PlanEntry]
    /\ older \subseteq LoadedPlans \X LoadedPlans
    /\ pc \in [Thread -> {"idle", "loading", "undo", "waiting", "leased", "releasing"}]
    /\ cancelled \in [Thread -> BOOLEAN]

(* An entry is counted for everybody who has it. *)
Counted == \A i \in LivePlans : plan[i].refs = Cardinality(Users(i))

(* An entry is in the table exactly as long as it has not failed. *)
InTable ==
    /\ \A p \in Plan : entries[p] # None => plan[entries[p]].of = p
    /\ \A i \in LivePlans :
          IF plan[i].err THEN plan[i].ready /\ entries[plan[i].of] # i
          ELSE entries[plan[i].of] = i

(* Where a goroutine stands says what it has; one goroutine loads an entry. *)
Phases ==
    /\ \A t \in Thread :
          /\ mine[t] # None <=> pc[t] \in Holding
          /\ pc[t] \in {"loading", "undo"} => ~plan[mine[t]].ready
          /\ pc[t] = "leased" => plan[mine[t]].ready /\ ~plan[mine[t]].err
    /\ \A t, u \in Thread :
          /\ pc[t] \in {"loading", "undo"} /\ pc[u] \in {"loading", "undo"}
          /\ mine[t] = mine[u]
          => t = u

PlanInv == PlanTypes /\ Counted /\ InTable /\ Phases

(* The table of assets and what goroutines still have to do to it. *)
JobType == [pc : JobState, of : Asset \cup {None}, id : Nat \cup {None},
            outer : Nat \cup {None}, as : Key \cup {None}]
AssetTypes ==
    /\ assets \in [Key -> Nat \cup {None}]
    /\ asset \in [LiveAssets -> AssetEntry]
    /\ loaded \subseteq Key
    /\ job \in [Thread -> [Primary -> JobType]]
    /\ unloading \in [Thread -> SUBSET Key]
    /\ todo \in [Thread -> Seq([Key -> Nat])]

(* An entry of the table is about its key; a loaded one says which asset is *)
(* used for it.                                                             *)
Answers(e) == e.ready /\ ~e.err => e.as \in Key
AssetFacts ==
    /\ \A k \in Key : assets[k] # None => asset[assets[k]].of.key = k
    /\ \A i \in LiveAssets : Answers(asset[i])

(* What a job still needs it has, and what it has it needs. *)
JobIsSound(j, heap) ==
    /\ j.pc \in {"none", "queued", "done", "failed"} => j.id = None /\ j.outer = None
    /\ j.pc \in {"preload", "wait", "aliased"} => j.id # None /\ j.of \in Asset
    /\ j.pc \in {"aliased", "unaliased"} => j.outer # None
    /\ j.pc = "aliased" => heap[j.id].as \in Key
    /\ j.pc = "preload" /\ j.outer # None => j.of.fallback = None
    /\ j.pc = "done" => j.as \in Key
JobFacts == \A t \in Thread, a \in Primary : JobIsSound(job[t][a], asset)

AssetInv == AssetTypes /\ AssetFacts /\ JobFacts

(* A goroutine that loads a trusted plan has a job for each of its assets,  *)
(* and nobody else has one.                                                 *)
JobsTaken ==
    \A t \in Thread :
        /\ pc[t] = "loading" /\ plan[mine[t]].of \in Trusted =>
              \A a \in AssetsOf[plan[mine[t]].of] : job[t][a].pc # "none"
        /\ pc[t] # "loading" => \A a \in Primary : job[t][a].pc = "none"

IInv == PlanInv /\ AssetInv /\ JobsTaken

-----------------------------------------------------------------------------
(* There is a number that a finite heap has not used. *)
LEMMA FreshIsNew ==
    ASSUME NEW heap, IsFiniteSet(DOMAIN heap)
    PROVE  Fresh(heap) \in Nat /\ Fresh(heap) \notin DOMAIN heap /\ Fresh(heap) # None
<1> DEFINE n == Cardinality(DOMAIN heap)
<1>1. n \in Nat
  BY FS_CardinalityType
<1>2. IsFiniteSet(1..(n + 1)) /\ Cardinality(1..(n + 1)) = n + 1
  BY <1>1, FS_Interval
<1>3. ~(1..(n + 1) \subseteq DOMAIN heap)
  <2> SUFFICES ASSUME 1..(n + 1) \subseteq DOMAIN heap PROVE FALSE
    OBVIOUS
  <2>1. Cardinality(1..(n + 1)) <= n
    BY FS_Subset
  <2> QED BY <1>1, <1>2, <2>1
<1>4. \E i \in 1..(n + 1) : i \notin DOMAIN heap
  BY <1>3
<1>5. Fresh(heap) \in 1..(n + 1) /\ Fresh(heap) \notin DOMAIN heap
  BY <1>4 DEF Fresh
<1> QED BY <1>1, <1>5, NoneAssumption

(* The entries somebody can reach are finitely many. *)
LEMMA PlansAreFinite ==
    ASSUME PlanTypes PROVE IsFiniteSet(LivePlans)
<1> DEFINE E == {entries[p] : p \in Plan}
           M == {mine[t] : t \in Thread}
<1>1. IsFiniteSet(E) /\ IsFiniteSet(M)
  BY FiniteImage, FiniteAssumption DEF PlanTypes
<1>2. LivePlans \subseteq E \cup M
  BY DEF LivePlans
<1> QED BY <1>1, <1>2, FS_Union, FS_Subset

(* So are the goroutines that have an entry. *)
LEMMA UsersAreFinite == \A i : IsFiniteSet(Users(i))
  BY FiniteAssumption, FS_Subset DEF Users

(* Assets are finitely many, as keys and fallbacks are. *)
LEMMA PrimaryIsFinite == IsFiniteSet(Primary)
<1> DEFINE B == Key \cup {None}
           f == [x \in Key \X B |-> [key |-> x[1], fallback |-> x[2]]]
           R == {f[x] : x \in Key \X B}
<1>1. IsFiniteSet(Key \X B)
  <2>1. IsFiniteSet(B)
    BY FiniteAssumption, FS_AddElement
  <2> QED BY <2>1, FiniteAssumption, FS_Product
<1>2. IsFiniteSet(R)
  <2>1. DOMAIN f = Key \X B
    OBVIOUS
  <2> HIDE DEF f, B
  <2> QED BY <1>1, <2>1, FiniteImage
<1>3. Asset \subseteq R
  <2> SUFFICES ASSUME NEW x \in Asset PROVE x \in R
    OBVIOUS
  <2>1. <<x.key, x.fallback>> \in Key \X B /\ x = [key |-> x.key, fallback |-> x.fallback]
    BY DEF Asset
  <2>2. f[<<x.key, x.fallback>>] = x
    BY <2>1
  <2> QED BY <2>1, <2>2
<1>4. Primary \subseteq Asset
  BY PlanAssumption DEF Primary
<1> QED BY <1>2, <1>3, <1>4, FS_Subset

(* So are the asset entries: one per key, and two per job. *)
LEMMA AssetsAreFinite ==
    ASSUME AssetTypes PROVE IsFiniteSet(LiveAssets)
<1> DEFINE A == {assets[k] : k \in Key}
           TP == Thread \X Primary
           f == [x \in TP |-> job[x[1]][x[2]].id]
           g == [x \in TP |-> job[x[1]][x[2]].outer]
           F == {f[x] : x \in TP}
           G == {g[x] : x \in TP}
<1>1. IsFiniteSet(A)
  BY FiniteImage, FiniteAssumption DEF AssetTypes
<1>2. IsFiniteSet(TP)
  BY PrimaryIsFinite, FiniteAssumption, FS_Product
<1>3. IsFiniteSet(F) /\ IsFiniteSet(G)
  <2> HIDE DEF TP
  <2> QED BY <1>2, FiniteImage
<1>4. LiveAssets \subseteq (A \cup F) \cup G
  <2> SUFFICES ASSUME NEW i \in LiveAssets PROVE i \in (A \cup F) \cup G
    OBVIOUS
  <2>1. CASE \E k \in Key : i = assets[k]
    BY <2>1
  <2>2. CASE \E t \in Thread, a \in Primary : i = job[t][a].id \/ i = job[t][a].outer
    <3>1. PICK t \in Thread, a \in Primary : i = job[t][a].id \/ i = job[t][a].outer
      BY <2>2
    <3>2. <<t, a>> \in TP /\ f[<<t, a>>] = job[t][a].id /\ g[<<t, a>>] = job[t][a].outer
      OBVIOUS
    <3> QED BY <3>1, <3>2
  <2> QED BY <2>1, <2>2 DEF LiveAssets
<1>5. IsFiniteSet((A \cup F) \cup G)
  <2> HIDE DEF A, F, G
  <2>1. IsFiniteSet(A \cup F)
    BY <1>1, <1>3, FS_Union
  <2> QED BY <2>1, <1>3, FS_Union
<1> QED BY <1>4, <1>5, FS_Subset
-----------------------------------------------------------------------------
(* The plans. *)

(* The cache begins empty. *)
LEMMA InitPlans ==
    ASSUME Init PROVE PlanInv /\ JobsTaken
<1>1. LivePlans = {}
  BY DEF Init, LivePlans
<1>2. DOMAIN plan = {} /\ plan \in [LivePlans -> PlanEntry]
  BY <1>1 DEF Init
<1> QED
  BY <1>1, <1>2 DEF Init, PlanInv, PlanTypes, Counted, InTable, Phases, JobsTaken, Holding, NoJob

(* One goroutine more has entry i. *)
LEMMA UserJoins ==
    ASSUME PlanTypes, NEW t \in Thread, mine[t] = None, NEW i, i # None,
           mine' = [mine EXCEPT ![t] = i]
    PROVE  /\ Cardinality(Users(i)') = Cardinality(Users(i)) + 1 /\ Cardinality(Users(i)) \in Nat
           /\ \A j : j # i /\ j # None => Users(j)' = Users(j)
<1>1. Users(i)' = Users(i) \cup {t} /\ t \notin Users(i)
  BY DEF Users, PlanTypes
<1>2. IsFiniteSet(Users(i))
  BY UsersAreFinite
<1>3. \A j : j # i /\ j # None => Users(j)' = Users(j)
  BY DEF Users, PlanTypes
<1> QED BY <1>1, <1>2, <1>3, FS_AddElement, FS_CardinalityType

(* One goroutine less has entry i. *)
LEMMA UserLeaves ==
    ASSUME PlanTypes, NEW t \in Thread, NEW i, mine[t] = i, i # None,
           mine' = [mine EXCEPT ![t] = None]
    PROVE  /\ Cardinality(Users(i)') = Cardinality(Users(i)) - 1
           /\ Cardinality(Users(i)) \in Nat /\ Cardinality(Users(i)) > 0
           /\ Cardinality(Users(i)') \in Nat
           /\ \A j : j # i /\ j # None => Users(j)' = Users(j)
<1>1. Users(i)' = Users(i) \ {t} /\ t \in Users(i)
  BY DEF Users, PlanTypes
<1>2. IsFiniteSet(Users(i)) /\ IsFiniteSet(Users(i)')
  BY <1>1, UsersAreFinite, FS_RemoveElement
<1>3. \A j : j # i /\ j # None => Users(j)' = Users(j)
  BY DEF Users, PlanTypes
<1>4. Cardinality(Users(i)') = Cardinality(Users(i)) - 1
  BY <1>1, <1>2, FS_RemoveElement
<1>5. Cardinality(Users(i)) \in Nat /\ Cardinality(Users(i)') \in Nat
  BY <1>2, FS_CardinalityType
<1>6. Cardinality(Users(i)) > 0
  BY ONLY <1>4, <1>5
<1> QED BY <1>3, <1>4, <1>5, <1>6

(* A goroutine that asks for a plan that is not there makes its entry. *)
LEMMA CreatesPlan ==
    ASSUME PlanInv, NEW t \in Thread, NEW p \in Plan, AcquireCreates(t, p)
    PROVE  PlanInv'
<1> DEFINE e == [of |-> p, ready |-> FALSE, err |-> FALSE, refs |-> 1, uses |-> {}]
<1>1. PICK i : i = Fresh(plan) /\ i \in Nat /\ i \notin LivePlans /\ i # None
  <2>1. DOMAIN plan = LivePlans /\ IsFiniteSet(LivePlans)
    BY PlansAreFinite DEF PlanInv, PlanTypes
  <2> QED BY <2>1, FreshIsNew
<1>2. /\ pc[t] = "idle" /\ entries[p] = None /\ mine[t] = None
      /\ entries' = [entries EXCEPT ![p] = i] /\ mine' = [mine EXCEPT ![t] = i]
      /\ plan' = [j \in LivePlans \cup {i} |-> IF j = i THEN e ELSE plan[j]]
      /\ pc' = [pc EXCEPT ![t] = "loading"] /\ older' = older /\ cancelled' = cancelled
  BY <1>1 DEF AcquireCreates, Extended, Goto, PlanInv, PlanTypes, Phases, Holding
<1> USE DEF PlanInv
<1>3. LivePlans' = LivePlans \cup {i}
  BY <1>1, <1>2 DEF LivePlans, PlanTypes
<1>4. /\ plan'[i] = e /\ \A j \in LivePlans : plan'[j] = plan[j]
      /\ e \in PlanEntry
  BY <1>1, <1>2 DEF PlanEntry
<1> HIDE DEF e
<1>5. PlanTypes'
  <2>1. plan' \in [LivePlans' -> PlanEntry]
    BY <1>2, <1>3, <1>4 DEF PlanTypes
  <2>2. older' \subseteq LoadedPlans' \X LoadedPlans'
    <3>1. LoadedPlans \subseteq LoadedPlans'
      BY <1>1, <1>2, <1>4 DEF LoadedPlans, LivePlans, PlanTypes
    <3> QED BY <1>2, <3>1 DEF PlanTypes
  <2> QED BY <1>1, <1>2, <2>1, <2>2 DEF PlanTypes
<1>6. Counted'
  <2>1. Users(i) = {} /\ Cardinality(Users(i)) = 0
    <3>1. Users(i) = {}
      BY <1>1 DEF Users, LivePlans
    <3> QED BY <3>1, FS_EmptySet
  <2>2. /\ Cardinality(Users(i)') = Cardinality(Users(i)) + 1
        /\ \A j : j # i /\ j # None => Users(j)' = Users(j)
    BY <1>1, <1>2, UserJoins
  <2>3. plan'[i].refs = Cardinality(Users(i)')
    BY <1>4, <2>1, <2>2 DEF e
  <2>4. \A j \in LivePlans : plan'[j].refs = Cardinality(Users(j)')
    BY <1>1, <1>4, <2>2 DEF Counted, LivePlans
  <2> QED BY <1>3, <2>3, <2>4 DEF Counted
<1>7. InTable'
  <2>1. \A q \in Plan : entries[q] # None => entries[q] \in LivePlans
    BY DEF LivePlans
  <2>2. plan'[i].of = p /\ ~plan'[i].err
    BY <1>4 DEF e
  <2>3. \A j \in LivePlans : plan[j].of \in Plan
    BY DEF PlanTypes, PlanEntry
  <2>4. ASSUME NEW q \in Plan, entries'[q] # None PROVE plan'[entries'[q]].of = q
    BY <1>1, <1>2, <1>4, <2>1, <2>2, <2>4 DEF InTable, PlanTypes
  <2>5. ASSUME NEW j \in LivePlans
        PROVE  IF plan'[j].err THEN plan'[j].ready /\ entries'[plan'[j].of] # j
               ELSE entries'[plan'[j].of] = j
    <3>1. plan'[j] = plan[j] /\ j # i /\ j # None
      BY <1>1, <1>4, <2>5 DEF LivePlans
    <3>2. CASE plan[j].of = p
      BY <1>1, <1>2, <2>3, <2>5, <3>1, <3>2 DEF InTable, PlanTypes
    <3>3. CASE plan[j].of # p
      BY <1>1, <1>2, <2>3, <2>5, <3>1, <3>3 DEF InTable, PlanTypes
    <3> QED BY <3>2, <3>3
  <2>6. entries'[p] = i
    BY <1>2 DEF PlanTypes
  <2> QED BY <1>3, <2>2, <2>4, <2>5, <2>6 DEF InTable
<1>8. Phases'
  <2>1. pc'[t] = "loading" /\ mine'[t] = i /\ ~plan'[i].ready
    BY <1>2, <1>4 DEF e, PlanTypes
  <2>2. \A u \in Thread \ {t} : /\ pc'[u] = pc[u] /\ mine'[u] = mine[u] /\ mine[u] # i
                                /\ mine[u] # None => plan'[mine[u]] = plan[mine[u]]
    BY <1>1, <1>2, <1>4 DEF PlanTypes, LivePlans
  <2> QED BY <1>1, <2>1, <2>2 DEF Phases, Holding
<1> QED BY <1>5, <1>6, <1>7, <1>8

(* A goroutine that finds the entry is counted before it waits. *)
LEMMA SharesPlan ==
    ASSUME PlanInv, NEW t \in Thread, NEW p \in Plan, AcquireShares(t, p)
    PROVE  PlanInv'
<1>1. PICK i : i = entries[p]
  OBVIOUS
<1> USE DEF PlanInv
<1>2. /\ pc[t] = "idle" /\ i # None /\ mine[t] = None /\ i \in LivePlans
      /\ mine' = [mine EXCEPT ![t] = i] /\ plan' = [plan EXCEPT ![i].refs = plan[i].refs + 1]
      /\ pc' = [pc EXCEPT ![t] = "waiting"] /\ UNCHANGED <<entries, older, cancelled>>
  BY <1>1 DEF AcquireShares, Goto, PlanTypes, Phases, Holding, LivePlans, Reserved
<1>3. LivePlans' = LivePlans
  <2>1. LivePlans \subseteq LivePlans'
    <3> SUFFICES ASSUME NEW j \in LivePlans PROVE j \in LivePlans'
      OBVIOUS
    <3>1. CASE \E q \in Plan : j = entries[q]
      BY <1>2, <3>1 DEF LivePlans
    <3>2. CASE \E u \in Thread : j = mine[u]
      <4>1. PICK u \in Thread : j = mine[u]
        BY <3>2
      <4>2. mine'[u] = j /\ j # None
        BY <1>2, <4>1 DEF PlanTypes, LivePlans
      <4> QED BY <4>2 DEF LivePlans
    <3> QED BY <3>1, <3>2 DEF LivePlans
  <2>2. LivePlans' \subseteq LivePlans
    <3> SUFFICES ASSUME NEW j \in LivePlans' PROVE j \in LivePlans
      OBVIOUS
    <3> QED BY <1>1, <1>2 DEF LivePlans, PlanTypes
  <2> QED BY <2>1, <2>2
<1>4. /\ \A j \in LivePlans : j # i => plan'[j] = plan[j]
      /\ plan'[i] = [plan[i] EXCEPT !.refs = plan[i].refs + 1]
      /\ plan[i] \in PlanEntry
  BY <1>2 DEF PlanTypes
<1>5. /\ plan'[i] \in PlanEntry /\ plan'[i].of = plan[i].of /\ plan'[i].ready = plan[i].ready
      /\ plan'[i].err = plan[i].err /\ plan'[i].refs = plan[i].refs + 1
  BY <1>4 DEF PlanEntry
<1>6. PlanTypes'
  <2>1. plan' \in [LivePlans' -> PlanEntry]
    BY <1>2, <1>3, <1>4, <1>5 DEF PlanTypes
  <2>2. LoadedPlans' = LoadedPlans
    BY <1>2, <1>4, <1>5 DEF LoadedPlans, LivePlans
  <2>3. mine' \in [Thread -> Nat \cup {None}]
    BY <1>1, <1>2 DEF PlanTypes
  <2> QED BY <1>2, <2>1, <2>2, <2>3 DEF PlanTypes
<1>7. Counted'
  <2>1. /\ Cardinality(Users(i)') = Cardinality(Users(i)) + 1
        /\ \A j : j # i /\ j # None => Users(j)' = Users(j)
    BY <1>2, UserJoins
  <2>2. plan'[i].refs = Cardinality(Users(i)')
    BY <1>2, <1>5, <2>1 DEF Counted
  <2>3. \A j \in LivePlans : j # i => plan'[j].refs = Cardinality(Users(j)')
    BY <1>4, <2>1 DEF Counted, LivePlans
  <2> QED BY <1>3, <2>2, <2>3 DEF Counted
<1>8. InTable'
  BY <1>2, <1>3, <1>4, <1>5 DEF InTable, LivePlans
<1>9. Phases'
  <2>1. pc'[t] = "waiting" /\ mine'[t] = i
    BY <1>2 DEF PlanTypes
  <2>2. \A u \in Thread \ {t} : pc'[u] = pc[u] /\ mine'[u] = mine[u]
    BY <1>2 DEF PlanTypes
  <2>3. \A u \in Thread : mine[u] # None => mine[u] \in LivePlans
    BY DEF LivePlans
  <2>4. \A j \in LivePlans : plan'[j].ready = plan[j].ready /\ plan'[j].err = plan[j].err
    BY <1>4, <1>5
  <2> QED BY <1>2, <2>1, <2>2, <2>3, <2>4 DEF Phases, Holding
<1> QED BY <1>6, <1>7, <1>8, <1>9

(* Whoever gives up waiting, or finds that the load failed, is discounted. *)
LEMMA LeavesPlan ==
    ASSUME PlanInv, NEW t \in Thread, NEW i, i = mine[t], pc[t] = "waiting", Return(t),
           plan' = Kept([plan EXCEPT ![i].refs = Less(@)], LivePlans'),
           UNCHANGED <<entries, older>>
    PROVE  PlanInv'
<1> USE DEF PlanInv
<1>1. /\ i # None /\ i \in LivePlans /\ mine' = [mine EXCEPT ![t] = None]
      /\ pc' = [pc EXCEPT ![t] = "idle"] /\ cancelled' = [cancelled EXCEPT ![t] = FALSE]
      /\ plan[i] \in PlanEntry /\ entries' = entries /\ older' = older
  BY DEF Return, Goto, PlanTypes, Phases, Holding, LivePlans
<1>2. LivePlans' \subseteq LivePlans
  BY <1>1 DEF LivePlans, PlanTypes
<1>3. /\ Cardinality(Users(i)') = Cardinality(Users(i)) - 1
      /\ Cardinality(Users(i)) \in Nat /\ Cardinality(Users(i)) > 0
      /\ \A j : j # i /\ j # None => Users(j)' = Users(j)
  BY <1>1, UserLeaves
<1>4. plan[i].refs = Cardinality(Users(i))
  BY <1>1 DEF Counted
<1>5. /\ \A j \in LivePlans' : j # i => plan'[j] = plan[j]
      /\ i \in LivePlans' => plan'[i] = [plan[i] EXCEPT !.refs = plan[i].refs - 1]
      /\ DOMAIN plan' = LivePlans'
  BY <1>1, <1>2, <1>3, <1>4 DEF Kept, Less, PlanTypes
<1>6. i \in LivePlans' =>
          /\ plan'[i] \in PlanEntry /\ plan'[i].refs = plan[i].refs - 1
          /\ plan'[i].of = plan[i].of /\ plan'[i].ready = plan[i].ready
          /\ plan'[i].err = plan[i].err
  BY ONLY <1>1, <1>3, <1>4, <1>5 DEF PlanEntry
<1>12. \A j \in LivePlans' : /\ plan'[j].of = plan[j].of /\ plan'[j].ready = plan[j].ready
                             /\ plan'[j].err = plan[j].err
  BY <1>5, <1>6
<1>7. \A p \in Plan : entries[p] # None => entries[p] \in LivePlans'
  BY DEF LivePlans
<1>8. PlanTypes'
  <2>1. plan' = [j \in LivePlans' |-> plan'[j]]
    BY <1>5 DEF Kept
  <2>2. plan' \in [LivePlans' -> PlanEntry]
    BY <1>2, <1>5, <1>6, <2>1 DEF PlanTypes
  <2>3. LoadedPlans' = LoadedPlans
    BY ONLY <1>1, <1>7, <1>12 DEF LoadedPlans
  <2> QED BY <1>1, <2>2, <2>3 DEF PlanTypes
<1>9. Counted'
  <2>1. \A j \in LivePlans' : j # None
    BY DEF LivePlans
  <2>2. \A j \in LivePlans' : j # i => plan'[j].refs = Cardinality(Users(j)')
    BY ONLY Counted, <1>2, <1>3, <1>5, <2>1 DEF Counted
  <2>3. i \in LivePlans' => plan'[i].refs = Cardinality(Users(i)')
    BY <1>3, <1>4, <1>6
  <2> QED BY <2>2, <2>3 DEF Counted
<1>10. InTable'
  BY ONLY InTable, <1>1, <1>2, <1>7, <1>12 DEF InTable
<1>11. Phases'
  <2>1. pc'[t] = "idle" /\ mine'[t] = None
    BY <1>1 DEF PlanTypes
  <2>2. \A u \in Thread \ {t} : pc'[u] = pc[u] /\ mine'[u] = mine[u]
    BY <1>1 DEF PlanTypes
  <2>3. \A u \in Thread : mine'[u] # None => mine'[u] \in LivePlans'
    BY DEF LivePlans
  <2> QED BY ONLY Phases, <1>12, <2>1, <2>2, <2>3 DEF Phases, Holding
<1> QED BY <1>8, <1>9, <1>10, <1>11

(* A use puts an entry at the end of the order; the entries stay. *)
LEMMA TouchedIsTyped ==
    ASSUME PlanTypes, NEW i \in LoadedPlans
    PROVE  Touched(i) \subseteq LoadedPlans \X LoadedPlans
  BY DEF Touched, PlanTypes

(* A loaded entry becomes a lease. *)
LEMMA LeasesPlan ==
    ASSUME PlanInv, NEW t \in Thread, pc[t] = "waiting", plan[mine[t]].ready,
           ~plan[mine[t]].err, Goto(t, "leased"), older' = Touched(mine[t]),
           UNCHANGED <<entries, plan, mine, cancelled>>
    PROVE  PlanInv'
<1> USE DEF PlanInv
<1>1. mine[t] \in LivePlans /\ entries[plan[mine[t]].of] = mine[t] /\ plan[mine[t]].of \in Plan
  BY DEF Phases, Holding, LivePlans, InTable, PlanTypes, PlanEntry
<1>2. mine[t] \in LoadedPlans
  BY <1>1 DEF LoadedPlans, LivePlans
<1>3. LivePlans' = LivePlans /\ LoadedPlans' = LoadedPlans
  BY DEF LivePlans, LoadedPlans
<1>4. pc' = [pc EXCEPT ![t] = "leased"]
  BY DEF Goto
<1>5. PlanTypes'
  BY <1>2, <1>3, <1>4, TouchedIsTyped DEF PlanTypes
<1>6. Counted' /\ InTable'
  BY <1>3 DEF Counted, InTable, Users
<1>7. Phases'
  BY <1>4 DEF Phases, Holding, PlanTypes
<1> QED BY <1>5, <1>6, <1>7

(* The load went well: whoever waits for the entry will have it. *)
LEMMA LoadsPlan ==
    ASSUME PlanInv, AssetInv, JobsTaken, NEW t \in Thread, LoadSucceeds(t)
    PROVE  PlanInv'
<1>1. PICK i : i = mine[t]
  OBVIOUS
<1> DEFINE uses == {job[t][a].as : a \in AssetsOf[plan[i].of]}
<1>2. /\ pc[t] = "loading" /\ i \in LivePlans /\ i # None /\ ~plan[i].ready /\ plan[i] \in PlanEntry
      /\ plan' = [plan EXCEPT ![i] = [plan[i] EXCEPT !.ready = TRUE, !.uses = uses]]
      /\ older' = Touched(i) /\ pc' = [pc EXCEPT ![t] = "waiting"]
      /\ entries' = entries /\ mine' = mine /\ cancelled' = cancelled
  BY <1>1 DEF LoadSucceeds, Goto, PlanInv, PlanTypes, Phases, Holding, LivePlans
<1>3. uses \subseteq Key
  <2> SUFFICES ASSUME NEW a \in AssetsOf[plan[i].of] PROVE job[t][a].as \in Key
    OBVIOUS
  <2>1. plan[i].of \in Plan /\ plan[i].of \in Trusted
    BY <1>1, <1>2 DEF LoadSucceeds, PlanEntry
  <2>2. a \in Primary
    BY <2>1 DEF Primary
  <2>3. job[t][a].pc \in {"none", "done", "failed"} /\ job[t][a].pc # "failed"
    BY <2>2 DEF LoadSucceeds, Done, Failed
  <2>4. job[t][a].pc # "none"
    BY <1>1, <1>2, <2>1 DEF JobsTaken
  <2> QED BY <2>2, <2>3, <2>4 DEF AssetInv, JobFacts, JobIsSound
<1> HIDE DEF uses
<1>4. /\ plan'[i] = [plan[i] EXCEPT !.ready = TRUE, !.uses = uses]
      /\ \A j \in LivePlans : j # i => plan'[j] = plan[j]
      /\ DOMAIN plan' = LivePlans
  BY ONLY PlanInv, <1>2 DEF PlanInv, PlanTypes
<1>5. /\ plan'[i] \in PlanEntry /\ plan'[i].of = plan[i].of /\ plan'[i].ready
      /\ plan'[i].err = plan[i].err /\ plan'[i].refs = plan[i].refs
  BY ONLY <1>2, <1>3, <1>4 DEF PlanEntry
<1>6. LivePlans' = LivePlans
  BY ONLY <1>2 DEF LivePlans
<1>7. \A j \in LivePlans : /\ plan'[j].of = plan[j].of /\ plan'[j].err = plan[j].err
                           /\ plan'[j].refs = plan[j].refs
                           /\ plan[j].ready => plan'[j].ready
                           /\ j # i => plan'[j].ready = plan[j].ready
  BY ONLY <1>4, <1>5
<1>8. PlanTypes'
  <2>1. plan' \in [LivePlans' -> PlanEntry]
    BY ONLY PlanInv, <1>2, <1>4, <1>5, <1>6 DEF PlanInv, PlanTypes
  <2>2. LoadedPlans \subseteq LoadedPlans' /\ i \in LoadedPlans'
    <3>1. ~plan[i].err /\ plan[i].of \in Plan /\ entries[plan[i].of] = i
      BY ONLY PlanInv, <1>2 DEF PlanInv, InTable, PlanEntry
    <3>2. \A p \in Plan : entries[p] # None => entries[p] \in LivePlans
      BY DEF LivePlans
    <3> QED BY ONLY <1>2, <1>5, <1>7, <3>1, <3>2 DEF LoadedPlans
  <2>3. older' \subseteq LoadedPlans' \X LoadedPlans'
    BY ONLY PlanInv, <1>2, <2>2 DEF Touched, PlanInv, PlanTypes
  <2> QED BY ONLY PlanInv, <1>2, <2>1, <2>3, t \in Thread DEF PlanInv, PlanTypes
<1>9. Counted'
  BY ONLY PlanInv, <1>2, <1>6, <1>7 DEF PlanInv, Counted, Users
<1>10. InTable'
  <2>1. \A p \in Plan : entries[p] # None => entries[p] \in LivePlans
    BY DEF LivePlans
  <2> QED BY ONLY PlanInv, <1>2, <1>5, <1>6, <1>7, <2>1 DEF PlanInv, InTable
<1>11. Phases'
  <2>1. pc'[t] = "waiting" /\ \A u \in Thread \ {t} : pc'[u] = pc[u]
    BY ONLY PlanInv, <1>2, t \in Thread DEF PlanInv, PlanTypes
  <2>2. \A u \in Thread : mine[u] # None => mine[u] \in LivePlans
    BY DEF LivePlans
  <2>3. \A u \in Thread \ {t} : pc[u] \in {"loading", "undo"} => mine[u] # i
    BY ONLY PlanInv, <1>1, <1>2, t \in Thread DEF PlanInv, Phases
  <2> QED BY ONLY PlanInv, <1>1, <1>2, <1>7, <2>1, <2>2, <2>3 DEF PlanInv, Phases, Holding
<1> QED BY <1>8, <1>9, <1>10, <1>11 DEF PlanInv

(* The load failed: the entry leaves the table and wakes who waits. *)
LEMMA FailsPlan ==
    ASSUME PlanInv, NEW t \in Thread, LoadFails(t)
    PROVE  PlanInv'
<1>1. PICK i : i = mine[t]
  OBVIOUS
<1>2. /\ pc[t] = "undo" /\ i \in LivePlans /\ i # None /\ ~plan[i].ready /\ plan[i] \in PlanEntry
      /\ plan' = [plan EXCEPT ![i] = [plan[i] EXCEPT !.err = TRUE, !.ready = TRUE]]
      /\ entries' = [entries EXCEPT ![plan[i].of] = None]
      /\ pc' = [pc EXCEPT ![t] = "waiting"]
      /\ older' = older /\ mine' = mine /\ cancelled' = cancelled
  BY <1>1 DEF LoadFails, ClosedWithError, Goto, PlanInv, PlanTypes, Phases, Holding, LivePlans, locals
<1>3. ~plan[i].err /\ plan[i].of \in Plan /\ entries[plan[i].of] = i
  BY ONLY PlanInv, <1>2 DEF PlanInv, InTable, PlanEntry
<1>4. /\ plan'[i] = [plan[i] EXCEPT !.err = TRUE, !.ready = TRUE]
      /\ \A j \in LivePlans : j # i => plan'[j] = plan[j]
      /\ DOMAIN plan' = LivePlans
  BY ONLY PlanInv, <1>2 DEF PlanInv, PlanTypes
<1>5. /\ plan'[i] \in PlanEntry /\ plan'[i].of = plan[i].of /\ plan'[i].ready
      /\ plan'[i].err /\ plan'[i].refs = plan[i].refs
  BY ONLY <1>2, <1>4 DEF PlanEntry
<1>6. /\ entries'[plan[i].of] = None
      /\ \A p \in Plan : p # plan[i].of => entries'[p] = entries[p] /\ entries[p] # i
  BY ONLY PlanInv, <1>2, <1>3 DEF PlanInv, PlanTypes, InTable
<1>7. LivePlans' = LivePlans
  <2>1. \A u \in Thread : mine'[u] = mine[u]
    BY ONLY <1>2
  <2> QED BY ONLY <1>1, <1>2, <1>3, <1>6, <2>1, t \in Thread DEF LivePlans
<1>8. PlanTypes'
  <2>1. plan' \in [LivePlans' -> PlanEntry]
    BY ONLY PlanInv, <1>2, <1>4, <1>5, <1>7 DEF PlanInv, PlanTypes
  <2>2. LoadedPlans \subseteq LoadedPlans'
    <3> SUFFICES ASSUME NEW j \in LoadedPlans PROVE j \in LoadedPlans'
      OBVIOUS
    <3>1. PICK p \in Plan : j = entries[p] /\ j # None /\ plan[j].ready
      BY DEF LoadedPlans
    <3>2. j \in LivePlans /\ j # i
      BY <1>2, <3>1 DEF LivePlans
    <3>3. p # plan[i].of
      BY ONLY <1>3, <3>1, <3>2
    <3>4. entries'[p] = j /\ plan'[j].ready
      BY ONLY <1>4, <1>6, <3>1, <3>2, <3>3
    <3> QED BY ONLY <3>1, <3>4 DEF LoadedPlans
  <2>3. older' \subseteq LoadedPlans' \X LoadedPlans'
    BY ONLY PlanInv, <1>2, <2>2 DEF PlanInv, PlanTypes
  <2> QED BY ONLY PlanInv, <1>2, <1>3, <2>1, <2>3, t \in Thread DEF PlanInv, PlanTypes
<1>9. Counted'
  BY ONLY PlanInv, <1>2, <1>4, <1>5, <1>7 DEF PlanInv, Counted, Users
<1>10. InTable'
  <2>1. \A p \in Plan : entries[p] # None => entries[p] \in LivePlans
    BY DEF LivePlans
  <2>2. \A j \in LivePlans : plan[j].of \in Plan
    BY ONLY PlanInv DEF PlanInv, PlanTypes, PlanEntry
  <2>3. \A j \in LivePlans : j # i => plan[j].of # plan[i].of \/ plan[j].err
    BY ONLY PlanInv, <1>2, <1>3 DEF PlanInv, InTable
  <2>4. \A p \in Plan : entries'[p] # None => plan'[entries'[p]].of = p
    BY ONLY PlanInv, <1>4, <1>6, <2>1 DEF PlanInv, InTable
  <2>5. ASSUME NEW j \in LivePlans
        PROVE  IF plan'[j].err THEN plan'[j].ready /\ entries'[plan'[j].of] # j
               ELSE entries'[plan'[j].of] = j
    <3>1. CASE j = i
      BY ONLY <1>2, <1>5, <1>6, <3>1
    <3>2. CASE j # i
      <4>1. j # None
        BY DEF LivePlans
      <4> QED BY ONLY PlanInv, <1>4, <1>6, <2>2, <2>3, <3>2, <4>1, j \in LivePlans DEF PlanInv, InTable
    <3> QED BY <3>1, <3>2
  <2> QED BY ONLY <1>7, <2>4, <2>5 DEF InTable
<1>11. Phases'
  <2>1. pc'[t] = "waiting" /\ \A u \in Thread \ {t} : pc'[u] = pc[u]
    BY ONLY PlanInv, <1>2, t \in Thread DEF PlanInv, PlanTypes
  <2>2. \A u \in Thread : mine[u] # None => mine[u] \in LivePlans
    BY DEF LivePlans
  <2>3. \A u \in Thread \ {t} : pc[u] \in {"loading", "undo"} => mine[u] # i
    BY ONLY PlanInv, <1>1, <1>2, t \in Thread DEF PlanInv, Phases
  <2>4. \A u \in Thread : pc[u] = "leased" => mine[u] # i
    BY ONLY PlanInv, <1>1, <1>2 DEF PlanInv, Phases
  <2> QED BY ONLY PlanInv, <1>1, <1>2, <1>4, <2>1, <2>2, <2>3, <2>4 DEF PlanInv, Phases, Holding
<1> QED BY <1>8, <1>9, <1>10, <1>11 DEF PlanInv

(* What an eviction of the entries out by goroutine t comes to: nobody has  *)
(* one of them, and after is the table counted anew.                        *)
Evicts(t, after, used, out) ==
    /\ DOMAIN after = LivePlans
    /\ \A j \in LivePlans : /\ after[j] \in PlanEntry /\ after[j].of = plan[j].of
                            /\ after[j].ready = plan[j].ready /\ after[j].err = plan[j].err
                            /\ after[j].refs = Cardinality(Users(j)')
    /\ used \subseteq LoadedPlans \X LoadedPlans
    /\ out \subseteq {entries[p] : p \in Plan} \ {None}
    /\ \A j \in out : after[j].refs = 0
    /\ mine' \in [Thread -> Nat \cup {None}] /\ mine'[t] = None
    /\ \A u \in Thread \ {t} : mine'[u] = mine[u]
    /\ pc' = [pc EXCEPT ![t] = "releasing"] /\ cancelled' \in [Thread -> BOOLEAN]
    /\ entries' = [p \in Plan |-> IF entries[p] \in out THEN None ELSE entries[p]]
    /\ older' = {pair \in used : pair[1] \notin out /\ pair[2] \notin out}
    /\ plan' = [j \in LivePlans' |-> after[j]]

(* Entries nobody has leave the table, and nothing else does. *)
LEMMA EvictsPlans ==
    ASSUME PlanInv, NEW t \in Thread, NEW after, NEW used, NEW out,
           Evicts(t, after, used, out)
    PROVE  PlanInv'
<1> USE DEF Evicts
<1>1. /\ \A p \in Plan : entries[p] \notin out => entries'[p] = entries[p]
      /\ \A p \in Plan : entries[p] \in out => entries'[p] = None
  OBVIOUS
<1>2. LivePlans' \subseteq LivePlans
  BY ONLY Evicts(t, after, used, out), <1>1 DEF LivePlans
<1>3. \A j \in LivePlans' : j \notin out
  <2> SUFFICES ASSUME NEW j \in LivePlans', j \in out PROVE FALSE
    OBVIOUS
  <2>1. j \in LivePlans
    BY <1>2
  <2>2. Cardinality(Users(j)') = 0
    BY <2>1
  <2>3. IsFiniteSet(Users(j)')
    BY FiniteAssumption, FS_Subset DEF Users
  <2>4. Users(j)' = {}
    BY ONLY <2>2, <2>3, FS_EmptySet
  <2>5. \A u \in Thread : mine'[u] # j
    BY ONLY <2>4 DEF Users
  <2>6. PICK p \in Plan : j = entries'[p] /\ j # None
    BY ONLY <2>5, j \in LivePlans' DEF LivePlans
  <2> QED BY ONLY <1>1, <2>6, j \in out
<1>4. \A j \in LivePlans' : /\ plan'[j] \in PlanEntry /\ plan'[j].of = plan[j].of
                            /\ plan'[j].ready = plan[j].ready /\ plan'[j].err = plan[j].err
                            /\ plan'[j].refs = Cardinality(Users(j)')
  BY <1>2
<1>5. DOMAIN plan' = LivePlans' /\ plan' = [j \in LivePlans' |-> plan'[j]]
  OBVIOUS
<1>6. \A p \in Plan : entries'[p] # None => entries'[p] = entries[p] /\ entries'[p] \in LivePlans'
  BY ONLY <1>1 DEF LivePlans
<1>7. PlanTypes'
  <2>1. plan' \in [LivePlans' -> PlanEntry]
    BY ONLY <1>4, <1>5
  <2>2. entries' \in [Plan -> Nat \cup {None}]
    BY ONLY PlanInv, Evicts(t, after, used, out)
       DEF PlanInv, PlanTypes
  <2>3. older' \subseteq LoadedPlans' \X LoadedPlans'
    <3>1. ASSUME NEW j \in LoadedPlans, j \notin out PROVE j \in LoadedPlans'
      <4>1. PICK p \in Plan : j = entries[p] /\ j # None /\ plan[j].ready
        BY DEF LoadedPlans
      <4>2. entries'[p] = j /\ j \in LivePlans'
        BY ONLY <1>1, <1>6, <3>1, <4>1
      <4> QED BY ONLY <1>4, <4>1, <4>2 DEF LoadedPlans
    <3> QED BY <3>1
  <2>4. pc' \in [Thread -> {"idle", "loading", "undo", "waiting", "leased", "releasing"}]
    BY ONLY PlanInv, Evicts(t, after, used, out), t \in Thread DEF PlanInv, PlanTypes
  <2> QED BY <2>1, <2>2, <2>3, <2>4 DEF PlanTypes
<1>8. Counted'
  BY ONLY <1>4 DEF Counted
<1>9. InTable'
  <2>1. \A p \in Plan : entries'[p] # None => plan'[entries'[p]].of = p
    BY ONLY PlanInv, <1>2, <1>4, <1>6 DEF PlanInv, InTable
  <2>2. ASSUME NEW j \in LivePlans'
        PROVE  IF plan'[j].err THEN plan'[j].ready /\ entries'[plan'[j].of] # j
               ELSE entries'[plan'[j].of] = j
    <3>1. j \in LivePlans /\ j \notin out /\ j # None
      BY <1>2, <1>3 DEF LivePlans
    <3>2. plan[j].of \in Plan
      BY ONLY PlanInv, <3>1 DEF PlanInv, PlanTypes, PlanEntry
    <3> QED BY ONLY PlanInv, <1>1, <1>4, <1>6, <3>1, <3>2, j \in LivePlans' DEF PlanInv, InTable
  <2> QED BY ONLY <2>1, <2>2 DEF InTable
<1>10. Phases'
  <2>1. pc'[t] = "releasing" /\ \A u \in Thread \ {t} : pc'[u] = pc[u]
    BY ONLY PlanInv, Evicts(t, after, used, out), t \in Thread DEF PlanInv, PlanTypes
  <2>2. \A u \in Thread : mine'[u] # None => mine'[u] \in LivePlans'
    BY DEF LivePlans
  <2>3. mine'[t] = None /\ \A u \in Thread \ {t} : mine'[u] = mine[u]
    OBVIOUS
  <2> QED BY ONLY PlanInv, <1>4, <2>1, <2>2, <2>3 DEF PlanInv, Phases, Holding
<1> QED BY <1>7, <1>8, <1>9, <1>10 DEF PlanInv

(* A lease is given up; the oldest idle entries beyond MaxIdle are evicted. *)
LEMMA ReleasesPlan ==
    ASSUME PlanInv, NEW t \in Thread, Release(t)
    PROVE  PlanInv'
<1>1. PICK i : i = mine[t]
  OBVIOUS
<1>0. pc[t] = "leased"
  BY DEF Release
<1>2. /\ pc[t] = "leased" /\ i \in LivePlans /\ i # None /\ plan[i].ready /\ ~plan[i].err
      /\ plan[i] \in PlanEntry /\ plan[i].of \in Plan /\ entries[plan[i].of] = i
  <2>1. mine[t] # None /\ plan[mine[t]].ready /\ ~plan[mine[t]].err
    BY ONLY PlanInv, <1>0, t \in Thread DEF PlanInv, Phases, Holding
  <2>2. i \in LivePlans
    BY ONLY <1>1, <2>1, t \in Thread DEF LivePlans
  <2>3. plan[i] \in PlanEntry
    BY ONLY PlanInv, <2>2 DEF PlanInv, PlanTypes
  <2>4. plan[i].of \in Plan
    BY ONLY <2>3 DEF PlanEntry
  <2>5. entries[plan[i].of] = i
    BY ONLY PlanInv, <1>1, <2>1, <2>2 DEF PlanInv, InTable
  <2> QED BY ONLY <1>0, <1>1, <2>1, <2>2, <2>3, <2>4, <2>5
<1> PICK after : after = [plan EXCEPT ![i].refs = Less(@)]
  OBVIOUS
<1> PICK used : used = Touched(i)
  OBVIOUS
<1> DEFINE idle == {e \in {entries[p] : p \in Plan} \ {None} : after[e].refs = 0}
           evicted == {e \in idle : Cardinality({f \in idle : e \in Before(idle, used, f)}) >= MaxIdle}
<1> PICK out : out = evicted
  OBVIOUS
<1>3. /\ after = [plan EXCEPT ![i].refs = Less(@)]
      /\ used = Touched(i)
      /\ out \subseteq {e \in {entries[p] : p \in Plan} \ {None} : after[e].refs = 0}
      /\ entries' = [p \in Plan |-> IF entries[p] \in out THEN None ELSE entries[p]]
      /\ older' = {pair \in used : pair[1] \notin out /\ pair[2] \notin out}
      /\ plan' = [j \in LivePlans' |-> after[j]]
  <2>1. Evict(t, after, used, out, OldestFirst(out, used))
    BY <1>1, <1>2 DEF Release
  <2>2. out \subseteq {e \in {entries[p] : p \in Plan} \ {None} : after[e].refs = 0}
    OBVIOUS
  <2>3. /\ entries' = [p \in Plan |-> IF entries[p] \in out THEN None ELSE entries[p]]
        /\ older' = {pair \in used : pair[1] \notin out /\ pair[2] \notin out}
        /\ plan' = [j \in LivePlans' |-> after[j]]
    BY ONLY <2>1 DEF Evict, Kept
  <2> QED BY <2>2, <2>3
<1>4. /\ mine' = [mine EXCEPT ![t] = None] /\ cancelled' = [cancelled EXCEPT ![t] = FALSE]
      /\ pc' = [pc EXCEPT ![t] = "releasing"]
  BY DEF Release, Goto
<1>5. /\ mine' \in [Thread -> Nat \cup {None}] /\ mine'[t] = None
      /\ \A u \in Thread \ {t} : mine'[u] = mine[u]
      /\ cancelled' \in [Thread -> BOOLEAN]
  BY ONLY PlanInv, <1>4, t \in Thread DEF PlanInv, PlanTypes
<1>6. /\ Cardinality(Users(i)') = Cardinality(Users(i)) - 1
      /\ Cardinality(Users(i)) \in Nat /\ Cardinality(Users(i)) > 0
      /\ Cardinality(Users(i)') \in Nat
      /\ \A j : j # i /\ j # None => Users(j)' = Users(j)
  BY <1>1, <1>2, <1>4, UserLeaves DEF PlanInv
<1>7. plan[i].refs = Cardinality(Users(i))
  BY ONLY PlanInv, <1>2 DEF PlanInv, Counted
<1>8. /\ DOMAIN after = LivePlans
      /\ \A j \in LivePlans : j # i => after[j] = plan[j]
      /\ after[i] = [plan[i] EXCEPT !.refs = plan[i].refs - 1]
  BY ONLY PlanInv, <1>2, <1>3, <1>6, <1>7 DEF PlanInv, PlanTypes, Less
<1>9. /\ after[i] \in PlanEntry /\ after[i].of = plan[i].of /\ after[i].ready = plan[i].ready
      /\ after[i].err = plan[i].err /\ after[i].refs = Cardinality(Users(i)')
  BY ONLY <1>2, <1>6, <1>7, <1>8 DEF PlanEntry
<1>10. \A j \in LivePlans : j # i => /\ plan[j] \in PlanEntry
                                     /\ plan[j].refs = Cardinality(Users(j)')
  <2>1. \A j \in LivePlans : j # None
    BY DEF LivePlans
  <2> QED BY ONLY PlanInv, <1>6, <2>1 DEF PlanInv, PlanTypes, Counted
<1>11. \A j \in LivePlans : /\ after[j] \in PlanEntry /\ after[j].of = plan[j].of
                            /\ after[j].ready = plan[j].ready /\ after[j].err = plan[j].err
                            /\ after[j].refs = Cardinality(Users(j)')
  BY ONLY <1>8, <1>9, <1>10
<1>12. used \subseteq LoadedPlans \X LoadedPlans
  <2>1. i \in LoadedPlans
    BY ONLY <1>2 DEF LoadedPlans
  <2> QED BY <1>3, <2>1, TouchedIsTyped DEF PlanInv
<1>13. out \subseteq {entries[p] : p \in Plan} \ {None} /\ \A j \in out : after[j].refs = 0
  BY ONLY <1>3
<1>14. Evicts(t, after, used, out)
  BY ONLY <1>3, <1>4, <1>5, <1>8, <1>11, <1>12, <1>13 DEF Evicts
<1> QED BY ONLY PlanInv, <1>14, t \in Thread, EvictsPlans

(* Invalidation evicts the entries of a catalog, which are all idle. *)
LEMMA InvalidatesPlans ==
    ASSUME PlanInv, NEW t \in Thread, NEW c, InvalidateCatalog(t, c)
    PROVE  PlanInv'
<1>1. PICK out : out = EntriesOf(c)
  OBVIOUS
<1>2. /\ pc[t] = "idle" /\ mine' = mine /\ cancelled' = cancelled
      /\ pc' = [pc EXCEPT ![t] = "releasing"]
      /\ entries' = [p \in Plan |-> IF entries[p] \in out THEN None ELSE entries[p]]
      /\ older' = {pair \in older : pair[1] \notin out /\ pair[2] \notin out}
      /\ plan' = [j \in LivePlans' |-> plan[j]]
      /\ \A j \in out : plan[j].refs = 0
  BY <1>1 DEF InvalidateCatalog, Evict, Kept, Goto
<1>3. PICK after : after = plan
  OBVIOUS
<1>4. DOMAIN after = LivePlans /\ older \subseteq LoadedPlans \X LoadedPlans
  BY ONLY PlanInv, <1>3 DEF PlanInv, PlanTypes
<1>5. \A j : Users(j)' = Users(j)
  BY ONLY <1>2 DEF Users
<1>6. \A j \in LivePlans : /\ after[j] \in PlanEntry /\ after[j].of = plan[j].of
                           /\ after[j].ready = plan[j].ready /\ after[j].err = plan[j].err
                           /\ after[j].refs = Cardinality(Users(j)')
  BY ONLY PlanInv, <1>3, <1>5 DEF PlanInv, PlanTypes, Counted
<1>7. out \subseteq {entries[p] : p \in Plan} \ {None}
  BY ONLY <1>1 DEF EntriesOf
<1>8. mine' \in [Thread -> Nat \cup {None}] /\ cancelled' \in [Thread -> BOOLEAN] /\ mine'[t] = None
  BY ONLY PlanInv, <1>2, t \in Thread DEF PlanInv, PlanTypes, Phases, Holding
<1>9. PICK used : used = older
  OBVIOUS
<1>10. /\ \A u \in Thread \ {t} : mine'[u] = mine[u]
       /\ used \subseteq LoadedPlans \X LoadedPlans
       /\ \A j \in out : after[j].refs = 0
       /\ older' = {pair \in used : pair[1] \notin out /\ pair[2] \notin out}
       /\ plan' = [j \in LivePlans' |-> after[j]]
  BY ONLY <1>2, <1>3, <1>4, <1>9
<1>11. Evicts(t, after, used, out)
  BY ONLY <1>2, <1>4, <1>6, <1>7, <1>8, <1>10 DEF Evicts
<1> QED BY ONLY PlanInv, <1>11, t \in Thread, EvictsPlans

(* The steps that leave the plans alone. *)
LEMMA KeepsPlans ==
    ASSUME PlanInv, UNCHANGED <<entries, plan, older, mine>>,
           cancelled' \in [Thread -> BOOLEAN], NEW t \in Thread,
           \/ pc' = pc
           \/ pc[t] = "loading" /\ pc' = [pc EXCEPT ![t] = "undo"]
           \/ pc[t] = "releasing" /\ pc' = [pc EXCEPT ![t] = "idle"]
    PROVE  PlanInv'
<1>1. LivePlans' = LivePlans /\ LoadedPlans' = LoadedPlans /\ \A j : Users(j)' = Users(j)
  BY DEF LivePlans, LoadedPlans, Users
<1>2. PlanTypes'
  BY <1>1 DEF PlanInv, PlanTypes
<1>3. Counted' /\ InTable'
  BY <1>1 DEF PlanInv, Counted, InTable
<1>4. Phases'
  BY DEF PlanInv, PlanTypes, Phases, Holding
<1> QED BY <1>2, <1>3, <1>4 DEF PlanInv
-----------------------------------------------------------------------------
(* The assets. *)

(* Which entries of the heap are still reached. *)
LEMMA Reached ==
    \A i : i \in LiveAssets <=>
        /\ i # None
        /\ \/ \E k \in Key : i = assets[k]
           \/ \E t \in Thread, a \in Primary : i = job[t][a].id \/ i = job[t][a].outer
  BY DEF LiveAssets

(* It begins without assets. *)
LEMMA InitAssets ==
    ASSUME Init PROVE AssetInv
<1>1. LiveAssets = {}
  BY DEF Init, LiveAssets, NoJob
<1>2. DOMAIN asset = {} /\ asset \in [LiveAssets -> AssetEntry]
  BY <1>1 DEF Init
<1>3. NoJob \in JobType
  BY DEF NoJob, JobType, JobState
<1>4. <<>> \in Seq([Key -> Nat])
  OBVIOUS
<1>5. JobFacts
  BY DEF Init, JobFacts, JobIsSound, NoJob
<1> QED
  BY <1>1, <1>2, <1>3, <1>4, <1>5 DEF Init, AssetInv, AssetTypes, AssetFacts

(* What a step of job a of goroutine t comes to: the heap becomes h, of     *)
(* which the reachable part is kept, and the job j.                         *)
Moves(t, a, h, j) ==
    /\ j \in JobType /\ JobIsSound(j, h)
    /\ job' = [job EXCEPT ![t][a] = j]
    /\ LiveAssets \subseteq DOMAIN h /\ LiveAssets' \subseteq DOMAIN h
    /\ \A i \in DOMAIN h : h[i] \in AssetEntry /\ Answers(h[i])
    /\ \A i \in LiveAssets : /\ h[i].of = asset[i].of
                             /\ asset[i].as \in Key => h[i].as \in Key
    /\ asset' = [i \in LiveAssets' |-> h[i]]
    /\ assets' \in [Key -> Nat \cup {None}]
    /\ \A k \in Key : \/ assets'[k] = assets[k] \/ assets'[k] = None
                     \/ h[assets'[k]].of.key = k
    /\ loaded' \subseteq Key /\ todo' = todo /\ unloading' = unloading

(* A move of a job keeps the assets sound. *)
LEMMA MovesAssets ==
    ASSUME AssetInv, NEW t \in Thread, NEW a \in Primary, NEW h, NEW j, Moves(t, a, h, j)
    PROVE  AssetInv'
<1> USE DEF Moves
<1>1. AssetTypes'
  <2>1. asset' \in [LiveAssets' -> AssetEntry]
    OBVIOUS
  <2>2. job' \in [Thread -> [Primary -> JobType]]
    BY ONLY AssetInv, Moves(t, a, h, j), t \in Thread, a \in Primary DEF AssetInv, AssetTypes
  <2> QED BY <2>1, <2>2 DEF AssetInv, AssetTypes
<1>2. AssetFacts'
  <2>1. ASSUME NEW k \in Key, assets'[k] # None PROVE asset'[assets'[k]].of.key = k
    <3>1. assets'[k] \in LiveAssets'
      BY <2>1, Reached DEF LiveAssets
    <3>2. asset'[assets'[k]] = h[assets'[k]]
      BY <3>1
    <3>3. CASE assets'[k] = assets[k]
      <4>1. assets[k] \in LiveAssets /\ asset[assets[k]].of.key = k
        BY <2>1, <3>3 DEF LiveAssets, AssetInv, AssetFacts
      <4>2. \A i \in LiveAssets : h[i].of = asset[i].of
        BY ONLY Moves(t, a, h, j) DEF Moves
      <4> QED BY ONLY <3>2, <3>3, <4>1, <4>2
    <3> QED BY <2>1, <3>2, <3>3
  <2>2. \A i \in LiveAssets' : Answers(asset'[i])
    OBVIOUS
  <2> QED BY <2>1, <2>2 DEF AssetFacts, Answers
<1>3. JobFacts'
  <2> SUFFICES ASSUME NEW u \in Thread, NEW b \in Primary PROVE JobIsSound(job'[u][b], asset')
    BY DEF JobFacts, JobIsSound
  <2>1. \A i \in LiveAssets' : asset'[i] = h[i]
    OBVIOUS
  <2>2. job'[u][b].id # None => job'[u][b].id \in LiveAssets'
    BY DEF LiveAssets
  <2>3. job'[u][b] = IF u = t /\ b = a THEN j ELSE job[u][b]
    BY ONLY AssetInv, Moves(t, a, h, j), t \in Thread, a \in Primary, u \in Thread, b \in Primary
       DEF AssetInv, AssetTypes
  <2>4. CASE u = t /\ b = a
    BY ONLY Moves(t, a, h, j), <2>1, <2>2, <2>3, <2>4 DEF JobIsSound
  <2>5. CASE ~(u = t /\ b = a)
    <3>1. job'[u][b] = job[u][b]
      BY <2>3, <2>5
    <3>2. JobIsSound(job[u][b], asset)
      BY DEF AssetInv, JobFacts
    <3>3. job[u][b].id # None => job[u][b].id \in LiveAssets
      BY DEF LiveAssets
    <3>4. \A i \in LiveAssets : asset[i].as \in Key => h[i].as \in Key
      BY ONLY Moves(t, a, h, j) DEF Moves
    <3> QED BY ONLY <2>1, <2>2, <3>1, <3>2, <3>3, <3>4 DEF JobIsSound
  <2> QED BY <2>4, <2>5
<1> QED BY <1>1, <1>2, <1>3 DEF AssetInv

(* What is reached after a step was reached before, or is new in table or job. *)
LEMMA ReachedAfter ==
    ASSUME AssetTypes, NEW t \in Thread, NEW a \in Primary, NEW j, NEW D,
           job' = [job EXCEPT ![t][a] = j], LiveAssets \subseteq D,
           \A k \in Key : assets'[k] \in D \cup {None},
           j.id \in D \cup {None}, j.outer \in D \cup {None}
    PROVE  LiveAssets' \subseteq D
<1>1. \A u \in Thread, b \in Primary : job'[u][b] = j \/ job'[u][b] = job[u][b]
  BY DEF AssetTypes
<1>2. \A u \in Thread, b \in Primary :
          job[u][b].id \in D \cup {None} /\ job[u][b].outer \in D \cup {None}
  BY DEF LiveAssets
<1>3. \A u \in Thread, b \in Primary :
          job'[u][b].id \in D \cup {None} /\ job'[u][b].outer \in D \cup {None}
  BY ONLY <1>1, <1>2, j.id \in D \cup {None}, j.outer \in D \cup {None}
<1> QED BY ONLY <1>3, \A k \in Key : assets'[k] \in D \cup {None} DEF LiveAssets

(* What a job and the table have is in the heap. *)
LEMMA InHeap ==
    ASSUME AssetInv
    PROVE  /\ DOMAIN asset = LiveAssets /\ \A i \in LiveAssets : asset[i] \in AssetEntry
           /\ \A i \in LiveAssets : Answers(asset[i]) /\ i \in Nat /\ i # None
           /\ \A k \in Key : assets[k] # None =>
                 assets[k] \in LiveAssets /\ asset[assets[k]].of.key = k
           /\ \A t \in Thread, a \in Primary :
                 /\ job[t][a] \in JobType /\ JobIsSound(job[t][a], asset)
                 /\ job[t][a].id \in LiveAssets \cup {None}
                 /\ job[t][a].outer \in LiveAssets \cup {None}
           /\ \A k \in Key : assets[k] \in LiveAssets \cup {None}
<1>1. DOMAIN asset = LiveAssets /\ \A i \in LiveAssets : asset[i] \in AssetEntry
  BY DEF AssetInv, AssetTypes
<1>2. \A k \in Key : assets[k] \in LiveAssets \cup {None}
  BY DEF LiveAssets
<1>3. \A k \in Key : assets[k] # None => assets[k] \in LiveAssets /\ asset[assets[k]].of.key = k
  BY <1>2 DEF AssetInv, AssetFacts
<1>4. \A t \in Thread, a \in Primary :
          job[t][a].id \in LiveAssets \cup {None} /\ job[t][a].outer \in LiveAssets \cup {None}
  BY DEF LiveAssets
<1>5. \A t \in Thread, a \in Primary : job[t][a] \in JobType /\ JobIsSound(job[t][a], asset)
  BY DEF AssetInv, AssetTypes, JobFacts
<1>6. \A i \in LiveAssets : Answers(asset[i])
  BY DEF AssetInv, AssetFacts
<1>7. \A i \in LiveAssets : i \in Nat /\ i # None
  <2> SUFFICES ASSUME NEW i \in LiveAssets PROVE i \in Nat /\ i # None
    OBVIOUS
  <2>1. CASE \E k \in Key : i = assets[k]
    BY <2>1, Reached DEF AssetInv, AssetTypes
  <2>2. CASE \E t \in Thread, a \in Primary : i = job[t][a].id \/ i = job[t][a].outer
    BY <1>5, <2>2, Reached DEF JobType
  <2> QED BY <2>1, <2>2, Reached
<1> QED BY <1>1, <1>2, <1>3, <1>4, <1>5, <1>6, <1>7

(* A job looks its asset up, or makes the entry.  What it had of the heap is *)
(* the entry outer.                                                          *)
LEMMA LooksUp ==
    ASSUME AssetInv, NEW t \in Thread, NEW a \in Primary, NEW x \in Asset, NEW outer,
           job[t][a].outer = None, outer = job[t][a].id, outer # None => x.fallback = None,
           LookUp(t, a, x, outer), loaded' = loaded, todo' = todo, unloading' = unloading
    PROVE  \E h, j : Moves(t, a, h, j) /\ j.pc # "none"
<1> DEFINE went(where, id) == [pc |-> where, of |-> x, id |-> id, outer |-> outer, as |-> None]
<1>1. outer \in LiveAssets \cup {None} /\ x.key \in Key /\ outer \in Nat \cup {None}
  BY InHeap DEF Asset
<1>2. CASE assets[x.key] = None
  <2>1. PICK n : n = Fresh(asset)
    OBVIOUS
  <2>2. n \in Nat /\ n # None /\ n \notin LiveAssets
    <3>1. DOMAIN asset = LiveAssets /\ IsFiniteSet(LiveAssets)
      BY InHeap, AssetsAreFinite DEF AssetInv
    <3> QED BY <2>1, <3>1, FreshIsNew
  <2> DEFINE e == [of |-> x, ready |-> FALSE, err |-> FALSE, refs |-> 0, alias |-> None, as |-> None]
  <2> PICK h : h = [i \in LiveAssets \cup {n} |-> IF i = n THEN e ELSE asset[i]]
    OBVIOUS
  <2> PICK j : j = went("preload", n)
    OBVIOUS
  <2>3. /\ assets' = [assets EXCEPT ![x.key] = n] /\ asset' = h
        /\ job' = [job EXCEPT ![t][a] = j]
    BY <1>2, <2>1, InHeap DEF LookUp, Extended, SetJob
  <2>4. e \in AssetEntry /\ Answers(e)
    BY DEF AssetEntry, Answers
  <2>5. /\ DOMAIN h = LiveAssets \cup {n} /\ h[n] = e
        /\ \A i \in LiveAssets : h[i] = asset[i]
    BY <2>2
  <2> HIDE DEF e
  <2>6. j \in JobType /\ JobIsSound(j, h) /\ j.pc # "none" /\ j.id = n /\ j.outer = outer
    BY <1>1, <2>2 DEF JobType, JobState, JobIsSound
  <2>7. /\ assets' \in [Key -> Nat \cup {None}] /\ assets'[x.key] = n
        /\ \A k \in Key : k # x.key => assets'[k] = assets[k]
    BY <1>1, <2>2, <2>3 DEF AssetInv, AssetTypes
  <2>8. LiveAssets' \subseteq LiveAssets \cup {n}
    <3>1. \A k \in Key : assets'[k] \in (LiveAssets \cup {n}) \cup {None}
      BY <2>7, InHeap
    <3>2. AssetTypes
      BY DEF AssetInv
    <3>3. j.id \in (LiveAssets \cup {n}) \cup {None} /\ j.outer \in (LiveAssets \cup {n}) \cup {None}
      BY <1>1, <2>6
    <3>4. LiveAssets \subseteq LiveAssets \cup {n}
      OBVIOUS
    <3> QED BY ONLY <2>3, <3>1, <3>2, <3>3, <3>4, t \in Thread, a \in Primary, ReachedAfter
  <2>9. LiveAssets \cup {n} \subseteq LiveAssets'
    <3>1. n \in LiveAssets'
      BY <1>1, <2>2, <2>7 DEF LiveAssets
    <3>2. ASSUME NEW i \in LiveAssets PROVE i \in LiveAssets'
      <4>1. CASE \E k \in Key : i = assets[k]
        <5>1. PICK k \in Key : i = assets[k] /\ i # None
          BY <4>1, Reached
        <5>2. assets'[k] = i
          BY <1>2, <2>7, <5>1
        <5> QED BY <5>1, <5>2 DEF LiveAssets
      <4>2. CASE \E u \in Thread, b \in Primary : i = job[u][b].id \/ i = job[u][b].outer
        <5>1. PICK u \in Thread, b \in Primary : i = job[u][b].id \/ i = job[u][b].outer
          BY <4>2
        <5>2. i # None
          BY Reached
        <5>3. job'[u][b] = IF u = t /\ b = a THEN j ELSE job[u][b]
          BY ONLY AssetInv, <2>3, t \in Thread, a \in Primary, u \in Thread, b \in Primary
             DEF AssetInv, AssetTypes
        <5>4. i = job'[u][b].id \/ i = job'[u][b].outer
          BY ONLY <2>6, <5>1, <5>2, <5>3, job[t][a].outer = None, outer = job[t][a].id
        <5> QED BY ONLY <5>2, <5>4 DEF LiveAssets
      <4> QED BY <4>1, <4>2, Reached
    <3> QED BY <3>1, <3>2
  <2>10. LiveAssets' = LiveAssets \cup {n}
    BY <2>8, <2>9
  <2>11. asset' = [i \in LiveAssets' |-> h[i]]
    BY ONLY <2>3, <2>5, <2>10, h = [i \in LiveAssets \cup {n} |-> IF i = n THEN e ELSE asset[i]]
  <2>12. \A i \in DOMAIN h : h[i] \in AssetEntry /\ Answers(h[i])
    BY <2>4, <2>5, InHeap
  <2>13. h[assets'[x.key]].of.key = x.key
    BY <2>5, <2>7 DEF e
  <2>14. loaded' \subseteq Key
    BY DEF AssetInv, AssetTypes
  <2>15. Moves(t, a, h, j)
    BY ONLY <2>3, <2>5, <2>6, <2>7, <2>10, <2>11, <2>12, <2>13, <2>14,
            todo' = todo, unloading' = unloading DEF Moves
  <2> QED BY <2>6, <2>15
<1>3. CASE assets[x.key] # None
  <2>1. PICK i : i = assets[x.key]
    OBVIOUS
  <2> PICK j : j = IF asset[i].of = x THEN went("wait", i)
                   ELSE IF outer = None THEN Aborted ELSE went("unaliased", None)
    OBVIOUS
  <2> PICK h : h = asset
    OBVIOUS
  <2>2. assets' = assets /\ asset' = h /\ job' = [job EXCEPT ![t][a] = j]
    BY <1>3, <2>1 DEF LookUp, SetJob
  <2>3. i \in LiveAssets /\ i \in Nat /\ i # None
    BY <1>1, <1>3, <2>1, InHeap
  <2>4. /\ j \in JobType /\ JobIsSound(j, h) /\ j.pc # "none"
        /\ j.id \in LiveAssets \cup {None} /\ j.outer = outer
    <3>1. CASE asset[i].of = x
      BY <1>1, <2>3, <3>1 DEF JobType, JobState, JobIsSound
    <3>2. CASE asset[i].of # x /\ outer = None
      BY <3>2 DEF Aborted, NoJob, JobType, JobState, JobIsSound
    <3>3. CASE asset[i].of # x /\ outer # None
      BY <1>1, <3>3 DEF JobType, JobState, JobIsSound
    <3> QED BY <3>1, <3>2, <3>3
  <2>5. LiveAssets' \subseteq LiveAssets
    <3>1. \A k \in Key : assets'[k] \in LiveAssets \cup {None}
      BY <2>2, InHeap
    <3>2. AssetTypes
      BY DEF AssetInv
    <3>3. j.outer \in LiveAssets \cup {None} /\ LiveAssets \subseteq LiveAssets
      BY <1>1, <2>4
    <3> QED BY ONLY <2>2, <2>4, <3>1, <3>2, <3>3, t \in Thread, a \in Primary, ReachedAfter
  <2>6. LiveAssets \subseteq LiveAssets'
    <3> SUFFICES ASSUME NEW l \in LiveAssets PROVE l \in LiveAssets'
      OBVIOUS
    <3>1. CASE \E k \in Key : l = assets[k]
      BY <2>2, <3>1, Reached DEF LiveAssets
    <3>2. CASE \E u \in Thread, b \in Primary : l = job[u][b].id \/ l = job[u][b].outer
      <4>1. PICK u \in Thread, b \in Primary : l = job[u][b].id \/ l = job[u][b].outer
        BY <3>2
      <4>2. l # None
        BY Reached
      <4>3. job'[u][b] = IF u = t /\ b = a THEN j ELSE job[u][b]
        BY ONLY AssetInv, <2>2, t \in Thread, a \in Primary, u \in Thread, b \in Primary
           DEF AssetInv, AssetTypes
      <4>4. l = job'[u][b].id \/ l = job'[u][b].outer
        BY ONLY <2>4, <4>1, <4>2, <4>3, job[t][a].outer = None, outer = job[t][a].id
      <4> QED BY ONLY <4>2, <4>4 DEF LiveAssets
    <3> QED BY <3>1, <3>2, Reached
  <2>7. LiveAssets' = LiveAssets
    BY <2>5, <2>6
  <2>8. asset' = [l \in LiveAssets' |-> h[l]] /\ DOMAIN h = LiveAssets
    BY ONLY AssetInv, <2>2, <2>7, h = asset DEF AssetInv, AssetTypes
  <2>9. loaded' \subseteq Key /\ assets' \in [Key -> Nat \cup {None}]
    BY <2>2 DEF AssetInv, AssetTypes
  <2>10. \A l \in DOMAIN h : h[l] \in AssetEntry /\ Answers(h[l])
    BY <2>8, InHeap
  <2>11. Moves(t, a, h, j)
    BY ONLY <2>2, <2>4, <2>7, <2>8, <2>9, <2>10, h = asset, todo' = todo, unloading' = unloading
       DEF Moves
  <2> QED BY <2>4, <2>11
<1> QED BY <1>2, <1>3

(* The other steps of a job: its entries stay where they are, or leave.     *)
(* Keeps says what they have in common, so that the new job and heap remain. *)
Keeps(t, a, h, j) ==
    /\ job' = [job EXCEPT ![t][a] = j] /\ DOMAIN h = LiveAssets
    /\ asset' = [i \in LiveAssets' |-> h[i]]
    /\ assets' \in [Key -> Nat \cup {None}]
    /\ \A k \in Key : assets'[k] = assets[k] \/ assets'[k] = None
    /\ loaded' \subseteq Key /\ todo' = todo /\ unloading' = unloading

(* So does a move that looks nothing up. *)
LEMMA KeepsMoves ==
    ASSUME AssetInv, NEW t \in Thread, NEW a \in Primary, NEW h, NEW j, Keeps(t, a, h, j),
           \A i \in LiveAssets : /\ h[i] \in AssetEntry /\ Answers(h[i])
                                 /\ h[i].of = asset[i].of
                                 /\ (asset[i].as \in Key => h[i].as \in Key),
           j \in JobType, JobIsSound(j, h), j.id \in {job[t][a].id, None},
           j.outer \in {job[t][a].outer, None}
    PROVE  Moves(t, a, h, j)
<1>1. LiveAssets' \subseteq LiveAssets
  <2>1. \A k \in Key : assets'[k] \in LiveAssets \cup {None}
    BY InHeap DEF Keeps
  <2>2. j.id \in LiveAssets \cup {None} /\ j.outer \in LiveAssets \cup {None}
    BY InHeap
  <2>3. AssetTypes /\ LiveAssets \subseteq LiveAssets /\ job' = [job EXCEPT ![t][a] = j]
    BY DEF AssetInv, Keeps
  <2> QED BY ONLY <2>1, <2>2, <2>3, t \in Thread, a \in Primary, ReachedAfter
<1> QED BY <1>1 DEF Keeps, Moves

(* Each step of a job is a move. *)
LEMMA JobMoves ==
    ASSUME AssetInv, NEW t \in Thread, NEW a \in Primary, JobStep(t, a)
    PROVE  \E h, j : Moves(t, a, h, j) /\ j.pc # "none"
<1> PICK o : o = job[t][a]
  OBVIOUS
<1>0. /\ o \in JobType /\ JobIsSound(o, asset) /\ job[t][a] = o
      /\ o.id \in LiveAssets \cup {None} /\ o.outer \in LiveAssets \cup {None}
      /\ todo' = todo /\ unloading' = unloading
      /\ DOMAIN asset = LiveAssets
      /\ \A i \in LiveAssets : asset[i] \in AssetEntry /\ Answers(asset[i])
  BY InHeap DEF JobStep, JobStarts, JobCancelled, Wakes, PreloadSucceeds, PreloadFallsBack,
     PreloadFails, FallbackSucceeds, FallbackFails, Unchanged
<1>1. CASE JobStarts(t, a)
  <2>1. o.pc = "queued" /\ LookUp(t, a, a, None) /\ loaded' = loaded
    BY <1>0, <1>1 DEF JobStarts
  <2>2. a \in Asset
    BY PlanAssumption DEF Primary
  <2>3. o.id = None /\ o.outer = None
    BY <1>0, <2>1 DEF JobIsSound
  <2> QED BY <1>0, <2>1, <2>2, <2>3, LooksUp
<1>2. CASE PreloadFallsBack(t, a)
  <2>1. /\ o.pc = "preload" /\ HasFallback(o.of) /\ loaded' = loaded
        /\ LookUp(t, a, [key |-> o.of.fallback, fallback |-> None], o.id)
    BY <1>0, <1>2 DEF PreloadFallsBack
  <2>2. o.of \in Asset /\ o.of.fallback \in Key
    BY <1>0, <2>1 DEF JobIsSound, HasFallback, Asset
  <2>3. o.outer = None
    BY <1>0, <2>1, <2>2, NoneAssumption DEF JobIsSound
  <2> PICK x : x = [key |-> o.of.fallback, fallback |-> None]
    OBVIOUS
  <2>4. x \in Asset /\ x.fallback = None
    BY <2>2 DEF Asset
  <2>5. job[t][a].outer = None /\ o.id = job[t][a].id /\ LookUp(t, a, x, o.id)
    BY <1>0, <2>1, <2>3
  <2> QED BY ONLY AssetInv, <1>0, <2>1, <2>4, <2>5, t \in Thread, a \in Primary, LooksUp
(* A job that ends: aborted, or with its fallback refused. *)
<1> DEFINE ended == IF o.outer = None THEN Aborted ELSE [o EXCEPT !.pc = "unaliased", !.id = None]
<1>3. /\ ended \in JobType /\ ended.pc # "none" /\ ended.id \in {o.id, None}
      /\ ended.outer \in {o.outer, None} /\ \A h : JobIsSound(ended, h)
  BY <1>0 DEF Aborted, NoJob, JobType, JobState, JobIsSound
<1>4. assets \in [Key -> Nat \cup {None}] /\ loaded \subseteq Key
  BY DEF AssetInv, AssetTypes
<1>5. CASE JobCancelled(t, a)
  <2> PICK h, j : h = asset /\ j = ended
    OBVIOUS
  <2>1. Keeps(t, a, h, j)
    BY <1>0, <1>4, <1>5 DEF JobCancelled, Keeps, Kept, SetJob
  <2>2. Moves(t, a, h, j)
    BY <1>0, <1>3, <2>1, KeepsMoves
  <2> QED BY <1>3, <2>2
<1>6. CASE PreloadFails(t, a)
  <2>1. /\ o.pc = "preload" /\ Refused(o.id) /\ job' = [job EXCEPT ![t][a] = ended]
        /\ loaded' = loaded
    BY <1>0, <1>6 DEF PreloadFails, SetJob
  <2>2. o.id \in LiveAssets
    BY <1>0, <2>1 DEF JobIsSound
  <2> PICK h, j : /\ h = [asset EXCEPT ![o.id] = [@ EXCEPT !.ready = TRUE, !.err = TRUE]]
                  /\ j = ended
    OBVIOUS
  <2>7. /\ asset' = Kept(h, LiveAssets') /\ DOMAIN h = LiveAssets
        /\ assets' = [assets EXCEPT ![asset[o.id].of.key] = None]
    BY <1>0, <2>1 DEF Refused
  <2>8. /\ assets' \in [Key -> Nat \cup {None}]
        /\ \A k \in Key : assets'[k] = assets[k] \/ assets'[k] = None
    BY ONLY <1>4, <2>7
  <2>3. Keeps(t, a, h, j)
    BY ONLY <1>0, <1>4, <2>1, <2>7, <2>8, j = ended DEF Keeps, Kept
  <2>4. \A i \in LiveAssets : /\ h[i] \in AssetEntry /\ Answers(h[i])
                              /\ h[i].of = asset[i].of
                              /\ (asset[i].as \in Key => h[i].as \in Key)
    BY <1>0, <2>2 DEF AssetEntry, Answers
  <2>5. Moves(t, a, h, j)
    BY <1>0, <1>3, <2>3, <2>4, KeepsMoves
  <2> QED BY <1>3, <2>5
<1>7. CASE FallbackFails(t, a)
  <2>1. /\ o.pc = "unaliased" /\ Refused(o.outer) /\ job' = [job EXCEPT ![t][a] = Aborted]
        /\ loaded' = loaded
    BY <1>0, <1>7 DEF FallbackFails, SetJob
  <2>2. o.outer \in LiveAssets
    BY <1>0, <2>1 DEF JobIsSound
  <2> PICK h, j : /\ h = [asset EXCEPT ![o.outer] = [@ EXCEPT !.ready = TRUE, !.err = TRUE]]
                  /\ j = Aborted
    OBVIOUS
  <2>7. /\ asset' = Kept(h, LiveAssets') /\ DOMAIN h = LiveAssets
        /\ assets' = [assets EXCEPT ![asset[o.outer].of.key] = None]
    BY <1>0, <2>1 DEF Refused
  <2>8. /\ assets' \in [Key -> Nat \cup {None}]
        /\ \A k \in Key : assets'[k] = assets[k] \/ assets'[k] = None
    BY ONLY <1>4, <2>7
  <2>3. Keeps(t, a, h, j)
    BY ONLY <1>0, <1>4, <2>1, <2>7, <2>8, j = Aborted DEF Keeps, Kept
  <2>4. \A i \in LiveAssets : /\ h[i] \in AssetEntry /\ Answers(h[i])
                              /\ h[i].of = asset[i].of
                              /\ (asset[i].as \in Key => h[i].as \in Key)
    BY <1>0, <2>2 DEF AssetEntry, Answers
  <2>5. j \in JobType /\ j.pc # "none" /\ j.id = None /\ j.outer = None /\ JobIsSound(j, h)
    BY DEF Aborted, NoJob, JobType, JobState, JobIsSound
  <2>6. Moves(t, a, h, j)
    BY <1>0, <2>3, <2>4, <2>5, KeepsMoves
  <2> QED BY <2>5, <2>6
<1>8. CASE PreloadSucceeds(t, a)
  <2> PICK h, j : /\ h = Published(o.id, None, o.of.key)
                  /\ j = IF o.outer = None THEN Loaded(o.of.key) ELSE [o EXCEPT !.pc = "aliased"]
    OBVIOUS
  <2>1. /\ o.pc = "preload" /\ job' = [job EXCEPT ![t][a] = j] /\ assets' = assets
        /\ loaded' = loaded \cup {o.of.key} /\ asset' = Kept(h, LiveAssets')
    BY <1>0, <1>8 DEF PreloadSucceeds, SetJob
  <2>2. o.id \in LiveAssets /\ o.of.key \in Key
    BY <1>0, <2>1 DEF JobIsSound, Asset
  <2>3. Keeps(t, a, h, j)
    BY <1>0, <1>4, <2>1, <2>2 DEF Keeps, Kept, Published
  <2>4. \A i \in LiveAssets : /\ h[i] \in AssetEntry /\ Answers(h[i])
                              /\ h[i].of = asset[i].of
                              /\ (asset[i].as \in Key => h[i].as \in Key)
    BY <1>0, <2>2 DEF AssetEntry, Answers, Published
  <2>5. h[o.id].as \in Key
    BY <1>0, <2>2 DEF Published, AssetEntry
  <2>6. /\ j \in JobType /\ j.pc # "none" /\ j.id \in {o.id, None} /\ j.outer \in {o.outer, None}
        /\ JobIsSound(j, h)
    BY <1>0, <2>1, <2>2, <2>5 DEF Loaded, NoJob, JobType, JobState, JobIsSound
  <2>7. Moves(t, a, h, j)
    BY <1>0, <2>3, <2>4, <2>6, KeepsMoves
  <2> QED BY <2>6, <2>7
<1>9. CASE FallbackSucceeds(t, a)
  <2> PICK h, j : /\ h = Published(o.outer, o.of.key, asset[o.id].as)
                  /\ j = Loaded(asset[o.id].as)
    OBVIOUS
  <2>1. /\ o.pc = "aliased" /\ job' = [job EXCEPT ![t][a] = j] /\ assets' = assets
        /\ loaded' = loaded /\ asset' = Kept(h, LiveAssets')
    BY <1>0, <1>9 DEF FallbackSucceeds, SetJob
  <2>2. o.outer \in LiveAssets /\ o.of.key \in Key /\ asset[o.id].as \in Key
    BY <1>0, <2>1 DEF JobIsSound, Asset
  <2>3. Keeps(t, a, h, j)
    BY <1>0, <1>4, <2>1, <2>2 DEF Keeps, Kept, Published
  <2>4. \A i \in LiveAssets : /\ h[i] \in AssetEntry /\ Answers(h[i])
                              /\ h[i].of = asset[i].of
                              /\ (asset[i].as \in Key => h[i].as \in Key)
    BY <1>0, <2>2 DEF AssetEntry, Answers, Published
  <2>5. /\ j \in JobType /\ j.pc # "none" /\ j.id = None /\ j.outer = None /\ JobIsSound(j, h)
    BY <2>2 DEF Loaded, NoJob, JobType, JobState, JobIsSound
  <2>6. Moves(t, a, h, j)
    BY <1>0, <2>3, <2>4, <2>5, KeepsMoves
  <2> QED BY <2>5, <2>6
<1>10. CASE Wakes(t, a)
  <2> PICK e : e = asset[o.id]
    OBVIOUS
  <2> PICK h, j :
          /\ h = IF e.err THEN asset ELSE [asset EXCEPT ![o.id].refs = @ + 1]
          /\ j = IF o.outer = None THEN (IF e.err THEN Aborted ELSE Loaded(e.as))
                 ELSE IF e.err THEN [o EXCEPT !.pc = "unaliased", !.id = None]
                 ELSE [o EXCEPT !.pc = "aliased"]
    OBVIOUS
  <2>1. /\ o.pc = "wait" /\ e.ready /\ job' = [job EXCEPT ![t][a] = j] /\ assets' = assets
        /\ loaded' = loaded /\ asset' = Kept(h, LiveAssets')
    BY <1>0, <1>10 DEF Wakes, SetJob
  <2>2. o.id \in LiveAssets /\ e \in AssetEntry /\ o.of \in Asset /\ (~e.err => e.as \in Key)
    BY <1>0, <2>1 DEF JobIsSound, Answers
  <2>3. Keeps(t, a, h, j)
    BY <1>0, <1>4, <2>1, <2>2 DEF Keeps, Kept
  <2>4. /\ \A i \in LiveAssets : /\ h[i] \in AssetEntry /\ Answers(h[i])
                                 /\ h[i].of = asset[i].of
                                 /\ (asset[i].as \in Key => h[i].as \in Key)
        /\ ~e.err => h[o.id].as \in Key
    <3>1. CASE e.err
      BY <1>0, <2>2, <3>1
    <3>2. CASE ~e.err
      <4>1. \A i \in LiveAssets : i # o.id => h[i] = asset[i]
        BY <1>0, <2>2, <3>2
      <4>2. h[o.id] = [e EXCEPT !.refs = e.refs + 1]
        BY <1>0, <2>2, <3>2
      <4>3. /\ h[o.id] \in AssetEntry /\ Answers(h[o.id]) /\ h[o.id].of = asset[o.id].of
            /\ h[o.id].as \in Key
        BY <2>2, <3>2, <4>2 DEF AssetEntry, Answers
      <4> QED BY <1>0, <4>1, <4>3
    <3> QED BY <3>1, <3>2
  <2>5. /\ j \in JobType /\ j.pc # "none" /\ j.id \in {o.id, None} /\ j.outer \in {o.outer, None}
        /\ JobIsSound(j, h)
    <3>1. CASE o.outer = None
      BY <1>0, <2>1, <2>2, <2>4, <3>1 DEF Loaded, Aborted, NoJob, JobType, JobState, JobIsSound
    <3>2. CASE o.outer # None
      BY <1>0, <2>1, <2>2, <2>4, <3>2 DEF Loaded, Aborted, NoJob, JobType, JobState, JobIsSound
    <3> QED BY <3>1, <3>2
  <2>6. Moves(t, a, h, j)
    BY <1>0, <2>3, <2>4, <2>5, KeepsMoves
  <2> QED BY <2>5, <2>6
<1> QED BY <1>1, <1>2, <1>5, <1>6, <1>7, <1>8, <1>9, <1>10 DEF JobStep

(* The steps that leave table, heap and jobs alone. *)
LEMMA KeepsAssets ==
    ASSUME AssetInv, UNCHANGED <<assets, asset, job>>, loaded' \subseteq Key,
           todo' \in [Thread -> Seq([Key -> Nat])], unloading' \in [Thread -> SUBSET Key]
    PROVE  AssetInv'
<1>1. LiveAssets' = LiveAssets
  BY DEF LiveAssets
<1>2. AssetTypes'
  BY <1>1 DEF AssetInv, AssetTypes
<1>3. AssetFacts' /\ JobFacts'
  BY <1>1 DEF AssetInv, AssetFacts, JobFacts, Answers, JobIsSound
<1> QED BY <1>2, <1>3 DEF AssetInv

(* A goroutine gets jobs, or is done with them: they have no entries. *)
LEMMA ResetsJobs ==
    ASSUME AssetInv, UNCHANGED <<assets, asset, loaded, unloading>>,
           todo' \in [Thread -> Seq([Key -> Nat])], NEW t \in Thread, NEW f,
           job' = [job EXCEPT ![t] = f], f \in [Primary -> JobType],
           \A a \in Primary : f[a].pc \in {"none", "queued"} /\ f[a].id = None /\ f[a].outer = None,
           \A a \in Primary : job[t][a].pc \in {"none", "done", "failed"}
    PROVE  AssetInv'
<1>1. \A a \in Primary : job[t][a].id = None /\ job[t][a].outer = None
  BY InHeap DEF JobIsSound
<1>2. /\ job'[t] = f /\ \A u \in Thread \ {t} : job'[u] = job[u]
      /\ job' \in [Thread -> [Primary -> JobType]]
  BY DEF AssetInv, AssetTypes
<1>3. LiveAssets' = LiveAssets
  <2>1. ASSUME NEW u \in Thread, NEW a \in Primary
        PROVE  job'[u][a].id = job[u][a].id /\ job'[u][a].outer = job[u][a].outer
    <3>1. CASE u = t
      BY <1>1, <1>2, <3>1
    <3>2. CASE u # t
      BY <1>2, <3>2
    <3> QED BY <3>1, <3>2
  <2> QED BY ONLY <2>1, assets' = assets DEF LiveAssets
<1>4. AssetTypes'
  BY <1>2, <1>3 DEF AssetInv, AssetTypes
<1>5. AssetFacts'
  BY <1>3 DEF AssetInv, AssetFacts, Answers
<1>6. JobFacts'
  <2> SUFFICES ASSUME NEW u \in Thread, NEW a \in Primary PROVE JobIsSound(job'[u][a], asset')
    BY DEF JobFacts, JobIsSound
  <2>1. CASE u = t
    BY <1>2, <2>1 DEF JobIsSound
  <2>2. CASE u # t
    <3>1. job'[u][a] = job[u][a] /\ asset' = asset /\ JobIsSound(job[u][a], asset)
      BY <1>2, <2>2, InHeap
    <3> QED BY ONLY <3>1 DEF JobIsSound
  <2> QED BY <2>1, <2>2
<1> QED BY <1>4, <1>5, <1>6 DEF AssetInv

(* What an eviction leaves to be given up is well typed. *)
LEMMA EvictedIsTyped ==
    ASSUME PlanTypes, NEW out, out \subseteq {entries[p] : p \in Plan} \ {None}, NEW sequence
    PROVE  [n \in 1..Cardinality(out) |-> Once(KeysOf(sequence[n]))] \in Seq([Key -> Nat])
<1> DEFINE E == {entries[p] : p \in Plan}
<1>1. IsFiniteSet(E)
  BY FiniteImage, FiniteAssumption DEF PlanTypes
<1>2. out \subseteq E
  OBVIOUS
<1>3. Cardinality(out) \in Nat
  <2> HIDE DEF E
  <2> QED BY <1>1, <1>2, FS_Subset, FS_CardinalityType
<1>4. \A keys : Once(keys) \in [Key -> Nat]
  BY DEF Once
<1>5. PICK c \in Nat : c = Cardinality(out)
  BY <1>3
<1>6. [n \in 1..c |-> Once(KeysOf(sequence[n]))] \in Seq([Key -> Nat])
  BY ONLY <1>4, c \in Nat
<1> QED BY <1>5, <1>6

(* The assets of a list are given up: what is left of the table is typed,   *)
(* and no count falls below zero.                                           *)
LEMMA GivesUpAssets ==
    ASSUME AssetInv, NEW t \in Thread, ReleaseAssets(t)
    PROVE  AssetInv'
<1> PICK count : count = Head(todo[t])
  OBVIOUS
<1> DEFINE heldSet == {k \in Key : count[k] > 0 /\ assets[k] # None}
<1> PICK held : held = heldSet
  OBVIOUS
<1> DEFINE droppedSet == {k \in held : asset[assets[k]].refs <= count[k]}
<1> PICK dropped : dropped = droppedSet
  OBVIOUS
<1> PICK aliases : aliases = AliasesOf(dropped)
  OBVIOUS
<1> PICK h : h = [i \in DOMAIN asset |->
           IF \E k \in held \ dropped : assets[k] = i
           THEN [asset[i] EXCEPT !.refs = @ - count[asset[i].of.key]] ELSE asset[i]]
  OBVIOUS
<1>1. /\ todo[t] # <<>> /\ loaded' = loaded /\ job' = job
      /\ assets' = [k \in Key |-> IF k \in dropped THEN None ELSE assets[k]]
      /\ asset' = [i \in LiveAssets' |-> h[i]]
      /\ unloading' = [unloading EXCEPT ![t] = {asset[assets[k]].as :
             k \in {d \in dropped : asset[assets[d]].alias = None}} \ {None}]
      /\ todo' = [todo EXCEPT ![t] =
             (IF \E k \in Key : aliases[k] > 0 THEN <<aliases>> ELSE <<>>) \o Tail(@)]
  BY DEF ReleaseAssets, Kept
<1>2. /\ held \subseteq Key /\ dropped \subseteq held
      /\ \A k \in held : count[k] > 0 /\ assets[k] # None
      /\ \A k \in held \ dropped : ~(asset[assets[k]].refs <= count[k])
  OBVIOUS
<1>3. todo[t] \in Seq([Key -> Nat])
  BY DEF AssetInv, AssetTypes
<1>4. count \in [Key -> Nat] /\ Tail(todo[t]) \in Seq([Key -> Nat])
  BY ONLY <1>1, <1>3, count = Head(todo[t])
<1>5. \A i \in LiveAssets : /\ h[i] \in AssetEntry /\ h[i].of = asset[i].of
                            /\ h[i].as = asset[i].as /\ Answers(h[i])
  <2> SUFFICES ASSUME NEW i \in LiveAssets
               PROVE  /\ h[i] \in AssetEntry /\ h[i].of = asset[i].of
                      /\ h[i].as = asset[i].as /\ Answers(h[i])
    OBVIOUS
  <2>1. asset[i] \in AssetEntry /\ Answers(asset[i]) /\ DOMAIN asset = LiveAssets
    BY InHeap
  <2>2. CASE \E k \in held \ dropped : assets[k] = i
    <3>1. PICK k \in held \ dropped : assets[k] = i
      BY <2>2
    <3>2. asset[i].of.key = k /\ k \in Key
      BY <1>2, <3>1, InHeap
    <3>3. h[i] = [asset[i] EXCEPT !.refs = asset[i].refs - count[k]]
      BY <2>1, <2>2, <3>2
    <3>4. asset[i].refs \in Nat /\ count[k] \in Nat /\ ~(asset[i].refs <= count[k])
      BY <1>2, <1>4, <2>1, <3>1, <3>2 DEF AssetEntry
    <3>5. asset[i].refs - count[k] \in Nat
      BY ONLY <3>4
    <3> QED BY ONLY <2>1, <3>3, <3>5 DEF AssetEntry, Answers
  <2>3. CASE ~ \E k \in held \ dropped : assets[k] = i
    <3>1. h[i] = asset[i]
      BY <2>1, <2>3
    <3> QED BY ONLY <2>1, <3>1
  <2> QED BY <2>2, <2>3
<1>6. LiveAssets' \subseteq LiveAssets
  <2>1. \A k \in Key : assets'[k] = assets[k] \/ assets'[k] = None
    BY ONLY <1>1
  <2> QED BY ONLY <1>1, <2>1 DEF LiveAssets
<1>7. aliases \in [Key -> Nat]
  <2> SUFFICES ASSUME NEW k \in Key
               PROVE  Cardinality({d \in dropped : asset[assets[d]].alias = k}) \in Nat
    BY DEF AliasesOf
  <2>1. {d \in dropped : asset[assets[d]].alias = k} \subseteq Key
    BY <1>2
  <2> QED BY <2>1, FiniteAssumption, FS_Subset, FS_CardinalityType
<1>8. todo' \in [Thread -> Seq([Key -> Nat])]
  <2> PICK front : front = IF \E k \in Key : aliases[k] > 0 THEN <<aliases>> ELSE <<>>
    OBVIOUS
  <2>1. front \in Seq([Key -> Nat])
    <3> PICK F : F = [Key -> Nat]
      OBVIOUS
    <3>1. aliases \in F
      BY <1>7
    <3>2. <<aliases>> \in Seq(F) /\ <<>> \in Seq(F)
      BY ONLY <3>1
    <3>3. front = <<aliases>> \/ front = <<>>
      OBVIOUS
    <3>4. front \in Seq(F)
      BY ONLY <3>2, <3>3
    <3> QED BY <3>4
  <2>2. front \o Tail(todo[t]) \in Seq([Key -> Nat])
    BY ONLY <1>4, <2>1
  <2>3. todo' = [todo EXCEPT ![t] = front \o Tail(todo[t])]
    BY <1>1
  <2> QED BY ONLY AssetInv, <2>2, <2>3, t \in Thread DEF AssetInv, AssetTypes
<1>9. unloading' \in [Thread -> SUBSET Key]
  <2> DEFINE out == {asset[assets[k]].as : k \in {d \in dropped : asset[assets[d]].alias = None}} \ {None}
  <2>1. out \subseteq Key
    <3> SUFFICES ASSUME NEW k \in dropped, asset[assets[k]].as # None
                 PROVE  asset[assets[k]].as \in Key
      OBVIOUS
    <3>1. assets[k] \in LiveAssets
      BY <1>2, InHeap
    <3> QED BY <3>1, InHeap DEF AssetEntry
  <2>2. unloading' = [unloading EXCEPT ![t] = out]
    BY <1>1
  <2> HIDE DEF out
  <2> QED BY ONLY AssetInv, <2>1, <2>2, t \in Thread DEF AssetInv, AssetTypes
<1>10. AssetTypes'
  <2>1. asset' \in [LiveAssets' -> AssetEntry]
    BY ONLY <1>1, <1>5, <1>6
  <2>2. assets' \in [Key -> Nat \cup {None}]
    BY ONLY AssetInv, <1>1 DEF AssetInv, AssetTypes
  <2>3. loaded' \subseteq Key /\ job' \in [Thread -> [Primary -> JobType]]
    BY ONLY AssetInv, <1>1 DEF AssetInv, AssetTypes
  <2> QED BY ONLY <1>8, <1>9, <2>1, <2>2, <2>3 DEF AssetTypes
<1>11. \A i \in LiveAssets' : asset'[i] = h[i] /\ i \in LiveAssets
  BY ONLY <1>1, <1>6
<1>12. AssetFacts'
  <2>1. ASSUME NEW k \in Key, assets'[k] # None PROVE asset'[assets'[k]].of.key = k
    <3>1. assets'[k] = assets[k] /\ assets'[k] \in LiveAssets'
      BY ONLY <1>1, <2>1, k \in Key DEF LiveAssets
    <3>2. asset[assets[k]].of.key = k
      BY <2>1, <3>1, InHeap
    <3> QED BY ONLY <1>5, <1>11, <3>1, <3>2
  <2>2. \A i \in LiveAssets' : Answers(asset'[i])
    BY ONLY <1>5, <1>11
  <2> QED BY ONLY <2>1, <2>2 DEF AssetFacts, Answers
<1>13. JobFacts'
  <2> SUFFICES ASSUME NEW u \in Thread, NEW b \in Primary PROVE JobIsSound(job'[u][b], asset')
    BY DEF JobFacts, JobIsSound
  <2>1. job'[u][b] = job[u][b] /\ JobIsSound(job[u][b], asset)
    BY <1>1, InHeap
  <2>2. job'[u][b].id # None => job'[u][b].id \in LiveAssets'
    BY DEF LiveAssets
  <2> QED BY ONLY <1>5, <1>11, <2>1, <2>2 DEF JobIsSound
<1> QED BY <1>10, <1>12, <1>13 DEF AssetInv
-----------------------------------------------------------------------------
(* Who loads, and the theorems. *)

(* The steps of a job, and those that change no job. *)
LEMMA KeepsJobs ==
    ASSUME IInv, NEW t \in Thread, NEW a \in Primary, NEW h, NEW j,
           Moves(t, a, h, j), j.pc # "none", UNCHANGED <<plan, pc, mine>>, pc[t] = "loading"
    PROVE  JobsTaken'
<1>1. \A u \in Thread, b \in Primary : job'[u][b] = IF u = t /\ b = a THEN j ELSE job[u][b]
  BY DEF Moves, IInv, AssetInv, AssetTypes
<1>2. \A u \in Thread : pc[u] = "loading" /\ plan[mine[u]].of \in Trusted =>
          AssetsOf[plan[mine[u]].of] \subseteq Primary
  BY PlanAssumption DEF Primary
<1> QED BY ONLY IInv, <1>1, <1>2, j.pc # "none", pc[t] = "loading", UNCHANGED <<plan, pc, mine>>
       DEF IInv, JobsTaken

(* No job is begun or reset, and the plans that are loaded stay the same. *)
LEMMA SameJobs ==
    ASSUME IInv, job' = job,
           \A u \in Thread : pc'[u] = "loading" =>
               pc[u] = "loading" /\ mine'[u] = mine[u] /\ plan'[mine[u]].of = plan[mine[u]].of,
           \A u \in Thread : pc[u] = "loading" => pc'[u] = "loading"
    PROVE  JobsTaken'
  BY DEF IInv, JobsTaken

(* A goroutine that loads has its entry, and the step of another leaves it. *)
LEMMA JobsAfter ==
    ASSUME IInv, NEW t \in Thread, NEW where, where # "loading", pc[t] # "loading",
           pc' = [pc EXCEPT ![t] = where], job' = job,
           \A u \in Thread \ {t} : mine'[u] = mine[u],
           \A i \in LivePlans : i \in LivePlans' => plan'[i].of = plan[i].of
    PROVE  JobsTaken'
<1>1. \A u \in Thread \ {t} : pc'[u] = pc[u] /\ pc'[t] = where
  BY DEF IInv, PlanInv, PlanTypes
<1>2. \A u \in Thread : pc[u] = "loading" => mine[u] \in LivePlans
  BY DEF IInv, PlanInv, Phases, Holding, LivePlans
<1>3. \A u \in Thread \ {t} : pc[u] = "loading" => mine[u] \in LivePlans'
  <2> SUFFICES ASSUME NEW u \in Thread \ {t}, pc[u] = "loading" PROVE mine[u] \in LivePlans'
    OBVIOUS
  <2>1. mine'[u] = mine[u] /\ mine[u] # None
    BY <1>2 DEF LivePlans
  <2> QED BY ONLY <2>1, u \in Thread \ {t} DEF LivePlans
<1> QED BY <1>1, <1>2, <1>3, SameJobs

(* Each step preserves the invariant; here the one that adds an entry. *)
LEMMA CreatesStep ==
    ASSUME IInv, NEW t \in Thread, NEW p \in Plan, AcquireCreates(t, p)
    PROVE  IInv'
<1>1. PlanInv /\ AssetInv /\ JobsTaken
  BY DEF IInv
<1>2. PlanInv'
  BY <1>1, CreatesPlan
<1> DEFINE g == [a \in Primary |->
        IF p \in Trusted /\ a \in AssetsOf[p] THEN [NoJob EXCEPT !.pc = "queued"] ELSE NoJob]
<1> PICK f : f = g
  OBVIOUS
<1>3. /\ job' = [job EXCEPT ![t] = f] /\ pc' = [pc EXCEPT ![t] = "loading"] /\ pc[t] = "idle"
      /\ UNCHANGED <<assets, asset, loaded, unloading, todo>>
  BY DEF AcquireCreates, Goto
<1>4. /\ f \in [Primary -> JobType]
      /\ \A a \in Primary : /\ f[a].pc \in {"none", "queued"} /\ f[a].id = None
                            /\ f[a].outer = None
                            /\ p \in Trusted /\ a \in AssetsOf[p] => f[a].pc # "none"
  BY DEF NoJob, JobType, JobState
<1>5. todo' \in [Thread -> Seq([Key -> Nat])]
  BY ONLY <1>1, <1>3 DEF AssetInv, AssetTypes
<1>6. \A a \in Primary : job[t][a].pc = "none"
  BY ONLY <1>1, <1>3, t \in Thread DEF JobsTaken
<1>7. AssetInv'
  BY ONLY <1>1, <1>3, <1>4, <1>5, <1>6, t \in Thread, ResetsJobs
<1>8. JobsTaken'
  <2>1. /\ pc'[t] = "loading" /\ \A u \in Thread \ {t} : pc'[u] = pc[u]
        /\ job'[t] = f /\ \A u \in Thread \ {t} : job'[u] = job[u]
    BY ONLY <1>1, <1>3, t \in Thread DEF PlanInv, PlanTypes, AssetInv, AssetTypes
  <2>2. plan'[mine'[t]].of = p
    <3>1. mine'[t] = Fresh(plan)
      BY <1>1 DEF AcquireCreates, PlanInv, PlanTypes
    <3> QED BY <3>1 DEF AcquireCreates, Extended
  <2>3. \A u \in Thread \ {t} : pc[u] = "loading" =>
            mine'[u] = mine[u] /\ plan'[mine[u]].of = plan[mine[u]].of
    <3> SUFFICES ASSUME NEW u \in Thread \ {t}, pc[u] = "loading"
                 PROVE  mine'[u] = mine[u] /\ plan'[mine[u]].of = plan[mine[u]].of
      OBVIOUS
    <3>1. mine'[u] = mine[u]
      BY <1>1 DEF AcquireCreates, PlanInv, PlanTypes
    <3>2. mine[u] \in LivePlans
      BY <1>1 DEF PlanInv, Phases, Holding, LivePlans
    <3>3. DOMAIN plan = LivePlans /\ IsFiniteSet(LivePlans)
      BY <1>1, PlansAreFinite DEF PlanInv, PlanTypes
    <3>4. Fresh(plan) # mine[u]
      BY <3>2, <3>3, FreshIsNew
    <3>5. plan'[mine[u]] = plan[mine[u]]
      BY <3>2, <3>3, <3>4 DEF AcquireCreates, Extended
    <3> QED BY <3>1, <3>5
  <2>4. AssetsOf[p] \subseteq Primary
    BY DEF Primary
  <2> QED BY ONLY <1>1, <1>4, <2>1, <2>2, <2>3, <2>4, t \in Thread DEF JobsTaken
<1> QED BY <1>2, <1>7, <1>8 DEF IInv

(* The end of a load takes all its jobs away. *)
LEMMA LoadsStep ==
    ASSUME IInv, NEW t \in Thread, LoadSucceeds(t) \/ LoadUndoes(t)
    PROVE  IInv'
<1>1. PlanInv /\ AssetInv /\ JobsTaken
  BY DEF IInv
<1> PICK f : f = [a \in Primary |-> NoJob]
  OBVIOUS
<1> PICK where : where = IF LoadSucceeds(t) THEN "waiting" ELSE "undo"
  OBVIOUS
<1>2. /\ pc[t] = "loading" /\ Done(t) /\ job' = [job EXCEPT ![t] = f]
      /\ pc' = [pc EXCEPT ![t] = where] /\ where # "loading" /\ mine' = mine
      /\ UNCHANGED <<assets, asset, loaded, unloading>>
  BY DEF LoadSucceeds, LoadUndoes, Goto, tables
<1>3. PlanInv'
  <2>1. CASE LoadSucceeds(t)
    BY <1>1, <2>1, LoadsPlan
  <2>2. CASE LoadUndoes(t)
    <3>1. /\ pc' = [pc EXCEPT ![t] = "undo"] /\ cancelled' = cancelled
          /\ UNCHANGED <<entries, plan, older, mine>>
      BY <2>2 DEF LoadUndoes, Goto, tables
    <3>2. cancelled' \in [Thread -> BOOLEAN]
      BY <1>1, <3>1 DEF PlanInv, PlanTypes
    <3> QED BY ONLY <1>1, <1>2, <3>1, <3>2, t \in Thread, KeepsPlans
  <2> QED BY <2>1, <2>2
<1>4. /\ f \in [Primary -> JobType]
      /\ \A a \in Primary : f[a].pc = "none" /\ f[a].id = None /\ f[a].outer = None
  BY DEF NoJob, JobType, JobState
<1>5. todo' \in [Thread -> Seq([Key -> Nat])]
  <2>1. CASE LoadSucceeds(t)
    BY <1>1, <2>1 DEF LoadSucceeds, AssetInv, AssetTypes
  <2>2. CASE LoadUndoes(t)
    <3> PICK c : c = Once({a.key : a \in {b \in Primary : job[t][b].pc = "done"}})
      OBVIOUS
    <3>1. c \in [Key -> Nat]
      BY DEF Once
    <3>2. <<c>> \in Seq([Key -> Nat])
      <4> PICK F : F = [Key -> Nat]
        OBVIOUS
      <4>1. <<c>> \in Seq(F)
        BY <3>1
      <4> QED BY <4>1
    <3>3. todo' = [todo EXCEPT ![t] = <<c>>]
      BY <2>2 DEF LoadUndoes
    <3> QED BY ONLY <1>1, <3>2, <3>3, t \in Thread DEF AssetInv, AssetTypes
  <2> QED BY <2>1, <2>2
<1>6. \A a \in Primary : job[t][a].pc \in {"none", "done", "failed"}
  BY <1>2 DEF Done
<1>7. AssetInv'
  BY ONLY <1>1, <1>2, <1>4, <1>5, <1>6, t \in Thread, ResetsJobs
<1>8. JobsTaken'
  <2>1. /\ pc'[t] = where /\ \A u \in Thread \ {t} : pc'[u] = pc[u]
        /\ job'[t] = f /\ \A u \in Thread \ {t} : job'[u] = job[u]
    BY ONLY <1>1, <1>2, t \in Thread DEF PlanInv, PlanTypes, AssetInv, AssetTypes
  <2>2. \A i \in LivePlans : plan'[i].of = plan[i].of
    <3>1. CASE LoadSucceeds(t)
      <4> PICK uses : uses = {job[t][a].as : a \in AssetsOf[plan[mine[t]].of]}
        OBVIOUS
      <4>1. plan' = [plan EXCEPT ![mine[t]] = [plan[mine[t]] EXCEPT !.ready = TRUE, !.uses = uses]]
        BY <3>1 DEF LoadSucceeds
      <4> QED BY ONLY <1>1, <4>1 DEF PlanInv, PlanTypes, PlanEntry
    <3>2. CASE LoadUndoes(t)
      BY <3>2 DEF LoadUndoes, tables
    <3> QED BY <3>1, <3>2
  <2>3. \A u \in Thread : pc[u] = "loading" => mine[u] \in LivePlans
    BY <1>1 DEF PlanInv, Phases, Holding, LivePlans
  <2> QED BY ONLY <1>1, <1>2, <1>4, <2>1, <2>2, <2>3, t \in Thread DEF JobsTaken
<1> QED BY <1>3, <1>7, <1>8 DEF IInv

(* A job only moves on. *)
LEMMA JobsStep ==
    ASSUME IInv, NEW t \in Thread, NEW a \in Primary, JobStep(t, a)
    PROVE  IInv'
<1>1. PlanInv /\ AssetInv /\ JobsTaken
  BY DEF IInv
<1>2. UNCHANGED <<entries, plan, older, pc, mine, cancelled, todo, unloading>> /\ job[t][a].pc # "none"
  BY DEF JobStep, JobStarts, JobCancelled, Wakes, PreloadSucceeds, PreloadFallsBack,
     PreloadFails, FallbackSucceeds, FallbackFails, Unchanged
<1>3. PICK h, j : Moves(t, a, h, j) /\ j.pc # "none"
  BY <1>1, JobMoves
<1>4. AssetInv'
  BY <1>1, <1>3, MovesAssets
<1>5. PlanInv'
  BY <1>1, <1>2, KeepsPlans DEF PlanInv, PlanTypes
<1>6. pc[t] = "loading"
  BY <1>1, <1>2 DEF JobsTaken
<1>7. JobsTaken'
  BY <1>2, <1>3, <1>6, KeepsJobs
<1> QED BY <1>4, <1>5, <1>7 DEF IInv

(* What Release and InvalidateCatalog evict nobody has. *)
LEMMA EvictStep ==
    ASSUME IInv, NEW t \in Thread, Release(t) \/ \E c \in Catalog : InvalidateCatalog(t, c)
    PROVE  IInv'
<1>1. PlanInv /\ AssetInv /\ JobsTaken
  BY DEF IInv
<1>2. PlanInv'
  BY <1>1, ReleasesPlan, InvalidatesPlans
<1>3. /\ pc[t] # "loading" /\ pc' = [pc EXCEPT ![t] = "releasing"]
      /\ UNCHANGED <<assets, asset, loaded, job, unloading>>
      /\ \A u \in Thread \ {t} : mine'[u] = mine[u]
  <2>1. CASE Release(t)
    BY <1>1, <2>1 DEF Release, Goto, PlanInv, PlanTypes
  <2>2. CASE \E c \in Catalog : InvalidateCatalog(t, c)
    BY <2>2 DEF InvalidateCatalog, Goto
  <2> QED BY <2>1, <2>2
<1>4. todo' = todo \/ \E out, sequence :
          /\ out \subseteq {entries[p] : p \in Plan} \ {None}
          /\ todo' = [todo EXCEPT ![t] = [n \in 1..Cardinality(out) |-> Once(KeysOf(sequence[n]))]]
  <2>1. CASE Release(t)
    <3> PICK i : i = entries[plan[mine[t]].of]
      OBVIOUS
    <3> PICK after, used : after = [plan EXCEPT ![i].refs = Less(@)] /\ used = Touched(i)
      OBVIOUS
    <3> PICK idle : idle = {e \in {entries[p] : p \in Plan} \ {None} : after[e].refs = 0}
      OBVIOUS
    <3> PICK out : out = {e \in idle :
            Cardinality({f \in idle : e \in Before(idle, used, f)}) >= MaxIdle}
      OBVIOUS
    <3>1. todo' = todo \/ Evict(t, after, used, out, OldestFirst(out, used))
      BY <2>1 DEF Release
    <3>2. out \subseteq {entries[p] : p \in Plan} \ {None}
      OBVIOUS
    <3>3. todo' = todo \/ todo' = [todo EXCEPT ![t] =
              [n \in 1..Cardinality(out) |-> Once(KeysOf(OldestFirst(out, used)[n]))]]
      BY ONLY <3>1, Zenon DEF Evict
    <3>4. todo' = todo \/ \E sequence : todo' = [todo EXCEPT ![t] =
              [n \in 1..Cardinality(out) |-> Once(KeysOf(sequence[n]))]]
      BY ONLY <3>3, Zenon
    <3> QED BY ONLY <3>2, <3>4
  <2>2. CASE \E c \in Catalog : InvalidateCatalog(t, c)
    <3>1. PICK c \in Catalog : InvalidateCatalog(t, c)
      BY <2>2
    <3>2. EntriesOf(c) \subseteq {entries[p] : p \in Plan} \ {None}
      BY DEF EntriesOf
    <3>3. PICK sequence : Evict(t, plan, older, EntriesOf(c), sequence)
      BY <3>1 DEF InvalidateCatalog
    <3> QED BY <3>2, <3>3 DEF Evict
  <2> QED BY <2>1, <2>2
<1>5. todo' \in [Thread -> Seq([Key -> Nat])]
  <2>1. todo \in [Thread -> Seq([Key -> Nat])] /\ PlanTypes
    BY <1>1 DEF AssetInv, AssetTypes, PlanInv
  <2>2. CASE todo' = todo
    BY <2>1, <2>2
  <2>3. CASE todo' # todo
    <3>1. PICK out, sequence :
              /\ out \subseteq {entries[p] : p \in Plan} \ {None}
              /\ todo' = [todo EXCEPT ![t] =
                    [n \in 1..Cardinality(out) |-> Once(KeysOf(sequence[n]))]]
      BY <1>4, <2>3
    <3>2. [n \in 1..Cardinality(out) |-> Once(KeysOf(sequence[n]))] \in Seq([Key -> Nat])
      BY <2>1, <3>1, EvictedIsTyped
    <3> QED BY ONLY <2>1, <3>1, <3>2
  <2> QED BY <2>2, <2>3
<1>6. AssetInv'
  BY <1>1, <1>3, <1>5, KeepsAssets DEF AssetInv, AssetTypes
<1>7. \A i \in LivePlans : i \in LivePlans' => plan'[i].of = plan[i].of
  <2>1. CASE Release(t)
    <3> PICK i, after : /\ i = entries[plan[mine[t]].of] /\ after = [plan EXCEPT ![i].refs = Less(@)]
      OBVIOUS
    <3>1. plan' = [l \in LivePlans' |-> plan[l]] \/ plan' = [l \in LivePlans' |-> after[l]]
      BY <2>1 DEF Release, Evict, Kept
    <3>2. \A l \in LivePlans : after[l].of = plan[l].of
      BY <1>1 DEF PlanInv, PlanTypes, PlanEntry
    <3> QED BY ONLY <3>1, <3>2
  <2>2. CASE \E c \in Catalog : InvalidateCatalog(t, c)
    <3>1. plan' = [l \in LivePlans' |-> plan[l]]
      BY <2>2 DEF InvalidateCatalog, Evict, Kept
    <3> QED BY ONLY <3>1
  <2> QED BY <2>1, <2>2
<1>8. JobsTaken'
  <2>1. job' = job
    BY <1>3
  <2> QED BY ONLY IInv, <1>3, <1>7, <2>1, t \in Thread, JobsAfter
<1> QED BY <1>2, <1>6, <1>8 DEF IInv

(* Waiting, being told, and letting go change no asset and no job. *)
LEMMA WaitsStep ==
    ASSUME IInv, NEW t \in Thread,
           (\E p \in Plan : AcquireShares(t, p)) \/ AcquireReturns(t) \/ AcquireCancelled(t)
    PROVE  IInv'
<1>1. PlanInv /\ AssetInv /\ JobsTaken
  BY DEF IInv
<1>2. UNCHANGED <<assets, asset, loaded, job, todo, unloading>>
  BY DEF AcquireShares, AcquireReturns, AcquireCancelled
<1>3. AssetInv'
  BY <1>1, <1>2, KeepsAssets DEF AssetInv, AssetTypes
<1>4. CASE \E p \in Plan : AcquireShares(t, p)
  <2>1. PICK p \in Plan : AcquireShares(t, p)
    BY <1>4
  <2>2. PlanInv'
    BY <1>1, <2>1, SharesPlan
  <2>3. /\ pc[t] # "loading" /\ pc' = [pc EXCEPT ![t] = "waiting"]
        /\ \A u \in Thread \ {t} : mine'[u] = mine[u]
    BY <1>1, <2>1 DEF AcquireShares, Goto, PlanInv, PlanTypes
  <2>4. \A i \in LivePlans : plan'[i].of = plan[i].of
    <3> PICK n : n = Reserved(entries[p])
      OBVIOUS
    <3>1. plan' = [plan EXCEPT ![entries[p]].refs = n]
      BY <2>1 DEF AcquireShares
    <3> QED BY ONLY <1>1, <3>1 DEF PlanInv, PlanTypes, PlanEntry
  <2>5. JobsTaken'
    BY ONLY IInv, <1>2, <2>3, <2>4, t \in Thread, JobsAfter
  <2> QED BY <1>3, <2>2, <2>5 DEF IInv
<1>5. CASE AcquireReturns(t) \/ AcquireCancelled(t)
  <2> PICK i : i = mine[t]
    OBVIOUS
  <2> PICK after : after = [plan EXCEPT ![i].refs = Less(@)]
    OBVIOUS
  <2>1. \/ Return(t) /\ plan' = Kept(after, LivePlans') /\ UNCHANGED <<entries, older>>
        \/ /\ plan[i].ready /\ ~plan[i].err /\ Goto(t, "leased") /\ older' = Touched(i)
           /\ UNCHANGED <<entries, plan, mine, cancelled>>
    BY <1>5 DEF AcquireReturns, AcquireCancelled
  <2>2. pc[t] = "waiting"
    BY <1>5 DEF AcquireReturns, AcquireCancelled
  <2>3. PlanInv'
    <3>1. CASE Return(t) /\ plan' = Kept(after, LivePlans') /\ UNCHANGED <<entries, older>>
      BY <1>1, <2>2, <3>1, LeavesPlan
    <3>2. CASE /\ plan[i].ready /\ ~plan[i].err /\ Goto(t, "leased") /\ older' = Touched(i)
               /\ UNCHANGED <<entries, plan, mine, cancelled>>
      BY <1>1, <2>2, <3>2, LeasesPlan
    <3> QED BY <2>1, <3>1, <3>2
  <2>4. \A u \in Thread \ {t} : mine'[u] = mine[u]
    BY ONLY <1>1, <2>1 DEF Return, PlanInv, PlanTypes
  <2>5. pc' = [pc EXCEPT ![t] = "idle"] \/ pc' = [pc EXCEPT ![t] = "leased"]
    BY ONLY <2>1 DEF Return, Goto
  <2>6. \A l \in LivePlans : l \in LivePlans' => plan'[l].of = plan[l].of
    <3>1. \A l \in LivePlans : after[l].of = plan[l].of
      BY <1>1 DEF PlanInv, PlanTypes, PlanEntry
    <3>2. plan' = [l \in LivePlans' |-> after[l]] \/ plan' = plan
      BY ONLY <2>1 DEF Kept
    <3> QED BY ONLY <3>1, <3>2
  <2>7. pc[t] # "loading" /\ job' = job
    BY <1>2, <2>2
  <2>8. JobsTaken'
    BY ONLY IInv, <2>4, <2>5, <2>6, <2>7, t \in Thread, JobsAfter
  <2> QED BY <1>3, <2>3, <2>8 DEF IInv
<1> QED BY <1>4, <1>5

(* So does a context that is cancelled. *)
LEMMA CancelStep ==
    ASSUME IInv, NEW t \in Thread, Cancel(t)
    PROVE  IInv'
<1>1. PlanInv /\ AssetInv /\ JobsTaken
  BY DEF IInv
<1>2. UNCHANGED <<entries, plan, older, assets, asset, loaded, pc, mine, job, todo, unloading>>
  BY DEF Cancel, tables
<1>3. cancelled' \in [Thread -> BOOLEAN]
  BY <1>1 DEF Cancel, PlanInv, PlanTypes
<1>4. PlanInv'
  BY ONLY <1>1, <1>2, <1>3, t \in Thread, KeepsPlans
<1>5. AssetInv'
  BY <1>1, <1>2, KeepsAssets DEF AssetInv, AssetTypes
<1>6. JobsTaken'
  BY ONLY IInv, <1>2, SameJobs
<1> QED BY <1>4, <1>5, <1>6 DEF IInv

(* A failed load closes its entry with the error. *)
LEMMA FailsStep ==
    ASSUME IInv, NEW t \in Thread, LoadFails(t)
    PROVE  IInv'
<1>1. PlanInv /\ AssetInv /\ JobsTaken
  BY DEF IInv
<1>2. /\ UNCHANGED <<assets, asset, loaded, mine, job, todo, unloading>>
      /\ pc[t] # "loading" /\ pc' = [pc EXCEPT ![t] = "waiting"]
  BY DEF LoadFails, Goto, locals
<1>3. PlanInv'
  BY <1>1, FailsPlan
<1>4. AssetInv'
  BY <1>1, <1>2, KeepsAssets DEF AssetInv, AssetTypes
<1>5. \A i \in LivePlans : plan'[i].of = plan[i].of
  <2> PICK e : e = ClosedWithError(mine[t])
    OBVIOUS
  <2>1. plan' = [plan EXCEPT ![mine[t]] = e]
    BY DEF LoadFails
  <2>2. mine[t] \in LivePlans => e.of = plan[mine[t]].of
    BY <1>1 DEF ClosedWithError, PlanInv, PlanTypes, PlanEntry
  <2> QED BY ONLY <1>1, <2>1, <2>2 DEF PlanInv, PlanTypes
<1>6. \A u \in Thread \ {t} : mine'[u] = mine[u]
  BY <1>2
<1>7. JobsTaken'
  BY ONLY IInv, <1>2, <1>5, <1>6, t \in Thread, JobsAfter
<1> QED BY <1>3, <1>4, <1>7 DEF IInv

(* What was given up is taken out of the table and unloaded. *)
LEMMA GivesUpStep ==
    ASSUME IInv, NEW t \in Thread, ReleaseAssets(t) \/ Unload(t) \/ ReleaseReturns(t)
    PROVE  IInv'
<1>1. PlanInv /\ AssetInv /\ JobsTaken
  BY DEF IInv
<1>2. /\ UNCHANGED <<entries, plan, older, mine, cancelled, job>>
      /\ pc' = pc \/ (pc[t] = "releasing" /\ pc' = [pc EXCEPT ![t] = "idle"])
  BY DEF ReleaseAssets, Unload, ReleaseReturns, Goto, tables, locals
<1>3. cancelled' \in [Thread -> BOOLEAN]
  BY <1>1, <1>2 DEF PlanInv, PlanTypes
<1>4. PlanInv'
  BY ONLY <1>1, <1>2, <1>3, t \in Thread, KeepsPlans
<1>5. AssetInv'
  <2>1. CASE ReleaseAssets(t)
    BY <1>1, <2>1, GivesUpAssets
  <2>2. CASE Unload(t)
    <3>1. PICK k \in unloading[t] :
              loaded' = loaded \ {k} /\ unloading' = [unloading EXCEPT ![t] = @ \ {k}]
      BY <2>2 DEF Unload
    <3>2. loaded' \subseteq Key /\ unloading' \in [Thread -> SUBSET Key]
      BY ONLY <1>1, <3>1 DEF AssetInv, AssetTypes
    <3>3. UNCHANGED <<assets, asset, job, todo>>
      BY <2>2 DEF Unload
    <3>4. todo' \in [Thread -> Seq([Key -> Nat])]
      BY <1>1, <3>3 DEF AssetInv, AssetTypes
    <3> QED BY ONLY <1>1, <3>2, <3>3, <3>4, KeepsAssets
  <2>3. CASE ReleaseReturns(t)
    BY <1>1, <2>3, KeepsAssets DEF ReleaseReturns, tables, locals, AssetInv, AssetTypes
  <2> QED BY <2>1, <2>2, <2>3
<1>6. \A u \in Thread :
          /\ pc'[u] = "loading" <=> pc[u] = "loading"
          /\ mine'[u] = mine[u] /\ plan'[mine[u]].of = plan[mine[u]].of
  BY ONLY <1>1, <1>2 DEF PlanInv, PlanTypes
<1>7. job' = job
  BY <1>2
<1>8. JobsTaken'
  BY ONLY IInv, <1>6, <1>7, SameJobs
<1> QED BY <1>4, <1>5, <1>8 DEF IInv

-----------------------------------------------------------------------------
(* The invariant says what TypeOK and LeaseIsBacked say, and more. *)
LEMMA InvImplies ==
    ASSUME IInv PROVE PlansAreSound
<1>1. PlanInv /\ AssetInv
  BY DEF IInv
<1>2. TypeOK
  <2>1. DOMAIN plan = LivePlans /\ \A i \in LivePlans : plan[i] \in PlanEntry
    BY <1>1 DEF PlanInv, PlanTypes
  <2>2. DOMAIN asset = LiveAssets /\ \A i \in LiveAssets : asset[i] \in AssetEntry
    BY <1>1 DEF AssetInv, AssetTypes
  <2>3. entries \in [Plan -> LivePlans \cup {None}]
    BY <1>1 DEF PlanInv, PlanTypes, LivePlans
  <2>4. assets \in [Key -> LiveAssets \cup {None}]
    <3>1. \A k \in Key : assets[k] \in LiveAssets \cup {None}
      BY DEF LiveAssets
    <3> QED BY <1>1, <3>1 DEF AssetInv, AssetTypes
  <2> QED BY <1>1, <2>1, <2>2, <2>3, <2>4 DEF TypeOK, PlanInv, PlanTypes, AssetInv, AssetTypes
<1>3. LeaseIsBacked
  <2>1. \A p \in Plan : entries[p] # None =>
            plan[entries[p]].refs = Cardinality({t \in Thread : mine[t] = entries[p]})
    BY <1>1 DEF PlanInv, Counted, LivePlans, Users
  <2>2. \A t \in Thread : pc[t] = "leased" => mine[t] \in LivePlans /\ ~plan[mine[t]].err
    BY <1>1 DEF PlanInv, Phases, Holding, LivePlans
  <2>3. \A t \in Thread : pc[t] = "leased" => entries[plan[mine[t]].of] = mine[t]
    BY <1>1, <2>2 DEF PlanInv, InTable
  <2> QED BY <2>1, <2>2, <2>3 DEF LeaseIsBacked
<1> QED BY <1>2, <1>3 DEF PlansAreSound

(* Every step of every goroutine preserves the invariant. *)
LEMMA NextPreserves ==
    ASSUME IInv, [Next]_vars PROVE IInv'
<1>1. CASE Next
  <2>1. PICK t \in Thread :
            \/ \E p \in Plan : AcquireCreates(t, p) \/ AcquireShares(t, p)
            \/ Cancel(t) \/ Release(t)
            \/ \E c \in Catalog : InvalidateCatalog(t, c)
            \/ Work(t)
    BY <1>1 DEF Next
  <2>2. CASE \E p \in Plan : AcquireCreates(t, p)
    BY <2>2, CreatesStep
  <2>3. CASE (\E p \in Plan : AcquireShares(t, p)) \/ AcquireReturns(t) \/ AcquireCancelled(t)
    BY <2>3, WaitsStep
  <2>4. CASE Cancel(t)
    BY <2>4, CancelStep
  <2>5. CASE Release(t) \/ \E c \in Catalog : InvalidateCatalog(t, c)
    BY <2>5, EvictStep
  <2>6. CASE \E a \in Primary : JobStep(t, a)
    BY <2>6, JobsStep
  <2>7. CASE LoadSucceeds(t) \/ LoadUndoes(t)
    BY <2>7, LoadsStep
  <2>8. CASE LoadFails(t)
    BY <2>8, FailsStep
  <2>9. CASE ReleaseAssets(t) \/ Unload(t) \/ ReleaseReturns(t)
    BY <2>9, GivesUpStep
  <2> QED BY <2>1, <2>2, <2>3, <2>4, <2>5, <2>6, <2>7, <2>8, <2>9 DEF Work
<1>2. CASE UNCHANGED vars
  <2>1. UNCHANGED <<entries, plan, older, assets, asset, loaded, pc, mine, cancelled, job, todo,
                    unloading>>
    BY <1>2 DEF vars, tables, locals
  <2>2. PlanInv'
    BY ONLY IInv, <2>1 DEF IInv, PlanInv, PlanTypes, Counted, InTable, Phases, LivePlans,
       LoadedPlans, Users
  <2>3. AssetInv'
    BY <2>1, KeepsAssets DEF IInv, AssetInv, AssetTypes
  <2>4. JobsTaken'
    BY ONLY IInv, <2>1 DEF IInv, JobsTaken
  <2> QED BY <2>2, <2>3, <2>4 DEF IInv
<1> QED BY <1>1, <1>2

(* The invariant holds in every state, for any finite number of goroutines, *)
(* plans and keys and any options of the cache.                             *)
THEOREM Invariance == Spec => []IInv
<1>1. Init => IInv
  BY InitPlans, InitAssets DEF IInv
<1>2. IInv /\ [Next]_vars => IInv'
  BY NextPreserves
<1> QED BY <1>1, <1>2, PTL DEF Spec

(* No plan in use is evicted, closed or counted wrongly, whatever the       *)
(* goroutines do: an entry is counted for everybody who waits for it or     *)
(* leases it, and a leased one stays in the table (Acquire, Release and     *)
(* InvalidateCatalog of presentation_asset_cache.go).                       *)
THEOREM PlansSound == Spec => []PlansAreSound
<1>1. IInv => PlansAreSound
  BY InvImplies
<1> QED BY <1>1, Invariance, PTL
=============================================================================
