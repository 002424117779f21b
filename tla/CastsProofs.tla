--------------------------- MODULE CastsProofs ---------------------------
(***************************************************************************)
(* Proofs about Casts: for every set of programs whose enter flows do not  *)
(* fork a branch and then fail before the cast commits, every call and     *)
(* every task keeps the tables that name casts, the heap and the           *)
(* ammunition in agreement (CastsAreSound), and casts commit before they   *)
(* execute and not within the cooldown of another (CommitsInOrder).        *)
(***************************************************************************)
EXTENDS Casts, SequenceTheorems, SetLemmas

(* The tasks that can be in the heap: of a cast, or a recharge of a skill. *)
CastKinds == {"commit", "execute", "recovery", "pulse", "auto", "flow"}
Words == {"", "branch", "tail", "charge_full", "cancelled", "max_duration"}
CastTask == [due : Nat, kind : CastKinds, id : Nat \ {0}, token : Nat, what : Words]
RechargeTask == [due : Nat, kind : {"recharge"}, id : {0}, token : Nat, what : Program]
Tasks == CastTask \cup RechargeTask

Sorted(ts) == \A i \in DOMAIN ts : \A j \in 1 .. i : ts[j].due <= ts[i].due
Heap(ts) == ts \in Seq(Tasks) /\ Sorted(ts)

Places(ts, S) == {i \in DOMAIN ts : ts[i] \in S}
Tally(ts, S) == Cardinality(Places(ts, S))
OfCast(c) == {t \in Tasks : t.id = c}
OfSkill(p) == {t \in Tasks : t.kind = "recharge" /\ t.what = p}

-----------------------------------------------------------------------------
(* The inductive invariant, of worlds: it also holds between two steps of a *)
(* handler, once the handler's own cast has its first stage.                *)

IsWorld(w) ==
    w = [casts |-> w.casts, tasks |-> w.tasks, cooldowns |-> w.cooldowns, policies |-> w.policies,
         ammo |-> w.ammo, nextCast |-> w.nextCast, active |-> w.active, completed |-> w.completed,
         err |-> w.err]

(* Casts have ids below the counter. *)
CastsTyped(w) ==
    /\ w.nextCast \in 0 .. MaxCasts
    /\ DOMAIN w.casts \subseteq 1 .. w.nextCast
    /\ \A c \in DOMAIN w.casts : w.casts[c] \in CastRecord

(* A task of a cast names a kept cast, which counts it as pending. *)
HeapAgrees(w) ==
    /\ Heap(w.tasks)
    /\ \A t \in ToSet(w.tasks) : t.kind # "recharge" => t.id \in DOMAIN w.casts
    /\ \A c \in DOMAIN w.casts : w.casts[c].pending = Tally(w.tasks, OfCast(c))

(* A slot names a kept cast of its skill that is policy-active. *)
SlotsAgree(w) ==
    /\ w.policies \in [Program -> 0 .. MaxCasts]
    /\ \A p \in Program : w.policies[p] # 0 =>
         /\ w.policies[p] \in DOMAIN w.casts
         /\ w.casts[w.policies[p]].prog = p
         /\ w.casts[w.policies[p]].policy

AmmoRecord == [stock : Nat, scheduled : BOOLEAN, gen : Nat, due : Nat]

(* Below its maximum a skill that has fired has its one recharge in the heap. *)
AmmoAgrees(w) ==
    /\ w.ammo \in [Program -> AmmoRecord]
    /\ \A p \in Program :
         /\ w.ammo[p].stock <= Def[p].maxStock
         /\ w.ammo[p].scheduled <=> w.ammo[p].gen > 0 /\ w.ammo[p].stock < Def[p].maxStock
         /\ Tally(w.tasks, OfSkill(p)) = IF w.ammo[p].scheduled THEN 1 ELSE 0
    /\ \A t \in ToSet(w.tasks) : t.kind = "recharge" =>
         t.token = w.ammo[t.what].gen /\ t.due = w.ammo[t.what].due

NotDone(w) == {c \in DOMAIN w.casts : ~w.casts[c].done}

(* The casts that are not done are counted, and those that completed are done. *)
DoneAgrees(w) ==
    /\ w.active \in 0 .. MaxActiveCasts
    /\ w.active = Cardinality(NotDone(w))
    /\ w.completed \in Seq(Nat)
    /\ \A c \in ToSet(w.completed) : c <= w.nextCast /\ (c \in DOMAIN w.casts => w.casts[c].done)

Sound(w) == /\ IsWorld(w)
            /\ CastsTyped(w)
            /\ HeapAgrees(w)
            /\ SlotsAgree(w)
            /\ AmmoAgrees(w)
            /\ DoneAgrees(w)
            /\ w.cooldowns \in [Program \cup {Gcd} -> Nat]
            /\ w.err \in BOOLEAN

IInv == /\ Sound(World)
        /\ aborted \in BOOLEAN
        /\ \A c \in refused : LiveIn(World, c)

(* An enter flow of a charge, which has not committed, does not fork a      *)
(* branch and then fail: startLocked would delete the cast, leave the task  *)
(* of the branch in the heap and give the id to the next cast.              *)
CleanStarts ==
    \A p \in Program : Def[p].mode = "charge" =>
        /\ \A o \in Def[p].flow["enter"] : o.fork => o.then # "error"
        /\ \A o \in Def[p].flow["second"] : o.fork => o.then \notin {"error", "goto"}

-----------------------------------------------------------------------------
(* The heap *)

(* Only finitely many places of a sequence hold an element of a set. *)
LEMMA PlacesFinite ==
    ASSUME NEW T, NEW ts \in Seq(T), NEW S
    PROVE  IsFiniteSet(Places(ts, S)) /\ Tally(ts, S) \in Nat
<1>1. DOMAIN ts = 1 .. Len(ts) /\ Len(ts) \in Nat
  OBVIOUS
<1>2. IsFiniteSet(DOMAIN ts)
  BY <1>1, FS_Interval
<1>3. Places(ts, S) \in SUBSET DOMAIN ts
  BY DEF Places
<1>4. IsFiniteSet(Places(ts, S))
  BY <1>2, <1>3, FS_Subset
<1> QED BY <1>4, FS_CardinalityType DEF Tally

(* A one-to-one map of the places of one sequence onto those of another    *)
(* shows that they are as many.                                            *)
LEMMA SameTally ==
    ASSUME NEW P, NEW Q, IsFiniteSet(P), NEW f \in [P -> Q],
           \A a, b \in P : f[a] = f[b] => a = b,
           \A q \in Q : \E a \in P : f[a] = q
    PROVE  IsFiniteSet(Q) /\ Cardinality(Q) = Cardinality(P)
<1>1. f \in Bijection(P, Q)
  BY Fun_IsBij
<1>2. ExistsBijection(P, Q)
  BY <1>1, Fun_ExistsBij
<1> QED BY <1>2, FS_Bijection

(* A set of numbers from 1 that holds all numbers below each of its own is *)
(* an interval.                                                            *)
LEMMA DownClosed ==
    ASSUME NEW n \in Nat, NEW P, P \subseteq 1 .. n,
           \A i \in P : \A j \in 1 .. i : j \in P
    PROVE  Cardinality(P) \in 0 .. n /\ P = 1 .. Cardinality(P)
<1>1. IsFiniteSet(1 .. n)
  BY FS_Interval
<1>2. IsFiniteSet(P)
  BY <1>1, FS_Subset
<1>3. CASE P = {}
  <2>1. Cardinality(P) = 0
    BY <1>3, FS_EmptySet
  <2> QED BY <1>3, <2>1
<1>4. CASE P # {}
  <2> DEFINE m == Max(P)
  <2>1. m \in P /\ \A x \in P : x <= m
    <3>1. P \subseteq Int
      OBVIOUS
    <3> QED BY ONLY <1>2, <1>4, <3>1, MaxOfFinite
  <2> HIDE DEF m
  <2>2. m \in 1 .. n
    BY <2>1
  <2>3. \A j \in 1 .. m : j \in P
    BY <2>1
  <2>4. \A x \in P : x \in 1 .. m
    BY <2>1, <2>2
  <2>5. P = 1 .. m
    BY <2>3, <2>4
  <2>6. Cardinality(1 .. m) = m
    BY <2>2, FS_Interval
  <2> QED BY <2>2, <2>5, <2>6
<1> QED BY <1>3, <1>4

(* Insert puts t behind the tasks that are not due later than t. *)
LEMMA Inserting ==
    ASSUME NEW ts, Heap(ts), NEW t \in Tasks
    PROVE  \E k \in 1 .. Len(ts) + 1 :
             LET new == Insert(ts, t)
             IN  /\ new \in Seq(Tasks) /\ Len(new) = Len(ts) + 1
                 /\ \A i \in 1 .. Len(ts) : ts[i].due <= t.due <=> i < k
                 /\ \A i \in 1 .. Len(ts) + 1 :
                      new[i] = IF i < k THEN ts[i] ELSE IF i = k THEN t ELSE ts[i - 1]
<1> DEFINE P == {i \in DOMAIN ts : ts[i].due <= t.due}
           m == Cardinality(P)
           new == Insert(ts, t)
           n == Len(ts)
<1>1. ts \in Seq(Tasks) /\ n \in Nat /\ DOMAIN ts = 1 .. n
  BY DEF Heap
<1>2. \A i \in 1 .. n : ts[i] \in Tasks /\ ts[i].due \in Nat
  BY <1>1 DEF Tasks, CastTask, RechargeTask
<1>3. t.due \in Nat
  BY DEF Tasks, CastTask, RechargeTask
<1>4. \A i \in P : \A j \in 1 .. i : j \in P
  <2> TAKE i \in P
  <2> TAKE j \in 1 .. i
  <2>1. i \in 1 .. n /\ j \in 1 .. n
    BY <1>1
  <2>2. ts[j].due <= ts[i].due
    BY <1>1, <2>1 DEF Heap, Sorted
  <2>3. ts[i].due <= t.due
    OBVIOUS
  <2>4. ts[j].due <= t.due
    BY ONLY <1>2, <1>3, <2>1, <2>2, <2>3
  <2> QED BY <1>1, <2>1, <2>4
<1>5. P \subseteq 1 .. n
  BY <1>1
<1>6. m \in 0 .. n /\ P = 1 .. m
  <2> HIDE DEF P
  <2> QED BY <1>1, <1>4, <1>5, DownClosed
<1>7. new = SubSeq(ts, 1, m) \o <<t>> \o SubSeq(ts, m + 1, n)
  BY DEF Insert
<1>8. \A i \in 1 .. n : ts[i].due <= t.due <=> i < m + 1
  <2> TAKE i \in 1 .. n
  <2>1. ts[i].due <= t.due <=> i \in P
    BY <1>1
  <2> HIDE DEF P, m
  <2> QED BY <1>6, <2>1
<1> HIDE DEF P, m, new
<1> DEFINE a == SubSeq(ts, 1, m)
           b == SubSeq(ts, m + 1, n)
<1>10. /\ a \in Seq(Tasks) /\ Len(a) = m /\ \A i \in 1 .. m : a[i] = ts[i]
       /\ b \in Seq(Tasks) /\ Len(b) = n - m /\ \A i \in 1 .. n - m : b[i] = ts[m + i]
  <2>1. a \in Seq(Tasks) /\ b \in Seq(Tasks)
    BY <1>1, <1>6, SubSeqProperties
  <2>2. Len(a) = m /\ \A i \in 1 .. m : a[i] = ts[i]
    BY <1>1, <1>6, SubSeqProperties
  <2>3. Len(b) = n - m /\ \A i \in 1 .. n - m : b[i] = ts[m + i]
    <3>1. m + 1 \in Int /\ n \in Int /\ \A i \in m + 1 .. n : ts[i] \in Tasks
      BY <1>1, <1>6
    <3>2. /\ Len(b) = IF m + 1 <= n THEN n - (m + 1) + 1 ELSE 0
          /\ \A i \in 1 .. n - (m + 1) + 1 : b[i] = ts[m + 1 + i - 1]
      BY ONLY <3>1, SubSeqProperties
    <3>3. n - (m + 1) + 1 = n - m /\ (~(m + 1 <= n) => n - m = 0)
      <4>1. n \in Int /\ m \in Int /\ m <= n
        BY <1>1, <1>6
      <4> HIDE DEF n
      <4> QED BY ONLY <4>1
    <3>4. \A i \in 1 .. n - m : m + 1 + i - 1 = m + i
      BY <1>1, <1>6
    <3>5. Len(b) = n - m
      BY ONLY <3>2, <3>3
    <3>6. ASSUME NEW i \in 1 .. n - m
          PROVE  b[i] = ts[m + i]
      <4>1. b[i] = ts[m + 1 + i - 1]
        BY <3>2, <3>3
      <4> QED BY <3>4, <4>1
    <3> QED BY <3>5, <3>6
  <2> QED BY <2>1, <2>2, <2>3
<1> HIDE DEF a, b
<1>11. new = a \o <<t>> \o b
  BY <1>7 DEF a, b
<1>12. new \in Seq(Tasks) /\ Len(new) = n + 1
  <2>1. <<t>> \in Seq(Tasks) /\ Len(<<t>>) = 1
    OBVIOUS
  <2>2. a \o <<t>> \in Seq(Tasks) /\ Len(a \o <<t>>) = m + 1
    BY ONLY <1>6, <1>10, <2>1, ConcatProperties
  <2>3. a \o <<t>> \o b \in Seq(Tasks) /\ Len(a \o <<t>> \o b) = (m + 1) + (n - m)
    <3>1. b \in Seq(Tasks) /\ Len(b) = n - m
      BY <1>10
    <3> QED BY ONLY <2>2, <3>1, ConcatProperties
  <2>4. (m + 1) + (n - m) = n + 1
    BY <1>1, <1>6
  <2> QED BY ONLY <1>11, <2>3, <2>4
<1>13. \A i \in 1 .. n + 1 : new[i] = IF i < m + 1 THEN ts[i] ELSE IF i = m + 1 THEN t ELSE ts[i - 1]
  <2> DEFINE h == a \o <<t>>
  <2>1. /\ h \in Seq(Tasks) /\ Len(h) = m + 1
        /\ \A i \in 1 .. m : h[i] = a[i]
        /\ h[m + 1] = t
    BY <1>6, <1>10
  <2> HIDE DEF h
  <2>2. new = h \o b
    BY <1>11 DEF h
  <2>3. \A i \in 1 .. n + 1 : new[i] = IF i <= m + 1 THEN h[i] ELSE b[i - (m + 1)]
    BY <1>1, <1>6, <1>10, <2>1, <2>2
  <2> TAKE i \in 1 .. n + 1
  <2>4. CASE i < m + 1
    BY <1>6, <1>10, <2>1, <2>3, <2>4
  <2>5. CASE i = m + 1
    BY <1>6, <2>1, <2>3, <2>5
  <2>6. CASE i > m + 1
    <3>1. i - (m + 1) \in 1 .. n - m /\ m + (i - (m + 1)) = i - 1
      BY <1>1, <1>6, <2>6
    <3>2. b[i - (m + 1)] = ts[i - 1]
      BY <1>10, <3>1
    <3> QED BY <1>6, <2>3, <2>6, <3>2
  <2> QED BY <1>6, <2>4, <2>5, <2>6
<1> QED
  <2>1. m + 1 \in 1 .. n + 1
    BY <1>1, <1>6
  <2> QED BY <1>8, <1>12, <1>13, <2>1 DEF new

(* Insert keeps the heap in order and adds t to what it holds. *)
LEMMA Inserted ==
    ASSUME NEW ts, Heap(ts), NEW t \in Tasks
    PROVE  /\ Heap(Insert(ts, t))
           /\ ToSet(Insert(ts, t)) = ToSet(ts) \cup {t}
           /\ \A S : Tally(Insert(ts, t), S) = IF t \in S THEN Tally(ts, S) + 1 ELSE Tally(ts, S)
<1> DEFINE new == Insert(ts, t)
           n == Len(ts)
<1>1. ts \in Seq(Tasks) /\ n \in Nat /\ DOMAIN ts = 1 .. n /\ \A i \in 1 .. n : ts[i] \in Tasks
  BY DEF Heap
<1>2. \A u \in Tasks : u.due \in Nat
  BY DEF Tasks, CastTask, RechargeTask
<1>3. PICK k \in 1 .. n + 1 :
        /\ new \in Seq(Tasks) /\ Len(new) = n + 1
        /\ \A i \in 1 .. n : ts[i].due <= t.due <=> i < k
        /\ \A i \in 1 .. n + 1 : new[i] = IF i < k THEN ts[i] ELSE IF i = k THEN t ELSE ts[i - 1]
  BY Inserting
<1> HIDE DEF new
<1>4. DOMAIN new = 1 .. n + 1 /\ k \in Nat
  BY <1>1, <1>3
<1>5. \A i, j \in 1 .. n : j <= i => ts[j].due <= ts[i].due
  BY <1>1 DEF Heap, Sorted
<1>6. Sorted(new)
  <2> SUFFICES ASSUME NEW i \in 1 .. n + 1, NEW j \in 1 .. i
               PROVE  new[j].due <= new[i].due
    BY <1>4 DEF Sorted
  <2>1. j \in 1 .. n + 1 /\ j <= i /\ i \in Int /\ j \in Int
    BY <1>1
  <2>2. CASE i < k
    <3>1. new[i] = ts[i] /\ new[j] = ts[j] /\ i \in 1 .. n /\ j \in 1 .. n
      BY <1>1, <1>3, <1>4, <2>1, <2>2
    <3> QED BY ONLY <1>5, <2>1, <3>1
  <2>3. CASE i = k
    <3>1. new[i] = t
      BY <1>3, <2>3
    <3>2. CASE j = i
      <4>1. t.due \in Nat
        BY <1>2
      <4> QED BY ONLY <3>1, <3>2, <4>1
    <3>3. CASE j < i
      <4>1. j < k /\ j \in 1 .. n
        BY ONLY <1>1, <1>4, <2>1, <2>3, <3>3
      <4>2. new[j] = ts[j] /\ ts[j].due <= t.due
        BY <1>3, <2>1, <4>1
      <4> QED BY ONLY <3>1, <4>2
    <3> QED BY <2>1, <3>2, <3>3
  <2>4. CASE i > k
    <3>1. i - 1 \in 1 .. n /\ new[i] = ts[i - 1] /\ ~(i - 1 < k)
      BY <1>1, <1>3, <1>4, <2>1, <2>4
    <3>2. CASE j < k
      <4>1. new[j] = ts[j] /\ j \in 1 .. n /\ j <= i - 1
        BY <1>1, <1>3, <1>4, <2>1, <2>4, <3>2
      <4> QED BY ONLY <1>5, <3>1, <4>1
    <3>3. CASE j = k
      <4>1. new[j] = t /\ ~(ts[i - 1].due <= t.due)
        BY <1>3, <2>1, <3>1, <3>3
      <4>2. ts[i - 1].due \in Nat /\ t.due \in Nat
        BY <1>1, <1>2, <3>1
      <4> QED BY ONLY <3>1, <4>1, <4>2
    <3>4. CASE j > k
      <4>1. new[j] = ts[j - 1] /\ j - 1 \in 1 .. n /\ j - 1 <= i - 1
        BY <1>1, <1>3, <1>4, <2>1, <3>4
      <4> QED BY ONLY <1>5, <3>1, <4>1
    <3> QED BY <1>4, <2>1, <3>2, <3>3, <3>4
  <2> QED BY <1>4, <2>1, <2>2, <2>3, <2>4
<1> DEFINE to == [i \in 1 .. n |-> IF i < k THEN i ELSE i + 1]
<1>7. \A i \in 1 .. n : to[i] \in 1 .. n + 1 /\ to[i] # k /\ new[to[i]] = ts[i]
  BY <1>1, <1>3, <1>4
<1>8. \A i, j \in 1 .. n : to[i] = to[j] => i = j
  BY <1>1, <1>4
<1>9. \A i \in 1 .. n + 1 : i # k => \E j \in 1 .. n : to[j] = i
  <2> TAKE i \in 1 .. n + 1
  <2>1. CASE i < k
    <3>1. i \in 1 .. n /\ to[i] = i
      BY <1>1, <1>4, <2>1
    <3> QED BY <3>1
  <2>2. CASE i > k
    <3>1. i - 1 \in 1 .. n /\ to[i - 1] = i
      BY <1>1, <1>4, <2>2
    <3> QED BY <3>1
  <2> QED BY <1>1, <1>4, <2>1, <2>2
<1> HIDE DEF to
<1>10. new[k] = t
  BY <1>3
<1>11. ToSet(new) = ToSet(ts) \cup {t}
  <2>1. \A i \in 1 .. n + 1 : new[i] \in ToSet(ts) \cup {t}
    <3> TAKE i \in 1 .. n + 1
    <3>1. CASE i # k
      <4>1. PICK j \in 1 .. n : to[j] = i
        BY <1>9, <3>1
      <4>2. new[i] = ts[j]
        BY <1>7, <4>1
      <4> QED BY <1>1, <4>2 DEF ToSet
    <3> QED BY <1>10, <3>1
  <2>2. \A j \in 1 .. n : ts[j] \in ToSet(new)
    BY <1>4, <1>7 DEF ToSet
  <2>3. t \in ToSet(new)
    BY <1>4, <1>10 DEF ToSet
  <2> QED BY <1>1, <1>4, <2>1, <2>2, <2>3 DEF ToSet
<1>12. ASSUME NEW S
       PROVE  Tally(new, S) = IF t \in S THEN Tally(ts, S) + 1 ELSE Tally(ts, S)
  <2> DEFINE P == Places(ts, S)
             Q == Places(new, S)
             f == [i \in P |-> to[i]]
  <2>1. P \subseteq 1 .. n /\ \A i \in 1 .. n : i \in P <=> ts[i] \in S
    BY <1>1 DEF Places
  <2>2. Q \subseteq 1 .. n + 1 /\ \A i \in 1 .. n + 1 : i \in Q <=> new[i] \in S
    BY <1>4 DEF Places
  <2>3. IsFiniteSet(P) /\ Cardinality(P) \in Nat /\ IsFiniteSet(Q)
    BY <1>1, <1>3, PlacesFinite DEF Tally
  <2> HIDE DEF P, Q
  <2>4. f \in [P -> Q \ {k}]
    BY <1>7, <2>1, <2>2
  <2>5. \A a, b \in P : f[a] = f[b] => a = b
    BY <1>8, <2>1
  <2>6. \A q \in Q \ {k} : \E a \in P : f[a] = q
    <3> TAKE q \in Q \ {k}
    <3>1. PICK a \in 1 .. n : to[a] = q
      BY <1>9, <2>2
    <3>2. ts[a] \in S
      BY <1>7, <2>2, <3>1
    <3> QED BY <2>1, <3>1, <3>2
  <2> HIDE DEF f
  <2>7. Cardinality(Q \ {k}) = Cardinality(P) /\ IsFiniteSet(Q \ {k})
    BY <2>3, <2>4, <2>5, <2>6, SameTally
  <2>8. k \in Q <=> t \in S
    BY <1>10, <2>2
  <2>9. Cardinality(Q) = IF k \in Q THEN Cardinality(P) + 1 ELSE Cardinality(P)
    <3>1. (Q \ {k}) \cup {k} = IF k \in Q THEN Q ELSE Q \cup {k}
      OBVIOUS
    <3>2. Cardinality((Q \ {k}) \cup {k}) = Cardinality(P) + 1
      BY <2>7, FS_AddElement
    <3>3. k \notin Q => Q \ {k} = Q
      OBVIOUS
    <3> QED BY <2>7, <3>1, <3>2, <3>3
  <2> QED BY <2>8, <2>9 DEF P, Q, Tally
<1> QED
  <2>1. Heap(new)
    BY <1>3, <1>6 DEF Heap
  <2> QED BY <1>11, <1>12, <2>1 DEF new

(* Kept takes the places that are left one by one, in their order. *)
LEMMA Keeping ==
    ASSUME NEW T, NEW ts \in Seq(T), NEW gone
    PROVE  \E at \in [1 .. Len(Kept(ts, gone)) -> {i \in DOMAIN ts : ts[i] \notin gone}] :
             /\ Kept(ts, gone) \in Seq(T)
             /\ \A k \in 1 .. Len(Kept(ts, gone)) : Kept(ts, gone)[k] = ts[at[k]]
             /\ \A k, l \in 1 .. Len(Kept(ts, gone)) : k < l => at[k] < at[l]
             /\ \A i \in DOMAIN ts : ts[i] \notin gone => \E k \in 1 .. Len(Kept(ts, gone)) : at[k] = i
<1> DEFINE left == {i \in DOMAIN ts : ts[i] \notin gone}
           n == Cardinality(left)
           upTo(i) == {j \in left : j <= i}
           pick(k) == CHOOSE i \in left : Cardinality(upTo(i)) = k
           at == [k \in 1 .. n |-> pick(k)]
           new == Kept(ts, gone)
<1>1. DOMAIN ts = 1 .. Len(ts) /\ Len(ts) \in Nat /\ \A i \in 1 .. Len(ts) : ts[i] \in T
  OBVIOUS
<1>2. left \subseteq 1 .. Len(ts)
  BY <1>1
<1>3. IsFiniteSet(left)
  <2>1. IsFiniteSet(1 .. Len(ts)) /\ left \in SUBSET (1 .. Len(ts))
    BY <1>1, <1>2, FS_Interval
  <2> HIDE DEF left
  <2> QED BY ONLY <2>1, FS_Subset
<1>4. n \in Nat
  BY <1>3, FS_CardinalityType
<1>5. new = [k \in 1 .. n |-> ts[at[k]]]
  BY DEF Kept
<1>7. left \subseteq Int
  BY <1>1, <1>2
<1> HIDE DEF left
<1>8. /\ \A i \in left : Cardinality(upTo(i)) \in 1 .. n
      /\ \A i, j \in left : i < j => Cardinality(upTo(i)) < Cardinality(upTo(j))
      /\ \A k \in 1 .. n : \E i \in left : Cardinality(upTo(i)) = k
  BY <1>3, <1>7, CountEnumerates
<1>10. \A k \in 1 .. n : at[k] \in left /\ Cardinality(upTo(at[k])) = k
  <2> TAKE k \in 1 .. n
  <2>1. \E i \in left : Cardinality(upTo(i)) = k
    <3> HIDE DEF upTo, pick
    <3> QED BY <1>8
  <2>2. pick(k) \in left /\ Cardinality(upTo(pick(k))) = k
    <3> HIDE DEF upTo
    <3> QED BY <2>1
  <2>3. at[k] = pick(k)
    <3> HIDE DEF pick
    <3> QED OBVIOUS
  <2> HIDE DEF pick, at
  <2> QED BY <2>2, <2>3
<1>12. at \in [1 .. n -> left]
  <2>1. \A k \in 1 .. n : at[k] \in left
    BY <1>10
  <2> HIDE DEF pick
  <2>2. \A k \in 1 .. n : pick(k) \in left
    BY <2>1
  <2> QED BY <2>2
<1> HIDE DEF at, pick, upTo
<1>13. \A k, l \in 1 .. n : k < l => at[k] < at[l]
  <2> TAKE k, l \in 1 .. n
  <2>1. at[k] \in left /\ at[l] \in left /\ at[k] \in Int /\ at[l] \in Int
    BY <1>7, <1>10
  <2>2. Cardinality(upTo(at[k])) = k /\ Cardinality(upTo(at[l])) = l
    BY <1>10
  <2>3. at[l] < at[k] => l < k
    BY <1>8, <2>1, <2>2
  <2>4. at[l] = at[k] => l = k
    BY <2>2
  <2>5. k \in Int /\ l \in Int
    OBVIOUS
  <2> QED BY ONLY <2>1, <2>3, <2>4, <2>5
<1>14. \A i \in left : \E k \in 1 .. n : at[k] = i
  <2> TAKE i \in left
  <2> DEFINE k == Cardinality(upTo(i))
  <2>1. k \in 1 .. n
    BY <1>8
  <2> HIDE DEF k
  <2>2. at[k] \in left /\ Cardinality(upTo(at[k])) = k
    BY <1>10, <2>1
  <2>3. Cardinality(upTo(i)) = k
    BY DEF k
  <2>4. at[k] \in Int /\ i \in Int
    BY <1>7, <2>2
  <2>5. k \in Int
    BY <2>1
  <2>6. ~(at[k] < i) /\ ~(i < at[k])
    <3>1. at[k] < i => k < k
      BY <1>8, <2>2, <2>3
    <3>2. i < at[k] => k < k
      BY <1>8, <2>2, <2>3
    <3> QED BY ONLY <2>5, <3>1, <3>2
  <2>7. at[k] = i
    BY ONLY <2>4, <2>6
  <2> QED BY <2>1, <2>7
<1>15. \A k \in 1 .. n : ts[at[k]] \in T
  BY <1>1, <1>2, <1>10
<1> HIDE DEF new
<1>16. new \in Seq(T) /\ Len(new) = n /\ \A k \in 1 .. n : new[k] = ts[at[k]]
  <2>1. new \in [1 .. n -> T]
    BY <1>5, <1>15
  <2>2. new \in Seq(T) /\ Len(new) = n
    BY <1>4, <2>1
  <2> QED BY <1>5, <2>2
<1>17. \A i \in DOMAIN ts : ts[i] \notin gone => \E k \in 1 .. n : at[k] = i
  BY <1>14 DEF left
<1> HIDE DEF n
<1> QED
  <2>1. at \in [1 .. Len(new) -> left]
    BY <1>12, <1>16
  <2>2. /\ new \in Seq(T)
        /\ \A k \in 1 .. Len(new) : new[k] = ts[at[k]]
        /\ \A k, l \in 1 .. Len(new) : k < l => at[k] < at[l]
        /\ \A i \in DOMAIN ts : ts[i] \notin gone => \E k \in 1 .. Len(new) : at[k] = i
    BY <1>13, <1>16, <1>17
  <2> QED BY <2>1, <2>2 DEF new, left

(* Kept drops the elements of gone and nothing else. *)
LEMMA KeptTally ==
    ASSUME NEW T, NEW ts \in Seq(T), NEW gone
    PROVE  /\ Kept(ts, gone) \in Seq(T)
           /\ ToSet(Kept(ts, gone)) = ToSet(ts) \ gone
           /\ \A S : Tally(Kept(ts, gone), S) = Tally(ts, S \ gone)
<1> DEFINE new == Kept(ts, gone)
           left == {i \in DOMAIN ts : ts[i] \notin gone}
           n == Len(new)
<1>1. PICK at \in [1 .. n -> left] :
             /\ new \in Seq(T)
             /\ \A k \in 1 .. n : new[k] = ts[at[k]]
             /\ \A k, l \in 1 .. n : k < l => at[k] < at[l]
             /\ \A i \in DOMAIN ts : ts[i] \notin gone => \E k \in 1 .. n : at[k] = i
  BY Keeping
<1>2. DOMAIN ts = 1 .. Len(ts) /\ Len(ts) \in Nat
  OBVIOUS
<1> HIDE DEF new
<1>3. DOMAIN new = 1 .. n /\ n \in Nat
  BY <1>1
<1>4. \A k \in 1 .. n : at[k] \in DOMAIN ts /\ at[k] \in Int /\ ts[at[k]] \notin gone
  BY <1>1, <1>2
<1> HIDE DEF n
<1>5. \A k, l \in 1 .. n : at[k] = at[l] => k = l
  <2> TAKE k, l \in 1 .. n
  <2>1. at[k] \in Int /\ k \in Int /\ l \in Int
    BY <1>4
  <2>2. (k < l => at[k] < at[l]) /\ (l < k => at[l] < at[k])
    BY <1>1
  <2> QED BY ONLY <2>1, <2>2
<1>6. ToSet(new) = ToSet(ts) \ gone
  <2>1. \A k \in 1 .. n : new[k] \in ToSet(ts) \ gone
    BY <1>1, <1>4 DEF ToSet
  <2>2. \A i \in DOMAIN ts : ts[i] \notin gone => ts[i] \in ToSet(new)
    <3> TAKE i \in DOMAIN ts
    <3> HAVE ts[i] \notin gone
    <3>1. PICK k \in 1 .. n : at[k] = i
      BY <1>1
    <3>2. new[k] = ts[i]
      BY <1>1, <3>1
    <3> QED BY <1>3, <3>2 DEF ToSet
  <2> QED BY <1>3, <2>1, <2>2 DEF ToSet
<1>7. ASSUME NEW S
      PROVE  Tally(new, S) = Tally(ts, S \ gone)
  <2> DEFINE P == Places(new, S)
             Q == Places(ts, S \ gone)
             f == [k \in P |-> at[k]]
  <2>1. P \subseteq 1 .. n /\ \A k \in 1 .. n : k \in P <=> new[k] \in S
    BY <1>3 DEF Places
  <2>2. \A i \in DOMAIN ts : i \in Q <=> ts[i] \in S /\ ts[i] \notin gone
    BY DEF Places
  <2>3. Q \subseteq DOMAIN ts
    BY DEF Places
  <2>4. IsFiniteSet(P)
    BY <1>1, PlacesFinite
  <2> HIDE DEF P, Q
  <2>5. f \in [P -> Q]
    BY <1>1, <1>4, <2>1, <2>2
  <2>6. \A a, b \in P : f[a] = f[b] => a = b
    BY <1>5, <2>1
  <2>7. \A q \in Q : \E a \in P : f[a] = q
    <3> TAKE q \in Q
    <3>1. PICK k \in 1 .. n : at[k] = q
      BY <1>1, <2>2, <2>3
    <3>2. k \in P
      BY <1>1, <2>1, <2>2, <2>3, <3>1
    <3> QED BY <3>1, <3>2
  <2> HIDE DEF f
  <2>8. Cardinality(Q) = Cardinality(P)
    BY <2>4, <2>5, <2>6, <2>7, SameTally
  <2> QED BY <2>8 DEF P, Q, Tally
<1> QED BY <1>1, <1>6, <1>7 DEF new

(* What is left of a heap is a heap. *)
LEMMA KeptHeap ==
    ASSUME NEW ts, Heap(ts), NEW gone
    PROVE  Heap(Kept(ts, gone))
<1> DEFINE new == Kept(ts, gone)
           left == {i \in DOMAIN ts : ts[i] \notin gone}
           n == Len(new)
<1>1. ts \in Seq(Tasks) /\ DOMAIN ts = 1 .. Len(ts) /\ Len(ts) \in Nat
  BY DEF Heap
<1>2. PICK at \in [1 .. n -> left] :
             /\ new \in Seq(Tasks)
             /\ \A k \in 1 .. n : new[k] = ts[at[k]]
             /\ \A k, l \in 1 .. n : k < l => at[k] < at[l]
  BY <1>1, Keeping
<1> HIDE DEF new
<1>3. DOMAIN new = 1 .. n /\ n \in Nat
  BY <1>2
<1> HIDE DEF n
<1>4. \A i \in 1 .. n : at[i] \in DOMAIN ts /\ at[i] \in 1 .. Len(ts)
  BY <1>1, <1>2
<1>5. Sorted(new)
  <2> SUFFICES ASSUME NEW i \in 1 .. n, NEW j \in 1 .. i
               PROVE  new[j].due <= new[i].due
    BY <1>3 DEF Sorted
  <2>1. j \in 1 .. n
    BY <1>3
  <2>2. at[j] \in 1 .. at[i]
    <3>1. at[i] \in 1 .. Len(ts) /\ at[j] \in 1 .. Len(ts)
      BY <1>4, <2>1
    <3>2. j < i => at[j] < at[i]
      BY <1>2, <2>1
    <3>3. j = i \/ j < i
      BY <1>3, <2>1
    <3> QED BY <1>1, <3>1, <3>2, <3>3
  <2>3. ts[at[j]].due <= ts[at[i]].due
    BY <1>4, <2>2 DEF Heap, Sorted
  <2> QED BY <1>2, <2>1, <2>3
<1> QED BY <1>2, <1>5 DEF Heap, new

(* The tallies of sets that do not meet add up. *)
LEMMA TallySplits ==
    ASSUME NEW T, NEW ts \in Seq(T), NEW A, NEW B, A \cap B = {}
    PROVE  Tally(ts, A \cup B) = Tally(ts, A) + Tally(ts, B)
<1>1. IsFiniteSet(Places(ts, A)) /\ IsFiniteSet(Places(ts, B))
  BY PlacesFinite
<1>2. Places(ts, A \cup B) = Places(ts, A) \cup Places(ts, B) /\ Places(ts, A) \cap Places(ts, B) = {}
  BY DEF Places
<1>3. /\ Cardinality(Places(ts, A)) \in Nat /\ Cardinality(Places(ts, B)) \in Nat
      /\ Cardinality(Places(ts, A) \cap Places(ts, B)) = 0
  BY <1>1, <1>2, FS_CardinalityType, FS_EmptySet
<1>4. Cardinality(Places(ts, A \cup B)) =
        Cardinality(Places(ts, A)) + Cardinality(Places(ts, B)) - Cardinality(Places(ts, A) \cap Places(ts, B))
  BY <1>1, <1>2, FS_Union
<1> QED BY ONLY <1>3, <1>4 DEF Tally

(* All places of a sequence hold one of its elements. *)
LEMMA LenIsTally ==
    ASSUME NEW T, NEW ts \in Seq(T)
    PROVE  Tally(ts, T) = Len(ts)
<1>1. DOMAIN ts = 1 .. Len(ts) /\ Len(ts) \in Nat /\ \A i \in 1 .. Len(ts) : ts[i] \in T
  OBVIOUS
<1>2. Places(ts, T) = 1 .. Len(ts)
  BY <1>1 DEF Places
<1>3. Cardinality(1 .. Len(ts)) = Len(ts)
  <2>1. Cardinality(1 .. Len(ts)) = IF 1 > Len(ts) THEN 0 ELSE Len(ts) - 1 + 1
    BY ONLY <1>1, 1 \in Int, Len(ts) \in Int, FS_Interval
  <2> QED BY ONLY <1>1, <2>1
<1> QED BY <1>2, <1>3 DEF Tally

(* Who holds an element of a set holds it somewhere. *)
LEMMA TallyPositive ==
    ASSUME NEW T, NEW ts \in Seq(T), NEW S
    PROVE  Tally(ts, S) = 0 <=> ToSet(ts) \cap S = {}
<1>1. IsFiniteSet(Places(ts, S))
  BY PlacesFinite
<1>2. Tally(ts, S) = 0 <=> Places(ts, S) = {}
  BY <1>1, FS_EmptySet DEF Tally
<1> QED BY <1>2 DEF Places, ToSet

(* The head of the heap leaves the other tasks in their order. *)
LEMMA PoppedTally ==
    ASSUME NEW ts, Heap(ts), ts # <<>>
    PROVE  /\ Heap(Tail(ts)) /\ ts[1] \in Tasks
           /\ ToSet(ts) = ToSet(Tail(ts)) \cup {ts[1]}
           /\ \A S : Tally(ts, S) = IF ts[1] \in S THEN Tally(Tail(ts), S) + 1 ELSE Tally(Tail(ts), S)
<1> DEFINE new == Tail(ts)
           n == Len(ts)
<1>1. ts \in Seq(Tasks) /\ n \in Nat /\ n > 0 /\ DOMAIN ts = 1 .. n
  BY DEF Heap
<1>2. new \in Seq(Tasks) /\ Len(new) = n - 1 /\ DOMAIN new = 1 .. (n - 1)
  BY <1>1
<1>3. \A i \in 1 .. (n - 1) : new[i] = ts[i + 1]
  BY <1>1
<1>4. Sorted(ts)
  BY DEF Heap
<1> HIDE DEF new, n
<1>5. Sorted(new)
  <2>1. ASSUME NEW i \in 1 .. (n - 1), NEW j \in 1 .. i
        PROVE  new[j].due <= new[i].due
    <3>1. i + 1 \in DOMAIN ts /\ j + 1 \in 1 .. (i + 1) /\ j \in 1 .. (n - 1)
      BY <1>1
    <3>2. ts[j + 1].due <= ts[i + 1].due
      BY ONLY <1>4, <3>1 DEF Sorted
    <3> QED BY <1>3, <3>1, <3>2
  <2> QED BY <1>2, <2>1 DEF Sorted
<1>6. ts[1] \in Tasks
  BY <1>1
<1>7. ToSet(ts) = ToSet(new) \cup {ts[1]}
  <2>1. \A i \in 1 .. n : i = 1 \/ (i - 1 \in 1 .. (n - 1) /\ ts[i] = new[i - 1])
    BY <1>1, <1>3
  <2>2. \A i \in 1 .. (n - 1) : i + 1 \in 1 .. n /\ new[i] = ts[i + 1]
    BY <1>1, <1>3
  <2>3. 1 \in 1 .. n
    BY <1>1
  <2>4. ToSet(ts) \subseteq ToSet(new) \cup {ts[1]}
    BY <1>1, <1>2, <2>1 DEF ToSet
  <2>5. ToSet(new) \cup {ts[1]} \subseteq ToSet(ts)
    BY <1>1, <1>2, <2>2, <2>3 DEF ToSet
  <2> QED BY <2>4, <2>5
<1>8. ASSUME NEW S
      PROVE  Tally(ts, S) = IF ts[1] \in S THEN Tally(new, S) + 1 ELSE Tally(new, S)
  <2> DEFINE P == Places(new, S)
             Q == Places(ts, S) \ {1}
             f == [i \in P |-> i + 1]
  <2>1. IsFiniteSet(P) /\ Cardinality(P) \in Nat
    BY <1>2, PlacesFinite DEF Tally
  <2>2. P \subseteq 1 .. (n - 1)
    BY <1>2 DEF Places
  <2>3. f \in [P -> Q]
    <3>1. \A i \in P : i + 1 \in 1 .. n /\ i + 1 # 1 /\ ts[i + 1] \in S
      BY <1>1, <1>3, <2>2 DEF Places
    <3>2. \A i \in P : i + 1 \in Q
      BY <1>1, <3>1 DEF Places
    <3> QED BY <3>2
  <2>4. \A a, b \in P : f[a] = f[b] => a = b
    BY <2>2
  <2>5. \A q \in Q : \E a \in P : f[a] = q
    <3>1. ASSUME NEW q \in Q
          PROVE  q - 1 \in P /\ f[q - 1] = q
      <4>1. q \in 1 .. n /\ q # 1 /\ ts[q] \in S
        BY <1>1 DEF Places
      <4>2. q - 1 \in 1 .. (n - 1) /\ (q - 1) + 1 = q
        BY <1>1, <4>1
      <4>3. q - 1 \in P
        BY <1>2, <1>3, <4>1, <4>2 DEF Places
      <4> QED BY <4>2, <4>3
    <3> QED BY <3>1
  <2> HIDE DEF f, P, Q
  <2>6. IsFiniteSet(Q) /\ Cardinality(Q) = Cardinality(P)
    BY <2>1, <2>3, <2>4, <2>5, SameTally
  <2>7. CASE ts[1] \in S
    <3>1. Places(ts, S) = Q \cup {1} /\ 1 \notin Q
      BY <1>1, <2>7 DEF Places, Q
    <3>2. Cardinality(Q \cup {1}) = Cardinality(Q) + 1
      BY <2>6, <3>1, FS_AddElement
    <3> QED BY <2>6, <2>7, <3>1, <3>2 DEF Tally, P
  <2>8. CASE ts[1] \notin S
    <3>1. Places(ts, S) = Q
      BY <2>8 DEF Places, Q
    <3> QED BY <2>6, <2>8, <3>1 DEF Tally, P
  <2> QED BY <2>7, <2>8
<1> QED BY <1>2, <1>5, <1>6, <1>7, <1>8 DEF Heap, new

(* The task with its due tick one nearer. *)
Nearer(t) == [t EXCEPT !.due = @ - 1]

(* A task that is not due stays a task of its cast or skill as time passes. *)
LEMMA NearerTask ==
    ASSUME NEW t \in Tasks, t.due > 0
    PROVE  /\ Nearer(t) \in Tasks /\ Nearer(t).due = t.due - 1
           /\ Nearer(t).id = t.id /\ Nearer(t).kind = t.kind
           /\ Nearer(t).token = t.token /\ Nearer(t).what = t.what
<1>1. CASE t \in CastTask
  <2>1. t.due - 1 \in Nat
    BY <1>1 DEF CastTask
  <2>2. Nearer(t) \in CastTask
    BY ONLY <1>1, <2>1 DEF CastTask, Nearer
  <2>3. /\ Nearer(t).due = t.due - 1 /\ Nearer(t).id = t.id /\ Nearer(t).kind = t.kind
        /\ Nearer(t).token = t.token /\ Nearer(t).what = t.what
    BY ONLY <1>1 DEF CastTask, Nearer
  <2> QED BY <2>2, <2>3 DEF Tasks
<1>2. CASE t \in RechargeTask
  <2>1. t.due - 1 \in Nat
    BY <1>2 DEF RechargeTask
  <2>2. Nearer(t) \in RechargeTask
    BY ONLY <1>2, <2>1 DEF RechargeTask, Nearer
  <2>3. /\ Nearer(t).due = t.due - 1 /\ Nearer(t).id = t.id /\ Nearer(t).kind = t.kind
        /\ Nearer(t).token = t.token /\ Nearer(t).what = t.what
    BY ONLY <1>2 DEF RechargeTask, Nearer
  <2> QED BY <2>2, <2>3 DEF Tasks
<1> QED BY <1>1, <1>2 DEF Tasks

(* As time passes the heap keeps its order and its tallies. *)
LEMMA NearerHeap ==
    ASSUME NEW ts, Heap(ts), \A i \in DOMAIN ts : ts[i].due > 0,
           NEW new, new = [i \in DOMAIN ts |-> [ts[i] EXCEPT !.due = @ - 1]]
    PROVE  /\ Heap(new) /\ DOMAIN new = DOMAIN ts
           /\ \A i \in DOMAIN ts : /\ new[i] \in Tasks /\ new[i].due = ts[i].due - 1
                                   /\ new[i].id = ts[i].id /\ new[i].kind = ts[i].kind
                                   /\ new[i].token = ts[i].token /\ new[i].what = ts[i].what
           /\ \A c : Tally(new, OfCast(c)) = Tally(ts, OfCast(c))
           /\ \A p : Tally(new, OfSkill(p)) = Tally(ts, OfSkill(p))
<1>1. ts \in Seq(Tasks) /\ Sorted(ts) /\ DOMAIN ts = 1 .. Len(ts) /\ Len(ts) \in Nat
  BY DEF Heap
<1>2. DOMAIN new = DOMAIN ts /\ \A i \in DOMAIN ts : ts[i] \in Tasks /\ new[i] = Nearer(ts[i])
  BY <1>1 DEF Nearer
<1>3. \A i \in DOMAIN ts : /\ new[i] \in Tasks /\ new[i].due = ts[i].due - 1
                           /\ new[i].id = ts[i].id /\ new[i].kind = ts[i].kind
                           /\ new[i].token = ts[i].token /\ new[i].what = ts[i].what
  BY <1>2, NearerTask
<1>4. new \in Seq(Tasks)
  <2>1. new \in [1 .. Len(ts) -> Tasks]
    <3>1. new = [i \in 1 .. Len(ts) |-> new[i]]
      BY <1>1
    <3>2. \A i \in 1 .. Len(ts) : new[i] \in Tasks
      BY <1>1, <1>3
    <3> QED BY ONLY <3>1, <3>2
  <2> QED BY <1>1, <2>1, SeqDef
<1>5. Sorted(new)
  <2>1. ASSUME NEW i \in DOMAIN ts, NEW j \in 1 .. i
        PROVE  new[j].due <= new[i].due
    <3>1. j \in DOMAIN ts /\ ts[j].due <= ts[i].due
      BY <1>1 DEF Sorted
    <3>2. ts[j].due \in Int /\ ts[i].due \in Int
      BY <1>1, <3>1 DEF Tasks, CastTask, RechargeTask
    <3> QED BY <1>3, <3>1, <3>2
  <2> QED BY <1>2, <2>1 DEF Sorted
<1>6. \A c : Places(new, OfCast(c)) = Places(ts, OfCast(c))
  BY <1>2, <1>3 DEF Places, OfCast
<1>7. \A p : Places(new, OfSkill(p)) = Places(ts, OfSkill(p))
  BY <1>2, <1>3 DEF Places, OfSkill
<1> QED BY <1>2, <1>3, <1>4, <1>5, <1>6, <1>7 DEF Heap, Tally

(* A cast with no task in the heap counts none as pending, and conversely. *)
LEMMA NoTasks ==
    ASSUME NEW w, NEW c, Sound(w), c \in DOMAIN w.casts
    PROVE  w.casts[c].pending = 0 <=> \A t \in ToSet(w.tasks) : t.id # c
<1>1. w.tasks \in Seq(Tasks) /\ w.casts[c].pending = Tally(w.tasks, OfCast(c))
  BY DEF Sound, HeapAgrees, Heap
<1>2. \A t \in ToSet(w.tasks) : t \in Tasks
  BY <1>1 DEF ToSet
<1>3. Tally(w.tasks, OfCast(c)) = 0 <=> ToSet(w.tasks) \cap OfCast(c) = {}
  BY <1>1, TallyPositive
<1> QED BY <1>1, <1>2, <1>3 DEF OfCast

-----------------------------------------------------------------------------
(* Steps of a handler *)

(* From w to v a handler touches no cast but c, and removes only ended ones. *)
Only(w, v, c) ==
    /\ v.nextCast = w.nextCast
    /\ DOMAIN v.casts \subseteq DOMAIN w.casts
    /\ \A d \in DOMAIN w.casts \ {c} :
         IF d \in DOMAIN v.casts THEN v.casts[d] = w.casts[d] ELSE Ended(w.casts[d])
    /\ c \in DOMAIN v.casts => /\ v.casts[c].prog = w.casts[c].prog
                               /\ w.casts[c].committed => v.casts[c].committed

Does(w, v, c) == Sound(v) /\ Only(w, v, c)
Keeps(w, v, c) == Does(w, v, c) /\ c \in DOMAIN v.casts

(* A handler that returns an error has not removed its cast. *)
Handles(w, v, c) == Does(w, v, c) /\ (v.err => w.err \/ c \in DOMAIN v.casts)
Calm(w, v, c) == Keeps(w, v, c) /\ v.err = w.err

(* From w to v only fields of c change that no other table mirrors. *)
Edited(w, v, c) ==
    /\ IsWorld(v)
    /\ v.tasks = w.tasks /\ v.ammo = w.ammo /\ v.nextCast = w.nextCast
    /\ v.active = w.active /\ v.completed = w.completed
    /\ v.cooldowns \in [Program \cup {Gcd} -> Nat]
    /\ v.err \in BOOLEAN
    /\ DOMAIN v.casts = DOMAIN w.casts
    /\ \A d \in DOMAIN w.casts \ {c} : v.casts[d] = w.casts[d]
    /\ v.casts[c] \in CastRecord
    /\ v.casts[c].prog = w.casts[c].prog
    /\ v.casts[c].pending = w.casts[c].pending
    /\ v.casts[c].done = w.casts[c].done
    /\ w.casts[c].committed => v.casts[c].committed

(* The casts that are not done are finitely many. *)
LEMMA NotDoneFinite ==
    ASSUME NEW w, CastsTyped(w)
    PROVE  IsFiniteSet(NotDone(w)) /\ Cardinality(NotDone(w)) \in Nat
<1>1. w.nextCast \in Int
  BY LimitsAreNumbers DEF CastsTyped
<1>2. IsFiniteSet(1 .. w.nextCast)
  BY <1>1, FS_Interval
<1>3. NotDone(w) \in SUBSET (1 .. w.nextCast)
  BY DEF CastsTyped, NotDone
<1>4. IsFiniteSet(NotDone(w))
  BY <1>2, <1>3, FS_Subset
<1> QED BY <1>4, FS_CardinalityType

(* Such an edit leaves the tables in agreement if it does so for the slots. *)
LEMMA Editing ==
    ASSUME NEW w, NEW v, NEW c, Sound(w), c \in DOMAIN w.casts, Edited(w, v, c), SlotsAgree(v)
    PROVE  Keeps(w, v, c)
<1>1. CastsTyped(v)
  BY DEF Sound, CastsTyped, Edited
<1>2. HeapAgrees(v)
  BY DEF Sound, HeapAgrees, Edited
<1>3. AmmoAgrees(v)
  BY DEF Sound, AmmoAgrees, Edited
<1>4. DoneAgrees(v)
  <2>1. \A d \in DOMAIN w.casts : v.casts[d].done = w.casts[d].done
    BY DEF Edited
  <2>2. NotDone(v) = NotDone(w)
    BY <2>1 DEF NotDone, Edited
  <2>3. DoneAgrees(w)
    BY DEF Sound
  <2>4. /\ v.active = w.active /\ v.completed = w.completed /\ v.nextCast = w.nextCast
        /\ DOMAIN v.casts = DOMAIN w.casts
    BY DEF Edited
  <2> QED BY ONLY <2>1, <2>2, <2>3, <2>4 DEF DoneAgrees
<1>5. Sound(v)
  BY <1>1, <1>2, <1>3, <1>4 DEF Sound, Edited
<1>6. Only(w, v, c)
  BY DEF Only, Edited
<1> QED BY <1>5, <1>6 DEF Keeps, Does, Edited

(* Steps of a handler follow one another. *)
LEMMA Then ==
    ASSUME NEW w, NEW v, NEW u, NEW c, c \in DOMAIN w.casts, Keeps(w, v, c), Does(v, u, c)
    PROVE  Does(w, u, c)
<1>1. Only(w, u, c)
  <2>1. Only(w, v, c) /\ Only(v, u, c) /\ c \in DOMAIN v.casts
    BY DEF Keeps, Does
  <2>2. \A d \in DOMAIN w.casts \ {c} :
          IF d \in DOMAIN u.casts THEN u.casts[d] = w.casts[d] ELSE Ended(w.casts[d])
    BY <2>1 DEF Only
  <2> QED BY <2>1, <2>2 DEF Only
<1> QED BY <1>1 DEF Does

(* A step that returns no error is followed by the rest of the handler. *)
LEMMA ThenHandles ==
    ASSUME NEW w, NEW v, NEW u, NEW c, c \in DOMAIN w.casts,
           Keeps(w, v, c), v.err => w.err, Handles(v, u, c)
    PROVE  Handles(w, u, c)
BY Then DEF Keeps, Handles

(* Steps that keep the cast keep it one after the other. *)
LEMMA ThenKeeps ==
    ASSUME NEW w, NEW v, NEW u, NEW c, c \in DOMAIN w.casts, Keeps(w, v, c), Keeps(v, u, c)
    PROVE  Keeps(w, u, c)
BY Then DEF Keeps

(* Steps without an error, too. *)
LEMMA ThenCalm ==
    ASSUME NEW w, NEW v, NEW u, NEW c, c \in DOMAIN w.casts, Calm(w, v, c), Calm(v, u, c)
    PROVE  Calm(w, u, c)
BY ThenKeeps DEF Calm

(* A handler may do nothing. *)
LEMMA NoStep ==
    ASSUME NEW w, NEW c, Sound(w), c \in DOMAIN w.casts
    PROVE  Keeps(w, w, c)
BY DEF Keeps, Does, Only

(* The fields of v that an edit of c leaves as they are in w. *)
SameTables(w, v) ==
    /\ v.tasks = w.tasks /\ v.ammo = w.ammo /\ v.nextCast = w.nextCast
    /\ v.active = w.active /\ v.completed = w.completed

(* The fields of a cast that no other table mirrors may change. *)
LikeCast(q, r) ==
    /\ r \in CastRecord
    /\ r.prog = q.prog /\ r.pending = q.pending /\ r.done = q.done
    /\ q.committed => r.committed

(* An edit that writes one cast and leaves its hold on the slot. *)
LEMMA PlainEdit ==
    ASSUME NEW w, NEW v, NEW c, NEW r, Sound(w), c \in DOMAIN w.casts,
           IsWorld(v), SameTables(w, v), v.casts = [w.casts EXCEPT ![c] = r],
           v.cooldowns \in [Program \cup {Gcd} -> Nat], v.err \in BOOLEAN,
           LikeCast(w.casts[c], r), r.policy = w.casts[c].policy, v.policies = w.policies
    PROVE  Keeps(w, v, c) /\ DOMAIN v.casts = DOMAIN w.casts /\ v.casts[c] = r
<1>1. /\ DOMAIN v.casts = DOMAIN w.casts /\ v.casts[c] = r
      /\ \A d \in DOMAIN w.casts \ {c} : v.casts[d] = w.casts[d]
  OBVIOUS
<1>2. Edited(w, v, c)
  BY <1>1 DEF Edited, LikeCast, SameTables
<1>3. SlotsAgree(v)
  <2>1. SlotsAgree(w)
    BY DEF Sound
  <2>2. \A d \in DOMAIN w.casts : v.casts[d].prog = w.casts[d].prog /\ v.casts[d].policy = w.casts[d].policy
    BY <1>1 DEF LikeCast
  <2> QED BY ONLY <1>1, <2>1, <2>2, v.policies = w.policies DEF SlotsAgree
<1> QED BY <1>1, <1>2, <1>3, Editing

(* An edit that takes the slot of the skill for the cast, or clears it. *)
LEMMA SlotEdit ==
    ASSUME NEW w, NEW v, NEW c, NEW r, NEW s \in {0, c}, Sound(w), c \in DOMAIN w.casts,
           IsWorld(v), SameTables(w, v), v.casts = [w.casts EXCEPT ![c] = r],
           v.cooldowns \in [Program \cup {Gcd} -> Nat], v.err \in BOOLEAN,
           LikeCast(w.casts[c], r), s = c => r.policy,
           v.policies = [w.policies EXCEPT ![w.casts[c].prog] = s]
    PROVE  Keeps(w, v, c) /\ DOMAIN v.casts = DOMAIN w.casts /\ v.casts[c] = r
<1>1. /\ DOMAIN v.casts = DOMAIN w.casts /\ v.casts[c] = r
      /\ \A d \in DOMAIN w.casts \ {c} : v.casts[d] = w.casts[d]
  OBVIOUS
<1>2. Edited(w, v, c)
  BY <1>1 DEF Edited, LikeCast, SameTables
<1> DEFINE q == w.casts[c].prog
<1>3. c \in 0 .. MaxCasts
  BY LimitsAreNumbers DEF Sound, CastsTyped
<1>4. q \in Program
  BY DEF Sound, CastsTyped, CastRecord
<1>5. SlotsAgree(v)
  <2>1. SlotsAgree(w)
    BY DEF Sound
  <2>2. v.policies \in [Program -> 0 .. MaxCasts]
    BY <1>3, <1>4, <2>1, LimitsAreNumbers DEF SlotsAgree
  <2>3. ASSUME NEW p \in Program, v.policies[p] # 0
        PROVE  /\ v.policies[p] \in DOMAIN v.casts
               /\ v.casts[v.policies[p]].prog = p
               /\ v.casts[v.policies[p]].policy
    <3>1. CASE p = q
      <4>1. v.policies[p] = s
        BY <1>4, <2>1, <3>1 DEF SlotsAgree
      <4>2. s = c
        BY <2>3, <4>1
      <4> QED BY <1>1, <3>1, <4>1, <4>2 DEF LikeCast
    <3>2. CASE p # q
      <4>1. v.policies[p] = w.policies[p]
        BY <2>1, <3>2 DEF SlotsAgree
      <4>2. /\ v.policies[p] \in DOMAIN w.casts
            /\ w.casts[v.policies[p]].prog = p
            /\ w.casts[v.policies[p]].policy
        BY <2>1, <2>3, <4>1 DEF SlotsAgree
      <4>3. v.policies[p] # c
        BY <3>2, <4>2
      <4> QED BY <1>1, <4>2, <4>3
    <3> QED BY <3>1, <3>2
  <2> QED BY <2>2, <2>3 DEF SlotsAgree
<1> QED BY <1>1, <1>2, <1>5, Editing

(* What the scheduling of a task, or its end, leaves of a cast. *)
Held(q, r) ==
    /\ r.age = q.age /\ r.policy = q.policy /\ r.token = q.token /\ r.phase = q.phase
    /\ r.done = q.done /\ r.committed = q.committed /\ r.stage = q.stage

(* The tasks of the phase of a cast. *)
PhaseOf(w, c) == {t \in ToSet(w.tasks) : t.id = c /\ t.token = w.casts[c].token}

(* The error of a handler changes nothing. *)
LEMMA BadKeeps ==
    ASSUME NEW w, NEW c, Sound(w), c \in DOMAIN w.casts, NEW v, v = Bad(w)
    PROVE  Keeps(w, v, c) /\ v.err /\ v.casts = w.casts
<1>1. IsWorld(w) /\ w.casts[c] \in CastRecord
  BY DEF Sound, CastsTyped
<1>2. IsWorld(v)
  BY ONLY <1>1, v = Bad(w) DEF IsWorld, Bad
<1>3. /\ v.casts = w.casts /\ v.policies = w.policies /\ v.cooldowns = w.cooldowns /\ v.err = TRUE
      /\ SameTables(w, v)
  BY ONLY <1>1, v = Bad(w) DEF IsWorld, Bad, SameTables
<1>4. Edited(w, v, c)
  BY <1>1, <1>2, <1>3 DEF Edited, Sound, SameTables
<1>5. SlotsAgree(v)
  BY <1>3 DEF Sound, SlotsAgree
<1> QED BY <1>3, <1>4, <1>5, Editing

(* Schedule adds a task that the cast counts as pending. *)
LEMMA ScheduleKeeps ==
    ASSUME NEW w, NEW c, Sound(w), c \in DOMAIN w.casts,
           NEW due \in Int, NEW kind \in CastKinds, NEW what \in Words,
           NEW v, v = Schedule(w, c, due, kind, what)
    PROVE  /\ Keeps(w, v, c)
           /\ due \in Nat => /\ v.err = w.err /\ Held(w.casts[c], v.casts[c])
                             /\ ToSet(v.tasks) = ToSet(w.tasks) \cup {Task(due, kind, c, w.casts[c].token, what)}
<1>1. CASE due < 0
  <2>1. v = Bad(w)
    BY <1>1 DEF Schedule
  <2> QED BY <1>1, <2>1, BadKeeps
<1>2. CASE ~(due < 0)
  <2> DEFINE t == Task(due, kind, c, w.casts[c].token, what)
             r == [w.casts[c] EXCEPT !.pending = @ + 1, !.status = "suspended"]
  <2>1. IsWorld(w) /\ w.casts[c] \in CastRecord /\ c \in Nat \ {0}
    BY LimitsAreNumbers DEF Sound, CastsTyped
  <2>2. v = [w EXCEPT !.tasks = Insert(@, t), !.casts[c].pending = @ + 1, !.casts[c].status = "suspended"]
    BY <1>2 DEF Schedule
  <2>3. t \in Tasks /\ t.id = c /\ t.kind # "recharge"
    BY <1>2, <2>1 DEF Task, Tasks, CastTask, CastRecord, CastKinds
  <2> HIDE DEF t
  <2>4. IsWorld(v)
    BY ONLY <2>1, <2>2 DEF IsWorld
  <2>5. /\ v.tasks = Insert(w.tasks, t) /\ v.cooldowns = w.cooldowns /\ v.policies = w.policies
        /\ v.ammo = w.ammo /\ v.nextCast = w.nextCast /\ v.active = w.active /\ v.completed = w.completed
        /\ v.err = w.err
    BY ONLY <2>1, <2>2 DEF IsWorld
  <2>6. v.casts = [w.casts EXCEPT ![c] = r]
    BY ONLY <2>1, <2>2 DEF IsWorld
  <2>7. r \in CastRecord /\ r.pending = w.casts[c].pending + 1
    <3>1. PICK q \in CastRecord : q = w.casts[c]
      BY <2>1
    <3>2. q.pending + 1 \in Nat
      BY ONLY q \in CastRecord DEF CastRecord
    <3>3. [q EXCEPT !.pending = @ + 1] \in CastRecord
      BY ONLY <3>2, q \in CastRecord DEF CastRecord
    <3>4. PICK h \in CastRecord : h = [q EXCEPT !.pending = @ + 1]
      BY <3>3
    <3>5. [h EXCEPT !.status = "suspended"] \in CastRecord
      BY ONLY h \in CastRecord DEF CastRecord
    <3>6. r = [h EXCEPT !.status = "suspended"] /\ r.pending = q.pending + 1
      BY <3>1, <3>4 DEF CastRecord
    <3> QED BY <3>1, <3>5, <3>6
  <2>8. r.prog = w.casts[c].prog /\ r.done = w.casts[c].done /\ r.policy = w.casts[c].policy
        /\ r.committed = w.casts[c].committed /\ Held(w.casts[c], r)
    BY <2>1 DEF CastRecord, Held
  <2>9. DOMAIN v.casts = DOMAIN w.casts /\ v.casts[c] = r /\ \A d \in DOMAIN w.casts \ {c} : v.casts[d] = w.casts[d]
    BY <2>6
  <2> HIDE DEF r
  <2>10. /\ Heap(v.tasks) /\ ToSet(v.tasks) = ToSet(w.tasks) \cup {t}
         /\ \A S : Tally(v.tasks, S) = IF t \in S THEN Tally(w.tasks, S) + 1 ELSE Tally(w.tasks, S)
    BY <2>3, <2>5, Inserted DEF Sound, HeapAgrees
  <2>11. CastsTyped(v)
    BY <2>5, <2>7, <2>9 DEF Sound, CastsTyped
  <2>12. HeapAgrees(v)
    <3>1. HeapAgrees(w)
      BY DEF Sound
    <3>2. \A u \in ToSet(v.tasks) : u.kind # "recharge" => u.id \in DOMAIN v.casts
      BY ONLY <2>3, <2>9, <2>10, <3>1, c \in DOMAIN w.casts DEF HeapAgrees
    <3>3. \A d \in DOMAIN w.casts : t \in OfCast(d) <=> d = c
      BY <2>3 DEF OfCast
    <3>4. \A d \in DOMAIN v.casts : v.casts[d].pending = Tally(v.tasks, OfCast(d))
      BY ONLY <2>7, <2>9, <2>10, <3>1, <3>3 DEF HeapAgrees
    <3> QED BY <2>10, <3>2, <3>4 DEF HeapAgrees
  <2>13. SlotsAgree(v)
    <3>1. SlotsAgree(w)
      BY DEF Sound
    <3>2. \A d \in DOMAIN w.casts : v.casts[d].prog = w.casts[d].prog /\ v.casts[d].policy = w.casts[d].policy
      BY <2>8, <2>9
    <3> QED BY ONLY <2>5, <2>9, <3>1, <3>2 DEF SlotsAgree
  <2>14. AmmoAgrees(v)
    <3>1. AmmoAgrees(w)
      BY DEF Sound
    <3>2. \A p : t \notin OfSkill(p)
      BY <2>3 DEF OfSkill
    <3> QED BY ONLY <2>3, <2>5, <2>10, <3>1, <3>2 DEF AmmoAgrees
  <2>15. DoneAgrees(v)
    <3>1. DoneAgrees(w)
      BY DEF Sound
    <3>2. \A d \in DOMAIN w.casts : v.casts[d].done = w.casts[d].done
      BY <2>8, <2>9
    <3>3. NotDone(v) = NotDone(w)
      BY <2>9, <3>2 DEF NotDone
    <3> QED BY ONLY <2>5, <2>9, <3>1, <3>2, <3>3 DEF DoneAgrees
  <2>16. Sound(v)
    BY <2>4, <2>5, <2>11, <2>12, <2>13, <2>14, <2>15 DEF Sound
  <2>17. Only(w, v, c)
    BY <2>5, <2>8, <2>9 DEF Only
  <2> QED BY <2>5, <2>8, <2>9, <2>10, <2>16, <2>17 DEF Keeps, Does, t
<1> QED BY <1>1, <1>2

(* A task that is not due in the past is added without an error. *)
LEMMA ScheduleCalm ==
    ASSUME NEW w, NEW c, Sound(w), c \in DOMAIN w.casts, NEW due \in Nat,
           NEW kind \in CastKinds, NEW what \in Words,
           NEW v, v = Schedule(w, c, due, kind, what)
    PROVE  /\ Calm(w, v, c) /\ Held(w.casts[c], v.casts[c])
           /\ ToSet(v.tasks) = ToSet(w.tasks) \cup {Task(due, kind, c, w.casts[c].token, what)}
<1>1. PICK e \in Int : e = due
  OBVIOUS
<1>2. v = Schedule(w, c, e, kind, what)
  BY <1>1
<1>3. /\ Keeps(w, v, c)
      /\ e \in Nat => /\ v.err = w.err /\ Held(w.casts[c], v.casts[c])
                      /\ ToSet(v.tasks) = ToSet(w.tasks) \cup {Task(e, kind, c, w.casts[c].token, what)}
  BY ONLY Sound(w), c \in DOMAIN w.casts, e \in Int, kind \in CastKinds, what \in Words, <1>2, ScheduleKeeps
<1> QED BY <1>1, <1>3 DEF Calm

(* CancelPhaseTasks takes the tasks of the cast's phase out of the heap and *)
(* out of what it counts as pending.                                       *)
LEMMA CancelTasksCalm ==
    ASSUME NEW w, NEW c, Sound(w), c \in DOMAIN w.casts, NEW v, v = CancelPhaseTasks(w, c)
    PROVE  /\ Calm(w, v, c) /\ Held(w.casts[c], v.casts[c])
           /\ ToSet(v.tasks) = ToSet(w.tasks) \ PhaseOf(w, c)
<1> DEFINE ts == w.tasks
           phase == {t \in ToSet(ts) : t.id = c /\ t.token = w.casts[c].token}
           new == Kept(ts, phase)
           gone == Len(ts) - Len(new)
           n == IF w.casts[c].pending > gone THEN w.casts[c].pending - gone ELSE 0
           r == [w.casts[c] EXCEPT !.pending = n]
<1>1. IsWorld(w) /\ w.casts[c] \in CastRecord /\ c \in Nat \ {0} /\ HeapAgrees(w)
  BY LimitsAreNumbers DEF Sound, CastsTyped
<1>2. ts \in Seq(Tasks) /\ ToSet(ts) \subseteq Tasks
  BY <1>1 DEF HeapAgrees, Heap, ToSet
<1>3. /\ new \in Seq(Tasks) /\ ToSet(new) = ToSet(ts) \ phase
      /\ \A S : Tally(new, S) = Tally(ts, S \ phase)
  BY <1>2, KeptTally
<1>4. Heap(new)
  BY <1>1, KeptHeap DEF HeapAgrees
<1>5. phase \subseteq OfCast(c) /\ phase \subseteq Tasks
  BY <1>2 DEF OfCast
<1>6. v = [w EXCEPT !.tasks = new, !.casts[c].pending = n]
  BY DEF CancelPhaseTasks
<1> HIDE DEF phase, new
<1>7. /\ Tally(ts, OfCast(c)) \in Nat /\ Tally(ts, OfCast(c) \ phase) \in Nat /\ Tally(ts, phase) \in Nat
      /\ Tally(ts, Tasks \ phase) \in Nat
  BY <1>2, PlacesFinite
<1>8. gone = Tally(ts, phase)
  <2>1. Len(ts) = Tally(ts, Tasks) /\ Len(new) = Tally(new, Tasks)
    BY <1>2, <1>3, LenIsTally
  <2>2. Tally(new, Tasks) = Tally(ts, Tasks \ phase)
    BY <1>3
  <2>3. (Tasks \ phase) \cup phase = Tasks /\ (Tasks \ phase) \cap phase = {}
    BY <1>5
  <2>4. Tally(ts, Tasks) = Tally(ts, Tasks \ phase) + Tally(ts, phase)
    BY <1>2, <2>3, TallySplits
  <2> QED BY ONLY <1>7, <2>1, <2>2, <2>4
<1>9. n = Tally(new, OfCast(c)) /\ n \in Nat
  <2>1. (OfCast(c) \ phase) \cup phase = OfCast(c) /\ (OfCast(c) \ phase) \cap phase = {}
    BY <1>5
  <2>2. Tally(ts, OfCast(c)) = Tally(ts, OfCast(c) \ phase) + Tally(ts, phase)
    BY <1>2, <2>1, TallySplits
  <2>3. w.casts[c].pending = Tally(ts, OfCast(c)) /\ Tally(new, OfCast(c)) = Tally(ts, OfCast(c) \ phase)
    BY <1>1, <1>3 DEF HeapAgrees
  <2> HIDE DEF gone
  <2> QED BY ONLY <1>7, <1>8, <2>2, <2>3
<1> HIDE DEF n
<1>10. /\ v.tasks = new /\ v.cooldowns = w.cooldowns /\ v.policies = w.policies /\ v.ammo = w.ammo
       /\ v.nextCast = w.nextCast /\ v.active = w.active /\ v.completed = w.completed /\ v.err = w.err
  BY ONLY <1>1, <1>6 DEF IsWorld
<1>11. v.casts = [w.casts EXCEPT ![c] = r]
  BY ONLY <1>1, <1>6 DEF IsWorld
<1>12. IsWorld(v)
  BY ONLY <1>1, <1>6 DEF IsWorld
<1>13. /\ r \in CastRecord /\ r.pending = n
       /\ r.prog = w.casts[c].prog /\ r.done = w.casts[c].done /\ r.policy = w.casts[c].policy
       /\ r.committed = w.casts[c].committed /\ Held(w.casts[c], r)
  BY <1>1, <1>9 DEF CastRecord, Held
<1>14. DOMAIN v.casts = DOMAIN w.casts /\ v.casts[c] = r /\ \A d \in DOMAIN w.casts \ {c} : v.casts[d] = w.casts[d]
  BY <1>11
<1> HIDE DEF r, ts
<1>15. CastsTyped(v)
  BY <1>10, <1>13, <1>14 DEF Sound, CastsTyped
<1>16. HeapAgrees(v)
  <2>1. \A u \in ToSet(v.tasks) : u.kind # "recharge" => u.id \in DOMAIN v.casts
    BY ONLY <1>1, <1>3, <1>10, <1>14 DEF HeapAgrees, ts
  <2>2. ASSUME NEW d \in DOMAIN w.casts \ {c}
        PROVE  v.casts[d].pending = Tally(v.tasks, OfCast(d))
    <3>1. OfCast(d) \ phase = OfCast(d)
      BY <1>5 DEF OfCast
    <3> QED BY <1>1, <1>3, <1>10, <1>14, <3>1 DEF HeapAgrees, ts
  <2>3. v.casts[c].pending = Tally(v.tasks, OfCast(c))
    BY <1>9, <1>10, <1>13, <1>14
  <2> QED BY <1>4, <1>10, <1>14, <2>1, <2>2, <2>3 DEF HeapAgrees
<1>17. SlotsAgree(v)
  <2>1. SlotsAgree(w)
    BY DEF Sound
  <2>2. \A d \in DOMAIN w.casts : v.casts[d].prog = w.casts[d].prog /\ v.casts[d].policy = w.casts[d].policy
    BY <1>13, <1>14
  <2> QED BY ONLY <1>10, <1>14, <2>1, <2>2 DEF SlotsAgree
<1>18. AmmoAgrees(v)
  <2>1. AmmoAgrees(w)
    BY DEF Sound
  <2>2. ASSUME NEW p \in Program
        PROVE  Tally(v.tasks, OfSkill(p)) = Tally(w.tasks, OfSkill(p))
    <3>1. OfSkill(p) \ phase = OfSkill(p)
      BY <1>1, <1>5 DEF OfCast, OfSkill, Tasks, CastTask, RechargeTask, CastKinds
    <3> QED BY <1>3, <1>10, <3>1 DEF ts
  <2> QED BY ONLY <1>3, <1>10, <2>1, <2>2 DEF AmmoAgrees, ts
<1>19. DoneAgrees(v)
  <2>1. DoneAgrees(w)
    BY DEF Sound
  <2>2. \A d \in DOMAIN w.casts : v.casts[d].done = w.casts[d].done
    BY <1>13, <1>14
  <2>3. NotDone(v) = NotDone(w)
    BY <1>14, <2>2 DEF NotDone
  <2> QED BY ONLY <1>10, <1>14, <2>1, <2>2, <2>3 DEF DoneAgrees
<1>20. Sound(v)
  BY <1>10, <1>12, <1>15, <1>16, <1>17, <1>18, <1>19 DEF Sound
<1>21. Only(w, v, c)
  BY <1>10, <1>13, <1>14 DEF Only
<1> QED BY <1>3, <1>10, <1>13, <1>14, <1>20, <1>21 DEF Calm, Keeps, Does, ts, phase, PhaseOf

(* PruneCompleted removes only casts that no task, slot or count names. *)
LEMMA PruneDoes ==
    ASSUME NEW w, NEW c, Sound(w), c \in DOMAIN w.casts, NEW v, v = PruneCompleted(w)
    PROVE  Does(w, v, c) /\ v.err = w.err
<1> DEFINE may == Kept(w.completed, {d \in DOMAIN w.casts : ~Evictable(w, d)})
           over == Len(w.completed) - CompletedCastLimit
           out == {may[i] : i \in {j \in DOMAIN may : j <= over}}
           kept == Kept(w.completed, out)
<1>1. IsWorld(w) /\ CastsTyped(w) /\ HeapAgrees(w) /\ SlotsAgree(w) /\ AmmoAgrees(w) /\ DoneAgrees(w)
  BY DEF Sound
<1>2. w.completed \in Seq(Nat)
  BY <1>1 DEF DoneAgrees
<1>3. ToSet(may) = ToSet(w.completed) \ {d \in DOMAIN w.casts : ~Evictable(w, d)}
  BY <1>2, KeptTally
<1>4. v = [w EXCEPT !.completed = kept, !.casts = [d \in DOMAIN @ \ out |-> @[d]]]
  BY DEF PruneCompleted
<1>5. out \subseteq ToSet(may)
  <2> HIDE DEF may
  <2> QED BY DEF ToSet
<1> HIDE DEF may
<1>6. ASSUME NEW d \in DOMAIN w.casts, d \in out
      PROVE  Evictable(w, d) /\ w.casts[d].done
  <2>1. d \in ToSet(w.completed) /\ Evictable(w, d)
    BY <1>3, <1>5, <1>6
  <2> QED BY <1>1, <2>1 DEF DoneAgrees
<1> HIDE DEF out
<1>7. kept \in Seq(Nat) /\ ToSet(kept) = ToSet(w.completed) \ out
  BY <1>2, KeptTally
<1> HIDE DEF kept
<1>8. /\ v.tasks = w.tasks /\ v.cooldowns = w.cooldowns /\ v.policies = w.policies /\ v.ammo = w.ammo
      /\ v.nextCast = w.nextCast /\ v.active = w.active /\ v.completed = kept /\ v.err = w.err
  BY ONLY <1>1, <1>4 DEF IsWorld
<1>9. v.casts = [d \in DOMAIN w.casts \ out |-> w.casts[d]]
  BY ONLY <1>1, <1>4 DEF IsWorld
<1>10. IsWorld(v)
  BY ONLY <1>1, <1>4 DEF IsWorld
<1>11. DOMAIN v.casts = DOMAIN w.casts \ out /\ \A d \in DOMAIN v.casts : v.casts[d] = w.casts[d]
  BY <1>9
<1>12. CastsTyped(v)
  BY ONLY <1>1, <1>8, <1>11 DEF CastsTyped
<1>13. HeapAgrees(v)
  <2>1. ASSUME NEW t \in ToSet(w.tasks), t.kind # "recharge"
        PROVE  t.id \in DOMAIN v.casts
    <3>1. t.id \in DOMAIN w.casts
      BY <1>1, <2>1 DEF HeapAgrees
    <3>2. w.tasks \in Seq(Tasks) /\ t \in Tasks
      BY <1>1 DEF HeapAgrees, Heap, ToSet
    <3>3. Tally(w.tasks, OfCast(t.id)) # 0
      BY <3>2, TallyPositive DEF OfCast
    <3>4. w.casts[t.id].pending # 0
      BY <1>1, <3>1, <3>3 DEF HeapAgrees
    <3>5. ~Evictable(w, t.id)
      BY <3>4 DEF Evictable
    <3> QED BY <1>6, <1>11, <3>1, <3>5
  <2> QED BY ONLY <1>1, <1>8, <1>11, <2>1 DEF HeapAgrees
<1>14. SlotsAgree(v)
  <2>1. ASSUME NEW p \in Program, w.policies[p] # 0
        PROVE  w.policies[p] \in DOMAIN v.casts
    <3>1. w.policies[p] \in DOMAIN w.casts /\ w.casts[w.policies[p]].policy
      BY <1>1, <2>1 DEF SlotsAgree
    <3>2. ~Evictable(w, w.policies[p])
      BY <3>1 DEF Evictable
    <3> QED BY <1>6, <1>11, <3>1, <3>2
  <2> QED BY ONLY <1>1, <1>8, <1>11, <2>1 DEF SlotsAgree
<1>15. AmmoAgrees(v)
  BY ONLY <1>1, <1>8 DEF AmmoAgrees
<1>16. DoneAgrees(v)
  <2>1. NotDone(v) = NotDone(w)
    BY <1>6, <1>11 DEF NotDone
  <2> QED BY ONLY <1>1, <1>7, <1>8, <1>11, <2>1 DEF DoneAgrees
<1>17. Sound(v)
  BY <1>8, <1>10, <1>12, <1>13, <1>14, <1>15, <1>16 DEF Sound
<1>18. Only(w, v, c)
  BY <1>6, <1>8, <1>11 DEF Only, Evictable
<1> QED BY <1>8, <1>17, <1>18 DEF Does

(* MarkFinished counts the cast as done once, and keeps it when it has      *)
(* failed before it committed.                                             *)
LEMMA MarkDoes ==
    ASSUME NEW w, NEW c, Sound(w), c \in DOMAIN w.casts, NEW v, v = MarkFinished(w, c)
    PROVE  /\ Does(w, v, c) /\ v.err = w.err
           /\ w.casts[c].status = "failed" /\ ~w.casts[c].committed /\ ~w.casts[c].done =>
                /\ c \in DOMAIN v.casts /\ v.casts[c].done /\ c \notin ToSet(v.completed)
                /\ v.casts[c].pending = w.casts[c].pending /\ v.casts[c].policy = w.casts[c].policy
<1>0. IsWorld(w) /\ CastsTyped(w) /\ HeapAgrees(w) /\ SlotsAgree(w) /\ AmmoAgrees(w) /\ DoneAgrees(w)
  BY DEF Sound
<1>1. CASE w.casts[c].done
  <2>1. v = w
    BY <1>1 DEF MarkFinished
  <2> QED BY <1>1, <2>1, NoStep DEF Keeps
<1>2. CASE ~w.casts[c].done
  <2> DEFINE r == [w.casts[c] EXCEPT !.done = TRUE]
  <2>1. PICK u : u = [w EXCEPT !.casts[c].done = TRUE, !.active = IF @ > 0 THEN @ - 1 ELSE 0]
    OBVIOUS
  <2>2. IsWorld(w) /\ w.casts[c] \in CastRecord
    BY DEF Sound, CastsTyped
  <2>3. IsWorld(u)
    BY ONLY <2>1, <2>2 DEF IsWorld
  <2>4. /\ u.tasks = w.tasks /\ u.cooldowns = w.cooldowns /\ u.policies = w.policies /\ u.ammo = w.ammo
        /\ u.nextCast = w.nextCast /\ u.active = (IF w.active > 0 THEN w.active - 1 ELSE 0)
        /\ u.completed = w.completed /\ u.err = w.err
    BY ONLY <2>1, <2>2 DEF IsWorld
  <2>5. u.casts = [w.casts EXCEPT ![c] = r]
    BY ONLY <2>1, <2>2 DEF IsWorld
  <2>6. r \in CastRecord /\ r.done /\ r.prog = w.casts[c].prog /\ r.pending = w.casts[c].pending
        /\ r.policy = w.casts[c].policy /\ r.committed = w.casts[c].committed /\ r.status = w.casts[c].status
    BY <2>2 DEF CastRecord
  <2>7. DOMAIN u.casts = DOMAIN w.casts /\ u.casts[c] = r /\ \A d \in DOMAIN w.casts \ {c} : u.casts[d] = w.casts[d]
    BY <2>5
  <2> HIDE DEF r
  <2>8. \A d \in DOMAIN w.casts : /\ u.casts[d] \in CastRecord /\ u.casts[d].prog = w.casts[d].prog
                                  /\ u.casts[d].policy = w.casts[d].policy
                                  /\ u.casts[d].pending = w.casts[d].pending
                                  /\ w.casts[d].done => u.casts[d].done
    BY <1>0, <2>6, <2>7 DEF CastsTyped
  <2>9. CastsTyped(u) /\ HeapAgrees(u) /\ SlotsAgree(u) /\ AmmoAgrees(u)
    <3>1. CastsTyped(u)
      BY ONLY <1>0, <2>4, <2>7, <2>8 DEF CastsTyped
    <3>2. HeapAgrees(u)
      BY ONLY <1>0, <2>4, <2>7, <2>8 DEF HeapAgrees
    <3>3. SlotsAgree(u)
      BY ONLY <1>0, <2>4, <2>7, <2>8 DEF SlotsAgree
    <3>4. AmmoAgrees(u)
      BY ONLY <1>0, <2>4 DEF AmmoAgrees
    <3> QED BY <3>1, <3>2, <3>3, <3>4
  <2>10. NotDone(u) = NotDone(w) \ {c} /\ c \in NotDone(w)
    BY <1>2, <2>6, <2>7 DEF NotDone
  <2>11. DoneAgrees(u)
    <3>1. IsFiniteSet(NotDone(w)) /\ Cardinality(NotDone(w)) \in Nat
      BY <1>0, NotDoneFinite
    <3>2. Cardinality(NotDone(u)) = Cardinality(NotDone(w)) - 1 /\ Cardinality(NotDone(w)) # 0
      BY <2>10, <3>1, FS_RemoveElement, FS_EmptySet
    <3>3. w.active = Cardinality(NotDone(w)) /\ w.active \in 0 .. MaxActiveCasts
      BY <1>0 DEF DoneAgrees
    <3>4. u.active = Cardinality(NotDone(u)) /\ u.active \in 0 .. MaxActiveCasts
      BY ONLY <2>4, <3>1, <3>2, <3>3, LimitsAreNumbers
    <3> QED BY ONLY <1>0, <2>4, <2>7, <2>8, <3>4 DEF DoneAgrees
  <2>12. Sound(u)
    BY <2>3, <2>4, <2>9, <2>11 DEF Sound
  <2>13. Keeps(w, u, c)
    BY <2>4, <2>6, <2>7, <2>12 DEF Only, Does, Keeps
  <2> DEFINE ends == w.casts[c].status = "finished" \/ (w.casts[c].status = "failed" /\ w.casts[c].committed)
  <2>14. CASE ~ends
    <3>1. v = u
      BY <1>2, <2>1, <2>14 DEF MarkFinished
    <3>2. r.done /\ r.pending = w.casts[c].pending /\ r.policy = w.casts[c].policy
      BY ONLY <2>2 DEF CastRecord, r
    <3>3. c \notin ToSet(w.completed)
      BY <1>0, <1>2 DEF DoneAgrees
    <3> QED BY <2>4, <2>7, <2>13, <3>1, <3>2, <3>3 DEF Keeps
  <2>15. CASE ends
    <3>1. PICK z : z = [u EXCEPT !.completed = Append(@, c)]
      OBVIOUS
    <3>2. v = PruneCompleted(z)
      BY <1>2, <2>1, <2>15, <3>1 DEF MarkFinished
    <3>3. IsWorld(z)
      BY ONLY <2>3, <3>1 DEF IsWorld
    <3>4. /\ z.tasks = u.tasks /\ z.cooldowns = u.cooldowns /\ z.policies = u.policies /\ z.ammo = u.ammo
          /\ z.nextCast = u.nextCast /\ z.active = u.active /\ z.casts = u.casts
          /\ z.completed = Append(u.completed, c) /\ z.err = u.err
      BY ONLY <2>3, <3>1 DEF IsWorld
    <3>5. DoneAgrees(z)
      <4>1. u.completed \in Seq(Nat) /\ c \in Nat /\ c <= u.nextCast
        BY <2>4, <2>7, <2>9, <2>11, LimitsAreNumbers DEF DoneAgrees, CastsTyped
      <4>2. z.completed \in Seq(Nat) /\ ToSet(z.completed) = ToSet(u.completed) \cup {c}
        <5>1. z.completed \in Seq(Nat) /\ Len(z.completed) = Len(u.completed) + 1
          BY <3>4, <4>1, AppendProperties
        <5>2. \A i \in 1 .. Len(u.completed) + 1 :
                z.completed[i] = IF i <= Len(u.completed) THEN u.completed[i] ELSE c
          BY <3>4, <4>1, AppendProperties
        <5>3. /\ Len(u.completed) \in Nat /\ DOMAIN u.completed = 1 .. Len(u.completed)
              /\ DOMAIN z.completed = 1 .. Len(u.completed) + 1
          BY <4>1, <5>1
        <5>4. \A i \in 1 .. Len(u.completed) : z.completed[i] = u.completed[i]
          BY <5>2, <5>3
        <5>5. Len(u.completed) + 1 \in DOMAIN z.completed /\ z.completed[Len(u.completed) + 1] = c
          BY <5>2, <5>3
        <5>6. ToSet(u.completed) \cup {c} \subseteq ToSet(z.completed)
          BY <5>3, <5>4, <5>5 DEF ToSet
        <5>7. ToSet(z.completed) \subseteq ToSet(u.completed) \cup {c}
          BY <5>2, <5>3 DEF ToSet
        <5> QED BY <5>1, <5>6, <5>7
      <4>3. NotDone(z) = NotDone(u)
        BY <3>4 DEF NotDone
      <4>4. u.casts[c].done
        BY <2>6, <2>7
      <4> QED BY ONLY <2>11, <3>4, <4>1, <4>2, <4>3, <4>4 DEF DoneAgrees
    <3>6. Sound(z)
      <4>1. CastsTyped(z)
        BY ONLY <2>9, <3>4 DEF CastsTyped
      <4>2. HeapAgrees(z)
        BY ONLY <2>9, <3>4 DEF HeapAgrees
      <4>3. SlotsAgree(z)
        BY ONLY <2>9, <3>4 DEF SlotsAgree
      <4>4. AmmoAgrees(z)
        BY ONLY <2>9, <3>4 DEF AmmoAgrees
      <4> QED BY <2>12, <3>3, <3>4, <3>5, <4>1, <4>2, <4>3, <4>4 DEF Sound
    <3>7. Keeps(w, z, c)
      <4>1. Keeps(u, z, c)
        BY <2>7, <3>4, <3>6 DEF Keeps, Does, Only
      <4> QED BY <2>13, <4>1, ThenKeeps
    <3>8. Does(z, v, c) /\ v.err = z.err
      BY <2>7, <3>2, <3>4, <3>6, PruneDoes
    <3>9. Does(w, v, c)
      BY <3>7, <3>8, Then
    <3> QED BY <2>4, <2>15, <3>4, <3>8, <3>9
  <2> QED BY <2>14, <2>15
<1> QED BY <1>1, <1>2

(* A handler sets the status of its cast. *)
LEMMA EditStatus ==
    ASSUME NEW w, NEW c, Sound(w), c \in DOMAIN w.casts,
           NEW s \in {"running", "suspended", "finished", "failed"},
           NEW v, v = [w EXCEPT !.casts[c].status = s]
    PROVE  Calm(w, v, c) /\ v.policies = w.policies /\ v.casts[c] = [w.casts[c] EXCEPT !.status = s]
<1> DEFINE r == [w.casts[c] EXCEPT !.status = s]
<1>1. IsWorld(w) /\ w.casts[c] \in CastRecord
  BY DEF Sound, CastsTyped
<1>2. IsWorld(v)
  BY ONLY <1>1, v = [w EXCEPT !.casts[c].status = s] DEF IsWorld
<1>3. SameTables(w, v) /\ v.policies = w.policies /\ v.err = w.err
  BY ONLY <1>1, v = [w EXCEPT !.casts[c].status = s] DEF IsWorld, SameTables
<1>4. v.casts = [w.casts EXCEPT ![c] = r]
  BY ONLY <1>1, v = [w EXCEPT !.casts[c].status = s] DEF IsWorld
<1>5. v.cooldowns \in [Program \cup {Gcd} -> Nat]
  <2>1. v.cooldowns = w.cooldowns
    BY ONLY <1>1, v = [w EXCEPT !.casts[c].status = s] DEF IsWorld
  <2> QED BY <2>1 DEF Sound
<1>6. r \in CastRecord
  BY ONLY <1>1, s \in {"running", "suspended", "finished", "failed"} DEF CastRecord
<1>7. LikeCast(w.casts[c], r) /\ r.policy = w.casts[c].policy
  BY ONLY <1>1, <1>6 DEF LikeCast, CastRecord
<1> HIDE DEF r
<1>8. Keeps(w, v, c) /\ v.casts[c] = r
  BY <1>2, <1>3, <1>4, <1>5, <1>7, PlainEdit DEF Sound
<1> QED BY <1>3, <1>8 DEF Calm, r

(* Costs that are paid are marked on the cast. *)
LEMMA EditPaid ==
    ASSUME NEW w, NEW c, Sound(w), c \in DOMAIN w.casts,
           NEW v, v = [w EXCEPT !.casts[c].paid = TRUE]
    PROVE  Calm(w, v, c) /\ v.policies = w.policies /\ v.casts[c] = [w.casts[c] EXCEPT !.paid = TRUE]
<1> DEFINE r == [w.casts[c] EXCEPT !.paid = TRUE]
<1>1. IsWorld(w) /\ w.casts[c] \in CastRecord
  BY DEF Sound, CastsTyped
<1>2. IsWorld(v)
  BY ONLY <1>1, v = [w EXCEPT !.casts[c].paid = TRUE] DEF IsWorld
<1>3. SameTables(w, v) /\ v.policies = w.policies /\ v.err = w.err
  BY ONLY <1>1, v = [w EXCEPT !.casts[c].paid = TRUE] DEF IsWorld, SameTables
<1>4. v.casts = [w.casts EXCEPT ![c] = r]
  BY ONLY <1>1, v = [w EXCEPT !.casts[c].paid = TRUE] DEF IsWorld
<1>5. v.cooldowns \in [Program \cup {Gcd} -> Nat]
  <2>1. v.cooldowns = w.cooldowns
    BY ONLY <1>1, v = [w EXCEPT !.casts[c].paid = TRUE] DEF IsWorld
  <2> QED BY <2>1 DEF Sound
<1>6. r \in CastRecord
  BY ONLY <1>1 DEF CastRecord
<1>7. LikeCast(w.casts[c], r) /\ r.policy = w.casts[c].policy
  BY ONLY <1>1, <1>6 DEF LikeCast, CastRecord
<1> HIDE DEF r
<1>8. Keeps(w, v, c) /\ v.casts[c] = r
  BY <1>2, <1>3, <1>4, <1>5, <1>7, PlainEdit DEF Sound
<1> QED BY <1>3, <1>8 DEF Calm, r

(* A cast that finishes has ended for its player and recovers. *)
LEMMA EditRecovering ==
    ASSUME NEW w, NEW c, Sound(w), c \in DOMAIN w.casts,
           NEW v, v = [w EXCEPT !.casts[c].logical = TRUE, !.casts[c].stage = "recovering"]
    PROVE  Calm(w, v, c) /\ v.policies = w.policies /\ v.casts[c] = [w.casts[c] EXCEPT !.logical = TRUE, !.stage = "recovering"]
<1> DEFINE r == [w.casts[c] EXCEPT !.logical = TRUE, !.stage = "recovering"]
<1>1. IsWorld(w) /\ w.casts[c] \in CastRecord
  BY DEF Sound, CastsTyped
<1>2. IsWorld(v)
  BY ONLY <1>1, v = [w EXCEPT !.casts[c].logical = TRUE, !.casts[c].stage = "recovering"] DEF IsWorld
<1>3. SameTables(w, v) /\ v.policies = w.policies /\ v.err = w.err
  BY ONLY <1>1, v = [w EXCEPT !.casts[c].logical = TRUE, !.casts[c].stage = "recovering"] DEF IsWorld, SameTables
<1>4. v.casts = [w.casts EXCEPT ![c] = r]
  BY ONLY <1>1, v = [w EXCEPT !.casts[c].logical = TRUE, !.casts[c].stage = "recovering"] DEF IsWorld
<1>5. v.cooldowns \in [Program \cup {Gcd} -> Nat]
  <2>1. v.cooldowns = w.cooldowns
    BY ONLY <1>1, v = [w EXCEPT !.casts[c].logical = TRUE, !.casts[c].stage = "recovering"] DEF IsWorld
  <2> QED BY <2>1 DEF Sound
<1>6. r \in CastRecord
  BY ONLY <1>1 DEF CastRecord
<1>7. LikeCast(w.casts[c], r) /\ r.policy = w.casts[c].policy
  BY ONLY <1>1, <1>6 DEF LikeCast, CastRecord
<1> HIDE DEF r
<1>8. Keeps(w, v, c) /\ v.casts[c] = r
  BY <1>2, <1>3, <1>4, <1>5, <1>7, PlainEdit DEF Sound
<1> QED BY <1>3, <1>8 DEF Calm, r

(* The last stage of a cast. *)
LEMMA EditComplete ==
    ASSUME NEW w, NEW c, Sound(w), c \in DOMAIN w.casts,
           NEW v, v = [w EXCEPT !.casts[c].stage = "complete", !.casts[c].status = "finished"]
    PROVE  Calm(w, v, c) /\ v.policies = w.policies /\ v.casts[c] = [w.casts[c] EXCEPT !.stage = "complete", !.status = "finished"]
<1> DEFINE r == [w.casts[c] EXCEPT !.stage = "complete", !.status = "finished"]
<1>1. IsWorld(w) /\ w.casts[c] \in CastRecord
  BY DEF Sound, CastsTyped
<1>2. IsWorld(v)
  BY ONLY <1>1, v = [w EXCEPT !.casts[c].stage = "complete", !.casts[c].status = "finished"] DEF IsWorld
<1>3. SameTables(w, v) /\ v.policies = w.policies /\ v.err = w.err
  BY ONLY <1>1, v = [w EXCEPT !.casts[c].stage = "complete", !.casts[c].status = "finished"] DEF IsWorld, SameTables
<1>4. v.casts = [w.casts EXCEPT ![c] = r]
  BY ONLY <1>1, v = [w EXCEPT !.casts[c].stage = "complete", !.casts[c].status = "finished"] DEF IsWorld
<1>5. v.cooldowns \in [Program \cup {Gcd} -> Nat]
  <2>1. v.cooldowns = w.cooldowns
    BY ONLY <1>1, v = [w EXCEPT !.casts[c].stage = "complete", !.casts[c].status = "finished"] DEF IsWorld
  <2> QED BY <2>1 DEF Sound
<1>6. r \in CastRecord
  BY ONLY <1>1 DEF CastRecord
<1>7. LikeCast(w.casts[c], r) /\ r.policy = w.casts[c].policy
  BY ONLY <1>1, <1>6 DEF LikeCast, CastRecord
<1> HIDE DEF r
<1>8. Keeps(w, v, c) /\ v.casts[c] = r
  BY <1>2, <1>3, <1>4, <1>5, <1>7, PlainEdit DEF Sound
<1> QED BY <1>3, <1>8 DEF Calm, r

(* The stage of a cast that is broken off. *)
LEMMA EditCancelled ==
    ASSUME NEW w, NEW c, Sound(w), c \in DOMAIN w.casts,
           NEW v, v = [w EXCEPT !.casts[c].stage = "cancelled", !.casts[c].status = "finished"]
    PROVE  Calm(w, v, c) /\ v.policies = w.policies /\ v.casts[c] = [w.casts[c] EXCEPT !.stage = "cancelled", !.status = "finished"]
<1> DEFINE r == [w.casts[c] EXCEPT !.stage = "cancelled", !.status = "finished"]
<1>1. IsWorld(w) /\ w.casts[c] \in CastRecord
  BY DEF Sound, CastsTyped
<1>2. IsWorld(v)
  BY ONLY <1>1, v = [w EXCEPT !.casts[c].stage = "cancelled", !.casts[c].status = "finished"] DEF IsWorld
<1>3. SameTables(w, v) /\ v.policies = w.policies /\ v.err = w.err
  BY ONLY <1>1, v = [w EXCEPT !.casts[c].stage = "cancelled", !.casts[c].status = "finished"] DEF IsWorld, SameTables
<1>4. v.casts = [w.casts EXCEPT ![c] = r]
  BY ONLY <1>1, v = [w EXCEPT !.casts[c].stage = "cancelled", !.casts[c].status = "finished"] DEF IsWorld
<1>5. v.cooldowns \in [Program \cup {Gcd} -> Nat]
  <2>1. v.cooldowns = w.cooldowns
    BY ONLY <1>1, v = [w EXCEPT !.casts[c].stage = "cancelled", !.casts[c].status = "finished"] DEF IsWorld
  <2> QED BY <2>1 DEF Sound
<1>6. r \in CastRecord
  BY ONLY <1>1 DEF CastRecord
<1>7. LikeCast(w.casts[c], r) /\ r.policy = w.casts[c].policy
  BY ONLY <1>1, <1>6 DEF LikeCast, CastRecord
<1> HIDE DEF r
<1>8. Keeps(w, v, c) /\ v.casts[c] = r
  BY <1>2, <1>3, <1>4, <1>5, <1>7, PlainEdit DEF Sound
<1> QED BY <1>3, <1>8 DEF Calm, r

(* The stage of a cast whose flow runs. *)
LEMMA EditExecuting ==
    ASSUME NEW w, NEW c, Sound(w), c \in DOMAIN w.casts,
           NEW v, v = [w EXCEPT !.casts[c].stage = "executing", !.casts[c].status = "running"]
    PROVE  Calm(w, v, c) /\ v.policies = w.policies /\ v.casts[c] = [w.casts[c] EXCEPT !.stage = "executing", !.status = "running"]
<1> DEFINE r == [w.casts[c] EXCEPT !.stage = "executing", !.status = "running"]
<1>1. IsWorld(w) /\ w.casts[c] \in CastRecord
  BY DEF Sound, CastsTyped
<1>2. IsWorld(v)
  BY ONLY <1>1, v = [w EXCEPT !.casts[c].stage = "executing", !.casts[c].status = "running"] DEF IsWorld
<1>3. SameTables(w, v) /\ v.policies = w.policies /\ v.err = w.err
  BY ONLY <1>1, v = [w EXCEPT !.casts[c].stage = "executing", !.casts[c].status = "running"] DEF IsWorld, SameTables
<1>4. v.casts = [w.casts EXCEPT ![c] = r]
  BY ONLY <1>1, v = [w EXCEPT !.casts[c].stage = "executing", !.casts[c].status = "running"] DEF IsWorld
<1>5. v.cooldowns \in [Program \cup {Gcd} -> Nat]
  <2>1. v.cooldowns = w.cooldowns
    BY ONLY <1>1, v = [w EXCEPT !.casts[c].stage = "executing", !.casts[c].status = "running"] DEF IsWorld
  <2> QED BY <2>1 DEF Sound
<1>6. r \in CastRecord
  BY ONLY <1>1 DEF CastRecord
<1>7. LikeCast(w.casts[c], r) /\ r.policy = w.casts[c].policy
  BY ONLY <1>1, <1>6 DEF LikeCast, CastRecord
<1> HIDE DEF r
<1>8. Keeps(w, v, c) /\ v.casts[c] = r
  BY <1>2, <1>3, <1>4, <1>5, <1>7, PlainEdit DEF Sound
<1> QED BY <1>3, <1>8 DEF Calm, r

(* A new token makes the tasks of the phase stale. *)
LEMMA EditToken ==
    ASSUME NEW w, NEW c, Sound(w), c \in DOMAIN w.casts,
           NEW v, v = [w EXCEPT !.casts[c].token = @ + 1]
    PROVE  Calm(w, v, c) /\ v.policies = w.policies /\ v.casts[c] = [w.casts[c] EXCEPT !.token = @ + 1]
<1> DEFINE r == [w.casts[c] EXCEPT !.token = @ + 1]
<1>1. IsWorld(w) /\ w.casts[c] \in CastRecord
  BY DEF Sound, CastsTyped
<1>2. IsWorld(v)
  BY ONLY <1>1, v = [w EXCEPT !.casts[c].token = @ + 1] DEF IsWorld
<1>3. SameTables(w, v) /\ v.policies = w.policies /\ v.err = w.err
  BY ONLY <1>1, v = [w EXCEPT !.casts[c].token = @ + 1] DEF IsWorld, SameTables
<1>4. v.casts = [w.casts EXCEPT ![c] = r]
  BY ONLY <1>1, v = [w EXCEPT !.casts[c].token = @ + 1] DEF IsWorld
<1>5. v.cooldowns \in [Program \cup {Gcd} -> Nat]
  <2>1. v.cooldowns = w.cooldowns
    BY ONLY <1>1, v = [w EXCEPT !.casts[c].token = @ + 1] DEF IsWorld
  <2> QED BY <2>1 DEF Sound
<1>6. r \in CastRecord
  BY ONLY <1>1 DEF CastRecord
<1>7. LikeCast(w.casts[c], r) /\ r.policy = w.casts[c].policy
  BY ONLY <1>1, <1>6 DEF LikeCast, CastRecord
<1> HIDE DEF r
<1>8. Keeps(w, v, c) /\ v.casts[c] = r
  BY <1>2, <1>3, <1>4, <1>5, <1>7, PlainEdit DEF Sound
<1> QED BY <1>3, <1>8 DEF Calm, r

(* A change of phase. *)
LEMMA EditPhase ==
    ASSUME NEW w, NEW c, Sound(w), c \in DOMAIN w.casts,
           NEW v, v = [w EXCEPT !.casts[c].token = @ + 1, !.casts[c].phase = 2]
    PROVE  Calm(w, v, c) /\ v.policies = w.policies /\ v.casts[c] = [w.casts[c] EXCEPT !.token = @ + 1, !.phase = 2]
<1> DEFINE r == [w.casts[c] EXCEPT !.token = @ + 1, !.phase = 2]
<1>1. IsWorld(w) /\ w.casts[c] \in CastRecord
  BY DEF Sound, CastsTyped
<1>2. IsWorld(v)
  BY ONLY <1>1, v = [w EXCEPT !.casts[c].token = @ + 1, !.casts[c].phase = 2] DEF IsWorld
<1>3. SameTables(w, v) /\ v.policies = w.policies /\ v.err = w.err
  BY ONLY <1>1, v = [w EXCEPT !.casts[c].token = @ + 1, !.casts[c].phase = 2] DEF IsWorld, SameTables
<1>4. v.casts = [w.casts EXCEPT ![c] = r]
  BY ONLY <1>1, v = [w EXCEPT !.casts[c].token = @ + 1, !.casts[c].phase = 2] DEF IsWorld
<1>5. v.cooldowns \in [Program \cup {Gcd} -> Nat]
  <2>1. v.cooldowns = w.cooldowns
    BY ONLY <1>1, v = [w EXCEPT !.casts[c].token = @ + 1, !.casts[c].phase = 2] DEF IsWorld
  <2> QED BY <2>1 DEF Sound
<1>6. r \in CastRecord
  <2>0. [w.casts[c] EXCEPT !.token = @ + 1] \in CastRecord
    BY ONLY <1>1 DEF CastRecord
  <2>1. PICK h \in CastRecord : h = [w.casts[c] EXCEPT !.token = @ + 1]
    BY <2>0
  <2>2. [h EXCEPT !.phase = 2] \in CastRecord
    BY ONLY h \in CastRecord DEF CastRecord
  <2>3. r = [h EXCEPT !.phase = 2]
    BY ONLY <1>1, <2>1 DEF CastRecord
  <2> QED BY <2>2, <2>3
<1>7. LikeCast(w.casts[c], r) /\ r.policy = w.casts[c].policy
  BY ONLY <1>1, <1>6 DEF LikeCast, CastRecord
<1> HIDE DEF r
<1>8. Keeps(w, v, c) /\ v.casts[c] = r
  BY <1>2, <1>3, <1>4, <1>5, <1>7, PlainEdit DEF Sound
<1> QED BY <1>3, <1>8 DEF Calm, r

(* A window of a cast is prepared. *)
LEMMA EditPreparing ==
    ASSUME NEW w, NEW c, Sound(w), c \in DOMAIN w.casts,
           NEW root \in {"enter", "release"},
           NEW v, v = [w EXCEPT !.casts[c].root = root, !.casts[c].stage = "preparing"]
    PROVE  Calm(w, v, c) /\ v.policies = w.policies /\ v.casts[c] = [w.casts[c] EXCEPT !.root = root, !.stage = "preparing"]
<1> DEFINE r == [w.casts[c] EXCEPT !.root = root, !.stage = "preparing"]
<1>1. IsWorld(w) /\ w.casts[c] \in CastRecord
  BY DEF Sound, CastsTyped
<1>2. IsWorld(v)
  BY ONLY <1>1, v = [w EXCEPT !.casts[c].root = root, !.casts[c].stage = "preparing"] DEF IsWorld
<1>3. SameTables(w, v) /\ v.policies = w.policies /\ v.err = w.err
  BY ONLY <1>1, v = [w EXCEPT !.casts[c].root = root, !.casts[c].stage = "preparing"] DEF IsWorld, SameTables
<1>4. v.casts = [w.casts EXCEPT ![c] = r]
  BY ONLY <1>1, v = [w EXCEPT !.casts[c].root = root, !.casts[c].stage = "preparing"] DEF IsWorld
<1>5. v.cooldowns \in [Program \cup {Gcd} -> Nat]
  <2>1. v.cooldowns = w.cooldowns
    BY ONLY <1>1, v = [w EXCEPT !.casts[c].root = root, !.casts[c].stage = "preparing"] DEF IsWorld
  <2> QED BY <2>1 DEF Sound
<1>6. r \in CastRecord
  BY ONLY <1>1, root \in {"enter", "release"} DEF CastRecord
<1>7. LikeCast(w.casts[c], r) /\ r.policy = w.casts[c].policy
  BY ONLY <1>1, <1>6 DEF LikeCast, CastRecord
<1> HIDE DEF r
<1>8. Keeps(w, v, c) /\ v.casts[c] = r
  BY <1>2, <1>3, <1>4, <1>5, <1>7, PlainEdit DEF Sound
<1> QED BY <1>3, <1>8 DEF Calm, r

CooledAs(w, c, p, g) == [w EXCEPT !.casts[c].cooled = TRUE, !.cooldowns[p] = g]
CommittedAs(w, c, g) ==
    [w EXCEPT !.casts[c].committed = TRUE, !.casts[c].stage = "committed", !.cooldowns[Gcd] = g]
CommitOf(q) == [q EXCEPT !.committed = TRUE, !.stage = "committed"]

(* The cooldown of the skill begins. *)
LEMMA EditCooled ==
    ASSUME NEW w, NEW c, Sound(w), c \in DOMAIN w.casts, NEW p \in Program, NEW g \in Nat,
           NEW v, v = CooledAs(w, c, p, g)
    PROVE  Calm(w, v, c) /\ v.policies = w.policies /\ v.casts[c] = [w.casts[c] EXCEPT !.cooled = TRUE]
<1> DEFINE r == [w.casts[c] EXCEPT !.cooled = TRUE]
<1>1. IsWorld(w) /\ w.casts[c] \in CastRecord
  BY DEF Sound, CastsTyped
<1>2. IsWorld(v)
  BY ONLY <1>1, v = CooledAs(w, c, p, g) DEF CooledAs, IsWorld
<1>3. SameTables(w, v) /\ v.policies = w.policies /\ v.err = w.err
  BY ONLY <1>1, v = CooledAs(w, c, p, g) DEF CooledAs, IsWorld, SameTables
<1>4. v.casts = [w.casts EXCEPT ![c] = r]
  BY ONLY <1>1, v = CooledAs(w, c, p, g) DEF CooledAs, IsWorld
<1>5. v.cooldowns \in [Program \cup {Gcd} -> Nat]
  <2>1. v.cooldowns = [w.cooldowns EXCEPT ![p] = g]
    BY ONLY <1>1, v = CooledAs(w, c, p, g) DEF CooledAs, IsWorld
  <2> QED BY <2>1 DEF Sound
<1>6. r \in CastRecord
  BY ONLY <1>1 DEF CastRecord
<1>7. LikeCast(w.casts[c], r) /\ r.policy = w.casts[c].policy
  BY ONLY <1>1, <1>6 DEF LikeCast, CastRecord
<1> HIDE DEF r
<1>8. Keeps(w, v, c) /\ v.casts[c] = r
  BY <1>2, <1>3, <1>4, <1>5, <1>7, PlainEdit DEF Sound
<1> QED BY <1>3, <1>8 DEF Calm, r

(* A cast commits and the global cooldown begins. *)
LEMMA EditCommitted ==
    ASSUME NEW w, NEW c, Sound(w), c \in DOMAIN w.casts, NEW g \in Nat,
           NEW v, v = CommittedAs(w, c, g)
    PROVE  Calm(w, v, c) /\ v.policies = w.policies /\ v.casts[c] = CommitOf(w.casts[c])
<1> DEFINE r == [w.casts[c] EXCEPT !.committed = TRUE, !.stage = "committed"]
<1>1. IsWorld(w) /\ w.casts[c] \in CastRecord
  BY DEF Sound, CastsTyped
<1>2. IsWorld(v)
  BY ONLY <1>1, v = CommittedAs(w, c, g) DEF CommittedAs, IsWorld
<1>3. SameTables(w, v) /\ v.policies = w.policies /\ v.err = w.err
  BY ONLY <1>1, v = CommittedAs(w, c, g) DEF CommittedAs, IsWorld, SameTables
<1>4. v.casts = [w.casts EXCEPT ![c] = r]
  BY ONLY <1>1, v = CommittedAs(w, c, g) DEF CommittedAs, IsWorld
<1>5. v.cooldowns \in [Program \cup {Gcd} -> Nat]
  <2>1. v.cooldowns = [w.cooldowns EXCEPT ![Gcd] = g]
    BY ONLY <1>1, v = CommittedAs(w, c, g) DEF CommittedAs, IsWorld
  <2> QED BY <2>1 DEF Sound
<1>6. r \in CastRecord
  BY ONLY <1>1, g \in Nat DEF CastRecord
<1>7. LikeCast(w.casts[c], r) /\ r.policy = w.casts[c].policy
  BY ONLY <1>1, <1>6 DEF LikeCast, CastRecord
<1> HIDE DEF r
<1>8. Keeps(w, v, c) /\ v.casts[c] = r
  BY <1>2, <1>3, <1>4, <1>5, <1>7, PlainEdit DEF Sound
<1> QED BY <1>3, <1>8 DEF Calm, r, CommitOf

-----------------------------------------------------------------------------
(* Commit, cooldowns and ammunition *)

(* What a commit leaves alone. *)
Untouched(w, v, c) ==
    /\ v.policies = w.policies
    /\ v.casts[c].pending = w.casts[c].pending
    /\ v.casts[c].policy = w.casts[c].policy
    /\ v.casts[c].done = w.casts[c].done

(* A cast is suspended. *)
LEMMA SuspendedCalm ==
    ASSUME NEW w, NEW c, Sound(w), c \in DOMAIN w.casts,
           NEW v, v = [w EXCEPT !.casts[c].status = "suspended"]
    PROVE  Calm(w, v, c)
<1>1. PICK s \in {"running", "suspended", "finished", "failed"} : s = "suspended"
  OBVIOUS
<1>2. v = [w EXCEPT !.casts[c].status = s]
  BY <1>1
<1> QED BY ONLY Sound(w), c \in DOMAIN w.casts, <1>2, s \in {"running", "suspended", "finished", "failed"}, EditStatus

(* A cast runs. *)
LEMMA RunningCalm ==
    ASSUME NEW w, NEW c, Sound(w), c \in DOMAIN w.casts,
           NEW v, v = [w EXCEPT !.casts[c].status = "running"]
    PROVE  Calm(w, v, c)
<1>1. PICK s \in {"running", "suspended", "finished", "failed"} : s = "running"
  OBVIOUS
<1>2. v = [w EXCEPT !.casts[c].status = s]
  BY <1>1
<1> QED BY ONLY Sound(w), c \in DOMAIN w.casts, <1>2, s \in {"running", "suspended", "finished", "failed"}, EditStatus

(* A cast has failed. *)
LEMMA FailedCalm ==
    ASSUME NEW w, NEW c, Sound(w), c \in DOMAIN w.casts,
           NEW v, v = [w EXCEPT !.casts[c].status = "failed"]
    PROVE  /\ Calm(w, v, c) /\ Untouched(w, v, c)
           /\ v.casts[c].committed = w.casts[c].committed /\ v.casts[c].status = "failed"
<1>1. PICK s \in {"running", "suspended", "finished", "failed"} : s = "failed"
  OBVIOUS
<1>2. v = [w EXCEPT !.casts[c].status = s]
  BY <1>1
<1>3. Calm(w, v, c)
  BY ONLY Sound(w), c \in DOMAIN w.casts, <1>2, s \in {"running", "suspended", "finished", "failed"}, EditStatus
<1>4. IsWorld(w) /\ w.casts[c] \in CastRecord
  BY DEF Sound, CastsTyped
<1>5. v.casts[c] = [w.casts[c] EXCEPT !.status = "failed"] /\ v.policies = w.policies
  BY ONLY <1>4, v = [w EXCEPT !.casts[c].status = "failed"], c \in DOMAIN w.casts DEF IsWorld
<1>6. Untouched(w, v, c) /\ v.casts[c].committed = w.casts[c].committed /\ v.casts[c].status = "failed"
  BY ONLY <1>4, <1>5 DEF CastRecord, Untouched
<1> QED BY <1>3, <1>6

(* A flow waits for what follows. *)
LEMMA WaitCalm ==
    ASSUME NEW w, NEW c, Sound(w), c \in DOMAIN w.casts, NEW v, v = Schedule(w, c, Wait, "flow", "tail")
    PROVE  Calm(w, v, c)
<1>1. PICK due \in Nat : due = Wait
  BY LimitsAreNumbers
<1>2. PICK kind \in CastKinds : kind = "flow"
  BY DEF CastKinds
<1>3. PICK what \in Words : what = "tail"
  BY DEF Words
<1>4. v = Schedule(w, c, due, kind, what)
  BY <1>1, <1>2, <1>3
<1> QED BY ONLY Sound(w), c \in DOMAIN w.casts, due \in Nat, kind \in CastKinds, what \in Words, <1>4, ScheduleCalm

(* The cooldown of a skill begins. *)
LEMMA StartCooldownCalm ==
    ASSUME NEW w, NEW c, Sound(w), c \in DOMAIN w.casts, NEW v, v = StartCooldown(w, c)
    PROVE  Calm(w, v, c) /\ Untouched(w, v, c) /\ v.casts[c].committed = w.casts[c].committed
<1>1. w.casts[c] \in CastRecord
  BY DEF Sound, CastsTyped
<1>2. CASE w.casts[c].cooled
  <2>1. v = w
    BY <1>2 DEF StartCooldown
  <2> QED BY <2>1, NoStep DEF Calm, Untouched
<1>3. CASE ~w.casts[c].cooled
  <2>1. v = [w EXCEPT !.casts[c].cooled = TRUE, !.cooldowns[w.casts[c].prog] = DefOf(w, c).cooldown]
    BY <1>3 DEF StartCooldown
  <2>2. Calm(w, v, c) /\ v.policies = w.policies /\ v.casts[c] = [w.casts[c] EXCEPT !.cooled = TRUE]
    <3>1. PICK p \in Program, g \in Nat : p = w.casts[c].prog /\ g = DefOf(w, c).cooldown
      BY <1>1, DefIsTyped DEF DefOf, Definition, CastRecord
    <3>2. v = CooledAs(w, c, p, g)
      BY <2>1, <3>1 DEF CooledAs
    <3> QED BY <3>2, EditCooled
  <2> QED BY ONLY <1>1, <2>2 DEF Untouched, CastRecord
<1> QED BY <1>2, <1>3

(* Costs are paid, or the cast is as it was. *)
LEMMA PayKeeps ==
    ASSUME NEW w, NEW c, Sound(w), c \in DOMAIN w.casts, NEW pay, NEW v, v = PayCosts(w, c, pay)
    PROVE  /\ Keeps(w, v, c) /\ Untouched(w, v, c) /\ v.casts[c].committed = w.casts[c].committed
           /\ v.casts[c].stage = w.casts[c].stage
           /\ w.err => v.err
           /\ v.ammo = w.ammo /\ v.casts[c].prog = w.casts[c].prog
<1>1. w.casts[c] \in CastRecord /\ IsWorld(w)
  BY DEF Sound, CastsTyped
<1>2. CASE pay \/ ~DefOf(w, c).cost
  <2>1. v = [w EXCEPT !.casts[c].paid = TRUE]
    BY <1>2 DEF PayCosts
  <2>2. Calm(w, v, c) /\ v.policies = w.policies /\ v.casts[c] = [w.casts[c] EXCEPT !.paid = TRUE]
    BY <2>1, EditPaid
  <2>3. v.ammo = w.ammo
    BY ONLY <1>1, <2>1 DEF IsWorld
  <2>4. Untouched(w, v, c) /\ v.casts[c].committed = w.casts[c].committed /\ v.casts[c].stage = w.casts[c].stage
        /\ v.casts[c].prog = w.casts[c].prog
    BY ONLY <1>1, <2>2 DEF Untouched, CastRecord
  <2> QED BY <2>2, <2>3, <2>4 DEF Calm
<1>3. CASE ~(pay \/ ~DefOf(w, c).cost)
  <2>1. v = Bad(w)
    BY <1>3 DEF PayCosts
  <2>2. v.ammo = w.ammo /\ v.policies = w.policies
    BY ONLY <1>1, <2>1 DEF IsWorld, Bad
  <2>3. Keeps(w, v, c) /\ v.err /\ v.casts = w.casts
    BY <2>1, BadKeeps
  <2> QED BY <2>2, <2>3 DEF Untouched
<1> QED BY <1>2, <1>3

(* A shot below the maximum has a recharge in the heap. *)
LEMMA TakeAmmoCalm ==
    ASSUME NEW w, NEW c, Sound(w), c \in DOMAIN w.casts,
           Mode(w, c) = "ammo" => w.ammo[w.casts[c].prog].stock > 0,
           NEW v, v = TakeAmmo(w, c)
    PROVE  Calm(w, v, c) /\ v.casts = w.casts /\ v.policies = w.policies
<1> DEFINE p == w.casts[c].prog
           a == w.ammo[p]
           b == [a EXCEPT !.stock = @ - 1]
<1>1. /\ IsWorld(w) /\ CastsTyped(w) /\ HeapAgrees(w) /\ SlotsAgree(w) /\ AmmoAgrees(w) /\ DoneAgrees(w)
      /\ w.casts[c] \in CastRecord /\ p \in Program
  BY DEF Sound, CastsTyped, CastRecord
<1>2. CASE Mode(w, c) # "ammo"
  <2>1. v = w
    BY <1>2 DEF TakeAmmo
  <2> QED BY <2>1, NoStep DEF Calm
<1>3. CASE Mode(w, c) = "ammo"
  <2>1. a \in AmmoRecord /\ a.stock > 0 /\ a.stock <= Def[p].maxStock /\ Def[p].maxStock \in Nat
      /\ Def[p].recharge \in Nat
    BY <1>1, <1>3, DefIsTyped DEF AmmoAgrees, Definition
  <2>2. b \in AmmoRecord /\ b.stock = a.stock - 1 /\ b.scheduled = a.scheduled /\ b.gen = a.gen /\ b.due = a.due
    BY ONLY <2>1 DEF AmmoRecord
  <2>3. b.stock < Def[p].maxStock /\ b.stock <= Def[p].maxStock /\ ~(b.stock >= Def[p].maxStock)
    BY ONLY <2>1, <2>2 DEF AmmoRecord
  <2>4. PICK u : u = [w EXCEPT !.ammo[p].stock = @ - 1]
    OBVIOUS
  <2>5. IsWorld(u)
    BY ONLY <1>1, <2>4 DEF IsWorld
  <2>6. /\ u.casts = w.casts /\ u.tasks = w.tasks /\ u.cooldowns = w.cooldowns /\ u.policies = w.policies
        /\ u.nextCast = w.nextCast /\ u.active = w.active /\ u.completed = w.completed /\ u.err = w.err
    BY ONLY <1>1, <2>4 DEF IsWorld
  <2>7. u.ammo = [w.ammo EXCEPT ![p] = b]
    BY ONLY <1>1, <2>4 DEF IsWorld
  <2>8. v = EnsureRecharge(u, p)
    BY <1>3, <2>4 DEF TakeAmmo
  <2>9. u.ammo[p] = b
    BY <1>1, <2>7 DEF AmmoAgrees
  <2> HIDE DEF p, b
  <2>10. ASSUME NEW z, IsWorld(z), z.casts = w.casts, z.cooldowns = w.cooldowns,
                z.policies = w.policies, z.nextCast = w.nextCast, z.active = w.active,
                z.completed = w.completed, z.err = w.err, HeapAgrees(z), AmmoAgrees(z)
         PROVE  Calm(w, z, c)
    <3>1. CastsTyped(z)
      BY ONLY <1>1, <2>10 DEF CastsTyped
    <3>2. SlotsAgree(z)
      BY ONLY <1>1, <2>10 DEF SlotsAgree
    <3>3. NotDone(z) = NotDone(w)
      BY <2>10 DEF NotDone
    <3>4. DoneAgrees(z)
      BY ONLY <1>1, <2>10, <3>3 DEF DoneAgrees
    <3>5. Sound(z)
      BY <2>10, <3>1, <3>2, <3>4 DEF Sound
    <3> QED BY <2>10, <3>5 DEF Calm, Keeps, Does, Only
  <2>11. CASE a.scheduled
    <3>1. v = u
      BY <2>2, <2>8, <2>9, <2>11 DEF EnsureRecharge
    <3>2. HeapAgrees(u)
      BY ONLY <1>1, <2>6 DEF HeapAgrees
    <3>3. AmmoAgrees(u)
      <4>1. u.ammo \in [Program -> AmmoRecord] /\ \A q \in Program : u.ammo[q] = IF q = p THEN b ELSE w.ammo[q]
        BY <1>1, <2>2, <2>7 DEF AmmoAgrees
      <4>2. a.gen > 0 /\ b.scheduled
        BY <1>1, <2>2, <2>11 DEF AmmoAgrees
      <4>3. w.tasks \in Seq(Tasks) /\ \A t \in ToSet(w.tasks) : t \in Tasks
        BY <1>1 DEF HeapAgrees, Heap, ToSet
      <4>4. ASSUME NEW q \in Program
            PROVE  /\ u.ammo[q].stock <= Def[q].maxStock
                   /\ u.ammo[q].scheduled <=> u.ammo[q].gen > 0 /\ u.ammo[q].stock < Def[q].maxStock
                   /\ Tally(u.tasks, OfSkill(q)) = IF u.ammo[q].scheduled THEN 1 ELSE 0
                   /\ u.ammo[q].gen = w.ammo[q].gen /\ u.ammo[q].due = w.ammo[q].due
        <5>1. CASE q = p
          <6>1. Tally(w.tasks, OfSkill(q)) = IF a.scheduled THEN 1 ELSE 0
            BY <1>1, <5>1 DEF AmmoAgrees
          <6> QED BY ONLY <2>2, <2>3, <2>6, <2>9, <2>11, <4>2, <5>1, <6>1
        <5>2. CASE q # p
          BY <1>1, <2>6, <4>1, <5>2 DEF AmmoAgrees
        <5> QED BY <5>1, <5>2
      <4>5. \A t \in ToSet(u.tasks) : t.kind = "recharge" => t.what \in Program
        BY <2>6, <4>3 DEF Tasks, CastTask, RechargeTask, CastKinds
      <4>6. \A t \in ToSet(u.tasks) : t.kind = "recharge" =>
              t.token = u.ammo[t.what].gen /\ t.due = u.ammo[t.what].due
        BY <1>1, <2>6, <4>4, <4>5 DEF AmmoAgrees
      <4> QED BY ONLY <4>1, <4>4, <4>6 DEF AmmoAgrees
    <3> QED BY <2>5, <2>6, <2>10, <3>1, <3>2, <3>3
  <2>12. CASE ~a.scheduled
    <3> DEFINE due == Def[p].recharge
               gen == b.gen + 1
               t == Task(due, "recharge", 0, gen, p)
               d == [b EXCEPT !.scheduled = TRUE, !.gen = gen, !.due = due]
    <3>1. v = [u EXCEPT !.ammo[p] = d, !.tasks = Insert(@, t)]
      BY <2>2, <2>3, <2>8, <2>9, <2>12 DEF EnsureRecharge
    <3>2. t \in Tasks /\ t.id = 0 /\ t.kind = "recharge" /\ t.what = p /\ t.token = gen /\ t.due = due
      BY <1>1, <2>1, <2>2 DEF Task, Tasks, RechargeTask, AmmoRecord
    <3>3. d \in AmmoRecord /\ d.scheduled /\ d.gen = gen /\ d.due = due /\ d.stock = b.stock /\ gen > 0
      <4>1. gen \in Nat /\ gen > 0 /\ due \in Nat
        BY ONLY <2>1, <2>2 DEF AmmoRecord
      <4> HIDE DEF gen, due
      <4> QED BY ONLY <2>2, <4>1 DEF AmmoRecord
    <3> HIDE DEF t, d
    <3>4. IsWorld(v)
      BY ONLY <2>5, <3>1 DEF IsWorld
    <3>5. /\ v.casts = w.casts /\ v.tasks = Insert(w.tasks, t) /\ v.cooldowns = w.cooldowns
          /\ v.policies = w.policies /\ v.nextCast = w.nextCast /\ v.active = w.active
          /\ v.completed = w.completed /\ v.err = w.err
      BY ONLY <2>5, <2>6, <3>1 DEF IsWorld
    <3>6. v.ammo = [u.ammo EXCEPT ![p] = d]
      BY ONLY <2>5, <3>1 DEF IsWorld
    <3>7. v.ammo \in [Program -> AmmoRecord] /\ \A q \in Program : v.ammo[q] = IF q = p THEN d ELSE w.ammo[q]
      BY <1>1, <2>2, <2>7, <3>3, <3>6 DEF AmmoAgrees
    <3>8. /\ Heap(v.tasks) /\ ToSet(v.tasks) = ToSet(w.tasks) \cup {t}
          /\ \A S : Tally(v.tasks, S) = IF t \in S THEN Tally(w.tasks, S) + 1 ELSE Tally(w.tasks, S)
      BY <1>1, <3>2, <3>5, Inserted DEF HeapAgrees
    <3>9. HeapAgrees(v)
      <4>1. \A e \in DOMAIN w.casts : t \notin OfCast(e)
        BY <1>1, <3>2, LimitsAreNumbers DEF OfCast, CastsTyped
      <4> QED BY ONLY <1>1, <3>2, <3>5, <3>8, <4>1 DEF HeapAgrees
    <3>10. AmmoAgrees(v)
      <4>1. \A s \in ToSet(w.tasks) : s \in Tasks
        BY <1>1 DEF HeapAgrees, Heap, ToSet
      <4>2. Tally(w.tasks, OfSkill(p)) = 0
        BY <1>1, <2>12 DEF AmmoAgrees
      <4>3. \A s \in ToSet(w.tasks) : s.kind = "recharge" => s.what \in Program /\ s.what # p
        <5>1. ToSet(w.tasks) \cap OfSkill(p) = {}
          BY <1>1, <4>2, TallyPositive DEF HeapAgrees, Heap
        <5> QED BY <4>1, <5>1 DEF OfSkill, Tasks, CastTask, RechargeTask, CastKinds
      <4>4. \A q \in Program : t \in OfSkill(q) <=> q = p
        BY <3>2 DEF OfSkill
      <4>5. ASSUME NEW q \in Program
            PROVE  /\ v.ammo[q].stock <= Def[q].maxStock
                   /\ v.ammo[q].scheduled <=> v.ammo[q].gen > 0 /\ v.ammo[q].stock < Def[q].maxStock
                   /\ Tally(v.tasks, OfSkill(q)) = IF v.ammo[q].scheduled THEN 1 ELSE 0
        <5>1. CASE q = p
          <6>1. Tally(v.tasks, OfSkill(q)) = 1
            BY ONLY <3>8, <4>2, <4>4, <5>1
          <6> QED BY ONLY <2>3, <3>3, <3>7, <5>1, <6>1
        <5>2. CASE q # p
          <6>1. Tally(v.tasks, OfSkill(q)) = Tally(w.tasks, OfSkill(q)) /\ v.ammo[q] = w.ammo[q]
            BY ONLY <3>7, <3>8, <4>4, <5>2
          <6> QED BY ONLY <1>1, <6>1 DEF AmmoAgrees
        <5> QED BY <5>1, <5>2
      <4>6. ASSUME NEW s \in ToSet(v.tasks), s.kind = "recharge"
            PROVE  s.token = v.ammo[s.what].gen /\ s.due = v.ammo[s.what].due
        <5>1. CASE s = t
          BY <1>1, <3>2, <3>3, <3>7, <5>1
        <5>2. CASE s # t
          <6>1. s \in ToSet(w.tasks) /\ s.what \in Program /\ s.what # p
            BY <3>8, <4>3, <4>6, <5>2
          <6>2. v.ammo[s.what] = w.ammo[s.what]
            BY <3>7, <6>1
          <6> QED BY <1>1, <4>6, <6>1, <6>2 DEF AmmoAgrees
        <5> QED BY <5>1, <5>2
      <4> QED BY ONLY <3>7, <4>5, <4>6 DEF AmmoAgrees
    <3> QED BY <2>10, <3>4, <3>5, <3>9, <3>10
  <2> QED BY <2>11, <2>12
<1> QED BY <1>2, <1>3

(* A cast commits once. *)
LEMMA EnterCommittedCalm ==
    ASSUME NEW w, NEW c, Sound(w), c \in DOMAIN w.casts, NEW v, v = EnterCommitted(w, c)
    PROVE  Calm(w, v, c) /\ Untouched(w, v, c) /\ v.casts[c].committed
<1> DEFINE global == DefOf(w, c).global
           g == IF global > w.cooldowns[Gcd] THEN global ELSE w.cooldowns[Gcd]
<1>1. w.casts[c] \in CastRecord
  BY DEF Sound, CastsTyped
<1>2. g \in Nat
  BY <1>1, DefIsTyped DEF DefOf, Definition, CastRecord, Sound
<1>a. PICK h \in Nat : h = g
  BY <1>2
<1>3. PICK u : u = CommittedAs(w, c, h)
  OBVIOUS
<1>4. v = IF Mode(w, c) \in {"tap", "ammo", "charge"} THEN StartCooldown(u, c) ELSE u
  BY <1>a, <1>3 DEF EnterCommitted, CommittedAs
<1> HIDE DEF g
<1>5. Calm(w, u, c) /\ u.policies = w.policies
      /\ u.casts[c] = CommitOf(w.casts[c])
  BY ONLY Sound(w), c \in DOMAIN w.casts, h \in Nat, <1>3, EditCommitted
<1>6. Untouched(w, u, c) /\ u.casts[c].committed
  BY ONLY <1>1, <1>5 DEF Untouched, CastRecord, CommitOf
<1>7. CASE Mode(w, c) \in {"tap", "ammo", "charge"}
  <2>1. v = StartCooldown(u, c) /\ Sound(u) /\ c \in DOMAIN u.casts
    BY <1>4, <1>5, <1>7 DEF Calm, Keeps, Does
  <2>2. Calm(u, v, c) /\ Untouched(u, v, c) /\ v.casts[c].committed = u.casts[c].committed
    BY <2>1, StartCooldownCalm
  <2> QED BY <1>5, <1>6, <2>2, ThenCalm DEF Untouched
<1>8. CASE Mode(w, c) \notin {"tap", "ammo", "charge"}
  BY <1>4, <1>5, <1>6, <1>8
<1> QED BY <1>7, <1>8

(* CommitCast pays, takes ammunition and commits, or returns an error. *)
LEMMA CommitKeeps ==
    ASSUME NEW w, NEW c, Sound(w), c \in DOMAIN w.casts, NEW pay, NEW v, v = CommitCast(w, c, pay)
    PROVE  /\ Keeps(w, v, c) /\ Untouched(w, v, c)
           /\ ~v.err /\ w.casts[c].stage # "cancelled" => v.casts[c].committed
           /\ ~v.err => ~w.err
<1>1. w.casts[c] \in CastRecord
  BY DEF Sound, CastsTyped
<1>2. CASE w.casts[c].stage = "cancelled" \/ w.casts[c].committed
  <2>1. v = w
    BY <1>2 DEF CommitCast
  <2> QED BY <1>2, <2>1, NoStep DEF Untouched
<1>3. CASE /\ ~(w.casts[c].stage = "cancelled" \/ w.casts[c].committed)
           /\ Mode(w, c) = "ammo" /\ w.ammo[w.casts[c].prog].stock <= 0
  <2>1. v = Bad(w)
    BY <1>3 DEF CommitCast
  <2>2. Keeps(w, v, c) /\ v.err /\ v.casts = w.casts
    BY <2>1, BadKeeps
  <2>3. v.policies = w.policies
    BY ONLY <2>1, Sound(w) DEF Sound, IsWorld, Bad
  <2> QED BY <2>2, <2>3 DEF Untouched
<1>4. CASE /\ ~(w.casts[c].stage = "cancelled" \/ w.casts[c].committed)
           /\ ~(Mode(w, c) = "ammo" /\ w.ammo[w.casts[c].prog].stock <= 0)
  <2>1. PICK u : u = IF w.casts[c].paid THEN w ELSE PayCosts(w, c, pay)
    OBVIOUS
  <2>2. v = IF u.err THEN u ELSE EnterCommitted(TakeAmmo(u, c), c)
    BY <1>4, <2>1 DEF CommitCast
  <2>3. /\ Keeps(w, u, c) /\ Untouched(w, u, c) /\ (w.err => u.err) /\ u.ammo = w.ammo
        /\ u.casts[c].prog = w.casts[c].prog
    <3>1. CASE w.casts[c].paid
      BY <2>1, <3>1, NoStep DEF Untouched
    <3>2. CASE ~w.casts[c].paid
      <4>1. u = PayCosts(w, c, pay)
        BY <2>1, <3>2
      <4> QED BY <4>1, PayKeeps
    <3> QED BY <3>1, <3>2
  <2>4. CASE u.err
    BY <2>2, <2>3, <2>4
  <2>5. CASE ~u.err
    <3>1. Sound(u) /\ c \in DOMAIN u.casts
      BY <2>3 DEF Keeps, Does
    <3>2. Mode(u, c) = "ammo" => u.ammo[u.casts[c].prog].stock > 0
      <4>1. Mode(u, c) = Mode(w, c)
        BY <2>3 DEF Mode, DefOf
      <4>2. w.ammo[w.casts[c].prog].stock \in Nat
        BY <1>1 DEF Sound, AmmoAgrees, AmmoRecord, CastRecord
      <4> QED BY <1>4, <2>3, <4>1, <4>2
    <3>3. PICK z : z = TakeAmmo(u, c)
      OBVIOUS
    <3>4. Calm(u, z, c) /\ z.casts = u.casts /\ z.policies = u.policies
      BY <3>1, <3>2, <3>3, TakeAmmoCalm
    <3>5. v = EnterCommitted(z, c) /\ Sound(z) /\ c \in DOMAIN z.casts
      BY <2>2, <2>5, <3>3, <3>4 DEF Calm, Keeps, Does
    <3>6. Calm(z, v, c) /\ Untouched(z, v, c) /\ v.casts[c].committed
      BY <3>5, EnterCommittedCalm
    <3>7. Keeps(w, v, c)
      <4>1. Keeps(w, z, c)
        BY <2>3, <3>4, ThenKeeps DEF Calm
      <4> QED BY <3>6, <4>1, ThenKeeps DEF Calm
    <3> QED BY <2>3, <2>5, <3>4, <3>6, <3>7 DEF Untouched
  <2> QED BY <2>4, <2>5
<1> QED BY <1>2, <1>3, <1>4

-----------------------------------------------------------------------------
(* Recovery and policies *)

(* The slot of the skill is given up. *)
LEMMA DropSlotCalm ==
    ASSUME NEW w, NEW c, Sound(w), c \in DOMAIN w.casts, NEW v, v = DropSlot(w, c)
    PROVE  Calm(w, v, c) /\ v.casts[c] = [w.casts[c] EXCEPT !.policy = FALSE]
<1> DEFINE r == [w.casts[c] EXCEPT !.policy = FALSE]
<1>1. IsWorld(w) /\ w.casts[c] \in CastRecord
  BY DEF Sound, CastsTyped
<1>2. IsWorld(v)
  BY ONLY <1>1, v = DropSlot(w, c) DEF IsWorld, DropSlot
<1>3. SameTables(w, v) /\ v.err = w.err /\ v.cooldowns = w.cooldowns
      /\ v.policies = [w.policies EXCEPT ![w.casts[c].prog] = 0]
  BY ONLY <1>1, v = DropSlot(w, c) DEF IsWorld, SameTables, DropSlot
<1>4. v.casts = [w.casts EXCEPT ![c] = r]
  BY ONLY <1>1, v = DropSlot(w, c) DEF IsWorld, DropSlot
<1>5. v.cooldowns \in [Program \cup {Gcd} -> Nat] /\ v.err \in BOOLEAN
  BY <1>3 DEF Sound
<1>6. r \in CastRecord /\ LikeCast(w.casts[c], r)
  BY ONLY <1>1 DEF LikeCast, CastRecord
<1> HIDE DEF r
<1>7. 0 \in {0, c} /\ c # 0
  BY LimitsAreNumbers DEF Sound, CastsTyped
<1>8. Keeps(w, v, c) /\ v.casts[c] = r
  <2>1. (0 = c) => r.policy
    BY <1>7
  <2> QED BY <1>2, <1>3, <1>4, <1>5, <1>6, <1>7, <2>1, SlotEdit
<1> QED BY <1>3, <1>8 DEF Calm, r

(* Who is pruned at the end of its recovery leaves the slot empty. *)
LEMMA CompleteRecoveryHandles ==
    ASSUME NEW w, NEW c, Sound(w), c \in DOMAIN w.casts, NEW v, v = CompleteRecovery(w, c)
    PROVE  Does(w, v, c) /\ v.err = w.err
<1>1. CASE w.casts[c].stage = "cancelled"
  <2>1. v = w
    BY <1>1 DEF CompleteRecovery
  <2> QED BY <2>1, NoStep DEF Keeps
<1>2. CASE w.casts[c].stage # "cancelled"
  <2>1. PICK u : u = [w EXCEPT !.casts[c].stage = "complete", !.casts[c].status = "finished"]
    OBVIOUS
  <2>2. PICK z : z = MarkFinished(u, c)
    OBVIOUS
  <2>3. v = IF c \in DOMAIN z.casts THEN DropSlot(z, c)
            ELSE [z EXCEPT !.policies[w.casts[c].prog] = 0]
    BY <1>2, <2>1, <2>2 DEF CompleteRecovery
  <2>4. Calm(w, u, c)
    BY <2>1, EditComplete
  <2>5. Does(u, z, c) /\ z.err = u.err
    BY <2>2, <2>4, MarkDoes DEF Calm, Keeps, Does
  <2>6. Does(w, z, c) /\ z.err = w.err
    BY <2>4, <2>5, Then DEF Calm
  <2>7. CASE c \in DOMAIN z.casts
    <3>1. Keeps(w, z, c)
      BY <2>6, <2>7 DEF Keeps
    <3>2. Calm(z, v, c)
      BY <2>3, <2>6, <2>7, DropSlotCalm DEF Does
    <3>3. Keeps(w, v, c)
      BY <3>1, <3>2, ThenKeeps DEF Calm
    <3> QED BY <2>6, <3>2, <3>3 DEF Calm, Keeps
  <2>8. CASE c \notin DOMAIN z.casts
    <3> DEFINE p == w.casts[c].prog
    <3>1. v = [z EXCEPT !.policies[p] = 0]
      BY <2>3, <2>8
    <3>2. IsWorld(z) /\ Sound(z)
      BY <2>6 DEF Does, Sound
    <3> HIDE DEF p
    <3>3. IsWorld(v)
      BY ONLY <3>1, <3>2 DEF IsWorld
    <3>4. /\ SameTables(z, v) /\ v.casts = z.casts /\ v.cooldowns = z.cooldowns /\ v.err = z.err
          /\ v.policies = [z.policies EXCEPT ![p] = 0]
      BY ONLY <3>1, <3>2 DEF IsWorld, SameTables
    <3>5. CastsTyped(v)
      BY ONLY <3>2, <3>4 DEF Sound, CastsTyped, SameTables
    <3>6. HeapAgrees(v)
      BY ONLY <3>2, <3>4 DEF Sound, HeapAgrees, SameTables
    <3>7. AmmoAgrees(v)
      BY ONLY <3>2, <3>4 DEF Sound, AmmoAgrees, SameTables
    <3>8. DoneAgrees(v)
      <4>1. NotDone(v) = NotDone(z)
        BY <3>4 DEF NotDone
      <4> QED BY ONLY <3>2, <3>4, <4>1 DEF Sound, DoneAgrees, SameTables
    <3>9. SlotsAgree(v)
      <4>1. \A q \in Program : v.policies[q] = z.policies[q] \/ v.policies[q] = 0
        BY <3>2, <3>4 DEF Sound, SlotsAgree
      <4>2. v.policies \in [Program -> 0 .. MaxCasts]
        <5>1. 0 \in 0 .. MaxCasts
          BY LimitsAreNumbers
        <5>2. z.policies \in [Program -> 0 .. MaxCasts]
          BY <3>2 DEF Sound, SlotsAgree
        <5> QED BY ONLY <3>4, <5>1, <5>2
      <4> QED BY ONLY <3>2, <3>4, <4>1, <4>2 DEF Sound, SlotsAgree
    <3>10. Sound(v)
      BY <3>2, <3>3, <3>4, <3>5, <3>6, <3>7, <3>8, <3>9 DEF Sound
    <3>11. Only(w, v, c)
      BY <2>6, <3>4 DEF Does, Only, SameTables
    <3> QED BY <2>6, <3>4, <3>10, <3>11 DEF Does
  <2> QED BY <2>7, <2>8
<1> QED BY <1>1, <1>2

(* What a program's definition says is a number. *)
LEMMA DefinitionOf ==
    ASSUME NEW w, NEW c, Sound(w), c \in DOMAIN w.casts
    PROVE  /\ w.casts[c] \in CastRecord /\ w.casts[c].prog \in Program
           /\ DefOf(w, c) = Def[w.casts[c].prog] /\ Mode(w, c) = Def[w.casts[c].prog].mode
           /\ DefOf(w, c) \in Definition
<1>1. w.casts[c] \in CastRecord
  BY DEF Sound, CastsTyped
<1> QED BY <1>1, DefIsTyped DEF DefOf, Mode, CastRecord

(* A finish waits for what is pending, recovers, or is complete at once. *)
LEMMA BeginRecoveryHandles ==
    ASSUME NEW w, NEW c, Sound(w), c \in DOMAIN w.casts, NEW v, v = BeginRecovery(w, c)
    PROVE  Does(w, v, c) /\ v.err = w.err
<1>1. PICK u : u = [w EXCEPT !.casts[c].logical = TRUE, !.casts[c].stage = "recovering"]
  OBVIOUS
<1>2. Calm(w, u, c)
  BY <1>1, EditRecovering
<1>3. Sound(u) /\ c \in DOMAIN u.casts /\ u.err = w.err
  BY <1>2 DEF Calm, Keeps, Does
<1>4. Does(u, v, c) /\ v.err = u.err
  <2>1. CASE u.casts[c].pending > 0
    <3>1. v = [u EXCEPT !.casts[c].status = "suspended"]
      BY <1>1, <2>1 DEF BeginRecovery
    <3>2. Calm(u, v, c)
      BY <1>3, <3>1, EditStatus
    <3> QED BY <3>2 DEF Calm, Keeps
  <2>2. CASE ~(u.casts[c].pending > 0) /\ DefOf(w, c).recovery = 0
    <3>1. v = CompleteRecovery(u, c)
      BY <1>1, <2>2 DEF BeginRecovery
    <3> QED BY <1>3, <3>1, CompleteRecoveryHandles
  <2>3. CASE ~(u.casts[c].pending > 0) /\ DefOf(w, c).recovery # 0
    <3>1. v = Schedule(u, c, DefOf(w, c).recovery, "recovery", "")
      BY <1>1, <2>3 DEF BeginRecovery
    <3>2. DefOf(w, c).recovery \in Nat
      BY DefinitionOf DEF Definition
    <3>3. "recovery" \in CastKinds /\ "" \in Words
      BY DEF CastKinds, Words
    <3>4. Calm(u, v, c)
      BY ONLY <1>3, <3>1, <3>2, <3>3, ScheduleCalm
    <3> QED BY <3>4 DEF Calm, Keeps
  <2> QED BY <2>1, <2>2, <2>3
<1> QED BY <1>2, <1>3, <1>4, Then DEF Calm

(* A policy that waits takes the slot of its skill, ... *)
LEMMA TakeSlotCalm ==
    ASSUME NEW w, NEW c, Sound(w), c \in DOMAIN w.casts,
           NEW u, u = [w EXCEPT !.casts[c].policy = TRUE, !.casts[c].status = "suspended",
                                !.policies[w.casts[c].prog] = c]
    PROVE  Calm(w, u, c)
<1> DEFINE r == [w.casts[c] EXCEPT !.policy = TRUE, !.status = "suspended"]
<1>1. w.casts[c] \in CastRecord /\ w.casts[c].prog \in Program /\ IsWorld(w)
  BY DefinitionOf DEF Sound
<1>2. IsWorld(u)
  BY ONLY <1>1, u = [w EXCEPT !.casts[c].policy = TRUE, !.casts[c].status = "suspended",
                              !.policies[w.casts[c].prog] = c] DEF IsWorld
<1>3. SameTables(w, u) /\ u.err = w.err /\ u.cooldowns = w.cooldowns
      /\ u.policies = [w.policies EXCEPT ![w.casts[c].prog] = c]
  BY ONLY <1>1, u = [w EXCEPT !.casts[c].policy = TRUE, !.casts[c].status = "suspended",
                              !.policies[w.casts[c].prog] = c] DEF IsWorld, SameTables
<1>4. u.casts = [w.casts EXCEPT ![c] = r]
  BY ONLY <1>1, u = [w EXCEPT !.casts[c].policy = TRUE, !.casts[c].status = "suspended",
                              !.policies[w.casts[c].prog] = c] DEF IsWorld
<1>5. u.cooldowns \in [Program \cup {Gcd} -> Nat] /\ u.err \in BOOLEAN
  BY <1>3 DEF Sound
<1>6. r \in CastRecord /\ LikeCast(w.casts[c], r) /\ r.policy
  BY ONLY <1>1 DEF LikeCast, CastRecord
<1> HIDE DEF r
<1>7. c \in {0, c} /\ (c = c => r.policy)
  BY <1>6
<1>8. Keeps(w, u, c)
  BY <1>2, <1>3, <1>4, <1>5, <1>6, <1>7, SlotEdit
<1> QED BY <1>3, <1>8 DEF Calm

(* ... and has tasks that end its wait. *)
LEMMA PolicyWaitKeeps ==
    ASSUME NEW w, NEW c, Sound(w), c \in DOMAIN w.casts, NEW v, v = PolicyWait(w, c)
    PROVE  /\ Keeps(w, v, c)
           /\ Mode(w, c) = "charge" /\ w.casts[c].age = 0 => v.err = w.err
<1> DEFINE d == DefOf(w, c)
           left == d.maxTicks - w.casts[c].age
<1>1. /\ w.casts[c] \in CastRecord /\ w.casts[c].prog \in Program /\ IsWorld(w) /\ d \in Definition
      /\ Mode(w, c) = d.mode
  BY DefinitionOf DEF Sound, Mode
<1>2. CASE d.mode \in {"tap", "ammo"}
  <2>1. v = Bad(w)
    BY <1>2 DEF PolicyWait
  <2> QED BY <1>1, <1>2, <2>1, BadKeeps
<1>3. CASE d.mode \notin {"tap", "ammo"} /\ w.casts[c].policy
  <2>1. v = [w EXCEPT !.casts[c].status = "suspended"]
    BY <1>3 DEF PolicyWait
  <2>2. PICK s \in {"running", "suspended", "finished", "failed"} : s = "suspended"
    OBVIOUS
  <2>3. v = [w EXCEPT !.casts[c].status = s]
    BY <2>1, <2>2
  <2>4. Calm(w, v, c)
    BY ONLY Sound(w), c \in DOMAIN w.casts, <2>3, s \in {"running", "suspended", "finished", "failed"}, EditStatus
  <2> QED BY <2>4 DEF Calm
<1>4. CASE d.mode \notin {"tap", "ammo"} /\ ~w.casts[c].policy
  <2>1. PICK u : u = [w EXCEPT !.casts[c].policy = TRUE, !.casts[c].status = "suspended",
                               !.policies[w.casts[c].prog] = c]
    OBVIOUS
  <2>2. Keeps(w, u, c) /\ u.err = w.err
    BY <2>1, TakeSlotCalm DEF Calm
  <2>3. Sound(u) /\ c \in DOMAIN u.casts
    BY <2>2 DEF Keeps, Does
  <2>4. left \in Int /\ d.pulse \in Nat /\ d.maxTicks \in Nat
    BY ONLY <1>1 DEF Definition, CastRecord
  <2> HIDE DEF left
  <2>5. CASE d.mode = "charge"
    <3> DEFINE what == IF d.autoRelease THEN "charge_full" ELSE "cancelled"
    <3>1. v = Schedule(u, c, left, "auto", what)
      BY <1>4, <2>1, <2>5 DEF PolicyWait, left
    <3>2. what \in Words /\ "auto" \in CastKinds
      BY DEF Words, CastKinds
    <3> HIDE DEF what
    <3>3. Keeps(u, v, c) /\ (left \in Nat => v.err = u.err)
      <4>1. left \in Int
        BY <2>4
      <4>2. PICK k \in CastKinds : k = "auto"
        BY <3>2
      <4>3. PICK e \in Int : e = left
        BY <4>1
      <4>4. PICK s \in Words : s = what
        BY <3>2
      <4>5. v = Schedule(u, c, e, k, s)
        BY <3>1, <4>2, <4>3, <4>4
      <4>6. Keeps(u, v, c) /\ (e \in Nat => v.err = u.err)
        BY ONLY <2>3, e \in Int, s \in Words, <4>5, k \in CastKinds, ScheduleKeeps
      <4> QED BY <4>3, <4>6
    <3>4. w.casts[c].age = 0 => left \in Nat
      BY <2>4 DEF left
    <3>5. Keeps(w, v, c)
      BY <2>2, <3>3, ThenKeeps
    <3> QED BY <2>2, <3>3, <3>4, <3>5
  <2>6. CASE d.mode # "charge"
    <3>1. PICK z : z = Schedule(u, c, d.pulse, "pulse", "")
      OBVIOUS
    <3>2. v = Schedule(z, c, left, "auto", "max_duration")
      BY <1>4, <2>1, <2>6, <3>1 DEF PolicyWait, left
    <3> DEFINE e == d.pulse
    <3>a. e \in Nat /\ "pulse" \in CastKinds /\ "" \in Words
      BY <2>4 DEF CastKinds, Words
    <3>b. z = Schedule(u, c, e, "pulse", "")
      BY <3>1
    <3> HIDE DEF e
    <3>3. Keeps(u, z, c)
      <4>1. Calm(u, z, c)
        BY ONLY <2>3, <3>a, <3>b, ScheduleCalm
      <4> QED BY <4>1 DEF Calm
    <3>4. Keeps(z, v, c)
      <4>1. left \in Int /\ Sound(z) /\ c \in DOMAIN z.casts
        BY <2>4, <3>3 DEF Keeps, Does
      <4>2. PICK k \in CastKinds : k = "auto"
        BY DEF CastKinds
      <4>3. PICK s \in Words : s = "max_duration"
        BY DEF Words
      <4>4. v = Schedule(z, c, left, k, s)
        BY <3>2, <4>2, <4>3
      <4> QED BY ONLY <4>1, <4>4, k \in CastKinds, s \in Words, ScheduleKeeps
    <3>5. Keeps(w, z, c)
      BY <2>2, <3>3, ThenKeeps
    <3>6. Keeps(w, v, c)
      BY <3>4, <3>5, ThenKeeps
    <3> QED BY <1>1, <2>6, <3>6
  <2> QED BY <2>5, <2>6
<1> QED BY <1>2, <1>3, <1>4

-----------------------------------------------------------------------------
(* Flows *)

(* What the host and the flows can answer is of its kind. *)
IsLot(x) ==
    /\ x.pay \in BOOLEAN
    /\ x.enter \in Outcome /\ x.release \in Outcome /\ x.pulse \in Outcome /\ x.cancel \in Outcome
    /\ x.input \in Outcome /\ x.tail \in Outcome /\ x.branch \in Outcome /\ x.second \in Outcome

(* A flow that runs has an outcome of its program. *)
LEMMA LotsTyped ==
    ASSUME NEW p \in Program, NEW es, NEW x \in Lots(p, es)
    PROVE  /\ IsLot(x)
           /\ "enter" \in es => x.enter \in Def[p].flow["enter"]
           /\ "second" \in es => x.second \in Def[p].flow["second"]
<1> DEFINE Of(e) == IF e \in es THEN Def[p].flow[e] ELSE {[fork |-> FALSE, then |-> "through"]}
<1>1. \A e \in Event : Of(e) \subseteq Outcome
  <2>1. Def[p].flow \in [Event -> SUBSET Outcome]
    BY DefIsTyped DEF Definition
  <2>2. [fork |-> FALSE, then |-> "through"] \in Outcome
    BY DEF Outcome, Control
  <2> QED BY <2>1, <2>2
<1>2. /\ x.pay \in BOOLEAN
      /\ x.enter \in Of("enter") /\ x.release \in Of("release") /\ x.pulse \in Of("pulse")
      /\ x.cancel \in Of("cancel") /\ x.input \in Of("input") /\ x.tail \in Of("tail")
      /\ x.branch \in Of("branch") /\ x.second \in Of("second")
  <2>1. x \in [pay : BOOLEAN, enter : Of("enter"), release : Of("release"), pulse : Of("pulse"),
               cancel : Of("cancel"), input : Of("input"), tail : Of("tail"), branch : Of("branch"),
               second : Of("second")]
    BY DEF Lots
  <2> HIDE DEF Of
  <2> QED BY ONLY <2>1
<1>3. IsLot(x)
  <2> HIDE DEF Of
  <2> QED BY <1>1, <1>2 DEF IsLot, Event
<1> QED BY <1>2, <1>3

(* A branch waits, or nothing happens. *)
LEMMA ForkedCalm ==
    ASSUME NEW w, NEW c, Sound(w), c \in DOMAIN w.casts, NEW o, NEW v, v = Forked(w, c, o)
    PROVE  /\ Calm(w, v, c) /\ Held(w.casts[c], v.casts[c])
           /\ ~o.fork => v = w
           /\ \A t \in ToSet(v.tasks) \ ToSet(w.tasks) : t.token = w.casts[c].token
<1>1. CASE o.fork
  <2>1. PICK due \in Nat : due = Wait
    BY LimitsAreNumbers
  <2>2. PICK kind \in CastKinds : kind = "flow"
    BY DEF CastKinds
  <2>3. PICK what \in Words : what = "branch"
    BY DEF Words
  <2>4. v = Schedule(w, c, due, kind, what)
    BY <1>1, <2>1, <2>2, <2>3 DEF Forked
  <2>5. /\ Calm(w, v, c) /\ Held(w.casts[c], v.casts[c])
        /\ ToSet(v.tasks) = ToSet(w.tasks) \cup {Task(due, kind, c, w.casts[c].token, what)}
    BY ONLY Sound(w), c \in DOMAIN w.casts, due \in Nat, kind \in CastKinds, what \in Words, <2>4, ScheduleCalm
  <2>6. Task(due, kind, c, w.casts[c].token, what).token = w.casts[c].token
    BY DEF Task
  <2> QED BY <1>1, <2>5, <2>6
<1>2. CASE ~o.fork
  <2>1. v = w
    BY <1>2 DEF Forked
  <2> QED BY <2>1, NoStep DEF Calm, Held
<1> QED BY <1>1, <1>2

(* The next phase begins without the tasks of the one before it. *)
LEMMA NextPhaseCalm ==
    ASSUME NEW w, NEW c, Sound(w), c \in DOMAIN w.casts, NEW v, v = NextPhase(w, c)
    PROVE  /\ Calm(w, v, c)
           /\ v.casts[c].age = w.casts[c].age /\ v.casts[c].policy = w.casts[c].policy
           /\ v.casts[c].done = w.casts[c].done /\ v.casts[c].committed = w.casts[c].committed
           /\ ToSet(v.tasks) = ToSet(w.tasks) \ PhaseOf(w, c)
<1>1. PICK u : u = CancelPhaseTasks(w, c)
  OBVIOUS
<1>2. /\ Calm(w, u, c) /\ Held(w.casts[c], u.casts[c])
      /\ ToSet(u.tasks) = ToSet(w.tasks) \ PhaseOf(w, c)
  BY <1>1, CancelTasksCalm
<1>3. Sound(u) /\ c \in DOMAIN u.casts
  BY <1>2 DEF Calm, Keeps, Does
<1>4. IsWorld(u) /\ u.casts[c] \in CastRecord
  BY <1>3 DEF Sound, CastsTyped
<1>5. v = [u EXCEPT !.casts[c].token = @ + 1, !.casts[c].phase = 2]
  BY <1>1 DEF NextPhase
<1>6. v.tasks = u.tasks /\ v.casts[c] = [u.casts[c] EXCEPT !.token = @ + 1, !.phase = 2]
  BY ONLY <1>3, <1>4, <1>5 DEF IsWorld
<1>7. Calm(u, v, c)
  BY ONLY <1>3, <1>5, EditPhase
<1>8. /\ v.casts[c].age = u.casts[c].age /\ v.casts[c].policy = u.casts[c].policy
      /\ v.casts[c].done = u.casts[c].done /\ v.casts[c].committed = u.casts[c].committed
  BY ONLY <1>4, <1>6 DEF CastRecord
<1>9. Calm(w, v, c)
  BY <1>2, <1>7, ThenCalm
<1> QED BY <1>2, <1>6, <1>8, <1>9 DEF Held

(* Handlers of one step. *)
LEMMA KeepsHandles ==
    ASSUME NEW w, NEW v, NEW c, Keeps(w, v, c) \/ (Does(w, v, c) /\ v.err = w.err)
    PROVE  Handles(w, v, c)
BY DEF Keeps, Handles

(* A phase runs. *)
LEMMA EnterPhaseHandles ==
    ASSUME NEW w, NEW c, Sound(w), c \in DOMAIN w.casts, NEW o \in Outcome,
           NEW v, v = EnterPhase(w, c, o)
    PROVE  Handles(w, v, c)
<1>1. PICK u : u = Forked(w, c, o)
  OBVIOUS
<1>2. Calm(w, u, c)
  BY <1>1, ForkedCalm
<1>3. Sound(u) /\ c \in DOMAIN u.casts
  BY <1>2 DEF Calm, Keeps, Does
<1>4. o.then \in {"finish", "goto", "wait", "through", "error"}
  BY DEF Outcome, Control
<1>5. Handles(u, v, c)
  <2>1. CASE o.then = "finish"
    <3>1. v = BeginRecovery(u, c)
      BY <1>1, <2>1 DEF EnterPhase
    <3> QED BY <1>3, <3>1, BeginRecoveryHandles, KeepsHandles
  <2>2. CASE o.then = "wait"
    <3>1. v = Schedule(u, c, Wait, "flow", "tail")
      BY <1>1, <2>2 DEF EnterPhase
    <3>2. Calm(u, v, c)
      BY <1>3, <3>1, WaitCalm
    <3> QED BY <3>2, KeepsHandles DEF Calm
  <2>3. CASE o.then = "through"
    <3>1. v = PolicyWait(u, c)
      BY <1>1, <2>3 DEF EnterPhase
    <3> QED BY <1>3, <3>1, PolicyWaitKeeps, KeepsHandles
  <2>4. CASE o.then \in {"error", "goto"}
    <3>1. v = Bad(u)
      BY <1>1, <2>4 DEF EnterPhase
    <3> QED BY <1>3, <3>1, BadKeeps, KeepsHandles
  <2> QED BY <1>4, <2>1, <2>2, <2>3, <2>4
<1> QED BY <1>2, <1>5, ThenHandles DEF Calm

(* The enter flow runs, and the second phase if it goes there. *)
LEMMA ExecuteCastHandles ==
    ASSUME NEW w, NEW c, Sound(w), c \in DOMAIN w.casts, NEW x, IsLot(x),
           NEW v, v = ExecuteCast(w, c, x)
    PROVE  Handles(w, v, c)
<1>1. PICK o \in Outcome : o = x.second
  BY DEF IsLot
<1>2. PICK e \in Outcome : e = x.enter
  BY DEF IsLot
<1>3. CASE w.casts[c].phase = 2
  <2>1. v = EnterPhase(w, c, o)
    BY <1>1, <1>3 DEF ExecuteCast
  <2> QED BY ONLY Sound(w), c \in DOMAIN w.casts, o \in Outcome, <2>1, EnterPhaseHandles
<1>4. CASE w.casts[c].phase # 2 /\ e.then = "goto"
  <2>1. PICK u : u = Forked(w, c, e)
    OBVIOUS
  <2>2. PICK z : z = NextPhase(u, c)
    OBVIOUS
  <2>3. v = EnterPhase(z, c, o)
    BY <1>1, <1>2, <1>4, <2>1, <2>2 DEF ExecuteCast
  <2>4. Calm(w, u, c)
    BY <2>1, ForkedCalm
  <2>5. Calm(u, z, c)
    BY <2>2, <2>4, NextPhaseCalm DEF Calm, Keeps, Does
  <2>6. Calm(w, z, c)
    BY <2>4, <2>5, ThenCalm
  <2>7. Sound(z) /\ c \in DOMAIN z.casts
    BY <2>6 DEF Calm, Keeps, Does
  <2>8. Handles(z, v, c)
    BY ONLY <2>3, <2>7, o \in Outcome, EnterPhaseHandles
  <2> QED BY <2>6, <2>8, ThenHandles DEF Calm
<1>5. CASE w.casts[c].phase # 2 /\ e.then # "goto"
  <2>1. v = EnterPhase(w, c, e)
    BY <1>2, <1>5 DEF ExecuteCast
  <2> QED BY ONLY Sound(w), c \in DOMAIN w.casts, e \in Outcome, <2>1, EnterPhaseHandles
<1> QED BY <1>3, <1>4, <1>5

(* What a flow that stopped asks for is done. *)
LEMMA ResolveControlHandles ==
    ASSUME NEW w, NEW c, Sound(w), c \in DOMAIN w.casts, NEW x, IsLot(x),
           NEW control \in Control, NEW v, v = ResolveControl(w, c, control, x)
    PROVE  Handles(w, v, c)
<1>0. control \in {"finish", "goto", "wait", "through", "error"}
  BY DEF Control
<1>1. CASE control = "finish"
  <2>1. v = BeginRecovery(w, c)
    BY <1>1 DEF ResolveControl
  <2> QED BY <2>1, BeginRecoveryHandles, KeepsHandles
<1>2. CASE control = "wait"
  <2>1. v = Schedule(w, c, Wait, "flow", "tail")
    BY <1>2 DEF ResolveControl
  <2>2. Calm(w, v, c)
    BY <2>1, WaitCalm
  <2> QED BY <2>2, KeepsHandles DEF Calm
<1>3. CASE control = "goto"
  <2>1. PICK u : u = NextPhase(w, c)
    OBVIOUS
  <2>2. PICK z : z = [u EXCEPT !.casts[c].status = "running"]
    OBVIOUS
  <2>3. PICK o \in Outcome : o = x.second
    BY DEF IsLot
  <2>4. v = EnterPhase(z, c, o)
    BY <1>3, <2>1, <2>2, <2>3 DEF ResolveControl
  <2>5. Calm(w, u, c)
    BY <2>1, NextPhaseCalm
  <2>6. Sound(u) /\ c \in DOMAIN u.casts
    BY <2>5 DEF Calm, Keeps, Does
  <2>7. Calm(u, z, c)
    BY ONLY <2>2, <2>6, RunningCalm
  <2>8. Calm(w, z, c)
    BY <2>5, <2>7, ThenCalm
  <2>9. Sound(z) /\ c \in DOMAIN z.casts
    BY <2>8 DEF Calm, Keeps, Does
  <2>10. Handles(z, v, c)
    BY ONLY <2>4, <2>9, o \in Outcome, EnterPhaseHandles
  <2> QED BY <2>8, <2>10, ThenHandles DEF Calm
<1>4. CASE control = "error"
  <2>1. v = Bad(w)
    BY <1>4 DEF ResolveControl
  <2> QED BY <2>1, BadKeeps, KeepsHandles
<1>5. CASE control = "through"
  <2>1. v = IF w.casts[c].pending > 0 THEN [w EXCEPT !.casts[c].status = "suspended"]
            ELSE IF w.casts[c].logical THEN BeginRecovery(w, c) ELSE Bad(w)
    BY <1>5 DEF ResolveControl
  <2>2. CASE w.casts[c].pending > 0
    <3>1. v = [w EXCEPT !.casts[c].status = "suspended"]
      BY <2>1, <2>2
    <3>2. Calm(w, v, c)
      BY ONLY Sound(w), c \in DOMAIN w.casts, <3>1, SuspendedCalm
    <3> QED BY <3>2, KeepsHandles DEF Calm
  <2>3. CASE ~(w.casts[c].pending > 0) /\ w.casts[c].logical
    <3>1. v = BeginRecovery(w, c)
      BY <2>1, <2>3
    <3> QED BY <3>1, BeginRecoveryHandles, KeepsHandles
  <2>4. CASE ~(w.casts[c].pending > 0) /\ ~w.casts[c].logical
    <3>1. v = Bad(w)
      BY <2>1, <2>4
    <3> QED BY <3>1, BadKeeps, KeepsHandles
  <2> QED BY <2>2, <2>3, <2>4
<1> QED BY <1>0, <1>1, <1>2, <1>3, <1>4, <1>5

(* A root beside enter runs. *)
LEMMA ExecuteCastEventHandles ==
    ASSUME NEW w, NEW c, Sound(w), c \in DOMAIN w.casts, NEW x, IsLot(x), NEW o \in Outcome,
           NEW v, v = ExecuteCastEvent(w, c, o, x)
    PROVE  Handles(w, v, c)
<1>1. CASE w.casts[c].phase # 1
  <2>1. v = Bad(w)
    BY <1>1 DEF ExecuteCastEvent
  <2> QED BY <2>1, BadKeeps, KeepsHandles
<1>2. CASE w.casts[c].phase = 1
  <2>1. PICK u : u = Forked(w, c, o)
    OBVIOUS
  <2>2. PICK control \in Control : control = o.then
    BY DEF Outcome
  <2>3. v = ResolveControl(u, c, control, x)
    BY <1>2, <2>1, <2>2 DEF ExecuteCastEvent
  <2>4. Calm(w, u, c)
    BY <2>1, ForkedCalm
  <2>5. Sound(u) /\ c \in DOMAIN u.casts
    BY <2>4 DEF Calm, Keeps, Does
  <2>6. Handles(u, v, c)
    BY ONLY <2>3, <2>5, IsLot(x), control \in Control, ResolveControlHandles
  <2> QED BY <2>4, <2>6, ThenHandles DEF Calm
<1> QED BY <1>1, <1>2

(* A cast that has committed executes its root. *)
LEMMA BeginExecutionHandles ==
    ASSUME NEW w, NEW c, Sound(w), c \in DOMAIN w.casts, NEW x, IsLot(x),
           NEW v, v = BeginExecution(w, c, x)
    PROVE  Handles(w, v, c)
<1>1. CASE w.casts[c].stage = "cancelled"
  <2>1. v = w
    BY <1>1 DEF BeginExecution
  <2> QED BY <2>1, NoStep, KeepsHandles
<1>2. CASE w.casts[c].stage # "cancelled" /\ ~w.casts[c].committed
  <2>1. v = Bad(w)
    BY <1>2 DEF BeginExecution
  <2> QED BY <2>1, BadKeeps, KeepsHandles
<1>3. CASE w.casts[c].stage # "cancelled" /\ w.casts[c].committed
  <2>1. PICK u : u = [w EXCEPT !.casts[c].stage = "executing", !.casts[c].status = "running"]
    OBVIOUS
  <2>2. v = IF w.casts[c].root = "release" THEN ExecuteCastEvent(u, c, x.release, x) ELSE ExecuteCast(u, c, x)
    BY <1>3, <2>1 DEF BeginExecution
  <2>3. Calm(w, u, c)
    BY <2>1, EditExecuting
  <2>4. Sound(u) /\ c \in DOMAIN u.casts
    BY <2>3 DEF Calm, Keeps, Does
  <2>5. Handles(u, v, c)
    <3>1. CASE w.casts[c].root = "release"
      <4>1. PICK o \in Outcome : o = x.release
        BY DEF IsLot
      <4>2. v = ExecuteCastEvent(u, c, o, x)
        BY <2>2, <3>1, <4>1
      <4> QED BY ONLY <2>4, <4>2, IsLot(x), o \in Outcome, ExecuteCastEventHandles
    <3>2. CASE w.casts[c].root # "release"
      <4>1. v = ExecuteCast(u, c, x)
        BY <2>2, <3>2
      <4> QED BY ONLY <2>4, <4>1, IsLot(x), ExecuteCastHandles
    <3> QED BY <3>1, <3>2
  <2> QED BY <2>3, <2>5, ThenHandles DEF Calm
<1> QED BY <1>1, <1>2, <1>3

(* A cast that can be deleted without a trace. *)
Bare(w, c) == c \in DOMAIN w.casts /\ w.casts[c].pending = 0 /\ ~w.casts[c].policy /\ ~w.casts[c].done

(* A window that returns an error before the cast commits leaves no trace: *)
(* nothing waits behind a commit that is not instantaneous.                *)
LEMMA WindupHandles ==
    ASSUME NEW w, NEW c, Sound(w), c \in DOMAIN w.casts, NEW x, IsLot(x),
           NEW v, v = Windup(w, c, x)
    PROVE  /\ Handles(w, v, c)
           /\ ~w.err /\ Bare(w, c) /\ w.casts[c].stage = "preparing" /\ v.err
              => v.casts[c].committed \/ Bare(v, c)
<1> DEFINE d == DefOf(w, c)
<1>1. d \in Definition /\ d.commit <= d.windup
  BY DefinitionOf, ShapeIsChecked
<1>2. d.commit \in Nat /\ d.windup \in Nat
  BY ONLY <1>1 DEF Definition
<1>3. PICK m \in Nat : m = d.commit
  BY <1>2
<1>4. PICK n \in Nat : n = d.windup
  BY <1>2
<1>5. PICK u : u = IF d.refund THEN w ELSE PayCosts(w, c, x.pay)
  OBVIOUS
<1>6. PICK z : z = IF u.err THEN u ELSE IF m = 0 THEN CommitCast(u, c, x.pay)
                   ELSE Schedule(u, c, m, "commit", "")
  OBVIOUS
<1>7. v = IF z.err THEN z ELSE IF n = 0 THEN BeginExecution(z, c, x) ELSE Schedule(z, c, n, "execute", "")
  BY <1>3, <1>4, <1>5, <1>6 DEF Windup
<1>8. m <= n
  BY <1>1, <1>3, <1>4
<1> HIDE DEF d
<1>9. /\ Keeps(w, u, c) /\ Untouched(w, u, c) /\ u.casts[c].stage = w.casts[c].stage /\ (w.err => u.err)
  <2>1. CASE d.refund
    <3>1. u = w
      BY <1>5, <2>1
    <3> QED BY <3>1, NoStep DEF Untouched
  <2>2. CASE ~d.refund
    <3>1. u = PayCosts(w, c, x.pay)
      BY <1>5, <2>2
    <3> QED BY <3>1, PayKeeps
  <2> QED BY <2>1, <2>2
<1>10. Sound(u) /\ c \in DOMAIN u.casts
  BY <1>9 DEF Keeps, Does
<1>11. CASE u.err
  <2>1. v = u
    BY <1>6, <1>7, <1>11
  <2> QED BY <1>9, <2>1, KeepsHandles DEF Bare, Untouched, Keeps
<1>12. CASE ~u.err
  <2>1. PICK kind \in CastKinds : kind = "commit"
    BY DEF CastKinds
  <2>2. PICK what \in Words : what = ""
    BY DEF Words
  <2>3. m # 0 => Calm(u, z, c)
    <3>1. m # 0 => z = Schedule(u, c, m, kind, what)
      BY <1>6, <1>12, <2>1, <2>2
    <3> QED BY ONLY <1>10, <3>1, m \in Nat, kind \in CastKinds, what \in Words, ScheduleCalm
  <2>4. m = 0 => /\ Keeps(u, z, c) /\ Untouched(u, z, c)
                 /\ ~z.err /\ u.casts[c].stage # "cancelled" => z.casts[c].committed
    <3>1. m = 0 => z = CommitCast(u, c, x.pay)
      BY <1>6, <1>12
    <3> QED BY ONLY <1>10, <3>1, CommitKeeps
  <2>5. Keeps(u, z, c)
    BY <2>3, <2>4 DEF Calm
  <2>6. Keeps(w, z, c)
    BY <1>9, <2>5, ThenKeeps
  <2>7. Sound(z) /\ c \in DOMAIN z.casts
    BY <2>5 DEF Keeps, Does
  <2>8. CASE z.err
    <3>1. v = z
      BY <1>7, <2>8
    <3>2. m = 0
      BY <1>12, <2>3, <2>8 DEF Calm
    <3> QED BY <1>9, <2>4, <2>6, <3>1, <3>2, KeepsHandles DEF Bare, Untouched, Keeps
  <2>9. CASE ~z.err
    <3>1. Handles(z, v, c) /\ (n # 0 => ~v.err)
      <4>1. CASE n = 0
        <5>1. v = BeginExecution(z, c, x)
          BY <1>7, <2>9, <4>1
        <5> QED BY <2>7, <4>1, <5>1, BeginExecutionHandles
      <4>2. CASE n # 0
        <5>1. PICK k \in CastKinds : k = "execute"
          BY DEF CastKinds
        <5>2. v = Schedule(z, c, n, k, what)
          BY <1>7, <2>2, <2>9, <4>2, <5>1
        <5>3. Calm(z, v, c)
          BY ONLY <2>7, <5>2, n \in Nat, k \in CastKinds, what \in Words, ScheduleCalm
        <5> QED BY <2>9, <5>3, KeepsHandles DEF Calm
      <4> QED BY <4>1, <4>2
    <3>2. Handles(w, v, c)
      BY <2>6, <2>9, <3>1, ThenHandles
    <3>3. ASSUME v.err, w.casts[c].stage = "preparing"
          PROVE  v.casts[c].committed
      <4>1. n = 0
        BY <3>1, <3>3
      <4>2. m = 0
        BY <1>8, <4>1
      <4>3. z.casts[c].committed
        BY <1>9, <2>4, <2>9, <3>3, <4>2
      <4>4. c \in DOMAIN v.casts /\ Only(z, v, c)
        BY <2>9, <3>1, <3>3 DEF Handles, Does
      <4> QED BY <4>3, <4>4 DEF Only
    <3> QED BY <3>2, <3>3
  <2> QED BY <2>8, <2>9
<1> QED BY <1>11, <1>12

(* The same of PrepareWindow, for a cast that has a stage. *)
LEMMA PrepareWindowHandles ==
    ASSUME NEW w, NEW c, Sound(w), c \in DOMAIN w.casts, NEW x, IsLot(x),
           NEW root \in {"enter", "release"}, NEW v, v = PrepareWindow(w, c, root, x)
    PROVE  Handles(w, v, c)
<1>1. PICK u : u = [w EXCEPT !.casts[c].root = root, !.casts[c].stage = "preparing"]
  OBVIOUS
<1>2. Calm(w, u, c)
  BY ONLY Sound(w), c \in DOMAIN w.casts, root \in {"enter", "release"}, <1>1, EditPreparing
<1>3. Sound(u) /\ c \in DOMAIN u.casts
  BY <1>2 DEF Calm, Keeps, Does
<1>5. v = Windup(u, c, x)
  BY <1>1 DEF PrepareWindow
<1>6. Handles(u, v, c)
  BY <1>3, <1>5, WindupHandles
<1> QED BY <1>2, <1>6, ThenHandles DEF Calm

(* A cast that is broken off ends. *)
LEMMA CancelledAsDoes ==
    ASSUME NEW w, NEW c, Sound(w), c \in DOMAIN w.casts, NEW v, v = CancelledAs(w, c)
    PROVE  Does(w, v, c) /\ v.err = w.err
<1>1. PICK u : u = [w EXCEPT !.casts[c].stage = "cancelled", !.casts[c].status = "finished"]
  OBVIOUS
<1>2. v = MarkFinished(u, c)
  BY <1>1 DEF CancelledAs
<1>3. Calm(w, u, c)
  BY <1>1, EditCancelled
<1>4. Does(u, v, c) /\ v.err = u.err
  <2>1. Sound(u) /\ c \in DOMAIN u.casts
    BY <1>3 DEF Calm, Keeps, Does
  <2> QED BY ONLY <1>2, <2>1, MarkDoes
<1> QED BY <1>3, <1>4, Then DEF Calm

(* A cast that fails ends, and stays if it has not committed. *)
LEMMA FailedDoes ==
    ASSUME NEW w, NEW c, Sound(w), c \in DOMAIN w.casts, NEW v, v = Failed(w, c)
    PROVE  /\ Does(w, v, c) /\ v.err = w.err
           /\ Bare(w, c) /\ ~w.casts[c].committed =>
                /\ c \in DOMAIN v.casts /\ v.casts[c].pending = 0 /\ ~v.casts[c].policy /\ v.casts[c].done
                /\ c \notin ToSet(v.completed)
<1>1. PICK u : u = [w EXCEPT !.casts[c].status = "failed"]
  OBVIOUS
<1>2. v = MarkFinished(u, c)
  BY <1>1 DEF Failed
<1>3. /\ Calm(w, u, c) /\ Untouched(w, u, c)
      /\ u.casts[c].committed = w.casts[c].committed /\ u.casts[c].status = "failed"
  BY <1>1, FailedCalm
<1>4. Sound(u) /\ c \in DOMAIN u.casts
  BY <1>3 DEF Calm, Keeps, Does
<1>5. Does(u, v, c) /\ v.err = u.err
  BY ONLY <1>2, <1>4, MarkDoes
<1>6. ASSUME Bare(w, c), ~w.casts[c].committed
      PROVE  /\ c \in DOMAIN v.casts /\ v.casts[c].pending = 0 /\ ~v.casts[c].policy /\ v.casts[c].done
             /\ c \notin ToSet(v.completed)
  <2>1. ~u.casts[c].done /\ ~u.casts[c].committed /\ u.casts[c].status = "failed"
    BY <1>3, <1>6 DEF Bare, Untouched
  <2>2. /\ c \in DOMAIN v.casts /\ v.casts[c].done /\ c \notin ToSet(v.completed)
        /\ v.casts[c].pending = u.casts[c].pending /\ v.casts[c].policy = u.casts[c].policy
    BY ONLY <1>2, <1>4, <2>1, MarkDoes
  <2> QED BY <1>3, <1>6, <2>2 DEF Bare, Untouched
<1> QED BY <1>3, <1>5, <1>6, Then DEF Calm

(* A task of a cast that fails takes the tasks of its phase with it. *)
LEMMA FailScheduledDoes ==
    ASSUME NEW w, NEW c, Sound(w), c \in DOMAIN w.casts, NEW v, v = FailScheduled(w, c)
    PROVE  Does(w, v, c) /\ v.err = w.err
<1>1. PICK u : u = CancelPhaseTasks(w, c)
  OBVIOUS
<1>2. v = Failed(u, c)
  BY <1>1 DEF FailScheduled
<1>3. Calm(w, u, c)
  BY <1>1, CancelTasksCalm
<1>4. Does(u, v, c) /\ v.err = u.err
  BY <1>2, <1>3, FailedDoes DEF Calm, Keeps, Does
<1> QED BY <1>3, <1>4, Then DEF Calm

(* A release ends a charge that is too young, or runs its root. *)
LEMMA ReleaseCastHandles ==
    ASSUME NEW w, NEW c, Sound(w), c \in DOMAIN w.casts, NEW x, IsLot(x),
           NEW v, v = ReleaseCast(w, c, x)
    PROVE  Handles(w, v, c)
<1> DEFINE d == DefOf(w, c)
           no == w.casts[c].logical \/ w.casts[c].stage \in {"recovering", "complete", "cancelled"}
<1>1. PICK quit : quit = CancelPhaseTasks(w, c)
  OBVIOUS
<1>2. PICK next : next = [quit EXCEPT !.casts[c].token = @ + 1]
  OBVIOUS
<1>3. Calm(w, quit, c)
  BY <1>1, CancelTasksCalm
<1>4. Sound(quit) /\ c \in DOMAIN quit.casts
  BY <1>3 DEF Calm, Keeps, Does
<1>5. Calm(quit, next, c)
  BY ONLY <1>2, <1>4, EditToken
<1>6. Calm(w, next, c)
  BY <1>3, <1>5, ThenCalm
<1>7. Sound(next) /\ c \in DOMAIN next.casts
  BY <1>6 DEF Calm, Keeps, Does
<1>8. v = IF no THEN Bad(w)
          ELSE IF d.mode = "charge"
               THEN IF w.casts[c].age < d.minCharge
                    THEN CancelledAs(CancelPhaseTasks(DropSlot(w, c), c), c)
                    ELSE PrepareWindow([next EXCEPT !.casts[c].status = "running"], c, "release", x)
          ELSE IF d.mode \in {"hold", "toggle"}
               THEN ExecuteCastEvent(StartCooldown(DropSlot(next, c), c), c, x.release, x)
          ELSE Bad(w)
  BY <1>1, <1>2 DEF ReleaseCast
<1> HIDE DEF no, d
<1>9. CASE no \/ d.mode \notin {"charge", "hold", "toggle"}
  <2>1. v = Bad(w)
    BY <1>8, <1>9
  <2> QED BY <2>1, BadKeeps, KeepsHandles
<1>10. CASE ~no /\ d.mode = "charge" /\ w.casts[c].age < d.minCharge
  <2>1. PICK u : u = DropSlot(w, c)
    OBVIOUS
  <2>2. PICK z : z = CancelPhaseTasks(u, c)
    OBVIOUS
  <2>3. v = CancelledAs(z, c)
    BY <1>8, <1>10, <2>1, <2>2
  <2>4. Calm(w, u, c)
    BY <2>1, DropSlotCalm
  <2>5. Calm(u, z, c)
    BY <2>2, <2>4, CancelTasksCalm DEF Calm, Keeps, Does
  <2>6. Calm(w, z, c)
    BY <2>4, <2>5, ThenCalm
  <2>7. Does(z, v, c) /\ v.err = z.err
    BY <2>3, <2>6, CancelledAsDoes DEF Calm, Keeps, Does
  <2>8. Handles(z, v, c)
    BY <2>7, KeepsHandles
  <2> QED BY <2>6, <2>8, ThenHandles DEF Calm
<1>11. CASE ~no /\ d.mode = "charge" /\ ~(w.casts[c].age < d.minCharge)
  <2>1. PICK u : u = [next EXCEPT !.casts[c].status = "running"]
    OBVIOUS
  <2>2. PICK root \in {"enter", "release"} : root = "release"
    OBVIOUS
  <2>3. v = PrepareWindow(u, c, root, x)
    BY <1>8, <1>11, <2>1, <2>2
  <2>4. Calm(next, u, c)
    BY ONLY <1>7, <2>1, RunningCalm
  <2>5. Calm(w, u, c)
    BY <1>6, <2>4, ThenCalm
  <2>6. Sound(u) /\ c \in DOMAIN u.casts
    BY <2>5 DEF Calm, Keeps, Does
  <2>7. Handles(u, v, c)
    BY ONLY <2>3, <2>6, IsLot(x), root \in {"enter", "release"}, PrepareWindowHandles
  <2> QED BY <2>5, <2>7, ThenHandles DEF Calm
<1>12. CASE ~no /\ d.mode \in {"hold", "toggle"}
  <2>1. PICK u : u = DropSlot(next, c)
    OBVIOUS
  <2>2. PICK z : z = StartCooldown(u, c)
    OBVIOUS
  <2>3. PICK o \in Outcome : o = x.release
    BY DEF IsLot
  <2>4. v = ExecuteCastEvent(z, c, o, x)
    BY <1>8, <1>12, <2>1, <2>2, <2>3
  <2>5. Calm(next, u, c)
    BY <1>7, <2>1, DropSlotCalm
  <2>6. Calm(u, z, c)
    BY <2>2, <2>5, StartCooldownCalm DEF Calm, Keeps, Does
  <2>7. Calm(w, z, c)
    BY <1>6, <2>5, <2>6, ThenCalm
  <2>8. Sound(z) /\ c \in DOMAIN z.casts
    BY <2>7 DEF Calm, Keeps, Does
  <2>9. Handles(z, v, c)
    BY ONLY <2>4, <2>8, IsLot(x), o \in Outcome, ExecuteCastEventHandles
  <2> QED BY <2>7, <2>9, ThenHandles DEF Calm
<1> QED BY <1>9, <1>10, <1>11, <1>12

(* A pulse runs, releases the cast for want of resources, or fails. *)
LEMMA ExecutePulseHandles ==
    ASSUME NEW w, NEW c, Sound(w), c \in DOMAIN w.casts, NEW x, IsLot(x),
           NEW v, v = ExecutePulse(w, c, x)
    PROVE  Handles(w, v, c)
<1> DEFINE d == DefOf(w, c)
           acts == w.casts[c].phase = 1
           more == d.pulse < d.maxTicks - w.casts[c].age
<1>0. d.pulse \in Nat
  BY DefinitionOf DEF Definition
<1>1. PICK due \in Nat : due = d.pulse
  BY <1>0
<1>2. PICK o \in Outcome : o = x.pulse
  BY DEF IsLot
<1>3. PICK u : u = IF acts THEN Forked(w, c, o) ELSE w
  OBVIOUS
<1>4. PICK again : again = IF more THEN Schedule(u, c, due, "pulse", "") ELSE u
  OBVIOUS
<1>5. v = IF ~w.casts[c].policy THEN w
          ELSE IF d.sustain /\ ~x.pay THEN ReleaseCast(w, c, x)
          ELSE IF acts /\ o.then = "error" THEN Bad(u)
          ELSE IF acts /\ o.then # "through" THEN ResolveControl(u, c, o.then, x)
          ELSE [again EXCEPT !.casts[c].status = "suspended"]
  BY <1>1, <1>2, <1>3, <1>4 DEF ExecutePulse
<1> HIDE DEF d, acts, more
<1>6. Calm(w, u, c)
  <2>1. CASE acts
    <3>1. u = Forked(w, c, o)
      BY <1>3, <2>1
    <3> QED BY <3>1, ForkedCalm
  <2>2. CASE ~acts
    <3>1. u = w
      BY <1>3, <2>2
    <3> QED BY <3>1, NoStep DEF Calm
  <2> QED BY <2>1, <2>2
<1>7. Sound(u) /\ c \in DOMAIN u.casts
  BY <1>6 DEF Calm, Keeps, Does
<1>8. Calm(u, again, c)
  <2>1. CASE more
    <3>1. PICK kind \in CastKinds : kind = "pulse"
      BY DEF CastKinds
    <3>2. PICK what \in Words : what = ""
      BY DEF Words
    <3>3. again = Schedule(u, c, due, kind, what)
      BY <1>4, <2>1, <3>1, <3>2
    <3> QED BY ONLY <1>7, <3>3, due \in Nat, kind \in CastKinds, what \in Words, ScheduleCalm
  <2>2. CASE ~more
    <3>1. again = u
      BY <1>4, <2>2
    <3> QED BY <1>7, <3>1, NoStep DEF Calm
  <2> QED BY <2>1, <2>2
<1>9. Sound(again) /\ c \in DOMAIN again.casts
  BY <1>8 DEF Calm, Keeps, Does
<1>10. CASE ~w.casts[c].policy
  <2>1. v = w
    BY <1>5, <1>10
  <2> QED BY <2>1, NoStep, KeepsHandles
<1>11. CASE w.casts[c].policy /\ d.sustain /\ ~x.pay
  <2>1. v = ReleaseCast(w, c, x)
    BY <1>5, <1>11
  <2> QED BY <2>1, ReleaseCastHandles
<1>12. CASE w.casts[c].policy /\ ~(d.sustain /\ ~x.pay) /\ acts /\ o.then = "error"
  <2>1. v = Bad(u)
    BY <1>5, <1>12
  <2>2. Handles(u, v, c)
    BY <1>7, <2>1, BadKeeps, KeepsHandles
  <2> QED BY <1>6, <2>2, ThenHandles DEF Calm
<1>13. CASE w.casts[c].policy /\ ~(d.sustain /\ ~x.pay) /\ acts /\ o.then # "error" /\ o.then # "through"
  <2>1. PICK control \in Control : control = o.then
    BY DEF Outcome
  <2>2. v = ResolveControl(u, c, control, x)
    BY <1>5, <1>13, <2>1
  <2>3. Handles(u, v, c)
    BY ONLY <1>7, <2>2, IsLot(x), control \in Control, ResolveControlHandles
  <2> QED BY <1>6, <2>3, ThenHandles DEF Calm
<1>14. CASE w.casts[c].policy /\ ~(d.sustain /\ ~x.pay) /\ (~acts \/ o.then = "through")
  <2>1. v = [again EXCEPT !.casts[c].status = "suspended"]
    BY <1>5, <1>14
  <2>2. Calm(again, v, c)
    BY ONLY <1>9, <2>1, SuspendedCalm
  <2>3. Calm(w, v, c)
    BY <1>6, <1>8, <2>2, ThenCalm
  <2> QED BY <2>3, KeepsHandles DEF Calm
<1> QED BY <1>10, <1>11, <1>12, <1>13, <1>14

(* The end of a policy that nobody released. *)
LEMMA ExecuteAutoReleaseHandles ==
    ASSUME NEW w, NEW c, Sound(w), c \in DOMAIN w.casts, NEW x, IsLot(x), NEW reason,
           NEW v, v = ExecuteAutoRelease(w, c, reason, x)
    PROVE  Handles(w, v, c)
<1> DEFINE quits == Mode(w, c) = "charge" /\ reason = "cancelled"
<1>1. v = IF ~w.casts[c].policy THEN w
          ELSE IF quits THEN CancelledAs(DropSlot(w, c), c) ELSE ReleaseCast(w, c, x)
  BY DEF ExecuteAutoRelease
<1> HIDE DEF quits
<1>2. CASE ~w.casts[c].policy
  <2>1. v = w
    BY <1>1, <1>2
  <2> QED BY <2>1, NoStep, KeepsHandles
<1>3. CASE w.casts[c].policy /\ quits
  <2>1. PICK u : u = DropSlot(w, c)
    OBVIOUS
  <2>2. v = CancelledAs(u, c)
    BY <1>1, <1>3, <2>1
  <2>3. Calm(w, u, c)
    BY <2>1, DropSlotCalm
  <2>4. Does(u, v, c) /\ v.err = u.err
    BY <2>2, <2>3, CancelledAsDoes DEF Calm, Keeps, Does
  <2>5. Handles(u, v, c)
    BY <2>4, KeepsHandles
  <2> QED BY <2>3, <2>5, ThenHandles DEF Calm
<1>4. CASE w.casts[c].policy /\ ~quits
  <2>1. v = ReleaseCast(w, c, x)
    BY <1>1, <1>4
  <2> QED BY <2>1, ReleaseCastHandles
<1> QED BY <1>2, <1>3, <1>4

(* The slot is left, if the cast holds it. *)
LEMMA LeaveSlotCalm ==
    ASSUME NEW w, NEW c, Sound(w), c \in DOMAIN w.casts,
           NEW u, u = [w EXCEPT !.casts[c].policy = FALSE,
                                !.policies[w.casts[c].prog] = IF w.casts[c].policy /\ @ = c THEN 0 ELSE @]
    PROVE  Calm(w, u, c)
<1> DEFINE p == w.casts[c].prog
           own == w.casts[c].policy /\ w.policies[p] = c
           r == [w.casts[c] EXCEPT !.policy = FALSE]
<1>1. u = [w EXCEPT !.casts[c].policy = FALSE,
                    !.policies[p] = IF w.casts[c].policy /\ @ = c THEN 0 ELSE @]
  OBVIOUS
<1>2. IsWorld(w) /\ w.casts[c] \in CastRecord /\ p \in Program /\ SlotsAgree(w)
  BY DEF Sound, CastsTyped, CastRecord
<1>3. CASE own
  <2>1. u = DropSlot(w, c)
    BY <1>1, <1>3 DEF DropSlot
  <2> QED BY <2>1, DropSlotCalm
<1>4. CASE ~own
  <2>1. IsWorld(u)
    BY ONLY <1>1, <1>2 DEF IsWorld
  <2>2. SameTables(w, u) /\ u.err = w.err /\ u.cooldowns = w.cooldowns
    BY ONLY <1>1, <1>2 DEF IsWorld, SameTables
  <2>3. u.policies = [w.policies EXCEPT ![p] = IF w.casts[c].policy /\ @ = c THEN 0 ELSE @]
    BY ONLY <1>1, <1>2 DEF IsWorld
  <2>4. u.policies = w.policies
    BY ONLY <1>2, <1>4, <2>3 DEF SlotsAgree
  <2>5. u.casts = [w.casts EXCEPT ![c] = r]
    BY ONLY <1>1, <1>2 DEF IsWorld
  <2>6. r \in CastRecord /\ LikeCast(w.casts[c], r)
    BY ONLY <1>2 DEF LikeCast, CastRecord
  <2>7. \A q \in Program : w.policies[q] # c
    BY <1>2, <1>4 DEF SlotsAgree, Sound, CastsTyped
  <2> HIDE DEF r, p, own
  <2>8. /\ DOMAIN u.casts = DOMAIN w.casts /\ u.casts[c] = r
        /\ \A d \in DOMAIN w.casts \ {c} : u.casts[d] = w.casts[d]
    BY <2>5
  <2>9. Edited(w, u, c)
    <3>1. u.cooldowns \in [Program \cup {Gcd} -> Nat] /\ u.err \in BOOLEAN
      BY <2>2 DEF Sound
    <3> QED BY ONLY <2>1, <2>2, <2>6, <2>8, <3>1 DEF Edited, LikeCast, SameTables
  <2>10. SlotsAgree(u)
    BY ONLY <1>2, <2>4, <2>7, <2>8 DEF SlotsAgree
  <2>11. Keeps(w, u, c)
    BY <2>9, <2>10, Editing
  <2> QED BY <2>2, <2>11 DEF Calm
<1> QED BY <1>3, <1>4

(* The slot of a cast that ends early is cleared if the cast owns it: no    *)
(* slot names it afterwards.                                                *)
LEMMA EndedEarlyDoes ==
    ASSUME NEW w, NEW c, Sound(w), c \in DOMAIN w.casts, NEW v, v = EndedEarly(w, c)
    PROVE  Does(w, v, c) /\ v.err = w.err
<1>1. PICK u : u = [w EXCEPT !.casts[c].policy = FALSE,
                             !.policies[w.casts[c].prog] = IF w.casts[c].policy /\ @ = c THEN 0 ELSE @]
  OBVIOUS
<1>2. v = CancelledAs(u, c)
  BY <1>1 DEF EndedEarly
<1>3. Calm(w, u, c)
  BY <1>1, LeaveSlotCalm
<1>4. Does(u, v, c) /\ v.err = u.err
  BY <1>2, <1>3, CancelledAsDoes DEF Calm, Keeps, Does
<1> QED BY <1>3, <1>4, Then DEF Calm

-----------------------------------------------------------------------------
(* A start that fails *)

(* A phase of a young charge that fails, and forked nothing before it did,  *)
(* has scheduled nothing.                                                   *)
LEMMA EnterPhaseFails ==
    ASSUME NEW w, NEW c, Sound(w), c \in DOMAIN w.casts, ~w.err, Bare(w, c),
           Mode(w, c) = "charge", w.casts[c].age = 0,
           NEW o \in Outcome, o.fork => o.then \notin {"error", "goto"},
           NEW v, v = EnterPhase(w, c, o), v.err
    PROVE  Bare(v, c)
<1>1. PICK u : u = Forked(w, c, o)
  OBVIOUS
<1>2. Calm(w, u, c) /\ Held(w.casts[c], u.casts[c]) /\ (~o.fork => u = w)
  BY ONLY Sound(w), c \in DOMAIN w.casts, <1>1, ForkedCalm
<1>3. Sound(u) /\ c \in DOMAIN u.casts /\ ~u.err /\ u.casts[c].age = 0
  BY <1>2 DEF Calm, Keeps, Does, Held
<1>4. Mode(u, c) = "charge"
  BY <1>2 DEF Calm, Keeps, Does, Only, Mode, DefOf
<1>5. o.then \in {"finish", "goto", "wait", "through", "error"}
  BY DEF Outcome, Control
<1>6. CASE o.then = "finish"
  <2>1. v = BeginRecovery(u, c)
    BY <1>1, <1>6 DEF EnterPhase
  <2> QED BY <1>3, <2>1, BeginRecoveryHandles
<1>7. CASE o.then = "wait"
  <2>1. v = Schedule(u, c, Wait, "flow", "tail")
    BY <1>1, <1>7 DEF EnterPhase
  <2>2. Calm(u, v, c)
    BY <1>3, <2>1, WaitCalm
  <2> QED BY <1>3, <2>2 DEF Calm
<1>8. CASE o.then = "through"
  <2>1. v = PolicyWait(u, c)
    BY <1>1, <1>8 DEF EnterPhase
  <2> QED BY <1>3, <1>4, <2>1, PolicyWaitKeeps
<1>9. CASE o.then \in {"error", "goto"}
  <2>1. u = w
    BY <1>2, <1>9
  <2>2. v = Bad(w)
    BY <1>1, <1>9, <2>1 DEF EnterPhase
  <2>3. v.casts = w.casts
    BY <2>2, BadKeeps
  <2> QED BY <2>3 DEF Bare
<1> QED BY <1>5, <1>6, <1>7, <1>8, <1>9

(* The enter flow of a charge that fails leaves no task behind. *)
LEMMA ExecuteCastFails ==
    ASSUME NEW w, NEW c, Sound(w), c \in DOMAIN w.casts, ~w.err, Bare(w, c),
           Mode(w, c) = "charge", w.casts[c].age = 0, w.casts[c].phase = 1,
           NEW x, IsLot(x), x.enter.fork => x.enter.then # "error",
           x.second.fork => x.second.then \notin {"error", "goto"},
           NEW v, v = ExecuteCast(w, c, x), v.err
    PROVE  Bare(v, c)
<1>1. PICK o \in Outcome : o = x.second
  BY DEF IsLot
<1>2. PICK e \in Outcome : e = x.enter
  BY DEF IsLot
<1>3. CASE e.then = "goto"
  <2>1. PICK u : u = Forked(w, c, e)
    OBVIOUS
  <2>2. PICK z : z = NextPhase(u, c)
    OBVIOUS
  <2>3. v = EnterPhase(z, c, o)
    BY <1>1, <1>2, <1>3, <2>1, <2>2 DEF ExecuteCast
  <2>4. /\ Calm(w, u, c) /\ Held(w.casts[c], u.casts[c])
        /\ \A t \in ToSet(u.tasks) \ ToSet(w.tasks) : t.token = w.casts[c].token
    BY ONLY Sound(w), c \in DOMAIN w.casts, <2>1, ForkedCalm
  <2>5. Sound(u) /\ c \in DOMAIN u.casts /\ ~u.err
    BY <2>4 DEF Calm, Keeps, Does
  <2>6. /\ Calm(u, z, c)
        /\ z.casts[c].age = u.casts[c].age /\ z.casts[c].policy = u.casts[c].policy
        /\ z.casts[c].done = u.casts[c].done
        /\ ToSet(z.tasks) = ToSet(u.tasks) \ PhaseOf(u, c)
    BY ONLY <2>2, <2>5, NextPhaseCalm
  <2>7. Calm(w, z, c)
    BY <2>4, <2>6, ThenCalm
  <2>8. Sound(z) /\ c \in DOMAIN z.casts /\ ~z.err
    BY <2>7 DEF Calm, Keeps, Does
  <2>9. Mode(z, c) = "charge"
    BY <2>7 DEF Calm, Keeps, Does, Only, Mode, DefOf
  <2>10. z.casts[c].age = 0 /\ ~z.casts[c].policy /\ ~z.casts[c].done
    BY <2>4, <2>6 DEF Held, Bare
  <2>11. z.casts[c].pending = 0
    <3>1. \A t \in ToSet(w.tasks) : t.id # c
      BY NoTasks DEF Bare
    <3>2. u.casts[c].token = w.casts[c].token
      BY <2>4 DEF Held
    <3>3. \A t \in ToSet(z.tasks) : t.id # c
      BY ONLY <2>4, <2>6, <3>1, <3>2 DEF PhaseOf
    <3> QED BY ONLY <2>8, <3>3, NoTasks
  <2>12. Bare(z, c)
    BY <2>8, <2>10, <2>11 DEF Bare
  <2>13. o.fork => o.then \notin {"error", "goto"}
    BY <1>1
  <2> QED BY ONLY <2>3, <2>8, <2>9, <2>10, <2>12, <2>13, o \in Outcome, v.err, EnterPhaseFails
<1>4. CASE e.then # "goto"
  <2>1. v = EnterPhase(w, c, e)
    BY <1>2, <1>4 DEF ExecuteCast
  <2>2. e.fork => e.then \notin {"error", "goto"}
    BY <1>2, <1>4
  <2> QED BY EnterPhaseFails, <2>1, <2>2
<1> QED BY <1>3, <1>4

(* A cast that fails before it commits, and has no task, no slot and no     *)
(* place among the completed ones, is deleted, and its id is free again.    *)
LEMMA StartedSound ==
    ASSUME NEW w, NEW c, Sound(w), w.err => c \in DOMAIN w.casts, w.nextCast = c,
           w.err /\ ~w.casts[c].committed => Bare(w, c),
           NEW v, v = Started(w, c)
    PROVE  /\ Sound(v)
           /\ \A d \in DOMAIN w.casts \ {c} : (d \in DOMAIN v.casts /\ v.casts[d] = w.casts[d]) \/ Ended(w.casts[d])
<1>1. CASE ~w.err
  <2>1. v = w
    BY <1>1 DEF Started
  <2> QED BY <2>1
<1>2. CASE w.err
  <2>1. PICK u : u = Failed(w, c)
    OBVIOUS
  <2>2. v = IF w.casts[c].committed THEN u ELSE Without(u, c)
    BY <1>2, <2>1 DEF Started
  <2>3. Does(w, u, c) /\ u.err = w.err
    BY <1>2, <2>1, FailedDoes
  <2>4. Sound(u) /\ Only(w, u, c)
    BY <2>3 DEF Does
  <2>5. CASE w.casts[c].committed
    BY <2>2, <2>4, <2>5 DEF Only
  <2>6. CASE ~w.casts[c].committed
    <3>1. v = Without(u, c)
      BY <2>2, <2>6
    <3>2. /\ c \in DOMAIN u.casts /\ u.casts[c].pending = 0 /\ ~u.casts[c].policy /\ u.casts[c].done
          /\ c \notin ToSet(u.completed)
      BY <1>2, <2>1, <2>6, FailedDoes
    <3>3. u.nextCast = c
      BY <2>4 DEF Only
    <3>4. /\ IsWorld(u) /\ CastsTyped(u) /\ HeapAgrees(u) /\ SlotsAgree(u) /\ AmmoAgrees(u) /\ DoneAgrees(u)
          /\ u.cooldowns \in [Program \cup {Gcd} -> Nat] /\ u.err \in BOOLEAN
      BY <2>4 DEF Sound
    <3>5. IsWorld(v)
      BY ONLY <3>1, <3>4 DEF IsWorld, Without
    <3>6. /\ v.tasks = u.tasks /\ v.cooldowns = u.cooldowns /\ v.policies = u.policies /\ v.ammo = u.ammo
          /\ v.active = u.active /\ v.completed = u.completed /\ v.err = u.err
          /\ v.nextCast = u.nextCast - 1
          /\ v.casts = [d \in DOMAIN u.casts \ {c} |-> u.casts[d]]
      BY ONLY <3>1, <3>4 DEF IsWorld, Without
    <3>7. DOMAIN v.casts = DOMAIN u.casts \ {c} /\ \A d \in DOMAIN v.casts : v.casts[d] = u.casts[d]
      BY <3>6
    <3>8. c \in Nat \ {0} /\ c <= MaxCasts /\ \A d \in DOMAIN u.casts : d \in 1 .. c
      BY <3>2, <3>3, <3>4, LimitsAreNumbers DEF CastsTyped
    <3>9. CastsTyped(v)
      <4>1. v.nextCast \in 0 .. MaxCasts
        BY <3>3, <3>6, <3>8, LimitsAreNumbers
      <4>2. DOMAIN v.casts \subseteq 1 .. v.nextCast
        BY <3>3, <3>6, <3>7, <3>8
      <4> QED BY <3>4, <3>7, <4>1, <4>2 DEF CastsTyped
    <3>10. HeapAgrees(v)
      <4>1. \A t \in ToSet(u.tasks) : t.id # c
        BY <2>4, <3>2, NoTasks
      <4> QED BY ONLY <3>4, <3>6, <3>7, <4>1 DEF HeapAgrees
    <3>11. SlotsAgree(v)
      BY ONLY <3>2, <3>4, <3>6, <3>7 DEF SlotsAgree
    <3>12. AmmoAgrees(v)
      BY ONLY <3>4, <3>6 DEF AmmoAgrees
    <3>13. DoneAgrees(v)
      <4>1. NotDone(v) = NotDone(u)
        BY <3>2, <3>7 DEF NotDone
      <4>2. ASSUME NEW d \in ToSet(v.completed)
            PROVE  d <= v.nextCast /\ (d \in DOMAIN v.casts => v.casts[d].done)
        <5>1. d \in ToSet(u.completed) /\ d # c
          BY <3>2, <3>6
        <5>2. d \in Nat /\ d <= u.nextCast /\ (d \in DOMAIN u.casts => u.casts[d].done)
          BY <3>4, <5>1 DEF DoneAgrees, ToSet
        <5> QED BY <3>3, <3>6, <3>7, <3>8, <5>1, <5>2
      <4> QED BY ONLY <3>4, <3>6, <4>1, <4>2 DEF DoneAgrees
    <3>14. Sound(v)
      BY <3>4, <3>5, <3>6, <3>9, <3>10, <3>11, <3>12, <3>13 DEF Sound
    <3> QED BY <2>4, <3>7, <3>14 DEF Only
  <2> QED BY <2>5, <2>6
<1> QED BY <1>1, <1>2

-----------------------------------------------------------------------------
(* The actions *)

(* The tables of the runtime are those of the world a call leaves. *)
LEMMA Becoming ==
    ASSUME NEW w, Sound(w), Becomes(w)
    PROVE  Sound(World)'
<1>1. IsWorld(w) /\ CastsTyped(w) /\ HeapAgrees(w) /\ SlotsAgree(w) /\ AmmoAgrees(w) /\ DoneAgrees(w)
      /\ w.cooldowns \in [Program \cup {Gcd} -> Nat]
  BY DEF Sound
<1>2. PICK u : u = World'
  OBVIOUS
<1>3. /\ u.casts = w.casts /\ u.tasks = w.tasks /\ u.cooldowns = w.cooldowns /\ u.policies = w.policies
      /\ u.ammo = w.ammo /\ u.nextCast = w.nextCast /\ u.active = w.active /\ u.completed = w.completed
      /\ u.err = FALSE
  BY <1>2 DEF World, Becomes
<1>4. IsWorld(u)
  BY <1>2 DEF World, IsWorld
<1>5. CastsTyped(u)
  BY ONLY <1>1, <1>3 DEF CastsTyped
<1>6. HeapAgrees(u)
  BY ONLY <1>1, <1>3 DEF HeapAgrees
<1>7. SlotsAgree(u)
  BY ONLY <1>1, <1>3 DEF SlotsAgree
<1>8. AmmoAgrees(u)
  BY ONLY <1>1, <1>3 DEF AmmoAgrees
<1>9. DoneAgrees(u)
  <2>1. NotDone(u) = NotDone(w)
    BY <1>3 DEF NotDone
  <2> QED BY ONLY <1>1, <1>3, <2>1 DEF DoneAgrees
<1>10. Sound(u)
  BY <1>1, <1>3, <1>4, <1>5, <1>6, <1>7, <1>8, <1>9 DEF Sound
<1>11. Sound(World')
  BY <1>2, <1>10
<1> QED BY <1>11

(* Who is refused is live. *)
LEMMA LiveAfter ==
    ASSUME NEW w, Becomes(w)
    PROVE  \A d : LiveIn(w, d) => LiveIn(World, d)'
<1>1. World'.casts = w.casts
  BY DEF World, Becomes
<1> QED BY <1>1 DEF LiveIn

(* A public call keeps the invariant if it leaves a sound world. *)
LEMMA Returning ==
    ASSUME IInv, NEW w, NEW c, Sound(w), Returns(w, c)
    PROVE  IInv'
<1>1. Becomes(w) /\ aborted' = aborted /\ \A d \in refused' : LiveIn(w, d)
  BY DEF Returns
<1>2. Sound(World)'
  BY <1>1, Becoming
<1>3. \A d \in refused' : LiveIn(World, d)'
  BY <1>1, LiveAfter
<1> QED BY <1>1, <1>2, <1>3 DEF IInv

(* So does a task. *)
LEMMA Advancing ==
    ASSUME NEW w, NEW c, Sound(w), Advanced(w, c)
    PROVE  IInv'
<1>1. Becomes(w) /\ aborted' = w.err /\ \A d \in refused' : LiveIn(w, d)
  BY DEF Advanced
<1>2. Sound(World)'
  BY <1>1, Becoming
<1>3. \A d \in refused' : LiveIn(World, d)'
  BY <1>1, LiveAfter
<1>4. aborted' \in BOOLEAN
  BY <1>1 DEF Sound
<1> QED BY <1>2, <1>3, <1>4 DEF IInv

(* A handler's world is sound after any of its outcomes. *)
LEMMA SoundAfter ==
    ASSUME NEW w, NEW v, NEW c, Handles(w, v, c) \/ Keeps(w, v, c) \/ Calm(w, v, c) \/ Does(w, v, c)
    PROVE  Sound(v)
BY DEF Handles, Keeps, Calm, Does

(* An error is returned of any world. *)
LEMMA BadSound ==
    ASSUME NEW w, Sound(w), NEW v, v = Bad(w)
    PROVE  Sound(v)
<1>1. IsWorld(w) /\ CastsTyped(w) /\ HeapAgrees(w) /\ SlotsAgree(w) /\ AmmoAgrees(w) /\ DoneAgrees(w)
      /\ w.cooldowns \in [Program \cup {Gcd} -> Nat]
  BY DEF Sound
<1>2. /\ v.casts = w.casts /\ v.tasks = w.tasks /\ v.cooldowns = w.cooldowns /\ v.policies = w.policies
      /\ v.ammo = w.ammo /\ v.nextCast = w.nextCast /\ v.active = w.active /\ v.completed = w.completed
      /\ v.err = TRUE /\ IsWorld(v)
  BY ONLY <1>1, v = Bad(w) DEF Bad, IsWorld
<1>3. NotDone(v) = NotDone(w)
  BY <1>2 DEF NotDone
<1>4. CastsTyped(v)
  BY ONLY <1>1, <1>2 DEF CastsTyped
<1>5. HeapAgrees(v)
  BY ONLY <1>1, <1>2 DEF HeapAgrees
<1>6. SlotsAgree(v)
  BY ONLY <1>1, <1>2 DEF SlotsAgree
<1>7. AmmoAgrees(v)
  BY ONLY <1>1, <1>2 DEF AmmoAgrees
<1>8. DoneAgrees(v)
  BY ONLY <1>1, <1>2, <1>3 DEF DoneAgrees
<1> QED BY <1>1, <1>2, <1>4, <1>5, <1>6, <1>7, <1>8 DEF Sound

(* What is known of the world a call or a task begins in. *)
LEMMA AtWorld ==
    ASSUME IInv
    PROVE  /\ Sound(World) /\ World.casts = casts /\ ~World.err
           /\ \A c \in DOMAIN casts : casts[c].prog \in Program
BY DEF IInv, World, Sound, CastsTyped, CastRecord

(* Release keeps the invariant. *)
LEMMA ReleaseStep ==
    ASSUME IInv, NEW c \in DOMAIN casts, Release(c)
    PROVE  IInv'
<1>1. PICK x \in Lots(casts[c].prog, {"release", "second"}) : Returns(ReleaseCast(World, c, x), c)
  BY DEF Release
<1>2. IsLot(x)
  BY AtWorld, LotsTyped
<1>3. PICK w : w = World
  OBVIOUS
<1>4. PICK v : v = ReleaseCast(w, c, x)
  OBVIOUS
<1>5. Sound(w) /\ c \in DOMAIN w.casts
  BY <1>3, AtWorld
<1>6. Sound(v)
  BY <1>2, <1>4, <1>5, ReleaseCastHandles, SoundAfter
<1>7. Returns(v, c)
  BY <1>1, <1>3, <1>4
<1> QED BY <1>6, <1>7, Returning

(* A toggle that is on is switched off by Start. *)
LEMMA ToggleOffStep ==
    ASSUME IInv, NEW p \in Program, ToggleOff(p)
    PROVE  IInv'
<1>1. PICK c : c = policies[p]
  OBVIOUS
<1>2. c \in DOMAIN casts
  BY <1>1 DEF ToggleOff, HeldToggle
<1>3. PICK x \in Lots(p, {"release", "second"}) : Returns(ReleaseCast(World, c, x), c)
  BY <1>1 DEF ToggleOff
<1>4. IsLot(x)
  BY LotsTyped
<1>5. PICK w : w = World
  OBVIOUS
<1>6. PICK v : v = ReleaseCast(w, c, x)
  OBVIOUS
<1>7. Sound(w) /\ c \in DOMAIN w.casts
  BY <1>2, <1>5, AtWorld
<1>8. Sound(v)
  BY <1>4, <1>6, <1>7, ReleaseCastHandles, SoundAfter
<1>9. Returns(v, c)
  BY <1>3, <1>5, <1>6
<1> QED BY <1>8, <1>9, Returning

(* The phase tasks and the cooldown of a cast that is broken off. *)
LEMMA BrokenOffCalm ==
    ASSUME IInv, NEW c \in DOMAIN casts, NEW w, w = World, NEW v, v = BrokenOff(c)
    PROVE  Calm(w, v, c)
<1>1. Sound(w) /\ c \in DOMAIN w.casts
  BY AtWorld
<1>2. PICK u : u = CancelPhaseTasks(w, c)
  OBVIOUS
<1>3. PICK z : z = [u EXCEPT !.casts[c].token = @ + 1]
  OBVIOUS
<1>4. v = IF casts[c].committed /\ Mode(w, c) \in {"hold", "toggle"} THEN StartCooldown(z, c) ELSE z
  BY <1>2, <1>3 DEF BrokenOff
<1>5. Calm(w, u, c)
  BY <1>1, <1>2, CancelTasksCalm
<1>6. Sound(u) /\ c \in DOMAIN u.casts
  BY <1>5 DEF Calm, Keeps, Does
<1>7. Calm(u, z, c)
  BY ONLY <1>3, <1>6, EditToken
<1>8. Calm(w, z, c)
  BY <1>1, <1>5, <1>7, ThenCalm
<1>9. Sound(z) /\ c \in DOMAIN z.casts
  BY <1>8 DEF Calm, Keeps, Does
<1>10. CASE v = z
  BY <1>8, <1>10
<1>11. CASE v = StartCooldown(z, c)
  <2>1. Calm(z, v, c)
    BY ONLY <1>9, <1>11, StartCooldownCalm
  <2> QED BY <1>1, <1>8, <2>1, ThenCalm
<1> QED BY <1>4, <1>10, <1>11

(* Interrupt keeps the invariant. *)
LEMMA InterruptStep ==
    ASSUME IInv, NEW c \in DOMAIN casts, Interrupt(c)
    PROVE  IInv'
<1>1. PICK w : w = World
  OBVIOUS
<1>2. PICK u : u = BrokenOff(c)
  OBVIOUS
<1>3. PICK v : v = EndedEarly(u, c)
  OBVIOUS
<1>4. Sound(u) /\ c \in DOMAIN u.casts
  BY <1>1, <1>2, BrokenOffCalm DEF Calm, Keeps, Does
<1>5. Sound(v)
  BY <1>3, <1>4, EndedEarlyDoes, SoundAfter
<1>6. Returns(v, c)
  BY <1>2, <1>3 DEF Interrupt
<1> QED BY <1>5, <1>6, Returning

(* Cancel keeps the invariant, also when its flow fails. *)
LEMMA CancelStep ==
    ASSUME IInv, NEW c \in DOMAIN casts, Cancel(c)
    PROVE  IInv'
<1>1. PICK x \in Lots(casts[c].prog, {"cancel"}) :
        Returns(IF x.cancel.then = "error" THEN Bad(Forked(BrokenOff(c), c, x.cancel))
                ELSE EndedEarly(Forked(BrokenOff(c), c, x.cancel), c), c)
  BY DEF Cancel
<1>2. PICK w : w = World
  OBVIOUS
<1>3. PICK u : u = BrokenOff(c)
  OBVIOUS
<1>4. PICK z : z = Forked(u, c, x.cancel)
  OBVIOUS
<1>5. PICK v : v = IF x.cancel.then = "error" THEN Bad(z) ELSE EndedEarly(z, c)
  OBVIOUS
<1>6. Sound(u) /\ c \in DOMAIN u.casts
  BY <1>2, <1>3, BrokenOffCalm DEF Calm, Keeps, Does
<1>7. Sound(z) /\ c \in DOMAIN z.casts
  BY <1>4, <1>6, ForkedCalm DEF Calm, Keeps, Does
<1>8. Sound(v)
  <2>1. CASE v = Bad(z)
    BY <1>7, <2>1, BadSound
  <2>2. CASE v = EndedEarly(z, c)
    BY <1>7, <2>2, EndedEarlyDoes, SoundAfter
  <2> QED BY <1>5, <2>1, <2>2
<1>9. Returns(v, c)
  BY <1>1, <1>3, <1>4, <1>5
<1> QED BY <1>8, <1>9, Returning

(* Input keeps the invariant. *)
LEMMA InputStep ==
    ASSUME IInv, NEW c \in DOMAIN casts, Input(c)
    PROVE  IInv'
<1>1. PICK x \in Lots(casts[c].prog, {"input", "second"}) : Returns(ExecuteCastEvent(World, c, x.input, x), c)
  BY DEF Input
<1>2. IsLot(x)
  BY AtWorld, LotsTyped
<1>3. PICK w : w = World
  OBVIOUS
<1>4. PICK o \in Outcome : o = x.input
  BY <1>2 DEF IsLot
<1>5. PICK v : v = ExecuteCastEvent(w, c, o, x)
  OBVIOUS
<1>6. Sound(w) /\ c \in DOMAIN w.casts
  BY <1>3, AtWorld
<1>7. Handles(w, v, c)
  BY ONLY <1>2, <1>5, <1>6, o \in Outcome, ExecuteCastEventHandles
<1>8. Sound(v)
  BY <1>7, SoundAfter
<1>9. Returns(v, c)
  BY <1>1, <1>3, <1>4, <1>5
<1> QED BY <1>8, <1>9, Returning

(* A task that is run leaves the heap, and its cast counts one less. *)
LEMMA TakenSound ==
    ASSUME IInv, Due, First.kind # "recharge", NEW c, c = First.id, NEW v, v = Taken(c)
    PROVE  c \in DOMAIN casts /\ Sound(v) /\ c \in DOMAIN v.casts /\ v.casts[c].prog = casts[c].prog
<1> DEFINE t == tasks[1]
           ts == Tail(tasks)
           n == IF casts[c].pending > 0 THEN casts[c].pending - 1 ELSE 0
           r == [casts[c] EXCEPT !.pending = n]
<1>1. PICK w : w = World
  OBVIOUS
<1>2. Sound(w)
  BY <1>1, AtWorld
<1>3. IsWorld(w) /\ CastsTyped(w) /\ HeapAgrees(w) /\ SlotsAgree(w) /\ AmmoAgrees(w) /\ DoneAgrees(w)
      /\ w.cooldowns \in [Program \cup {Gcd} -> Nat] /\ w.err \in BOOLEAN
  BY <1>2 DEF Sound
<1>4. w.casts = casts /\ w.tasks = tasks
  BY <1>1 DEF World
<1>5. Heap(tasks) /\ tasks # <<>>
  BY <1>3, <1>4 DEF HeapAgrees, Due
<1>6. /\ Heap(ts) /\ t \in Tasks /\ ToSet(tasks) = ToSet(ts) \cup {t}
      /\ \A S : Tally(tasks, S) = IF t \in S THEN Tally(ts, S) + 1 ELSE Tally(ts, S)
  BY <1>5, PoppedTally
<1>7. t.kind # "recharge" /\ t.id = c
  BY DEF First
<1>8. v = [w EXCEPT !.tasks = Tail(@), !.casts[c].pending = IF @ > 0 THEN @ - 1 ELSE 0]
  BY <1>1 DEF Taken, Popped
<1> HIDE DEF t
<1>9. c \in DOMAIN casts
  BY <1>3, <1>4, <1>6, <1>7 DEF HeapAgrees
<1>10. casts[c] \in CastRecord
  BY <1>3, <1>4, <1>9 DEF CastsTyped
<1>11. /\ v.tasks = ts /\ v.cooldowns = w.cooldowns /\ v.policies = w.policies /\ v.ammo = w.ammo
       /\ v.nextCast = w.nextCast /\ v.active = w.active /\ v.completed = w.completed /\ v.err = w.err
  BY ONLY <1>3, <1>4, <1>8 DEF IsWorld
<1>12. v.casts = [w.casts EXCEPT ![c] = r]
  BY ONLY <1>3, <1>4, <1>8 DEF IsWorld
<1>13. IsWorld(v)
  BY ONLY <1>3, <1>8 DEF IsWorld
<1>14. n = Tally(ts, OfCast(c)) /\ n \in Nat
  <2>1. casts[c].pending = Tally(tasks, OfCast(c))
    BY <1>3, <1>4, <1>9 DEF HeapAgrees
  <2>2. t \in OfCast(c)
    BY <1>6, <1>7 DEF OfCast
  <2>3. Tally(ts, OfCast(c)) \in Nat
    BY <1>6, PlacesFinite DEF Heap
  <2>4. Tally(tasks, OfCast(c)) = Tally(ts, OfCast(c)) + 1
    BY <1>6, <2>2
  <2> HIDE DEF ts
  <2> QED BY ONLY <2>1, <2>3, <2>4
<1> HIDE DEF n
<1>15. /\ r \in CastRecord /\ r.pending = n
       /\ r.prog = casts[c].prog /\ r.done = casts[c].done /\ r.policy = casts[c].policy
  BY ONLY <1>10, <1>14 DEF CastRecord
<1> HIDE DEF r, ts
<1>16. DOMAIN v.casts = DOMAIN w.casts /\ v.casts[c] = r /\ \A d \in DOMAIN w.casts \ {c} : v.casts[d] = w.casts[d]
  BY <1>4, <1>9, <1>12
<1>17. CastsTyped(v)
  BY ONLY <1>3, <1>11, <1>15, <1>16 DEF CastsTyped
<1>18. HeapAgrees(v)
  <2>1. \A u \in ToSet(v.tasks) : u.kind # "recharge" => u.id \in DOMAIN v.casts
    BY ONLY <1>3, <1>4, <1>6, <1>11, <1>16 DEF HeapAgrees
  <2>2. ASSUME NEW d \in DOMAIN w.casts \ {c}
        PROVE  v.casts[d].pending = Tally(v.tasks, OfCast(d))
    <3>1. t \notin OfCast(d)
      BY <1>7 DEF OfCast
    <3>2. w.casts[d].pending = Tally(tasks, OfCast(d))
      BY <1>3, <1>4 DEF HeapAgrees
    <3> QED BY ONLY <1>6, <1>11, <1>16, <3>1, <3>2, d \in DOMAIN w.casts \ {c}
  <2>3. v.casts[c].pending = Tally(v.tasks, OfCast(c))
    BY ONLY <1>11, <1>14, <1>15, <1>16
  <2> QED BY ONLY <1>6, <1>11, <1>16, <2>1, <2>2, <2>3 DEF HeapAgrees
<1>19. SlotsAgree(v)
  <2>1. \A d \in DOMAIN w.casts : v.casts[d].prog = w.casts[d].prog /\ v.casts[d].policy = w.casts[d].policy
    BY ONLY <1>4, <1>15, <1>16
  <2> QED BY ONLY <1>3, <1>11, <1>16, <2>1 DEF SlotsAgree
<1>20. AmmoAgrees(v)
  <2>1. \A p : t \notin OfSkill(p)
    BY <1>7 DEF OfSkill
  <2>2. \A p : Tally(v.tasks, OfSkill(p)) = Tally(w.tasks, OfSkill(p))
    BY ONLY <1>4, <1>6, <1>11, <2>1
  <2>3. ToSet(v.tasks) \subseteq ToSet(w.tasks)
    BY ONLY <1>4, <1>6, <1>11
  <2> QED BY ONLY <1>3, <1>11, <2>2, <2>3 DEF AmmoAgrees
<1>21. DoneAgrees(v)
  <2>1. \A d \in DOMAIN w.casts : v.casts[d].done = w.casts[d].done
    BY ONLY <1>4, <1>15, <1>16
  <2>2. NotDone(v) = NotDone(w)
    BY <1>16, <2>1 DEF NotDone
  <2> QED BY ONLY <1>3, <1>11, <1>16, <2>1, <2>2 DEF DoneAgrees
<1>22. Sound(v)
  BY ONLY <1>3, <1>11, <1>13, <1>17, <1>18, <1>19, <1>20, <1>21 DEF Sound
<1> QED BY <1>4, <1>9, <1>15, <1>16, <1>22

(* A task that is stale is only counted, and the last one ends a cast that *)
(* has finished.                                                            *)
LEMMA StaleStep ==
    ASSUME IInv, RunStale
    PROVE  IInv'
<1>1. PICK c : c = First.id
  OBVIOUS
<1>2. PICK w : w = Taken(c)
  OBVIOUS
<1>3. Due /\ First.kind # "recharge"
  BY DEF RunStale
<1>4. c \in DOMAIN casts /\ Sound(w) /\ c \in DOMAIN w.casts
  BY <1>1, <1>2, <1>3, TakenSound
<1>5. PICK v : v = IF w.casts[c].pending = 0 /\ w.casts[c].logical /\ w.casts[c].status # "failed"
                   THEN BeginRecovery(w, c) ELSE w
  OBVIOUS
<1>6. Advanced(v, c)
  BY <1>1, <1>2, <1>4, <1>5 DEF RunStale
<1>7. Sound(v)
  <2>1. CASE v = w
    BY <1>4, <2>1
  <2>2. CASE v = BeginRecovery(w, c)
    BY <1>4, <2>2, BeginRecoveryHandles, SoundAfter
  <2> QED BY <1>5, <2>1, <2>2
<1> QED BY <1>6, <1>7, Advancing

(* A task that runs is of a cast that is kept. *)
LEMMA Running ==
    ASSUME IInv, NEW kind, kind # "recharge", Runs(kind), NEW c, c = First.id, NEW w, w = Taken(c)
    PROVE  Sound(w) /\ c \in DOMAIN w.casts /\ casts[c].prog \in Program
<1>1. Due /\ First.kind # "recharge"
  BY DEF Runs, HeadIs, First
<1>2. c \in DOMAIN casts /\ Sound(w) /\ c \in DOMAIN w.casts
  BY <1>1, TakenSound
<1> QED BY <1>2, AtWorld

(* An error of a task that fails its cast. *)
LEMMA Failing ==
    ASSUME IInv, NEW w, NEW v, NEW c, c \in DOMAIN w.casts, Sound(w),
           Handles(w, v, c), ~w.err, FailsOnError(v, c)
    PROVE  IInv'
<1>1. PICK u : u = IF v.err THEN FailScheduled(v, c) ELSE v
  OBVIOUS
<1>2. Advanced(u, c)
  BY <1>1 DEF FailsOnError
<1>3. Sound(v) /\ (v.err => c \in DOMAIN v.casts)
  BY DEF Handles, Does
<1>4. Sound(u)
  <2>1. CASE v.err
    <3>1. u = FailScheduled(v, c)
      BY <1>1, <2>1
    <3> QED BY <1>3, <2>1, <3>1, FailScheduledDoes, SoundAfter
  <2>2. CASE ~v.err
    BY <1>1, <1>3, <2>2
  <2> QED BY <2>1, <2>2
<1> QED BY <1>2, <1>4, Advancing

(* The popped world has no error yet. *)
LEMMA TakenCalm ==
    ASSUME NEW c
    PROVE  ~Taken(c).err
BY DEF Taken, Popped, World

(* The commit of a cast. *)
LEMMA CommitStep ==
    ASSUME IInv, RunCommit
    PROVE  IInv'
<1>1. PICK c : c = First.id
  OBVIOUS
<1>2. PICK w : w = Taken(c)
  OBVIOUS
<1>3. PICK pay \in BOOLEAN : FailsOnError(CommitCast(w, c, pay), c)
  BY <1>1, <1>2 DEF RunCommit
<1>4. Runs("commit") /\ "commit" # "recharge"
  BY DEF RunCommit
<1>5. Sound(w) /\ c \in DOMAIN w.casts
  BY <1>1, <1>2, <1>4, Running
<1>6. PICK v : v = CommitCast(w, c, pay)
  OBVIOUS
<1>7. Handles(w, v, c)
  <2>1. Keeps(w, v, c)
    BY ONLY <1>5, <1>6, CommitKeeps
  <2> QED BY <2>1, KeepsHandles
<1>8. ~w.err
  BY <1>2, TakenCalm
<1>9. FailsOnError(v, c)
  BY <1>3, <1>6
<1> QED BY <1>5, <1>7, <1>8, <1>9, Failing

(* The execution of a cast. *)
LEMMA ExecuteStep ==
    ASSUME IInv, RunExecute
    PROVE  IInv'
<1>1. PICK c : c = First.id
  OBVIOUS
<1>2. PICK w : w = Taken(c)
  OBVIOUS
<1>3. PICK es : es = {casts[c].root, "second"}
  OBVIOUS
<1>4. PICK x \in Lots(casts[c].prog, es) : FailsOnError(BeginExecution(w, c, x), c)
  BY <1>1, <1>2, <1>3 DEF RunExecute
<1>5. Runs("execute") /\ "execute" # "recharge"
  BY DEF RunExecute
<1>6. Sound(w) /\ c \in DOMAIN w.casts /\ casts[c].prog \in Program
  BY <1>1, <1>2, <1>5, Running
<1>7. IsLot(x)
  BY <1>6, LotsTyped
<1>8. PICK v : v = BeginExecution(w, c, x)
  OBVIOUS
<1>9. Handles(w, v, c)
  BY ONLY <1>6, <1>7, <1>8, BeginExecutionHandles
<1>10. ~w.err
  BY <1>2, TakenCalm
<1>11. FailsOnError(v, c)
  BY <1>4, <1>8
<1> QED BY <1>6, <1>9, <1>10, <1>11, Failing

(* A pulse of a cast. *)
LEMMA PulseStep ==
    ASSUME IInv, RunPulse
    PROVE  IInv'
<1>1. PICK c : c = First.id
  OBVIOUS
<1>2. PICK w : w = Taken(c)
  OBVIOUS
<1>3. PICK x \in Lots(casts[c].prog, {"pulse", "release", "second"}) : FailsOnError(ExecutePulse(w, c, x), c)
  BY <1>1, <1>2 DEF RunPulse
<1>4. Runs("pulse") /\ "pulse" # "recharge"
  BY DEF RunPulse
<1>5. Sound(w) /\ c \in DOMAIN w.casts /\ casts[c].prog \in Program
  BY <1>1, <1>2, <1>4, Running
<1>6. IsLot(x)
  BY <1>5, LotsTyped
<1>7. PICK v : v = ExecutePulse(w, c, x)
  OBVIOUS
<1>8. Handles(w, v, c)
  BY ONLY <1>5, <1>6, <1>7, ExecutePulseHandles
<1>9. ~w.err
  BY <1>2, TakenCalm
<1>10. FailsOnError(v, c)
  BY <1>3, <1>7
<1> QED BY <1>5, <1>8, <1>9, <1>10, Failing

(* The end of a policy that nobody released. *)
LEMMA AutoReleaseStep ==
    ASSUME IInv, RunAutoRelease
    PROVE  IInv'
<1>1. PICK c : c = First.id
  OBVIOUS
<1>2. PICK w : w = Taken(c)
  OBVIOUS
<1>3. PICK reason : reason = First.what
  OBVIOUS
<1>4. PICK x \in Lots(casts[c].prog, {"release", "second"}) : FailsOnError(ExecuteAutoRelease(w, c, reason, x), c)
  BY <1>1, <1>2, <1>3 DEF RunAutoRelease
<1>5. Runs("auto") /\ "auto" # "recharge"
  BY DEF RunAutoRelease
<1>6. Sound(w) /\ c \in DOMAIN w.casts /\ casts[c].prog \in Program
  BY <1>1, <1>2, <1>5, Running
<1>7. IsLot(x)
  BY <1>6, LotsTyped
<1>8. PICK v : v = ExecuteAutoRelease(w, c, reason, x)
  OBVIOUS
<1>9. Handles(w, v, c)
  BY ONLY <1>6, <1>7, <1>8, ExecuteAutoReleaseHandles
<1>10. ~w.err
  BY <1>2, TakenCalm
<1>11. FailsOnError(v, c)
  BY <1>4, <1>8
<1> QED BY <1>6, <1>9, <1>10, <1>11, Failing

(* The end of the recovery of a cast. *)
LEMMA RecoveryStep ==
    ASSUME IInv, RunRecovery
    PROVE  IInv'
<1>1. PICK c : c = First.id
  OBVIOUS
<1>2. PICK w : w = Taken(c)
  OBVIOUS
<1>3. PICK v : v = CompleteRecovery(w, c)
  OBVIOUS
<1>4. Runs("recovery") /\ "recovery" # "recharge"
  BY DEF RunRecovery
<1>5. Sound(w) /\ c \in DOMAIN w.casts
  BY <1>1, <1>2, <1>4, Running
<1>6. Sound(v)
  BY <1>3, <1>5, CompleteRecoveryHandles, SoundAfter
<1>7. Advanced(v, c)
  BY <1>1, <1>2, <1>3 DEF RunRecovery
<1> QED BY <1>6, <1>7, Advancing

(* A flow that goes on. *)
LEMMA FlowStep ==
    ASSUME IInv, RunFlow
    PROVE  IInv'
<1>1. PICK c : c = First.id
  OBVIOUS
<1>2. PICK e : e = First.what
  OBVIOUS
<1>3. PICK w : w = Taken(c)
  OBVIOUS
<1>4. PICK es : es = {e, "second"}
  OBVIOUS
<1>5. PICK x \in Lots(casts[c].prog, es) :
        LET o == IF e = "branch" THEN x.branch ELSE x.tail
            u == Forked(w, c, o)
        IN  Advanced(IF o.then = "error" THEN Bad(Failed(u, c)) ELSE ResolveControl(u, c, o.then, x), c)
  BY <1>1, <1>2, <1>3, <1>4 DEF RunFlow
<1>6. Runs("flow") /\ "flow" # "recharge"
  BY DEF RunFlow
<1>7. Sound(w) /\ c \in DOMAIN w.casts /\ casts[c].prog \in Program
  BY <1>1, <1>3, <1>6, Running
<1>8. IsLot(x)
  BY <1>7, LotsTyped
<1>9. PICK o \in Outcome : o = IF e = "branch" THEN x.branch ELSE x.tail
  BY <1>8 DEF IsLot
<1>10. PICK u : u = Forked(w, c, o)
  OBVIOUS
<1>11. Sound(u) /\ c \in DOMAIN u.casts
  BY <1>7, <1>10, ForkedCalm DEF Calm, Keeps, Does
<1>12. PICK control \in Control : control = o.then
  BY DEF Outcome
<1>13. PICK v : v = IF control = "error" THEN Bad(Failed(u, c)) ELSE ResolveControl(u, c, control, x)
  OBVIOUS
<1>14. Advanced(v, c)
  BY <1>5, <1>9, <1>10, <1>12, <1>13
<1>15. Sound(v)
  <2>1. CASE v = Bad(Failed(u, c))
    <3>1. PICK z : z = Failed(u, c)
      OBVIOUS
    <3>2. Sound(z)
      BY <1>11, <3>1, FailedDoes, SoundAfter
    <3> QED BY <2>1, <3>1, <3>2, BadSound
  <2>2. CASE v = ResolveControl(u, c, control, x)
    <3>1. Handles(u, v, c)
      BY ONLY <1>8, <1>11, <2>2, control \in Control, ResolveControlHandles
    <3> QED BY <3>1, SoundAfter
  <2> QED BY <1>13, <2>1, <2>2
<1> QED BY <1>14, <1>15, Advancing

(* A recharge that runs is the one its skill waits for, and is followed by *)
(* another until the stock is full.                                        *)
LEMMA RechargeStep ==
    ASSUME IInv, RunRecharge
    PROVE  IInv'
<1> DEFINE t == tasks[1]
           ts == Tail(tasks)
           p == t.what
           a == ammo[p]
<1>1. PICK w : w = World
  OBVIOUS
<1>2. Sound(w)
  BY <1>1, AtWorld
<1>3. IsWorld(w) /\ CastsTyped(w) /\ HeapAgrees(w) /\ SlotsAgree(w) /\ AmmoAgrees(w) /\ DoneAgrees(w)
      /\ w.cooldowns \in [Program \cup {Gcd} -> Nat] /\ w.err \in BOOLEAN
  BY <1>2 DEF Sound
<1>4. w.casts = casts /\ w.tasks = tasks /\ w.ammo = ammo
  BY <1>1 DEF World
<1>5. Heap(tasks) /\ tasks # <<>> /\ t.due = 0 /\ t.kind = "recharge"
  BY <1>3, <1>4 DEF HeapAgrees, Due, RunRecharge, HeadIs
<1>6. /\ Heap(ts) /\ t \in Tasks /\ ToSet(tasks) = ToSet(ts) \cup {t}
      /\ \A S : Tally(tasks, S) = IF t \in S THEN Tally(ts, S) + 1 ELSE Tally(ts, S)
  BY <1>5, PoppedTally
<1>7. t.id = 0 /\ p \in Program /\ t.token \in Nat
  BY <1>5, <1>6 DEF Tasks, CastTask, RechargeTask, CastKinds
<1>8. ts \in Seq(Tasks) /\ \A u \in ToSet(ts) : u \in Tasks
  BY <1>6 DEF Heap, ToSet
<1>9. a \in AmmoRecord /\ a.stock <= Def[p].maxStock /\ Def[p].maxStock \in Nat /\ Def[p].recharge \in Nat
  BY <1>3, <1>4, <1>7, DefIsTyped DEF AmmoAgrees, Definition
<1>10. Tally(ts, OfSkill(p)) = 0 /\ a.scheduled
  <2>1. t \in OfSkill(p)
    BY <1>5, <1>6 DEF OfSkill
  <2>2. Tally(tasks, OfSkill(p)) = Tally(ts, OfSkill(p)) + 1
    BY <1>6, <2>1
  <2>3. Tally(ts, OfSkill(p)) \in Nat
    BY <1>8, PlacesFinite
  <2>4. Tally(tasks, OfSkill(p)) = IF a.scheduled THEN 1 ELSE 0
    BY <1>3, <1>4, <1>7 DEF AmmoAgrees
  <2> QED BY ONLY <2>2, <2>3, <2>4
<1>11. a.gen = t.token /\ a.due = 0 /\ a.gen > 0 /\ a.stock < Def[p].maxStock
  <2>1. t.token = a.gen /\ t.due = a.due
    BY <1>3, <1>4, <1>5, <1>6 DEF AmmoAgrees
  <2>2. a.gen > 0 /\ a.stock < Def[p].maxStock
    BY <1>3, <1>4, <1>7, <1>10 DEF AmmoAgrees
  <2> QED BY <1>5, <2>1, <2>2
<1>12. PICK due \in Nat : due = Def[p].recharge
  BY <1>9
<1>13. PICK stock \in Nat : stock = a.stock + 1
  BY <1>9 DEF AmmoRecord
<1>14. stock <= Def[p].maxStock
  BY <1>9, <1>11, <1>13 DEF AmmoRecord
<1>15. PICK full \in BOOLEAN : IF stock >= Def[p].maxStock THEN full = TRUE ELSE full = FALSE
  BY TRUE \in BOOLEAN, FALSE \in BOOLEAN
<1>16. PICK at \in Nat : at = IF full THEN 0 ELSE due
  OBVIOUS
<1>17. PICK b : b = [a EXCEPT !.stock = stock, !.scheduled = ~full, !.due = at]
  OBVIOUS
<1>18. b \in AmmoRecord /\ b.stock = stock /\ b.scheduled = ~full /\ b.due = at /\ b.gen = a.gen
  BY ONLY <1>9, <1>17, at \in Nat, stock \in Nat, full \in BOOLEAN DEF AmmoRecord
<1>19. PICK nt : nt = Task(due, "recharge", 0, t.token, p)
  OBVIOUS
<1>20. nt \in Tasks /\ nt.id = 0 /\ nt.kind = "recharge" /\ nt.what = p /\ nt.token = t.token /\ nt.due = due
  BY <1>7, <1>19 DEF Task, Tasks, RechargeTask
<1>21. PICK z : z = [w EXCEPT !.tasks = Tail(@), !.ammo[p] = b]
  OBVIOUS
<1>22. PICK v : v = IF full THEN z ELSE [z EXCEPT !.tasks = Insert(@, nt)]
  OBVIOUS
<1>23. Becomes(v)
  <2>1. Popped = [w EXCEPT !.tasks = Tail(@)]
    BY <1>1 DEF Popped
  <2>2. PICK pop : pop = Popped
    OBVIOUS
  <2>3. z = [pop EXCEPT !.ammo[p] = b]
    BY ONLY <1>3, <1>21, <2>1, <2>2 DEF IsWorld
  <2>4. (stock >= Def[p].maxStock) = full
    <3>1. CASE stock >= Def[p].maxStock
      BY ONLY <1>15, <3>1
    <3>2. CASE ~(stock >= Def[p].maxStock)
      BY ONLY <1>15, <3>2
    <3> QED BY ONLY <3>1, <3>2
  <2>5. Becomes(IF ~a.scheduled \/ a.gen # t.token \/ a.due # 0 THEN pop
                ELSE IF full THEN z ELSE [z EXCEPT !.tasks = Insert(@, Task(due, "recharge", 0, t.token, p))])
    BY <1>11, <1>12, <1>13, <1>16, <1>17, <2>2, <2>3, <2>4 DEF RunRecharge, First
  <2> QED BY ONLY <1>10, <1>11, <1>19, <1>22, <2>5
<1>24. IsWorld(z) /\ IsWorld(v)
  <2>1. IsWorld(z)
    BY ONLY <1>3, <1>21 DEF IsWorld
  <2>2. IsWorld([z EXCEPT !.tasks = Insert(@, nt)])
    BY ONLY <2>1 DEF IsWorld
  <2> QED BY <1>22, <2>1, <2>2
<1>25. /\ z.casts = w.casts /\ z.cooldowns = w.cooldowns /\ z.policies = w.policies
       /\ z.nextCast = w.nextCast /\ z.active = w.active /\ z.completed = w.completed /\ z.err = w.err
       /\ z.tasks = ts /\ z.ammo = [ammo EXCEPT ![p] = b]
  BY ONLY <1>3, <1>4, <1>21 DEF IsWorld
<1> HIDE DEF ts
<1>26. /\ v.casts = w.casts /\ v.cooldowns = w.cooldowns /\ v.policies = w.policies
       /\ v.nextCast = w.nextCast /\ v.active = w.active /\ v.completed = w.completed /\ v.err = w.err
       /\ v.tasks = (IF full THEN ts ELSE Insert(ts, nt)) /\ v.ammo = [ammo EXCEPT ![p] = b]
  <2>1. CASE full
    BY <1>22, <1>25, <2>1
  <2>2. CASE ~full
    <3>1. v = [z EXCEPT !.tasks = Insert(@, nt)]
      BY <1>22, <2>2
    <3> QED BY ONLY <1>24, <1>25, <2>2, <3>1 DEF IsWorld
  <2> QED BY <2>1, <2>2
<1>27. /\ Heap(v.tasks) /\ ToSet(v.tasks) \subseteq ToSet(ts) \cup {nt}
       /\ full => ToSet(v.tasks) = ToSet(ts)
       /\ \A S : Tally(v.tasks, S) = IF ~full /\ nt \in S THEN Tally(ts, S) + 1 ELSE Tally(ts, S)
  <2>1. CASE full
    BY <1>6, <1>26, <2>1
  <2>2. CASE ~full
    <3>1. v.tasks = Insert(ts, nt)
      BY <1>26, <2>2
    <3>2. /\ Heap(v.tasks) /\ ToSet(v.tasks) = ToSet(ts) \cup {nt}
          /\ \A S : Tally(v.tasks, S) = IF nt \in S THEN Tally(ts, S) + 1 ELSE Tally(ts, S)
      BY ONLY <1>6, <1>20, <3>1, Inserted
    <3> QED BY ONLY <2>2, <3>2
  <2> QED BY <2>1, <2>2
<1> HIDE DEF t, p, a
<1>28. CastsTyped(v)
  BY ONLY <1>3, <1>26 DEF CastsTyped
<1>29. HeapAgrees(v)
  <2>1. \A u \in ToSet(v.tasks) : u.kind # "recharge" => u.id \in DOMAIN v.casts
    BY ONLY <1>3, <1>4, <1>6, <1>20, <1>26, <1>27 DEF HeapAgrees
  <2>2. ASSUME NEW d \in DOMAIN v.casts
        PROVE  v.casts[d].pending = Tally(v.tasks, OfCast(d))
    <3>1. d # 0 /\ d \in DOMAIN w.casts
      BY <1>3, <1>26 DEF CastsTyped
    <3>2. t \notin OfCast(d) /\ nt \notin OfCast(d)
      BY <1>7, <1>20, <3>1 DEF OfCast
    <3>3. w.casts[d].pending = Tally(tasks, OfCast(d))
      BY <1>3, <1>4, <3>1 DEF HeapAgrees
    <3> QED BY ONLY <1>6, <1>26, <1>27, <3>2, <3>3
  <2> QED BY ONLY <1>27, <2>1, <2>2 DEF HeapAgrees
<1>30. SlotsAgree(v)
  BY ONLY <1>3, <1>26 DEF SlotsAgree
<1>31. DoneAgrees(v)
  <2>1. NotDone(v) = NotDone(w)
    BY <1>26 DEF NotDone
  <2> QED BY ONLY <1>3, <1>26, <2>1 DEF DoneAgrees
<1>32. AmmoAgrees(v)
  <2>1. v.ammo \in [Program -> AmmoRecord] /\ \A q \in Program : v.ammo[q] = IF q = p THEN b ELSE ammo[q]
    BY <1>3, <1>4, <1>18, <1>26 DEF AmmoAgrees
  <2>2. \A q \in Program : (nt \in OfSkill(q) <=> q = p) /\ (t \in OfSkill(q) <=> q = p)
    BY <1>5, <1>6, <1>20 DEF OfSkill, p, t
  <2>3. ASSUME NEW q \in Program
        PROVE  /\ v.ammo[q].stock <= Def[q].maxStock
               /\ v.ammo[q].scheduled <=> v.ammo[q].gen > 0 /\ v.ammo[q].stock < Def[q].maxStock
               /\ Tally(v.tasks, OfSkill(q)) = IF v.ammo[q].scheduled THEN 1 ELSE 0
    <3>1. CASE q = p
      <4>1. v.ammo[q] = b
        BY <2>1, <3>1
      <4>2. Tally(v.tasks, OfSkill(q)) = IF full THEN 0 ELSE 1
        BY ONLY <1>10, <1>27, <2>2, <3>1
      <4>3. full <=> ~(stock < Def[p].maxStock)
        <5>1. PICK top \in Nat : top = Def[p].maxStock
          BY <1>9
        <5>2. stock >= top <=> ~(stock < top)
          BY ONLY stock \in Nat, top \in Nat
        <5> QED BY ONLY <1>15, <5>1, <5>2
      <4> QED BY ONLY <1>11, <1>14, <1>18, <3>1, <4>1, <4>2, <4>3
    <3>2. CASE q # p
      <4>1. v.ammo[q] = w.ammo[q]
        BY <1>4, <2>1, <3>2
      <4>2. Tally(v.tasks, OfSkill(q)) = Tally(w.tasks, OfSkill(q))
        BY ONLY <1>4, <1>6, <1>27, <2>2, <3>2
      <4> QED BY ONLY <1>3, <4>1, <4>2 DEF AmmoAgrees
    <3> QED BY <3>1, <3>2
  <2>4. \A u \in ToSet(ts) : u.kind = "recharge" => u.what \in Program /\ u.what # p
    <3>1. ToSet(ts) \cap OfSkill(p) = {}
      BY <1>8, <1>10, TallyPositive
    <3> QED BY <1>8, <3>1 DEF OfSkill, Tasks, CastTask, RechargeTask, CastKinds
  <2>5. ASSUME NEW u \in ToSet(v.tasks), u.kind = "recharge"
        PROVE  u.token = v.ammo[u.what].gen /\ u.due = v.ammo[u.what].due
    <3>1. CASE u \in ToSet(ts)
      <4>1. u \in ToSet(w.tasks) /\ u.what \in Program /\ u.what # p
        BY <1>4, <1>6, <2>4, <2>5, <3>1
      <4>2. v.ammo[u.what] = w.ammo[u.what]
        BY <1>4, <2>1, <4>1
      <4> QED BY <1>3, <2>5, <4>1, <4>2 DEF AmmoAgrees
    <3>2. CASE u \notin ToSet(ts)
      <4>1. u = nt /\ ~full
        BY <1>27, <2>5, <3>2
      <4>2. v.ammo[u.what] = b
        BY <1>7, <1>20, <2>1, <4>1 DEF p
      <4> QED BY <1>11, <1>16, <1>18, <1>20, <4>1, <4>2 DEF a, p, t
    <3> QED BY <3>1, <3>2
  <2> QED BY ONLY <2>1, <2>3, <2>5 DEF AmmoAgrees
<1>33. Sound(v)
  BY ONLY <1>3, <1>24, <1>26, <1>28, <1>29, <1>30, <1>31, <1>32 DEF Sound
<1>34. Sound(World)'
  BY <1>23, <1>33, Becoming
<1>35. aborted' = FALSE /\ refused' = refused
  BY DEF RunRecharge
<1>36. \A d : LiveIn(World, d) => LiveIn(World, d)'
  <2>1. \A d : LiveIn(World, d) => LiveIn(v, d)
    BY <1>1, <1>26 DEF LiveIn
  <2> QED BY <1>23, <2>1, LiveAfter
<1> QED BY <1>34, <1>35, <1>36 DEF IInv

(* Time passes only when no task is due. *)
LEMMA TickDue ==
    ASSUME Heap(tasks), Tick
    PROVE  \A i \in DOMAIN tasks : tasks[i].due > 0
<1>1. tasks \in Seq(Tasks) /\ DOMAIN tasks = 1 .. Len(tasks) /\ Len(tasks) \in Nat /\ Sorted(tasks)
  BY DEF Heap
<1>2. ASSUME NEW i \in DOMAIN tasks
      PROVE  tasks[i].due > 0
  <2>1. 1 \in DOMAIN tasks /\ 1 \in 1 .. i /\ tasks # <<>>
    BY <1>1
  <2>2. tasks[1].due <= tasks[i].due
    BY <1>1, <2>1 DEF Sorted
  <2>3. tasks[1] \in Tasks /\ tasks[i] \in Tasks
    BY <1>1, <2>1
  <2>4. tasks[1].due \in Nat /\ tasks[i].due \in Nat
    BY <2>3 DEF Tasks, CastTask, RechargeTask
  <2>5. tasks[1].due # 0
    BY <2>1 DEF Tick, Due
  <2> QED BY ONLY <2>2, <2>4, <2>5
<1> QED BY <1>2

(* Time passes: no task is due, so none is late, and a recharge stays at    *)
(* the tick its skill says.                                                 *)
LEMMA TickStep ==
    ASSUME IInv, Tick
    PROVE  IInv'
<1>1. PICK w : w = World
  OBVIOUS
<1>2. Sound(w)
  BY <1>1, AtWorld
<1>3. IsWorld(w) /\ CastsTyped(w) /\ HeapAgrees(w) /\ SlotsAgree(w) /\ AmmoAgrees(w) /\ DoneAgrees(w)
      /\ w.cooldowns \in [Program \cup {Gcd} -> Nat] /\ w.err \in BOOLEAN
  BY <1>2 DEF Sound
<1>4. /\ w.casts = casts /\ w.tasks = tasks /\ w.cooldowns = cooldowns /\ w.policies = policies
      /\ w.ammo = ammo /\ w.nextCast = nextCast /\ w.active = active /\ w.completed = completed
  BY <1>1 DEF World
<1>5. Heap(tasks)
  BY <1>3, <1>4 DEF HeapAgrees
<1>6. \A i \in DOMAIN tasks : tasks[i].due > 0
  BY <1>5, TickDue
<1>7. tasks' = [i \in DOMAIN tasks |-> [tasks[i] EXCEPT !.due = @ - 1]]
  BY DEF Tick
<1>8. PICK new : new = tasks'
  OBVIOUS
<1>9. /\ Heap(new) /\ DOMAIN new = DOMAIN tasks
      /\ \A i \in DOMAIN tasks : /\ new[i] \in Tasks /\ new[i].due = tasks[i].due - 1
                                 /\ new[i].id = tasks[i].id /\ new[i].kind = tasks[i].kind
                                 /\ new[i].token = tasks[i].token /\ new[i].what = tasks[i].what
      /\ \A c : Tally(new, OfCast(c)) = Tally(tasks, OfCast(c))
      /\ \A q : Tally(new, OfSkill(q)) = Tally(tasks, OfSkill(q))
  BY ONLY <1>5, <1>6, <1>7, <1>8, NearerHeap
<1>10. \A u \in ToSet(new) : \E s \in ToSet(tasks) :
         /\ s.due > 0 /\ u.due = s.due - 1 /\ u.id = s.id /\ u.kind = s.kind
         /\ u.token = s.token /\ u.what = s.what
  BY <1>6, <1>9 DEF ToSet
<1>11. PICK v : v = [casts |-> casts', tasks |-> tasks', cooldowns |-> cooldowns', policies |-> policies',
                     ammo |-> ammo', nextCast |-> nextCast', active |-> active',
                     completed |-> completed', err |-> FALSE]
  OBVIOUS
<1>12. Becomes(v)
  BY <1>11 DEF Becomes
<1>13. /\ IsWorld(v) /\ v.tasks = new /\ v.policies = w.policies /\ v.nextCast = w.nextCast
       /\ v.active = w.active /\ v.completed = w.completed /\ v.err = FALSE
       /\ v.casts = casts' /\ v.cooldowns = cooldowns' /\ v.ammo = ammo'
  BY <1>4, <1>8, <1>11 DEF IsWorld, Tick
<1>14. /\ DOMAIN v.casts = DOMAIN w.casts
       /\ \A c \in DOMAIN w.casts :
            /\ v.casts[c] \in CastRecord
            /\ v.casts[c].prog = w.casts[c].prog /\ v.casts[c].pending = w.casts[c].pending
            /\ v.casts[c].policy = w.casts[c].policy /\ v.casts[c].done = w.casts[c].done
            /\ v.casts[c].status = w.casts[c].status
  <2>1. v.casts = [c \in DOMAIN casts |->
                     [casts[c] EXCEPT !.age = IF @ < Longest(Def[casts[c].prog]) THEN @ + 1 ELSE @]]
    BY <1>13 DEF Tick
  <2>2. ASSUME NEW c \in DOMAIN casts
        PROVE  /\ v.casts[c] \in CastRecord
               /\ v.casts[c].prog = w.casts[c].prog /\ v.casts[c].pending = w.casts[c].pending
               /\ v.casts[c].policy = w.casts[c].policy /\ v.casts[c].done = w.casts[c].done
               /\ v.casts[c].status = w.casts[c].status
    <3>1. casts[c] \in CastRecord
      BY <1>3, <1>4 DEF CastsTyped
    <3>2. PICK old : old = (casts[c].age < Longest(Def[casts[c].prog]))
      OBVIOUS
    <3>3. casts[c].age \in Nat
      BY ONLY <3>1 DEF CastRecord
    <3>4. PICK age \in Nat : age = IF casts[c].age < Longest(Def[casts[c].prog]) THEN casts[c].age + 1 ELSE casts[c].age
      BY <3>3
    <3>5. v.casts[c] = [casts[c] EXCEPT !.age = age]
      BY <2>1, <3>4
    <3>6. PICK q \in CastRecord : q = casts[c]
      BY <3>1
    <3>7. v.casts[c] = [q EXCEPT !.age = age]
      BY <3>5, <3>6
    <3>8. /\ v.casts[c] \in CastRecord /\ v.casts[c].prog = q.prog /\ v.casts[c].pending = q.pending
          /\ v.casts[c].policy = q.policy /\ v.casts[c].done = q.done /\ v.casts[c].status = q.status
      BY ONLY <3>7, q \in CastRecord, age \in Nat DEF CastRecord
    <3> QED BY ONLY <1>4, <3>6, <3>8
  <2>3. DOMAIN v.casts = DOMAIN casts
    BY <2>1
  <2> QED BY <1>4, <2>2, <2>3
<1>15. CastsTyped(v)
  BY ONLY <1>3, <1>13, <1>14 DEF CastsTyped
<1>16. HeapAgrees(v)
  <2>1. \A u \in ToSet(new) : u.kind # "recharge" => u.id \in DOMAIN v.casts
    BY ONLY <1>3, <1>4, <1>10, <1>14 DEF HeapAgrees
  <2> QED BY ONLY <1>3, <1>4, <1>9, <1>13, <1>14, <2>1 DEF HeapAgrees
<1>17. SlotsAgree(v)
  BY ONLY <1>3, <1>13, <1>14 DEF SlotsAgree
<1>18. DoneAgrees(v)
  <2>1. NotDone(v) = NotDone(w)
    BY <1>14 DEF NotDone
  <2> QED BY ONLY <1>3, <1>13, <1>14, <2>1 DEF DoneAgrees
<1>19. v.cooldowns \in [Program \cup {Gcd} -> Nat]
  <2>1. v.cooldowns = [k \in DOMAIN cooldowns |-> IF cooldowns[k] > 0 THEN cooldowns[k] - 1 ELSE 0]
    BY <1>13 DEF Tick
  <2> QED BY ONLY <1>3, <1>4, <2>1
<1>20. AmmoAgrees(v)
  <2>1. v.ammo = [q \in Program |-> [ammo[q] EXCEPT !.due = IF ammo[q].scheduled THEN @ - 1 ELSE 0]]
    BY <1>13 DEF Tick
  <2>2. ASSUME NEW q \in Program
        PROVE  /\ v.ammo[q] \in AmmoRecord /\ v.ammo[q].stock = ammo[q].stock
               /\ v.ammo[q].scheduled = ammo[q].scheduled /\ v.ammo[q].gen = ammo[q].gen
               /\ ammo[q].scheduled => v.ammo[q].due = ammo[q].due - 1
    <3>1. ammo[q] \in AmmoRecord
      BY <1>3, <1>4 DEF AmmoAgrees
    <3>2. ammo[q].due \in Nat
      BY ONLY <3>1 DEF AmmoRecord
    <3>3. ammo[q].scheduled => ammo[q].due > 0
      <4>1. ASSUME ammo[q].scheduled
            PROVE  ammo[q].due > 0
        <5>1. Tally(tasks, OfSkill(q)) = 1 /\ tasks \in Seq(Tasks)
          BY <1>3, <1>4, <1>5, <4>1 DEF AmmoAgrees, Heap
        <5>2. ~(ToSet(tasks) \cap OfSkill(q) = {})
          <6>1. Tally(tasks, OfSkill(q)) = 0 <=> ToSet(tasks) \cap OfSkill(q) = {}
            BY ONLY <5>1, TallyPositive
          <6> QED BY ONLY <5>1, <6>1
        <5>3. PICK t \in ToSet(tasks) : t \in OfSkill(q)
          BY <5>2
        <5>4. t.due = ammo[q].due
          BY <1>3, <1>4, <5>3 DEF AmmoAgrees, OfSkill
        <5>5. t.due > 0
          BY <1>6 DEF ToSet
        <5> QED BY <5>4, <5>5
      <4> QED BY <4>1
    <3>4. PICK due \in Nat : due = IF ammo[q].scheduled THEN ammo[q].due - 1 ELSE 0
      BY <3>2, <3>3
    <3>5. v.ammo[q] = [ammo[q] EXCEPT !.due = due]
      BY <2>1, <3>4
    <3>6. /\ v.ammo[q] \in AmmoRecord /\ v.ammo[q].stock = ammo[q].stock
          /\ v.ammo[q].scheduled = ammo[q].scheduled /\ v.ammo[q].gen = ammo[q].gen /\ v.ammo[q].due = due
      BY ONLY <3>1, <3>5, due \in Nat DEF AmmoRecord
    <3> QED BY ONLY <3>4, <3>6
  <2>3. v.ammo \in [Program -> AmmoRecord]
    BY <2>1, <2>2
  <2>4. ASSUME NEW u \in ToSet(new), u.kind = "recharge"
        PROVE  u.token = v.ammo[u.what].gen /\ u.due = v.ammo[u.what].due
    <3>1. PICK s \in ToSet(tasks) : /\ s.due > 0 /\ u.due = s.due - 1 /\ u.kind = s.kind
                                    /\ u.token = s.token /\ u.what = s.what
      BY <1>10
    <3>2. s.token = ammo[s.what].gen /\ s.due = ammo[s.what].due
      BY <1>3, <1>4, <2>4, <3>1 DEF AmmoAgrees
    <3>3. s \in Tasks /\ tasks \in Seq(Tasks)
      BY <1>5 DEF Heap, ToSet
    <3>4. s.what \in Program /\ s \in OfSkill(s.what)
      BY <2>4, <3>1, <3>3 DEF Tasks, CastTask, RechargeTask, CastKinds, OfSkill
    <3>5. ammo[s.what].scheduled
      <4>1. Tally(tasks, OfSkill(s.what)) # 0
        BY <3>3, <3>4, TallyPositive
      <4>2. Tally(tasks, OfSkill(s.what)) = IF ammo[s.what].scheduled THEN 1 ELSE 0
        BY <1>3, <1>4, <3>4 DEF AmmoAgrees
      <4> QED BY ONLY <4>1, <4>2
    <3> QED BY <2>2, <3>1, <3>2, <3>4, <3>5
  <2>5. ASSUME NEW q \in Program
        PROVE  /\ v.ammo[q].stock <= Def[q].maxStock
               /\ v.ammo[q].scheduled <=> v.ammo[q].gen > 0 /\ v.ammo[q].stock < Def[q].maxStock
               /\ Tally(v.tasks, OfSkill(q)) = IF v.ammo[q].scheduled THEN 1 ELSE 0
    <3>1. /\ ammo[q].stock <= Def[q].maxStock
          /\ ammo[q].scheduled <=> ammo[q].gen > 0 /\ ammo[q].stock < Def[q].maxStock
          /\ Tally(tasks, OfSkill(q)) = IF ammo[q].scheduled THEN 1 ELSE 0
      BY ONLY <1>3, <1>4, q \in Program DEF AmmoAgrees
    <3>2. Tally(v.tasks, OfSkill(q)) = Tally(tasks, OfSkill(q))
      BY ONLY <1>9, <1>13
    <3> QED BY ONLY <2>2, <3>1, <3>2, q \in Program
  <2> QED BY ONLY <1>13, <2>3, <2>4, <2>5 DEF AmmoAgrees
<1>21. Sound(v)
  BY ONLY <1>13, <1>15, <1>16, <1>17, <1>18, <1>19, <1>20 DEF Sound
<1>22. Sound(World)'
  BY <1>12, <1>21, Becoming
<1>23. aborted' = FALSE /\ refused' = refused
  BY DEF Tick
<1>24. \A d : LiveIn(World, d) => LiveIn(World, d)'
  <2>1. \A d : LiveIn(World, d) => LiveIn(v, d)
    BY <1>1, <1>14 DEF LiveIn, Ended
  <2> QED BY <1>12, <2>1, LiveAfter
<1> QED BY <1>22, <1>23, <1>24 DEF IInv

(* A cast that begins has the next id, which no task, slot or completed     *)
(* cast names.                                                              *)
LEMMA FreshSound ==
    ASSUME NEW w, Sound(w), w.active < MaxActiveCasts, w.nextCast < MaxCasts,
           NEW c, c = w.nextCast + 1,
           NEW q \in CastRecord, q.pending = 0, ~q.policy, ~q.done,
           NEW u, IsWorld(u),
           u.casts = [d \in DOMAIN w.casts \cup {c} |-> IF d = c THEN q ELSE w.casts[d]],
           u.tasks = w.tasks, u.cooldowns = w.cooldowns, u.policies = w.policies, u.ammo = w.ammo,
           u.nextCast = c, u.active = w.active + 1, u.completed = w.completed, u.err = FALSE
    PROVE  Sound(u) /\ Bare(u, c)
<1>1. IsWorld(w) /\ CastsTyped(w) /\ HeapAgrees(w) /\ SlotsAgree(w) /\ AmmoAgrees(w) /\ DoneAgrees(w)
      /\ w.cooldowns \in [Program \cup {Gcd} -> Nat]
  BY DEF Sound
<1>2. /\ w.nextCast \in Nat /\ c \in Nat \ {0} /\ c <= MaxCasts
      /\ \A d \in DOMAIN w.casts : d \in 1 .. w.nextCast /\ d # c
  BY <1>1, LimitsAreNumbers DEF CastsTyped
<1>3. /\ DOMAIN u.casts = DOMAIN w.casts \cup {c} /\ u.casts[c] = q
      /\ \A d \in DOMAIN w.casts : u.casts[d] = w.casts[d]
  BY <1>2
<1>4. CastsTyped(u)
  <2>1. u.nextCast \in 0 .. MaxCasts
    BY <1>2, LimitsAreNumbers
  <2>2. DOMAIN u.casts \subseteq 1 .. u.nextCast
    BY <1>2, <1>3
  <2> QED BY ONLY <1>1, <1>3, <2>1, <2>2, q \in CastRecord DEF CastsTyped
<1>5. HeapAgrees(u)
  <2>1. \A t \in ToSet(u.tasks) : t.kind # "recharge" => t.id \in DOMAIN u.casts
    BY ONLY <1>1, <1>3, u.tasks = w.tasks DEF HeapAgrees
  <2>2. Tally(w.tasks, OfCast(c)) = 0
    <3>1. w.tasks \in Seq(Tasks)
      BY <1>1 DEF HeapAgrees, Heap
    <3>2. ASSUME NEW t \in ToSet(w.tasks)
          PROVE  t.id # c
      <4>1. t \in Tasks
        BY <3>1 DEF ToSet
      <4>2. CASE t.kind = "recharge"
        <5>1. t.id = 0
          BY <4>1, <4>2 DEF Tasks, CastTask, RechargeTask, CastKinds
        <5> QED BY <1>2, <5>1
      <4>3. CASE t.kind # "recharge"
        BY <1>1, <1>2, <4>3 DEF HeapAgrees
      <4> QED BY <4>2, <4>3
    <3>3. ToSet(w.tasks) \cap OfCast(c) = {}
      BY <3>2 DEF OfCast
    <3> QED BY <3>1, <3>3, TallyPositive
  <2> QED BY ONLY <1>1, <1>3, <2>1, <2>2, u.tasks = w.tasks, q.pending = 0 DEF HeapAgrees
<1>6. SlotsAgree(u)
  BY ONLY <1>1, <1>3, u.policies = w.policies DEF SlotsAgree
<1>7. AmmoAgrees(u)
  BY ONLY <1>1, u.tasks = w.tasks, u.ammo = w.ammo DEF AmmoAgrees
<1>8. DoneAgrees(u)
  <2>1. NotDone(u) = NotDone(w) \cup {c} /\ c \notin NotDone(w)
    BY <1>2, <1>3 DEF NotDone
  <2>2. Cardinality(NotDone(u)) = Cardinality(NotDone(w)) + 1
    <3>1. IsFiniteSet(NotDone(w))
      BY <1>1, NotDoneFinite
    <3> QED BY <2>1, <3>1, FS_AddElement
  <2>3. u.active \in 0 .. MaxActiveCasts /\ u.active = Cardinality(NotDone(u))
    BY <1>1, <2>2, LimitsAreNumbers DEF DoneAgrees
  <2>4. ASSUME NEW d \in ToSet(u.completed)
        PROVE  d <= u.nextCast /\ (d \in DOMAIN u.casts => u.casts[d].done)
    <3>1. d \in Nat /\ d <= w.nextCast /\ (d \in DOMAIN w.casts => w.casts[d].done)
      BY <1>1 DEF DoneAgrees, ToSet
    <3> QED BY <1>2, <1>3, <3>1
  <2>5. u.completed \in Seq(Nat)
    BY <1>1 DEF DoneAgrees
  <2> QED BY ONLY <2>3, <2>4, <2>5 DEF DoneAgrees
<1>9. Sound(u)
  BY <1>1, <1>4, <1>5, <1>6, <1>7, <1>8 DEF Sound
<1> QED BY <1>3, <1>9 DEF Bare

(* A start on w: the cast c of p is q, with its first stage, in world u. *)
Begins(w, u, c, p, q, x) ==
    /\ IsLot(x) /\ x.enter \in Def[p].flow["enter"] /\ x.second \in Def[p].flow["second"]
    /\ q \in CastRecord /\ q.prog = p /\ q.pending = 0 /\ ~q.policy /\ ~q.done /\ q.age = 0 /\ q.phase = 1
    /\ q.stage = IF Def[p].mode = "charge" THEN "executing" ELSE "preparing"
    /\ c = w.nextCast + 1
    /\ IsWorld(u) /\ u.nextCast = c /\ u.active = w.active + 1 /\ u.err = FALSE
    /\ u.casts = [d \in DOMAIN w.casts \cup {c} |-> IF d = c THEN q ELSE w.casts[d]]
    /\ u.tasks = w.tasks /\ u.cooldowns = w.cooldowns /\ u.policies = w.policies /\ u.ammo = w.ammo
    /\ u.completed = w.completed
    /\ Becomes(Started(IF Def[p].mode = "charge" THEN ExecuteCast(u, c, x) ELSE Windup(u, c, x), c))

(* What Start does: no toggle of the skill is on, so its slot is empty. *)
LEMMA Starting ==
    ASSUME IInv, NEW p \in Program, Start(p), NEW w, w = World
    PROVE  \E u, c, q, x : Begins(w, u, c, p, q, x)
<1>2. Sound(w) /\ w.casts = casts /\ w.policies = policies
  BY AtWorld DEF World
<1>3. /\ w.active < MaxActiveCasts /\ w.nextCast < MaxCasts /\ ~HeldToggle(p)
      /\ w.nextCast = nextCast /\ w.active = active
  BY DEF Start, World
<1>4. PICK c : c = nextCast + 1
  OBVIOUS
<1>5. PICK new : new = [d \in DOMAIN casts \cup {c} |-> IF d = c THEN NewCast(p) ELSE casts[d]]
  OBVIOUS
<1>6. PICK slots : slots = [policies EXCEPT ![p] = IF Def[p].mode = "toggle" THEN 0 ELSE @]
  OBVIOUS
<1>7. slots = policies
  <2>1. SlotsAgree(w)
    BY <1>2 DEF Sound
  <2>2. Def[p].mode = "toggle" => policies[p] = 0
    BY <1>2, <1>3, <2>1 DEF SlotsAgree, HeldToggle
  <2> QED BY <1>2, <1>6, <2>1, <2>2 DEF SlotsAgree
<1>8. PICK fresh : fresh = [w EXCEPT !.casts = new, !.policies = slots, !.nextCast = c, !.active = active + 1]
  OBVIOUS
<1>9. PICK x \in Lots(p, {"enter", "second"}) : Becomes(Started(Prepared(fresh, c, x), c))
  <2>1. fresh = [World EXCEPT !.casts = [d \in DOMAIN @ \cup {c} |-> IF d = c THEN NewCast(p) ELSE @[d]],
                              !.policies[p] = IF Def[p].mode = "toggle" THEN 0 ELSE @,
                              !.nextCast = c, !.active = @ + 1]
    BY ONLY w = World, <1>4, <1>5, <1>6, <1>8 DEF World
  <2> QED BY <1>4, <2>1 DEF Start
<1>11. IsLot(x) /\ x.enter \in Def[p].flow["enter"] /\ x.second \in Def[p].flow["second"]
  BY LotsTyped
<1>12. PICK q : q = IF Def[p].mode = "charge" THEN [NewCast(p) EXCEPT !.stage = "executing"]
                                          ELSE [NewCast(p) EXCEPT !.root = "enter", !.stage = "preparing"]
  OBVIOUS
<1>13. q.stage = IF Def[p].mode = "charge" THEN "executing" ELSE "preparing"
  BY ONLY <1>12 DEF NewCast
<1>14. /\ q \in CastRecord /\ q.prog = p /\ q.pending = 0 /\ ~q.policy /\ ~q.done
       /\ q.age = 0 /\ q.phase = 1
  <2>1. 0 \in Nat /\ 1 \in Nat \ {0} /\ 1 \in 1 .. 2
    OBVIOUS
  <2>2. CASE Def[p].mode = "charge"
    <3>1. q = [NewCast(p) EXCEPT !.stage = "executing"]
      BY <1>12, <2>2
    <3>2. q \in CastRecord
      BY ONLY p \in Program, <2>1, <3>1, Zenon DEF CastRecord, NewCast
    <3> QED BY ONLY <3>1, <3>2 DEF NewCast
  <2>3. CASE Def[p].mode # "charge"
    <3>1. q = [NewCast(p) EXCEPT !.root = "enter", !.stage = "preparing"]
      BY <1>12, <2>3
    <3>2. q \in CastRecord
      BY ONLY p \in Program, <2>1, <3>1, Zenon DEF CastRecord, NewCast
    <3> QED BY ONLY <3>1, <3>2 DEF NewCast
  <2> QED BY <2>2, <2>3
<1>15. PICK u : u = [fresh EXCEPT !.casts = [d \in DOMAIN casts \cup {c} |-> IF d = c THEN q ELSE casts[d]]]
  OBVIOUS
<1>16. IsWorld(fresh) /\ fresh.casts = new
  <2>1. IsWorld(w)
    BY <1>2 DEF Sound
  <2> QED BY ONLY <1>8, <2>1 DEF IsWorld
<1>17. Prepared(fresh, c, x) = IF Def[p].mode = "charge" THEN ExecuteCast(u, c, x) ELSE Windup(u, c, x)
  <2>1. new[c] = NewCast(p) /\ c \in DOMAIN new
    BY <1>5
  <2>2. Mode(fresh, c) = Def[p].mode
    BY <1>16, <2>1 DEF Mode, DefOf, NewCast
  <2>3. CASE Def[p].mode = "charge"
    <3>1. [NewCast(p) EXCEPT !.stage = "executing"] = q
      BY <1>12, <2>3
    <3>2. [new EXCEPT ![c].stage = "executing"] = [d \in DOMAIN casts \cup {c} |-> IF d = c THEN q ELSE casts[d]]
      BY ONLY <1>5, <2>1, <3>1
    <3>3. [fresh EXCEPT !.casts[c].stage = "executing"] = u
      BY ONLY <1>15, <1>16, <3>2 DEF IsWorld
    <3> QED BY <2>2, <2>3, <3>3 DEF Prepared
  <2>4. CASE Def[p].mode # "charge"
    <3>1. [NewCast(p) EXCEPT !.root = "enter", !.stage = "preparing"] = q
      BY <1>12, <2>4
    <3>2. [new EXCEPT ![c].root = "enter", ![c].stage = "preparing"]
          = [d \in DOMAIN casts \cup {c} |-> IF d = c THEN q ELSE casts[d]]
      BY ONLY <1>5, <2>1, <3>1
    <3>3. [fresh EXCEPT !.casts[c].root = "enter", !.casts[c].stage = "preparing"] = u
      BY ONLY <1>15, <1>16, <3>2 DEF IsWorld
    <3> QED BY <2>2, <2>4, <3>3 DEF Prepared, PrepareWindow
  <2> QED BY <2>3, <2>4
<1>18. /\ IsWorld(u) /\ u.nextCast = c /\ u.active = w.active + 1 /\ u.err = FALSE
       /\ u.casts = [d \in DOMAIN w.casts \cup {c} |-> IF d = c THEN q ELSE w.casts[d]]
       /\ u.tasks = w.tasks /\ u.cooldowns = w.cooldowns /\ u.policies = w.policies /\ u.ammo = w.ammo
       /\ u.completed = w.completed
  <2>1. IsWorld(w) /\ w.err = FALSE
    BY <1>2 DEF Sound, World
  <2> QED BY ONLY <1>2, <1>3, <1>7, <1>8, <1>15, <1>16, <2>1 DEF IsWorld
<1>19. c = w.nextCast + 1
  BY <1>3, <1>4
<1>20. Becomes(Started(IF Def[p].mode = "charge" THEN ExecuteCast(u, c, x) ELSE Windup(u, c, x), c))
  BY <1>9, <1>17
<1>21. Begins(w, u, c, p, q, x)
  BY ONLY <1>11, <1>13, <1>14, <1>18, <1>19, <1>20 DEF Begins
<1> QED BY <1>21

(* Start keeps the invariant, whether the window fails or not. *)
LEMMA StartStep ==
    ASSUME IInv, CleanStarts, NEW p \in Program, Start(p)
    PROVE  IInv'
<1>1. PICK w : w = World
  OBVIOUS
<1>2. PICK u, c, q, x : Begins(w, u, c, p, q, x)
  BY <1>1, Starting
<1>3. Sound(w) /\ w.active < MaxActiveCasts /\ w.nextCast < MaxCasts
  BY <1>1, AtWorld DEF Start, World
<1>4. aborted' = aborted /\ refused' = refused
  BY DEF Start
<1>5. IsLot(x) /\ x.enter \in Def[p].flow["enter"] /\ x.second \in Def[p].flow["second"]
  BY <1>2 DEF Begins
<1>6. /\ q \in CastRecord /\ q.prog = p /\ q.pending = 0 /\ ~q.policy /\ ~q.done /\ q.age = 0 /\ q.phase = 1
      /\ q.stage = IF Def[p].mode = "charge" THEN "executing" ELSE "preparing"
  BY <1>2 DEF Begins
<1>7. /\ c = w.nextCast + 1
      /\ IsWorld(u) /\ u.nextCast = c /\ u.active = w.active + 1 /\ u.err = FALSE
      /\ u.casts = [d \in DOMAIN w.casts \cup {c} |-> IF d = c THEN q ELSE w.casts[d]]
      /\ u.tasks = w.tasks /\ u.cooldowns = w.cooldowns /\ u.policies = w.policies /\ u.ammo = w.ammo
      /\ u.completed = w.completed
  BY <1>2 DEF Begins
<1>8. Sound(u) /\ Bare(u, c)
  BY ONLY <1>3, <1>6, <1>7, q \in CastRecord, FreshSound
<1>9. c \in DOMAIN u.casts /\ u.casts[c] = q /\ DefOf(u, c) = Def[p]
  BY <1>6, <1>7, <1>8 DEF Bare, DefOf
<1>10. PICK z : z = IF Def[p].mode = "charge" THEN ExecuteCast(u, c, x) ELSE Windup(u, c, x)
  OBVIOUS
<1>11. Handles(u, z, c) /\ (z.err => z.casts[c].committed \/ Bare(z, c))
  <2>1. CASE Def[p].mode = "charge"
    <3>1. z = ExecuteCast(u, c, x)
      BY <1>10, <2>1
    <3>2. Mode(u, c) = "charge" /\ u.casts[c].age = 0 /\ u.casts[c].phase = 1 /\ ~u.err
      BY <1>6, <1>7, <1>9, <2>1 DEF Mode
    <3>3. (x.enter.fork => x.enter.then # "error") /\ (x.second.fork => x.second.then \notin {"error", "goto"})
      BY <1>5, <2>1 DEF CleanStarts
    <3>4. Handles(u, z, c)
      BY <1>5, <1>8, <1>9, <3>1, ExecuteCastHandles
    <3>5. z.err => Bare(z, c)
      BY <1>5, <1>8, <1>9, <3>1, <3>2, <3>3, ExecuteCastFails
    <3> QED BY <3>4, <3>5
  <2>2. CASE Def[p].mode # "charge"
    <3>1. z = Windup(u, c, x)
      BY <1>10, <2>2
    <3>2. u.casts[c].stage = "preparing" /\ ~u.err
      BY <1>6, <1>7, <1>9, <2>2
    <3> QED BY <1>5, <1>8, <1>9, <3>1, <3>2, WindupHandles
  <2> QED BY <2>1, <2>2
<1>12. Sound(z) /\ Only(u, z, c) /\ (z.err => c \in DOMAIN z.casts)
  BY <1>7, <1>11 DEF Handles, Does
<1>13. z.nextCast = c
  BY <1>7, <1>12 DEF Only
<1>14. PICK v : v = Started(z, c)
  OBVIOUS
<1>15. /\ Sound(v)
       /\ \A d \in DOMAIN z.casts \ {c} : (d \in DOMAIN v.casts /\ v.casts[d] = z.casts[d]) \/ Ended(z.casts[d])
  BY <1>11, <1>12, <1>13, <1>14, StartedSound
<1>16. Becomes(v)
  BY <1>2, <1>10, <1>14 DEF Begins
<1>17. Sound(World)'
  BY <1>15, <1>16, Becoming
<1>18. ASSUME NEW d \in refused'
       PROVE  LiveIn(World, d)'
  <2>1. d \in DOMAIN w.casts /\ ~Ended(w.casts[d])
    BY <1>1, <1>4 DEF IInv, LiveIn
  <2>2. d # c /\ d \in DOMAIN u.casts /\ u.casts[d] = w.casts[d]
    <3>1. d \in 1 .. w.nextCast /\ w.nextCast \in Nat
      BY <1>3, <2>1, LimitsAreNumbers DEF Sound, CastsTyped
    <3>2. d # c
      BY <1>7, <3>1
    <3> QED BY <1>7, <2>1, <3>2
  <2>3. d \in DOMAIN z.casts /\ z.casts[d] = w.casts[d]
    BY <1>12, <2>1, <2>2 DEF Only
  <2>4. LiveIn(v, d)
    BY <1>15, <2>1, <2>2, <2>3 DEF LiveIn
  <2> QED BY <1>16, <2>4, LiveAfter
<1> QED BY <1>4, <1>17, <1>18 DEF IInv

-----------------------------------------------------------------------------
(* The theorem *)

(* In the beginning there are no casts and no tasks. *)
LEMMA InitSound ==
    ASSUME Init
    PROVE  IInv
<1>1. PICK w : w = World
  OBVIOUS
<1>2. /\ w.casts = <<>> /\ w.tasks = <<>> /\ w.cooldowns = [k \in Program \cup {Gcd} |-> 0]
      /\ w.policies = [p \in Program |-> 0] /\ w.ammo = [p \in Program |-> FullStock(p)]
      /\ w.nextCast = 0 /\ w.active = 0 /\ w.completed = <<>> /\ w.err = FALSE /\ IsWorld(w)
  BY <1>1 DEF Init, World, IsWorld
<1>3. DOMAIN w.casts = {}
  BY <1>2
<1>4. ToSet(w.tasks) = {} /\ ToSet(w.completed) = {}
  BY <1>2 DEF ToSet
<1>5. \A S : Tally(w.tasks, S) = 0
  <2>1. \A S : Places(w.tasks, S) = {}
    BY <1>2 DEF Places
  <2> QED BY <2>1, FS_EmptySet DEF Tally
<1>6. CastsTyped(w)
  BY <1>2, <1>3, LimitsAreNumbers DEF CastsTyped
<1>7. HeapAgrees(w)
  <2>1. Heap(w.tasks)
    BY <1>2 DEF Heap, Sorted
  <2> QED BY <1>3, <1>4, <2>1 DEF HeapAgrees
<1>8. SlotsAgree(w)
  BY <1>2, LimitsAreNumbers DEF SlotsAgree
<1>9. AmmoAgrees(w)
  <2>1. ASSUME NEW p \in Program
        PROVE  /\ w.ammo[p] \in AmmoRecord /\ w.ammo[p].stock <= Def[p].maxStock
               /\ ~w.ammo[p].scheduled /\ w.ammo[p].gen = 0
    <3>1. Def[p].initialStock \in Nat /\ Def[p].initialStock <= Def[p].maxStock
      BY DefIsTyped, ShapeIsChecked DEF Definition
    <3> QED BY <1>2, <3>1 DEF FullStock, AmmoRecord
  <2>2. w.ammo \in [Program -> AmmoRecord]
    BY <1>2, <2>1
  <2>3. \A p \in Program : /\ w.ammo[p].stock <= Def[p].maxStock
                           /\ w.ammo[p].scheduled <=> w.ammo[p].gen > 0 /\ w.ammo[p].stock < Def[p].maxStock
                           /\ Tally(w.tasks, OfSkill(p)) = IF w.ammo[p].scheduled THEN 1 ELSE 0
    BY ONLY <1>5, <2>1
  <2> QED BY ONLY <1>4, <2>2, <2>3 DEF AmmoAgrees
<1>10. DoneAgrees(w)
  <2>1. NotDone(w) = {}
    BY <1>3 DEF NotDone
  <2>2. Cardinality(NotDone(w)) = 0
    BY <2>1, FS_EmptySet
  <2> QED BY <1>2, <1>4, <2>2, LimitsAreNumbers DEF DoneAgrees
<1>11. w.cooldowns \in [Program \cup {Gcd} -> Nat] /\ w.err \in BOOLEAN
  <2>1. w.cooldowns = [k \in Program \cup {Gcd} |-> 0]
    BY <1>2
  <2>2. w.cooldowns \in [Program \cup {Gcd} -> Nat]
    BY ONLY <2>1
  <2> QED BY <1>2, <2>2
<1>12. Sound(w)
  BY ONLY <1>2, <1>6, <1>7, <1>8, <1>9, <1>10, <1>11 DEF Sound
<1> QED BY <1>1, <1>12 DEF IInv, Init

(* Every step keeps the invariant. *)
LEMMA NextSound ==
    ASSUME CleanStarts, IInv, [Next]_vars
    PROVE  IInv'
<1>1. CASE Advance
  BY <1>1, TickStep, RechargeStep, StaleStep, CommitStep, ExecuteStep, PulseStep, AutoReleaseStep,
     RecoveryStep, FlowStep DEF Advance
<1>2. CASE \E p \in Program : Start(p) \/ ToggleOff(p)
  BY <1>2, StartStep, ToggleOffStep
<1>3. CASE \E c \in DOMAIN casts : Release(c) \/ Cancel(c) \/ Interrupt(c) \/ Input(c)
  BY <1>3, ReleaseStep, CancelStep, InterruptStep, InputStep
<1>4. CASE UNCHANGED vars
  <2>1. World' = World /\ aborted' = aborted /\ refused' = refused
    BY <1>4 DEF vars, World
  <2> QED BY <2>1 DEF IInv
<1> QED BY <1>1, <1>2, <1>3, <1>4 DEF Next

(* The invariant gives what RestoreRuntime and the calls rely on. *)
LEMMA SoundCasts ==
    ASSUME IInv
    PROVE  CastsAreSound
<1>1. PICK w : w = World
  OBVIOUS
<1>2. /\ CastsTyped(w) /\ HeapAgrees(w) /\ SlotsAgree(w) /\ AmmoAgrees(w) /\ DoneAgrees(w)
      /\ w.cooldowns \in [Program \cup {Gcd} -> Nat]
  BY <1>1 DEF IInv, Sound
<1>3. /\ w.casts = casts /\ w.tasks = tasks /\ w.cooldowns = cooldowns /\ w.policies = policies
      /\ w.ammo = ammo /\ w.nextCast = nextCast /\ w.active = active /\ w.completed = completed
  BY <1>1 DEF World
<1>4. Heap(tasks) /\ \A i \in DOMAIN tasks : tasks[i] \in Tasks /\ tasks[i] \in ToSet(tasks)
  BY <1>2, <1>3 DEF HeapAgrees, Heap, ToSet
<1>5. TypeOK
  <2>1. \A c \in DOMAIN casts : casts[c] \in CastRecord
    BY <1>2, <1>3 DEF CastsTyped
  <2>2. \A i \in DOMAIN tasks : tasks[i].due >= 0
    BY <1>4 DEF Tasks, CastTask, RechargeTask
  <2>3. \A i \in DOMAIN tasks : \A j \in 1 .. i : tasks[j].due <= tasks[i].due
    BY <1>4 DEF Heap, Sorted
  <2>4. policies \in [Program -> 0 .. MaxCasts] /\ active \in 0 .. MaxActiveCasts
      /\ cooldowns \in [Program \cup {Gcd} -> Nat]
    BY <1>2, <1>3 DEF SlotsAgree, DoneAgrees
  <2>5. aborted \in BOOLEAN /\ refused \subseteq DOMAIN casts
    BY <1>1, <1>3 DEF IInv, LiveIn
  <2> QED BY ONLY <2>1, <2>2, <2>3, <2>4, <2>5 DEF TypeOK
<1>6. SlotIsHeld
  BY ONLY <1>2, <1>3 DEF SlotsAgree, SlotIsHeld
<1>7. Restorable
  <2>1. ASSUME NEW c \in DOMAIN casts
        PROVE  c \in 1 .. nextCast /\ casts[c].pending = Cardinality({i \in DOMAIN tasks : tasks[i].id = c})
    <3>1. Places(tasks, OfCast(c)) = {i \in DOMAIN tasks : tasks[i].id = c}
      BY <1>4 DEF Places, OfCast
    <3>2. casts[c].pending = Tally(tasks, OfCast(c))
      BY <1>2, <1>3 DEF HeapAgrees
    <3>3. c \in 1 .. nextCast
      BY <1>2, <1>3 DEF CastsTyped
    <3> QED BY <3>1, <3>2, <3>3 DEF Tally
  <2>2. ASSUME NEW p \in Program
        PROVE  policies[p] \in {0} \cup DOMAIN casts /\ ammo[p].stock \in 0 .. Def[p].maxStock
    <3>1. policies[p] \in {0} \cup DOMAIN casts
      BY <1>2, <1>3 DEF SlotsAgree
    <3>2. ammo[p].stock \in Nat /\ ammo[p].stock <= Def[p].maxStock /\ Def[p].maxStock \in Nat
      BY <1>2, <1>3, DefIsTyped DEF AmmoAgrees, AmmoRecord, Definition
    <3> QED BY <3>1, <3>2
  <2>3. active = Cardinality({c \in DOMAIN casts : ~casts[c].done})
    BY <1>2, <1>3 DEF DoneAgrees, NotDone
  <2> QED BY ONLY <2>1, <2>2, <2>3 DEF Restorable
<1>8. AmmoRecharges
  <2>1. ASSUME NEW p \in Program, NEW waiting,
               waiting = {i \in DOMAIN tasks : tasks[i].kind = "recharge" /\ tasks[i].what = p}
        PROVE  /\ ammo[p].scheduled <=> ammo[p].gen > 0 /\ ammo[p].stock < Def[p].maxStock
               /\ Cardinality(waiting) = IF ammo[p].scheduled THEN 1 ELSE 0
               /\ \A i \in waiting : tasks[i].token = ammo[p].gen /\ tasks[i].due = ammo[p].due
    <3>1. Places(tasks, OfSkill(p)) = waiting
      BY <1>4, <2>1 DEF Places, OfSkill
    <3>2. Cardinality(waiting) = Tally(tasks, OfSkill(p))
      BY <3>1 DEF Tally
    <3>3. /\ ammo[p].scheduled <=> ammo[p].gen > 0 /\ ammo[p].stock < Def[p].maxStock
          /\ Tally(tasks, OfSkill(p)) = IF ammo[p].scheduled THEN 1 ELSE 0
      BY <1>2, <1>3 DEF AmmoAgrees
    <3>4. \A i \in waiting : tasks[i].token = ammo[p].gen /\ tasks[i].due = ammo[p].due
      BY <1>2, <1>3, <1>4, <2>1 DEF AmmoAgrees
    <3> QED BY ONLY <3>2, <3>3, <3>4
  <2> QED BY <2>1 DEF AmmoRecharges
<1> QED BY <1>5, <1>6, <1>7, <1>8 DEF CastsAreSound

(* Whatever the programs are, if a start that fails leaves nothing behind:  *)
(* after every call and every task, also one that returns an error, slots   *)
(* name kept policy-active casts, a cast counts its tasks, what             *)
(* RestoreRuntime demands of a checkpoint holds, and a skill below its      *)
(* stock has exactly one recharge.                                          *)
THEOREM CastsSound ==
    ASSUME CleanStarts
    PROVE  Spec => []CastsAreSound
<1>1. Init => IInv
  BY InitSound
<1>2. IInv /\ [Next]_vars => IInv'
  BY NextSound
<1>3. IInv => CastsAreSound
  BY SoundCasts
<1> QED BY <1>1, <1>2, <1>3, PTL DEF Spec

-----------------------------------------------------------------------------
(* The order of commits *)

(* Every execute task of phase k of cast d is behind a commit of that phase. *)
Led(ts, d, k) ==
    \A i \in DOMAIN ts : ts[i].kind = "execute" /\ ts[i].id = d /\ ts[i].token = k =>
        \E j \in 1 .. i - 1 : ts[j].kind = "commit" /\ ts[j].id = d /\ ts[j].token = k

(* Cast c has not committed, and a task of its phase is going to. *)
Poised(w, c) ==
    /\ ~w.casts[c].committed
    /\ \E t \in ToSet(w.tasks) : t.kind = "commit" /\ t.id = c /\ t.token = w.casts[c].token

(* A skill whose commits the exclusivity of the caster keeps apart, and the *)
(* stages that are exclusive.                                               *)
Solo(p) == ~Def[p].concurrent /\ Def[p].mode \in {"tap", "ammo"}
Windows == {"preparing", "committed", "recovering"}

(* A cast commits before it executes; while a task is going to commit it,   *)
(* its window is exclusive and, if it is solo, its cooldown over, ...       *)
Awaited(w, c) ==
    /\ ~w.casts[c].committed => Led(w.tasks, c, w.casts[c].token)
    /\ Poised(w, c) => /\ w.casts[c].stage \in Windows
                       /\ Solo(w.casts[c].prog) => w.cooldowns[w.casts[c].prog] = 0

(* ... and no other cast of the skill is about to commit. *)
Rivals(w, c, d) == /\ c # d /\ w.casts[c].prog = w.casts[d].prog /\ Solo(w.casts[c].prog)
                   /\ Poised(w, c) /\ Poised(w, d)

(* No task is of a phase that its cast has not reached. *)
Reached(w) == \A t \in ToSet(w.tasks) : t.id \in DOMAIN w.casts => t.token <= w.casts[t.id].token

(* The inductive invariant of the order, of worlds; between the steps of a  *)
(* handler of c it holds of the other casts, and of c even if it has ended. *)
Apart(w, c) ==
    /\ Reached(w)
    /\ \A d : LiveIn(w, d) /\ d # c => Awaited(w, d)
    /\ \A d, e : LiveIn(w, d) /\ LiveIn(w, e) /\ d # c /\ e # c => ~Rivals(w, d, e)
Alone(w, c) == \A d : LiveIn(w, d) => ~Rivals(w, c, d)
Ready(w, c) == Apart(w, c) /\ Awaited(w, c) /\ Alone(w, c)
InOrder(w) ==
    /\ Reached(w)
    /\ \A d : LiveIn(w, d) => Awaited(w, d)
    /\ \A d, e : LiveIn(w, d) /\ LiveIn(w, e) => ~Rivals(w, d, e)

(* What is in order is so for the handler of a live cast, ... *)
LEMMA ReadyFirst ==
    ASSUME NEW w, NEW c, InOrder(w)
    PROVE  Apart(w, c) /\ (LiveIn(w, c) => Ready(w, c))
BY DEF InOrder, Apart, Ready, Alone

(* ... and again when the handler is done, with a cast that is ready or has *)
(* ended.                                                                   *)
LEMMA InOrderLast ==
    ASSUME NEW w, NEW c, Ready(w, c) \/ (Apart(w, c) /\ ~LiveIn(w, c))
    PROVE  InOrder(w)
<1>1. Apart(w, c)
  BY DEF Ready
<1>2. CASE Ready(w, c)
  <2>1. Awaited(w, c) /\ Alone(w, c)
    BY <1>2 DEF Ready
  <2>2. ASSUME NEW d, NEW e, LiveIn(w, d), LiveIn(w, e)
        PROVE  ~Rivals(w, d, e)
    <3>1. CASE d = c
      BY <2>1, <2>2, <3>1 DEF Alone
    <3>2. CASE e = c
      <4>1. ~Rivals(w, e, d)
        BY <2>1, <2>2, <3>2 DEF Alone
      <4> QED BY <4>1 DEF Rivals
    <3>3. CASE d # c /\ e # c
      BY <1>1, <2>2, <3>3 DEF Apart
    <3> QED BY <3>1, <3>2, <3>3
  <2> QED BY ONLY <1>1, <2>1, <2>2 DEF InOrder, Apart
<1>3. CASE ~LiveIn(w, c)
  BY <1>1, <1>3 DEF Apart, InOrder
<1> QED BY <1>2, <1>3

(* A task put into the heap leaves every execute task behind its commit, if *)
(* it is no execute task or is due after its commit.                        *)
LEMMA InsertLed ==
    ASSUME NEW ts, Heap(ts), NEW t \in Tasks, NEW d, NEW k, Led(ts, d, k),
           t.kind = "execute" /\ t.id = d /\ t.token = k =>
             \E u \in ToSet(ts) : u.kind = "commit" /\ u.id = d /\ u.token = k /\ u.due <= t.due
    PROVE  Led(Insert(ts, t), d, k)
<1> DEFINE new == Insert(ts, t)
           n == Len(ts)
           IsCommit(u) == u.kind = "commit" /\ u.id = d /\ u.token = k
           IsExecute(u) == u.kind = "execute" /\ u.id = d /\ u.token = k
<1>1. n \in Nat /\ DOMAIN ts = 1 .. n
  BY DEF Heap
<1>2. PICK m \in 1 .. n + 1 :
        /\ new \in Seq(Tasks) /\ Len(new) = n + 1
        /\ \A i \in 1 .. n : ts[i].due <= t.due <=> i < m
        /\ \A i \in 1 .. n + 1 : new[i] = IF i < m THEN ts[i] ELSE IF i = m THEN t ELSE ts[i - 1]
  BY Inserting
<1> HIDE DEF new
<1>3. DOMAIN new = 1 .. n + 1
  BY <1>1, <1>2
<1>4. \A i \in 1 .. n : IsExecute(ts[i]) => \E j \in 1 .. i - 1 : IsCommit(ts[j])
  BY <1>1 DEF Led
<1>5. IsExecute(t) => \E j \in 1 .. n : IsCommit(ts[j]) /\ ts[j].due <= t.due
  BY <1>1 DEF ToSet
<1> HIDE DEF IsCommit, IsExecute, n
<1>6. ASSUME NEW i \in 1 .. n + 1, IsExecute(new[i])
      PROVE  \E j \in 1 .. i - 1 : IsCommit(new[j])
  <2>1. CASE i < m
    <3>1. i \in 1 .. n /\ new[i] = ts[i]
      BY <1>1, <1>2, <2>1
    <3>2. PICK j \in 1 .. i - 1 : IsCommit(ts[j])
      BY <1>4, <1>6, <3>1
    <3>3. j \in 1 .. n + 1 /\ j < m
      BY <1>1, <2>1
    <3>4. new[j] = ts[j]
      BY <1>2, <3>3
    <3> QED BY <3>2, <3>4
  <2>2. CASE i = m
    <3>1. PICK j \in 1 .. n : IsCommit(ts[j]) /\ ts[j].due <= t.due
      BY <1>2, <1>5, <1>6, <2>2
    <3>2. j < m /\ j \in 1 .. n + 1
      BY <1>1, <1>2, <3>1
    <3>3. new[j] = ts[j] /\ j \in 1 .. i - 1
      BY <1>1, <1>2, <2>2, <3>2
    <3> QED BY <3>1, <3>3
  <2>3. CASE i > m
    <3>1. i - 1 \in 1 .. n /\ new[i] = ts[i - 1]
      BY <1>1, <1>2, <2>3
    <3>2. PICK j \in 1 .. (i - 1) - 1 : IsCommit(ts[j])
      BY <1>4, <1>6, <3>1
    <3>3. CASE j < m
      <4>1. j \in 1 .. n + 1 /\ j \in 1 .. i - 1
        BY <1>1, <3>1
      <4> QED BY <1>2, <3>2, <3>3, <4>1
    <3>4. CASE ~(j < m)
      <4>1. j + 1 \in 1 .. n + 1 /\ j + 1 > m /\ j + 1 \in 1 .. i - 1 /\ (j + 1) - 1 = j
        BY <1>1, <1>2, <3>1, <3>4
      <4>2. new[j + 1] = ts[j]
        BY <1>1, <1>2, <4>1
      <4> QED BY <3>2, <4>1, <4>2
    <3> QED BY <3>3, <3>4
  <2> QED BY <1>1, <1>2, <2>1, <2>2, <2>3
<1>7. \A i \in DOMAIN new : IsExecute(new[i]) => \E j \in 1 .. i - 1 : IsCommit(new[j])
  BY <1>3, <1>6
<1> QED BY ONLY <1>7 DEF Led, IsExecute, IsCommit, new

(* So does the removal of tasks that are no commits of the phase, or of the *)
(* whole phase.                                                             *)
LEMMA KeptLed ==
    ASSUME NEW ts, Heap(ts), NEW gone, NEW d, NEW k, Led(ts, d, k),
           \/ \A t \in gone : ~(t.kind = "commit" /\ t.id = d /\ t.token = k)
           \/ \A t \in ToSet(ts) : t.id = d /\ t.token = k => t \in gone
    PROVE  Led(Kept(ts, gone), d, k)
<1> DEFINE new == Kept(ts, gone)
           left == {i \in DOMAIN ts : ts[i] \notin gone}
           n == Len(new)
<1>a. ts \in Seq(Tasks)
  BY DEF Heap
<1>1. DOMAIN ts = 1 .. Len(ts) /\ Len(ts) \in Nat
  BY <1>a
<1>b. \E at \in [1 .. n -> left] :
             /\ new \in Seq(Tasks)
             /\ \A i \in 1 .. n : new[i] = ts[at[i]]
             /\ \A i, j \in 1 .. n : i < j => at[i] < at[j]
             /\ \A i \in DOMAIN ts : ts[i] \notin gone => \E j \in 1 .. n : at[j] = i
  BY <1>a, Keeping
<1>2. PICK at \in [1 .. n -> left] :
             /\ new \in Seq(Tasks)
             /\ \A i \in 1 .. n : new[i] = ts[at[i]]
             /\ \A i, j \in 1 .. n : i < j => at[i] < at[j]
             /\ \A i \in DOMAIN ts : ts[i] \notin gone => \E j \in 1 .. n : at[j] = i
  BY ONLY <1>b
<1> DEFINE IsCommit(u) == u.kind = "commit" /\ u.id = d /\ u.token = k
           IsExecute(u) == u.kind = "execute" /\ u.id = d /\ u.token = k
<1> HIDE DEF new
<1>3. DOMAIN new = 1 .. n /\ n \in Nat
  BY <1>2
<1> HIDE DEF n
<1>4. \A i \in 1 .. n : at[i] \in 1 .. Len(ts) /\ ts[at[i]] \notin gone
  BY <1>1, <1>2
<1>5. \A i \in 1 .. Len(ts) : IsExecute(ts[i]) => \E j \in 1 .. i - 1 : IsCommit(ts[j])
  BY <1>1 DEF Led
<1>6. \/ \A i \in 1 .. Len(ts) : IsCommit(ts[i]) => ts[i] \notin gone
      \/ \A i \in 1 .. Len(ts) : IsExecute(ts[i]) => ts[i] \in gone
  BY <1>1 DEF ToSet
<1> HIDE DEF IsCommit, IsExecute
<1>7. ASSUME NEW i \in 1 .. n, IsExecute(new[i])
      PROVE  \E j \in 1 .. i - 1 : IsCommit(new[j])
  <2>1. IsExecute(ts[at[i]]) /\ at[i] \in 1 .. Len(ts)
    BY <1>2, <1>4, <1>7
  <2>2. PICK l \in 1 .. at[i] - 1 : IsCommit(ts[l])
    BY <1>5, <2>1
  <2>3. l \in 1 .. Len(ts) /\ l < at[i]
    BY <1>1, <2>1
  <2>4. ts[l] \notin gone
    BY <1>4, <1>6, <2>1, <2>2, <2>3
  <2>5. PICK j \in 1 .. n : at[j] = l
    BY <1>1, <1>2, <2>3, <2>4
  <2>6. j < i
    <3>1. at[j] \in Int /\ at[i] \in Int /\ at[j] < at[i] /\ i \in Int /\ j \in Int
      BY <1>3, <1>4, <2>3, <2>5
    <3>2. i < j => at[i] < at[j]
      BY <1>2
    <3>3. i = j => at[i] = at[j]
      OBVIOUS
    <3> QED BY ONLY <3>1, <3>2, <3>3
  <2>7. IsCommit(new[j]) /\ j \in 1 .. i - 1
    BY <1>2, <1>3, <2>2, <2>5, <2>6
  <2> QED BY <2>7
<1>8. \A i \in DOMAIN new : IsExecute(new[i]) => \E j \in 1 .. i - 1 : IsCommit(new[j])
  BY <1>3, <1>7
<1> QED BY ONLY <1>8 DEF Led, IsExecute, IsCommit, new

(* And that of the head, if it is no commit of the phase. *)
LEMMA TailLed ==
    ASSUME NEW ts, Heap(ts), ts # <<>>, NEW d, NEW k, Led(ts, d, k),
           ~(ts[1].kind = "commit" /\ ts[1].id = d /\ ts[1].token = k)
    PROVE  Led(Tail(ts), d, k)
<1> DEFINE new == Tail(ts)
           n == Len(ts)
           IsCommit(u) == u.kind = "commit" /\ u.id = d /\ u.token = k
           IsExecute(u) == u.kind = "execute" /\ u.id = d /\ u.token = k
<1>1. ts \in Seq(Tasks) /\ n \in Nat /\ n > 0 /\ DOMAIN ts = 1 .. n
  BY DEF Heap
<1>2. DOMAIN new = 1 .. (n - 1) /\ \A i \in 1 .. (n - 1) : new[i] = ts[i + 1]
  BY <1>1
<1>3. \A i \in 1 .. n : IsExecute(ts[i]) => \E j \in 1 .. i - 1 : IsCommit(ts[j])
  BY <1>1 DEF Led
<1>4. ~IsCommit(ts[1])
  OBVIOUS
<1> HIDE DEF IsCommit, IsExecute, new, n
<1>5. ASSUME NEW i \in 1 .. (n - 1), IsExecute(new[i])
      PROVE  \E j \in 1 .. i - 1 : IsCommit(new[j])
  <2>1. i + 1 \in 1 .. n /\ IsExecute(ts[i + 1])
    BY <1>1, <1>2, <1>5
  <2>2. PICK l \in 1 .. (i + 1) - 1 : IsCommit(ts[l])
    BY <1>3, <2>1
  <2>3. l # 1
    BY <1>4, <2>2
  <2>4. l - 1 \in 1 .. i - 1 /\ l - 1 \in 1 .. (n - 1) /\ (l - 1) + 1 = l
    BY <1>1, <2>3
  <2>5. new[l - 1] = ts[l]
    BY <1>2, <2>4
  <2> QED BY <2>2, <2>4, <2>5
<1>6. \A i \in DOMAIN new : IsExecute(new[i]) => \E j \in 1 .. i - 1 : IsCommit(new[j])
  BY <1>2, <1>5
<1> QED BY ONLY <1>6 DEF Led, IsExecute, IsCommit, new

-----------------------------------------------------------------------------
(* Steps that keep the order *)

(* What the steps of a handler that commits nothing leave of its cast. *)
Alike(q, r) ==
    /\ r.prog = q.prog /\ r.committed = q.committed
    /\ q.token \in Nat /\ r.token \in Nat /\ q.token <= r.token

(* From w to v a handler of c schedules no commit and no execution, begins *)
(* no cooldown of a solo skill and touches no cast but its own.            *)
Passes(w, v, c) ==
    /\ \A d, k : Led(w.tasks, d, k) => Led(v.tasks, d, k)
    /\ \A t \in ToSet(v.tasks) : t.kind = "commit" => t \in ToSet(w.tasks)
    /\ Reached(w) => Reached(v)
    /\ \A p \in Program : Solo(p) => v.cooldowns[p] = w.cooldowns[p]
    /\ \A d \in DOMAIN v.casts \ {c} : d \in DOMAIN w.casts /\ v.casts[d] = w.casts[d]
    /\ c \in DOMAIN v.casts => c \in DOMAIN w.casts /\ Alike(w.casts[c], v.casts[c])

(* The window of a cast that has not committed stays exclusive. *)
Stays(w, v, c) == ~w.casts[c].committed /\ w.casts[c].stage \in Windows => v.casts[c].stage \in Windows

Follows(w, v, c) == Passes(w, v, c) /\ c \in DOMAIN v.casts /\ Stays(w, v, c)
Closes(w, v, c) == Passes(w, v, c) /\ (LiveIn(v, c) => Stays(w, v, c))

(* Steps follow one another, and the last one may end the cast. *)
LEMMA PassesOn ==
    ASSUME NEW w, NEW v, NEW u, NEW c, Passes(w, v, c), Passes(v, u, c)
    PROVE  Passes(w, u, c)
<1>1. \A d, k : Led(w.tasks, d, k) => Led(u.tasks, d, k)
  BY DEF Passes
<1>2. \A t \in ToSet(u.tasks) : t.kind = "commit" => t \in ToSet(w.tasks)
  BY DEF Passes
<1>3. (Reached(w) => Reached(u)) /\ \A p \in Program : Solo(p) => u.cooldowns[p] = w.cooldowns[p]
  BY DEF Passes
<1>4. \A d \in DOMAIN u.casts \ {c} : d \in DOMAIN w.casts /\ u.casts[d] = w.casts[d]
  BY DEF Passes
<1>5. c \in DOMAIN u.casts => c \in DOMAIN w.casts /\ Alike(w.casts[c], u.casts[c])
  BY DEF Passes, Alike
<1> QED BY ONLY <1>1, <1>2, <1>3, <1>4, <1>5 DEF Passes

(* so that both keep what is open of the cast, ...                          *)
LEMMA ThenFollows ==
    ASSUME NEW w, NEW v, NEW u, NEW c, Follows(w, v, c), Follows(v, u, c)
    PROVE  Follows(w, u, c)
<1>1. Passes(w, u, c)
  BY PassesOn DEF Follows
<1>2. Alike(w.casts[c], v.casts[c])
  BY DEF Follows, Passes
<1>3. Stays(w, u, c)
  BY <1>2 DEF Follows, Stays, Alike
<1> QED BY <1>1, <1>3 DEF Follows

(* or the last one closes it.                                               *)
LEMMA ThenCloses ==
    ASSUME NEW w, NEW v, NEW u, NEW c, Follows(w, v, c), Closes(v, u, c)
    PROVE  Closes(w, u, c)
<1>1. Passes(w, u, c)
  BY PassesOn DEF Follows, Closes
<1>2. Alike(w.casts[c], v.casts[c])
  BY DEF Follows, Passes
<1>3. LiveIn(u, c) => Stays(w, u, c)
  BY <1>2 DEF Follows, Closes, Stays, Alike
<1> QED BY <1>1, <1>3 DEF Closes

(* A handler may also leave its cast open.                                  *)
LEMMA FollowsCloses ==
    ASSUME NEW w, NEW v, NEW c, Follows(w, v, c)
    PROVE  Closes(w, v, c)
BY DEF Follows, Closes

(* A step that ends the cast closes whatever went before. *)
LEMMA EndingCloses ==
    ASSUME NEW w, NEW v, NEW u, NEW c, Passes(w, v, c), Passes(v, u, c), ~LiveIn(u, c)
    PROVE  Closes(w, u, c)
BY PassesOn DEF Closes

(* Such steps make no cast poised. *)
LEMMA PassesPoised ==
    ASSUME NEW w, NEW v, NEW c, Passes(w, v, c), Reached(w), NEW d \in DOMAIN v.casts, Poised(v, d)
    PROVE  d \in DOMAIN w.casts /\ Poised(w, d)
<1>1. d \in DOMAIN w.casts /\ v.casts[d].committed = w.casts[d].committed
  BY DEF Passes, Alike
<1>2. PICK t \in ToSet(v.tasks) : t.kind = "commit" /\ t.id = d /\ t.token = v.casts[d].token
  BY DEF Poised
<1>3. t \in ToSet(w.tasks) /\ t.token <= w.casts[d].token
  BY <1>1, <1>2 DEF Passes, Reached
<1>4. t.token = w.casts[d].token
  <2>1. CASE d = c
    <3>1. w.casts[d].token \in Nat /\ v.casts[d].token \in Nat /\ w.casts[d].token <= v.casts[d].token
      BY <2>1 DEF Passes, Alike
    <3> QED BY ONLY <1>2, <1>3, <3>1
  <2>2. CASE d # c
    BY <1>2, <2>2 DEF Passes
  <2> QED BY <2>1, <2>2
<1> QED BY <1>1, <1>2, <1>3, <1>4 DEF Poised

(* They leave the other casts in order, ... *)
LEMMA PassesApart ==
    ASSUME NEW w, NEW v, NEW c, CastsTyped(w), Passes(w, v, c), Apart(w, c)
    PROVE  Apart(v, c)
<1>1. Reached(w) /\ Reached(v)
  BY DEF Apart, Passes
<1>2. ASSUME NEW d, LiveIn(v, d), d # c
      PROVE  LiveIn(w, d) /\ w.casts[d] = v.casts[d]
  BY <1>2 DEF LiveIn, Passes
<1>3. ASSUME NEW d, LiveIn(v, d), d # c
      PROVE  Awaited(v, d)
  <2>1. LiveIn(w, d) /\ w.casts[d] = v.casts[d] /\ Awaited(w, d)
    BY <1>2, <1>3 DEF Apart
  <2>2. Poised(v, d) => Poised(w, d)
    BY <1>1, <1>3, PassesPoised DEF LiveIn
  <2>3. Led(w.tasks, d, w.casts[d].token) => Led(v.tasks, d, v.casts[d].token)
    BY <2>1 DEF Passes
  <2>4. Solo(w.casts[d].prog) => v.cooldowns[w.casts[d].prog] = w.cooldowns[w.casts[d].prog]
    BY <2>1 DEF Passes, CastsTyped, LiveIn, CastRecord
  <2> QED BY ONLY <2>1, <2>2, <2>3, <2>4 DEF Awaited
<1>4. ASSUME NEW d, NEW e, LiveIn(v, d), LiveIn(v, e), d # c, e # c, Rivals(v, d, e)
      PROVE  FALSE
  <2>1. LiveIn(w, d) /\ LiveIn(w, e) /\ w.casts[d] = v.casts[d] /\ w.casts[e] = v.casts[e]
    BY <1>2, <1>4
  <2>2. Poised(w, d) /\ Poised(w, e)
    BY <1>1, <1>4, PassesPoised DEF LiveIn, Rivals
  <2>3. Rivals(w, d, e)
    BY <1>4, <2>1, <2>2 DEF Rivals
  <2> QED BY <1>4, <2>1, <2>3 DEF Apart
<1> QED BY ONLY <1>1, <1>3, <1>4 DEF Apart

(* ... their own cast ready for what follows, ... *)
LEMMA FollowsReady ==
    ASSUME NEW w, NEW v, NEW c, CastsTyped(w), Follows(w, v, c), Ready(w, c)
    PROVE  Ready(v, c)
<1>1. Passes(w, v, c) /\ Apart(w, c) /\ Reached(w) /\ c \in DOMAIN v.casts /\ c \in DOMAIN w.casts
  BY DEF Follows, Passes, Ready, Apart
<1>2. Apart(v, c)
  BY <1>1, PassesApart
<1>3. Poised(v, c) => Poised(w, c)
  BY <1>1, PassesPoised
<1>4. Alike(w.casts[c], v.casts[c])
  BY <1>1 DEF Passes
<1>5. ~v.casts[c].committed => Led(v.tasks, c, v.casts[c].token)
  <2>1. HAVE ~v.casts[c].committed
  <2>2. Led(w.tasks, c, w.casts[c].token)
    BY <1>4, <2>1 DEF Ready, Awaited, Alike
  <2>3. Led(w.tasks, c, v.casts[c].token)
    <3>1. CASE v.casts[c].token = w.casts[c].token
      BY <2>2, <3>1
    <3>2. CASE v.casts[c].token # w.casts[c].token
      <4>1. ASSUME NEW i \in DOMAIN w.tasks, w.tasks[i].id = c
            PROVE  w.tasks[i].token # v.casts[c].token
        <5>1. w.tasks[i].token <= w.casts[c].token
          BY <1>1, <4>1 DEF Reached, ToSet
        <5> QED BY ONLY <1>4, <3>2, <5>1 DEF Alike
      <4> QED BY <4>1 DEF Led
    <3> QED BY <3>1, <3>2
  <2> QED BY <1>1, <2>3 DEF Passes
<1>6. ASSUME Poised(v, c)
      PROVE  /\ v.casts[c].stage \in Windows
             /\ Solo(v.casts[c].prog) => v.cooldowns[v.casts[c].prog] = 0
  <2>1. /\ ~w.casts[c].committed /\ w.casts[c].stage \in Windows
        /\ Solo(w.casts[c].prog) => w.cooldowns[w.casts[c].prog] = 0
    BY <1>3, <1>4, <1>6 DEF Ready, Awaited, Alike, Poised
  <2>2. w.casts[c].prog \in Program
    BY <1>1 DEF CastsTyped, CastRecord
  <2>3. Solo(w.casts[c].prog) => v.cooldowns[w.casts[c].prog] = w.cooldowns[w.casts[c].prog]
    BY <1>1, <2>2 DEF Passes
  <2> QED BY <1>4, <2>1, <2>3 DEF Follows, Stays, Alike
<1>7. Alone(v, c)
  <2> SUFFICES ASSUME NEW d, LiveIn(v, d), Rivals(v, c, d)
               PROVE  FALSE
    BY DEF Alone
  <2>1. d # c /\ d \in DOMAIN v.casts
    BY DEF Rivals, LiveIn
  <2>2. LiveIn(w, d) /\ w.casts[d] = v.casts[d] /\ Poised(w, d)
    BY <1>1, <2>1, PassesPoised DEF LiveIn, Passes, Rivals
  <2>3. Rivals(w, c, d)
    BY <1>3, <1>4, <2>2 DEF Rivals, Alike
  <2> QED BY <2>2, <2>3 DEF Ready, Alone
<1> QED BY ONLY <1>2, <1>5, <1>6, <1>7 DEF Ready, Awaited

(* ... and when they close, all of the casts in order. *)
LEMMA ClosesInOrder ==
    ASSUME NEW w, NEW v, NEW c, CastsTyped(w), Closes(w, v, c), Ready(w, c)
    PROVE  InOrder(v)
<1>1. CASE LiveIn(v, c)
  <2>1. Follows(w, v, c)
    BY <1>1 DEF Closes, Follows, LiveIn
  <2> QED BY <2>1, FollowsReady, InOrderLast
<1>2. CASE ~LiveIn(v, c)
  <2>1. Apart(v, c)
    BY PassesApart DEF Closes, Ready
  <2> QED BY <1>2, <2>1, InOrderLast
<1> QED BY <1>1, <1>2

-----------------------------------------------------------------------------
(* The steps that keep the order *)

(* A step that writes the cast of the handler and no task. *)
LEMMA Writing ==
    ASSUME NEW w, NEW v, NEW c, c \in DOMAIN w.casts, NEW r, Heap(w.tasks), v.tasks = w.tasks,
           \A p \in Program : Solo(p) => v.cooldowns[p] = w.cooldowns[p],
           v.casts = [w.casts EXCEPT ![c] = r], Alike(w.casts[c], r)
    PROVE  Passes(w, v, c) /\ c \in DOMAIN v.casts /\ v.casts[c] = r
<1>1. /\ DOMAIN v.casts = DOMAIN w.casts /\ v.casts[c] = r
      /\ \A d \in DOMAIN v.casts \ {c} : v.casts[d] = w.casts[d]
  OBVIOUS
<1>2. Reached(w) => Reached(v)
  <2>1. HAVE Reached(w)
  <2>2. ASSUME NEW t \in ToSet(v.tasks), t.id \in DOMAIN v.casts
        PROVE  t.token <= v.casts[t.id].token
    <3>1. t.token <= w.casts[t.id].token
      BY <1>1, <2>1, <2>2 DEF Reached
    <3>2. CASE t.id = c
      <4>1. t \in Tasks
        <5>1. w.tasks \in Seq(Tasks)
          BY DEF Heap
        <5>2. PICK i \in DOMAIN w.tasks : w.tasks[i] = t
          BY <2>2 DEF ToSet
        <5> QED BY <5>1, <5>2
      <4>2. t.token \in Nat
        BY ONLY <4>1 DEF Tasks, CastTask, RechargeTask
      <4> QED BY <1>1, <3>1, <3>2, <4>2 DEF Alike
    <3>3. CASE t.id # c
      BY <1>1, <2>2, <3>1, <3>3
    <3> QED BY <3>2, <3>3
  <2> QED BY <2>2 DEF Reached
<1> QED BY <1>1, <1>2 DEF Passes

(* A change of status keeps the order, and may end the cast. *)
LEMMA StatusFollows ==
    ASSUME NEW w, NEW c, Sound(w), c \in DOMAIN w.casts, NEW s \in {"running", "suspended", "finished", "failed"},
           NEW v, v = [w EXCEPT !.casts[c].status = s]
    PROVE  Follows(w, v, c) /\ (s \in {"finished", "failed"} => ~LiveIn(v, c))
<1> DEFINE r == [w.casts[c] EXCEPT !.status = s]
<1>1. IsWorld(w) /\ w.casts[c] \in CastRecord /\ Heap(w.tasks)
  BY DEF Sound, CastsTyped, HeapAgrees
<1>2. v.tasks = w.tasks /\ v.cooldowns = w.cooldowns /\ v.casts = [w.casts EXCEPT ![c] = r]
  BY ONLY <1>1, v = [w EXCEPT !.casts[c].status = s] DEF IsWorld
<1>3. Alike(w.casts[c], r) /\ r.stage = w.casts[c].stage /\ r.status = s
  BY ONLY <1>1 DEF Alike, CastRecord
<1> HIDE DEF r
<1>4. Passes(w, v, c) /\ c \in DOMAIN v.casts /\ v.casts[c] = r
  BY <1>1, <1>2, <1>3, Writing
<1> QED BY <1>3, <1>4 DEF Follows, Stays, LiveIn, Ended

(* So does the payment of costs, ... *)
LEMMA PaidFollows ==
    ASSUME NEW w, NEW c, Sound(w), c \in DOMAIN w.casts,
           NEW v, v = [w EXCEPT !.casts[c].paid = TRUE]
    PROVE  Follows(w, v, c)
<1> DEFINE r == [w.casts[c] EXCEPT !.paid = TRUE]
<1>1. IsWorld(w) /\ w.casts[c] \in CastRecord /\ Heap(w.tasks)
  BY DEF Sound, CastsTyped, HeapAgrees
<1>2. v.tasks = w.tasks /\ v.cooldowns = w.cooldowns /\ v.casts = [w.casts EXCEPT ![c] = r]
  BY ONLY <1>1, v = [w EXCEPT !.casts[c].paid = TRUE] DEF IsWorld
<1>3. Alike(w.casts[c], r) /\ r.stage = w.casts[c].stage
  BY ONLY <1>1 DEF Alike, CastRecord
<1> HIDE DEF r
<1>4. Passes(w, v, c) /\ c \in DOMAIN v.casts /\ v.casts[c] = r
  BY <1>1, <1>2, <1>3, Writing
<1> QED BY <1>3, <1>4 DEF Follows, Stays

(* ... the beginning of the recovery, which is exclusive, ... *)
LEMMA RecoveringFollows ==
    ASSUME NEW w, NEW c, Sound(w), c \in DOMAIN w.casts,
           NEW v, v = [w EXCEPT !.casts[c].logical = TRUE, !.casts[c].stage = "recovering"]
    PROVE  Follows(w, v, c)
<1> DEFINE r == [w.casts[c] EXCEPT !.logical = TRUE, !.stage = "recovering"]
<1>1. IsWorld(w) /\ w.casts[c] \in CastRecord /\ Heap(w.tasks)
  BY DEF Sound, CastsTyped, HeapAgrees
<1>2. v.tasks = w.tasks /\ v.cooldowns = w.cooldowns /\ v.casts = [w.casts EXCEPT ![c] = r]
  BY ONLY <1>1, v = [w EXCEPT !.casts[c].logical = TRUE, !.casts[c].stage = "recovering"] DEF IsWorld
<1>3. Alike(w.casts[c], r) /\ r.stage = "recovering"
  BY ONLY <1>1 DEF Alike, CastRecord
<1> HIDE DEF r
<1>4. Passes(w, v, c) /\ c \in DOMAIN v.casts /\ v.casts[c] = r
  BY <1>1, <1>2, <1>3, Writing
<1> QED BY <1>3, <1>4 DEF Follows, Stays, Windows

(* ... its end, ... *)
LEMMA CompletePasses ==
    ASSUME NEW w, NEW c, Sound(w), c \in DOMAIN w.casts,
           NEW v, v = [w EXCEPT !.casts[c].stage = "complete", !.casts[c].status = "finished"]
    PROVE  Passes(w, v, c) /\ c \in DOMAIN v.casts /\ ~LiveIn(v, c)
<1> DEFINE r == [w.casts[c] EXCEPT !.stage = "complete", !.status = "finished"]
<1>1. IsWorld(w) /\ w.casts[c] \in CastRecord /\ Heap(w.tasks)
  BY DEF Sound, CastsTyped, HeapAgrees
<1>2. v.tasks = w.tasks /\ v.cooldowns = w.cooldowns /\ v.casts = [w.casts EXCEPT ![c] = r]
  BY ONLY <1>1, v = [w EXCEPT !.casts[c].stage = "complete", !.casts[c].status = "finished"] DEF IsWorld
<1>3. Alike(w.casts[c], r) /\ r.status = "finished"
  BY ONLY <1>1 DEF Alike, CastRecord
<1> HIDE DEF r
<1>4. Passes(w, v, c) /\ c \in DOMAIN v.casts /\ v.casts[c] = r
  BY <1>1, <1>2, <1>3, Writing
<1> QED BY <1>3, <1>4 DEF LiveIn, Ended

(* ... a cancellation, ... *)
LEMMA CancelledPasses ==
    ASSUME NEW w, NEW c, Sound(w), c \in DOMAIN w.casts,
           NEW v, v = [w EXCEPT !.casts[c].stage = "cancelled", !.casts[c].status = "finished"]
    PROVE  Passes(w, v, c) /\ c \in DOMAIN v.casts /\ ~LiveIn(v, c)
<1> DEFINE r == [w.casts[c] EXCEPT !.stage = "cancelled", !.status = "finished"]
<1>1. IsWorld(w) /\ w.casts[c] \in CastRecord /\ Heap(w.tasks)
  BY DEF Sound, CastsTyped, HeapAgrees
<1>2. v.tasks = w.tasks /\ v.cooldowns = w.cooldowns /\ v.casts = [w.casts EXCEPT ![c] = r]
  BY ONLY <1>1, v = [w EXCEPT !.casts[c].stage = "cancelled", !.casts[c].status = "finished"] DEF IsWorld
<1>3. Alike(w.casts[c], r) /\ r.status = "finished"
  BY ONLY <1>1 DEF Alike, CastRecord
<1> HIDE DEF r
<1>4. Passes(w, v, c) /\ c \in DOMAIN v.casts /\ v.casts[c] = r
  BY <1>1, <1>2, <1>3, Writing
<1> QED BY <1>3, <1>4 DEF LiveIn, Ended

(* ... the execution of a cast that has committed, ... *)
LEMMA ExecutingFollows ==
    ASSUME NEW w, NEW c, Sound(w), c \in DOMAIN w.casts, w.casts[c].committed,
           NEW v, v = [w EXCEPT !.casts[c].stage = "executing", !.casts[c].status = "running"]
    PROVE  Follows(w, v, c)
<1> DEFINE r == [w.casts[c] EXCEPT !.stage = "executing", !.status = "running"]
<1>1. IsWorld(w) /\ w.casts[c] \in CastRecord /\ Heap(w.tasks)
  BY DEF Sound, CastsTyped, HeapAgrees
<1>2. v.tasks = w.tasks /\ v.cooldowns = w.cooldowns /\ v.casts = [w.casts EXCEPT ![c] = r]
  BY ONLY <1>1, v = [w EXCEPT !.casts[c].stage = "executing", !.casts[c].status = "running"] DEF IsWorld
<1>3. Alike(w.casts[c], r)
  BY ONLY <1>1 DEF Alike, CastRecord
<1> HIDE DEF r
<1>4. Passes(w, v, c) /\ c \in DOMAIN v.casts /\ v.casts[c] = r
  BY <1>1, <1>2, <1>3, Writing
<1> QED BY <1>3, <1>4 DEF Follows, Stays

(* ... a new phase token, ... *)
LEMMA TokenFollows ==
    ASSUME NEW w, NEW c, Sound(w), c \in DOMAIN w.casts,
           NEW v, v = [w EXCEPT !.casts[c].token = @ + 1]
    PROVE  Follows(w, v, c) /\ v.casts[c].token = w.casts[c].token + 1
<1> DEFINE r == [w.casts[c] EXCEPT !.token = @ + 1]
<1>1. IsWorld(w) /\ w.casts[c] \in CastRecord /\ Heap(w.tasks)
  BY DEF Sound, CastsTyped, HeapAgrees
<1>2. v.tasks = w.tasks /\ v.cooldowns = w.cooldowns /\ v.casts = [w.casts EXCEPT ![c] = r]
  BY ONLY <1>1, v = [w EXCEPT !.casts[c].token = @ + 1] DEF IsWorld
<1>3. Alike(w.casts[c], r) /\ r.stage = w.casts[c].stage /\ r.token = w.casts[c].token + 1
  BY ONLY <1>1 DEF Alike, CastRecord
<1> HIDE DEF r
<1>4. Passes(w, v, c) /\ c \in DOMAIN v.casts /\ v.casts[c] = r
  BY <1>1, <1>2, <1>3, Writing
<1> QED BY <1>3, <1>4 DEF Follows, Stays

(* ... a change of phase, ... *)
LEMMA PhaseFollows ==
    ASSUME NEW w, NEW c, Sound(w), c \in DOMAIN w.casts,
           NEW v, v = [w EXCEPT !.casts[c].token = @ + 1, !.casts[c].phase = 2]
    PROVE  Follows(w, v, c)
<1> DEFINE r == [w.casts[c] EXCEPT !.token = @ + 1, !.phase = 2]
<1>1. IsWorld(w) /\ w.casts[c] \in CastRecord /\ Heap(w.tasks)
  BY DEF Sound, CastsTyped, HeapAgrees
<1>2. v.tasks = w.tasks /\ v.cooldowns = w.cooldowns /\ v.casts = [w.casts EXCEPT ![c] = r]
  BY ONLY <1>1, v = [w EXCEPT !.casts[c].token = @ + 1, !.casts[c].phase = 2] DEF IsWorld
<1>3. Alike(w.casts[c], r) /\ r.stage = w.casts[c].stage
  BY ONLY <1>1 DEF Alike, CastRecord
<1> HIDE DEF r
<1>4. Passes(w, v, c) /\ c \in DOMAIN v.casts /\ v.casts[c] = r
  BY <1>1, <1>2, <1>3, Writing
<1> QED BY <1>3, <1>4 DEF Follows, Stays

(* ... the preparation of a window, ... *)
LEMMA PreparingFollows ==
    ASSUME NEW w, NEW c, Sound(w), c \in DOMAIN w.casts, NEW root \in {"enter", "release"},
           NEW v, v = [w EXCEPT !.casts[c].root = root, !.casts[c].stage = "preparing"]
    PROVE  Follows(w, v, c) /\ v.casts[c].stage = "preparing"
<1> DEFINE r == [w.casts[c] EXCEPT !.root = root, !.stage = "preparing"]
<1>1. IsWorld(w) /\ w.casts[c] \in CastRecord /\ Heap(w.tasks)
  BY DEF Sound, CastsTyped, HeapAgrees
<1>2. v.tasks = w.tasks /\ v.cooldowns = w.cooldowns /\ v.casts = [w.casts EXCEPT ![c] = r]
  BY ONLY <1>1, v = [w EXCEPT !.casts[c].root = root, !.casts[c].stage = "preparing"] DEF IsWorld
<1>3. Alike(w.casts[c], r) /\ r.stage = "preparing"
  BY ONLY <1>1 DEF Alike, CastRecord
<1> HIDE DEF r
<1>4. Passes(w, v, c) /\ c \in DOMAIN v.casts /\ v.casts[c] = r
  BY <1>1, <1>2, <1>3, Writing
<1> QED BY <1>3, <1>4 DEF Follows, Stays, Windows

(* ... the loss of the slot, ... *)
LEMMA DropSlotFollows ==
    ASSUME NEW w, NEW c, Sound(w), c \in DOMAIN w.casts,
           NEW v, v = DropSlot(w, c)
    PROVE  Follows(w, v, c)
<1> DEFINE r == [w.casts[c] EXCEPT !.policy = FALSE]
<1>1. IsWorld(w) /\ w.casts[c] \in CastRecord /\ Heap(w.tasks)
  BY DEF Sound, CastsTyped, HeapAgrees
<1>2. v.tasks = w.tasks /\ v.cooldowns = w.cooldowns /\ v.casts = [w.casts EXCEPT ![c] = r]
  BY ONLY <1>1, v = DropSlot(w, c) DEF IsWorld, DropSlot
<1>3. Alike(w.casts[c], r) /\ r.stage = w.casts[c].stage
  BY ONLY <1>1 DEF Alike, CastRecord
<1> HIDE DEF r
<1>4. Passes(w, v, c) /\ c \in DOMAIN v.casts /\ v.casts[c] = r
  BY <1>1, <1>2, <1>3, Writing
<1> QED BY <1>3, <1>4 DEF Follows, Stays

(* ... its taking, ... *)
LEMMA TakeSlotFollows ==
    ASSUME NEW w, NEW c, Sound(w), c \in DOMAIN w.casts,
           NEW v, v = [w EXCEPT !.casts[c].policy = TRUE, !.casts[c].status = "suspended", !.policies[w.casts[c].prog] = c]
    PROVE  Follows(w, v, c)
<1> DEFINE r == [w.casts[c] EXCEPT !.policy = TRUE, !.status = "suspended"]
<1>1. IsWorld(w) /\ w.casts[c] \in CastRecord /\ Heap(w.tasks)
  BY DEF Sound, CastsTyped, HeapAgrees
<1>2. v.tasks = w.tasks /\ v.cooldowns = w.cooldowns /\ v.casts = [w.casts EXCEPT ![c] = r]
  BY ONLY <1>1, v = [w EXCEPT !.casts[c].policy = TRUE, !.casts[c].status = "suspended", !.policies[w.casts[c].prog] = c] DEF IsWorld
<1>3. Alike(w.casts[c], r) /\ r.stage = w.casts[c].stage
  BY ONLY <1>1 DEF Alike, CastRecord
<1> HIDE DEF r
<1>4. Passes(w, v, c) /\ c \in DOMAIN v.casts /\ v.casts[c] = r
  BY <1>1, <1>2, <1>3, Writing
<1> QED BY <1>3, <1>4 DEF Follows, Stays

(* ... and its loss in the end of a cast that is broken off. *)
LEMMA LeaveSlotFollows ==
    ASSUME NEW w, NEW c, Sound(w), c \in DOMAIN w.casts, NEW s,
           NEW v, v = [w EXCEPT !.casts[c].policy = FALSE, !.policies[w.casts[c].prog] = s]
    PROVE  Follows(w, v, c)
<1> DEFINE r == [w.casts[c] EXCEPT !.policy = FALSE]
<1>1. IsWorld(w) /\ w.casts[c] \in CastRecord /\ Heap(w.tasks)
  BY DEF Sound, CastsTyped, HeapAgrees
<1>2. v.tasks = w.tasks /\ v.cooldowns = w.cooldowns /\ v.casts = [w.casts EXCEPT ![c] = r]
  BY ONLY <1>1, v = [w EXCEPT !.casts[c].policy = FALSE, !.policies[w.casts[c].prog] = s] DEF IsWorld
<1>3. Alike(w.casts[c], r) /\ r.stage = w.casts[c].stage
  BY ONLY <1>1 DEF Alike, CastRecord
<1> HIDE DEF r
<1>4. Passes(w, v, c) /\ c \in DOMAIN v.casts /\ v.casts[c] = r
  BY <1>1, <1>2, <1>3, Writing
<1> QED BY <1>3, <1>4 DEF Follows, Stays

-----------------------------------------------------------------------------
(* A step that keeps casts, tasks and cooldowns, as the error of a handler. *)
LEMMA SameFollows ==
    ASSUME NEW w, NEW v, NEW c, CastsTyped(w), c \in DOMAIN w.casts,
           v.casts = w.casts, v.tasks = w.tasks, v.cooldowns = w.cooldowns
    PROVE  Follows(w, v, c)
<1>1. w.casts[c] \in CastRecord
  BY DEF CastsTyped
<1>2. Alike(w.casts[c], w.casts[c])
  BY ONLY <1>1 DEF Alike, CastRecord
<1>3. Reached(w) => Reached(v)
  BY DEF Reached
<1>4. Passes(w, v, c)
  BY <1>2, <1>3 DEF Passes
<1> QED BY <1>4 DEF Follows, Stays

(* The error of a handler, ... *)
LEMMA BadFollows ==
    ASSUME NEW w, NEW c, Sound(w), c \in DOMAIN w.casts, NEW v, v = Bad(w)
    PROVE  Follows(w, v, c)
<1>1. IsWorld(w) /\ CastsTyped(w)
  BY DEF Sound
<1>2. v.casts = w.casts /\ v.tasks = w.tasks /\ v.cooldowns = w.cooldowns
  BY ONLY <1>1, v = Bad(w) DEF Bad, IsWorld
<1> QED BY <1>1, <1>2, SameFollows

(* The task t of cast c is put into the heap. *)
Adds(w, v, c, t) ==
    /\ t \in Tasks /\ t.id = c /\ t.token = w.casts[c].token
    /\ v.tasks = Insert(w.tasks, t) /\ ToSet(v.tasks) = ToSet(w.tasks) \cup {t}

(* What a scheduled task leaves. *)
LEMMA Scheduled ==
    ASSUME NEW w, NEW c, Sound(w), c \in DOMAIN w.casts,
           NEW due \in Nat, NEW kind \in CastKinds, NEW what \in Words,
           NEW v, v = Schedule(w, c, due, kind, what)
    PROVE  /\ Adds(w, v, c, Task(due, kind, c, w.casts[c].token, what))
           /\ v.cooldowns = w.cooldowns /\ DOMAIN v.casts = DOMAIN w.casts
           /\ \A d \in DOMAIN w.casts \ {c} : v.casts[d] = w.casts[d]
           /\ v.casts[c].token = w.casts[c].token /\ v.casts[c].prog = w.casts[c].prog
           /\ v.casts[c].committed = w.casts[c].committed /\ v.casts[c].stage = w.casts[c].stage
           /\ v.casts[c].status = "suspended"
<1> DEFINE r == [w.casts[c] EXCEPT !.pending = @ + 1, !.status = "suspended"]
<1>a. PICK t : t = Task(due, kind, c, w.casts[c].token, what)
  OBVIOUS
<1>1. IsWorld(w) /\ w.casts[c] \in CastRecord /\ c \in Nat \ {0} /\ Heap(w.tasks)
  BY LimitsAreNumbers DEF Sound, CastsTyped, HeapAgrees
<1>2. v = [w EXCEPT !.tasks = Insert(@, t), !.casts[c].pending = @ + 1, !.casts[c].status = "suspended"]
  BY <1>a DEF Schedule
<1>3. t \in Tasks /\ t.kind = kind /\ t.id = c /\ t.token = w.casts[c].token /\ t.due = due
  BY <1>1, <1>a DEF Task, Tasks, CastTask, CastRecord, CastKinds
<1>4. v.tasks = Insert(w.tasks, t) /\ v.cooldowns = w.cooldowns
  BY ONLY <1>1, <1>2 DEF IsWorld
<1>5. v.casts = [w.casts EXCEPT ![c] = r]
  BY ONLY <1>1, <1>2 DEF IsWorld
<1>6. /\ r.token = w.casts[c].token /\ r.prog = w.casts[c].prog
      /\ r.committed = w.casts[c].committed /\ r.stage = w.casts[c].stage /\ r.status = "suspended"
  BY <1>1 DEF CastRecord
<1>7. DOMAIN v.casts = DOMAIN w.casts /\ v.casts[c] = r /\ \A d \in DOMAIN w.casts \ {c} : v.casts[d] = w.casts[d]
  BY <1>5
<1> HIDE DEF r
<1>8. ToSet(v.tasks) = ToSet(w.tasks) \cup {t}
  BY <1>1, <1>3, <1>4, Inserted
<1> QED BY <1>a, <1>3, <1>4, <1>6, <1>7, <1>8 DEF Adds

(* The casts and the tasks stay as they are in phase when one is scheduled. *)
LEMMA ScheduledReached ==
    ASSUME NEW w, NEW v, NEW c, w.casts[c].token \in Nat, Reached(w), NEW t,
           ToSet(v.tasks) = ToSet(w.tasks) \cup {t}, t.id = c, t.token = w.casts[c].token,
           DOMAIN v.casts = DOMAIN w.casts, \A d \in DOMAIN w.casts \ {c} : v.casts[d] = w.casts[d],
           v.casts[c].token = w.casts[c].token
    PROVE  Reached(v)
<1>1. ASSUME NEW u \in ToSet(v.tasks), u.id \in DOMAIN v.casts
      PROVE  u.token <= v.casts[u.id].token
  <2>1. v.casts[u.id].token = w.casts[u.id].token
    BY <1>1
  <2>2. CASE u = t
    BY <2>1, <2>2
  <2>3. CASE u \in ToSet(w.tasks)
    BY <1>1, <2>1, <2>3 DEF Reached
  <2> QED BY <1>1, <2>2, <2>3
<1> QED BY <1>1 DEF Reached

(* ... a task that neither commits nor executes, ... *)
LEMMA ScheduleFollows ==
    ASSUME NEW w, NEW c, Sound(w), c \in DOMAIN w.casts,
           NEW due \in Int, NEW kind \in CastKinds \ {"commit", "execute"}, NEW what \in Words,
           NEW v, v = Schedule(w, c, due, kind, what)
    PROVE  Follows(w, v, c)
<1>1. CASE due < 0
  BY <1>1, BadFollows DEF Schedule
<1>2. CASE ~(due < 0)
  <2>1. PICK e \in Nat : e = due
    BY <1>2
  <2>a. v = Schedule(w, c, e, kind, what) /\ kind \in CastKinds
    BY <2>1
  <2>b. /\ Adds(w, v, c, Task(e, kind, c, w.casts[c].token, what))
        /\ v.cooldowns = w.cooldowns /\ DOMAIN v.casts = DOMAIN w.casts
        /\ \A d \in DOMAIN w.casts \ {c} : v.casts[d] = w.casts[d]
        /\ v.casts[c].token = w.casts[c].token /\ v.casts[c].prog = w.casts[c].prog
        /\ v.casts[c].committed = w.casts[c].committed /\ v.casts[c].stage = w.casts[c].stage
    BY ONLY Sound(w), c \in DOMAIN w.casts, e \in Nat, <2>a, what \in Words, Scheduled
  <2>2. PICK t \in Tasks :
               /\ t.kind = kind /\ t.id = c /\ t.token = w.casts[c].token
               /\ v.tasks = Insert(w.tasks, t) /\ ToSet(v.tasks) = ToSet(w.tasks) \cup {t}
    BY <2>b DEF Adds, Task
  <2>3. Heap(w.tasks) /\ w.casts[c] \in CastRecord
    BY DEF Sound, HeapAgrees, CastsTyped
  <2>4. w.casts[c].token \in Nat
    BY <2>3 DEF CastRecord
  <2>5. ASSUME NEW d, NEW k, Led(w.tasks, d, k)
        PROVE  Led(v.tasks, d, k)
    BY <2>2, <2>3, <2>5, InsertLed
  <2>6. Reached(w) => Reached(v)
    <3> HAVE Reached(w)
    <3> QED BY <2>b, <2>2, <2>4, ScheduledReached
  <2>7. Alike(w.casts[c], v.casts[c])
    BY <2>b, <2>4 DEF Alike
  <2>8. \A u \in ToSet(v.tasks) : u.kind = "commit" => u \in ToSet(w.tasks)
    BY <2>2
  <2>9. Passes(w, v, c)
    BY <2>b, <2>5, <2>6, <2>7, <2>8 DEF Passes
  <2> QED BY <2>b, <2>9 DEF Follows, Stays
<1> QED BY <1>1, <1>2

(* ... the end of the tasks of the phase, ... *)
LEMMA CancelTasksFollows ==
    ASSUME NEW w, NEW c, Sound(w), c \in DOMAIN w.casts, NEW v, v = CancelPhaseTasks(w, c)
    PROVE  Follows(w, v, c) /\ PhaseOf(v, c) = {} /\ v.casts[c].token = w.casts[c].token
<1> DEFINE phase == {t \in ToSet(w.tasks) : t.id = c /\ t.token = w.casts[c].token}
           gone == Len(w.tasks) - Len(Kept(w.tasks, phase))
           n == IF w.casts[c].pending > gone THEN w.casts[c].pending - gone ELSE 0
           r == [w.casts[c] EXCEPT !.pending = n]
<1>1. IsWorld(w) /\ w.casts[c] \in CastRecord /\ Heap(w.tasks)
  BY DEF Sound, CastsTyped, HeapAgrees
<1>2. v = [w EXCEPT !.tasks = Kept(w.tasks, phase), !.casts[c].pending = n]
  BY DEF CancelPhaseTasks
<1>3. /\ Calm(w, v, c) /\ Held(w.casts[c], v.casts[c])
      /\ ToSet(v.tasks) = ToSet(w.tasks) \ PhaseOf(w, c)
  BY CancelTasksCalm
<1> HIDE DEF n, phase
<1>4. v.tasks = Kept(w.tasks, phase) /\ v.cooldowns = w.cooldowns
  BY ONLY <1>1, <1>2 DEF IsWorld
<1>5. v.casts = [w.casts EXCEPT ![c] = r]
  BY ONLY <1>1, <1>2 DEF IsWorld
<1>6. r.prog = w.casts[c].prog /\ Held(w.casts[c], r) /\ w.casts[c].token \in Nat
  BY <1>1 DEF CastRecord, Held
<1>7. DOMAIN v.casts = DOMAIN w.casts /\ v.casts[c] = r /\ \A d \in DOMAIN w.casts \ {c} : v.casts[d] = w.casts[d]
  BY <1>5
<1> HIDE DEF r
<1>8. ASSUME NEW d, NEW k, Led(w.tasks, d, k)
      PROVE  Led(v.tasks, d, k)
  <2>1. CASE d = c /\ k = w.casts[c].token
    <3>1. \A t \in ToSet(w.tasks) : t.id = d /\ t.token = k => t \in phase
      BY <2>1 DEF phase
    <3> QED BY ONLY <1>1, <1>4, <1>8, <3>1, KeptLed
  <2>2. CASE ~(d = c /\ k = w.casts[c].token)
    <3>1. \A t \in phase : ~(t.kind = "commit" /\ t.id = d /\ t.token = k)
      BY <2>2 DEF phase
    <3> QED BY ONLY <1>1, <1>4, <1>8, <3>1, KeptLed
  <2> QED BY <2>1, <2>2
<1>9. Reached(w) => Reached(v)
  <2>1. \A d \in DOMAIN w.casts : v.casts[d].token = w.casts[d].token
    BY <1>6, <1>7 DEF Held
  <2> QED BY ONLY <1>3, <1>7, <2>1 DEF Reached
<1>10. Passes(w, v, c)
  BY <1>3, <1>4, <1>6, <1>7, <1>8, <1>9 DEF Passes, Alike, Held
<1>11. PhaseOf(v, c) = {} /\ v.casts[c].token = w.casts[c].token
  BY <1>3, <1>6, <1>7 DEF PhaseOf, Held
<1> QED BY <1>3, <1>7, <1>10, <1>11 DEF Follows, Stays, Held

(* The removal of completed casts takes no task. *)
LEMMA PruneOnly ==
    ASSUME NEW w, IsWorld(w), NEW v, v = PruneCompleted(w)
    PROVE  /\ v.tasks = w.tasks /\ v.cooldowns = w.cooldowns
           /\ \A d \in DOMAIN v.casts : d \in DOMAIN w.casts /\ v.casts[d] = w.casts[d]
<1> DEFINE may == Kept(w.completed, {d \in DOMAIN w.casts : ~Evictable(w, d)})
           over == Len(w.completed) - CompletedCastLimit
           out == {may[i] : i \in {j \in DOMAIN may : j <= over}}
           kept == Kept(w.completed, out)
<1>1. v = [w EXCEPT !.completed = kept, !.casts = [d \in DOMAIN @ \ out |-> @[d]]]
  BY DEF PruneCompleted
<1> HIDE DEF out, kept
<1>2. v.tasks = w.tasks /\ v.cooldowns = w.cooldowns
  BY ONLY IsWorld(w), <1>1 DEF IsWorld
<1>3. v.casts = [d \in DOMAIN w.casts \ out |-> w.casts[d]]
  BY ONLY IsWorld(w), <1>1 DEF IsWorld
<1> QED BY <1>2, <1>3

(* ... and the count of a cast as done, which keeps its status. *)
LEMMA MarkPasses ==
    ASSUME NEW w, NEW c, Sound(w), c \in DOMAIN w.casts, NEW v, v = MarkFinished(w, c)
    PROVE  Passes(w, v, c) /\ (~LiveIn(w, c) => ~LiveIn(v, c))
<1>1. IsWorld(w) /\ w.casts[c] \in CastRecord /\ CastsTyped(w) /\ Heap(w.tasks)
  BY DEF Sound, CastsTyped, HeapAgrees
<1>2. CASE w.casts[c].done
  <2>1. v = w
    BY <1>2 DEF MarkFinished
  <2> QED BY <1>1, <2>1, SameFollows DEF Follows
<1>3. CASE ~w.casts[c].done
  <2> DEFINE r == [w.casts[c] EXCEPT !.done = TRUE]
  <2>1. PICK u : u = [w EXCEPT !.casts[c].done = TRUE, !.active = IF @ > 0 THEN @ - 1 ELSE 0]
    OBVIOUS
  <2>2. IsWorld(u) /\ u.tasks = w.tasks /\ u.cooldowns = w.cooldowns
    BY ONLY <1>1, <2>1 DEF IsWorld
  <2>3. u.casts = [w.casts EXCEPT ![c] = r]
    BY ONLY <1>1, <2>1 DEF IsWorld
  <2>4. Alike(w.casts[c], r) /\ r.status = w.casts[c].status
    BY ONLY <1>1 DEF Alike, CastRecord
  <2> HIDE DEF r
  <2>5. Passes(w, u, c) /\ c \in DOMAIN u.casts /\ u.casts[c] = r
    BY <1>1, <2>2, <2>3, <2>4, Writing
  <2>6. ~LiveIn(w, c) => ~LiveIn(u, c)
    BY <2>4, <2>5 DEF LiveIn, Ended
  <2> DEFINE ends == w.casts[c].status = "finished" \/ (w.casts[c].status = "failed" /\ w.casts[c].committed)
  <2>7. CASE ~ends
    <3>1. v = u
      BY <1>3, <2>1, <2>7 DEF MarkFinished
    <3> QED BY <2>5, <2>6, <3>1
  <2>8. CASE ends
    <3>1. PICK z : z = [u EXCEPT !.completed = Append(@, c)]
      OBVIOUS
    <3>2. v = PruneCompleted(z)
      BY <1>3, <2>1, <2>8, <3>1 DEF MarkFinished
    <3>3. IsWorld(z) /\ z.casts = u.casts /\ z.tasks = u.tasks /\ z.cooldowns = u.cooldowns
      BY ONLY <2>2, <3>1 DEF IsWorld
    <3>5. /\ v.tasks = z.tasks /\ v.cooldowns = z.cooldowns
          /\ \A d \in DOMAIN v.casts : d \in DOMAIN z.casts /\ v.casts[d] = z.casts[d]
      BY <3>2, <3>3, PruneOnly
    <3>6. v.tasks = u.tasks /\ v.cooldowns = u.cooldowns
          /\ \A d \in DOMAIN v.casts : d \in DOMAIN u.casts /\ v.casts[d] = u.casts[d]
      BY <3>3, <3>5
    <3>7. Reached(u) => Reached(v)
      BY <3>6 DEF Reached
    <3>8. Alike(r, r)
      BY <2>4 DEF Alike
    <3>9. Passes(u, v, c)
      BY <2>5, <3>6, <3>7, <3>8 DEF Passes
    <3>10. ~LiveIn(u, c) => ~LiveIn(v, c)
      BY <3>6 DEF LiveIn
    <3> QED BY <2>5, <2>6, <3>9, <3>10, PassesOn
  <2> QED BY <2>7, <2>8
<1> QED BY <1>2, <1>3

(* The cooldown of a skill that is not solo. *)
LEMMA StartCooldownFollows ==
    ASSUME NEW w, NEW c, Sound(w), c \in DOMAIN w.casts, ~Solo(w.casts[c].prog),
           NEW v, v = StartCooldown(w, c)
    PROVE  Follows(w, v, c)
<1>1. IsWorld(w) /\ CastsTyped(w) /\ w.casts[c] \in CastRecord /\ Heap(w.tasks)
  BY DEF Sound, CastsTyped, HeapAgrees
<1>2. CASE w.casts[c].cooled
  BY <1>1, <1>2, SameFollows DEF StartCooldown
<1>3. CASE ~w.casts[c].cooled
  <2> DEFINE r == [w.casts[c] EXCEPT !.cooled = TRUE]
             p == w.casts[c].prog
             g == DefOf(w, c).cooldown
  <2>1. v = [w EXCEPT !.casts[c].cooled = TRUE, !.cooldowns[p] = g]
    BY <1>3 DEF StartCooldown
  <2> HIDE DEF p, g
  <2>2. v.tasks = w.tasks /\ v.cooldowns = [w.cooldowns EXCEPT ![p] = g]
    BY ONLY <1>1, <2>1 DEF IsWorld
  <2>3. v.casts = [w.casts EXCEPT ![c] = r]
    BY ONLY <1>1, <2>1 DEF IsWorld
  <2>4. Alike(w.casts[c], r) /\ r.stage = w.casts[c].stage
    BY ONLY <1>1 DEF Alike, CastRecord
  <2> HIDE DEF r
  <2>5. \A q \in Program : Solo(q) => v.cooldowns[q] = w.cooldowns[q]
    BY <2>2 DEF Sound, p
  <2>6. Passes(w, v, c) /\ c \in DOMAIN v.casts /\ v.casts[c] = r
    BY <1>1, <2>2, <2>3, <2>4, <2>5, Writing
  <2> QED BY <2>4, <2>6 DEF Follows, Stays
<1> QED BY <1>2, <1>3

-----------------------------------------------------------------------------
(* Handlers keep the order *)

(* A handler that waits for a task, ... *)
LEMMA WaitFollows ==
    ASSUME NEW w, NEW c, Sound(w), c \in DOMAIN w.casts, NEW v, v = Schedule(w, c, Wait, "flow", "tail")
    PROVE  Follows(w, v, c)
<1>1. PICK due \in Int : due = Wait
  BY LimitsAreNumbers
<1>2. PICK kind \in CastKinds \ {"commit", "execute"} : kind = "flow"
  BY DEF CastKinds
<1>3. PICK what \in Words : what = "tail"
  BY DEF Words
<1>4. v = Schedule(w, c, due, kind, what)
  BY <1>1, <1>2, <1>3
<1> QED BY ONLY Sound(w), c \in DOMAIN w.casts, due \in Int, kind \in CastKinds \ {"commit", "execute"},
                what \in Words, <1>4, ScheduleFollows

(* ... forks a branch, ... *)
LEMMA ForkedFollows ==
    ASSUME NEW w, NEW c, Sound(w), c \in DOMAIN w.casts, NEW o, NEW v, v = Forked(w, c, o)
    PROVE  Follows(w, v, c)
<1>1. CASE o.fork
  <2>1. PICK due \in Int : due = Wait
    BY LimitsAreNumbers
  <2>2. PICK kind \in CastKinds \ {"commit", "execute"} : kind = "flow"
    BY DEF CastKinds
  <2>3. PICK what \in Words : what = "branch"
    BY DEF Words
  <2>4. v = Schedule(w, c, due, kind, what)
    BY <1>1, <2>1, <2>2, <2>3 DEF Forked
  <2> QED BY ONLY Sound(w), c \in DOMAIN w.casts, due \in Int, kind \in CastKinds \ {"commit", "execute"},
                  what \in Words, <2>4, ScheduleFollows
<1>2. CASE ~o.fork
  <2>1. v = w /\ CastsTyped(w)
    BY <1>2 DEF Forked, Sound
  <2> QED BY <2>1, SameFollows
<1> QED BY <1>1, <1>2

(* ... goes on to the next phase, ... *)
LEMMA NextPhaseFollows ==
    ASSUME NEW w, NEW c, Sound(w), c \in DOMAIN w.casts, NEW v, v = NextPhase(w, c)
    PROVE  Follows(w, v, c)
<1>1. PICK u : u = CancelPhaseTasks(w, c)
  OBVIOUS
<1>2. Follows(w, u, c)
  BY <1>1, CancelTasksFollows
<1>3. Sound(u) /\ c \in DOMAIN u.casts
  <2>1. Calm(w, u, c)
    BY <1>1, CancelTasksCalm
  <2> QED BY <2>1 DEF Calm, Keeps, Does
<1>4. v = [u EXCEPT !.casts[c].token = @ + 1, !.casts[c].phase = 2]
  BY <1>1 DEF NextPhase
<1>5. Follows(u, v, c)
  BY ONLY <1>3, <1>4, PhaseFollows
<1> QED BY <1>2, <1>5, ThenFollows

(* ... takes the slot for a policy that waits, ... *)
LEMMA PolicyWaitFollows ==
    ASSUME NEW w, NEW c, Sound(w), c \in DOMAIN w.casts, NEW v, v = PolicyWait(w, c)
    PROVE  Follows(w, v, c)
<1> DEFINE d == DefOf(w, c)
           left == d.maxTicks - w.casts[c].age
<1>1. w.casts[c] \in CastRecord /\ d \in Definition
  BY DefinitionOf
<1>2. left \in Int /\ d.pulse \in Int /\ d.pulse \in Nat
  BY ONLY <1>1 DEF Definition, CastRecord
<1>3. CASE d.mode \in {"tap", "ammo"}
  <2>1. v = Bad(w)
    BY <1>3 DEF PolicyWait
  <2> QED BY <2>1, BadFollows
<1>4. CASE d.mode \notin {"tap", "ammo"} /\ w.casts[c].policy
  <2>1. v = [w EXCEPT !.casts[c].status = "suspended"]
    BY <1>4 DEF PolicyWait
  <2>2. PICK s \in {"running", "suspended", "finished", "failed"} : s = "suspended"
    OBVIOUS
  <2>3. v = [w EXCEPT !.casts[c].status = s]
    BY <2>1, <2>2
  <2> QED BY ONLY Sound(w), c \in DOMAIN w.casts, <2>3, s \in {"running", "suspended", "finished", "failed"},
                  StatusFollows
<1>5. CASE d.mode \notin {"tap", "ammo"} /\ ~w.casts[c].policy
  <2>1. PICK u : u = [w EXCEPT !.casts[c].policy = TRUE, !.casts[c].status = "suspended",
                               !.policies[w.casts[c].prog] = c]
    OBVIOUS
  <2>2. Follows(w, u, c)
    BY <2>1, TakeSlotFollows
  <2>3. Sound(u) /\ c \in DOMAIN u.casts
    <3>1. Calm(w, u, c)
      BY <2>1, TakeSlotCalm
    <3> QED BY <3>1 DEF Calm, Keeps, Does
  <2>4. PICK auto \in CastKinds \ {"commit", "execute"} : auto = "auto"
    BY DEF CastKinds
  <2>5. PICK e \in Int : e = left
    BY <1>2
  <2>6. CASE d.mode = "charge"
    <3>1. PICK s \in Words : s = IF d.autoRelease THEN "charge_full" ELSE "cancelled"
      BY DEF Words
    <3>2. v = Schedule(u, c, e, auto, s)
      BY <1>5, <2>1, <2>4, <2>5, <2>6, <3>1 DEF PolicyWait
    <3>3. Follows(u, v, c)
      BY ONLY <2>3, e \in Int, auto \in CastKinds \ {"commit", "execute"}, s \in Words, <3>2, ScheduleFollows
    <3> QED BY <2>2, <3>3, ThenFollows
  <2>7. CASE d.mode # "charge"
    <3>1. PICK f \in Nat : f = d.pulse
      BY <1>2
    <3>2. PICK pulse \in CastKinds : pulse = "pulse"
      BY DEF CastKinds
    <3>3. PICK s \in Words : s = ""
      BY DEF Words
    <3>4. PICK z : z = Schedule(u, c, f, pulse, s)
      OBVIOUS
    <3>5. Sound(z) /\ c \in DOMAIN z.casts
      <4>1. Calm(u, z, c)
        BY ONLY <2>3, f \in Nat, pulse \in CastKinds, s \in Words, <3>4, ScheduleCalm
      <4> QED BY <4>1 DEF Calm, Keeps, Does
    <3>6. Follows(u, z, c)
      <4>1. PICK g \in Int : g = f
        OBVIOUS
      <4>2. z = Schedule(u, c, g, pulse, s)
        BY <3>4, <4>1
      <4>3. pulse \in CastKinds \ {"commit", "execute"}
        BY <3>2
      <4> QED BY ONLY <2>3, g \in Int, <4>3, s \in Words, <4>2, ScheduleFollows
    <3>7. PICK t \in Words : t = "max_duration"
      BY DEF Words
    <3>8. v = Schedule(z, c, e, auto, t)
      BY <1>5, <2>1, <2>4, <2>5, <2>7, <3>1, <3>2, <3>3, <3>4, <3>7 DEF PolicyWait
    <3>9. Follows(z, v, c)
      BY ONLY <3>5, e \in Int, auto \in CastKinds \ {"commit", "execute"}, t \in Words, <3>8, ScheduleFollows
    <3>10. Follows(u, v, c)
      BY <3>6, <3>9, ThenFollows
    <3> QED BY <2>2, <3>10, ThenFollows
  <2> QED BY <2>6, <2>7
<1> QED BY <1>3, <1>4, <1>5

(* ... completes the recovery, ... *)
LEMMA CompleteCloses ==
    ASSUME NEW w, NEW c, Sound(w), c \in DOMAIN w.casts, NEW v, v = CompleteRecovery(w, c)
    PROVE  Closes(w, v, c)
<1>1. CASE w.casts[c].stage = "cancelled"
  <2>1. v = w /\ CastsTyped(w)
    BY <1>1 DEF CompleteRecovery, Sound
  <2> QED BY <2>1, SameFollows, FollowsCloses
<1>2. CASE w.casts[c].stage # "cancelled"
  <2>1. PICK u : u = [w EXCEPT !.casts[c].stage = "complete", !.casts[c].status = "finished"]
    OBVIOUS
  <2>2. PICK z : z = MarkFinished(u, c)
    OBVIOUS
  <2>3. v = IF c \in DOMAIN z.casts THEN DropSlot(z, c)
            ELSE [z EXCEPT !.policies[w.casts[c].prog] = 0]
    BY <1>2, <2>1, <2>2 DEF CompleteRecovery
  <2>4. Passes(w, u, c) /\ c \in DOMAIN u.casts /\ ~LiveIn(u, c)
    BY <2>1, CompletePasses
  <2>5. Calm(w, u, c)
    BY <2>1, EditComplete
  <2>6. Sound(u)
    BY <2>5 DEF Calm, Keeps, Does
  <2>7. Passes(u, z, c) /\ ~LiveIn(z, c)
    BY <2>2, <2>4, <2>6, MarkPasses
  <2>8. Sound(z)
    <3>1. Does(u, z, c)
      BY ONLY <2>2, <2>4, <2>6, MarkDoes
    <3> QED BY <3>1 DEF Does
  <2>9. Passes(w, z, c)
    BY <2>4, <2>7, PassesOn
  <2>10. Passes(z, v, c) /\ ~LiveIn(v, c)
    <3>1. CASE c \in DOMAIN z.casts
      <4>1. v = DropSlot(z, c)
        BY <2>3, <3>1
      <4>2. v.casts[c] = [z.casts[c] EXCEPT !.policy = FALSE] /\ z.casts[c] \in CastRecord
        BY <2>8, <3>1, <4>1, DropSlotCalm DEF Sound, CastsTyped
      <4>3. v.casts[c].status = z.casts[c].status
        BY ONLY <4>2 DEF CastRecord
      <4>4. Follows(z, v, c)
        BY <2>8, <3>1, <4>1, DropSlotFollows
      <4> QED BY <2>7, <3>1, <4>3, <4>4 DEF Follows, LiveIn, Ended
    <3>2. CASE c \notin DOMAIN z.casts
      <4>1. IsWorld(z)
        BY <2>8 DEF Sound
      <4>2. v = [z EXCEPT !.policies[w.casts[c].prog] = 0]
        BY <2>3, <3>2
      <4>3. v.casts = z.casts /\ v.tasks = z.tasks /\ v.cooldowns = z.cooldowns
        BY ONLY <4>1, <4>2 DEF IsWorld
      <4>4. Reached(z) => Reached(v)
        BY <4>3 DEF Reached
      <4> QED BY <3>2, <4>3, <4>4 DEF Passes, LiveIn
    <3> QED BY <3>1, <3>2
  <2> QED BY <2>9, <2>10, EndingCloses
<1> QED BY <1>1, <1>2

(* ... finishes, ... *)
LEMMA BeginRecoveryCloses ==
    ASSUME NEW w, NEW c, Sound(w), c \in DOMAIN w.casts, NEW v, v = BeginRecovery(w, c)
    PROVE  Closes(w, v, c)
<1>1. PICK u : u = [w EXCEPT !.casts[c].logical = TRUE, !.casts[c].stage = "recovering"]
  OBVIOUS
<1>2. Calm(w, u, c)
  BY <1>1, EditRecovering
<1>3. Sound(u) /\ c \in DOMAIN u.casts
  BY <1>2 DEF Calm, Keeps, Does
<1>4. Follows(w, u, c)
  BY <1>1, RecoveringFollows
<1>5. Closes(u, v, c)
  <2>1. CASE u.casts[c].pending > 0
    <3>1. PICK s \in {"running", "suspended", "finished", "failed"} : s = "suspended"
      OBVIOUS
    <3>2. v = [u EXCEPT !.casts[c].status = s]
      BY <1>1, <2>1, <3>1 DEF BeginRecovery
    <3>3. Follows(u, v, c)
      BY ONLY <1>3, <3>2, s \in {"running", "suspended", "finished", "failed"}, StatusFollows
    <3> QED BY <3>3, FollowsCloses
  <2>2. CASE ~(u.casts[c].pending > 0) /\ DefOf(w, c).recovery = 0
    <3>1. v = CompleteRecovery(u, c)
      BY <1>1, <2>2 DEF BeginRecovery
    <3> QED BY <1>3, <3>1, CompleteCloses
  <2>3. CASE ~(u.casts[c].pending > 0) /\ DefOf(w, c).recovery # 0
    <3>1. PICK due \in Int : due = DefOf(w, c).recovery
      BY DefinitionOf DEF Definition
    <3>2. PICK kind \in CastKinds \ {"commit", "execute"} : kind = "recovery"
      BY DEF CastKinds
    <3>3. PICK what \in Words : what = ""
      BY DEF Words
    <3>4. v = Schedule(u, c, due, kind, what)
      BY <1>1, <2>3, <3>1, <3>2, <3>3 DEF BeginRecovery
    <3>5. Follows(u, v, c)
      BY ONLY <1>3, due \in Int, kind \in CastKinds \ {"commit", "execute"}, what \in Words, <3>4, ScheduleFollows
    <3> QED BY <3>5, FollowsCloses
  <2> QED BY <2>1, <2>2, <2>3
<1> QED BY <1>4, <1>5, ThenCloses

(* ... runs a phase, ... *)
LEMMA EnterPhaseCloses ==
    ASSUME NEW w, NEW c, Sound(w), c \in DOMAIN w.casts, NEW o \in Outcome,
           NEW v, v = EnterPhase(w, c, o)
    PROVE  Closes(w, v, c)
<1>1. PICK u : u = Forked(w, c, o)
  OBVIOUS
<1>2. Follows(w, u, c)
  BY <1>1, ForkedFollows
<1>3. Sound(u) /\ c \in DOMAIN u.casts
  <2>1. Calm(w, u, c)
    BY <1>1, ForkedCalm
  <2> QED BY <2>1 DEF Calm, Keeps, Does
<1>4. o.then \in {"finish", "goto", "wait", "through", "error"}
  BY DEF Outcome, Control
<1>5. Closes(u, v, c)
  <2>1. CASE o.then = "finish"
    <3>1. v = BeginRecovery(u, c)
      BY <1>1, <2>1 DEF EnterPhase
    <3> QED BY <1>3, <3>1, BeginRecoveryCloses
  <2>2. CASE o.then = "wait"
    <3>1. v = Schedule(u, c, Wait, "flow", "tail")
      BY <1>1, <2>2 DEF EnterPhase
    <3> QED BY <1>3, <3>1, WaitFollows, FollowsCloses
  <2>3. CASE o.then = "through"
    <3>1. v = PolicyWait(u, c)
      BY <1>1, <2>3 DEF EnterPhase
    <3> QED BY <1>3, <3>1, PolicyWaitFollows, FollowsCloses
  <2>4. CASE o.then \in {"error", "goto"}
    <3>1. v = Bad(u)
      BY <1>1, <2>4 DEF EnterPhase
    <3> QED BY <1>3, <3>1, BadFollows, FollowsCloses
  <2> QED BY <1>4, <2>1, <2>2, <2>3, <2>4
<1> QED BY <1>2, <1>5, ThenCloses

(* ... the enter flow, ... *)
LEMMA ExecuteCastCloses ==
    ASSUME NEW w, NEW c, Sound(w), c \in DOMAIN w.casts, NEW x, IsLot(x),
           NEW v, v = ExecuteCast(w, c, x)
    PROVE  Closes(w, v, c)
<1>1. PICK o \in Outcome : o = x.second
  BY DEF IsLot
<1>2. PICK e \in Outcome : e = x.enter
  BY DEF IsLot
<1>3. CASE w.casts[c].phase = 2
  <2>1. v = EnterPhase(w, c, o)
    BY <1>1, <1>3 DEF ExecuteCast
  <2> QED BY ONLY Sound(w), c \in DOMAIN w.casts, o \in Outcome, <2>1, EnterPhaseCloses
<1>4. CASE w.casts[c].phase # 2 /\ e.then = "goto"
  <2>1. PICK u : u = Forked(w, c, e)
    OBVIOUS
  <2>2. PICK z : z = NextPhase(u, c)
    OBVIOUS
  <2>3. v = EnterPhase(z, c, o)
    BY <1>1, <1>2, <1>4, <2>1, <2>2 DEF ExecuteCast
  <2>4. Calm(w, u, c) /\ Follows(w, u, c)
    BY <2>1, ForkedCalm, ForkedFollows
  <2>5. Sound(u) /\ c \in DOMAIN u.casts
    BY <2>4 DEF Calm, Keeps, Does
  <2>6. Calm(u, z, c) /\ Follows(u, z, c)
    BY <2>2, <2>5, NextPhaseCalm, NextPhaseFollows
  <2>7. Sound(z) /\ c \in DOMAIN z.casts
    BY <2>6 DEF Calm, Keeps, Does
  <2>8. Closes(z, v, c)
    BY ONLY <2>3, <2>7, o \in Outcome, EnterPhaseCloses
  <2> QED BY <2>4, <2>6, <2>8, ThenFollows, ThenCloses
<1>5. CASE w.casts[c].phase # 2 /\ e.then # "goto"
  <2>1. v = EnterPhase(w, c, e)
    BY <1>2, <1>5 DEF ExecuteCast
  <2> QED BY ONLY Sound(w), c \in DOMAIN w.casts, e \in Outcome, <2>1, EnterPhaseCloses
<1> QED BY <1>3, <1>4, <1>5

(* ... what a flow asks for when it stops, ... *)
LEMMA ResolveControlCloses ==
    ASSUME NEW w, NEW c, Sound(w), c \in DOMAIN w.casts, NEW x, IsLot(x),
           NEW control \in Control, NEW v, v = ResolveControl(w, c, control, x)
    PROVE  Closes(w, v, c)
<1>0. control \in {"finish", "goto", "wait", "through", "error"}
  BY DEF Control
<1>1. CASE control = "finish"
  <2>1. v = BeginRecovery(w, c)
    BY <1>1 DEF ResolveControl
  <2> QED BY <2>1, BeginRecoveryCloses
<1>2. CASE control = "wait"
  <2>1. v = Schedule(w, c, Wait, "flow", "tail")
    BY <1>2 DEF ResolveControl
  <2> QED BY <2>1, WaitFollows, FollowsCloses
<1>3. CASE control = "goto"
  <2>1. PICK u : u = NextPhase(w, c)
    OBVIOUS
  <2>2. PICK s \in {"running", "suspended", "finished", "failed"} : s = "running"
    OBVIOUS
  <2>3. PICK z : z = [u EXCEPT !.casts[c].status = s]
    OBVIOUS
  <2>4. PICK o \in Outcome : o = x.second
    BY DEF IsLot
  <2>5. v = EnterPhase(z, c, o)
    BY <1>3, <2>1, <2>2, <2>3, <2>4 DEF ResolveControl
  <2>6. Calm(w, u, c) /\ Follows(w, u, c)
    BY <2>1, NextPhaseCalm, NextPhaseFollows
  <2>7. Sound(u) /\ c \in DOMAIN u.casts
    BY <2>6 DEF Calm, Keeps, Does
  <2>8. Calm(u, z, c) /\ Follows(u, z, c)
    BY ONLY <2>3, <2>7, s \in {"running", "suspended", "finished", "failed"}, EditStatus, StatusFollows
  <2>9. Sound(z) /\ c \in DOMAIN z.casts
    BY <2>8 DEF Calm, Keeps, Does
  <2>10. Closes(z, v, c)
    BY ONLY <2>5, <2>9, o \in Outcome, EnterPhaseCloses
  <2> QED BY <2>6, <2>8, <2>10, ThenFollows, ThenCloses
<1>4. CASE control = "error"
  <2>1. v = Bad(w)
    BY <1>4 DEF ResolveControl
  <2> QED BY <2>1, BadFollows, FollowsCloses
<1>5. CASE control = "through"
  <2>1. v = IF w.casts[c].pending > 0 THEN [w EXCEPT !.casts[c].status = "suspended"]
            ELSE IF w.casts[c].logical THEN BeginRecovery(w, c) ELSE Bad(w)
    BY <1>5 DEF ResolveControl
  <2>2. CASE w.casts[c].pending > 0
    <3>1. PICK s \in {"running", "suspended", "finished", "failed"} : s = "suspended"
      OBVIOUS
    <3>2. v = [w EXCEPT !.casts[c].status = s]
      BY <2>1, <2>2, <3>1
    <3>3. Follows(w, v, c)
      BY ONLY Sound(w), c \in DOMAIN w.casts, <3>2, s \in {"running", "suspended", "finished", "failed"},
              StatusFollows
    <3> QED BY <3>3, FollowsCloses
  <2>3. CASE ~(w.casts[c].pending > 0) /\ w.casts[c].logical
    <3>1. v = BeginRecovery(w, c)
      BY <2>1, <2>3
    <3> QED BY <3>1, BeginRecoveryCloses
  <2>4. CASE ~(w.casts[c].pending > 0) /\ ~w.casts[c].logical
    <3>1. v = Bad(w)
      BY <2>1, <2>4
    <3> QED BY <3>1, BadFollows, FollowsCloses
  <2> QED BY <2>2, <2>3, <2>4
<1> QED BY <1>0, <1>1, <1>2, <1>3, <1>4, <1>5

(* ... a root beside enter, ... *)
LEMMA ExecuteCastEventCloses ==
    ASSUME NEW w, NEW c, Sound(w), c \in DOMAIN w.casts, NEW x, IsLot(x), NEW o \in Outcome,
           NEW v, v = ExecuteCastEvent(w, c, o, x)
    PROVE  Closes(w, v, c)
<1>1. CASE w.casts[c].phase # 1
  <2>1. v = Bad(w)
    BY <1>1 DEF ExecuteCastEvent
  <2> QED BY <2>1, BadFollows, FollowsCloses
<1>2. CASE w.casts[c].phase = 1
  <2>1. PICK u : u = Forked(w, c, o)
    OBVIOUS
  <2>2. PICK control \in Control : control = o.then
    BY DEF Outcome
  <2>3. v = ResolveControl(u, c, control, x)
    BY <1>2, <2>1, <2>2 DEF ExecuteCastEvent
  <2>4. Calm(w, u, c) /\ Follows(w, u, c)
    BY <2>1, ForkedCalm, ForkedFollows
  <2>5. Sound(u) /\ c \in DOMAIN u.casts
    BY <2>4 DEF Calm, Keeps, Does
  <2>6. Closes(u, v, c)
    BY ONLY <2>3, <2>5, IsLot(x), control \in Control, ResolveControlCloses
  <2> QED BY <2>4, <2>6, ThenCloses
<1> QED BY <1>1, <1>2

(* ... or its execution keeps the order. *)
LEMMA BeginExecutionCloses ==
    ASSUME NEW w, NEW c, Sound(w), c \in DOMAIN w.casts, NEW x, IsLot(x),
           NEW v, v = BeginExecution(w, c, x)
    PROVE  Closes(w, v, c)
<1>1. CASE w.casts[c].stage = "cancelled"
  <2>1. v = w /\ CastsTyped(w)
    BY <1>1 DEF BeginExecution, Sound
  <2> QED BY <2>1, SameFollows, FollowsCloses
<1>2. CASE w.casts[c].stage # "cancelled" /\ ~w.casts[c].committed
  <2>1. v = Bad(w)
    BY <1>2 DEF BeginExecution
  <2> QED BY <2>1, BadFollows, FollowsCloses
<1>3. CASE w.casts[c].stage # "cancelled" /\ w.casts[c].committed
  <2>1. PICK u : u = [w EXCEPT !.casts[c].stage = "executing", !.casts[c].status = "running"]
    OBVIOUS
  <2>2. v = IF w.casts[c].root = "release" THEN ExecuteCastEvent(u, c, x.release, x) ELSE ExecuteCast(u, c, x)
    BY <1>3, <2>1 DEF BeginExecution
  <2>3. Calm(w, u, c) /\ Follows(w, u, c)
    BY <1>3, <2>1, EditExecuting, ExecutingFollows
  <2>4. Sound(u) /\ c \in DOMAIN u.casts
    BY <2>3 DEF Calm, Keeps, Does
  <2>5. Closes(u, v, c)
    <3>1. CASE w.casts[c].root = "release"
      <4>1. PICK o \in Outcome : o = x.release
        BY DEF IsLot
      <4>2. v = ExecuteCastEvent(u, c, o, x)
        BY <2>2, <3>1, <4>1
      <4> QED BY ONLY <2>4, <4>2, IsLot(x), o \in Outcome, ExecuteCastEventCloses
    <3>2. CASE w.casts[c].root # "release"
      <4>1. v = ExecuteCast(u, c, x)
        BY <2>2, <3>2
      <4> QED BY ONLY <2>4, <4>1, IsLot(x), ExecuteCastCloses
    <3> QED BY <3>1, <3>2
  <2> QED BY <2>3, <2>5, ThenCloses
<1> QED BY <1>1, <1>2, <1>3

(* What ends a cast: its cancellation, ... *)
LEMMA CancelledAsEnds ==
    ASSUME NEW w, NEW c, Sound(w), c \in DOMAIN w.casts, NEW v, v = CancelledAs(w, c)
    PROVE  Passes(w, v, c) /\ ~LiveIn(v, c)
<1>1. PICK u : u = [w EXCEPT !.casts[c].stage = "cancelled", !.casts[c].status = "finished"]
  OBVIOUS
<1>2. v = MarkFinished(u, c)
  BY <1>1 DEF CancelledAs
<1>3. Passes(w, u, c) /\ c \in DOMAIN u.casts /\ ~LiveIn(u, c)
  BY <1>1, CancelledPasses
<1>4. Sound(u)
  <2>1. Calm(w, u, c)
    BY <1>1, EditCancelled
  <2> QED BY <2>1 DEF Calm, Keeps, Does
<1>5. Passes(u, v, c) /\ ~LiveIn(v, c)
  BY <1>2, <1>3, <1>4, MarkPasses
<1> QED BY <1>3, <1>5, PassesOn

(* ... its failure, ... *)
LEMMA FailedEnds ==
    ASSUME NEW w, NEW c, Sound(w), c \in DOMAIN w.casts, NEW v, v = Failed(w, c)
    PROVE  Passes(w, v, c) /\ ~LiveIn(v, c)
<1>1. PICK s \in {"running", "suspended", "finished", "failed"} : s = "failed"
  OBVIOUS
<1>2. PICK u : u = [w EXCEPT !.casts[c].status = s]
  OBVIOUS
<1>3. v = MarkFinished(u, c)
  BY <1>1, <1>2 DEF Failed
<1>4. Calm(w, u, c) /\ Follows(w, u, c) /\ (s \in {"finished", "failed"} => ~LiveIn(u, c))
  BY ONLY Sound(w), c \in DOMAIN w.casts, <1>2, s \in {"running", "suspended", "finished", "failed"},
          EditStatus, StatusFollows
<1>5. Sound(u) /\ c \in DOMAIN u.casts /\ ~LiveIn(u, c)
  BY <1>1, <1>4 DEF Calm, Keeps, Does
<1>6. Passes(u, v, c) /\ ~LiveIn(v, c)
  BY <1>3, <1>5, MarkPasses
<1> QED BY <1>4, <1>6, PassesOn DEF Follows

(* ... also that of one of its tasks, ... *)
LEMMA FailScheduledEnds ==
    ASSUME NEW w, NEW c, Sound(w), c \in DOMAIN w.casts, NEW v, v = FailScheduled(w, c)
    PROVE  Passes(w, v, c) /\ ~LiveIn(v, c)
<1>1. PICK u : u = CancelPhaseTasks(w, c)
  OBVIOUS
<1>2. v = Failed(u, c)
  BY <1>1 DEF FailScheduled
<1>3. Calm(w, u, c) /\ Follows(w, u, c)
  BY <1>1, CancelTasksCalm, CancelTasksFollows
<1>4. Passes(u, v, c) /\ ~LiveIn(v, c)
  BY <1>2, <1>3, FailedEnds DEF Calm, Keeps, Does
<1> QED BY <1>3, <1>4, PassesOn DEF Follows

(* ... and its being broken off. *)
LEMMA EndedEarlyEnds ==
    ASSUME NEW w, NEW c, Sound(w), c \in DOMAIN w.casts, NEW v, v = EndedEarly(w, c)
    PROVE  Passes(w, v, c) /\ ~LiveIn(v, c)
<1>1. PICK u : u = [w EXCEPT !.casts[c].policy = FALSE,
                             !.policies[w.casts[c].prog] = IF w.casts[c].policy /\ @ = c THEN 0 ELSE @]
  OBVIOUS
<1>2. v = CancelledAs(u, c)
  BY <1>1 DEF EndedEarly
<1>3. Calm(w, u, c)
  BY <1>1, LeaveSlotCalm
<1>4. Follows(w, u, c)
  <2> DEFINE p == w.casts[c].prog
  <2>1. PICK s : s = IF w.casts[c].policy /\ w.policies[p] = c THEN 0 ELSE w.policies[p]
    OBVIOUS
  <2>2. u = [w EXCEPT !.casts[c].policy = FALSE, !.policies[w.casts[c].prog] = s]
    <3>1. IsWorld(w)
      BY DEF Sound
    <3> QED BY ONLY <1>1, <2>1, <3>1 DEF IsWorld
  <2> QED BY <2>2, LeaveSlotFollows
<1>5. Passes(u, v, c) /\ ~LiveIn(v, c)
  BY <1>2, <1>3, CancelledAsEnds DEF Calm, Keeps, Does
<1> QED BY <1>4, <1>5, PassesOn DEF Follows

-----------------------------------------------------------------------------
(* Steps that commit *)

(* A cast of v was one of w, and if it has committed since, its skill was   *)
(* not on cooldown, unless nothing keeps its commits apart.                 *)
Spaced(w, v) ==
    \A d \in DOMAIN v.casts :
        /\ d \in DOMAIN w.casts
        /\ Solo(w.casts[d].prog) /\ ~w.casts[d].committed /\ v.casts[d].committed
           => w.cooldowns[w.casts[d].prog] = 0

Orderly(w, v) == InOrder(v) /\ Spaced(w, v)

(* No other cast of the solo skill of c is about to commit. *)
Lone(w, c) ==
    \A d : /\ LiveIn(w, d) /\ d # c
           /\ w.casts[d].prog = w.casts[c].prog /\ Solo(w.casts[c].prog)
           => ~Poised(w, d)

(* Nothing commits in a step that schedules no commit. *)
LEMMA PassesSpaced ==
    ASSUME NEW w, NEW v, NEW c, Passes(w, v, c)
    PROVE  Spaced(w, v)
BY DEF Passes, Spaced, Alike

(* The end of a handler whose cast was ready. *)
LEMMA ClosesOrderly ==
    ASSUME NEW w, NEW v, NEW c, CastsTyped(w), Ready(w, c), Closes(w, v, c)
    PROVE  Orderly(w, v)
<1>1. InOrder(v)
  BY ClosesInOrder
<1>2. Spaced(w, v)
  BY PassesSpaced DEF Closes
<1> QED BY <1>1, <1>2 DEF Orderly

(* The end of a handler that ends its cast, ready or not.                   *)
LEMMA EndsOrderly ==
    ASSUME NEW w, NEW v, NEW c, CastsTyped(w), Apart(w, c), Passes(w, v, c), ~LiveIn(v, c)
    PROVE  Orderly(w, v)
<1>1. Apart(v, c)
  BY PassesApart
<1>2. InOrder(v)
  BY <1>1, InOrderLast
<1>3. Spaced(w, v)
  BY PassesSpaced
<1> QED BY <1>2, <1>3 DEF Orderly

(* What is spaced and orderly after a step is so from its beginning. *)
LEMMA ThenSpaced ==
    ASSUME NEW w, NEW u, NEW v, NEW c, CastsTyped(w), Passes(w, u, c), Spaced(u, v)
    PROVE  Spaced(w, v)
<1>1. ASSUME NEW d \in DOMAIN v.casts
      PROVE  /\ d \in DOMAIN w.casts
             /\ Solo(w.casts[d].prog) /\ ~w.casts[d].committed /\ v.casts[d].committed
                => w.cooldowns[w.casts[d].prog] = 0
  <2>1. d \in DOMAIN u.casts
    BY DEF Spaced
  <2>2. /\ d \in DOMAIN w.casts
        /\ u.casts[d].prog = w.casts[d].prog /\ u.casts[d].committed = w.casts[d].committed
    BY <2>1 DEF Passes, Alike
  <2>3. w.casts[d].prog \in Program
    BY <2>2 DEF CastsTyped, CastRecord
  <2>4. Solo(w.casts[d].prog) => u.cooldowns[w.casts[d].prog] = w.cooldowns[w.casts[d].prog]
    BY <2>3 DEF Passes
  <2> QED BY <2>2, <2>4 DEF Spaced
<1> QED BY <1>1 DEF Spaced

(* The same of the order.                                                   *)
LEMMA ThenOrderly ==
    ASSUME NEW w, NEW u, NEW v, NEW c, CastsTyped(w), Passes(w, u, c), Orderly(u, v)
    PROVE  Orderly(w, v)
BY ThenSpaced DEF Orderly

(* A handler that fails its cast at its end. *)
LEMMA OrderlyEnds ==
    ASSUME NEW w, NEW u, NEW v, NEW c, CastsTyped(u), Apart(u, c), Spaced(w, u),
           Passes(u, v, c), ~LiveIn(v, c)
    PROVE  Orderly(w, v)
<1>1. InOrder(v)
  BY EndsOrderly DEF Orderly
<1>2. Spaced(w, v)
  BY DEF Passes, Alike, Spaced
<1> QED BY <1>1, <1>2 DEF Orderly

(* Nothing changes. *)
LEMMA SameOrderly ==
    ASSUME NEW w, NEW v, InOrder(w), v.casts = w.casts, v.tasks = w.tasks, v.cooldowns = w.cooldowns
    PROVE  Orderly(w, v)
<1>1. \A d : LiveIn(v, d) <=> LiveIn(w, d)
  BY DEF LiveIn
<1>2. \A d : Poised(v, d) <=> Poised(w, d)
  BY DEF Poised
<1>3. \A d : Awaited(w, d) => Awaited(v, d)
  BY <1>2 DEF Awaited
<1>4. \A d, e : Rivals(v, d, e) => Rivals(w, d, e)
  BY <1>2 DEF Rivals
<1>5. Reached(v)
  BY DEF InOrder, Reached
<1>6. InOrder(v)
  BY <1>1, <1>3, <1>4, <1>5 DEF InOrder
<1>7. Spaced(w, v)
  BY DEF Spaced
<1> QED BY <1>6, <1>7 DEF Orderly

(* A cast that stands alone does so after steps that commit nothing. *)
LEMMA FollowsLone ==
    ASSUME NEW w, NEW v, NEW c, Follows(w, v, c), Reached(w), Lone(w, c)
    PROVE  Lone(v, c)
<1>1. Passes(w, v, c) /\ c \in DOMAIN v.casts /\ v.casts[c].prog = w.casts[c].prog
  BY DEF Follows, Passes, Alike
<1>2. ASSUME NEW d, LiveIn(v, d), d # c, v.casts[d].prog = v.casts[c].prog, Solo(v.casts[c].prog), Poised(v, d)
      PROVE  FALSE
  <2>1. LiveIn(w, d) /\ w.casts[d] = v.casts[d]
    BY <1>1, <1>2 DEF LiveIn, Passes
  <2>2. Poised(w, d)
    BY <1>1, <1>2, PassesPoised DEF LiveIn
  <2> QED BY <1>1, <1>2, <2>1, <2>2 DEF Lone
<1> QED BY <1>2 DEF Lone

(* With a new phase a cast is ready: no task is of that phase. *)
LEMMA TokenReady ==
    ASSUME NEW w, NEW c, Sound(w), c \in DOMAIN w.casts, Apart(w, c),
           NEW v, v = [w EXCEPT !.casts[c].token = @ + 1]
    PROVE  Ready(v, c)
<1>1. CastsTyped(w) /\ IsWorld(w) /\ w.casts[c].token \in Nat /\ Heap(w.tasks)
  BY DEF Sound, CastsTyped, CastRecord, HeapAgrees
<1>2. Follows(w, v, c) /\ v.casts[c].token = w.casts[c].token + 1
  BY TokenFollows
<1>3. v.tasks = w.tasks
  BY ONLY <1>1, v = [w EXCEPT !.casts[c].token = @ + 1] DEF IsWorld
<1>4. Apart(v, c)
  BY <1>1, <1>2, PassesApart DEF Follows
<1>5. ASSUME NEW t \in ToSet(v.tasks), t.id = c
      PROVE  t.token # v.casts[c].token
  <2>1. t.token <= w.casts[c].token
    BY <1>3, <1>5 DEF Apart, Reached
  <2> QED BY ONLY <1>1, <1>2, <2>1
<1>6. ~Poised(v, c)
  BY <1>5 DEF Poised
<1>7. Led(v.tasks, c, v.casts[c].token)
  BY <1>5 DEF Led, ToSet
<1> QED BY <1>4, <1>6, <1>7 DEF Ready, Awaited, Alone, Rivals

(* So is a cast without tasks. *)
LEMMA IdleReady ==
    ASSUME NEW w, NEW c, Apart(w, c), \A t \in ToSet(w.tasks) : t.id # c
    PROVE  Ready(w, c)
<1>1. ~Poised(w, c)
  BY DEF Poised
<1>2. \A k : Led(w.tasks, c, k)
  BY DEF Led, ToSet
<1> QED BY <1>1, <1>2 DEF Ready, Awaited, Alone, Rivals

(* A cast that has committed is ready: it awaits no commit.                 *)
LEMMA CommittedReady ==
    ASSUME NEW w, NEW c, Apart(w, c), w.casts[c].committed
    PROVE  Ready(w, c)
BY DEF Ready, Awaited, Alone, Rivals, Poised

(* A task is put into the heap: the other casts stay in order, ... *)
LEMMA ScheduledApart ==
    ASSUME NEW w, NEW c, Sound(w), c \in DOMAIN w.casts, Apart(w, c),
           NEW due \in Nat, NEW kind \in CastKinds, NEW what \in Words,
           NEW v, v = Schedule(w, c, due, kind, what)
    PROVE  /\ Apart(v, c) /\ Spaced(w, v)
           /\ \A d \in DOMAIN v.casts : d # c /\ Poised(v, d) => Poised(w, d)
<1>1. /\ Adds(w, v, c, Task(due, kind, c, w.casts[c].token, what))
      /\ v.cooldowns = w.cooldowns /\ DOMAIN v.casts = DOMAIN w.casts
      /\ \A d \in DOMAIN w.casts \ {c} : v.casts[d] = w.casts[d]
      /\ v.casts[c].token = w.casts[c].token /\ v.casts[c].prog = w.casts[c].prog
      /\ v.casts[c].committed = w.casts[c].committed
  BY Scheduled
<1>2. PICK t \in Tasks :
             /\ t.id = c /\ t.token = w.casts[c].token
             /\ v.tasks = Insert(w.tasks, t) /\ ToSet(v.tasks) = ToSet(w.tasks) \cup {t}
  BY <1>1 DEF Adds
<1>3. Heap(w.tasks) /\ w.casts[c].token \in Nat
  BY DEF Sound, HeapAgrees, CastsTyped, CastRecord
<1>4. Reached(v)
  BY <1>1, <1>2, <1>3, ScheduledReached DEF Apart
<1>5. ASSUME NEW d \in DOMAIN v.casts, d # c, Poised(v, d)
      PROVE  Poised(w, d)
  BY <1>1, <1>2, <1>5 DEF Poised
<1>6. ASSUME NEW d, LiveIn(v, d), d # c
      PROVE  LiveIn(w, d) /\ w.casts[d] = v.casts[d] /\ Awaited(v, d)
  <2>1. LiveIn(w, d) /\ w.casts[d] = v.casts[d] /\ d \in DOMAIN v.casts
    BY <1>1, <1>6 DEF LiveIn
  <2>2. Awaited(w, d)
    BY <1>6, <2>1 DEF Apart
  <2>3. Led(w.tasks, d, w.casts[d].token) => Led(v.tasks, d, w.casts[d].token)
    BY <1>2, <1>3, <1>6, InsertLed
  <2>4. Poised(v, d) => Poised(w, d)
    BY <1>5, <1>6, <2>1
  <2> QED BY ONLY <1>1, <2>1, <2>2, <2>3, <2>4 DEF Awaited
<1>7. ASSUME NEW d, NEW e, LiveIn(v, d), LiveIn(v, e), d # c, e # c, Rivals(v, d, e)
      PROVE  FALSE
  <2>1. LiveIn(w, d) /\ LiveIn(w, e) /\ w.casts[d] = v.casts[d] /\ w.casts[e] = v.casts[e]
    BY <1>6, <1>7
  <2>2. Poised(w, d) /\ Poised(w, e)
    BY <1>5, <1>7 DEF LiveIn, Rivals
  <2>3. Rivals(w, d, e)
    BY <1>7, <2>1, <2>2 DEF Rivals
  <2> QED BY <1>7, <2>1, <2>3 DEF Apart
<1>8. Apart(v, c)
  BY ONLY <1>4, <1>6, <1>7 DEF Apart
<1>9. Spaced(w, v)
  BY <1>1 DEF Spaced
<1> QED BY <1>5, <1>8, <1>9

(* ... and its cast ready, if the task is one that commits and the window   *)
(* is exclusive, or one that executes and is due after a commit.            *)
LEMMA ScheduleReady ==
    ASSUME NEW w, NEW c, Sound(w), c \in DOMAIN w.casts, Ready(w, c),
           NEW due \in Nat, NEW kind \in CastKinds, NEW what \in Words,
           kind = "commit" => /\ Lone(w, c) /\ w.casts[c].stage \in Windows
                              /\ Solo(w.casts[c].prog) => w.cooldowns[w.casts[c].prog] = 0,
           kind = "execute" => \/ w.casts[c].committed
                               \/ \E u \in ToSet(w.tasks) : /\ u.kind = "commit" /\ u.id = c /\ u.due <= due
                                                            /\ u.token = w.casts[c].token,
           NEW v, v = Schedule(w, c, due, kind, what)
    PROVE  Ready(v, c)
<1>1. /\ Adds(w, v, c, Task(due, kind, c, w.casts[c].token, what))
      /\ v.cooldowns = w.cooldowns /\ DOMAIN v.casts = DOMAIN w.casts
      /\ \A d \in DOMAIN w.casts \ {c} : v.casts[d] = w.casts[d]
      /\ v.casts[c].token = w.casts[c].token /\ v.casts[c].prog = w.casts[c].prog
      /\ v.casts[c].committed = w.casts[c].committed /\ v.casts[c].stage = w.casts[c].stage
  BY Scheduled
<1>2. PICK t \in Tasks :
             /\ t.kind = kind /\ t.id = c /\ t.token = w.casts[c].token /\ t.due = due
             /\ v.tasks = Insert(w.tasks, t) /\ ToSet(v.tasks) = ToSet(w.tasks) \cup {t}
  BY <1>1 DEF Adds, Task
<1>3. Heap(w.tasks)
  BY DEF Sound, HeapAgrees
<1>4. /\ Apart(v, c)
      /\ \A d \in DOMAIN v.casts : d # c /\ Poised(v, d) => Poised(w, d)
  BY ScheduledApart DEF Ready
<1>5. ~v.casts[c].committed => Led(v.tasks, c, v.casts[c].token)
  <2>1. HAVE ~v.casts[c].committed
  <2>2. Led(w.tasks, c, w.casts[c].token)
    BY <1>1, <2>1 DEF Ready, Awaited
  <2>3. t.kind = "execute" => \E u \in ToSet(w.tasks) : /\ u.kind = "commit" /\ u.id = c
                                                        /\ u.token = w.casts[c].token /\ u.due <= t.due
    BY <1>1, <1>2, <2>1
  <2>4. Led(Insert(w.tasks, t), c, w.casts[c].token)
    BY ONLY <1>3, <2>2, <2>3, t \in Tasks, InsertLed
  <2> QED BY <1>1, <1>2, <2>4
<1>6. Poised(v, c) => Poised(w, c) \/ kind = "commit"
  BY <1>1, <1>2 DEF Poised
<1>7. Poised(v, c) => /\ v.casts[c].stage \in Windows
                      /\ Solo(v.casts[c].prog) => v.cooldowns[v.casts[c].prog] = 0
  BY <1>1, <1>6 DEF Ready, Awaited
<1>8. ASSUME NEW d, LiveIn(v, d), Rivals(v, c, d)
      PROVE  FALSE
  <2>1. d # c /\ d \in DOMAIN w.casts /\ LiveIn(w, d) /\ v.casts[d] = w.casts[d] /\ Poised(w, d)
    BY <1>1, <1>4, <1>8 DEF LiveIn, Rivals
  <2>2. w.casts[d].prog = w.casts[c].prog /\ Solo(w.casts[c].prog) /\ Poised(v, c)
    BY <1>1, <1>8, <2>1 DEF Rivals
  <2>3. CASE Poised(w, c)
    BY <2>1, <2>2, <2>3 DEF Rivals, Ready, Alone
  <2>4. CASE kind = "commit"
    BY <2>1, <2>2, <2>4 DEF Lone
  <2> QED BY <1>6, <2>2, <2>3, <2>4
<1> QED BY ONLY <1>4, <1>5, <1>7, <1>8 DEF Ready, Awaited, Alone

(* The costs of a window keep the order, ... *)
LEMMA PayFollows ==
    ASSUME NEW w, NEW c, Sound(w), c \in DOMAIN w.casts, NEW pay, NEW v, v = PayCosts(w, c, pay)
    PROVE  Follows(w, v, c)
<1>1. CASE pay \/ ~DefOf(w, c).cost
  <2>1. v = [w EXCEPT !.casts[c].paid = TRUE]
    BY <1>1 DEF PayCosts
  <2> QED BY <2>1, PaidFollows
<1>2. CASE ~(pay \/ ~DefOf(w, c).cost)
  <2>1. v = Bad(w)
    BY <1>2 DEF PayCosts
  <2> QED BY <2>1, BadFollows
<1> QED BY <1>1, <1>2

(* ... also a recharge put into the heap ... *)
LEMMA RechargeFollows ==
    ASSUME NEW w, NEW v, NEW c, Sound(w), c \in DOMAIN w.casts, NEW t \in Tasks, t.kind = "recharge",
           v.casts = w.casts, v.cooldowns = w.cooldowns, v.tasks = Insert(w.tasks, t)
    PROVE  Follows(w, v, c)
<1>1. CastsTyped(w) /\ Heap(w.tasks) /\ w.casts[c].token \in Nat
  BY DEF Sound, CastsTyped, CastRecord, HeapAgrees
<1>2. t.id = 0 /\ 0 \notin DOMAIN w.casts
  BY <1>1 DEF Tasks, CastTask, RechargeTask, CastKinds, CastsTyped
<1>3. ToSet(v.tasks) = ToSet(w.tasks) \cup {t}
  BY <1>1, Inserted
<1>4. ASSUME NEW d, NEW k, Led(w.tasks, d, k)
      PROVE  Led(v.tasks, d, k)
  BY <1>1, <1>4, InsertLed
<1>5. Reached(w) => Reached(v)
  BY <1>2, <1>3 DEF Reached
<1>6. Alike(w.casts[c], v.casts[c])
  BY <1>1 DEF Alike
<1>7. Passes(w, v, c)
  BY <1>3, <1>4, <1>5, <1>6 DEF Passes
<1> QED BY <1>7 DEF Follows, Stays

(* ... when a round is taken. *)
LEMMA TakeAmmoFollows ==
    ASSUME NEW w, NEW c, Sound(w), c \in DOMAIN w.casts, NEW v, v = TakeAmmo(w, c)
    PROVE  Follows(w, v, c)
<1> DEFINE p == w.casts[c].prog
           a == w.ammo[p]
<1>1. /\ IsWorld(w) /\ CastsTyped(w) /\ p \in Program
      /\ w.ammo \in [Program -> AmmoRecord]
  BY DEF Sound, CastsTyped, CastRecord, AmmoAgrees
<1>2. CASE Mode(w, c) # "ammo"
  BY <1>1, <1>2, SameFollows DEF TakeAmmo
<1>3. CASE Mode(w, c) = "ammo"
  <2>1. PICK u : u = [w EXCEPT !.ammo[p].stock = @ - 1]
    OBVIOUS
  <2>2. IsWorld(u) /\ u.casts = w.casts /\ u.tasks = w.tasks /\ u.cooldowns = w.cooldowns
    BY ONLY <1>1, <2>1 DEF IsWorld
  <2>3. u.ammo[p].gen = a.gen
    <3>1. u.ammo[p] = [a EXCEPT !.stock = @ - 1]
      BY ONLY <1>1, <2>1 DEF IsWorld
    <3>2. a \in AmmoRecord
      BY <1>1
    <3> QED BY ONLY <3>1, <3>2 DEF AmmoRecord
  <2>4. v = EnsureRecharge(u, p)
    BY <1>3, <2>1 DEF TakeAmmo
  <2>5. PICK gen \in Nat : gen = u.ammo[p].gen + 1
    <3>1. a.gen \in Nat
      BY <1>1 DEF AmmoRecord
    <3> QED BY <2>3, <3>1
  <2>6. PICK due \in Nat : due = Def[p].recharge
    BY <1>1, DefIsTyped DEF Definition
  <2>7. PICK t : t = Task(due, "recharge", 0, gen, p)
    OBVIOUS
  <2>8. t \in Tasks /\ t.kind = "recharge"
    BY <1>1, <2>7 DEF Task, Tasks, RechargeTask
  <2>9. CASE v = u
    BY <1>1, <2>2, <2>9, SameFollows
  <2>10. CASE v # u
    <3> DEFINE d == [u.ammo[p] EXCEPT !.scheduled = TRUE, !.gen = gen, !.due = due]
    <3>1. v = [u EXCEPT !.ammo[p] = d, !.tasks = Insert(@, t)]
      BY <2>4, <2>5, <2>6, <2>7, <2>10 DEF EnsureRecharge
    <3> HIDE DEF d
    <3>2. v.casts = u.casts /\ v.cooldowns = u.cooldowns /\ v.tasks = Insert(u.tasks, t)
      BY ONLY <2>2, <3>1 DEF IsWorld
    <3>3. v.casts = w.casts /\ v.cooldowns = w.cooldowns /\ v.tasks = Insert(w.tasks, t)
      BY <2>2, <3>2
    <3> HIDE DEF a, p
    <3> QED BY <2>8, <3>3, RechargeFollows
  <2> QED BY <2>9, <2>10
<1> QED BY <1>2, <1>3

(* What a commit writes: its cast and the two cooldowns. *)
LEMMA EnterCommittedWrites ==
    ASSUME NEW w, NEW c, Sound(w), c \in DOMAIN w.casts, NEW v, v = EnterCommitted(w, c)
    PROVE  /\ v.tasks = w.tasks /\ DOMAIN v.casts = DOMAIN w.casts
           /\ \A d \in DOMAIN w.casts \ {c} : v.casts[d] = w.casts[d]
           /\ v.casts[c].token = w.casts[c].token /\ v.casts[c].prog = w.casts[c].prog
           /\ v.casts[c].committed
           /\ \A p \in Program \ {w.casts[c].prog} : v.cooldowns[p] = w.cooldowns[p]
<1> DEFINE global == DefOf(w, c).global
           g == IF global > w.cooldowns[Gcd] THEN global ELSE w.cooldowns[Gcd]
           q == [w.casts[c] EXCEPT !.committed = TRUE, !.stage = "committed"]
<1>1. /\ IsWorld(w) /\ w.casts[c] \in CastRecord /\ w.casts[c].prog \in Program
      /\ w.cooldowns \in [Program \cup {Gcd} -> Nat]
  BY DEF Sound, CastsTyped, CastRecord
<1>2. PICK h : h = g
  OBVIOUS
<1>3. PICK u : u = [w EXCEPT !.casts[c].committed = TRUE, !.casts[c].stage = "committed", !.cooldowns[Gcd] = h]
  OBVIOUS
<1>4. v = IF Mode(w, c) \in {"tap", "ammo", "charge"} THEN StartCooldown(u, c) ELSE u
  BY <1>2, <1>3 DEF EnterCommitted
<1> HIDE DEF g
<1>5. IsWorld(u) /\ u.tasks = w.tasks /\ u.cooldowns = [w.cooldowns EXCEPT ![Gcd] = h]
  BY ONLY <1>1, <1>3 DEF IsWorld
<1>6. u.casts = [w.casts EXCEPT ![c] = q]
  BY ONLY <1>1, <1>3 DEF IsWorld
<1>7. /\ q.token = w.casts[c].token /\ q.prog = w.casts[c].prog /\ q.committed
      /\ DOMAIN q = DOMAIN w.casts[c]
  BY ONLY <1>1 DEF CastRecord
<1> HIDE DEF q
<1>8. /\ DOMAIN u.casts = DOMAIN w.casts /\ u.casts[c] = q
      /\ \A d \in DOMAIN w.casts \ {c} : u.casts[d] = w.casts[d]
      /\ \A p \in Program : u.cooldowns[p] = w.cooldowns[p]
      /\ DOMAIN u.cooldowns = Program \cup {Gcd}
  BY <1>1, <1>5, <1>6, GcdIsReserved
<1>9. CASE v = u
  BY <1>5, <1>7, <1>8, <1>9
<1>10. CASE v # u
  <2> DEFINE r == [q EXCEPT !.cooled = TRUE]
             p == q.prog
             k == DefOf(u, c).cooldown
  <2>1. v = [u EXCEPT !.casts[c].cooled = TRUE, !.cooldowns[p] = k]
    BY <1>4, <1>8, <1>10 DEF StartCooldown
  <2> HIDE DEF p, k
  <2>2. v.tasks = u.tasks /\ v.cooldowns = [u.cooldowns EXCEPT ![p] = k]
    BY ONLY <1>5, <2>1 DEF IsWorld
  <2>3. v.casts = [u.casts EXCEPT ![c] = r]
    BY ONLY <1>5, <1>8, <2>1 DEF IsWorld
  <2>4. r.token = q.token /\ r.prog = q.prog /\ r.committed = q.committed
    <3>1. q \in CastRecord
      BY <1>1 DEF q, CastRecord
    <3> QED BY ONLY <3>1 DEF CastRecord
  <2> HIDE DEF r
  <2>5. /\ DOMAIN v.casts = DOMAIN u.casts /\ v.casts[c] = r
        /\ \A d \in DOMAIN u.casts \ {c} : v.casts[d] = u.casts[d]
    BY <1>8, <2>3
  <2>6. p = w.casts[c].prog
    BY <1>7 DEF p
  <2>7. \A s \in Program \ {p} : v.cooldowns[s] = u.cooldowns[s]
    BY <1>8, <2>2
  <2> QED BY ONLY <1>5, <1>7, <1>8, <2>2, <2>4, <2>5, <2>6, <2>7
<1> QED BY <1>9, <1>10

(* It leaves the other casts in order if no other cast of a solo skill is   *)
(* about to commit: the cooldown that begins would be over for none.        *)
LEMMA EnterCommittedApart ==
    ASSUME NEW w, NEW c, Sound(w), c \in DOMAIN w.casts, Apart(w, c), Lone(w, c),
           Solo(w.casts[c].prog) => w.cooldowns[w.casts[c].prog] = 0,
           NEW v, v = EnterCommitted(w, c)
    PROVE  Apart(v, c) /\ Spaced(w, v) /\ c \in DOMAIN v.casts /\ v.casts[c].committed
<1>1. /\ v.tasks = w.tasks /\ DOMAIN v.casts = DOMAIN w.casts
      /\ \A d \in DOMAIN w.casts \ {c} : v.casts[d] = w.casts[d]
      /\ v.casts[c].token = w.casts[c].token /\ v.casts[c].prog = w.casts[c].prog
      /\ v.casts[c].committed
      /\ \A p \in Program \ {w.casts[c].prog} : v.cooldowns[p] = w.cooldowns[p]
  BY EnterCommittedWrites
<1>2. CastsTyped(w)
  BY DEF Sound
<1>3. Reached(v)
  BY <1>1 DEF Apart, Reached
<1>4. ASSUME NEW d, LiveIn(v, d), d # c
      PROVE  LiveIn(w, d) /\ v.casts[d] = w.casts[d] /\ (Poised(v, d) <=> Poised(w, d))
  BY <1>1, <1>4 DEF LiveIn, Poised
<1>5. ASSUME NEW d, LiveIn(v, d), d # c
      PROVE  Awaited(v, d)
  <2>1. LiveIn(w, d) /\ v.casts[d] = w.casts[d] /\ (Poised(v, d) <=> Poised(w, d))
    BY <1>4, <1>5
  <2>2. Awaited(w, d)
    BY <1>5, <2>1 DEF Apart
  <2>3. w.casts[d].prog \in Program
    BY <1>2, <2>1 DEF LiveIn, CastsTyped, CastRecord
  <2>4. Poised(w, d) /\ Solo(w.casts[d].prog) => v.cooldowns[w.casts[d].prog] = w.cooldowns[w.casts[d].prog]
    <3>1. CASE w.casts[d].prog = w.casts[c].prog
      BY <1>5, <2>1, <3>1 DEF Lone
    <3>2. CASE w.casts[d].prog # w.casts[c].prog
      BY <1>1, <2>3, <3>2
    <3> QED BY <3>1, <3>2
  <2> QED BY ONLY <1>1, <2>1, <2>2, <2>4 DEF Awaited
<1>6. ASSUME NEW d, NEW e, LiveIn(v, d), LiveIn(v, e), d # c, e # c, Rivals(v, d, e)
      PROVE  FALSE
  <2>1. /\ LiveIn(w, d) /\ v.casts[d] = w.casts[d] /\ (Poised(v, d) <=> Poised(w, d))
        /\ LiveIn(w, e) /\ v.casts[e] = w.casts[e] /\ (Poised(v, e) <=> Poised(w, e))
    BY <1>4, <1>6
  <2>2. Rivals(w, d, e)
    BY <1>6, <2>1 DEF Rivals
  <2> QED BY <1>6, <2>1, <2>2 DEF Apart
<1>7. Apart(v, c)
  BY ONLY <1>3, <1>5, <1>6 DEF Apart
<1>8. Spaced(w, v)
  BY <1>1 DEF Spaced
<1> QED BY <1>1, <1>7, <1>8

(* A commit leaves the other casts in order, and its cast has committed, or *)
(* nothing that matters to the order has happened.                          *)
LEMMA CommitApart ==
    ASSUME NEW w, NEW c, Sound(w), c \in DOMAIN w.casts, Apart(w, c), Lone(w, c),
           Solo(w.casts[c].prog) => w.cooldowns[w.casts[c].prog] = 0,
           NEW pay, NEW v, v = CommitCast(w, c, pay)
    PROVE  /\ Apart(v, c) /\ Spaced(w, v) /\ c \in DOMAIN v.casts
           /\ v.casts[c].committed \/ Follows(w, v, c)
<1>1. CastsTyped(w) /\ Reached(w) /\ w.casts[c].prog \in Program
  BY DEF Sound, CastsTyped, CastRecord, Apart
<1>2. ASSUME Follows(w, v, c)
      PROVE  Apart(v, c) /\ Spaced(w, v) /\ c \in DOMAIN v.casts
  BY <1>1, <1>2, PassesApart, PassesSpaced DEF Follows
<1>3. CASE w.casts[c].stage = "cancelled" \/ w.casts[c].committed
  <2>1. Follows(w, v, c)
    BY <1>1, <1>3, SameFollows DEF CommitCast
  <2> QED BY <1>2, <2>1
<1>4. CASE /\ ~(w.casts[c].stage = "cancelled" \/ w.casts[c].committed)
           /\ Mode(w, c) = "ammo" /\ w.ammo[w.casts[c].prog].stock <= 0
  <2>1. v = Bad(w)
    BY <1>4 DEF CommitCast
  <2>2. Follows(w, v, c)
    BY <2>1, BadFollows
  <2> QED BY <1>2, <2>2
<1>5. CASE /\ ~(w.casts[c].stage = "cancelled" \/ w.casts[c].committed)
           /\ ~(Mode(w, c) = "ammo" /\ w.ammo[w.casts[c].prog].stock <= 0)
  <2>1. PICK u : u = IF w.casts[c].paid THEN w ELSE PayCosts(w, c, pay)
    OBVIOUS
  <2>2. v = IF u.err THEN u ELSE EnterCommitted(TakeAmmo(u, c), c)
    BY <1>5, <2>1 DEF CommitCast
  <2>3. Follows(w, u, c) /\ Keeps(w, u, c) /\ u.ammo = w.ammo
    <3>1. CASE w.casts[c].paid
      BY <1>1, <2>1, <3>1, SameFollows, NoStep
    <3>2. CASE ~w.casts[c].paid
      <4>1. u = PayCosts(w, c, pay)
        BY <2>1, <3>2
      <4> QED BY <4>1, PayFollows, PayKeeps
    <3> QED BY <3>1, <3>2
  <2>4. CASE u.err
    BY <1>2, <2>2, <2>3, <2>4
  <2>5. CASE ~u.err
    <3>1. Sound(u) /\ c \in DOMAIN u.casts /\ u.casts[c].prog = w.casts[c].prog
      BY <2>3 DEF Keeps, Does, Only
    <3>2. Mode(u, c) = "ammo" => u.ammo[u.casts[c].prog].stock > 0
      <4>1. Mode(u, c) = Mode(w, c)
        BY <3>1 DEF Mode, DefOf
      <4>2. w.ammo[w.casts[c].prog].stock \in Nat
        BY <1>1 DEF Sound, AmmoAgrees, AmmoRecord
      <4> QED BY <1>5, <2>3, <3>1, <4>1, <4>2
    <3>3. PICK z : z = TakeAmmo(u, c)
      OBVIOUS
    <3>4. Calm(u, z, c) /\ z.casts = u.casts
      BY <3>1, <3>2, <3>3, TakeAmmoCalm
    <3>5. v = EnterCommitted(z, c) /\ Sound(z) /\ c \in DOMAIN z.casts
      BY <2>2, <2>5, <3>3, <3>4 DEF Calm, Keeps, Does
    <3>6. Follows(u, z, c)
      BY <3>1, <3>3, TakeAmmoFollows
    <3>7. Follows(w, z, c)
      BY <2>3, <3>6, ThenFollows
    <3>8. Apart(z, c) /\ Lone(z, c)
      BY <1>1, <3>7, PassesApart, FollowsLone DEF Follows
    <3>9. z.casts[c].prog = w.casts[c].prog
      BY <3>1, <3>4
    <3>10. Solo(z.casts[c].prog) => z.cooldowns[z.casts[c].prog] = 0
      BY <1>1, <3>7, <3>9 DEF Follows, Passes
    <3>11. Apart(v, c) /\ c \in DOMAIN v.casts /\ v.casts[c].committed /\ Spaced(z, v)
      BY <3>5, <3>8, <3>10, EnterCommittedApart
    <3>12. Spaced(w, v)
      BY <1>1, <3>7, <3>11, ThenSpaced DEF Follows
    <3> QED BY <3>11, <3>12
  <2> QED BY <2>4, <2>5
<1> QED BY <1>3, <1>4, <1>5

(* What was spaced stays so in a step that schedules no commit. *)
LEMMA SpacedOn ==
    ASSUME NEW w, NEW u, NEW v, NEW c, Spaced(w, u), Passes(u, v, c)
    PROVE  Spaced(w, v)
BY DEF Passes, Alike, Spaced

-----------------------------------------------------------------------------
(* Windows and releases in order *)

(* A task that is due by n commits the phase of cast c. *)
CommitsBy(w, c, n) ==
    \E t \in ToSet(w.tasks) : /\ t.kind = "commit" /\ t.id = c /\ t.due <= n
                              /\ t.token = w.casts[c].token

(* The commit of a window, at once or as a task, leaves its cast ready, and *)
(* what executes it has a commit before it.                                 *)
LEMMA WindupCommits ==
    ASSUME NEW w, NEW c, Sound(w), c \in DOMAIN w.casts, w.casts[c].stage = "preparing",
           Ready(w, c), Lone(w, c), Solo(w.casts[c].prog) => w.cooldowns[w.casts[c].prog] = 0,
           NEW m \in Nat, NEW pay,
           NEW v, v = IF m = 0 THEN CommitCast(w, c, pay) ELSE Schedule(w, c, m, "commit", "")
    PROVE  /\ Keeps(w, v, c) /\ Ready(v, c) /\ Spaced(w, v)
           /\ ~v.err => v.casts[c].committed \/ CommitsBy(v, c, m)
<1>1. CASE m = 0
  <2>1. v = CommitCast(w, c, pay)
    BY <1>1
  <2>2. Keeps(w, v, c) /\ (~v.err => v.casts[c].committed)
    BY <2>1, CommitKeeps
  <2>3. Apart(w, c) /\ CastsTyped(w)
    BY DEF Ready, Sound
  <2>4. /\ Apart(v, c) /\ Spaced(w, v) /\ c \in DOMAIN v.casts
        /\ v.casts[c].committed \/ Follows(w, v, c)
    BY <2>1, <2>3, CommitApart
  <2>5. Ready(v, c)
    BY <2>3, <2>4, CommittedReady, FollowsReady
  <2> QED BY <2>2, <2>4, <2>5
<1>2. CASE m # 0
  <2>1. PICK kind \in CastKinds : kind = "commit"
    BY DEF CastKinds
  <2>2. PICK what \in Words : what = ""
    BY DEF Words
  <2>3. v = Schedule(w, c, m, kind, what)
    BY <1>2, <2>1, <2>2
  <2>4. Calm(w, v, c)
    BY ONLY Sound(w), c \in DOMAIN w.casts, <2>3, m \in Nat, kind \in CastKinds, what \in Words, ScheduleCalm
  <2>5. Apart(w, c) /\ w.casts[c].stage \in Windows
    BY DEF Ready, Windows
  <2>6. Spaced(w, v)
    BY ONLY Sound(w), c \in DOMAIN w.casts, <2>3, <2>5, m \in Nat, kind \in CastKinds, what \in Words, ScheduledApart
  <2>7. kind # "execute"
    BY <2>1
  <2>8. Ready(v, c)
    BY ONLY Sound(w), c \in DOMAIN w.casts, Ready(w, c), Lone(w, c),
       Solo(w.casts[c].prog) => w.cooldowns[w.casts[c].prog] = 0,
       <2>3, <2>5, <2>7, m \in Nat, kind \in CastKinds, what \in Words, ScheduleReady
  <2>9. /\ Adds(w, v, c, Task(m, kind, c, w.casts[c].token, what))
        /\ v.casts[c].token = w.casts[c].token
    BY ONLY Sound(w), c \in DOMAIN w.casts, <2>3, m \in Nat, kind \in CastKinds, what \in Words, Scheduled
  <2>10. CommitsBy(v, c, m)
    <3>1. PICK t : /\ t \in ToSet(v.tasks)
                   /\ t = Task(m, kind, c, w.casts[c].token, what)
      BY <2>9 DEF Adds
    <3>2. t.kind = "commit" /\ t.id = c /\ t.due = m /\ t.token = v.casts[c].token
      BY <2>1, <2>9, <3>1 DEF Task
    <3>3. t.due <= m
      BY ONLY <3>2, m \in Nat
    <3> QED BY <3>1, <3>2, <3>3 DEF CommitsBy
  <2> QED BY <2>4, <2>6, <2>8, <2>10 DEF Calm
<1> QED BY <1>1, <1>2

(* A window keeps the order: no other cast of a solo skill is about to      *)
(* commit when it begins, and its cooldown is over.                         *)
LEMMA WindupOrders ==
    ASSUME NEW w, NEW c, Sound(w), c \in DOMAIN w.casts, w.casts[c].stage = "preparing",
           Ready(w, c), Lone(w, c), Solo(w.casts[c].prog) => w.cooldowns[w.casts[c].prog] = 0,
           NEW x, IsLot(x), NEW v, v = Windup(w, c, x)
    PROVE  Orderly(w, v)
<1> DEFINE d == DefOf(w, c)
<1>1. d \in Definition /\ d.commit <= d.windup
  BY DefinitionOf, ShapeIsChecked
<1>2. d.commit \in Nat /\ d.windup \in Nat
  BY ONLY <1>1 DEF Definition
<1>3. PICK m \in Nat : m = d.commit
  BY <1>2
<1>4. PICK n \in Nat : n = d.windup
  BY <1>2
<1>5. PICK u : u = IF d.refund THEN w ELSE PayCosts(w, c, x.pay)
  OBVIOUS
<1>6. PICK z : z = IF u.err THEN u ELSE IF m = 0 THEN CommitCast(u, c, x.pay)
                   ELSE Schedule(u, c, m, "commit", "")
  OBVIOUS
<1>7. v = IF z.err THEN z ELSE IF n = 0 THEN BeginExecution(z, c, x) ELSE Schedule(z, c, n, "execute", "")
  BY <1>3, <1>4, <1>5, <1>6 DEF Windup
<1>8. m <= n
  BY <1>1, <1>3, <1>4
<1> HIDE DEF d
<1>9. CastsTyped(w) /\ Reached(w) /\ w.casts[c].prog \in Program
  BY DEF Sound, CastsTyped, CastRecord, Ready, Apart
<1>10. Keeps(w, u, c) /\ u.casts[c].stage = w.casts[c].stage /\ Follows(w, u, c)
  <2>1. CASE d.refund
    <3>1. u = w
      BY <1>5, <2>1
    <3> QED BY <1>9, <3>1, NoStep, SameFollows
  <2>2. CASE ~d.refund
    <3>1. u = PayCosts(w, c, x.pay)
      BY <1>5, <2>2
    <3> QED BY <3>1, PayKeeps, PayFollows
  <2> QED BY <2>1, <2>2
<1>11. /\ Sound(u) /\ c \in DOMAIN u.casts /\ u.casts[c].prog = w.casts[c].prog
       /\ u.casts[c].stage = "preparing"
  BY <1>10 DEF Keeps, Does, Only
<1>12. Ready(u, c) /\ Lone(u, c)
  BY <1>9, <1>10, FollowsReady, FollowsLone
<1>13. Solo(u.casts[c].prog) => u.cooldowns[u.casts[c].prog] = 0
  BY <1>9, <1>10, <1>11 DEF Follows, Passes
<1>14. CASE u.err
  <2>1. v = u
    BY <1>6, <1>7, <1>14
  <2> QED BY <1>9, <1>10, <2>1, FollowsCloses, ClosesOrderly
<1>15. CASE ~u.err
  <2>0. PICK pay : pay = x.pay
    OBVIOUS
  <2>1. z = IF m = 0 THEN CommitCast(u, c, pay) ELSE Schedule(u, c, m, "commit", "")
    BY <1>6, <1>15, <2>0
  <2>2. /\ Keeps(u, z, c) /\ Ready(z, c) /\ Spaced(u, z)
        /\ ~z.err => z.casts[c].committed \/ CommitsBy(z, c, m)
    BY ONLY <1>11, <1>12, <1>13, <2>1, m \in Nat, WindupCommits
  <2>3. Spaced(w, z)
    BY <1>9, <1>10, <2>2, ThenSpaced DEF Follows
  <2>4. Sound(z) /\ c \in DOMAIN z.casts
    BY <2>2 DEF Keeps, Does
  <2>5. CASE z.err
    <3>1. v = z
      BY <1>7, <2>5
    <3>2. InOrder(v)
      BY <2>2, <3>1, InOrderLast
    <3> QED BY <2>3, <3>1, <3>2 DEF Orderly
  <2>6. CASE ~z.err /\ n = 0
    <3>1. v = BeginExecution(z, c, x)
      BY <1>7, <2>6
    <3>2. Closes(z, v, c)
      BY <2>4, <3>1, BeginExecutionCloses
    <3>3. Orderly(z, v)
      BY <2>2, <2>4, <3>2, ClosesOrderly DEF Sound
    <3>4. Spaced(w, v)
      BY <2>3, <3>2, SpacedOn DEF Closes
    <3> QED BY <3>3, <3>4 DEF Orderly
  <2>7. CASE ~z.err /\ n # 0
    <3>1. PICK kind \in CastKinds : kind = "execute"
      BY DEF CastKinds
    <3>2. PICK what \in Words : what = ""
      BY DEF Words
    <3>3. v = Schedule(z, c, n, kind, what)
      BY <1>7, <2>7, <3>1, <3>2
    <3>4. \/ z.casts[c].committed
          \/ \E t \in ToSet(z.tasks) : /\ t.kind = "commit" /\ t.id = c /\ t.due <= n
                                       /\ t.token = z.casts[c].token
      <4>1. CASE z.casts[c].committed
        BY <4>1
      <4>2. CASE ~z.casts[c].committed
        <5>1. PICK t \in ToSet(z.tasks) : t.kind = "commit" /\ t.id = c /\ t.due <= m /\ t.token = z.casts[c].token
          BY <2>2, <2>7, <4>2 DEF CommitsBy
        <5>2. t.due \in Nat
          <6>1. z.tasks \in Seq(Tasks)
            BY <2>4 DEF Sound, HeapAgrees, Heap
          <6>2. t \in Tasks
            BY <5>1, <6>1 DEF ToSet
          <6> QED BY <6>2 DEF Tasks, CastTask, RechargeTask
        <5>3. t.due <= n
          BY ONLY <1>8, <5>1, <5>2, m \in Nat, n \in Nat
        <5> QED BY <5>1, <5>3
      <4> QED BY <4>1, <4>2
    <3>5. kind # "commit"
      BY <3>1
    <3>6. Ready(v, c)
      BY ONLY <2>2, <2>4, <3>3, <3>4, <3>5, n \in Nat, kind \in CastKinds, what \in Words, ScheduleReady
    <3>7. InOrder(v)
      BY <3>6, InOrderLast
    <3>8. /\ DOMAIN v.casts = DOMAIN z.casts /\ v.casts[c].committed = z.casts[c].committed
          /\ \A e \in DOMAIN z.casts \ {c} : v.casts[e] = z.casts[e]
      BY ONLY <2>4, <3>3, n \in Nat, kind \in CastKinds, what \in Words, Scheduled
    <3>9. Spaced(w, v)
      BY <2>3, <3>8 DEF Spaced
    <3> QED BY <3>7, <3>9 DEF Orderly
  <2> QED BY <2>5, <2>6, <2>7
<1> QED BY <1>14, <1>15

(* The same of PrepareWindow. *)
LEMMA PrepareWindowOrders ==
    ASSUME NEW w, NEW c, Sound(w), c \in DOMAIN w.casts, Ready(w, c), Lone(w, c),
           Solo(w.casts[c].prog) => w.cooldowns[w.casts[c].prog] = 0,
           NEW root \in {"enter", "release"}, NEW x, IsLot(x), NEW v, v = PrepareWindow(w, c, root, x)
    PROVE  Orderly(w, v)
<1>1. PICK u : u = [w EXCEPT !.casts[c].root = root, !.casts[c].stage = "preparing"]
  OBVIOUS
<1>2. v = Windup(u, c, x)
  BY <1>1 DEF PrepareWindow
<1>3. CastsTyped(w) /\ Reached(w) /\ w.casts[c].prog \in Program
  BY DEF Sound, CastsTyped, CastRecord, Ready, Apart
<1>4. Calm(w, u, c)
  BY ONLY Sound(w), c \in DOMAIN w.casts, root \in {"enter", "release"}, <1>1, EditPreparing
<1>5. Sound(u) /\ c \in DOMAIN u.casts /\ u.casts[c].prog = w.casts[c].prog
  BY <1>4 DEF Calm, Keeps, Does, Only
<1>6. Follows(w, u, c) /\ u.casts[c].stage = "preparing"
  BY ONLY Sound(w), c \in DOMAIN w.casts, root \in {"enter", "release"}, <1>1, PreparingFollows
<1>7. Ready(u, c) /\ Lone(u, c)
  BY <1>3, <1>6, FollowsReady, FollowsLone
<1>8. Solo(u.casts[c].prog) => u.cooldowns[u.casts[c].prog] = 0
  BY <1>3, <1>5, <1>6 DEF Follows, Passes
<1>9. Orderly(u, v)
  BY ONLY <1>2, <1>5, <1>6, <1>7, <1>8, IsLot(x), WindupOrders
<1> QED BY <1>3, <1>6, <1>9, ThenOrderly DEF Follows

(* A release keeps the order, also that of a cast that has failed: what it  *)
(* schedules is of a new phase.                                             *)
LEMMA ReleaseCastOrders ==
    ASSUME NEW w, NEW c, Sound(w), c \in DOMAIN w.casts, InOrder(w), NEW x, IsLot(x),
           NEW v, v = ReleaseCast(w, c, x)
    PROVE  Orderly(w, v)
<1> DEFINE d == DefOf(w, c)
           no == w.casts[c].logical \/ w.casts[c].stage \in {"recovering", "complete", "cancelled"}
<1>1. PICK quit : quit = CancelPhaseTasks(w, c)
  OBVIOUS
<1>2. PICK next : next = [quit EXCEPT !.casts[c].token = @ + 1]
  OBVIOUS
<1>3. Calm(w, quit, c) /\ Follows(w, quit, c)
  BY <1>1, CancelTasksCalm, CancelTasksFollows
<1>4. Sound(quit) /\ c \in DOMAIN quit.casts
  BY <1>3 DEF Calm, Keeps, Does
<1>5. Calm(quit, next, c)
  BY ONLY <1>2, <1>4, EditToken
<1>6. Calm(w, next, c)
  BY <1>3, <1>5, ThenCalm
<1>7. Sound(next) /\ c \in DOMAIN next.casts /\ next.casts[c].prog = w.casts[c].prog
  BY <1>6 DEF Calm, Keeps, Does, Only
<1>8. v = IF no THEN Bad(w)
          ELSE IF d.mode = "charge"
               THEN IF w.casts[c].age < d.minCharge
                    THEN CancelledAs(CancelPhaseTasks(DropSlot(w, c), c), c)
                    ELSE PrepareWindow([next EXCEPT !.casts[c].status = "running"], c, "release", x)
          ELSE IF d.mode \in {"hold", "toggle"}
               THEN ExecuteCastEvent(StartCooldown(DropSlot(next, c), c), c, x.release, x)
          ELSE Bad(w)
  BY <1>1, <1>2 DEF ReleaseCast
<1>9. d.mode \in {"charge", "hold", "toggle"} => ~Solo(w.casts[c].prog)
  BY DEF Solo, DefOf
<1> HIDE DEF no, d
<1>10. CastsTyped(w) /\ CastsTyped(quit) /\ CastsTyped(next) /\ IsWorld(w) /\ Apart(w, c)
  BY <1>4, <1>7, ReadyFirst DEF Sound
<1>11. Apart(quit, c)
  BY <1>3, <1>10, PassesApart DEF Follows
<1>12. Ready(next, c)
  BY ONLY <1>2, <1>4, <1>11, TokenReady
<1>13. Follows(quit, next, c)
  BY ONLY <1>2, <1>4, TokenFollows
<1>14. Follows(w, next, c)
  BY <1>3, <1>13, ThenFollows
<1>15. CASE no \/ d.mode \notin {"charge", "hold", "toggle"}
  <2>1. v = Bad(w)
    BY <1>8, <1>15
  <2>2. v.casts = w.casts /\ v.tasks = w.tasks /\ v.cooldowns = w.cooldowns
    BY ONLY <1>10, <2>1 DEF Bad, IsWorld
  <2> QED BY <2>2, SameOrderly
<1>16. CASE ~no /\ d.mode = "charge" /\ w.casts[c].age < d.minCharge
  <2>1. PICK u : u = DropSlot(w, c)
    OBVIOUS
  <2>2. PICK z : z = CancelPhaseTasks(u, c)
    OBVIOUS
  <2>3. v = CancelledAs(z, c)
    BY <1>8, <1>16, <2>1, <2>2
  <2>4. Calm(w, u, c) /\ Follows(w, u, c)
    BY <2>1, DropSlotCalm, DropSlotFollows
  <2>5. Sound(u) /\ c \in DOMAIN u.casts
    BY <2>4 DEF Calm, Keeps, Does
  <2>6. Calm(u, z, c) /\ Follows(u, z, c)
    BY <2>2, <2>5, CancelTasksCalm, CancelTasksFollows
  <2>7. Sound(z) /\ c \in DOMAIN z.casts
    BY <2>6 DEF Calm, Keeps, Does
  <2>8. Passes(z, v, c) /\ ~LiveIn(v, c)
    BY <2>3, <2>7, CancelledAsEnds
  <2>9. Passes(w, v, c)
    BY <2>4, <2>6, <2>8, PassesOn DEF Follows
  <2> QED BY <1>10, <2>8, <2>9, EndsOrderly
<1>17. CASE ~no /\ d.mode = "charge" /\ ~(w.casts[c].age < d.minCharge)
  <2>1. PICK s \in {"running", "suspended", "finished", "failed"} : s = "running"
    OBVIOUS
  <2>2. PICK u : u = [next EXCEPT !.casts[c].status = s]
    OBVIOUS
  <2>3. PICK root \in {"enter", "release"} : root = "release"
    OBVIOUS
  <2>4. v = PrepareWindow(u, c, root, x)
    BY <1>8, <1>17, <2>1, <2>2, <2>3
  <2>5. Calm(next, u, c)
    BY <1>7, <2>1, <2>2, RunningCalm
  <2>6. Follows(next, u, c)
    BY ONLY <1>7, <2>2, s \in {"running", "suspended", "finished", "failed"}, StatusFollows
  <2>7. Sound(u) /\ c \in DOMAIN u.casts /\ u.casts[c].prog = w.casts[c].prog
    BY <1>7, <2>5 DEF Calm, Keeps, Does, Only
  <2>8. Ready(u, c)
    BY <1>10, <1>12, <2>6, FollowsReady
  <2>9. ~Solo(u.casts[c].prog)
    BY <1>9, <1>17, <2>7
  <2>10. Lone(u, c)
    BY <2>9 DEF Lone
  <2>11. Orderly(u, v)
    BY ONLY <2>4, <2>7, <2>8, <2>9, <2>10, IsLot(x), root \in {"enter", "release"}, PrepareWindowOrders
  <2>12. Passes(w, u, c)
    BY <1>14, <2>6, PassesOn DEF Follows
  <2> QED BY <1>10, <2>11, <2>12, ThenOrderly
<1>18. CASE ~no /\ d.mode \in {"hold", "toggle"}
  <2>1. PICK u : u = DropSlot(next, c)
    OBVIOUS
  <2>2. PICK z : z = StartCooldown(u, c)
    OBVIOUS
  <2>3. PICK o \in Outcome : o = x.release
    BY DEF IsLot
  <2>4. v = ExecuteCastEvent(z, c, o, x)
    BY <1>8, <1>18, <2>1, <2>2, <2>3
  <2>5. Calm(next, u, c) /\ Follows(next, u, c)
    BY <1>7, <2>1, DropSlotCalm, DropSlotFollows
  <2>6. Sound(u) /\ c \in DOMAIN u.casts /\ u.casts[c].prog = w.casts[c].prog
    BY <1>7, <2>5 DEF Calm, Keeps, Does, Only
  <2>7. ~Solo(u.casts[c].prog)
    BY <1>9, <1>18, <2>6
  <2>8. Calm(u, z, c) /\ Follows(u, z, c)
    BY <2>2, <2>6, <2>7, StartCooldownCalm, StartCooldownFollows
  <2>9. Sound(z) /\ c \in DOMAIN z.casts
    BY <2>8 DEF Calm, Keeps, Does
  <2>10. Follows(next, z, c)
    BY <2>5, <2>8, ThenFollows
  <2>11. Closes(z, v, c)
    BY ONLY <2>4, <2>9, IsLot(x), o \in Outcome, ExecuteCastEventCloses
  <2>12. Ready(z, c)
    BY <1>10, <1>12, <2>10, FollowsReady
  <2>13. Orderly(z, v)
    BY <2>9, <2>11, <2>12, ClosesOrderly DEF Sound
  <2>14. Passes(w, z, c)
    BY <1>14, <2>10, PassesOn DEF Follows
  <2> QED BY <1>10, <2>13, <2>14, ThenOrderly
<1> QED BY <1>15, <1>16, <1>17, <1>18

(* A pulse keeps the order. *)
LEMMA ExecutePulseOrders ==
    ASSUME NEW w, NEW c, Sound(w), LiveIn(w, c), InOrder(w), NEW x, IsLot(x),
           NEW v, v = ExecutePulse(w, c, x)
    PROVE  Orderly(w, v)
<1> DEFINE d == DefOf(w, c)
           acts == w.casts[c].phase = 1
           more == d.pulse < d.maxTicks - w.casts[c].age
<1>0. d.pulse \in Nat /\ c \in DOMAIN w.casts
  BY DefinitionOf DEF Definition, LiveIn
<1>1. PICK due \in Nat : due = d.pulse
  BY <1>0
<1>2. PICK o \in Outcome : o = x.pulse
  BY DEF IsLot
<1>3. PICK u : u = IF acts THEN Forked(w, c, o) ELSE w
  OBVIOUS
<1>4. PICK again : again = IF more THEN Schedule(u, c, due, "pulse", "") ELSE u
  OBVIOUS
<1>5. v = IF ~w.casts[c].policy THEN w
          ELSE IF d.sustain /\ ~x.pay THEN ReleaseCast(w, c, x)
          ELSE IF acts /\ o.then = "error" THEN Bad(u)
          ELSE IF acts /\ o.then # "through" THEN ResolveControl(u, c, o.then, x)
          ELSE [again EXCEPT !.casts[c].status = "suspended"]
  BY <1>1, <1>2, <1>3, <1>4 DEF ExecutePulse
<1> HIDE DEF d, acts, more
<1>6. CastsTyped(w) /\ Ready(w, c)
  BY ReadyFirst DEF Sound
<1>7. Calm(w, u, c) /\ Follows(w, u, c)
  <2>1. CASE acts
    <3>1. u = Forked(w, c, o)
      BY <1>3, <2>1
    <3> QED BY <1>0, <3>1, ForkedCalm, ForkedFollows
  <2>2. CASE ~acts
    <3>1. u = w
      BY <1>3, <2>2
    <3> QED BY <1>0, <1>6, <3>1, NoStep, SameFollows DEF Calm
  <2> QED BY <2>1, <2>2
<1>8. Sound(u) /\ c \in DOMAIN u.casts
  BY <1>7 DEF Calm, Keeps, Does
<1>9. Calm(u, again, c) /\ Follows(u, again, c)
  <2>1. CASE more
    <3>1. PICK kind \in CastKinds : kind = "pulse"
      BY DEF CastKinds
    <3>2. PICK what \in Words : what = ""
      BY DEF Words
    <3>3. again = Schedule(u, c, due, kind, what)
      BY <1>4, <2>1, <3>1, <3>2
    <3>4. Calm(u, again, c)
      BY ONLY <1>8, <3>3, due \in Nat, kind \in CastKinds, what \in Words, ScheduleCalm
    <3>5. due \in Int /\ kind \in CastKinds \ {"commit", "execute"}
      BY <3>1
    <3>6. Follows(u, again, c)
      BY ONLY <1>8, <3>3, <3>5, what \in Words, ScheduleFollows
    <3> QED BY <3>4, <3>6
  <2>2. CASE ~more
    <3>1. again = u
      BY <1>4, <2>2
    <3> QED BY <1>8, <3>1, NoStep, SameFollows DEF Calm, Sound
  <2> QED BY <2>1, <2>2
<1>10. Sound(again) /\ c \in DOMAIN again.casts
  BY <1>9 DEF Calm, Keeps, Does
<1>11. CASE ~w.casts[c].policy
  <2>1. v = w
    BY <1>5, <1>11
  <2> QED BY <2>1, SameOrderly
<1>12. CASE w.casts[c].policy /\ d.sustain /\ ~x.pay
  <2>1. v = ReleaseCast(w, c, x)
    BY <1>5, <1>12
  <2> QED BY <1>0, <2>1, ReleaseCastOrders
<1>13. CASE w.casts[c].policy /\ ~(d.sustain /\ ~x.pay) /\ acts /\ o.then = "error"
  <2>1. v = Bad(u)
    BY <1>5, <1>13
  <2>2. Follows(u, v, c)
    BY <1>8, <2>1, BadFollows
  <2>3. Closes(w, v, c)
    BY <1>7, <2>2, ThenFollows, FollowsCloses
  <2> QED BY <1>6, <2>3, ClosesOrderly
<1>14. CASE w.casts[c].policy /\ ~(d.sustain /\ ~x.pay) /\ acts /\ o.then # "error" /\ o.then # "through"
  <2>1. PICK control \in Control : control = o.then
    BY DEF Outcome
  <2>2. v = ResolveControl(u, c, control, x)
    BY <1>5, <1>14, <2>1
  <2>3. Closes(u, v, c)
    BY ONLY <1>8, <2>2, IsLot(x), control \in Control, ResolveControlCloses
  <2>4. Closes(w, v, c)
    BY <1>7, <2>3, ThenCloses
  <2> QED BY <1>6, <2>4, ClosesOrderly
<1>15. CASE w.casts[c].policy /\ ~(d.sustain /\ ~x.pay) /\ (~acts \/ o.then = "through")
  <2>1. PICK s \in {"running", "suspended", "finished", "failed"} : s = "suspended"
    OBVIOUS
  <2>2. v = [again EXCEPT !.casts[c].status = s]
    BY <1>5, <1>15, <2>1
  <2>3. Follows(again, v, c)
    BY ONLY <1>10, <2>2, s \in {"running", "suspended", "finished", "failed"}, StatusFollows
  <2>4. Closes(w, v, c)
    BY <1>7, <1>9, <2>3, ThenFollows, FollowsCloses
  <2> QED BY <1>6, <2>4, ClosesOrderly
<1> QED BY <1>11, <1>12, <1>13, <1>14, <1>15

(* So does the end of a policy that nobody released. *)
LEMMA ExecuteAutoReleaseOrders ==
    ASSUME NEW w, NEW c, Sound(w), c \in DOMAIN w.casts, InOrder(w), NEW x, IsLot(x), NEW reason,
           NEW v, v = ExecuteAutoRelease(w, c, reason, x)
    PROVE  Orderly(w, v)
<1> DEFINE quits == Mode(w, c) = "charge" /\ reason = "cancelled"
<1>1. v = IF ~w.casts[c].policy THEN w
          ELSE IF quits THEN CancelledAs(DropSlot(w, c), c) ELSE ReleaseCast(w, c, x)
  BY DEF ExecuteAutoRelease
<1> HIDE DEF quits
<1>2. CASE ~w.casts[c].policy
  <2>1. v = w
    BY <1>1, <1>2
  <2> QED BY <2>1, SameOrderly
<1>3. CASE w.casts[c].policy /\ quits
  <2>1. PICK u : u = DropSlot(w, c)
    OBVIOUS
  <2>2. v = CancelledAs(u, c)
    BY <1>1, <1>3, <2>1
  <2>3. Calm(w, u, c) /\ Follows(w, u, c)
    BY <2>1, DropSlotCalm, DropSlotFollows
  <2>4. Sound(u) /\ c \in DOMAIN u.casts
    BY <2>3 DEF Calm, Keeps, Does
  <2>5. Passes(u, v, c) /\ ~LiveIn(v, c)
    BY <2>2, <2>4, CancelledAsEnds
  <2>6. Passes(w, v, c) /\ Apart(w, c) /\ CastsTyped(w)
    BY <2>3, <2>5, PassesOn, ReadyFirst DEF Follows, Sound
  <2> QED BY <2>5, <2>6, EndsOrderly
<1>4. CASE w.casts[c].policy /\ ~quits
  <2>1. v = ReleaseCast(w, c, x)
    BY <1>1, <1>4
  <2> QED BY <2>1, ReleaseCastOrders
<1> QED BY <1>2, <1>3, <1>4

-----------------------------------------------------------------------------
(* The actions keep the order *)

(* A call or a task that leaves an orderly world. *)
LEMMA BecomesInOrder ==
    ASSUME NEW w, w = World, NEW v, Becomes(v), Orderly(w, v)
    PROVE  InOrder(World)' /\ CommitIsSpaced
<1>1. InOrder(v) /\ Spaced(w, v)
  BY DEF Orderly
<1>2. PICK u : u = World'
  OBVIOUS
<1>3. u.casts = v.casts /\ u.tasks = v.tasks /\ u.cooldowns = v.cooldowns
  BY <1>2 DEF World, Becomes
<1>4. InOrder(u)
  BY <1>1, <1>3, SameOrderly DEF Orderly
<1>5. InOrder(World')
  BY <1>2, <1>4
<1>6. w.casts = casts /\ w.cooldowns = cooldowns /\ casts' = v.casts
  BY DEF World, Becomes
<1>7. CommitIsSpaced
  BY <1>1, <1>6 DEF CommitIsSpaced, Spaced, Solo
<1> QED BY <1>5, <1>7

(* What the removal of the first task changes. *)
LEMMA TakenWrites ==
    ASSUME IInv, Due, First.kind # "recharge", NEW c, c = First.id, NEW w, w = World, NEW v, v = Taken(c)
    PROVE  /\ c \in DOMAIN w.casts /\ v.tasks = Tail(w.tasks) /\ v.cooldowns = w.cooldowns
           /\ DOMAIN v.casts = DOMAIN w.casts
           /\ \A d \in DOMAIN w.casts :
                /\ v.casts[d].prog = w.casts[d].prog /\ v.casts[d].status = w.casts[d].status
                /\ v.casts[d].token = w.casts[d].token /\ v.casts[d].stage = w.casts[d].stage
                /\ v.casts[d].committed = w.casts[d].committed
<1> DEFINE n == IF w.casts[c].pending > 0 THEN w.casts[c].pending - 1 ELSE 0
           r == [w.casts[c] EXCEPT !.pending = n]
<1>1. IsWorld(w) /\ CastsTyped(w)
  BY AtWorld DEF Sound
<1>2. c \in DOMAIN w.casts
  BY TakenSound DEF World
<1>3. v = [w EXCEPT !.tasks = Tail(@), !.casts[c].pending = IF @ > 0 THEN @ - 1 ELSE 0]
  BY DEF Taken, Popped
<1>4. v.tasks = Tail(w.tasks) /\ v.cooldowns = w.cooldowns /\ v.casts = [w.casts EXCEPT ![c] = r]
  BY ONLY <1>1, <1>3 DEF IsWorld
<1>5. w.casts[c] \in CastRecord
  BY <1>1, <1>2 DEF CastsTyped
<1>6. /\ r.prog = w.casts[c].prog /\ r.status = w.casts[c].status /\ r.token = w.casts[c].token
      /\ r.stage = w.casts[c].stage /\ r.committed = w.casts[c].committed
  BY ONLY <1>5 DEF CastRecord
<1> HIDE DEF r
<1>7. /\ DOMAIN v.casts = DOMAIN w.casts /\ v.casts[c] = r
      /\ \A d \in DOMAIN w.casts \ {c} : v.casts[d] = w.casts[d]
  BY <1>2, <1>4
<1> QED BY ONLY <1>2, <1>4, <1>6, <1>7

(* The casts are in order when a task is taken, but for that of a commit.  *)
LEMMA TakenInOrder ==
    ASSUME IInv, Due, First.kind # "recharge", NEW c, c = First.id, NEW w, w = World, NEW v, v = Taken(c),
           InOrder(w)
    PROVE  /\ Apart(v, c)
           /\ First.kind # "commit" \/ First.token # w.casts[c].token \/ Ended(w.casts[c]) => InOrder(v)
           /\ \A d : LiveIn(v, d) <=> LiveIn(w, d)
           /\ \A d \in DOMAIN v.casts : Poised(v, d) => Poised(w, d)
<1>1. /\ c \in DOMAIN w.casts /\ v.tasks = Tail(w.tasks) /\ v.cooldowns = w.cooldowns
      /\ DOMAIN v.casts = DOMAIN w.casts
      /\ \A d \in DOMAIN w.casts :
           /\ v.casts[d].prog = w.casts[d].prog /\ v.casts[d].status = w.casts[d].status
           /\ v.casts[d].token = w.casts[d].token /\ v.casts[d].stage = w.casts[d].stage
           /\ v.casts[d].committed = w.casts[d].committed
  BY TakenWrites
<1>2. Heap(w.tasks) /\ w.tasks # <<>> /\ w.tasks[1] = First
  BY AtWorld DEF Sound, HeapAgrees, Due, First, World
<1>3. ToSet(v.tasks) \subseteq ToSet(w.tasks)
  BY <1>1, <1>2, PoppedTally
<1>4. \A d : LiveIn(v, d) <=> LiveIn(w, d)
  BY <1>1 DEF LiveIn, Ended
<1>5. \A d \in DOMAIN v.casts : Poised(v, d) => Poised(w, d)
  BY <1>1, <1>3 DEF Poised
<1>6. Reached(v)
  BY <1>1, <1>3 DEF InOrder, Reached
<1>7. ASSUME NEW d, LiveIn(v, d), ~(First.kind = "commit" /\ First.id = d /\ First.token = w.casts[d].token)
      PROVE  Awaited(v, d)
  <2>1. d \in DOMAIN w.casts /\ Awaited(w, d) /\ d \in DOMAIN v.casts
    BY <1>1, <1>4, <1>7 DEF InOrder, LiveIn
  <2>2. Led(w.tasks, d, w.casts[d].token) => Led(v.tasks, d, w.casts[d].token)
    BY <1>1, <1>2, <1>7, TailLed
  <2>3. Poised(v, d) => Poised(w, d)
    BY <1>5, <2>1
  <2> QED BY ONLY <1>1, <2>1, <2>2, <2>3 DEF Awaited
<1>8. ASSUME NEW d, NEW e, LiveIn(v, d), LiveIn(v, e), Rivals(v, d, e)
      PROVE  FALSE
  <2>1. LiveIn(w, d) /\ LiveIn(w, e) /\ d \in DOMAIN v.casts /\ e \in DOMAIN v.casts
    BY <1>4, <1>8 DEF LiveIn
  <2>2. Rivals(w, d, e)
    BY <1>1, <1>5, <1>8, <2>1 DEF Rivals
  <2> QED BY <2>1, <2>2 DEF InOrder
<1>9. Apart(v, c)
  BY <1>6, <1>7, <1>8 DEF Apart
<1>10. First.kind # "commit" \/ First.token # w.casts[c].token \/ Ended(w.casts[c]) => InOrder(v)
  <2>1. HAVE First.kind # "commit" \/ First.token # w.casts[c].token \/ Ended(w.casts[c])
  <2>2. ASSUME NEW d, LiveIn(v, d)
        PROVE  Awaited(v, d)
    <3>1. d = c => ~Ended(w.casts[c])
      BY <1>4, <2>2 DEF LiveIn
    <3> QED BY <1>7, <2>1, <2>2, <3>1
  <2> QED BY <1>6, <1>8, <2>2 DEF InOrder
<1> QED BY <1>4, <1>5, <1>9, <1>10

(* A task that leaves the world orderly since it was taken. *)
LEMMA TakenOrders ==
    ASSUME IInv, Due, First.kind # "recharge", NEW c, c = First.id, NEW u, u = Taken(c),
           NEW v, Advanced(v, c), Orderly(u, v)
    PROVE  InOrder(World)' /\ CommitIsSpaced
<1>1. PICK w : w = World
  OBVIOUS
<1>2. /\ u.cooldowns = w.cooldowns /\ DOMAIN u.casts = DOMAIN w.casts
      /\ \A d \in DOMAIN w.casts : u.casts[d].prog = w.casts[d].prog /\ u.casts[d].committed = w.casts[d].committed
  BY <1>1, TakenWrites
<1>3. Spaced(w, v)
  BY <1>2 DEF Orderly, Spaced
<1>4. Becomes(v) /\ Orderly(w, v)
  BY <1>3 DEF Advanced, Orderly
<1> QED BY <1>1, <1>4, BecomesInOrder

(* The same if an error of the task fails its cast. *)
LEMMA FailingOrders ==
    ASSUME IInv, Due, First.kind # "recharge", NEW c, c = First.id, NEW u, u = Taken(c),
           NEW v, FailsOnError(v, c), Sound(v), Apart(v, c), Spaced(u, v),
           v.err => c \in DOMAIN v.casts, ~v.err => InOrder(v)
    PROVE  InOrder(World)' /\ CommitIsSpaced
<1>1. PICK f : f = IF v.err THEN FailScheduled(v, c) ELSE v
  OBVIOUS
<1>2. Advanced(f, c)
  BY <1>1 DEF FailsOnError
<1>3. Orderly(u, f)
  <2>1. CASE v.err
    <3>1. Passes(v, f, c) /\ ~LiveIn(f, c)
      BY <1>1, <2>1, FailScheduledEnds
    <3>2. CastsTyped(v)
      BY DEF Sound
    <3> QED BY <3>1, <3>2, OrderlyEnds
  <2>2. CASE ~v.err
    BY <1>1, <2>2 DEF Orderly
  <2> QED BY <2>1, <2>2
<1> QED BY <1>2, <1>3, TakenOrders

(* A task that is no commit finds its cast ready. *)
LEMMA RunningReady ==
    ASSUME IInv, InOrder(World), NEW kind, kind # "recharge", kind # "commit", Runs(kind),
           NEW c, c = First.id, NEW u, u = Taken(c)
    PROVE  /\ Due /\ First.kind # "recharge" /\ Sound(u) /\ c \in DOMAIN u.casts /\ casts[c].prog \in Program
           /\ InOrder(u) /\ LiveIn(u, c) /\ Ready(u, c) /\ CastsTyped(u)
<1>1. Due /\ First.kind = kind /\ c \in DOMAIN casts /\ ~Ended(casts[c])
  BY DEF Runs, HeadIs, First, IsStale
<1>2. Sound(u) /\ c \in DOMAIN u.casts /\ casts[c].prog \in Program
  BY Running
<1>3. PICK w : w = World
  OBVIOUS
<1>4. InOrder(u) /\ (LiveIn(u, c) <=> LiveIn(w, c))
  BY <1>1, <1>3, TakenInOrder
<1>5. LiveIn(u, c)
  BY <1>1, <1>3, <1>4 DEF LiveIn, World
<1> QED BY <1>1, <1>2, <1>4, <1>5, ReadyFirst DEF Sound

(* A handler that leaves an orderly world may still fail its cast. *)
LEMMA RunsInOrder ==
    ASSUME IInv, Due, First.kind # "recharge", NEW c, c = First.id, NEW u, u = Taken(c),
           NEW v, Handles(u, v, c), FailsOnError(v, c), Orderly(u, v)
    PROVE  InOrder(World)' /\ CommitIsSpaced
<1>1. ~u.err
  BY TakenCalm
<1>2. Sound(v) /\ (v.err => c \in DOMAIN v.casts)
  BY <1>1 DEF Handles, Does
<1>3. InOrder(v) /\ Spaced(u, v)
  BY DEF Orderly
<1>4. Apart(v, c)
  BY <1>3, ReadyFirst
<1> QED BY <1>2, <1>3, <1>4, FailingOrders

(* A stale task: the last one of a cast that has finished begins its        *)
(* recovery.                                                                *)
LEMMA StaleOrders ==
    ASSUME IInv, InOrder(World), RunStale
    PROVE  InOrder(World)' /\ CommitIsSpaced
<1>1. PICK c : c = First.id
  OBVIOUS
<1>2. PICK u : u = Taken(c)
  OBVIOUS
<1>3. Due /\ First.kind # "recharge"
  BY DEF RunStale
<1>4. c \in DOMAIN casts /\ Sound(u) /\ c \in DOMAIN u.casts
  BY <1>1, <1>2, <1>3, TakenSound
<1>5. PICK v : v = IF u.casts[c].pending = 0 /\ u.casts[c].logical /\ u.casts[c].status # "failed"
                   THEN BeginRecovery(u, c) ELSE u
  OBVIOUS
<1>6. Advanced(v, c) /\ IsStale(c)
  BY <1>1, <1>2, <1>4, <1>5 DEF RunStale
<1>7. PICK w : w = World
  OBVIOUS
<1>8. First.token # w.casts[c].token \/ Ended(w.casts[c])
  BY <1>6, <1>7 DEF IsStale, World
<1>9. InOrder(u) /\ Apart(u, c)
  BY <1>1, <1>2, <1>3, <1>7, <1>8, TakenInOrder
<1>10. Orderly(u, v)
  <2>1. CASE v = u
    BY <1>9, <2>1, SameOrderly
  <2>2. CASE v # u
    <3>1. v = BeginRecovery(u, c) /\ u.casts[c].pending = 0
      BY <1>5, <2>2
    <3>2. \A t \in ToSet(u.tasks) : t.id # c
      BY <1>4, <3>1, NoTasks DEF Sound, HeapAgrees
    <3>3. Ready(u, c)
      BY <1>9, <3>2, IdleReady
    <3>4. Closes(u, v, c)
      BY <1>4, <3>1, BeginRecoveryCloses
    <3> QED BY <1>4, <3>3, <3>4, ClosesOrderly DEF Sound
  <2> QED BY <2>1, <2>2
<1> QED BY <1>1, <1>2, <1>3, <1>6, <1>10, TakenOrders

(* The commit of a cast: its window is exclusive and the cooldown over, and *)
(* no other cast of a solo skill is about to commit.                        *)
LEMMA CommitOrders ==
    ASSUME IInv, InOrder(World), RunCommit
    PROVE  InOrder(World)' /\ CommitIsSpaced
<1>1. PICK c : c = First.id
  OBVIOUS
<1>2. PICK u : u = Taken(c)
  OBVIOUS
<1>3. PICK pay \in BOOLEAN : FailsOnError(CommitCast(u, c, pay), c)
  BY <1>1, <1>2 DEF RunCommit
<1>4. Runs("commit") /\ "commit" # "recharge"
  BY DEF RunCommit
<1>5. Sound(u) /\ c \in DOMAIN u.casts
  BY <1>1, <1>2, <1>4, Running
<1>6. /\ Due /\ First.kind = "commit" /\ First.kind # "recharge" /\ c \in DOMAIN casts
      /\ ~Ended(casts[c]) /\ First.token = casts[c].token
  BY <1>1, <1>4 DEF Runs, HeadIs, First, IsStale
<1>7. PICK v : v = CommitCast(u, c, pay)
  OBVIOUS
<1>8. FailsOnError(v, c)
  BY <1>3, <1>7
<1>9. PICK w : w = World
  OBVIOUS
<1>10. InOrder(w)
  BY <1>9
<1>11. /\ c \in DOMAIN w.casts /\ u.cooldowns = w.cooldowns
       /\ DOMAIN u.casts = DOMAIN w.casts
       /\ \A d \in DOMAIN w.casts :
            /\ u.casts[d].prog = w.casts[d].prog /\ u.casts[d].status = w.casts[d].status
            /\ u.casts[d].token = w.casts[d].token /\ u.casts[d].stage = w.casts[d].stage
            /\ u.casts[d].committed = w.casts[d].committed
  BY <1>1, <1>2, <1>6, <1>9, TakenWrites
<1>12. /\ Apart(u, c)
       /\ \A d : LiveIn(u, d) <=> LiveIn(w, d)
       /\ \A d \in DOMAIN u.casts : Poised(u, d) => Poised(w, d)
  BY <1>1, <1>2, <1>6, <1>9, <1>10, TakenInOrder
<1>13. w.casts = casts /\ w.tasks = tasks
  BY <1>9 DEF World
<1>14. LiveIn(w, c)
  BY <1>6, <1>13 DEF LiveIn
<1>15. ~w.casts[c].committed => Poised(w, c)
  <2>1. tasks # <<>> /\ tasks \in Seq(Tasks)
    BY <1>6, <1>9, <1>13, AtWorld DEF Due, Sound, HeapAgrees, Heap
  <2>2. First \in ToSet(w.tasks)
    BY <1>13, <2>1 DEF First, ToSet
  <2> QED BY <1>1, <1>6, <1>13, <2>2 DEF Poised
<1>16. CASE w.casts[c].committed
  <2>1. u.casts[c].committed
    BY <1>11, <1>16
  <2>2. v = u
    BY <1>7, <2>1 DEF CommitCast
  <2>3. InOrder(v)
    BY <1>12, <2>1, <2>2, CommittedReady, InOrderLast
  <2>4. Spaced(u, v)
    BY <2>2 DEF Spaced
  <2> QED BY <1>1, <1>2, <1>5, <1>6, <1>8, <1>12, <2>2, <2>3, <2>4, FailingOrders
<1>17. CASE ~w.casts[c].committed
  <2>1. Poised(w, c) /\ Awaited(w, c)
    BY <1>10, <1>14, <1>15, <1>17 DEF InOrder
  <2>2. w.casts[c].stage \in Windows /\ (Solo(w.casts[c].prog) => w.cooldowns[w.casts[c].prog] = 0)
    BY <2>1 DEF Awaited
  <2>3. u.casts[c].stage # "cancelled" /\ (Solo(u.casts[c].prog) => u.cooldowns[u.casts[c].prog] = 0)
    BY <1>11, <2>2 DEF Windows
  <2>4. Lone(u, c)
    <3>1. ASSUME NEW d, LiveIn(u, d), d # c, u.casts[d].prog = u.casts[c].prog, Solo(u.casts[c].prog), Poised(u, d)
          PROVE  FALSE
      <4>1. LiveIn(w, d) /\ d \in DOMAIN u.casts
        BY <1>12, <3>1 DEF LiveIn
      <4>2. Rivals(w, c, d)
        BY <1>11, <1>12, <2>1, <3>1, <4>1 DEF Rivals
      <4> QED BY <1>10, <1>14, <4>1, <4>2 DEF InOrder
    <3> QED BY <3>1 DEF Lone
  <2>5. Apart(v, c) /\ Spaced(u, v) /\ c \in DOMAIN v.casts
    BY ONLY <1>5, <1>7, <1>12, <2>3, <2>4, CommitApart
  <2>6. Sound(v) /\ (~v.err => v.casts[c].committed)
    BY <1>5, <1>7, <2>3, CommitKeeps DEF Keeps, Does
  <2>7. ~v.err => InOrder(v)
    BY <2>5, <2>6, CommittedReady, InOrderLast
  <2> QED BY <1>1, <1>2, <1>6, <1>8, <2>5, <2>6, <2>7, FailingOrders
<1> QED BY <1>16, <1>17

(* The execution of a cast. *)
LEMMA ExecuteOrders ==
    ASSUME IInv, InOrder(World), RunExecute
    PROVE  InOrder(World)' /\ CommitIsSpaced
<1>1. PICK c : c = First.id
  OBVIOUS
<1>2. PICK u : u = Taken(c)
  OBVIOUS
<1>3. PICK es : es = {casts[c].root, "second"}
  OBVIOUS
<1>4. PICK x \in Lots(casts[c].prog, es) : FailsOnError(BeginExecution(u, c, x), c)
  BY <1>1, <1>2, <1>3 DEF RunExecute
<1>5. Runs("execute") /\ "execute" # "recharge" /\ "execute" # "commit"
  BY DEF RunExecute
<1>6. /\ Due /\ First.kind # "recharge" /\ Sound(u) /\ c \in DOMAIN u.casts /\ casts[c].prog \in Program
      /\ Ready(u, c) /\ CastsTyped(u)
  BY <1>1, <1>2, <1>5, RunningReady
<1>7. IsLot(x)
  BY <1>6, LotsTyped
<1>8. PICK v : v = BeginExecution(u, c, x)
  OBVIOUS
<1>9. Handles(u, v, c)
  BY ONLY <1>6, <1>7, <1>8, BeginExecutionHandles
<1>10. Closes(u, v, c)
  BY ONLY <1>6, <1>7, <1>8, BeginExecutionCloses
<1>11. Orderly(u, v)
  BY <1>6, <1>10, ClosesOrderly
<1>12. FailsOnError(v, c)
  BY <1>4, <1>8
<1> QED BY <1>1, <1>2, <1>6, <1>9, <1>11, <1>12, RunsInOrder

(* A pulse of a cast. *)
LEMMA PulseOrders ==
    ASSUME IInv, InOrder(World), RunPulse
    PROVE  InOrder(World)' /\ CommitIsSpaced
<1>1. PICK c : c = First.id
  OBVIOUS
<1>2. PICK u : u = Taken(c)
  OBVIOUS
<1>3. PICK x \in Lots(casts[c].prog, {"pulse", "release", "second"}) : FailsOnError(ExecutePulse(u, c, x), c)
  BY <1>1, <1>2 DEF RunPulse
<1>4. Runs("pulse") /\ "pulse" # "recharge" /\ "pulse" # "commit"
  BY DEF RunPulse
<1>5. /\ Due /\ First.kind # "recharge" /\ Sound(u) /\ c \in DOMAIN u.casts /\ casts[c].prog \in Program
      /\ InOrder(u) /\ LiveIn(u, c)
  BY <1>1, <1>2, <1>4, RunningReady
<1>6. IsLot(x)
  BY <1>5, LotsTyped
<1>7. PICK v : v = ExecutePulse(u, c, x)
  OBVIOUS
<1>8. Handles(u, v, c)
  BY ONLY <1>5, <1>6, <1>7, ExecutePulseHandles
<1>9. Orderly(u, v)
  BY ONLY <1>5, <1>6, <1>7, ExecutePulseOrders
<1>10. FailsOnError(v, c)
  BY <1>3, <1>7
<1> QED BY <1>1, <1>2, <1>5, <1>8, <1>9, <1>10, RunsInOrder

(* The end of a policy. *)
LEMMA AutoReleaseOrders ==
    ASSUME IInv, InOrder(World), RunAutoRelease
    PROVE  InOrder(World)' /\ CommitIsSpaced
<1>1. PICK c : c = First.id
  OBVIOUS
<1>2. PICK u : u = Taken(c)
  OBVIOUS
<1>3. PICK reason : reason = First.what
  OBVIOUS
<1>4. PICK x \in Lots(casts[c].prog, {"release", "second"}) : FailsOnError(ExecuteAutoRelease(u, c, reason, x), c)
  BY <1>1, <1>2, <1>3 DEF RunAutoRelease
<1>5. Runs("auto") /\ "auto" # "recharge" /\ "auto" # "commit"
  BY DEF RunAutoRelease
<1>6. /\ Due /\ First.kind # "recharge" /\ Sound(u) /\ c \in DOMAIN u.casts /\ casts[c].prog \in Program
      /\ InOrder(u)
  BY <1>1, <1>2, <1>5, RunningReady
<1>7. IsLot(x)
  BY <1>6, LotsTyped
<1>8. PICK v : v = ExecuteAutoRelease(u, c, reason, x)
  OBVIOUS
<1>9. Handles(u, v, c)
  BY ONLY <1>6, <1>7, <1>8, ExecuteAutoReleaseHandles
<1>10. Orderly(u, v)
  BY ONLY <1>6, <1>7, <1>8, ExecuteAutoReleaseOrders
<1>11. FailsOnError(v, c)
  BY <1>4, <1>8
<1> QED BY <1>1, <1>2, <1>6, <1>9, <1>10, <1>11, RunsInOrder

(* The end of a recovery. *)
LEMMA RecoveryOrders ==
    ASSUME IInv, InOrder(World), RunRecovery
    PROVE  InOrder(World)' /\ CommitIsSpaced
<1>1. PICK c : c = First.id
  OBVIOUS
<1>2. PICK u : u = Taken(c)
  OBVIOUS
<1>3. PICK v : v = CompleteRecovery(u, c)
  OBVIOUS
<1>4. Runs("recovery") /\ "recovery" # "recharge" /\ "recovery" # "commit"
  BY DEF RunRecovery
<1>5. /\ Due /\ First.kind # "recharge" /\ Sound(u) /\ c \in DOMAIN u.casts /\ Ready(u, c) /\ CastsTyped(u)
  BY <1>1, <1>2, <1>4, RunningReady
<1>6. Orderly(u, v)
  BY <1>3, <1>5, CompleteCloses, ClosesOrderly
<1>7. Advanced(v, c)
  BY <1>1, <1>2, <1>3 DEF RunRecovery
<1> QED BY <1>1, <1>2, <1>5, <1>6, <1>7, TakenOrders

(* A flow that goes on. *)
LEMMA FlowOrders ==
    ASSUME IInv, InOrder(World), RunFlow
    PROVE  InOrder(World)' /\ CommitIsSpaced
<1>1. PICK c : c = First.id
  OBVIOUS
<1>2. PICK e : e = First.what
  OBVIOUS
<1>3. PICK w : w = Taken(c)
  OBVIOUS
<1>4. PICK es : es = {e, "second"}
  OBVIOUS
<1>5. PICK x \in Lots(casts[c].prog, es) :
        LET o == IF e = "branch" THEN x.branch ELSE x.tail
            u == Forked(w, c, o)
        IN  Advanced(IF o.then = "error" THEN Bad(Failed(u, c)) ELSE ResolveControl(u, c, o.then, x), c)
  BY <1>1, <1>2, <1>3, <1>4 DEF RunFlow
<1>6. Runs("flow") /\ "flow" # "recharge" /\ "flow" # "commit"
  BY DEF RunFlow
<1>7. /\ Due /\ First.kind # "recharge" /\ Sound(w) /\ c \in DOMAIN w.casts /\ casts[c].prog \in Program
      /\ Ready(w, c) /\ CastsTyped(w)
  BY <1>1, <1>3, <1>6, RunningReady
<1>8. IsLot(x)
  BY <1>7, LotsTyped
<1>9. PICK o \in Outcome : o = IF e = "branch" THEN x.branch ELSE x.tail
  BY <1>8 DEF IsLot
<1>10. PICK u : u = Forked(w, c, o)
  OBVIOUS
<1>11. Sound(u) /\ c \in DOMAIN u.casts /\ Follows(w, u, c)
  BY <1>7, <1>10, ForkedCalm, ForkedFollows DEF Calm, Keeps, Does
<1>12. PICK control \in Control : control = o.then
  BY DEF Outcome
<1>13. PICK v : v = IF control = "error" THEN Bad(Failed(u, c)) ELSE ResolveControl(u, c, control, x)
  OBVIOUS
<1>14. Advanced(v, c)
  BY <1>5, <1>9, <1>10, <1>12, <1>13
<1>15. Orderly(w, v)
  <2>1. CASE control = "error"
    <3>1. PICK z : z = Failed(u, c)
      OBVIOUS
    <3>2. Sound(z) /\ Passes(u, z, c) /\ ~LiveIn(z, c)
      BY <1>11, <3>1, FailedDoes, FailedEnds, SoundAfter
    <3>3. Passes(w, z, c) /\ Apart(w, c)
      BY <1>7, <1>11, <3>2, PassesOn DEF Follows, Ready
    <3>4. Orderly(w, z)
      BY <1>7, <3>2, <3>3, EndsOrderly
    <3>5. v = Bad(z) /\ IsWorld(z)
      BY <1>13, <2>1, <3>1, <3>2 DEF Sound
    <3>6. v.casts = z.casts /\ v.tasks = z.tasks /\ v.cooldowns = z.cooldowns
      BY ONLY <3>5 DEF Bad, IsWorld
    <3>7. InOrder(v)
      BY <3>4, <3>6, SameOrderly DEF Orderly
    <3>8. Spaced(w, v)
      BY <3>4, <3>6 DEF Orderly, Spaced
    <3> QED BY <3>7, <3>8 DEF Orderly
  <2>2. CASE control # "error"
    <3>1. v = ResolveControl(u, c, control, x)
      BY <1>13, <2>2
    <3>2. Closes(u, v, c)
      BY ONLY <1>8, <1>11, <3>1, control \in Control, ResolveControlCloses
    <3>3. Closes(w, v, c)
      BY <1>11, <3>2, ThenCloses
    <3> QED BY <1>7, <3>3, ClosesOrderly
  <2> QED BY <2>1, <2>2
<1> QED BY <1>1, <1>3, <1>7, <1>14, <1>15, TakenOrders

(* Release keeps the order. *)
LEMMA ReleaseOrders ==
    ASSUME IInv, InOrder(World), NEW c \in DOMAIN casts, Release(c)
    PROVE  InOrder(World)' /\ CommitIsSpaced
<1>1. PICK x \in Lots(casts[c].prog, {"release", "second"}) : Returns(ReleaseCast(World, c, x), c)
  BY DEF Release
<1>2. IsLot(x)
  BY AtWorld, LotsTyped
<1>3. PICK w : w = World
  OBVIOUS
<1>4. PICK v : v = ReleaseCast(w, c, x)
  OBVIOUS
<1>5. Sound(w) /\ c \in DOMAIN w.casts /\ InOrder(w)
  BY <1>3, AtWorld
<1>6. Orderly(w, v)
  BY ONLY <1>2, <1>4, <1>5, ReleaseCastOrders
<1>7. Becomes(v)
  BY <1>1, <1>3, <1>4 DEF Returns
<1> QED BY <1>3, <1>6, <1>7, BecomesInOrder

(* So does the start that switches a toggle off, ... *)
LEMMA ToggleOffOrders ==
    ASSUME IInv, InOrder(World), NEW p \in Program, ToggleOff(p)
    PROVE  InOrder(World)' /\ CommitIsSpaced
<1>1. PICK c : c = policies[p]
  OBVIOUS
<1>2. c \in DOMAIN casts
  BY <1>1 DEF ToggleOff, HeldToggle
<1>3. PICK x \in Lots(p, {"release", "second"}) : Returns(ReleaseCast(World, c, x), c)
  BY <1>1 DEF ToggleOff
<1>4. IsLot(x)
  BY LotsTyped
<1>5. PICK w : w = World
  OBVIOUS
<1>6. PICK v : v = ReleaseCast(w, c, x)
  OBVIOUS
<1>7. Sound(w) /\ c \in DOMAIN w.casts /\ InOrder(w)
  BY <1>2, <1>5, AtWorld
<1>8. Orderly(w, v)
  BY ONLY <1>4, <1>6, <1>7, ReleaseCastOrders
<1>9. Becomes(v)
  BY <1>3, <1>5, <1>6 DEF Returns
<1> QED BY <1>5, <1>8, <1>9, BecomesInOrder

(* ... what Cancel and Interrupt share, which leaves no task of the phase   *)
(* and begins no cooldown of a solo skill, ...                              *)
LEMMA BrokenOffReady ==
    ASSUME IInv, NEW c \in DOMAIN casts, NEW w, w = World, InOrder(w), NEW v, v = BrokenOff(c)
    PROVE  Ready(v, c) /\ Follows(w, v, c)
<1>1. Sound(w) /\ c \in DOMAIN w.casts /\ w.casts = casts
  BY AtWorld
<1>2. PICK u : u = CancelPhaseTasks(w, c)
  OBVIOUS
<1>3. PICK z : z = [u EXCEPT !.casts[c].token = @ + 1]
  OBVIOUS
<1>4. v = IF casts[c].committed /\ Mode(w, c) \in {"hold", "toggle"} THEN StartCooldown(z, c) ELSE z
  BY <1>2, <1>3 DEF BrokenOff
<1>5. Calm(w, u, c) /\ Follows(w, u, c)
  BY <1>1, <1>2, CancelTasksCalm, CancelTasksFollows
<1>6. Sound(u) /\ c \in DOMAIN u.casts /\ u.casts[c].prog = w.casts[c].prog
  BY <1>5 DEF Calm, Keeps, Does, Only
<1>7. Calm(u, z, c) /\ Follows(u, z, c)
  BY ONLY <1>3, <1>6, EditToken, TokenFollows
<1>8. Sound(z) /\ c \in DOMAIN z.casts /\ z.casts[c].prog = w.casts[c].prog
  BY <1>6, <1>7 DEF Calm, Keeps, Does, Only
<1>9. Apart(u, c)
  BY <1>1, <1>5, ReadyFirst, PassesApart DEF Follows, Sound
<1>10. Ready(z, c)
  BY ONLY <1>3, <1>6, <1>9, TokenReady
<1>11. Follows(w, z, c)
  BY <1>5, <1>7, ThenFollows
<1>12. CASE ~(casts[c].committed /\ Mode(w, c) \in {"hold", "toggle"})
  BY <1>4, <1>10, <1>11, <1>12
<1>13. CASE casts[c].committed /\ Mode(w, c) \in {"hold", "toggle"}
  <2>1. v = StartCooldown(z, c)
    BY <1>4, <1>13
  <2>2. ~Solo(z.casts[c].prog)
    BY <1>8, <1>13 DEF Solo, Mode, DefOf
  <2>3. Follows(z, v, c)
    BY ONLY <1>8, <2>1, <2>2, StartCooldownFollows
  <2> QED BY <1>8, <1>10, <1>11, <2>3, FollowsReady, ThenFollows DEF Sound
<1> QED BY <1>12, <1>13

(* ... Interrupt, ... *)
LEMMA InterruptOrders ==
    ASSUME IInv, InOrder(World), NEW c \in DOMAIN casts, Interrupt(c)
    PROVE  InOrder(World)' /\ CommitIsSpaced
<1>1. PICK w : w = World
  OBVIOUS
<1>2. PICK u : u = BrokenOff(c)
  OBVIOUS
<1>3. PICK v : v = EndedEarly(u, c)
  OBVIOUS
<1>4. Sound(w) /\ InOrder(w)
  BY <1>1, AtWorld
<1>5. Sound(u) /\ c \in DOMAIN u.casts
  BY <1>1, <1>2, BrokenOffCalm DEF Calm, Keeps, Does
<1>6. Follows(w, u, c)
  BY <1>1, <1>2, <1>4, BrokenOffReady
<1>7. Passes(u, v, c) /\ ~LiveIn(v, c)
  BY <1>3, <1>5, EndedEarlyEnds
<1>8. Passes(w, v, c)
  BY <1>6, <1>7, PassesOn DEF Follows
<1>9. Orderly(w, v)
  BY <1>4, <1>7, <1>8, ReadyFirst, EndsOrderly DEF Sound
<1>10. Becomes(v)
  BY <1>2, <1>3 DEF Interrupt, Returns
<1> QED BY <1>1, <1>9, <1>10, BecomesInOrder

(* ... Cancel, also when its flow fails, ... *)
LEMMA CancelOrders ==
    ASSUME IInv, InOrder(World), NEW c \in DOMAIN casts, Cancel(c)
    PROVE  InOrder(World)' /\ CommitIsSpaced
<1>1. PICK x \in Lots(casts[c].prog, {"cancel"}) :
        Returns(IF x.cancel.then = "error" THEN Bad(Forked(BrokenOff(c), c, x.cancel))
                ELSE EndedEarly(Forked(BrokenOff(c), c, x.cancel), c), c)
  BY DEF Cancel
<1>2. PICK w : w = World
  OBVIOUS
<1>3. PICK u : u = BrokenOff(c)
  OBVIOUS
<1>4. PICK z : z = Forked(u, c, x.cancel)
  OBVIOUS
<1>5. PICK v : v = IF x.cancel.then = "error" THEN Bad(z) ELSE EndedEarly(z, c)
  OBVIOUS
<1>6. Sound(w) /\ InOrder(w) /\ CastsTyped(w)
  BY <1>2, AtWorld DEF Sound
<1>7. Sound(u) /\ c \in DOMAIN u.casts /\ CastsTyped(u)
  BY <1>2, <1>3, BrokenOffCalm DEF Calm, Keeps, Does, Sound
<1>8. Ready(u, c) /\ Follows(w, u, c)
  BY <1>2, <1>3, <1>6, BrokenOffReady
<1>9. Sound(z) /\ c \in DOMAIN z.casts /\ Follows(u, z, c)
  BY <1>4, <1>7, ForkedCalm, ForkedFollows DEF Calm, Keeps, Does
<1>10. Orderly(w, v)
  <2>1. CASE v = Bad(z)
    <3>1. Closes(u, v, c)
      BY <1>9, <2>1, BadFollows, ThenFollows, FollowsCloses
    <3>2. Orderly(u, v)
      BY <1>7, <1>8, <3>1, ClosesOrderly
    <3> QED BY <1>6, <1>8, <3>2, ThenOrderly DEF Follows
  <2>2. CASE v = EndedEarly(z, c)
    <3>1. Passes(z, v, c) /\ ~LiveIn(v, c)
      BY <1>9, <2>2, EndedEarlyEnds
    <3>2. Passes(w, v, c)
      BY <1>8, <1>9, <3>1, PassesOn DEF Follows
    <3> QED BY <1>6, <3>1, <3>2, ReadyFirst, EndsOrderly
  <2> QED BY <1>5, <2>1, <2>2
<1>11. Becomes(v)
  BY <1>1, <1>3, <1>4, <1>5 DEF Returns
<1> QED BY <1>2, <1>10, <1>11, BecomesInOrder

(* ... and Input. *)
LEMMA InputOrders ==
    ASSUME IInv, InOrder(World), NEW c \in DOMAIN casts, Input(c)
    PROVE  InOrder(World)' /\ CommitIsSpaced
<1>1. PICK x \in Lots(casts[c].prog, {"input", "second"}) : Returns(ExecuteCastEvent(World, c, x.input, x), c)
  BY DEF Input
<1>2. IsLot(x)
  BY AtWorld, LotsTyped
<1>3. PICK w : w = World
  OBVIOUS
<1>4. PICK o \in Outcome : o = x.input
  BY <1>2 DEF IsLot
<1>5. PICK v : v = ExecuteCastEvent(w, c, o, x)
  OBVIOUS
<1>6. Sound(w) /\ c \in DOMAIN w.casts /\ w.casts = casts /\ InOrder(w)
  BY <1>3, AtWorld
<1>7. Ready(w, c)
  BY <1>6, ReadyFirst DEF Input, LiveIn
<1>8. Closes(w, v, c)
  BY ONLY <1>2, <1>5, <1>6, o \in Outcome, ExecuteCastEventCloses
<1>9. Orderly(w, v)
  BY <1>6, <1>7, <1>8, ClosesOrderly DEF Sound
<1>10. Becomes(v)
  BY <1>1, <1>3, <1>4, <1>5 DEF Returns
<1> QED BY <1>3, <1>9, <1>10, BecomesInOrder

(* A recharge touches no cast, and its next task is of none. *)
LEMMA RechargeOrders ==
    ASSUME IInv, InOrder(World), RunRecharge
    PROVE  InOrder(World)' /\ CommitIsSpaced
<1> DEFINE p == First.what
           a == ammo[p]
           stock == IF a.stock < Def[p].maxStock THEN a.stock + 1 ELSE a.stock
           full == stock >= Def[p].maxStock
           b == [a EXCEPT !.stock = stock, !.scheduled = ~full, !.due = IF full THEN 0 ELSE Def[p].recharge]
           no == ~a.scheduled \/ a.gen # First.token \/ a.due # 0
<1>1. PICK w : w = World
  OBVIOUS
<1>2. PICK nt : nt = Task(Def[p].recharge, "recharge", 0, First.token, p)
  OBVIOUS
<1>3. PICK pop : pop = Popped
  OBVIOUS
<1>4. PICK z : z = [pop EXCEPT !.ammo[p] = b]
  OBVIOUS
<1>5. PICK more : more = [z EXCEPT !.tasks = Insert(@, nt)]
  OBVIOUS
<1>6. PICK v : v = IF no THEN pop ELSE IF full THEN z ELSE more
  OBVIOUS
<1>7. Becomes(v)
  BY <1>2, <1>3, <1>4, <1>5, <1>6 DEF RunRecharge
<1>8. Sound(w) /\ InOrder(w) /\ w.tasks = tasks
  BY <1>1, AtWorld DEF World
<1>9. IsWorld(w) /\ CastsTyped(w) /\ Heap(w.tasks)
  BY <1>8 DEF Sound, HeapAgrees
<1>10. w.tasks # <<>> /\ w.tasks[1] = First /\ First.kind = "recharge"
  BY <1>8 DEF RunRecharge, HeadIs, Due, First
<1> HIDE DEF b, no, full
<1>11. IsWorld(pop) /\ pop.casts = w.casts /\ pop.cooldowns = w.cooldowns /\ pop.tasks = Tail(w.tasks)
  <2>1. pop = [w EXCEPT !.tasks = Tail(@)]
    BY <1>1, <1>3 DEF Popped
  <2> QED BY ONLY <1>9, <2>1 DEF IsWorld
<1> HIDE DEF p
<1>12. IsWorld(z) /\ z.casts = w.casts /\ z.cooldowns = w.cooldowns /\ z.tasks = Tail(w.tasks)
  BY ONLY <1>4, <1>11 DEF IsWorld
<1>13. more.casts = w.casts /\ more.cooldowns = w.cooldowns /\ more.tasks = Insert(Tail(w.tasks), nt)
  BY ONLY <1>5, <1>12 DEF IsWorld
<1>14. /\ Heap(Tail(w.tasks)) /\ w.tasks[1] \in Tasks
       /\ ToSet(w.tasks) = ToSet(Tail(w.tasks)) \cup {w.tasks[1]}
  BY <1>9, <1>10, PoppedTally
<1>15. nt \in Tasks /\ nt.kind = "recharge" /\ nt.id = 0
  <2>1. p \in Program /\ First.token \in Nat
    BY <1>10, <1>14 DEF p, Tasks, CastTask, RechargeTask, CastKinds
  <2>2. Def[p].recharge \in Nat
    BY <2>1, DefIsTyped DEF Definition
  <2> QED BY <1>2, <2>1, <2>2 DEF Task, Tasks, RechargeTask
<1>16. v.casts = w.casts /\ v.cooldowns = w.cooldowns
       /\ (v.tasks = Tail(w.tasks) \/ v.tasks = Insert(Tail(w.tasks), nt))
  BY <1>6, <1>11, <1>12, <1>13
<1>17. ToSet(v.tasks) \subseteq ToSet(w.tasks) \cup {nt}
  <2>1. ToSet(Insert(Tail(w.tasks), nt)) = ToSet(Tail(w.tasks)) \cup {nt}
    BY <1>14, <1>15, Inserted
  <2> QED BY ONLY <1>14, <1>16, <2>1
<1>18. 0 \notin DOMAIN w.casts
  BY <1>9 DEF CastsTyped
<1>19. ASSUME NEW d, NEW k, Led(w.tasks, d, k)
       PROVE  Led(v.tasks, d, k)
  <2>1. Led(Tail(w.tasks), d, k)
    BY <1>9, <1>10, <1>19, TailLed
  <2>2. Led(Insert(Tail(w.tasks), nt), d, k)
    BY <1>14, <1>15, <2>1, InsertLed
  <2> QED BY <1>16, <2>1, <2>2
<1>20. Reached(w) => Reached(v)
  BY <1>15, <1>16, <1>17, <1>18 DEF Reached
<1>21. Passes(w, v, 0)
  BY <1>15, <1>16, <1>17, <1>18, <1>19, <1>20 DEF Passes
<1>22. Apart(w, 0) /\ ~LiveIn(v, 0)
  BY <1>8, <1>16, <1>18, ReadyFirst DEF LiveIn
<1>23. Orderly(w, v)
  BY <1>9, <1>21, <1>22, EndsOrderly
<1> QED BY <1>1, <1>7, <1>23, BecomesInOrder

(* Time passes for all tasks alike, and no cooldown begins. *)
LEMMA TickOrders ==
    ASSUME IInv, InOrder(World), Tick
    PROVE  InOrder(World)' /\ CommitIsSpaced
<1>1. PICK w : w = World
  OBVIOUS
<1>2. /\ w.casts = casts /\ w.tasks = tasks /\ w.cooldowns = cooldowns
      /\ InOrder(w) /\ CastsTyped(w) /\ Heap(tasks) /\ w.cooldowns \in [Program \cup {Gcd} -> Nat]
  BY <1>1, AtWorld DEF World, Sound, HeapAgrees
<1>3. PICK v : v = World'
  OBVIOUS
<1>4. v.casts = casts' /\ v.tasks = tasks' /\ v.cooldowns = cooldowns'
  BY <1>3 DEF World
<1>5. tasks' = [i \in DOMAIN tasks |-> [tasks[i] EXCEPT !.due = @ - 1]]
  BY DEF Tick
<1>6. /\ DOMAIN v.tasks = DOMAIN w.tasks
      /\ \A i \in DOMAIN w.tasks : /\ v.tasks[i].id = w.tasks[i].id /\ v.tasks[i].kind = w.tasks[i].kind
                                   /\ v.tasks[i].token = w.tasks[i].token
  <2>1. \A i \in DOMAIN tasks : tasks[i].due > 0
    BY <1>2, TickDue
  <2>2. PICK new : new = tasks'
    OBVIOUS
  <2>3. /\ DOMAIN new = DOMAIN tasks
        /\ \A i \in DOMAIN tasks : /\ new[i].id = tasks[i].id /\ new[i].kind = tasks[i].kind
                                   /\ new[i].token = tasks[i].token
    BY ONLY <1>2, <1>5, <2>1, <2>2, NearerHeap
  <2> QED BY ONLY <1>2, <1>4, <2>2, <2>3
<1>7. DOMAIN v.casts = DOMAIN w.casts
  BY <1>2, <1>4 DEF Tick
<1>8. ASSUME NEW c \in DOMAIN w.casts
      PROVE  /\ v.casts[c].prog = w.casts[c].prog /\ v.casts[c].token = w.casts[c].token
             /\ v.casts[c].status = w.casts[c].status /\ v.casts[c].stage = w.casts[c].stage
             /\ v.casts[c].committed = w.casts[c].committed
  <2>1. PICK age : age = IF w.casts[c].age < Longest(Def[w.casts[c].prog]) THEN w.casts[c].age + 1 ELSE w.casts[c].age
    OBVIOUS
  <2>2. PICK q \in CastRecord : q = w.casts[c]
    BY <1>2 DEF CastsTyped
  <2>3. v.casts[c] = [q EXCEPT !.age = age]
    BY <1>2, <1>4, <2>1, <2>2 DEF Tick
  <2>4. /\ v.casts[c].prog = q.prog /\ v.casts[c].token = q.token /\ v.casts[c].status = q.status
        /\ v.casts[c].stage = q.stage /\ v.casts[c].committed = q.committed
    BY ONLY <2>3, q \in CastRecord DEF CastRecord
  <2> QED BY <2>2, <2>4
<1>9. ASSUME NEW p \in Program, w.cooldowns[p] = 0
      PROVE  v.cooldowns[p] = 0
  <2>1. v.cooldowns = [k \in DOMAIN w.cooldowns |-> IF w.cooldowns[k] > 0 THEN w.cooldowns[k] - 1 ELSE 0]
    BY <1>2, <1>4 DEF Tick
  <2> QED BY <1>2, <1>9, <2>1
<1>10. \A t \in ToSet(v.tasks) : \E s \in ToSet(w.tasks) : t.id = s.id /\ t.kind = s.kind /\ t.token = s.token
  BY <1>6 DEF ToSet
<1>11. Reached(v)
  BY <1>2, <1>7, <1>8, <1>10 DEF InOrder, Reached
<1>12. \A d, k : Led(w.tasks, d, k) => Led(v.tasks, d, k)
  <2> SUFFICES ASSUME NEW d, NEW k, Led(w.tasks, d, k),
                      NEW i \in DOMAIN v.tasks, v.tasks[i].kind = "execute", v.tasks[i].id = d, v.tasks[i].token = k
               PROVE  \E j \in 1 .. i - 1 : v.tasks[j].kind = "commit" /\ v.tasks[j].id = d /\ v.tasks[j].token = k
    BY DEF Led
  <2>1. PICK j \in 1 .. i - 1 : w.tasks[j].kind = "commit" /\ w.tasks[j].id = d /\ w.tasks[j].token = k
    BY <1>6 DEF Led
  <2>2. j \in DOMAIN w.tasks
    BY <1>2, <1>6 DEF Heap
  <2> QED BY <1>6, <2>1, <2>2
<1>13. \A c \in DOMAIN w.casts : Poised(v, c) => Poised(w, c)
  BY <1>8, <1>10 DEF Poised
<1>14. \A c : LiveIn(v, c) => LiveIn(w, c)
  BY <1>7, <1>8 DEF LiveIn, Ended
<1>15. ASSUME NEW c, LiveIn(v, c)
       PROVE  Awaited(v, c)
  <2>1. c \in DOMAIN w.casts /\ Awaited(w, c)
    BY <1>2, <1>14, <1>15 DEF InOrder, LiveIn
  <2>2. w.casts[c].prog \in Program
    BY <1>2, <2>1 DEF CastsTyped, CastRecord
  <2>3. w.cooldowns[w.casts[c].prog] = 0 => v.cooldowns[w.casts[c].prog] = 0
    BY <1>9, <2>2
  <2> QED BY <1>8, <1>12, <1>13, <2>1, <2>3 DEF Awaited
<1>16. ASSUME NEW c, NEW d, LiveIn(v, c), LiveIn(v, d)
       PROVE  ~Rivals(v, c, d)
  <2>1. LiveIn(w, c) /\ LiveIn(w, d) /\ ~Rivals(w, c, d)
    BY <1>2, <1>14, <1>16 DEF InOrder
  <2> QED BY <1>8, <1>13, <2>1 DEF Rivals, LiveIn
<1>17. InOrder(v)
  BY <1>11, <1>15, <1>16 DEF InOrder
<1>18. CommitIsSpaced
  BY <1>2, <1>4, <1>8 DEF CommitIsSpaced
<1>19. InOrder(World')
  BY <1>3, <1>17
<1> QED BY <1>18, <1>19

(* Fewer casts stay in order. *)
LEMMA FewerOrderly ==
    ASSUME NEW w, NEW v, Orderly(w, v), NEW u, u.tasks = v.tasks, u.cooldowns = v.cooldowns,
           \A d \in DOMAIN u.casts : d \in DOMAIN v.casts /\ u.casts[d] = v.casts[d]
    PROVE  Orderly(w, u)
<1>1. InOrder(v) /\ Spaced(w, v)
  BY DEF Orderly
<1>2. \A d : LiveIn(u, d) => LiveIn(v, d) /\ u.casts[d] = v.casts[d]
  BY DEF LiveIn
<1>3. \A d \in DOMAIN u.casts : Poised(u, d) <=> Poised(v, d)
  BY DEF Poised
<1>4. ASSUME NEW d, LiveIn(u, d)
      PROVE  Awaited(u, d)
  BY <1>1, <1>2, <1>3, <1>4 DEF InOrder, Awaited, LiveIn
<1>5. ASSUME NEW d, NEW e, LiveIn(u, d), LiveIn(u, e)
      PROVE  ~Rivals(u, d, e)
  BY <1>1, <1>2, <1>3, <1>5 DEF InOrder, Rivals, LiveIn
<1>6. Reached(u)
  BY <1>1 DEF InOrder, Reached
<1>7. Spaced(w, u)
  BY <1>1 DEF Spaced
<1> QED BY <1>4, <1>5, <1>6, <1>7 DEF InOrder, Orderly

(* A cast that begins is ready: no task is of it.  It stands alone, for a   *)
(* cast about to commit is in an exclusive window.                          *)
LEMMA BeginsReady ==
    ASSUME IInv, InOrder(World), NEW p \in Program, Start(p), NEW w, w = World,
           NEW u, NEW c, NEW q, NEW x, Begins(w, u, c, p, q, x)
    PROVE  /\ Sound(u) /\ c \in DOMAIN u.casts /\ c \notin DOMAIN w.casts /\ u.casts[c] = q
           /\ Ready(u, c) /\ Lone(u, c) /\ u.cooldowns[p] = 0
<1>1. Sound(w) /\ w.active < MaxActiveCasts /\ w.nextCast < MaxCasts /\ InOrder(w)
  BY AtWorld DEF Start, World
<1>2. q \in CastRecord /\ q.prog = p /\ q.pending = 0 /\ ~q.policy /\ ~q.done
  BY DEF Begins
<1>3. /\ c = w.nextCast + 1
      /\ IsWorld(u) /\ u.nextCast = c /\ u.active = w.active + 1 /\ u.err = FALSE
      /\ u.casts = [d \in DOMAIN w.casts \cup {c} |-> IF d = c THEN q ELSE w.casts[d]]
      /\ u.tasks = w.tasks /\ u.cooldowns = w.cooldowns /\ u.policies = w.policies /\ u.ammo = w.ammo
      /\ u.completed = w.completed
  BY DEF Begins
<1>4. Sound(u) /\ Bare(u, c)
  BY ONLY <1>1, <1>2, <1>3, q \in CastRecord, FreshSound
<1>5. c \in DOMAIN u.casts /\ u.casts[c] = q
  BY <1>3, <1>4 DEF Bare
<1>6. c \notin DOMAIN w.casts
  <2>1. w.nextCast \in Nat /\ \A d \in DOMAIN w.casts : d \in 1 .. w.nextCast
    BY <1>1, LimitsAreNumbers DEF Sound, CastsTyped
  <2> QED BY <1>3, <2>1
<1>7. DOMAIN u.casts = DOMAIN w.casts \cup {c} /\ \A d \in DOMAIN u.casts \ {c} : u.casts[d] = w.casts[d]
  BY <1>3
<1>8. \A t \in ToSet(u.tasks) : t.id # c
  BY <1>2, <1>4, <1>5, NoTasks
<1>9. \A d : LiveIn(u, d) /\ d # c => LiveIn(w, d) /\ u.casts[d] = w.casts[d]
  BY <1>7 DEF LiveIn
<1>10. \A d \in DOMAIN u.casts \ {c} : Poised(u, d) <=> Poised(w, d)
  BY <1>3, <1>7 DEF Poised
<1>11. Apart(u, c)
  <2>1. Reached(u)
    BY <1>1, <1>3, <1>7, <1>8 DEF InOrder, Reached
  <2>2. ASSUME NEW d, LiveIn(u, d), d # c
        PROVE  Awaited(u, d)
    <3>1. Awaited(w, d) /\ u.casts[d] = w.casts[d]
      BY <1>1, <1>9, <2>2 DEF InOrder
    <3>2. Poised(u, d) <=> Poised(w, d)
      BY <1>10, <2>2 DEF LiveIn
    <3> QED BY ONLY <1>3, <3>1, <3>2 DEF Awaited
  <2>3. ASSUME NEW d, NEW e, LiveIn(u, d), LiveIn(u, e), d # c, e # c
        PROVE  ~Rivals(u, d, e)
    <3>1. ~Rivals(w, d, e) /\ u.casts[d] = w.casts[d] /\ u.casts[e] = w.casts[e]
      BY <1>1, <1>9, <2>3 DEF InOrder
    <3>2. (Poised(u, d) <=> Poised(w, d)) /\ (Poised(u, e) <=> Poised(w, e))
      BY <1>10, <2>3 DEF LiveIn
    <3> QED BY ONLY <3>1, <3>2 DEF Rivals
  <2> QED BY ONLY <2>1, <2>2, <2>3 DEF Apart
<1>12. Ready(u, c)
  BY <1>8, <1>11, IdleReady
<1>13. ASSUME NEW d, LiveIn(u, d), d # c, u.casts[d].prog = u.casts[c].prog, Solo(u.casts[c].prog), Poised(u, d)
       PROVE  FALSE
  <2>1. LiveIn(w, d) /\ Poised(w, d) /\ Awaited(w, d)
    BY <1>1, <1>9, <1>10, <1>13 DEF InOrder, LiveIn
  <2>2. Busy
    BY <2>1 DEF Awaited, Windows, LiveIn, World, Busy
  <2>3. ~Def[p].concurrent
    BY <1>2, <1>5, <1>13 DEF Solo
  <2> QED BY <2>2, <2>3 DEF Start
<1>14. Lone(u, c)
  BY <1>13 DEF Lone
<1>15. u.cooldowns[p] = 0
  BY <1>3 DEF Start, World
<1> QED BY <1>4, <1>5, <1>6, <1>12, <1>14, <1>15

(* Start keeps the order, whether the window fails or not: it checks the    *)
(* cooldown and that no exclusive window is open.                           *)
LEMMA StartOrders ==
    ASSUME IInv, InOrder(World), NEW p \in Program, Start(p)
    PROVE  InOrder(World)' /\ CommitIsSpaced
<1>1. PICK w : w = World
  OBVIOUS
<1>2. PICK u, c, q, x : Begins(w, u, c, p, q, x)
  BY <1>1, Starting
<1>3. /\ Sound(u) /\ c \in DOMAIN u.casts /\ c \notin DOMAIN w.casts /\ u.casts[c] = q
      /\ Ready(u, c) /\ Lone(u, c) /\ u.cooldowns[p] = 0
  BY <1>1, <1>2, BeginsReady
<1>4. /\ q.prog = p /\ u.err = FALSE /\ u.cooldowns = w.cooldowns
      /\ q.stage = IF Def[p].mode = "charge" THEN "executing" ELSE "preparing"
      /\ u.casts = [d \in DOMAIN w.casts \cup {c} |-> IF d = c THEN q ELSE w.casts[d]]
  BY <1>2 DEF Begins
<1>5. IsLot(x)
  BY <1>2 DEF Begins
<1>6. PICK z : z = IF Def[p].mode = "charge" THEN ExecuteCast(u, c, x) ELSE Windup(u, c, x)
  OBVIOUS
<1>7. Orderly(u, z) /\ Handles(u, z, c)
  <2>1. CASE Def[p].mode = "charge"
    <3>1. z = ExecuteCast(u, c, x)
      BY <1>6, <2>1
    <3>2. Handles(u, z, c) /\ Closes(u, z, c)
      BY ONLY <1>3, <1>5, <3>1, ExecuteCastHandles, ExecuteCastCloses
    <3> QED BY <1>3, <3>2, ClosesOrderly DEF Sound
  <2>2. CASE Def[p].mode # "charge"
    <3>1. z = Windup(u, c, x)
      BY <1>6, <2>2
    <3>2. u.casts[c].stage = "preparing" /\ (Solo(u.casts[c].prog) => u.cooldowns[u.casts[c].prog] = 0) /\ ~u.err
      BY <1>3, <1>4, <2>2
    <3>3. Orderly(u, z)
      BY ONLY <1>3, <1>5, <3>1, <3>2, WindupOrders
    <3>4. Handles(u, z, c)
      BY ONLY <1>3, <1>5, <3>1, <3>2, WindupHandles
    <3> QED BY <3>3, <3>4
  <2> QED BY <2>1, <2>2
<1>8. Sound(z) /\ CastsTyped(z) /\ (z.err => c \in DOMAIN z.casts)
  BY <1>4, <1>7 DEF Handles, Does, Sound
<1>9. PICK v : v = Started(z, c)
  OBVIOUS
<1>10. Becomes(v)
  BY <1>2, <1>6, <1>9 DEF Begins
<1>11. Orderly(u, v)
  <2>1. CASE ~z.err
    BY <1>7, <1>9, <2>1 DEF Started
  <2>2. CASE z.err
    <3>1. PICK f : f = Failed(z, c)
      OBVIOUS
    <3>2. Sound(f) /\ Passes(z, f, c) /\ ~LiveIn(f, c)
      BY <1>8, <2>2, <3>1, FailedDoes, FailedEnds, SoundAfter
    <3>3. Apart(z, c) /\ Spaced(u, z)
      BY <1>7, ReadyFirst DEF Orderly
    <3>4. Orderly(u, f)
      BY <1>8, <3>2, <3>3, OrderlyEnds
    <3>5. v = IF z.casts[c].committed THEN f ELSE Without(f, c)
      BY <1>9, <2>2, <3>1 DEF Started
    <3>6. CASE v = f
      BY <3>4, <3>6
    <3>7. CASE v = Without(f, c)
      <4>1. IsWorld(f)
        BY <3>2 DEF Sound
      <4>2. v.tasks = f.tasks /\ v.cooldowns = f.cooldowns
            /\ v.casts = [d \in DOMAIN f.casts \ {c} |-> f.casts[d]]
        BY ONLY <3>7, <4>1 DEF IsWorld, Without
      <4>3. \A d \in DOMAIN v.casts : d \in DOMAIN f.casts /\ v.casts[d] = f.casts[d]
        BY ONLY <4>2
      <4> QED BY <3>4, <4>2, <4>3, FewerOrderly
    <3> QED BY <3>5, <3>6, <3>7
  <2> QED BY <2>1, <2>2
<1>12. PICK n : n = World'
  OBVIOUS
<1>13. n.casts = v.casts /\ n.tasks = v.tasks /\ n.cooldowns = v.cooldowns
  BY <1>10, <1>12 DEF World, Becomes
<1>14. InOrder(World')
  BY <1>11, <1>12, <1>13, SameOrderly DEF Orderly
<1>15. CommitIsSpaced
  <2>1. w.casts = casts /\ w.cooldowns = cooldowns /\ v.casts = casts'
    BY <1>1, <1>10 DEF World, Becomes
  <2>2. \A d \in DOMAIN casts : d \in DOMAIN u.casts /\ u.casts[d] = casts[d]
    BY <1>3, <1>4, <2>1
  <2>3. Spaced(u, v)
    BY <1>11 DEF Orderly
  <2> QED BY <1>4, <2>1, <2>2, <2>3 DEF CommitIsSpaced, Spaced, Solo
<1> QED BY <1>14, <1>15

-----------------------------------------------------------------------------
(* The theorem of the order *)

(* In the beginning there is nothing to order. *)
LEMMA InitOrders ==
    ASSUME Init
    PROVE  InOrder(World)
<1>1. PICK w : w = World
  OBVIOUS
<1>2. w.casts = <<>> /\ w.tasks = <<>>
  BY <1>1 DEF Init, World
<1>3. DOMAIN w.casts = {} /\ ToSet(w.tasks) = {}
  BY <1>2 DEF ToSet
<1>4. InOrder(w)
  BY <1>3 DEF InOrder, Reached, LiveIn
<1> QED BY <1>1, <1>4

(* Every step keeps the order, and commits only when the cooldown is over. *)
LEMMA NextOrders ==
    ASSUME IInv, InOrder(World), [Next]_vars
    PROVE  InOrder(World)' /\ [CommitIsSpaced]_vars
<1>1. CASE Advance
  BY <1>1, TickOrders, RechargeOrders, StaleOrders, CommitOrders, ExecuteOrders, PulseOrders,
     AutoReleaseOrders, RecoveryOrders, FlowOrders DEF Advance
<1>2. CASE \E p \in Program : Start(p) \/ ToggleOff(p)
  BY <1>2, StartOrders, ToggleOffOrders
<1>3. CASE \E c \in DOMAIN casts : Release(c) \/ Cancel(c) \/ Interrupt(c) \/ Input(c)
  BY <1>3, ReleaseOrders, CancelOrders, InterruptOrders, InputOrders
<1>4. CASE UNCHANGED vars
  <2>1. World' = World
    BY <1>4 DEF vars, World
  <2>2. InOrder(World')
    BY <2>1
  <2> QED BY <1>4, <2>2
<1> QED BY <1>1, <1>2, <1>3, <1>4 DEF Next

(* What is in order commits before it executes. *)
LEMMA OrderFirst ==
    ASSUME InOrder(World)
    PROVE  CommitsFirst
<1>1. PICK w : w = World
  OBVIOUS
<1>2. InOrder(w) /\ w.casts = casts /\ w.tasks = tasks
  BY <1>1 DEF World
<1> SUFFICES ASSUME NEW i \in DOMAIN tasks, NEW t, t = tasks[i], t.id \in DOMAIN casts, t.kind = "execute",
                    t.token = casts[t.id].token, ~Ended(casts[t.id]), ~casts[t.id].committed
             PROVE  \E j \in 1 .. i - 1 : tasks[j].kind = "commit" /\ tasks[j].id = t.id /\ tasks[j].token = t.token
  BY DEF CommitsFirst
<1>3. Awaited(w, t.id)
  BY <1>2 DEF InOrder, LiveIn
<1>4. Led(tasks, t.id, t.token)
  BY <1>2, <1>3 DEF Awaited
<1> QED BY <1>4 DEF Led

(* Whatever the programs are, if a start that fails leaves nothing behind:  *)
(* a cast commits before it executes, also when both are due at one tick,   *)
(* and casts of a skill that respects the exclusivity of the caster never   *)
(* commit within its cooldown, which Start checks ticks before.             *)
THEOREM CommitsOrdered ==
    ASSUME CleanStarts
    PROVE  Spec => CommitsInOrder
<1>1. Init => IInv /\ InOrder(World)
  BY InitSound, InitOrders
<1>2. IInv /\ InOrder(World) /\ [Next]_vars => (IInv /\ InOrder(World))' /\ [CommitIsSpaced]_vars
  BY NextSound, NextOrders
<1>3. IInv /\ InOrder(World) => CommitsFirst
  BY OrderFirst
<1> QED BY <1>1, <1>2, <1>3, PTL DEF Spec, CommitsInOrder, CommitsSpaced

=============================================================================
