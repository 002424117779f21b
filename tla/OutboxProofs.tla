---------------------------- MODULE OutboxProofs ----------------------------
(***************************************************************************)
(* Proofs about module Outbox, for every finite set of packets, every set  *)
(* of workers and all options: its books, its marks, what a crash costs    *)
(* and that it implements PacketLedger.  All rest on one inductive         *)
(* invariant, IInv; the last two need a store whose failing calls have no  *)
(* effect (~Torn), and say so.                                             *)
(***************************************************************************)
EXTENDS Outbox, SetLemmas

(* SizeOf counts the bytes of the packets: the set is finite, so the count  *)
(* adds up over disjoint sets of packets.                                   *)
Bytes(S) == UNION {{p} \X (1..Size[p]) : p \in S}

(* Finitely many packets have finitely many bytes. *)
LEMMA BytesFinite ==
    ASSUME NEW S \in SUBSET Packet
    PROVE  IsFiniteSet(Bytes(S))
<1> DEFINE cell == [p \in S |-> {p} \X (1..Size[p])]
           cells == {{p} \X (1..Size[p]) : p \in S}
<1>1. IsFiniteSet(S)
  BY PacketAssumption, FS_Subset
<1>2. IsFiniteSet(cells)
  <2>1. cell \in Surjection(S, cells)
    BY Fun_IsSurj
  <2> QED
    BY <1>1, <2>1, FS_Surjection
<1>3. \A c \in cells : IsFiniteSet(c)
  <2> SUFFICES ASSUME NEW p \in S PROVE IsFiniteSet({p} \X (1..Size[p]))
    OBVIOUS
  <2>1. Size[p] \in Nat
    BY PacketAssumption
  <2>2. IsFiniteSet(1..Size[p])
    BY <2>1, FS_Interval
  <2>3. IsFiniteSet({p})
    BY FS_Singleton
  <2> QED
    BY <2>2, <2>3, FS_Product
<1> QED
  BY <1>2, <1>3, FS_UNION DEF Bytes

(* The size of two disjoint sets is the sum of theirs (addPendingLocked). *)
LEMMA SizeOfParts ==
    ASSUME NEW S \in SUBSET Packet, NEW T \in SUBSET Packet, S \cap T = {}
    PROVE  /\ SizeOf(S) \in Nat /\ SizeOf(T) \in Nat
           /\ SizeOf(S \cup T) = SizeOf(S) + SizeOf(T)
<1>1. IsFiniteSet(Bytes(S)) /\ IsFiniteSet(Bytes(T))
  BY BytesFinite
<1>2. Bytes(S \cup T) = Bytes(S) \cup Bytes(T) /\ Bytes(S) \cap Bytes(T) = {}
  BY DEF Bytes
<1>3. /\ SizeOf(S) = Cardinality(Bytes(S)) /\ SizeOf(T) = Cardinality(Bytes(T))
      /\ SizeOf(S \cup T) = Cardinality(Bytes(S \cup T))
  BY DEF SizeOf, Bytes
<1>4. Cardinality(Bytes(S)) \in Nat /\ Cardinality(Bytes(T)) \in Nat
  BY <1>1, FS_CardinalityType
<1>5. Cardinality(Bytes(S) \cup Bytes(T))
        = Cardinality(Bytes(S)) + Cardinality(Bytes(T)) - Cardinality(Bytes(S) \cap Bytes(T))
  BY <1>1, FS_Union
<1>6. Cardinality(Bytes(S) \cap Bytes(T)) = 0
  BY <1>2, FS_EmptySet
<1>7. SizeOf(S \cup T) = Cardinality(Bytes(S) \cup Bytes(T))
  BY <1>2, <1>3, Zenon
<1> QED
  BY ONLY <1>3, <1>4, <1>5, <1>6, <1>7

(* No packets, no bytes. *)
LEMMA SizeOfEmpty == SizeOf({}) = 0
<1>1. UNION {{p} \X (1..Size[p]) : p \in {}} = {}
  OBVIOUS
<1> QED
  BY <1>1, FS_EmptySet DEF SizeOf

(* What removePendingLocked takes off is what the removed packets weigh. *)
LEMMA SizeOfRest ==
    ASSUME NEW S \in SUBSET Packet, NEW T \in SUBSET S
    PROVE  /\ SizeOf(S \ T) = SizeOf(S) - SizeOf(T)
           /\ SizeOf(S) \in Nat /\ SizeOf(T) \in Nat /\ SizeOf(T) <= SizeOf(S)
           /\ SizeOf(S \ T) <= SizeOf(S)
<1>1. (S \ T) \cup T = S /\ (S \ T) \cap T = {}
  OBVIOUS
<1>2. SizeOf((S \ T) \cup T) = SizeOf(S \ T) + SizeOf(T) /\ SizeOf(S \ T) \in Nat /\ SizeOf(T) \in Nat
  BY <1>1, SizeOfParts
<1>3. SizeOf(S) = SizeOf(S \ T) + SizeOf(T)
  BY ONLY <1>1, <1>2
<1>4. SizeOf(S) \in Nat
  BY ONLY <1>2, <1>3
<1> QED
  BY ONLY <1>2, <1>3, <1>4

(* The same for the number of packets. *)
LEMMA CountParts ==
    ASSUME NEW S \in SUBSET Packet, NEW T \in SUBSET Packet
    PROVE  /\ IsFiniteSet(S) /\ IsFiniteSet(T)
           /\ Cardinality(S) \in Nat /\ Cardinality(T) \in Nat
           /\ S \cap T = {} => Cardinality(S \cup T) = Cardinality(S) + Cardinality(T)
           /\ Cardinality(S \ T) <= Cardinality(S)
<1>1. IsFiniteSet(S) /\ IsFiniteSet(T)
  BY PacketAssumption, FS_Subset
<1>2. Cardinality(S) \in Nat /\ Cardinality(T) \in Nat
  BY <1>1, FS_CardinalityType
<1>3. ASSUME S \cap T = {} PROVE Cardinality(S \cup T) = Cardinality(S) + Cardinality(T)
  <2>1. Cardinality(S \cup T) = Cardinality(S) + Cardinality(T) - Cardinality(S \cap T)
    BY <1>1, FS_Union
  <2>2. Cardinality(S \cap T) = 0
    BY <1>3, FS_EmptySet, Zenon
  <2> QED
    BY ONLY <1>2, <2>1, <2>2
<1>4. Cardinality(S \ T) <= Cardinality(S)
  BY <1>1, FS_Subset
<1> QED
  BY <1>1, <1>2, <1>3, <1>4

-----------------------------------------------------------------------------
(* What OldestOf computes. *)
IsOldest(v, S, ages) ==
    IF S = {} THEN v = NoAge
    ELSE \E p \in S : v = ages[p] /\ \A q \in S : ages[q] <= v

(* OldestOf is the age of an oldest packet, and NoAge without one. *)
LEMMA OldestIs ==
    ASSUME NEW S \in SUBSET Packet, NEW ages \in [Packet -> 0..AgeCap], NEW v
    PROVE  v = OldestOf(S, ages) <=> IsOldest(v, S, ages)
<1>1. CASE S = {}
  BY <1>1 DEF OldestOf, IsOldest
<1>2. CASE S # {}
  <2> DEFINE A == {ages[p] : p \in S}
  <2>1. A \subseteq 0..AgeCap /\ AgeCap \in Nat
    BY OptionAssumption
  <2>2. IsFiniteSet(A)
    <3>1. IsFiniteSet(0..AgeCap)
      BY <2>1, FS_Interval
    <3> QED
      BY <2>1, <3>1, FS_Subset
  <2>3. A \subseteq Int /\ A # {}
    BY <1>2, <2>1
  <2>4. Max(A) \in A /\ \A x \in A : x <= Max(A)
    <3> HIDE DEF A
    <3> QED BY <2>2, <2>3, MaxOfFinite
  <2>5. OldestOf(S, ages) = Max(A)
    BY <1>2 DEF OldestOf
  <2>6. \A x \in A : (\A y \in A : y <= x) => x = Max(A)
    <3> SUFFICES ASSUME NEW x \in A, \A y \in A : y <= x PROVE x = Max(A)
      OBVIOUS
    <3>1. x \in Int /\ Max(A) \in Int /\ x <= Max(A) /\ Max(A) <= x
      <4> HIDE DEF A
      <4> QED BY <2>3, <2>4
    <3> QED BY ONLY <3>1
  <2>7. IsOldest(v, S, ages) <=> v \in A /\ \A x \in A : x <= v
    BY <1>2 DEF IsOldest
  <2> HIDE DEF A
  <2> QED
    BY <2>4, <2>5, <2>6, <2>7
<1> QED
  BY <1>1, <1>2

-----------------------------------------------------------------------------
(* The inductive invariant. *)

(* What is not pending has no metadata left. *)
Blanks == \A p \in Packet \ pending : attempts[p] = 0 /\ age[p] = 0

(* Only a call between its selection and its last packet holds packets. *)
HandsInv == \A w \in Worker : pc[w] # "publishing" => queue[w] = {}

(* A process that is down owes nothing in memory and runs no call. *)
DownInv == ~up => pending = {} /\ \A w \in Worker : pc[w] = "idle"

IInv == BooksAreSound /\ Blanks /\ MarkIsOwned /\ HandsInv /\ DownInv

(* A new outbox without a store to load. *)
LEMMA InitIInv == Init => IInv
<1> SUFFICES ASSUME Init PROVE IInv
  OBVIOUS
<1> USE DEF Init
<1>1. TypeOK
  BY OptionAssumption DEF TypeOK, Blank, Fresh, NoAge
<1>2. BooksBalance
  <2>1. bytes = SizeOf(pending)
    BY SizeOfEmpty
  <2>2. oldest = OldestOf(pending, age)
    BY DEF OldestOf
  <2> QED
    BY <2>1, <2>2 DEF BooksBalance
<1>3. WithinLimits
  BY SizeOfEmpty, FS_EmptySet, OptionAssumption DEF WithinLimits
<1> QED
  BY <1>1, <1>2, <1>3 DEF IInv, BooksAreSound, Blanks, Blank, MarkIsOwned, HandsInv, DownInv

(* Loading a set within the limits establishes the books. *)
LEMMA LoadedKeepsBooks ==
    ASSUME NEW S \in SUBSET Packet, NEW m,
           m \in [Packet -> [attempts : 0..AttemptCap, wait : Nat, age : 0..AgeCap]],
           Cardinality(S) <= MaxPackets, SizeOf(S) <= MaxBytes,
           Loaded(S, m)
    PROVE  /\ pending' \subseteq Packet /\ publishing' \subseteq pending'
           /\ attempts' \in [Packet -> 0..AttemptCap]
           /\ wait' \in [Packet -> Nat] /\ age' \in [Packet -> 0..AgeCap]
           /\ bytes' \in Nat /\ oldest' \in 0..NoAge
           /\ index' \in [Stream -> SUBSET Nat]
           /\ BooksBalance' /\ WithinLimits' /\ Blanks' /\ MarkIsOwned'
<1> USE DEF Loaded
<1>1. /\ attempts' \in [Packet -> 0..AttemptCap]
      /\ wait' \in [Packet -> Nat] /\ age' \in [Packet -> 0..AgeCap]
  BY OptionAssumption
<1>2. bytes' \in Nat
  BY SizeOfRest
<1>3. oldest' = OldestOf(S, age')
  OBVIOUS
<1>4. oldest' \in 0..NoAge
  <2>1. IsOldest(oldest', S, age')
    BY <1>1, <1>3, OldestIs
  <2> QED
    BY <1>1, <2>1, OptionAssumption DEF IsOldest, NoAge
<1>5. index' \in [Stream -> SUBSET Nat]
  BY PacketAssumption
<1>6. BooksBalance'
  BY <1>3 DEF BooksBalance
<1>7. Blanks' /\ MarkIsOwned' /\ WithinLimits'
  BY DEF Blanks, MarkIsOwned, WithinLimits
<1> QED
  BY <1>1, <1>2, <1>4, <1>5, <1>6, <1>7

(* Adding packets that fit keeps the books. *)
LEMMA AddPendingKeepsBooks ==
    ASSUME IInv, up, NEW new \in SUBSET Packet, new # {}, new \cap pending = {},
           Fits(new), AddPending(new), UNCHANGED <<up, workers>>
    PROVE  /\ pending' \subseteq Packet /\ publishing' \subseteq pending'
           /\ bytes' \in Nat /\ oldest' \in 0..NoAge
           /\ index' \in [Stream -> SUBSET Nat]
           /\ BooksBalance' /\ WithinLimits' /\ Blanks' /\ MarkIsOwned' /\ HandsInv' /\ DownInv'
<1> USE DEF AddPending, IInv, BooksAreSound, TypeOK
<1>1. bytes' = SizeOf(pending') /\ bytes' \in Nat
  <2>1. SizeOf(pending \cup new) = SizeOf(pending) + SizeOf(new) /\ SizeOf(new) \in Nat
    BY SizeOfParts
  <2>2. bytes = SizeOf(pending) /\ bytes \in Nat
    BY DEF BooksBalance
  <2> QED
    BY <2>1, <2>2
<1>2. oldest' = OldestOf(pending', age') /\ oldest' \in 0..NoAge
  <2>1. IsOldest(oldest, pending, age)
    BY OldestIs DEF BooksBalance
  <2>2. \A p \in new : age[p] = 0
    BY DEF Blanks
  <2>3. oldest = NoAge <=> pending = {}
    BY <2>1, OptionAssumption DEF IsOldest, NoAge
  <2>4. IsOldest(oldest', pending', age')
    <3>1. CASE pending = {}
      <4>1. PICK p \in new : TRUE
        OBVIOUS
      <4>2. oldest' = 0 /\ pending' = new /\ age' = age
        BY <2>3, <3>1
      <4> QED
        BY <2>2, <4>1, <4>2 DEF IsOldest
    <3>2. CASE pending # {}
      <4>1. oldest' = oldest /\ age' = age /\ pending' # {}
        BY <2>3, <3>2
      <4>2. PICK p \in pending : oldest = age[p] /\ \A q \in pending : age[q] <= oldest
        BY <2>1, <3>2 DEF IsOldest
      <4>3. oldest \in 0..AgeCap
        BY <4>2
      <4>4. \A q \in pending' : age[q] <= oldest
        BY <2>2, <4>2, <4>3, OptionAssumption
      <4> QED
        BY <4>1, <4>2, <4>4 DEF IsOldest
    <3> QED BY <3>1, <3>2
  <2>5. oldest' \in 0..NoAge
    BY OptionAssumption DEF NoAge
  <2> QED
    BY <2>4, <2>5, OldestIs
<1>3. \A s \in Stream : index'[s] = {p.seq : p \in {q \in pending' : StreamOf(q) = s}}
  BY DEF BooksBalance
<1>4. index' \in [Stream -> SUBSET Nat]
  BY PacketAssumption
<1>5. WithinLimits'
  <2>1. Cardinality(pending') = Cardinality(pending) + Cardinality(new)
    BY CountParts
  <2>2. SizeOf(pending') = bytes + SizeOf(new)
    BY <1>1
  <2> QED
    BY <2>1, <2>2 DEF WithinLimits, Fits
<1>6. Blanks' /\ MarkIsOwned' /\ HandsInv' /\ DownInv'
  BY DEF Blanks, MarkIsOwned, HandsInv, DownInv, workers
<1> QED
  BY <1>1, <1>2, <1>3, <1>4, <1>5, <1>6 DEF BooksBalance

(* And so does removing packets. *)
LEMMA RemovePendingKeepsBooks ==
    ASSUME IInv, up, NEW gone \in SUBSET pending, RemovePending(gone), UNCHANGED <<up, workers>>
    PROVE  /\ pending' \subseteq Packet /\ publishing' \subseteq pending'
           /\ attempts' \in [Packet -> 0..AttemptCap]
           /\ wait' \in [Packet -> Nat] /\ age' \in [Packet -> 0..AgeCap]
           /\ bytes' \in Nat /\ oldest' \in 0..NoAge
           /\ index' \in [Stream -> SUBSET Nat]
           /\ BooksBalance' /\ WithinLimits' /\ Blanks' /\ MarkIsOwned' /\ HandsInv' /\ DownInv'
<1> USE DEF RemovePending, IInv, BooksAreSound, TypeOK
<1>1. /\ bytes' = SizeOf(pending') /\ bytes' \in Nat
      /\ SizeOf(pending') <= SizeOf(pending)
  BY SizeOfRest DEF BooksBalance
<1>2. /\ attempts' \in [Packet -> 0..AttemptCap]
      /\ wait' \in [Packet -> Nat] /\ age' \in [Packet -> 0..AgeCap]
  BY OptionAssumption
<1>3. oldest' = OldestOf(pending', age') /\ oldest' \in 0..NoAge
  <2>1. IsOldest(oldest, pending, age)
    BY OldestIs DEF BooksBalance
  <2>2. \A p \in pending' : age'[p] = age[p]
    OBVIOUS
  <2>3. IsOldest(oldest', pending', age')
    <3>1. CASE \E p \in gone : age[p] = oldest
      <4>1. oldest' = OldestOf(pending', age)
        BY <3>1 DEF OldestWithout
      <4>2. IsOldest(oldest', pending', age)
        BY <4>1, OldestIs
      <4> QED
        BY <2>2, <4>2 DEF IsOldest
    <3>2. CASE ~ \E p \in gone : age[p] = oldest
      <4>1. oldest' = oldest
        BY <3>2 DEF OldestWithout
      <4> QED
        BY <2>1, <2>2, <3>2, <4>1 DEF IsOldest
    <3> QED BY <3>1, <3>2
  <2>4. oldest' \in 0..NoAge
    BY <1>2, <2>3, OptionAssumption DEF IsOldest, NoAge
  <2> QED
    BY <1>2, <2>3, <2>4, OldestIs
<1>4. \A s \in Stream : index'[s] = {p.seq : p \in {q \in pending' : StreamOf(q) = s}}
  BY PacketAssumption DEF BooksBalance
<1>5. index' \in [Stream -> SUBSET Nat]
  OBVIOUS
<1>6. WithinLimits'
  <2>1. Cardinality(pending') <= Cardinality(pending) /\ Cardinality(pending) \in Nat
        /\ Cardinality(pending') \in Nat
    BY CountParts
  <2>2. SizeOf(pending) \in Nat /\ SizeOf(pending') \in Nat
    BY SizeOfRest
  <2> QED
    BY <1>1, <2>1, <2>2, OptionAssumption DEF WithinLimits
<1>7. Blanks' /\ MarkIsOwned' /\ HandsInv' /\ DownInv'
  BY DEF Blanks, MarkIsOwned, HandsInv, DownInv, workers
<1> QED
  BY <1>1, <1>2, <1>3, <1>4, <1>5, <1>6, <1>7 DEF BooksBalance

-----------------------------------------------------------------------------
(* One lemma per action: each preserves the invariant. *)

(* The store keeps its shape under every write and deletion. *)
StoreOK ==
    /\ stored \subseteq Packet
    /\ storedMeta \in [Packet -> [attempts : 0..AttemptCap, wait : Nat, age : 0..AgeCap]]

(* The metadata of a packet never tried. *)
LEMMA FreshIsMeta == Fresh \in [attempts : 0..AttemptCap, wait : Nat, age : 0..AgeCap]
  BY OptionAssumption DEF Fresh

(* A write stores packets with fresh metadata. *)
LEMMA WriteStoreKeepsShape ==
    ASSUME StoreOK, NEW new \in SUBSET Packet, WriteStore(new)
    PROVE  StoreOK'
  BY FreshIsMeta DEF StoreOK, WriteStore

(* Put and PutBatch: the store, then the books. *)
LEMMA PutBatchKeepsIInv ==
    ASSUME IInv, up, NEW new \in SUBSET Packet, new # {}, new \cap pending = {},
           Admits(new), WriteStore(new), AddPending(new), UNCHANGED <<up, workers>>
    PROVE  IInv'
<1>1. Fits(new)
  BY DEF Admits
<1>2. StoreOK'
  BY WriteStoreKeepsShape DEF IInv, BooksAreSound, TypeOK, StoreOK
<1>3. /\ attempts' \in [Packet -> 0..AttemptCap]
      /\ wait' \in [Packet -> Nat] /\ age' \in [Packet -> 0..AgeCap]
  BY DEF AddPending, IInv, BooksAreSound, TypeOK
<1>4. /\ up' \in BOOLEAN
      /\ pc' \in [Worker -> {"idle", "asked", "checked", "publishing", "release"}]
      /\ queue' \in [Worker -> SUBSET Packet] /\ batch' \in [Worker -> SUBSET Packet]
      /\ elapsed' \in [Worker -> Nat]
  BY DEF workers, IInv, BooksAreSound, TypeOK
<1> QED
  BY <1>1, <1>2, <1>3, <1>4, AddPendingKeepsBooks DEF IInv, BooksAreSound, TypeOK, StoreOK

(* A failing Put or PutBatch may have written, and changes nothing else. *)
LEMMA FailedPutKeepsIInv ==
    ASSUME IInv, NEW new \in SUBSET Packet, WriteStore(new), UNCHANGED <<up, memory, workers>>
    PROVE  IInv'
<1>1. StoreOK'
  BY WriteStoreKeepsShape DEF IInv, BooksAreSound, TypeOK, StoreOK
<1>2. BooksAreSound'
  BY <1>1 DEF IInv, BooksAreSound, TypeOK, StoreOK, BooksBalance, WithinLimits, memory, workers
<1> QED
  BY <1>2 DEF IInv, Blanks, MarkIsOwned, HandsInv, DownInv, memory, workers

(* Acknowledge and DiscardObserver: what is deleted leaves the books. *)
LEMMA RemovalKeepsIInv ==
    ASSUME IInv, up, NEW gone \in SUBSET pending, RemovePending(gone),
           stored' \subseteq stored, UNCHANGED <<up, storedMeta, workers>>
    PROVE  IInv'
<1>1. StoreOK'
  BY DEF IInv, BooksAreSound, TypeOK, StoreOK
<1>2. /\ up' \in BOOLEAN
      /\ pc' \in [Worker -> {"idle", "asked", "checked", "publishing", "release"}]
      /\ queue' \in [Worker -> SUBSET Packet] /\ batch' \in [Worker -> SUBSET Packet]
      /\ elapsed' \in [Worker -> Nat]
  BY DEF workers, IInv, BooksAreSound, TypeOK
<1> QED
  BY <1>1, <1>2, RemovePendingKeepsBooks DEF IInv, BooksAreSound, TypeOK, StoreOK

(* Whether the deletion ends or stops half way. *)
LEMMA DeleteKeepsIInv ==
    ASSUME IInv, up, NEW ids \in SUBSET pending, Delete(ids) \/ DeleteFails(ids)
    PROVE  IInv'
<1>1. CASE Delete(ids)
  BY <1>1, RemovalKeepsIInv DEF Delete
<1>2. CASE DeleteFails(ids)
  <2>1. PICK T \in SUBSET ids, extra \in SUBSET ids :
            RemovePending(T) /\ stored' = stored \ (T \cup extra)
    BY <1>2 DEF DeleteFails
  <2> QED
    BY <1>2, <2>1, RemovalKeepsIInv DEF DeleteFails
<1> QED
  BY <1>1, <1>2

(* The steps of PublishDue leave the books alone. *)
LEMMA SameBooks ==
    ASSUME IInv, UNCHANGED <<pending, age, bytes, index, oldest>>
    PROVE  BooksBalance' /\ WithinLimits'
  BY DEF IInv, BooksAreSound, BooksBalance, WithinLimits

(* A call of PublishDue or PublishNow begins. *)
LEMMA BeginKeepsIInv ==
    ASSUME IInv, NEW w \in Worker, NEW f \in Filter, PublishDue(w, f) \/ PublishNow(w, f)
    PROVE  IInv'
<1> USE DEF PublishDue, PublishNow, Begin, IInv, memory, store
<1>1. UNCHANGED <<up, pending, attempts, age, publishing, bytes, index, oldest, queue, store>>
  OBVIOUS
<1>2. /\ wait' \in [Packet -> Nat] /\ batch' \in [Worker -> SUBSET Packet]
      /\ pc' \in [Worker -> {"idle", "asked", "checked", "publishing", "release"}]
      /\ elapsed' \in [Worker -> Nat]
  <2>1. f \in SUBSET Packet
    BY PacketAssumption
  <2>2. wait' \in [Packet -> Nat]
    BY DEF BooksAreSound, TypeOK
  <2>3. /\ batch' = [batch EXCEPT ![w] = f] /\ elapsed' = [elapsed EXCEPT ![w] = 0]
        /\ pc' = [pc EXCEPT ![w] = "checked"] \/ pc' = [pc EXCEPT ![w] = "asked"]
    OBVIOUS
  <2> QED
    BY <2>1, <2>2, <2>3 DEF BooksAreSound, TypeOK
<1>3. TypeOK'
  BY <1>1, <1>2 DEF BooksAreSound, TypeOK
<1>4. Blanks' /\ MarkIsOwned' /\ HandsInv' /\ DownInv'
  BY <1>1 DEF Blanks, MarkIsOwned, HandsInv, DownInv, BooksAreSound, TypeOK
<1> QED
  BY <1>1, <1>3, <1>4, SameBooks DEF BooksAreSound

(* It goes on or gives up when a packet is too old. *)
LEMMA CheckAgeKeepsIInv ==
    ASSUME IInv, NEW w \in Worker, CheckAge(w)
    PROVE  IInv'
<1> USE DEF CheckAge, IInv, memory, store
<1>1. TypeOK'
  BY DEF BooksAreSound, TypeOK
<1>2. Blanks' /\ MarkIsOwned' /\ HandsInv' /\ DownInv'
  BY DEF Blanks, MarkIsOwned, HandsInv, DownInv, BooksAreSound, TypeOK
<1> QED
  BY <1>1, <1>2, SameBooks DEF BooksAreSound

(* It takes packets in hand and marks just those; it had none before. *)
LEMMA SelectDueKeepsIInv ==
    ASSUME IInv, NEW w \in Worker, SelectDue(w)
    PROVE  IInv'
<1> USE DEF SelectDue, IInv, store
<1>1. Selected(batch[w]) \subseteq pending
  BY DEF Selected, Due
<1>2. TypeOK'
  BY <1>1 DEF BooksAreSound, TypeOK, Marked
<1>3. MarkIsOwned'
  <2> SUFFICES ASSUME NEW p \in publishing' PROVE \E v \in Worker : p \in queue'[v]
    BY DEF MarkIsOwned
  <2>1. CASE p \in Marked(batch[w])
    BY <2>1 DEF Marked, BooksAreSound, TypeOK
  <2>2. CASE p \in publishing
    <3>1. PICK v \in Worker : p \in queue[v]
      BY <2>2 DEF MarkIsOwned
    <3>2. v # w
      BY <3>1 DEF HandsInv
    <3> QED
      BY <3>1, <3>2 DEF BooksAreSound, TypeOK
  <2> QED
    BY <2>1, <2>2
<1>4. Blanks' /\ HandsInv' /\ DownInv'
  BY DEF Blanks, HandsInv, DownInv, BooksAreSound, TypeOK
<1> QED
  BY <1>2, <1>3, <1>4, SameBooks DEF BooksAreSound

(* The doubled delay is a number of ticks. *)
LEMMA BackoffIsNat ==
    ASSUME NEW n \in 1..AttemptCap
    PROVE  Backoff(n) \in Nat
<1>1. n - 1 \in Nat
  BY OptionAssumption
<1>2. 2^(n - 1) \in Nat
  BY <1>1, PowerIsNat
<1>3. FailureRetry * 2^(n - 1) \in Nat
  BY <1>2, OptionAssumption
<1>4. \E x \in {FailureRetry * 2^(n - 1), MaxRetry} :
          \A y \in {FailureRetry * 2^(n - 1), MaxRetry} : x <= y
  BY <1>3, OptionAssumption
<1>5. Backoff(n) \in {FailureRetry * 2^(n - 1), MaxRetry}
  BY <1>4 DEF Backoff, Min
<1> QED
  BY <1>3, <1>5, OptionAssumption

(* The publisher returned: one packet leaves the hands and loses its mark. *)
LEMMA PublishedKeepsIInv ==
    ASSUME IInv, NEW w \in Worker, NEW p \in queue[w],
           NEW accepted \in BOOLEAN, NEW persists \in BOOLEAN,
           Published(w, p, accepted, persists)
    PROVE  IInv'
<1> DEFINE n == IF attempts[p] < AttemptCap THEN attempts[p] + 1 ELSE AttemptCap
           left == Left(IF accepted THEN AckRetry ELSE Backoff(n), w)
<1>0. p \in Packet
  BY DEF IInv, BooksAreSound, TypeOK
<1>1. n \in 1..AttemptCap
  BY <1>0, OptionAssumption DEF IInv, BooksAreSound, TypeOK
<1>2. left \in Nat
  <2>1. elapsed[w] \in Nat
    BY DEF IInv, BooksAreSound, TypeOK
  <2>2. (IF accepted THEN AckRetry ELSE Backoff(n)) \in Nat
    BY <1>1, BackoffIsNat, OptionAssumption
  <2> HIDE DEF n
  <2> QED
    BY <2>1, <2>2 DEF Left
<1>3. /\ attempts' \in [Packet -> 0..AttemptCap] /\ wait' \in [Packet -> Nat]
      /\ \A q \in Packet : q \notin pending => attempts'[q] = attempts[q]
  <2>1. \/ attempts' = [attempts EXCEPT ![p] = n] /\ wait' = [wait EXCEPT ![p] = left] /\ p \in pending
        \/ UNCHANGED <<attempts, wait>>
    BY DEF Published
  <2>2. attempts \in [Packet -> 0..AttemptCap] /\ wait \in [Packet -> Nat] /\ pending \subseteq Packet
    BY DEF IInv, BooksAreSound, TypeOK
  <2>3. n \in 0..AttemptCap
    BY <1>1
  <2> HIDE DEF n, left
  <2> QED
    BY ONLY <1>0, <1>2, <2>1, <2>2, <2>3
<1>4. StoreOK'
  <2>1. \/ /\ stored' = stored \cup {p}
           /\ storedMeta' = [storedMeta EXCEPT ![p] =
                                [attempts |-> n, wait |-> left, age |-> age[p]]]
        \/ UNCHANGED <<stored, storedMeta>>
    BY DEF Published, store
  <2>2. age[p] \in 0..AgeCap /\ n \in 0..AttemptCap
    BY <1>0, <1>1 DEF IInv, BooksAreSound, TypeOK
  <2>3. stored \subseteq Packet /\
        storedMeta \in [Packet -> [attempts : 0..AttemptCap, wait : Nat, age : 0..AgeCap]]
    BY DEF IInv, BooksAreSound, TypeOK
  <2>4. [attempts |-> n, wait |-> left, age |-> age[p]]
            \in [attempts : 0..AttemptCap, wait : Nat, age : 0..AgeCap]
    <3> HIDE DEF n, left
    <3> QED BY ONLY <1>2, <2>2
  <2> HIDE DEF n, left
  <2> QED
    BY ONLY <1>0, <2>1, <2>3, <2>4 DEF StoreOK
<1>5. /\ UNCHANGED <<up, pending, age, bytes, index, oldest, batch, elapsed>>
      /\ queue' = [queue EXCEPT ![w] = @ \ {p}] /\ publishing' = publishing \ {p}
      /\ pc' = [pc EXCEPT ![w] = IF queue[w] = {p} THEN "release" ELSE @]
      /\ pc[w] = "publishing"
  BY DEF Published, Calling
<1>6. TypeOK'
  BY <1>0, <1>3, <1>4, <1>5 DEF IInv, BooksAreSound, TypeOK, StoreOK
<1>7. MarkIsOwned' /\ HandsInv' /\ DownInv'
  BY <1>5 DEF IInv, MarkIsOwned, HandsInv, DownInv, BooksAreSound, TypeOK
<1>8. Blanks'
  BY <1>3, <1>5 DEF IInv, Blanks
<1> QED
  BY <1>5, <1>6, <1>7, <1>8, SameBooks DEF IInv, BooksAreSound

(* The call ends; clearing marks breaks no claim about marks. *)
LEMMA ReleasePublishingKeepsIInv ==
    ASSUME IInv, NEW w \in Worker, ReleasePublishing(w)
    PROVE  IInv'
<1> USE DEF ReleasePublishing, IInv, store
<1>1. TypeOK'
  BY DEF BooksAreSound, TypeOK
<1>2. Blanks' /\ MarkIsOwned' /\ HandsInv' /\ DownInv'
  BY DEF Blanks, MarkIsOwned, HandsInv, DownInv, BooksAreSound, TypeOK
<1> QED
  BY <1>1, <1>2, SameBooks DEF BooksAreSound

(* Time passes: every packet grows older by the same step, so the oldest    *)
(* stays the oldest.                                                        *)
LEMMA OlderIsMonotone ==
    ASSUME NEW a \in 0..AgeCap, NEW b \in 0..AgeCap
    PROVE  Older(a) \in 0..AgeCap /\ (a <= b => Older(a) <= Older(b))
  BY OptionAssumption DEF Older

(* A wait that has run out stays 0. *)
LEMMA NearerIsNat == \A t \in Nat : Nearer(t) \in Nat
  BY DEF Nearer

(* Time passes: the cached oldest age grows with the packets it stands for. *)
LEMMA TickKeepsIInv ==
    ASSUME IInv, Tick
    PROVE  IInv'
<1>0. TypeOK
  BY DEF IInv, BooksAreSound
<1>1. wait' \in [Packet -> Nat] /\ age' \in [Packet -> 0..AgeCap]
  <2>1. \A p \in Packet : Nearer(wait[p]) \in Nat
    BY <1>0, NearerIsNat DEF TypeOK
  <2>2. \A p \in Packet : Older(age[p]) \in 0..AgeCap /\ 0 \in 0..AgeCap
    BY <1>0, OlderIsMonotone, OptionAssumption DEF TypeOK
  <2> QED
    BY <2>1, <2>2 DEF Tick
<1>2. elapsed' \in [Worker -> Nat]
  <2>1. \A w \in Worker : elapsed[w] \in Nat /\ elapsed[w] + 1 \in Nat
    BY <1>0 DEF TypeOK
  <2> QED
    BY <2>1, Zenon DEF Tick
<1>3. storedMeta' \in [Packet -> [attempts : 0..AttemptCap, wait : Nat, age : 0..AgeCap]]
  <2>1. ASSUME NEW m \in [attempts : 0..AttemptCap, wait : Nat, age : 0..AgeCap]
        PROVE  [m EXCEPT !.wait = Nearer(@), !.age = Older(@)]
                   \in [attempts : 0..AttemptCap, wait : Nat, age : 0..AgeCap]
    <3>1. Nearer(m.wait) \in Nat /\ Older(m.age) \in 0..AgeCap
      BY NearerIsNat, OlderIsMonotone
    <3> QED BY <3>1
  <2> QED
    BY <1>0, <2>1, FreshIsMeta DEF Tick, TypeOK
<1>4. oldest' = OldestOf(pending', age') /\ oldest' \in 0..NoAge
  <2>1. IsOldest(oldest, pending, age)
    BY <1>0, OldestIs DEF IInv, BooksAreSound, BooksBalance, TypeOK
  <2>2. pending' = pending /\ pending \subseteq Packet
    BY <1>0 DEF Tick, TypeOK
  <2>3. /\ IsOldest(oldest', pending', age')
        /\ oldest' \in 0..NoAge
    <3>1. CASE pending = {}
      <4>1. oldest = NoAge /\ NoAge \in 0..NoAge
        BY <2>1, <3>1, OptionAssumption DEF IsOldest, NoAge
      <4> QED
        BY <2>2, <3>1, <4>1 DEF IsOldest, Tick
    <3>2. CASE pending # {}
      <4>1. PICK p \in pending : oldest = age[p] /\ \A q \in pending : age[q] <= oldest
        BY <2>1, <3>2 DEF IsOldest
      <4>2. \A q \in pending : age[q] \in 0..AgeCap
        BY <1>0, <2>2 DEF TypeOK
      <4>3. oldest \in 0..AgeCap /\ oldest # NoAge
        BY <4>1, <4>2, OptionAssumption DEF NoAge
      <4>4. oldest' = Older(oldest) /\ \A q \in pending : age'[q] = Older(age[q])
        BY <2>2, <4>3 DEF Tick
      <4>5. \A q \in pending : age'[q] <= oldest'
        BY <4>1, <4>2, <4>3, <4>4, OlderIsMonotone
      <4>6. oldest' \in 0..AgeCap
        BY <4>3, <4>4, OlderIsMonotone
      <4> QED
        BY <2>2, <3>2, <4>1, <4>4, <4>5, <4>6, OptionAssumption DEF IsOldest, NoAge
    <3> QED BY <3>1, <3>2
  <2> QED
    BY <1>1, <2>2, <2>3, OldestIs
<1>5. TypeOK'
  BY <1>0, <1>1, <1>2, <1>3, <1>4 DEF Tick, TypeOK
<1>6. BooksBalance' /\ WithinLimits'
  BY <1>4 DEF Tick, IInv, BooksAreSound, BooksBalance, WithinLimits
<1>7. Blanks' /\ MarkIsOwned' /\ HandsInv' /\ DownInv'
  BY DEF Tick, IInv, Blanks, MarkIsOwned, HandsInv, DownInv
<1> QED
  BY <1>5, <1>6, <1>7 DEF IInv, BooksAreSound

(* A crash empties the memory. *)
LEMMA CrashKeepsIInv ==
    ASSUME IInv, Crash
    PROVE  IInv'
<1>1. storedMeta \in [Packet -> [attempts : 0..AttemptCap, wait : Nat, age : 0..AgeCap]]
  BY DEF IInv, BooksAreSound, TypeOK
<1>2. Cardinality({}) <= MaxPackets /\ SizeOf({}) <= MaxBytes
  BY SizeOfEmpty, FS_EmptySet, OptionAssumption
<1>3. Loaded({}, storedMeta)
  BY DEF Crash
<1>4. /\ pending' \subseteq Packet /\ publishing' \subseteq pending'
      /\ attempts' \in [Packet -> 0..AttemptCap]
      /\ wait' \in [Packet -> Nat] /\ age' \in [Packet -> 0..AgeCap]
      /\ bytes' \in Nat /\ oldest' \in 0..NoAge
      /\ index' \in [Stream -> SUBSET Nat]
      /\ BooksBalance' /\ WithinLimits' /\ Blanks' /\ MarkIsOwned'
  BY <1>1, <1>2, <1>3, LoadedKeepsBooks
<1>5. TypeOK'
  BY <1>4 DEF Crash, IInv, BooksAreSound, TypeOK, store
<1>6. HandsInv' /\ DownInv'
  BY DEF Crash, Loaded, HandsInv, DownInv
<1> QED
  BY <1>4, <1>5, <1>6 DEF IInv, BooksAreSound

(* A restart loads a store within the limits. *)
LEMMA RestartKeepsIInv ==
    ASSUME IInv, Restart
    PROVE  IInv'
<1> DEFINE meta == IF HasRecords THEN storedMeta ELSE [p \in Packet |-> Fresh]
<1>1. meta \in [Packet -> [attempts : 0..AttemptCap, wait : Nat, age : 0..AgeCap]]
  BY FreshIsMeta DEF IInv, BooksAreSound, TypeOK
<1>2. /\ Cardinality(stored) <= MaxPackets /\ SizeOf(stored) <= MaxBytes
      /\ stored \in SUBSET Packet /\ Loaded(stored, meta)
  BY DEF Restart, IInv, BooksAreSound, TypeOK
<1>3. /\ pending' \subseteq Packet /\ publishing' \subseteq pending'
      /\ attempts' \in [Packet -> 0..AttemptCap]
      /\ wait' \in [Packet -> Nat] /\ age' \in [Packet -> 0..AgeCap]
      /\ bytes' \in Nat /\ oldest' \in 0..NoAge
      /\ index' \in [Stream -> SUBSET Nat]
      /\ BooksBalance' /\ WithinLimits' /\ Blanks' /\ MarkIsOwned'
  <2> HIDE DEF meta
  <2> QED BY <1>1, <1>2, LoadedKeepsBooks
<1>4. TypeOK'
  BY <1>3 DEF Restart, IInv, BooksAreSound, TypeOK, store, workers
<1>5. HandsInv' /\ DownInv'
  BY DEF Restart, IInv, HandsInv, DownInv, workers
<1> QED
  BY <1>3, <1>4, <1>5 DEF IInv, BooksAreSound

-----------------------------------------------------------------------------
(* Every step preserves the invariant. *)
LEMMA NextKeepsIInv == IInv /\ [Next]_vars => IInv'
<1> SUFFICES ASSUME IInv, [Next]_vars PROVE IInv'
  OBVIOUS
<1>1. ASSUME NEW p \in Packet, Put(p) \/ PutFails(p)
      PROVE  IInv'
  <2>1. {p} \in SUBSET Packet
    OBVIOUS
  <2>2. CASE Put(p)
    BY <2>1, <2>2, PutBatchKeepsIInv DEF Put
  <2>3. CASE PutFails(p)
    BY <2>1, <2>3, FailedPutKeepsIInv DEF PutFails
  <2> QED BY <1>1, <2>2, <2>3
<1>2. ASSUME NEW S \in Filter, PutBatch(S) \/ PutBatchFails(S)
      PROVE  IInv'
  <2>1. S \ pending \in SUBSET Packet
    BY PacketAssumption
  <2>2. CASE PutBatch(S)
    BY <2>1, <2>2, PutBatchKeepsIInv DEF PutBatch
  <2>3. CASE PutBatchFails(S)
    <3>1. PICK T \in SUBSET (S \ pending) : WriteStore(T)
      BY <2>3 DEF PutBatchFails
    <3> QED
      BY <2>1, <2>3, <3>1, FailedPutKeepsIInv DEF PutBatchFails
  <2> QED BY <1>2, <2>2, <2>3
<1>3. ASSUME NEW p \in Packet, Acknowledge(StreamOf(p), p.seq) \/ DiscardObserver(p.obs)
      PROVE  IInv'
  BY <1>3, DeleteKeepsIInv DEF Acknowledge, DiscardObserver, UpTo, OfObserver
<1>4. ASSUME NEW w \in Worker, Publish(w)
      PROVE  IInv'
  BY <1>4, BeginKeepsIInv, CheckAgeKeepsIInv, SelectDueKeepsIInv, PublishedKeepsIInv,
     ReleasePublishingKeepsIInv DEF Publish
<1>5. CASE UNCHANGED vars
  BY <1>5 DEF vars, memory, store, workers, IInv, BooksAreSound, TypeOK, BooksBalance,
     WithinLimits, Blanks, MarkIsOwned, HandsInv, DownInv
<1> QED
  BY <1>1, <1>2, <1>3, <1>4, <1>5, TickKeepsIInv, CrashKeepsIInv, RestartKeepsIInv DEF Next

(* The inductive invariant holds in every state. *)
THEOREM Invariance == Spec => []IInv
  BY InitIInv, NextKeepsIInv, PTL DEF Spec

(* The totals, the index and the oldest age that Put, Acknowledge, rejection *)
(* and the scans for limits read are those of the pending packets, and the   *)
(* limits hold, whatever call failed before (outbox.go:281-330).             *)
THEOREM Books == Spec => []BooksAreSound
<1>1. IInv => BooksAreSound
  BY DEF IInv
<1> QED
  BY <1>1, Invariance, PTL

(* A publishing mark is always in the hands of a call that has still to     *)
(* come to it, so no mark keeps a packet from being retried for ever.       *)
THEOREM MarksOwned == Spec => []MarkIsOwned
<1>1. IInv => MarkIsOwned
  BY DEF IInv
<1> QED
  BY <1>1, Invariance, PTL

-----------------------------------------------------------------------------
(* What a crash costs.  A failing call of the store has no effect (~Torn):  *)
(* otherwise a deletion that fails may have removed a packet from the store *)
(* that is still owed in memory.                                            *)

(* No step lets memory owe a packet that is not on disk. *)
LEMMA StoredStep ==
    ASSUME ~Torn, IInv, PendingIsStored, [Next]_vars
    PROVE  PendingIsStored'
<1> SUFFICES ASSUME up', Durable PROVE pending' \subseteq stored'
  BY DEF PendingIsStored
<1>0. up => pending \subseteq stored
  BY DEF PendingIsStored
<1>1. ASSUME NEW p \in Packet, Put(p) \/ PutFails(p)
      PROVE  pending' \subseteq stored'
  BY <1>0, <1>1 DEF Put, PutFails, WriteStore, AddPending, memory
<1>2. ASSUME NEW S \in Filter, PutBatch(S) \/ PutBatchFails(S)
      PROVE  pending' \subseteq stored'
  BY <1>0, <1>2 DEF PutBatch, PutBatchFails, WriteStore, AddPending, memory
<1>3. ASSUME NEW ids \in SUBSET pending, up, Delete(ids) \/ DeleteFails(ids)
      PROVE  pending' \subseteq stored'
  <2>1. CASE Delete(ids)
    BY <1>0, <1>3, <2>1 DEF Delete, RemovePending
  <2>2. CASE DeleteFails(ids)
    <3>1. PICK T \in SUBSET ids, extra \in SUBSET ids :
              /\ Cardinality(extra) <= (IF Torn THEN 1 ELSE 0)
              /\ RemovePending(T) /\ stored' = stored \ (T \cup extra)
      BY <2>2 DEF DeleteFails
    <3>2. extra = {}
      <4>1. IsFiniteSet(extra)
        BY PacketAssumption, FS_Subset DEF IInv, BooksAreSound, TypeOK
      <4>2. Cardinality(extra) = 0
        BY <3>1, <4>1, FS_CardinalityType
      <4> QED
        BY <4>1, <4>2, FS_EmptySet
    <3> QED
      BY <1>0, <1>3, <3>1, <3>2 DEF RemovePending
  <2> QED BY <1>3, <2>1, <2>2
<1>4. ASSUME NEW p \in Packet, Acknowledge(StreamOf(p), p.seq) \/ DiscardObserver(p.obs)
      PROVE  pending' \subseteq stored'
  BY <1>3, <1>4 DEF Acknowledge, DiscardObserver, UpTo, OfObserver
<1>5. ASSUME NEW w \in Worker, Publish(w)
      PROVE  pending' \subseteq stored'
  <2>1. up' = up /\ pending' = pending /\ stored \subseteq stored'
    BY <1>5 DEF Publish, PublishDue, PublishNow, Begin, CheckAge, SelectDue, ReleasePublishing,
       Published, memory, store
  <2> QED BY <1>0, <2>1
<1>6. CASE Tick
  BY <1>0, <1>6 DEF Tick
<1>7. CASE Crash
  BY <1>7 DEF Crash
<1>8. CASE Restart
  BY <1>8 DEF Restart, Loaded, store
<1>9. CASE UNCHANGED vars
  BY <1>0, <1>9 DEF vars, memory, store
<1> QED
  BY <1>1, <1>2, <1>4, <1>5, <1>6, <1>7, <1>8, <1>9 DEF Next

(* What memory owes is on disk at any moment: a crash forgets no packet.    *)
(* This needs no metadata in the store.                                     *)
THEOREM OwedIsStored ==
    ASSUME ~Torn
    PROVE  Spec => []PendingIsStored
<1>1. Init => PendingIsStored
  BY DEF Init, PendingIsStored
<1>2. IInv /\ PendingIsStored /\ [Next]_vars => PendingIsStored'
  BY StoredStep
<1> QED
  BY <1>1, <1>2, Invariance, PTL DEF Spec

(* No step lets the attempts on disk and in memory differ. *)
LEMMA AttemptsStep ==
    ASSUME ~Torn, HasRecords, IInv, AttemptsPersisted, [Next]_vars
    PROVE  AttemptsPersisted'
<1> SUFFICES ASSUME up', NEW q \in pending' \cap stored'
             PROVE  storedMeta'[q].attempts = attempts'[q]
  BY DEF AttemptsPersisted
<1>0. /\ pending \subseteq Packet /\ stored \subseteq Packet
      /\ attempts \in [Packet -> 0..AttemptCap]
      /\ storedMeta \in [Packet -> [attempts : 0..AttemptCap, wait : Nat, age : 0..AgeCap]]
      /\ up => \A p \in pending \cap stored : storedMeta[p].attempts = attempts[p]
      /\ \A p \in Packet \ pending : attempts[p] = 0
      /\ Durable
  BY StoreAssumption DEF IInv, BooksAreSound, TypeOK, AttemptsPersisted, Blanks, HasRecords, Durable
<1>1. ASSUME NEW new \in SUBSET Packet, new \cap pending = {}, up, WriteStore(new),
             attempts' = attempts, pending' = pending \cup new \/ pending' = pending
      PROVE  storedMeta'[q].attempts = attempts'[q]
  <2>1. q \in Packet
    BY <1>0, <1>1
  <2>2. CASE q \in new
    BY <1>0, <1>1, <2>1, <2>2 DEF WriteStore, Fresh
  <2>3. CASE q \notin new
    BY <1>0, <1>1, <2>1, <2>3 DEF WriteStore
  <2> QED BY <2>2, <2>3
<1>2. ASSUME NEW p \in Packet, Put(p) \/ PutFails(p)
      PROVE  storedMeta'[q].attempts = attempts'[q]
  BY <1>1, <1>2 DEF Put, PutFails, AddPending, memory
<1>3. ASSUME NEW S \in Filter, PutBatch(S) \/ PutBatchFails(S)
      PROVE  storedMeta'[q].attempts = attempts'[q]
  <2>1. S \ pending \in SUBSET Packet
    BY PacketAssumption
  <2>2. CASE PutBatch(S)
    BY <1>1, <2>1, <2>2 DEF PutBatch, AddPending
  <2>3. CASE PutBatchFails(S)
    <3>1. PICK T \in SUBSET (S \ pending) : WriteStore(T)
      BY <2>3 DEF PutBatchFails
    <3>2. T \in SUBSET Packet /\ T \cap pending = {} /\ up /\ attempts' = attempts /\ pending' = pending
      BY <2>1, <2>3 DEF PutBatchFails, memory
    <3> QED
      BY <1>1, <3>1, <3>2
  <2> QED BY <1>3, <2>2, <2>3
<1>4. ASSUME NEW ids \in SUBSET pending, up, Delete(ids) \/ DeleteFails(ids)
      PROVE  storedMeta'[q].attempts = attempts'[q]
  <2>1. PICK gone \in SUBSET ids :
            RemovePending(gone) /\ stored' \subseteq stored /\ storedMeta' = storedMeta
    BY <1>4 DEF Delete, DeleteFails
  <2> QED
    BY <1>0, <1>4, <2>1 DEF RemovePending
<1>5. ASSUME NEW p \in Packet, Acknowledge(StreamOf(p), p.seq) \/ DiscardObserver(p.obs)
      PROVE  storedMeta'[q].attempts = attempts'[q]
  BY <1>4, <1>5 DEF Acknowledge, DiscardObserver, UpTo, OfObserver
<1>6. ASSUME NEW w \in Worker, Publish(w)
      PROVE  storedMeta'[q].attempts = attempts'[q]
  <2>1. CASE \E f \in Filter : PublishDue(w, f) \/ PublishNow(w, f)
    BY <1>0, <2>1 DEF PublishDue, PublishNow, Begin, memory, store
  <2>2. CASE CheckAge(w) \/ SelectDue(w) \/ ReleasePublishing(w)
    BY <1>0, <2>2 DEF CheckAge, SelectDue, ReleasePublishing, memory, store
  <2>3. ASSUME NEW p \in queue[w], NEW accepted \in BOOLEAN, NEW persists \in BOOLEAN,
               Published(w, p, accepted, persists)
        PROVE  storedMeta'[q].attempts = attempts'[q]
    <3> DEFINE n == IF attempts[p] < AttemptCap THEN attempts[p] + 1 ELSE AttemptCap
               left == Left(IF accepted THEN AckRetry ELSE Backoff(n), w)
    <3>1. up' = up /\ pending' = pending
      BY <2>3 DEF Published
    <3>2. CASE p \in pending /\ persists
      <4>1. /\ attempts' = [attempts EXCEPT ![p] = n] /\ stored' = stored \cup {p}
            /\ storedMeta' = [storedMeta EXCEPT ![p] =
                   [attempts |-> n, wait |-> left, age |-> age[p]]]
        BY <2>3, <3>2 DEF Published, UndoesUpdate
      <4> HIDE DEF n, left
      <4> QED
        BY <1>0, <3>1, <4>1
    <3>3. CASE ~(p \in pending /\ persists)
      <4>1. UNCHANGED <<attempts, stored, storedMeta>>
        BY <2>3, <3>3 DEF Published, UndoesUpdate, store
      <4> QED
        BY <1>0, <3>1, <4>1
    <3> QED BY <3>2, <3>3
  <2> QED
    BY <1>6, <2>1, <2>2, <2>3 DEF Publish
<1>7. CASE Tick
  BY <1>0, <1>7 DEF Tick
<1>8. CASE Crash
  BY <1>8 DEF Crash
<1>9. CASE Restart
  BY <1>0, <1>9 DEF Restart, Loaded, store
<1>10. CASE UNCHANGED vars
  BY <1>0, <1>10 DEF vars, memory, store
<1> QED
  BY <1>2, <1>3, <1>5, <1>6, <1>7, <1>8, <1>9, <1>10 DEF Next

(* With a store of records, a crash costs neither a packet nor the count of *)
(* its attempts, which drives the backoff.                                  *)
THEOREM NothingForgotten ==
    ASSUME ~Torn, HasRecords
    PROVE  Spec => []NothingIsForgotten
<1>1. Init => AttemptsPersisted
  BY DEF Init, AttemptsPersisted
<1>2. IInv /\ AttemptsPersisted /\ [Next]_vars => AttemptsPersisted'
  BY AttemptsStep
<1>3. PendingIsStored /\ AttemptsPersisted => NothingIsForgotten
  BY DEF NothingIsForgotten
<1> QED
  BY <1>1, <1>2, <1>3, Invariance, OwedIsStored, PTL DEF Spec

-----------------------------------------------------------------------------
(* The refinement of the ledger. *)
Owed == IF up THEN pending ELSE stored

(* Removing the first packets of one stream is an acknowledgement of the    *)
(* ledger, up to the greatest sequence removed.                             *)
LEMMA RemovalOfPrefix ==
    ASSUME IInv, up, up', NEW p \in Packet, NEW T \in SUBSET UpTo(StreamOf(p), p.seq), T # {},
           \A q \in T, r \in UpTo(StreamOf(p), p.seq) :
               StreamOf(q) = StreamOf(r) /\ r.seq < q.seq => r \in T,
           pending' = pending \ T
    PROVE  Ledger!Acknowledge(p)
<1> DEFINE N == {q.seq : q \in T}
           s == StreamOf(p)
<1>0. /\ pending \subseteq Packet
      /\ \A q \in T : q \in Packet /\ q \in pending /\ StreamOf(q) = s /\ q.seq <= p.seq /\ q.seq \in Nat
  BY PacketAssumption DEF IInv, BooksAreSound, TypeOK, UpTo
<1>1. PICK m \in T : \A q \in T : q.seq <= m.seq
  <2>1. IsFiniteSet(N)
    <3>1. N \subseteq 0..p.seq
      BY <1>0
    <3>2. IsFiniteSet(0..p.seq)
      BY PacketAssumption, FS_Interval
    <3> QED BY <3>1, <3>2, FS_Subset
  <2>2. N \subseteq Int /\ N # {}
    BY <1>0
  <2>3. Max(N) \in N /\ \A x \in N : x <= Max(N)
    <3> HIDE DEF N
    <3> QED BY <2>1, <2>2, MaxOfFinite
  <2> QED BY <2>3
<1>2. \A q \in pending : (StreamOf(q) = s => q.seq > m.seq) <=> q \notin T
  <2> SUFFICES ASSUME NEW q \in pending
               PROVE  (StreamOf(q) = s => q.seq > m.seq) <=> q \notin T
    OBVIOUS
  <2>1. q \in Packet /\ q.seq \in Nat /\ m.seq \in Nat /\ p.seq \in Nat
    BY <1>0, <1>1, PacketAssumption
  <2>2. CASE q \in T
    <3>1. StreamOf(q) = s /\ q.seq <= m.seq
      BY <1>0, <1>1, <2>2
    <3> QED BY ONLY <2>1, <2>2, <3>1
  <2>3. CASE q \notin T /\ StreamOf(q) = s /\ ~(q.seq > m.seq)
    <3>1. q \in UpTo(s, p.seq)
      BY <1>0, <1>1, <2>1, <2>3 DEF UpTo
    <3>2. StreamOf(m) = StreamOf(q) /\ (q.seq < m.seq \/ q.seq = m.seq)
      BY <1>0, <1>1, <2>1, <2>3
    <3>3. CASE q.seq < m.seq
      BY <1>1, <2>3, <3>1, <3>2, <3>3
    <3>4. CASE q.seq = m.seq
      BY <1>0, <1>1, <2>1, <2>3, <3>2, <3>4, PacketAssumption
    <3> QED BY <3>2, <3>3, <3>4
  <2> QED BY <2>2, <2>3
<1>3. pending' = {q \in pending : StreamOf(q) = s => q.seq > m.seq}
  BY <1>2
<1>4. m.seq \in {q.seq : q \in pending} /\ m.seq <= p.seq
  BY <1>0, <1>1
<1> QED
  BY <1>3, <1>4 DEF Ledger!Acknowledge

(* Removing first packets of an observer's streams is a Discard. *)
LEMMA RemovalOfObserver ==
    ASSUME up, up', NEW p \in Packet, NEW T \in SUBSET OfObserver(p.obs),
           \A q \in T, r \in OfObserver(p.obs) :
               StreamOf(q) = StreamOf(r) /\ r.seq < q.seq => r \in T,
           pending' = pending \ T
    PROVE  Ledger!Discard(p.obs)
<1>1. T \in SUBSET {q \in Owed : q.obs = p.obs} /\ Owed' = Owed \ T
  BY DEF Owed, OfObserver
<1>2. \A q \in T, r \in Owed : StreamOf(q) = StreamOf(r) /\ r.seq < q.seq => r \in T
  BY DEF Owed, OfObserver, StreamOf
<1> QED
  BY <1>1, <1>2 DEF Ledger!Discard, Owed

(* A deletion removes, of every stream, the first packets. *)
LEMMA DeletionIsPrefix ==
    ASSUME NEW ids, Delete(ids) \/ DeleteFails(ids)
    PROVE  \E T \in SUBSET ids :
              /\ pending' = pending \ T /\ up' = up
              /\ \A q \in T, r \in ids : StreamOf(q) = StreamOf(r) /\ r.seq < q.seq => r \in T
<1>1. CASE Delete(ids)
  BY <1>1 DEF Delete, RemovePending
<1>2. CASE DeleteFails(ids)
  <2>1. PICK T \in SUBSET ids : StopsAt(T, ids) /\ RemovePending(T)
    BY <1>2 DEF DeleteFails
  <2> QED
    BY <1>2, <2>1 DEF DeleteFails, StopsAt, RemovePending
<1> QED
  BY <1>1, <1>2

(* Every step is a step of the ledger or changes nothing it sees: a crash    *)
(* may only add packets that a failed PutBatch had written.                  *)
LEMMA LedgerStep ==
    ASSUME ~Torn, Durable, IInv, PendingIsStored, [Next]_vars
    PROVE  [Ledger!Next]_Owed
<1> SUFFICES ASSUME Owed' # Owed PROVE Ledger!Next
  OBVIOUS
<1>0. pending \subseteq Packet /\ stored \subseteq Packet
  BY DEF IInv, BooksAreSound, TypeOK
<1>1. ASSUME NEW new \in SUBSET Packet, Owed' = Owed \cup new
      PROVE  Ledger!Next
  <2>1. new # {}
    BY <1>1
  <2> QED
    BY <1>1, <2>1 DEF Ledger!Next, Ledger!Owe, Owed
<1>2. ASSUME NEW p \in Packet, Put(p) \/ PutFails(p)
      PROVE  Ledger!Next
  BY <1>1, <1>2 DEF Put, PutFails, AddPending, memory, Owed
<1>3. ASSUME NEW S \in Filter, PutBatch(S) \/ PutBatchFails(S)
      PROVE  Ledger!Next
  <2>1. S \ pending \in SUBSET Packet
    BY PacketAssumption
  <2> QED
    BY <1>1, <1>3, <2>1 DEF PutBatch, PutBatchFails, AddPending, memory, Owed
<1>4. ASSUME NEW p \in Packet, Acknowledge(StreamOf(p), p.seq)
      PROVE  Ledger!Next
  <2>1. PICK T \in SUBSET UpTo(StreamOf(p), p.seq) :
            /\ pending' = pending \ T /\ up' = up
            /\ \A q \in T, r \in UpTo(StreamOf(p), p.seq) :
                   StreamOf(q) = StreamOf(r) /\ r.seq < q.seq => r \in T
    BY <1>4, DeletionIsPrefix DEF Acknowledge
  <2>2. up /\ up' /\ T # {}
    BY <1>4, <2>1 DEF Acknowledge, Owed
  <2> QED
    BY <2>1, <2>2, RemovalOfPrefix DEF Ledger!Next
<1>5. ASSUME NEW p \in Packet, DiscardObserver(p.obs)
      PROVE  Ledger!Next
  <2>1. PICK T \in SUBSET OfObserver(p.obs) :
            /\ pending' = pending \ T /\ up' = up
            /\ \A q \in T, r \in OfObserver(p.obs) :
                   StreamOf(q) = StreamOf(r) /\ r.seq < q.seq => r \in T
    BY <1>5, DeletionIsPrefix DEF DiscardObserver
  <2>2. up /\ up'
    BY <1>5, <2>1 DEF DiscardObserver
  <2> QED
    BY <2>1, <2>2, RemovalOfObserver DEF Ledger!Next
<1>6. ASSUME NEW w \in Worker, Publish(w)
      PROVE  Ledger!Next
  <2>1. up' = up /\ pending' = pending
    BY <1>6 DEF Publish, PublishDue, PublishNow, Begin, CheckAge, SelectDue, ReleasePublishing,
       Published, memory, store
  <2>2. up
    <3>1. up \/ pc[w] = "idle"
      BY DEF IInv, DownInv
    <3>2. up \/ pc[w] # "idle"
      BY <1>6 DEF Publish, PublishDue, PublishNow, CheckAge, SelectDue, ReleasePublishing,
         Published, Calling
    <3> QED BY <3>1, <3>2
  <2> QED
    BY <2>1, <2>2 DEF Owed
<1>7. CASE Tick
  BY <1>7 DEF Tick, Owed
<1>8. CASE Crash
  <2>1. Owed = pending /\ Owed' = stored /\ pending \subseteq stored
    BY <1>8 DEF Crash, Owed, PendingIsStored, store
  <2>2. Owed' = Owed \cup (stored \ pending)
    BY <2>1
  <2> QED
    BY <1>0, <1>1, <2>2
<1>9. CASE Restart
  BY <1>9 DEF Restart, Loaded, Owed
<1>10. CASE UNCHANGED vars
  BY <1>10 DEF vars, memory, store, Owed
<1> QED
  BY <1>2, <1>3, <1>4, <1>5, <1>6, <1>7, <1>8, <1>9, <1>10 DEF Next

(* The outbox is the ledger of what is owed (outbox.go:106): in memory while *)
(* the process runs and on disk while it does not.                           *)
THEOREM LedgerRefinement ==
    ASSUME ~Torn, Durable
    PROVE  Spec => ImplementsLedger
<1>1. Init => Ledger!Init
  BY DEF Init, Ledger!Init
<1>2. IInv /\ PendingIsStored /\ [Next]_vars => [Ledger!Next]_Owed
  BY LedgerStep
<1> QED
  BY <1>1, <1>2, Invariance, OwedIsStored, PTL DEF Spec, ImplementsLedger, Ledger!Spec, Owed
=============================================================================
