------------------------------- MODULE Outbox -------------------------------
(***************************************************************************)
(* skillsync/outbox.go over an OutboxStore (skillsync/file_outbox.go): the *)
(* packets a server still owes its clients, kept until the client's ACK.   *)
(*                                                                         *)
(* Put, PutBatch, Acknowledge and DiscardObserver run under the mutex and  *)
(* are one action each.  PublishDue takes the mutex to check the age, to   *)
(* select, after every call of the publisher and to release, and calls the *)
(* publisher without it: its steps interleave with everything else.        *)
(*                                                                         *)
(* Time is relative: "wait" is what is left until NextAttempt and "age" is *)
(* the time since CreatedAt, both in ticks, so the state space is finite.  *)
(***************************************************************************)
EXTENDS Integers, FiniteSets, FiniteSetsExt

CONSTANTS
    Packet,        \* records [obs, topic, key, epoch, seq]; observers are numbers
    Size,          \* [Packet -> Nat], the encoded size
    Worker,        \* goroutines that publish
    Filter,        \* the sets of packets a call of PublishDue may be asked for
    MaxPackets, MaxBytes, MaxPerStream, MaxAge, MaxPublish,
    AckRetry, FailureRetry, MaxRetry,
    Interfaces,    \* of the store: subset of {"store", "records", "batchPut", "batchDelete"}
    Torn,          \* TRUE: a store call that fails may have taken effect
    AttemptCap,    \* bound: attempts saturate where Backoff no longer grows
    AgeCap         \* bound: ages saturate; at most MaxAge, nothing becomes too old

ASSUME StoreAssumption ==
    /\ Interfaces \subseteq {"store", "records", "batchPut", "batchDelete"}
    /\ Interfaces # {} => "store" \in Interfaces
    /\ Torn \in BOOLEAN

(* Which stream of which observer a packet belongs to (streamID). *)
StreamOf(p) == <<p.obs, p.topic, p.key, p.epoch>>

(* Packets are what packetID tells apart. *)
ASSUME PacketAssumption ==
    /\ IsFiniteSet(Packet) /\ Filter \subseteq SUBSET Packet
    /\ \A p \in Packet : p.seq \in Nat
    /\ \A p, q \in Packet : StreamOf(p) = StreamOf(q) /\ p.seq = q.seq => p = q
    /\ Size \in [Packet -> Nat]

ASSUME OptionAssumption ==
    /\ MaxPackets \in Nat /\ MaxBytes \in Nat /\ MaxPerStream \in Nat
    /\ MaxPublish \in Nat \ {0}
    /\ AckRetry \in Nat /\ FailureRetry \in Nat /\ MaxRetry \in Nat
    /\ AttemptCap \in Nat \ {0} /\ AgeCap \in Nat

VARIABLES
    up,            \* the process runs
    pending,       \* the keys of Outbox.pending
    attempts, wait, age,   \* of each packet in pending (0 elsewhere)
    publishing,    \* the packets of pending whose publishing flag is set
    bytes,         \* Outbox.pendingBytes
    index,         \* Outbox.streamPending: stream -> sequences
    oldest,        \* age of Outbox.oldestCreatedAt, NoAge when it is zero
    stored,        \* the packets in the store
    storedMeta,    \* and the retry metadata stored with them
    pc, queue, batch, elapsed  \* of each worker's PublishDue

memory == <<pending, attempts, wait, age, publishing, bytes, index, oldest>>
store == <<stored, storedMeta>>
workers == <<pc, queue, batch, elapsed>>
vars == <<up, memory, store, workers>>

Durable == "store" \in Interfaces
HasRecords == "records" \in Interfaces

Stream == {StreamOf(p) : p \in Packet}
NoAge == AgeCap + 1
Fresh == [attempts |-> 0, wait |-> 0, age |-> 0]
SizeOf(S) == Cardinality(UNION {{p} \X (1..Size[p]) : p \in S})   \* the bytes of S
OldestOf(S, ages) == IF S = {} THEN NoAge ELSE Max({ages[p] : p \in S})

TypeOK ==
    /\ up \in BOOLEAN
    /\ pending \subseteq Packet /\ publishing \subseteq pending
    /\ attempts \in [Packet -> 0..AttemptCap]
    /\ wait \in [Packet -> Nat] /\ age \in [Packet -> 0..AgeCap]
    /\ bytes \in Nat /\ oldest \in 0..NoAge
    /\ index \in [Stream -> SUBSET Nat]
    /\ stored \subseteq Packet
    /\ storedMeta \in [Packet -> [attempts : 0..AttemptCap, wait : Nat, age : 0..AgeCap]]
    /\ pc \in [Worker -> {"idle", "asked", "checked", "publishing", "release"}]
    /\ queue \in [Worker -> SUBSET Packet]
    /\ batch \in [Worker -> SUBSET Packet]
    /\ elapsed \in [Worker -> Nat]

Blank == [p \in Packet |-> 0]

(* The memory of a new Outbox that loaded the set S with metadata m. *)
Loaded(S, m) ==
    /\ pending' = S /\ publishing' = {}
    /\ attempts' = [p \in Packet |-> IF p \in S THEN m[p].attempts ELSE 0]
    /\ wait' = [p \in Packet |-> IF p \in S THEN m[p].wait ELSE 0]
    /\ age' = [p \in Packet |-> IF p \in S THEN m[p].age ELSE 0]
    /\ bytes' = SizeOf(S)
    /\ index' = [s \in Stream |-> {p.seq : p \in {q \in S : StreamOf(q) = s}}]
    /\ oldest' = OldestOf(S, age')

Init ==
    /\ up = TRUE
    /\ pending = {} /\ publishing = {} /\ bytes = 0 /\ oldest = NoAge
    /\ attempts = Blank /\ wait = Blank /\ age = Blank
    /\ index = [s \in Stream |-> {}]
    /\ stored = {} /\ storedMeta = [p \in Packet |-> Fresh]
    /\ pc = [w \in Worker |-> "idle"]
    /\ queue = [w \in Worker |-> {}]
    /\ batch = [w \in Worker |-> {}]
    /\ elapsed = [w \in Worker |-> 0]

-----------------------------------------------------------------------------
(* Limits: Outbox.capacityError and the totals of PutBatch. *)

TooOld == oldest # NoAge /\ oldest > MaxAge

(* Seeded bug of Fits: the totals before the addition. *)
FitsBefore(new) == Cardinality(pending) <= MaxPackets /\ bytes <= MaxBytes

Fits(new) ==
    /\ Cardinality(pending) + Cardinality(new) <= MaxPackets
    /\ bytes + SizeOf(new) <= MaxBytes
    /\ \A s \in {StreamOf(p) : p \in new} :
           Cardinality(index[s]) + Cardinality({p \in new : StreamOf(p) = s}) <= MaxPerStream

Admits(new) == Fits(new) /\ ~TooOld

(* addPendingLocked, for every packet of new. *)
AddPending(new) ==
    /\ pending' = pending \cup new
    /\ bytes' = bytes + SizeOf(new)
    /\ index' = [s \in Stream |-> index[s] \cup
                     {p.seq : p \in {q \in new : StreamOf(q) = s}}]
    /\ oldest' = IF oldest = NoAge /\ new # {} THEN 0 ELSE oldest
    /\ UNCHANGED <<attempts, wait, age, publishing>>

(* The oldest creation is looked for again only when it left. *)
OldestWithout(gone) ==
    IF \E p \in gone : age[p] = oldest THEN OldestOf(pending \ gone, age) ELSE oldest

(* removePendingLocked, for every packet of gone. *)
RemovePending(gone) ==
    /\ pending' = pending \ gone
    /\ publishing' = publishing \ gone
    /\ attempts' = [p \in Packet |-> IF p \in gone THEN 0 ELSE attempts[p]]
    /\ wait' = [p \in Packet |-> IF p \in gone THEN 0 ELSE wait[p]]
    /\ age' = [p \in Packet |-> IF p \in gone THEN 0 ELSE age[p]]
    /\ bytes' = bytes - SizeOf(gone)
    /\ index' = [s \in Stream |-> index[s] \
                     {p.seq : p \in {q \in gone : StreamOf(q) = s}}]
    /\ oldest' = OldestWithout(gone)

WriteOneOf(new) ==                      \* seeded bug of WriteStore: one packet of a batch
    /\ stored' = IF Durable THEN stored \cup {CHOOSE p \in new : TRUE} ELSE stored
    /\ UNCHANGED storedMeta

WriteStore(new) ==
    /\ stored' = IF Durable THEN stored \cup new ELSE stored
    /\ storedMeta' = [p \in Packet |-> IF Durable /\ p \in new THEN Fresh ELSE storedMeta[p]]

StopsAnywhere(T, all) == T = all => Torn   \* seeded bug of StopsAt: in map order

(* A sequence of single writes or deletes stops at the first failure: what  *)
(* came before took effect, stream by stream in sequence order.             *)
StopsAt(T, all) ==
    /\ \A p \in T, q \in all : StreamOf(p) = StreamOf(q) /\ q.seq < p.seq => q \in T
    /\ T = all => Torn

-----------------------------------------------------------------------------
(* The operations under the mutex. *)

Put(p) ==
    /\ up /\ p \notin pending /\ Admits({p})
    /\ WriteStore({p}) /\ AddPending({p})
    /\ UNCHANGED <<up, workers>>

PutFails(p) ==
    /\ up /\ Durable /\ Torn /\ p \notin pending /\ Admits({p})
    /\ WriteStore({p})
    /\ UNCHANGED <<up, memory, workers>>

PutBatch(S) ==
    LET new == S \ pending IN
    /\ up /\ new # {} /\ Admits(new)
    /\ WriteStore(new) /\ AddPending(new)
    /\ UNCHANGED <<up, workers>>

BatchIsSplit == Durable /\ "batchPut" \notin Interfaces

PutBatchFails(S) ==
    LET new == S \ pending IN
    /\ up /\ BatchIsSplit /\ Admits(new)
    /\ \E T \in SUBSET new \ {{}} : StopsAt(T, new) /\ WriteStore(T)
    /\ UNCHANGED <<up, memory, workers>>

Delete(ids) ==
    /\ ids # {}
    /\ RemovePending(ids)
    /\ stored' = stored \ ids
    /\ UNCHANGED <<up, storedMeta, workers>>

(* deletePendingLocked deletes one by one and stops at an error, after which *)
(* the store may have lost one packet more than memory.                      *)
DeleteFails(ids) ==
    /\ Durable /\ "batchDelete" \notin Interfaces
    /\ \E T \in SUBSET ids, extra \in SUBSET ids :
          /\ T # ids /\ StopsAt(T, ids)
          /\ extra \cap T = {} /\ Cardinality(extra) <= (IF Torn THEN 1 ELSE 0)
          /\ T \cup extra # {} /\ StopsAt(T \cup extra, ids)
          /\ RemovePending(T)
          /\ stored' = stored \ (T \cup extra)
    /\ UNCHANGED <<up, storedMeta, workers>>

UpTo(s, n) == {p \in pending : StreamOf(p) = s /\ p.seq <= n}
OfObserver(o) == {p \in pending : p.obs = o}

Acknowledge(s, n) == up /\ (Delete(UpTo(s, n)) \/ DeleteFails(UpTo(s, n)))
DiscardObserver(o) == up /\ (Delete(OfObserver(o)) \/ DeleteFails(OfObserver(o)))

-----------------------------------------------------------------------------
(* PublishDue and PublishNow. *)

TopicPriority(topic) ==
    CASE topic = "manifest" -> 0 [] topic = "state" -> 1 [] OTHER -> 2

(* packetLess: by observer, topic priority, key, epoch and sequence. *)
PacketLess(p, q) ==
    LET rank(r) == <<r.obs, TopicPriority(r.topic), r.key, r.epoch, r.seq>>
    IN \E i \in 1..5 : /\ rank(p)[i] < rank(q)[i]
                       /\ \A j \in 1..(i - 1) : rank(p)[j] = rank(q)[j]

(* The delay after the n-th failed attempt, doubled until it is MaxRetry. *)
Backoff(n) == Min({FailureRetry * 2^(n - 1), MaxRetry})

(* Seeded bug of Due: it gives a packet up. *)
DueWhileFresh(f) ==
    {p \in pending \cap f : p \notin publishing /\ wait[p] = 0 /\ attempts[p] < AttemptCap}

Due(f) == {p \in pending \cap f : p \notin publishing /\ wait[p] = 0}

(* The MaxPublish first of the due packets. *)
Selected(f) == {p \in Due(f) : Cardinality({q \in Due(f) : PacketLess(q, p)}) < MaxPublish}

Begin(w, where, f) ==
    /\ pc' = [pc EXCEPT ![w] = where]
    /\ batch' = [batch EXCEPT ![w] = f]
    /\ elapsed' = [elapsed EXCEPT ![w] = 0]
    /\ UNCHANGED <<up, store, queue>>

PublishDue(w, f) ==                 \* the age check passed
    /\ up /\ pc[w] = "idle" /\ ~TooOld
    /\ Begin(w, "checked", f)
    /\ UNCHANGED memory

PublishNow(w, f) ==                 \* forgets every NextAttempt of f first
    /\ up /\ pc[w] = "idle"
    /\ wait' = [p \in Packet |-> IF p \in f THEN 0 ELSE wait[p]]
    /\ Begin(w, "asked", f)
    /\ UNCHANGED <<pending, attempts, age, publishing, bytes, index, oldest>>

CheckAge(w) ==
    /\ pc[w] = "asked"
    /\ pc' = [pc EXCEPT ![w] = IF TooOld THEN "idle" ELSE "checked"]
    /\ batch' = [batch EXCEPT ![w] = IF TooOld THEN {} ELSE @]
    /\ UNCHANGED <<up, memory, store, queue, elapsed>>

MarkEverything(f) == pending \cap f      \* seeded bug of Marked: more than are handled
Marked(f) == Selected(f)

SelectDue(w) ==
    /\ pc[w] = "checked"
    /\ LET chosen == Selected(batch[w]) IN
       /\ queue' = [queue EXCEPT ![w] = chosen]
       /\ batch' = [batch EXCEPT ![w] = chosen]
       /\ publishing' = publishing \cup Marked(batch[w])
       /\ pc' = [pc EXCEPT ![w] = IF chosen = {} THEN "idle" ELSE "publishing"]
    /\ UNCHANGED <<up, pending, attempts, wait, age, bytes, index, oldest, store, elapsed>>

(* The packets of a call are handed to the publisher in order. *)
Calling(w, p) ==
    /\ pc[w] = "publishing" /\ p \in queue[w]
    /\ \A q \in queue[w] \ {p} : PacketLess(p, q)

Left(delay, w) == IF delay > elapsed[w] THEN delay - elapsed[w] ELSE 0

UndoesUpdate(persists) == HasRecords /\ ~persists

(* The publisher returned; the entry, if it is still pending, is updated    *)
(* and its record persisted.  If that fails the update is undone.           *)
Published(w, p, accepted, persists) ==
    LET n == IF attempts[p] < AttemptCap THEN attempts[p] + 1 ELSE AttemptCap
        left == Left(IF accepted THEN AckRetry ELSE Backoff(n), w)
    IN
    /\ Calling(w, p)
    /\ queue' = [queue EXCEPT ![w] = @ \ {p}]
    /\ pc' = [pc EXCEPT ![w] = IF queue[w] = {p} THEN "release" ELSE @]
    /\ publishing' = publishing \ {p}
    /\ IF p \in pending /\ ~UndoesUpdate(persists)
       THEN /\ attempts' = [attempts EXCEPT ![p] = n]
            /\ wait' = [wait EXCEPT ![p] = left]
       ELSE UNCHANGED <<attempts, wait>>
    /\ IF p \in pending /\ HasRecords /\ (persists \/ Torn)
       THEN /\ stored' = stored \cup {p}
            /\ storedMeta' = [storedMeta EXCEPT ![p] =
                   [attempts |-> n, wait |-> left, age |-> age[p]]]
       ELSE UNCHANGED store
    /\ UNCHANGED <<up, pending, age, bytes, index, oldest, batch, elapsed>>

(* releasePublishing clears the flag of every packet this call selected,    *)
(* whoever holds it by now.                                                 *)
ReleasePublishing(w) ==
    /\ pc[w] = "release"
    /\ publishing' = publishing \ batch[w]
    /\ pc' = [pc EXCEPT ![w] = "idle"]
    /\ batch' = [batch EXCEPT ![w] = {}]
    /\ elapsed' = [elapsed EXCEPT ![w] = 0]
    /\ UNCHANGED <<up, pending, attempts, wait, age, bytes, index, oldest, store, queue>>

-----------------------------------------------------------------------------
(* Time, and a crash of the process. *)

Older(a) == IF a < AgeCap THEN a + 1 ELSE a
Nearer(t) == IF t > 0 THEN t - 1 ELSE 0
MaxDelay == Max({AckRetry, MaxRetry})

(* PublishDue reads the clock once, at its start: what passes until an      *)
(* attempt is noted is taken off the delay (Left).  A tick between the age  *)
(* check and the selection counts as one before the call.                   *)
Tick ==
    /\ wait' = [p \in Packet |-> Nearer(wait[p])]
    /\ age' = [p \in Packet |-> IF p \in pending THEN Older(age[p]) ELSE 0]
    /\ oldest' = IF oldest = NoAge THEN NoAge ELSE Older(oldest)
    /\ storedMeta' = [p \in Packet |-> IF p \in stored
           THEN [storedMeta[p] EXCEPT !.wait = Nearer(@), !.age = Older(@)] ELSE Fresh]
    /\ elapsed' = [w \in Worker |-> IF pc[w] \in {"publishing", "release"} /\ elapsed[w] < MaxDelay
                                    THEN elapsed[w] + 1 ELSE elapsed[w]]
    /\ UNCHANGED <<up, pending, attempts, publishing, bytes, index, stored, pc, queue, batch>>

Crash ==
    /\ up /\ up' = FALSE
    /\ Loaded({}, storedMeta)
    /\ pc' = [w \in Worker |-> "idle"]
    /\ queue' = [w \in Worker |-> {}]
    /\ batch' = [w \in Worker |-> {}]
    /\ elapsed' = [w \in Worker |-> 0]
    /\ UNCHANGED store

(* NewOutbox refuses a store beyond the packet and byte limits or with a    *)
(* packet too old; it does not look at MaxPerStream.                        *)
Restart ==
    LET meta == IF HasRecords THEN storedMeta ELSE [p \in Packet |-> Fresh] IN
    /\ ~up /\ up' = TRUE
    /\ Cardinality(stored) <= MaxPackets /\ SizeOf(stored) <= MaxBytes
    /\ Loaded(stored, meta)
    /\ ~(TooOld')
    /\ UNCHANGED <<store, workers>>

Publish(w) ==
    \/ \E f \in Filter : PublishDue(w, f) \/ PublishNow(w, f)
    \/ CheckAge(w) \/ SelectDue(w) \/ ReleasePublishing(w)
    \/ \E p \in queue[w], accepted, persists \in BOOLEAN : Published(w, p, accepted, persists)

Next ==
    \/ \E p \in Packet : Put(p) \/ PutFails(p)
    \/ \E S \in Filter : PutBatch(S) \/ PutBatchFails(S)
    \/ \E p \in Packet : Acknowledge(StreamOf(p), p.seq)
    \/ \E p \in Packet : DiscardObserver(p.obs)
    \/ \E w \in Worker : Publish(w)
    \/ Tick \/ Crash \/ Restart

Spec == Init /\ [][Next]_vars

(* The host calls RetryPending again and again (SF: other calls of the same *)
(* goroutine may come between), a publisher call returns and time passes.   *)
(* Nothing obliges a client to acknowledge.                                 *)
Advances(w) ==
    \/ CheckAge(w) \/ SelectDue(w) \/ ReleasePublishing(w)
    \/ \E p \in queue[w], accepted, persists \in BOOLEAN : Published(w, p, accepted, persists)

FairSpec ==
    /\ Spec /\ SF_vars(Tick) /\ WF_vars(Restart)
    /\ \A w \in Worker : SF_vars(PublishDue(w, Packet)) /\ WF_vars(Advances(w))

-----------------------------------------------------------------------------
(* The outbox is the ledger of what is owed: in memory while the process    *)
(* runs and on disk while it does not.  Failed calls, publishing, crashes   *)
(* and restarts forget nothing, and a deletion that stops half way never    *)
(* leaves a hole in a stream.                                               *)
Ledger == INSTANCE PacketLedger WITH owed <- IF up THEN pending ELSE stored
ImplementsLedger == Ledger!Spec

(* The totals Outbox keeps beside the map, updated packet by packet, are    *)
(* those of the map: bytes, the per-stream index and the oldest creation.   *)
BooksBalance ==
    /\ bytes = SizeOf(pending)
    /\ \A s \in Stream : index[s] = {p.seq : p \in {q \in pending : StreamOf(q) = s}}
    /\ oldest = OldestOf(pending, age)

(* Whatever fails and whenever the process restarts, the outbox stays in    *)
(* its hard limits on packets and bytes (OutboxOptions).                    *)
WithinLimits ==
    Cardinality(pending) <= MaxPackets /\ SizeOf(pending) <= MaxBytes

(* With a store whose calls fail without effect, what memory owes is on     *)
(* disk: a crash at any point forgets no packet.                            *)
PendingIsStored == up /\ Durable => pending \subseteq stored

(* The attempts that drive the backoff survive a restart: the record on     *)
(* disk counts what memory counts, also when persisting it failed.          *)
AttemptsPersisted ==
    up => \A p \in pending \cap stored : storedMeta[p].attempts = attempts[p]

(* What Enqueue, Acknowledge, rejection and the scans for limits read is    *)
(* right at any moment, whatever call failed before (outbox.go:281-330).    *)
BooksAreSound == TypeOK /\ BooksBalance /\ WithinLimits

(* A crash costs neither a packet nor the count of its attempts.            *)
NothingIsForgotten == PendingIsStored /\ AttemptsPersisted

(* A packet marked as being published is in the hands of a PublishDue that  *)
(* has still to come to it: the mark cannot keep it from being retried.     *)
MarkIsOwned ==
    \A p \in publishing : \E w \in Worker : p \in queue[w]

(* A packet is retried until its ACK (outbox.go:555-557): every packet that *)
(* stays pending is handed to the publisher again and again.                *)
PendingIsRetried ==
    \A p \in Packet :
        p \in pending ~> p \notin pending \/ \E w \in Worker : Calling(w, p)
=============================================================================
