--------------------------- MODULE SyncCoordinator ---------------------------
(***************************************************************************)
(* The server side of skillsync (skillsync/coordinator.go): concurrent     *)
(* operations of one Coordinator over the runtime's journals, the History  *)
(* (roost-core/syncstream, the write-ahead log) and the Outbox.            *)
(*                                                                         *)
(* An operation on an observer and a key holds the lock of that view while *)
(* it prepares; CloseObserver takes the locks of every view of an observer *)
(* that is in use.  The calls it makes into the runtime, the History and   *)
(* the Outbox are atomic steps of their own, and what happens between two  *)
(* of them is what this module is about.  The Outbox is the ledger of      *)
(* module PacketLedger, which module Outbox implements; handing packets to *)
(* the publisher changes nothing here and is left to module Outbox.        *)
(***************************************************************************)
EXTENDS Naturals, Sequences, FiniteSets, FiniteSetsExt

CONSTANTS
    Thread,
    Role,           \* [Thread -> the operations it may call]
    Observer, Key,  \* keys are numbers: CloseObserver locks in their order
    Topics,         \* <<"state">> or <<"state", "presentation">>
    Hidden,         \* the source records the visibility policy filters out
    MaxPackets,     \* CoordinatorOptions.MaxPacketsPerFlush
    Entry,          \* the viewLockEntry objects
    None,
    Faults,         \* the calls that may fail, of FaultKind
    MaxSource,      \* bound: records of each journal
    MaxLatest       \* bound: packets appended to a stream

Operation == {"snapshot", "flush", "ack", "recover", "close", "open", "reconcile"}
FaultKind ==
    {"visibility", "append", "put", "recoverPut", "reconcile", "drop", "ack", "delete", "crash"}

View == Observer \X Key
Topic == {Topics[i] : i \in 1..Len(Topics)}
Stream == [view : View, topic : Topic]
PacketID == [stream : Stream, seq : 1..MaxLatest]
Record == [full : BOOLEAN, src : 0..MaxSource]

ASSUME RoleAssumption == Role \in [Thread -> SUBSET Operation]
ASSUME FaultAssumption == Faults \subseteq FaultKind
ASSUME NumberAssumption ==
    Key \subseteq Nat /\ MaxPackets \in Nat \ {0} /\ MaxSource \in Nat /\ MaxLatest \in Nat
ASSUME FiniteAssumption == IsFiniteSet(Thread)
ASSUME TopicAssumption == Topics \in {<<"state">>, <<"state", "presentation">>}
ASSUME NoneAssumption == None \notin Entry \cup Thread \cup Observer

VARIABLES
    up,
    source, trimmed,   \* per topic: latest record, and latest one trimmed away
    hist, acked,       \* History: the records appended to a stream; its ACK
    pending,           \* the packets in the Outbox, in memory and on disk
    cursors,           \* Coordinator.cursors, 0 when missing
    table,             \* Coordinator.viewLocks: an entry or None
    refs, holder,      \* of each entry: the reference count, who holds the mutex
    closed, closing,   \* closedObservers, closingObservers
    pc, op,            \* of each thread: the step to take, the operation
    mine, locked,      \* the <<view, entry>> pairs it refers to and has locked
    at, upto, left,    \* prepareFlush: index in Topics, end of the batch, remaining
    item,              \* the packet under way, [full, src, seq]
    exported           \* the packets of History.Export

journal == <<source, trimmed>>
history == <<hist, acked>>
locks == <<table, refs, holder>>
observers == <<closed, closing>>
locals == <<at, upto, left, item, exported>>
vars == <<up, journal, history, pending, cursors, locks, observers,
          pc, op, mine, locked, locals>>

NoItem == [full |-> FALSE, src |-> 0, seq |-> 0]
NoOp == [kind |-> "none", obs |-> None, key |-> 0, seq |-> 0]

Steps ==
    {"idle", "lock", "snap", "poll", "scan", "append", "put", "export", "reconcile",
     "advance", "validate", "drop", "ackHistory", "recover", "resend",
     "discard", "deleteHistory", "deleteCursors", "unlock", "unref"}

TypeOK ==
    /\ up \in BOOLEAN
    /\ source \in [Topic -> 0..MaxSource] /\ trimmed \in [Topic -> 0..MaxSource]
    /\ \A tp \in Topic : trimmed[tp] <= source[tp]
    /\ \A s \in Stream : /\ hist[s] \in Seq(Record) /\ Len(hist[s]) <= MaxLatest
                         /\ acked[s] \in 0..Len(hist[s])
    /\ pending \subseteq PacketID
    /\ cursors \in [Stream -> 0..MaxSource]
    /\ table \in [View -> Entry \cup {None}]
    /\ refs \in [Entry -> Nat] /\ holder \in [Entry -> Thread \cup {None}]
    /\ closing \subseteq closed /\ closed \subseteq Observer
    /\ pc \in [Thread -> Steps]
    /\ \A t \in Thread :
          /\ op[t].kind \in Operation \cup {"none"}
          /\ locked[t] \subseteq mine[t] /\ mine[t] \subseteq View \X Entry
          /\ at[t] \in 1..Len(Topics) /\ upto[t] \in 0..MaxSource /\ left[t] \in 0..MaxPackets
          /\ exported[t] \subseteq PacketID

Init ==
    /\ up = TRUE
    /\ source = [tp \in Topic |-> 0] /\ trimmed = [tp \in Topic |-> 0]
    /\ hist = [s \in Stream |-> <<>>] /\ acked = [s \in Stream |-> 0]
    /\ pending = {} /\ cursors = [s \in Stream |-> 0]
    /\ table = [v \in View |-> None]
    /\ refs = [e \in Entry |-> 0] /\ holder = [e \in Entry |-> None]
    /\ closed = {} /\ closing = {}
    /\ pc = [t \in Thread |-> "idle"] /\ op = [t \in Thread |-> NoOp]
    /\ mine = [t \in Thread |-> {}] /\ locked = [t \in Thread |-> {}]
    /\ at = [t \in Thread |-> 1] /\ upto = [t \in Thread |-> 0]
    /\ left = [t \in Thread |-> 0] /\ item = [t \in Thread |-> NoItem]
    /\ exported = [t \in Thread |-> {}]

ViewOf(t) == <<op[t].obs, op[t].key>>
StreamOf(t) == [view |-> ViewOf(t), topic |-> Topics[at[t]]]
Goto(t, step) == pc' = [pc EXCEPT ![t] = step]
MayFail(call) == call \in Faults

-----------------------------------------------------------------------------
(* The runtime: it appends to its journals and trims their oldest records. *)

Mutate(tp) ==
    /\ source[tp] < MaxSource
    /\ source' = [source EXCEPT ![tp] = @ + 1]
    /\ UNCHANGED <<up, trimmed, history, pending, cursors, locks, observers,
                   pc, op, mine, locked, locals>>

Trim(tp) ==
    /\ trimmed[tp] < source[tp]
    /\ trimmed' = [trimmed EXCEPT ![tp] = @ + 1]
    /\ UNCHANGED <<up, source, history, pending, cursors, locks, observers,
                   pc, op, mine, locked, locals>>

Expired(s) == cursors[s] < trimmed[s.topic]

-----------------------------------------------------------------------------
(* The view locks. *)

Free(e) == refs[e] = 0 /\ holder[e] = None /\ \A v \in View : table[v] # e

(* acquireView up to entry.mutex.Lock. *)
Acquire(t, kind, v, i, n) ==
    /\ up /\ pc[t] = "idle" /\ kind \in Role[t]
    /\ v[1] \notin closed
    /\ table[v] = None => \E f \in Entry : Free(f)     \* bound: lock objects
    /\ LET e == IF table[v] = None THEN CHOOSE f \in Entry : Free(f) ELSE table[v] IN
       /\ table' = [table EXCEPT ![v] = e]
       /\ refs' = [refs EXCEPT ![e] = @ + 1]
       /\ mine' = [mine EXCEPT ![t] = {<<v, e>>}]
    /\ op' = [op EXCEPT ![t] = [kind |-> kind, obs |-> v[1], key |-> v[2], seq |-> n]]
    /\ at' = [at EXCEPT ![t] = i]
    /\ Goto(t, "lock")
    /\ UNCHANGED <<up, journal, history, pending, cursors, holder, observers, locked,
                   upto, left, item, exported>>

FirstStep(kind) ==
    CASE kind = "snapshot" -> "snap"
      [] kind = "flush" -> "poll"
      [] kind = "ack" -> "validate"
      [] kind = "recover" -> "recover"
      [] kind = "close" -> "discard"

(* The mutex is taken in the order of the keys, and waited for. *)
Lock(t) ==
    /\ pc[t] = "lock"
    /\ \E pair \in mine[t] \ locked[t] :
          /\ \A other \in mine[t] \ locked[t] : pair[1][2] <= other[1][2]
          /\ holder[pair[2]] = None
          /\ holder' = [holder EXCEPT ![pair[2]] = t]
          /\ locked' = [locked EXCEPT ![t] = @ \cup {pair}]
          /\ Goto(t, IF locked'[t] = mine[t] THEN FirstStep(op[t].kind) ELSE "lock")
    /\ left' = [left EXCEPT ![t] = IF op[t].kind = "flush" THEN MaxPackets ELSE 0]
    /\ UNCHANGED <<up, journal, history, pending, cursors, table, refs, observers,
                   op, mine, at, upto, item, exported>>

Unlock(t) ==
    /\ pc[t] = "unlock"
    /\ IF locked[t] = {}
       THEN Goto(t, "unref") /\ UNCHANGED <<holder, locked>>
       ELSE \E pair \in locked[t] :
              /\ \A other \in locked[t] : other[1][2] <= pair[1][2]
              /\ holder' = [holder EXCEPT ![pair[2]] = None]
              /\ locked' = [locked EXCEPT ![t] = @ \ {pair}]
              /\ Goto(t, IF locked'[t] = {} THEN "unref" ELSE "unlock")
    /\ UNCHANGED <<up, journal, history, pending, cursors, table, refs, observers,
                   op, mine, locals>>

(* An entry leaves the table with its last reference. *)
DropEntries(t) == [v \in View |-> IF \E e \in Entry : <<v, e>> \in mine[t]
                                  THEN None ELSE table[v]]   \* seeded bug of Reclaimed
Reclaimed(t) ==
    [v \in View |-> IF \E e \in Entry : <<v, e>> \in mine[t] /\ refs[e] = 1 /\ table[v] = e
                    THEN None ELSE table[v]]

Forget(t) ==
    /\ op' = [op EXCEPT ![t] = NoOp]
    /\ at' = [at EXCEPT ![t] = 1] /\ upto' = [upto EXCEPT ![t] = 0]
    /\ left' = [left EXCEPT ![t] = 0] /\ item' = [item EXCEPT ![t] = NoItem]
    /\ exported' = [exported EXCEPT ![t] = {}]

Unref(t) ==
    /\ pc[t] = "unref"
    /\ table' = Reclaimed(t)
    /\ refs' = [e \in Entry |-> IF \E v \in View : <<v, e>> \in mine[t]
                                THEN refs[e] - 1 ELSE refs[e]]
    /\ closing' = IF op[t].kind = "close" THEN closing \ {op[t].obs} ELSE closing
    /\ mine' = [mine EXCEPT ![t] = {}]
    /\ Goto(t, "idle") /\ Forget(t)
    /\ UNCHANGED <<up, journal, history, pending, cursors, holder, closed, locked>>

-----------------------------------------------------------------------------
(* appendPending: History.Append, Outbox.Put and, when Put fails, Reconcile. *)

AppendFrom(t, rec) ==
    LET s == StreamOf(t) IN
    /\ Len(hist[s]) < MaxLatest
    /\ hist' = [hist EXCEPT ![s] = Append(@, [full |-> rec.full, src |-> rec.src])]
    /\ item' = [item EXCEPT ![t] = [rec EXCEPT !.seq = Len(hist[s]) + 1]]
    /\ Goto(t, "put")

AppendRecord(t) ==
    /\ pc[t] = "append"
    /\ AppendFrom(t, item[t])
    /\ UNCHANGED <<up, journal, acked, pending, cursors, locks, observers,
                   op, mine, locked, at, upto, left, exported>>

(* An error before the packet is in History.  The bound on a stream is a    *)
(* History that refuses the packet.                                         *)
Fail(t) ==
    /\ \/ pc[t] = "append" /\ (MayFail("append") \/ Len(hist[StreamOf(t)]) = MaxLatest)
       \/ pc[t] = "snap" /\ MayFail("visibility")
       \/ pc[t] = "scan" /\ MayFail("visibility") /\ cursors[StreamOf(t)] < upto[t]
    /\ Goto(t, "unlock")
    /\ UNCHANGED <<up, journal, history, pending, cursors, locks, observers,
                   op, mine, locked, locals>>

Put(t) ==
    /\ pc[t] = "put"
    /\ pending' = pending \cup {[stream |-> StreamOf(t), seq |-> item[t].seq]}
    /\ Goto(t, "advance")
    /\ UNCHANGED <<up, journal, history, cursors, locks, observers, op, mine, locked, locals>>

Repair(t) == Goto(t, "export")

PutFails(t) ==                         \* Recover returns the error as it is
    /\ pc[t] = "put" /\ MayFail(IF op[t].kind = "recover" THEN "recoverPut" ELSE "put")
    /\ IF op[t].kind = "recover" THEN Goto(t, "unlock") ELSE Repair(t)
    /\ UNCHANGED <<up, journal, history, pending, cursors, locks, observers,
                   op, mine, locked, locals>>

(* What Reconcile makes of a snapshot of the History. *)
Unacknowledged ==
    UNION {{[stream |-> s, seq |-> n] : n \in (acked[s] + 1)..Len(hist[s])} : s \in Stream}

Export(t) ==
    /\ pc[t] = "export"
    /\ exported' = [exported EXCEPT ![t] = Unacknowledged]
    /\ Goto(t, "reconcile")
    /\ UNCHANGED <<up, journal, history, pending, cursors, locks, observers,
                   op, mine, locked, at, upto, left, item>>

(* After it appendPending carries on; an Acknowledge or a CloseObserver     *)
(* that failed returns, and so does ReconcilePending, which has no lock.    *)
Reconcile(t) ==
    /\ pc[t] = "reconcile"
    /\ \/ /\ pending' = pending \cup exported[t]
          /\ Goto(t, IF op[t].kind \in {"snapshot", "flush"} THEN "advance" ELSE "unlock")
       \/ MayFail("reconcile") /\ UNCHANGED pending /\ Goto(t, "unlock")
    /\ exported' = [exported EXCEPT ![t] = {}]
    /\ UNCHANGED <<up, journal, history, cursors, locks, observers,
                   op, mine, locked, at, upto, left, item>>

-----------------------------------------------------------------------------
(* PublishSnapshot, and prepareFlush. *)

Poll(t) ==                             \* StateDeltas, PollPresentation
    /\ pc[t] = "poll"
    /\ LET s == StreamOf(t)
           last == cursors[s] + left[t]
       IN IF Expired(s)
          THEN Goto(t, "snap") /\ UNCHANGED upto
          ELSE /\ upto' = [upto EXCEPT ![t] = IF last < source[s.topic] THEN last
                                              ELSE source[s.topic]]
               /\ Goto(t, "scan")
    /\ UNCHANGED <<up, journal, history, pending, cursors, locks, observers,
                   op, mine, locked, at, left, item, exported>>

Snapshot(t) ==                         \* StateSnapshot, PresentationSnapshot
    /\ pc[t] = "snap"
    /\ item' = [item EXCEPT ![t] = [full |-> TRUE, src |-> source[Topics[at[t]]], seq |-> 0]]
    /\ Goto(t, "append")
    /\ UNCHANGED <<up, journal, history, pending, cursors, locks, observers,
                   op, mine, locked, at, upto, left, exported>>

PollsAgain(t, remaining) ==            \* seeded bug of NextTopic: the same topic
    Goto(t, IF remaining > 0 THEN "poll" ELSE "unlock") /\ UNCHANGED at

(* Where a flush goes when it is done with a topic. *)
NextTopic(t, remaining) ==
    IF at[t] < Len(Topics) /\ remaining > 0
    THEN Goto(t, "poll") /\ at' = [at EXCEPT ![t] = @ + 1]
    ELSE Goto(t, "unlock") /\ UNCHANGED at

ScanEnds(t) ==
    /\ pc[t] = "scan" /\ cursors[StreamOf(t)] >= upto[t]
    /\ NextTopic(t, left[t])
    /\ UNCHANGED <<up, journal, history, pending, cursors, locks, observers,
                   op, mine, locked, upto, left, item, exported>>

ScanFilters(t) ==
    LET s == StreamOf(t) IN
    /\ pc[t] = "scan" /\ cursors[s] < upto[t] /\ cursors[s] + 1 \in Hidden
    /\ cursors' = [cursors EXCEPT ![s] = @ + 1]
    /\ UNCHANGED <<up, journal, history, pending, locks, observers,
                   pc, op, mine, locked, locals>>

ScanProjects(t) ==
    LET s == StreamOf(t) IN
    /\ pc[t] = "scan" /\ cursors[s] < upto[t] /\ cursors[s] + 1 \notin Hidden
    /\ item' = [item EXCEPT ![t] = [full |-> FALSE, src |-> cursors[s] + 1, seq |-> 0]]
    /\ Goto(t, "append")
    /\ UNCHANGED <<up, journal, history, pending, cursors, locks, observers,
                   op, mine, locked, at, upto, left, exported>>

NewCursorAtEnd(t) == source[Topics[at[t]]]   \* seeded bug of NewCursor: the latest record
NewCursor(t) == item[t].src

(* setCursor, and on with the loop.  Only state packets count against the   *)
(* limit; the presentation batch was cut to what state left.                *)
Advance(t) ==
    LET s == StreamOf(t)
        state == s.topic = "state"
        remaining == IF state THEN left[t] - 1 ELSE left[t]
    IN
    /\ pc[t] = "advance" /\ op[t].kind \in {"snapshot", "flush"}
    /\ cursors' = [cursors EXCEPT ![s] = NewCursor(t)]
    /\ item' = [item EXCEPT ![t] = NoItem]
    /\ IF op[t].kind = "snapshot"
       THEN Goto(t, "unlock") /\ UNCHANGED <<at, left>>
       ELSE /\ left' = [left EXCEPT ![t] = remaining]
            /\ IF item[t].full THEN NextTopic(t, remaining)
               ELSE /\ Goto(t, IF remaining = 0 THEN "unlock" ELSE "scan")
                    /\ UNCHANGED at
    /\ UNCHANGED <<up, journal, history, pending, locks, observers,
                   op, mine, locked, upto, exported>>

-----------------------------------------------------------------------------
(* Acknowledge and Recover. *)

Validate(t) ==
    /\ pc[t] = "validate"
    /\ Goto(t, IF op[t].seq <= Len(hist[StreamOf(t)]) THEN "drop" ELSE "unlock")
    /\ UNCHANGED <<up, journal, history, pending, cursors, locks, observers,
                   op, mine, locked, locals>>

UpTo(s, n) == {p \in pending : p.stream = s /\ p.seq <= n}

(* The ledger deletes the packets in sequence order and may stop half way. *)
DropPending(t) ==
    /\ pc[t] = "drop"
    /\ \/ pending' = pending \ UpTo(StreamOf(t), op[t].seq) /\ Goto(t, "ackHistory")
       \/ /\ MayFail("drop")
          /\ \E n \in 0..(op[t].seq - 1) : pending' = pending \ UpTo(StreamOf(t), n)
          /\ Repair(t)
    /\ UNCHANGED <<up, journal, history, cursors, locks, observers, op, mine, locked, locals>>

AcknowledgeHistory(t) ==
    LET s == StreamOf(t) IN
    /\ pc[t] = "ackHistory"
    /\ \/ /\ acked' = [acked EXCEPT ![s] = IF op[t].seq > @ THEN op[t].seq ELSE @]
          /\ Goto(t, "unlock")
       \/ MayFail("ack") /\ Repair(t) /\ UNCHANGED acked
    /\ UNCHANGED <<up, journal, hist, pending, cursors, locks, observers,
                   op, mine, locked, locals>>

(* History.Recover answers from what it retains or appends a new snapshot;  *)
(* every packet of the answer is Put, and the first error ends it.  The     *)
(* source cursor stays where it is.                                         *)
Recover(t) ==
    /\ pc[t] = "recover"
    /\ Goto(t, "snap") \/ (acked[StreamOf(t)] < Len(hist[StreamOf(t)]) /\ Goto(t, "resend"))
    /\ UNCHANGED <<up, journal, history, pending, cursors, locks, observers,
                   op, mine, locked, locals>>

Resend(t) ==
    LET s == StreamOf(t)
        retained == {[stream |-> s, seq |-> n] : n \in (acked[s] + 1)..Len(hist[s])}
    IN
    /\ pc[t] = "resend"
    /\ \/ pending' = pending \cup retained
       \/ /\ MayFail("recoverPut")
          /\ \E n \in acked[s]..(Len(hist[s]) - 1) :
                pending' = pending \cup {p \in retained : p.seq <= n}
    /\ Goto(t, "unlock")
    /\ UNCHANGED <<up, journal, history, cursors, locks, observers, op, mine, locked, locals>>

RecoverPut(t) ==                       \* of the snapshot
    /\ pc[t] = "advance" /\ op[t].kind = "recover"
    /\ Goto(t, "unlock")
    /\ UNCHANGED <<up, journal, history, pending, cursors, locks, observers,
                   op, mine, locked, locals>>

-----------------------------------------------------------------------------
(* CloseObserver and OpenObserver; ReconcilePending. *)

InUse(o) == {v \in View : v[1] = o /\ table[v] # None}

Close(t, o) ==
    /\ up /\ pc[t] = "idle" /\ "close" \in Role[t]
    /\ o \notin closing
    /\ closed' = closed \cup {o} /\ closing' = closing \cup {o}
    /\ mine' = [mine EXCEPT ![t] = {<<v, table[v]>> : v \in InUse(o)}]
    /\ refs' = [e \in Entry |-> IF \E v \in InUse(o) : table[v] = e
                                THEN refs[e] + 1 ELSE refs[e]]
    /\ op' = [op EXCEPT ![t] = [kind |-> "close", obs |-> o, key |-> 0, seq |-> 0]]
    /\ Goto(t, IF InUse(o) = {} THEN "discard" ELSE "lock")
    /\ UNCHANGED <<up, journal, history, pending, cursors, table, holder, locked, locals>>

OfObserver(o) == {p \in pending : p.stream.view[1] = o}

(* DiscardObserver deletes in the order of topic, key and sequence; which   *)
(* packets are left when it stops half way does not matter here.            *)
Discard(t) ==
    /\ pc[t] = "discard"
    /\ \/ pending' = pending \ OfObserver(op[t].obs) /\ Goto(t, "deleteHistory")
       \/ /\ MayFail("drop")
          /\ \E gone \in SUBSET OfObserver(op[t].obs) : pending' = pending \ gone
          /\ Repair(t)
    /\ UNCHANGED <<up, journal, history, cursors, locks, observers, op, mine, locked, locals>>

DeleteHistory(t) ==
    /\ pc[t] = "deleteHistory"
    /\ \/ /\ hist' = [s \in Stream |-> IF s.view[1] = op[t].obs THEN <<>> ELSE hist[s]]
          /\ acked' = [s \in Stream |-> IF s.view[1] = op[t].obs THEN 0 ELSE acked[s]]
          /\ Goto(t, "deleteCursors")
       \/ MayFail("delete") /\ Goto(t, "unlock") /\ UNCHANGED history
    /\ UNCHANGED <<up, journal, pending, cursors, locks, observers, op, mine, locked, locals>>

DeleteCursors(t) ==
    /\ pc[t] = "deleteCursors"
    /\ cursors' = [s \in Stream |-> IF s.view[1] = op[t].obs THEN 0 ELSE cursors[s]]
    /\ Goto(t, "unlock")
    /\ UNCHANGED <<up, journal, history, pending, locks, observers, op, mine, locked, locals>>

OpenableWhileInUse(o) == o \notin closing   \* seeded bug of Openable
Openable(o) == o \notin closing /\ InUse(o) = {}

Open(t, o) ==
    /\ up /\ pc[t] = "idle" /\ "open" \in Role[t]
    /\ o \in closed /\ Openable(o)
    /\ closed' = closed \ {o}
    /\ UNCHANGED <<up, journal, history, pending, cursors, locks, closing,
                   pc, op, mine, locked, locals>>

ReconcilePending(t) ==
    /\ up /\ pc[t] = "idle" /\ "reconcile" \in Role[t]
    /\ op' = [op EXCEPT ![t] = [NoOp EXCEPT !.kind = "reconcile"]]
    /\ Goto(t, "export")
    /\ UNCHANGED <<up, journal, history, pending, cursors, locks, observers,
                   mine, locked, locals>>

-----------------------------------------------------------------------------
(* The process dies: History and Outbox are on disk, the rest is gone.  The *)
(* runtime is restored as it was (its checkpoint is the host's concern).    *)
Crash ==
    /\ up /\ MayFail("crash") /\ up' = FALSE
    /\ cursors' = [s \in Stream |-> 0]
    /\ table' = [v \in View |-> None]
    /\ refs' = [e \in Entry |-> 0] /\ holder' = [e \in Entry |-> None]
    /\ closed' = {} /\ closing' = {}
    /\ pc' = [t \in Thread |-> "idle"] /\ op' = [t \in Thread |-> NoOp]
    /\ mine' = [t \in Thread |-> {}] /\ locked' = [t \in Thread |-> {}]
    /\ at' = [t \in Thread |-> 1] /\ upto' = [t \in Thread |-> 0]
    /\ left' = [t \in Thread |-> 0] /\ item' = [t \in Thread |-> NoItem]
    /\ exported' = [t \in Thread |-> {}]
    /\ UNCHANGED <<journal, history, pending>>

StartEmpty == UNCHANGED pending        \* seeded bug of StartReconciled
StartReconciled == pending' = pending \cup Unacknowledged

Restart ==                             \* NewCoordinator
    /\ ~up /\ up' = TRUE
    /\ StartReconciled
    /\ UNCHANGED <<journal, history, cursors, locks, observers,
                   pc, op, mine, locked, locals>>

-----------------------------------------------------------------------------
Begin(t) ==
    \/ \E v \in View :
          \/ Acquire(t, "snapshot", v, 1, 0) \/ Acquire(t, "flush", v, 1, 0)
          \/ \E i \in 1..Len(Topics) : Acquire(t, "recover", v, i, 0)
          \/ \E i \in 1..Len(Topics), n \in 1..MaxLatest : Acquire(t, "ack", v, i, n)
    \/ \E o \in Observer : Close(t, o) \/ Open(t, o)
    \/ ReconcilePending(t)

Work(t) ==
    \/ AppendRecord(t) \/ Fail(t) \/ Put(t) \/ PutFails(t) \/ Export(t) \/ Reconcile(t)
    \/ Poll(t) \/ Snapshot(t) \/ ScanEnds(t) \/ ScanFilters(t) \/ ScanProjects(t)
    \/ Advance(t) \/ Validate(t) \/ DropPending(t) \/ AcknowledgeHistory(t)
    \/ Recover(t) \/ Resend(t) \/ RecoverPut(t)
    \/ Discard(t) \/ DeleteHistory(t) \/ DeleteCursors(t)
    \/ Unlock(t) \/ Unref(t)

Next ==
    \/ \E tp \in Topic : Mutate(tp) \/ Trim(tp)
    \/ \E t \in Thread : Begin(t) \/ Lock(t) \/ Work(t)
    \/ Crash \/ Restart

Spec == Init /\ [][Next]_vars

-----------------------------------------------------------------------------
Holds(t, v) == \E e \in Entry : <<v, e>> \in locked[t]

(* What an operation prepares for a view it prepares alone: entries come    *)
(* and go from the table, but never two of them for one view with a         *)
(* goroutine inside each.                                                   *)
ViewsAreExclusive ==
    \A t, u \in Thread, v \in View : Holds(t, v) /\ Holds(u, v) => t = u

(* TestCoordinatorReclaimsViewLocksAndRequiresExplicitReopen: a view keeps  *)
(* its lock in the table as long as, and only as long as, it is in use, and *)
(* the count is right for everybody who waits.                              *)
LocksAreReclaimed ==
    /\ \A v \in View : table[v] # None <=> \E t \in Thread, e \in Entry : <<v, e>> \in mine[t]
    /\ \A e \in Entry :
          refs[e] = Cardinality({t \in Thread : \E v \in View : <<v, e>> \in mine[t]})

Covers(rec, m) == IF rec.full THEN rec.src >= m ELSE rec.src = m

LocksAreKept == ViewsAreExclusive /\ LocksAreReclaimed

(* Every source record up to m is filtered out or among the first n packets *)
(* of the stream.                                                           *)
SentUpTo(s, m, n) ==
    \A k \in 1..m : k \in Hidden \/ \E i \in 1..n : Covers(hist[s][i], k)

(* No source record is skipped: whatever was trimmed, filtered, recovered,  *)
(* appended twice or lost with the process, a delta never reaches a stream  *)
(* before the records it builds on.                                         *)
NoSourceGap ==
    \A s \in Stream : \A i \in 1..Len(hist[s]) :
        ~hist[s][i].full => SentUpTo(s, hist[s][i].src - 1, i - 1)

(* The cursor never runs ahead of the stream, not while packets fail to be  *)
(* stored and not when an observer is closed and opened again.              *)
CursorIsSent ==
    \A s \in Stream :
        s.view[1] \notin closing => SentUpTo(s, cursors[s], Len(hist[s]))

(* "latest can only advance while this view is held, so a valid sequence    *)
(* cannot become invalid here" (coordinator.go:385-386).                    *)
AckStaysValid ==
    \A t \in Thread :
        pc[t] \in {"drop", "ackHistory"} => op[t].seq <= Len(hist[StreamOf(t)])

(* What is in a stream and what the cursor says agree, and a sequence that  *)
(* may be acknowledged may still be when it is.                             *)
StreamsAreWhole == TypeOK /\ NoSourceGap /\ CursorIsSent /\ AckStaysValid

(* "without generating a duplicate source mutation on the next flush"       *)
(* (coordinator.go:366-368): the deltas of a stream carry each source       *)
(* record once, also when the Outbox refused a packet.                      *)
NoDuplicateDelta ==
    \A s \in Stream : \A i, j \in 1..Len(hist[s]) :
        i < j /\ ~hist[s][i].full /\ ~hist[s][j].full => hist[s][i].src < hist[s][j].src

(* Thread t has still to store, or to acknowledge, packet n of stream s.    *)
InHand(t, s, n) ==
    \/ pc[t] \in {"put", "export"} /\ op[t].kind \in {"snapshot", "flush", "recover"}
          /\ StreamOf(t) = s /\ item[t].seq = n
    \/ pc[t] = "export" /\ op[t].kind = "ack" /\ StreamOf(t) = s /\ n <= op[t].seq
    \/ pc[t] \in {"export", "deleteHistory"} /\ op[t].kind = "close" /\ op[t].obs = s.view[1]
    \/ pc[t] = "ackHistory" /\ StreamOf(t) = s /\ n <= op[t].seq
    \/ [stream |-> s, seq |-> n] \in exported[t]

(* "Outbox retains every appended packet until client ACK" (outbox.go:106): *)
(* a packet of the History that was not acknowledged is in the Outbox or in *)
(* the hands of an operation that puts it there, whatever the other         *)
(* operations do meanwhile and wherever the process dies.                   *)
UnackedIsPending ==
    up => \A p \in Unacknowledged :
              p \in pending \/ \E t \in Thread : InHand(t, p.stream, p.seq)

(* An observer is opened again only when no operation of its former life is *)
(* left: none can append to the new one.                                    *)
OpensClean ==
    [][\A o \in closed \ closed' : up' => \A t \in Thread : op[t].obs # o]_vars

(* "Coordinator.CloseObserver is the fence of an observer's life: once it   *)
(* is closed every key refuses to publish"                                  *)
(* (docs/visual-sync-production-guide.md:371): when CloseObserver has       *)
(* deleted the History of an observer, nothing is appended to it.           *)
CloseIsAFence ==
    \A o \in closed \ closing : \A s \in Stream :
        s.view[1] = o => hist[s] = <<>>
=============================================================================
