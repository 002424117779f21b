------------------------ MODULE SyncCoordinatorProofs ------------------------
(***************************************************************************)
(* Proofs about module SyncCoordinator, for every finite set of goroutines *)
(* and any observers, keys, journals and bounds: the locks of views        *)
(* exclude, the streams have no gap, and no unacknowledged packet is       *)
(* forgotten.                                                              *)
(***************************************************************************)
EXTENDS SyncCoordinator, SetLemmas

OnView == {"snapshot", "flush", "ack", "recover"}
Preparing == {"snapshot", "flush", "recover"}
Middle == Steps \ {"idle", "lock", "unlock", "unref"}

(* The table of locks and what goroutines have of it. *)
OpType == [kind : Operation \cup {"none"}, obs : Observer \cup {None},
           key : Nat, seq : 0..MaxLatest]
LockTypes ==
    /\ up \in BOOLEAN
    /\ table \in [View -> Entry \cup {None}]
    /\ refs \in [Entry -> Nat] /\ holder \in [Entry -> Thread \cup {None}]
    /\ closing \subseteq closed /\ closed \subseteq Observer
    /\ pc \in [Thread -> Steps] /\ op \in [Thread -> OpType]
    /\ mine \in [Thread -> SUBSET (View \X Entry)]
    /\ locked \in [Thread -> SUBSET (View \X Entry)]

ItemType == [full : BOOLEAN, src : 0..MaxSource, seq : 0..MaxLatest]
DataTypes ==
    /\ source \in [Topic -> 0..MaxSource] /\ trimmed \in [Topic -> 0..MaxSource]
    /\ \A tp \in Topic : trimmed[tp] <= source[tp]
    /\ hist \in [Stream -> Seq(Record)] /\ acked \in [Stream -> Nat]
    /\ \A s \in Stream : Len(hist[s]) <= MaxLatest /\ acked[s] <= Len(hist[s])
    /\ pending \subseteq PacketID
    /\ cursors \in [Stream -> 0..MaxSource]
    /\ at \in [Thread -> 1..Len(Topics)] /\ upto \in [Thread -> 0..MaxSource]
    /\ left \in [Thread -> 0..MaxPackets] /\ item \in [Thread -> ItemType]
    /\ exported \in [Thread -> SUBSET PacketID]

(* Where an operation may stand. *)
Path(kind, step) ==
    \/ kind = "none" /\ step = "idle"
    \/ kind # "none" /\ step \in {"unlock", "unref"}
    \/ kind \notin {"none", "reconcile"} /\ step = "lock"
    \/ kind \in Preparing /\ step \in {"snap", "append", "put", "advance"}
    \/ kind \in Operation \ {"recover"} /\ step \in {"export", "reconcile"}
    \/ kind = "flush" /\ step \in {"poll", "scan"}
    \/ kind = "ack" /\ step \in {"validate", "drop", "ackHistory"}
    \/ kind = "recover" /\ step \in {"recover", "resend"}
    \/ kind = "close" /\ step \in {"discard", "deleteHistory", "deleteCursors"}

(* What it has there. *)
OpOK(t) ==
    /\ Path(op[t].kind, pc[t]) /\ op[t].kind # "open"
    /\ op[t].kind \in OnView =>
          ViewOf(t) \in View /\ \E e \in Entry : mine[t] = {<<ViewOf(t), e>>}
    /\ op[t].kind = "close" =>
          op[t].obs \in closing /\ \A pair \in mine[t] : pair[1][1] = op[t].obs
    /\ op[t].kind \in {"none", "reconcile"} => mine[t] = {} /\ op[t].obs = None
    /\ pc[t] \in Middle => locked[t] = mine[t]
    /\ pc[t] = "unref" => locked[t] = {}
OpInv == \A t \in Thread : OpOK(t)

(* An entry is of one view, is counted for everybody who refers to it, and  *)
(* is in the table as long as somebody does.  Who closes an observer refers *)
(* to every entry of it.                                                    *)
Sharing(e) == {t \in Thread : \E v \in View : <<v, e>> \in mine[t]}
TableInv ==
    /\ \A t \in Thread : locked[t] \subseteq mine[t]
    /\ \A t \in Thread, v \in View, e \in Entry : <<v, e>> \in mine[t] => table[v] = e
    /\ \A v \in View : table[v] # None => \E t \in Thread : <<v, table[v]>> \in mine[t]
    /\ \A v, w \in View : table[v] = table[w] /\ table[v] # None => v = w
    /\ \A e \in Entry : refs[e] = Cardinality(Sharing(e))
HolderInv ==
    \A t \in Thread, v \in View, e \in Entry : <<v, e>> \in locked[t] => holder[e] = t
CloserInv ==
    /\ \A t \in Thread, v \in View :
          op[t].kind = "close" /\ v[1] = op[t].obs /\ table[v] # None => <<v, table[v]>> \in mine[t]
    /\ \A t, u \in Thread :
          op[t].kind = "close" /\ op[u].kind = "close" /\ op[t].obs = op[u].obs => t = u
LockInv == LockTypes /\ OpInv /\ TableInv /\ HolderInv /\ CloserInv

(* What a goroutine found out about the streams it works on, and what it    *)
(* made of it.                                                              *)
ItemOK(t) ==
    LET s == StreamOf(t) IN
    op[t].kind \in Preparing =>
       /\ pc[t] \in {"append", "put", "export", "reconcile", "advance"} =>
             /\ cursors[s] <= item[t].src /\ item[t].src <= source[s.topic]
             /\ item[t].full \/ (op[t].kind = "flush" /\ item[t].src = cursors[s] + 1)
       /\ pc[t] \in {"put", "export", "reconcile", "advance"} =>
             /\ item[t].seq = Len(hist[s]) /\ Len(hist[s]) > 0
             /\ hist[s][Len(hist[s])] = [full |-> item[t].full, src |-> item[t].src]
       /\ op[t].kind = "flush" /\ pc[t] \in Middle => left[t] > 0
       /\ \/ pc[t] = "scan"
          \/ pc[t] \in {"append", "put", "export", "reconcile", "advance"} /\ ~item[t].full
          => upto[t] <= source[s.topic]
AckOK(t) == pc[t] \in {"drop", "ackHistory"} => op[t].seq <= Len(hist[StreamOf(t)])
CloseOK(t) ==
    pc[t] = "deleteCursors" => \A s \in Stream : s.view[1] = op[t].obs => hist[s] = <<>>
WorkOK(t) == ItemOK(t) /\ AckOK(t) /\ CloseOK(t)
WorkInv == \A t \in Thread : WorkOK(t)

(* The streams and the cursors. *)
Ending(s) == \E t \in Thread : pc[t] = "deleteCursors" /\ op[t].obs = s.view[1]
StreamOK(s) ==
    /\ \A i \in 1..Len(hist[s]) : ~hist[s][i].full => SentUpTo(s, hist[s][i].src - 1, i - 1)
    /\ SentUpTo(s, cursors[s], Len(hist[s])) \/ Ending(s)
    /\ cursors[s] <= source[s.topic]
StreamInv == \A s \in Stream : StreamOK(s)

IInv == LockInv /\ DataTypes /\ WorkInv /\ StreamInv

(* Which goroutine still owes the Outbox a packet, if no call fails that    *)
(* would have to be repeated by hand.                                       *)
OwedInv == UnackedIsPending /\ \A t \in Thread : exported[t] # {} => pc[t] = "reconcile"

(* A delta is below the cursor, or under way to it. *)
DeltasInv ==
    \A s \in Stream : \A i \in 1..Len(hist[s]) : ~hist[s][i].full =>
        \/ hist[s][i].src <= cursors[s]
        \/ \E t \in Thread : /\ pc[t] \in {"put", "export", "reconcile", "advance"}
                             /\ op[t].kind = "flush" /\ StreamOf(t) = s /\ item[t].seq = i

-----------------------------------------------------------------------------
(* Topics is a sequence of topics. *)
LEMMA TopicsAreSound ==
    /\ Len(Topics) \in Nat /\ Len(Topics) >= 1
    /\ \A i \in 1..Len(Topics) : Topics[i] \in Topic
<1>1. Topics = <<"state">> \/ Topics = <<"state", "presentation">>
  BY TopicAssumption
<1> QED BY <1>1 DEF Topic

(* A view is of an observer and a key, a number. *)
LEMMA ViewsArePairs ==
    ASSUME NEW v \in View
    PROVE  v[1] \in Observer /\ v[2] \in Nat /\ v = <<v[1], v[2]>>
<1>1. v[1] \in Observer /\ v[2] \in Key
  BY DEF View
<1>2. v = <<v[1], v[2]>>
  BY DEF View
<1> QED BY <1>1, <1>2, NumberAssumption

(* The stream of an operation on a view is one. *)
LEMMA StreamIsTyped ==
    ASSUME NEW t \in Thread, OpOK(t), op[t].kind \in OnView, at[t] \in 1..Len(Topics)
    PROVE  StreamOf(t) \in Stream /\ StreamOf(t).view = ViewOf(t)
  BY TopicsAreSound DEF OpOK, StreamOf, Stream

(* Goroutine t works on stream s: it has the lock of its view, or it closes *)
(* its observer.                                                            *)
Works(t, s) ==
    /\ pc[t] \in Middle
    /\ \/ op[t].kind \in OnView /\ ViewOf(t) = s.view
       \/ op[t].kind = "close" /\ op[t].obs = s.view[1]

(* Nobody else does. *)
LEMMA Alone ==
    ASSUME LockInv, NEW t \in Thread, NEW u \in Thread, NEW s \in Stream, Works(t, s), Works(u, s)
    PROVE  t = u
<1>1. s.view \in View
  BY DEF Stream
<1>2. OpOK(t) /\ OpOK(u) /\ locked[t] = mine[t] /\ locked[u] = mine[u]
  BY DEF LockInv, OpInv, OpOK, Works
<1>3. ASSUME NEW w \in Thread, NEW x \in Thread, Works(w, s), Works(x, s), op[w].kind \in OnView
      PROVE  w = x
  <2>1. ViewOf(w) = s.view /\ locked[w] = mine[w] /\ locked[x] = mine[x] /\ OpOK(w) /\ OpOK(x)
    BY <1>3 DEF Works, OnView, LockInv, OpInv, OpOK
  <2>2. PICK e \in Entry : mine[w] = {<<s.view, e>>}
    BY <2>1, <1>3 DEF OpOK
  <2>3. table[s.view] = e /\ e # None
    BY <1>1, <2>2, NoneAssumption DEF LockInv, TableInv
  <2>4. <<s.view, e>> \in mine[x]
    <3>1. CASE op[x].kind \in OnView
      <4>1. PICK f \in Entry : mine[x] = {<<s.view, f>>}
        BY <1>3, <2>1, <3>1 DEF OpOK, Works, OnView
      <4>2. table[s.view] = f
        BY <1>1, <4>1 DEF LockInv, TableInv
      <4> QED BY <2>3, <4>1, <4>2
    <3>2. CASE op[x].kind = "close"
      <4>1. op[x].obs = s.view[1]
        BY <1>3, <3>2 DEF Works, OnView
      <4> QED BY <1>1, <2>3, <3>2, <4>1 DEF LockInv, CloserInv
    <3> QED BY <1>3, <3>1, <3>2 DEF Works
  <2>5. holder[e] = w /\ holder[e] = x
    BY <1>1, <2>1, <2>2, <2>4 DEF LockInv, HolderInv
  <2> QED BY <2>5
<1>4. CASE op[t].kind \in OnView
  BY <1>3, <1>4
<1>5. CASE op[u].kind \in OnView
  BY <1>3, <1>5
<1>6. CASE op[t].kind = "close" /\ op[u].kind = "close"
  <2>1. op[t].obs = op[u].obs
    BY <1>6 DEF Works, OnView
  <2> QED BY <1>6, <2>1 DEF LockInv, CloserInv
<1> QED BY <1>4, <1>5, <1>6 DEF Works

-----------------------------------------------------------------------------
(* A step in the middle of an operation: it keeps its locks.                *)
Moves(t, step) ==
    /\ pc[t] \in Middle /\ step \in Middle \cup {"unlock"} /\ Path(op[t].kind, step)
    /\ pc' = [pc EXCEPT ![t] = step]
    /\ UNCHANGED <<up, locks, observers, op, mine, locked>>

(* The locks are as they should be after it, and the others stand still.    *)
LEMMA KeepsLocks ==
    ASSUME LockInv, NEW t \in Thread, NEW step, Moves(t, step)
    PROVE  /\ LockInv' /\ pc'[t] = step /\ \A u \in Thread \ {t} : pc'[u] = pc[u]
<1>1. UNCHANGED <<up, table, refs, holder, closed, closing, op, mine, locked>>
  BY DEF Moves, locks, observers
<1>2. pc'[t] = step /\ \A u \in Thread \ {t} : pc'[u] = pc[u]
  BY DEF Moves, LockInv, LockTypes
<1>3. step \in Steps
  BY DEF Moves, Middle, Steps
<1>4. LockTypes'
  BY <1>1, <1>3 DEF Moves, LockInv, LockTypes
<1>5. OpInv'
  <2> SUFFICES ASSUME NEW u \in Thread PROVE OpOK(u)'
    BY DEF OpInv
  <2>1. OpOK(u)
    BY DEF LockInv, OpInv
  <2>2. CASE u = t
    <3>1. pc'[u] = step /\ Path(op[u].kind, step) /\ pc[u] \in Middle /\ step # "unref"
      BY <1>2, <2>2 DEF Moves, Middle
    <3> QED BY ONLY <1>1, <2>1, <3>1 DEF OpOK, ViewOf, Path
  <2>3. CASE u # t
    <3>1. pc'[u] = pc[u]
      BY <1>2, <2>3
    <3> QED BY ONLY <1>1, <2>1, <3>1 DEF OpOK, ViewOf, Path
  <2> QED BY <2>2, <2>3
<1>6. TableInv' /\ HolderInv' /\ CloserInv'
  BY ONLY LockInv, <1>1 DEF LockInv, TableInv, HolderInv, CloserInv, Sharing
<1> QED BY <1>2, <1>4, <1>5, <1>6 DEF LockInv

(* It leaves what others have, and the streams others work on.              *)
Leaves(t) ==
    /\ \A u \in Thread \ {t} : at'[u] = at[u] /\ upto'[u] = upto[u]
                               /\ left'[u] = left[u] /\ item'[u] = item[u]
    /\ \A s \in Stream : ~Works(t, s) => hist'[s] = hist[s] /\ cursors'[s] = cursors[s]
    /\ source' = source

(* So what others found out stays true, if what it found out does.          *)
LEMMA OthersKeep ==
    ASSUME LockInv, DataTypes, WorkInv, NEW t \in Thread, NEW step, Moves(t, step), Leaves(t),
           WorkOK(t)'
    PROVE  WorkInv'
<1> SUFFICES ASSUME NEW u \in Thread, u # t PROVE WorkOK(u)'
  BY DEF WorkInv
<1>1. /\ WorkOK(u) /\ OpOK(u) /\ op' = op /\ pc'[u] = pc[u] /\ at'[u] = at[u] /\ upto'[u] = upto[u]
      /\ left'[u] = left[u] /\ item'[u] = item[u] /\ source' = source
  BY KeepsLocks DEF WorkInv, LockInv, OpInv, Moves, Leaves
<1>2. StreamOf(u)' = StreamOf(u)
  BY <1>1 DEF StreamOf, ViewOf
<1>3. \A s \in Stream : Works(u, s) => hist'[s] = hist[s] /\ cursors'[s] = cursors[s]
  <2> SUFFICES ASSUME NEW s \in Stream, Works(u, s)
               PROVE  hist'[s] = hist[s] /\ cursors'[s] = cursors[s]
    OBVIOUS
  <2>1. ~Works(t, s)
    BY Alone
  <2> QED BY <2>1 DEF Leaves
<1>4. at[u] \in 1..Len(Topics)
  BY DEF DataTypes
<1>5. CASE op[u].kind \in OnView /\ pc[u] \in Middle
  <2>1. StreamOf(u) \in Stream /\ StreamOf(u).view = ViewOf(u)
    BY <1>1, <1>4, <1>5, StreamIsTyped
  <2>2. hist'[StreamOf(u)] = hist[StreamOf(u)] /\ cursors'[StreamOf(u)] = cursors[StreamOf(u)]
    BY <1>3, <1>5, <2>1 DEF Works
  <2>3. pc[u] # "deleteCursors"
    BY <1>1, <1>5 DEF OpOK, Path, OnView, Operation, Preparing
  <2> QED BY ONLY <1>1, <1>2, <2>2, <2>3 DEF WorkOK, ItemOK, AckOK, CloseOK
<1>6. CASE op[u].kind = "close" /\ pc[u] \in Middle
  <2>1. \A s \in Stream : s.view[1] = op[u].obs => hist'[s] = hist[s]
    BY <1>3, <1>6 DEF Works
  <2>2. pc[u] \notin {"drop", "ackHistory"} /\ op[u].kind \notin Preparing
    BY <1>1, <1>6 DEF OpOK, Path, Operation, Preparing
  <2> QED BY ONLY <1>1, <2>1, <2>2 DEF WorkOK, ItemOK, AckOK, CloseOK
<1>7. CASE pc[u] \notin Middle \/ op[u].kind \notin OnView \cup {"close"}
  <2>1. /\ pc[u] \notin {"drop", "ackHistory", "deleteCursors"}
        /\ op[u].kind \in Preparing => pc[u] \notin Middle
    BY <1>1, <1>7 DEF OpOK, Path, OnView, Operation, Preparing, Middle, Steps
  <2>2. {"append", "put", "export", "reconcile", "advance", "scan"} \subseteq Middle
    BY DEF Middle, Steps
  <2> QED BY ONLY <1>1, <2>1, <2>2 DEF WorkOK, ItemOK, AckOK, CloseOK
<1> QED BY <1>5, <1>6, <1>7

(* A step that changes no journal, stream or cursor. *)
Quiet(t, step) ==
    /\ Moves(t, step) /\ UNCHANGED <<source, hist, cursors>> /\ pc[t] # "deleteCursors"
    /\ \A u \in Thread \ {t} : at'[u] = at[u] /\ upto'[u] = upto[u]
                               /\ left'[u] = left[u] /\ item'[u] = item[u]

(* It keeps the invariant when what the goroutine found out does.           *)
LEMMA QuietStep ==
    ASSUME IInv, NEW t \in Thread, NEW step, Quiet(t, step), DataTypes', WorkOK(t)'
    PROVE  IInv'
<1>1. LockInv' /\ pc'[t] = step /\ \A u \in Thread \ {t} : pc'[u] = pc[u]
  BY KeepsLocks DEF IInv, Quiet
<1>2. WorkInv'
  <2>1. Leaves(t)
    BY DEF Quiet, Leaves
  <2> QED BY <2>1, OthersKeep DEF IInv, Quiet
<1>3. StreamInv'
  <2> SUFFICES ASSUME NEW s \in Stream PROVE StreamOK(s)'
    BY DEF StreamInv
  <2>1. StreamOK(s) /\ hist' = hist /\ cursors' = cursors /\ source' = source /\ op' = op
    BY DEF IInv, StreamInv, Quiet, Moves
  <2>2. Ending(s) => Ending(s)'
    BY <1>1, <2>1 DEF Ending, Quiet
  <2> QED BY <2>1, <2>2 DEF StreamOK, SentUpTo
<1> QED BY <1>1, <1>2, <1>3 DEF IInv

(* The types, when only what a goroutine keeps and what is pending change.  *)
LEMMA KeepsTypes ==
    ASSUME DataTypes, UNCHANGED <<source, trimmed, hist, acked, cursors>>, pending' \subseteq PacketID,
           at' \in [Thread -> 1..Len(Topics)], upto' \in [Thread -> 0..MaxSource],
           left' \in [Thread -> 0..MaxPackets], item' \in [Thread -> ItemType],
           exported' \in [Thread -> SUBSET PacketID]
    PROVE  DataTypes'
  BY DEF DataTypes

(* An operation that is done with its work. *)
LEMMA UnlockingIsFine ==
    ASSUME NEW t \in Thread, pc'[t] \in {"unlock", "snap", "poll", "deleteHistory", "resend"},
           op[t].kind = "flush" => left'[t] > 0 \/ pc'[t] = "unlock", op' = op
    PROVE  WorkOK(t)'
  BY DEF WorkOK, ItemOK, AckOK, CloseOK, Middle, Steps

(* Packets of the streams are among those the model counts. *)
LEMMA PacketsAreTyped ==
    ASSUME DataTypes
    PROVE  /\ Unacknowledged \subseteq PacketID
           /\ \A s \in Stream : \A n \in 1..Len(hist[s]) : [stream |-> s, seq |-> n] \in PacketID
<1>1. \A s \in Stream : Len(hist[s]) \in Nat /\ acked[s] \in Nat /\ Len(hist[s]) <= MaxLatest
  BY DEF DataTypes
<1>2. \A s \in Stream : \A n \in 1..Len(hist[s]) : [stream |-> s, seq |-> n] \in PacketID
  BY <1>1, NumberAssumption DEF PacketID
<1>3. \A s \in Stream : \A n \in (acked[s] + 1)..Len(hist[s]) : n \in 1..Len(hist[s])
  BY <1>1
<1> QED BY <1>2, <1>3 DEF Unacknowledged

(* What an operation gives up, or goes on to.                               *)
LEMMA FailSteps ==
    ASSUME IInv, NEW t \in Thread, Fail(t) \/ PutFails(t) \/ RecoverPut(t) \/ Recover(t) \/ Validate(t)
    PROVE  IInv'
<1>1. /\ UNCHANGED <<up, source, trimmed, hist, acked, pending, cursors, table, refs, holder, closed,
                     closing, op, mine, locked, at, upto, left, item, exported>>
      /\ UNCHANGED <<locks, observers>>
  BY DEF Fail, PutFails, RecoverPut, Recover, Validate, Repair, journal, history, locks, observers, locals
<1>2. OpOK(t) /\ WorkOK(t) /\ LockTypes /\ DataTypes
  BY DEF IInv, LockInv, OpInv, WorkInv
<1>3. DataTypes'
  BY <1>1, <1>2 DEF DataTypes
<1>4. PICK step :
          /\ pc' = [pc EXCEPT ![t] = step] /\ pc[t] \in Middle /\ step \in Middle \cup {"unlock"}
          /\ Path(op[t].kind, step) /\ pc[t] # "deleteCursors"
          /\ \/ step \in {"unlock", "snap", "resend"}
             \/ step = "export" /\ pc[t] = "put"
             \/ step = "drop" /\ op[t].seq <= Len(hist[StreamOf(t)])
          /\ step # "unlock" => op[t].kind = "ack" \/ op[t].kind \in Preparing
  <2>1. CASE Fail(t)
    BY <1>2, <2>1 DEF Fail, Goto, Middle, Steps, Path, OpOK, Operation, Preparing
  <2>2. CASE PutFails(t)
    BY <1>2, <2>2 DEF PutFails, Repair, Goto, Middle, Steps, Path, OpOK, Operation, Preparing
  <2>3. CASE RecoverPut(t)
    BY <1>2, <2>3 DEF RecoverPut, Goto, Middle, Steps, Path, OpOK, Operation, Preparing
  <2>4. CASE Recover(t)
    BY <1>2, <2>4 DEF Recover, Goto, Middle, Steps, Path, OpOK, Operation, Preparing
  <2>5. CASE Validate(t)
    BY <1>2, <2>5 DEF Validate, Goto, Middle, Steps, Path, OpOK, Operation, Preparing
  <2> QED BY <2>1, <2>2, <2>3, <2>4, <2>5
<1>5. Quiet(t, step)
  BY <1>1, <1>4 DEF Quiet, Moves
<1>6. WorkOK(t)'
  <2>1. pc'[t] = step /\ StreamOf(t)' = StreamOf(t)
    BY <1>1, <1>2, <1>4 DEF LockTypes, StreamOf, ViewOf
  <2>2. op[t].kind = "flush" /\ pc[t] \in Middle => left[t] > 0
    BY <1>2 DEF WorkOK, ItemOK, Preparing
  <2>3. CASE step \in {"unlock", "snap", "resend"}
    BY <1>1, <1>4, <2>1, <2>2, <2>3, UnlockingIsFine
  <2>4. CASE step = "export" /\ pc[t] = "put"
    BY ONLY <1>1, <1>2, <2>1, <2>2, <2>4 DEF WorkOK, ItemOK, AckOK, CloseOK, Middle, Steps
  <2>5. CASE step = "drop" /\ op[t].seq <= Len(hist[StreamOf(t)])
    <3>1. op[t].kind \notin Preparing
      BY <1>4, <2>5 DEF Path, Preparing, Operation
    <3> QED BY ONLY <1>1, <2>1, <2>5, <3>1 DEF WorkOK, ItemOK, AckOK, CloseOK
  <2> QED BY <1>4, <2>3, <2>4, <2>5
<1> QED BY <1>3, <1>5, <1>6, QuietStep

(* What an operation does to the Outbox, or asks the History for.           *)
LEMMA PacketSteps ==
    ASSUME IInv, NEW t \in Thread,
           Put(t) \/ Reconcile(t) \/ DropPending(t) \/ Resend(t) \/ Discard(t) \/ Export(t)
    PROVE  IInv'
<1>1. /\ UNCHANGED <<up, source, trimmed, hist, acked, cursors, table, refs, holder, closed,
                     closing, op, mine, locked, at, upto, left, item>>
      /\ UNCHANGED <<locks, observers>>
  BY DEF Put, Reconcile, DropPending, Resend, Discard, Export, Repair, journal, history, locks,
     observers, locals
<1>2. OpOK(t) /\ WorkOK(t) /\ LockTypes /\ DataTypes
  BY DEF IInv, LockInv, OpInv, WorkInv
<1>3. PICK step :
          /\ pc' = [pc EXCEPT ![t] = step] /\ pc[t] \in Middle /\ step \in Middle \cup {"unlock"}
          /\ Path(op[t].kind, step) /\ pc[t] # "deleteCursors"
          /\ \/ step \in {"unlock", "deleteHistory"}
             \/ step \in {"advance", "reconcile"} /\ pc[t] \in {"put", "export", "reconcile"}
             \/ step = "export" /\ op[t].kind \notin Preparing
             \/ step = "ackHistory" /\ pc[t] = "drop"
  <2>1. CASE Put(t)
    BY <1>2, <2>1 DEF Put, Goto, Middle, Steps, Path, OpOK, Operation, Preparing
  <2>2. CASE Reconcile(t)
    BY <1>2, <2>2 DEF Reconcile, Goto, Middle, Steps, Path, OpOK, Operation, Preparing
  <2>3. CASE DropPending(t)
    BY <1>2, <2>3 DEF DropPending, Repair, Goto, Middle, Steps, Path, OpOK, Operation, Preparing
  <2>4. CASE Resend(t)
    BY <1>2, <2>4 DEF Resend, Goto, Middle, Steps, Path, OpOK, Operation, Preparing
  <2>5. CASE Discard(t)
    BY <1>2, <2>5 DEF Discard, Repair, Goto, Middle, Steps, Path, OpOK, Operation, Preparing
  <2>6. CASE Export(t)
    BY <1>2, <2>6 DEF Export, Goto, Middle, Steps, Path, OpOK, Operation, Preparing
  <2> QED BY <2>1, <2>2, <2>3, <2>4, <2>5, <2>6
<1>4. pending' \subseteq PacketID /\ exported' \in [Thread -> SUBSET PacketID]
  <2>1. pending \subseteq PacketID /\ exported \in [Thread -> SUBSET PacketID]
    BY <1>2 DEF DataTypes
  <2>2. CASE Put(t)
    <3>1. op[t].kind \in Preparing
      BY <1>2, <2>2 DEF Put, OpOK, Path, Preparing, Operation
    <3>2. StreamOf(t) \in Stream /\ item[t].seq \in 1..Len(hist[StreamOf(t)])
      <4>1. StreamOf(t) \in Stream
        BY <1>2, <3>1, StreamIsTyped DEF DataTypes, Preparing, OnView
      <4>2. Len(hist[StreamOf(t)]) \in Nat
        BY <1>2, <4>1 DEF DataTypes
      <4> QED BY <1>2, <2>2, <3>1, <4>1, <4>2 DEF Put, WorkOK, ItemOK
    <3>3. [stream |-> StreamOf(t), seq |-> item[t].seq] \in PacketID
      BY <1>2, <3>2, PacketsAreTyped
    <3> QED BY <2>1, <2>2, <3>3 DEF Put, locals
  <2>3. CASE Reconcile(t)
    BY <2>1, <2>3 DEF Reconcile
  <2>4. CASE DropPending(t)
    BY <2>1, <2>4 DEF DropPending, locals
  <2>5. CASE Resend(t)
    <3>1. op[t].kind = "recover"
      BY <1>2, <2>5 DEF Resend, OpOK, Path, Preparing, Operation
    <3>2. StreamOf(t) \in Stream
      BY <1>2, <3>1, StreamIsTyped DEF DataTypes, OnView
    <3>3. \A n \in (acked[StreamOf(t)] + 1)..Len(hist[StreamOf(t)]) : n \in 1..Len(hist[StreamOf(t)])
      BY <1>2, <3>2 DEF DataTypes
    <3>4. {[stream |-> StreamOf(t), seq |-> n] :
              n \in (acked[StreamOf(t)] + 1)..Len(hist[StreamOf(t)])} \subseteq PacketID
      BY <1>2, <3>2, <3>3, PacketsAreTyped
    <3> QED BY <2>1, <2>5, <3>4 DEF Resend, locals
  <2>6. CASE Discard(t)
    BY <2>1, <2>6 DEF Discard, locals
  <2>7. CASE Export(t)
    BY <1>2, <2>1, <2>7, PacketsAreTyped DEF Export
  <2> QED BY <2>2, <2>3, <2>4, <2>5, <2>6, <2>7
<1>5. DataTypes'
  BY <1>1, <1>2, <1>4, KeepsTypes DEF DataTypes
<1>6. Quiet(t, step)
  BY <1>1, <1>3 DEF Quiet, Moves
<1>7. WorkOK(t)'
  <2>1. pc'[t] = step /\ StreamOf(t)' = StreamOf(t)
    BY <1>1, <1>2, <1>3 DEF LockTypes, StreamOf, ViewOf
  <2>2. CASE step \in {"unlock", "deleteHistory"}
    <3>1. op[t].kind = "flush" => step = "unlock"
      BY <1>3, <2>2 DEF Path, Preparing, Operation
    <3> QED BY <1>1, <2>1, <2>2, <3>1, UnlockingIsFine
  <2>3. CASE step \in {"advance", "reconcile"} /\ pc[t] \in {"put", "export", "reconcile"}
    BY ONLY <1>1, <1>2, <2>1, <2>3 DEF WorkOK, ItemOK, AckOK, CloseOK, Middle, Steps
  <2>4. CASE step = "export" /\ op[t].kind \notin Preparing
    BY ONLY <1>1, <2>1, <2>4 DEF WorkOK, ItemOK, AckOK, CloseOK
  <2>5. CASE step = "ackHistory" /\ pc[t] = "drop"
    <3>1. op[t].kind \notin Preparing
      BY <1>3, <2>5 DEF Path, Preparing, Operation
    <3> QED BY ONLY <1>1, <1>2, <2>1, <2>5, <3>1 DEF WorkOK, ItemOK, AckOK, CloseOK
  <2> QED BY <1>3, <2>2, <2>3, <2>4, <2>5
<1> QED BY <1>5, <1>6, <1>7, QuietStep

(* What an operation reads: the journal, the cursor and the acknowledgement. *)
LEMMA ReadSteps ==
    ASSUME IInv, NEW t \in Thread,
           Poll(t) \/ Snapshot(t) \/ ScanEnds(t) \/ ScanProjects(t) \/ AcknowledgeHistory(t)
    PROVE  IInv'
<1>1. /\ UNCHANGED <<up, source, trimmed, hist, pending, cursors, table, refs, holder, closed,
                     closing, op, mine, locked, left, exported>>
      /\ UNCHANGED <<locks, observers>>
  BY DEF Poll, Snapshot, ScanEnds, ScanProjects, AcknowledgeHistory, Repair, NextTopic, journal,
     history, locks, observers, locals
<1>2. OpOK(t) /\ WorkOK(t) /\ LockTypes /\ DataTypes /\ StreamInv
  BY DEF IInv, LockInv, OpInv, WorkInv
<1>3. op[t].kind \in OnView /\ pc[t] \in Middle /\ pc[t] # "deleteCursors"
  BY <1>2 DEF Poll, Snapshot, ScanEnds, ScanProjects, AcknowledgeHistory, OpOK, Path, OnView,
     Preparing, Operation, Middle, Steps
<1>4. PICK s \in Stream : s = StreamOf(t) /\ s.topic \in Topic /\ s.topic = Topics[at[t]]
  <2>1. StreamOf(t) \in Stream /\ at[t] \in 1..Len(Topics)
    BY <1>2, <1>3, StreamIsTyped DEF DataTypes
  <2> QED BY <2>1, TopicsAreSound DEF StreamOf, Stream
<1>5. /\ source[s.topic] \in 0..MaxSource /\ cursors[s] \in 0..MaxSource /\ left[t] \in 0..MaxPackets
      /\ upto[t] \in 0..MaxSource /\ at[t] \in 1..Len(Topics) /\ cursors[s] <= source[s.topic]
      /\ Len(hist[s]) \in Nat /\ acked[s] \in Nat /\ op[t].seq \in Nat /\ Len(Topics) \in Nat
  <2>1. source[s.topic] \in 0..MaxSource /\ cursors[s] \in 0..MaxSource /\ upto[t] \in 0..MaxSource
    BY <1>2, <1>4 DEF DataTypes
  <2>2. left[t] \in 0..MaxPackets /\ at[t] \in 1..Len(Topics) /\ Len(Topics) \in Nat
    BY <1>2, TopicsAreSound DEF DataTypes
  <2>3. cursors[s] <= source[s.topic]
    BY <1>2 DEF StreamInv, StreamOK
  <2>4. Len(hist[s]) \in Nat /\ acked[s] \in Nat
    BY <1>2 DEF DataTypes
  <2>5. op[t].seq \in Nat
    BY <1>2 DEF LockTypes, OpType
  <2> QED BY ONLY <2>1, <2>2, <2>3, <2>4, <2>5
<1>6. ASSUME NEW step, pc' = [pc EXCEPT ![t] = step], step \in Middle \cup {"unlock"},
             Path(op[t].kind, step), DataTypes', WorkOK(t)',
             \A u \in Thread \ {t} : at'[u] = at[u] /\ upto'[u] = upto[u] /\ item'[u] = item[u]
      PROVE  IInv'
  <2>1. Quiet(t, step)
    BY <1>1, <1>3, <1>6 DEF Quiet, Moves
  <2> QED BY <1>6, <2>1, QuietStep
<1>7. op[t].kind = "flush" => left[t] > 0
  BY <1>2, <1>3 DEF WorkOK, ItemOK, Preparing
<1>8. CASE Poll(t)
  <2>1. /\ pc[t] = "poll" /\ UNCHANGED <<acked, at, item>> /\ op[t].kind = "flush"
    BY <1>2, <1>8 DEF Poll, history, OpOK, Path, Preparing, Operation
  <2>2. \/ pc' = [pc EXCEPT ![t] = "snap"] /\ upto' = upto
        \/ /\ pc' = [pc EXCEPT ![t] = "scan"]
           /\ \E n : upto' = [upto EXCEPT ![t] = n] /\ n \in 0..MaxSource /\ n <= source[s.topic]
    <3> PICK last : last = cursors[s] + left[t]
      OBVIOUS
    <3>1. \/ pc' = [pc EXCEPT ![t] = "snap"] /\ upto' = upto
          \/ /\ pc' = [pc EXCEPT ![t] = "scan"]
             /\ upto' = [upto EXCEPT ![t] = IF last < source[s.topic] THEN last ELSE source[s.topic]]
      BY <1>4, <1>8 DEF Poll, Goto
    <3> PICK n : n = IF last < source[s.topic] THEN last ELSE source[s.topic]
      OBVIOUS
    <3>2. n \in 0..MaxSource /\ n <= source[s.topic]
      BY <1>5, NumberAssumption
    <3> QED BY ONLY <3>1, <3>2, n = IF last < source[s.topic] THEN last ELSE source[s.topic]
  <2>3. DataTypes'
    BY <1>1, <1>2, <2>1, <2>2, KeepsTypes DEF DataTypes
  <2>4. StreamOf(t)' = StreamOf(t)
    BY <1>1, <2>1 DEF StreamOf, ViewOf
  <2>5. CASE pc' = [pc EXCEPT ![t] = "snap"] /\ upto' = upto
    <3>1. pc'[t] = "snap"
      BY <1>2, <2>5 DEF LockTypes
    <3>2. WorkOK(t)'
      BY <1>1, <1>7, <2>1, <3>1, UnlockingIsFine
    <3> QED BY <1>6, <2>1, <2>3, <2>5, <3>2 DEF Middle, Steps, Path, Preparing
  <2>6. CASE /\ pc' = [pc EXCEPT ![t] = "scan"]
             /\ \E n : upto' = [upto EXCEPT ![t] = n] /\ n \in 0..MaxSource /\ n <= source[s.topic]
    <3>1. pc'[t] = "scan" /\ upto'[t] <= source[s.topic] /\ \A u \in Thread \ {t} : upto'[u] = upto[u]
      BY <1>2, <2>6 DEF LockTypes, DataTypes
    <3>2. WorkOK(t)'
      BY ONLY <1>1, <1>4, <1>7, <2>1, <2>4, <3>1 DEF WorkOK, ItemOK, AckOK, CloseOK
    <3>3. /\ "scan" \in Middle /\ Path(op[t].kind, "scan")
          /\ \A u \in Thread \ {t} : at'[u] = at[u] /\ upto'[u] = upto[u] /\ item'[u] = item[u]
      BY <2>1, <3>1 DEF Middle, Steps, Path
    <3> QED BY <1>6, <2>3, <2>6, <3>2, <3>3
  <2> QED BY <2>2, <2>5, <2>6
<1>9. CASE Snapshot(t) \/ ScanProjects(t)
  <2> PICK it : it = IF Snapshot(t) THEN [full |-> TRUE, src |-> source[s.topic], seq |-> 0]
                     ELSE [full |-> FALSE, src |-> cursors[s] + 1, seq |-> 0]
    OBVIOUS
  <2>1. /\ pc' = [pc EXCEPT ![t] = "append"] /\ item' = [item EXCEPT ![t] = it]
        /\ UNCHANGED <<acked, at, upto>> /\ op[t].kind \in Preparing
        /\ ~Snapshot(t) => /\ op[t].kind = "flush" /\ cursors[s] < upto[t]
                           /\ upto[t] <= source[s.topic]
    <3>1. CASE Snapshot(t)
      BY <1>2, <1>4, <3>1 DEF Snapshot, Goto, history, OpOK, Path, Preparing, Operation
    <3>2. CASE ~Snapshot(t)
      <4>1. ScanProjects(t) /\ it = [full |-> FALSE, src |-> cursors[s] + 1, seq |-> 0]
        BY <1>9, <3>2
      <4>2. /\ pc[t] = "scan" /\ pc' = [pc EXCEPT ![t] = "append"] /\ item' = [item EXCEPT ![t] = it]
            /\ UNCHANGED <<acked, at, upto>> /\ cursors[s] < upto[t]
        BY <1>4, <4>1 DEF ScanProjects, Goto, history
      <4>3. op[t].kind = "flush"
        BY <1>2, <4>2 DEF OpOK, Path, Preparing, Operation
      <4>4. upto[t] <= source[s.topic]
        BY <1>2, <1>4, <4>2, <4>3 DEF WorkOK, ItemOK, Preparing
      <4> QED BY <3>2, <4>2, <4>3, <4>4 DEF Preparing
    <3> QED BY <3>1, <3>2
  <2>2. /\ it \in ItemType /\ cursors[s] <= it.src /\ it.src <= source[s.topic]
        /\ it.full \/ (op[t].kind = "flush" /\ it.src = cursors[s] + 1 /\ upto[t] <= source[s.topic])
    BY <1>5, <2>1, NumberAssumption DEF ItemType
  <2>3. /\ pc'[t] = "append" /\ item'[t] = it /\ \A u \in Thread \ {t} : item'[u] = item[u]
        /\ item' \in [Thread -> ItemType]
    BY <1>2, <2>1, <2>2 DEF LockTypes, DataTypes
  <2>4. DataTypes'
    BY <1>1, <1>2, <2>1, <2>3, KeepsTypes DEF DataTypes
  <2>5. StreamOf(t)' = s
    BY <1>1, <1>4, <2>1 DEF StreamOf, ViewOf
  <2>6. WorkOK(t)'
    BY ONLY <1>1, <1>7, <2>1, <2>2, <2>3, <2>5 DEF WorkOK, ItemOK, AckOK, CloseOK
  <2>7. "append" \in Middle /\ Path(op[t].kind, "append")
    BY <2>1 DEF Middle, Steps, Path
  <2> QED BY <1>6, <2>1, <2>3, <2>4, <2>6, <2>7
<1>10. CASE ScanEnds(t)
  <2>1. /\ pc[t] = "scan" /\ op[t].kind = "flush" /\ UNCHANGED <<acked, item, upto>>
        /\ \/ pc' = [pc EXCEPT ![t] = "poll"] /\ at[t] < Len(Topics) /\ at' = [at EXCEPT ![t] = @ + 1]
           \/ pc' = [pc EXCEPT ![t] = "unlock"] /\ at' = at
    BY <1>2, <1>10 DEF ScanEnds, NextTopic, Goto, history, OpOK, Path, Preparing, Operation
  <2>2. /\ at' \in [Thread -> 1..Len(Topics)] /\ pc'[t] \in {"poll", "unlock"}
        /\ \A u \in Thread \ {t} : at'[u] = at[u]
    <3>1. at \in [Thread -> 1..Len(Topics)] /\ pc \in [Thread -> Steps]
      BY <1>2 DEF DataTypes, LockTypes
    <3>2. at[t] < Len(Topics) => at[t] + 1 \in 1..Len(Topics)
      BY ONLY <1>5
    <3> QED BY ONLY <2>1, <3>1, <3>2, t \in Thread
  <2>3. DataTypes'
    BY <1>1, <1>2, <2>1, <2>2, KeepsTypes DEF DataTypes
  <2>4. WorkOK(t)'
    BY <1>1, <1>7, <2>1, <2>2, UnlockingIsFine
  <2>5. /\ {"poll", "unlock"} \subseteq Middle \cup {"unlock"}
        /\ Path(op[t].kind, "poll") /\ Path(op[t].kind, "unlock")
    BY <2>1 DEF Middle, Steps, Path
  <2> QED BY <1>6, <2>1, <2>2, <2>3, <2>4, <2>5
<1>11. CASE AcknowledgeHistory(t)
  <2>1. /\ pc[t] = "ackHistory" /\ op[t].kind = "ack" /\ UNCHANGED <<at, item, upto>>
        /\ \/ pc' = [pc EXCEPT ![t] = "unlock"]
           \/ pc' = [pc EXCEPT ![t] = "export"]
    BY <1>2, <1>11 DEF AcknowledgeHistory, Repair, Goto, locals, OpOK, Path, Preparing, Operation
  <2>2. op[t].seq <= Len(hist[s])
    BY <1>2, <1>4, <2>1 DEF WorkOK, AckOK
  <2>3. acked' \in [Stream -> Nat] /\ \A r \in Stream : acked'[r] <= Len(hist[r])
    <3> PICK n : n = IF op[t].seq > acked[s] THEN op[t].seq ELSE acked[s]
      OBVIOUS
    <3>1. acked' = acked \/ acked' = [acked EXCEPT ![s] = n]
      BY <1>4, <1>11 DEF AcknowledgeHistory
    <3>2. acked \in [Stream -> Nat] /\ \A r \in Stream : acked[r] <= Len(hist[r])
      BY <1>2 DEF DataTypes
    <3>3. n \in Nat /\ n <= Len(hist[s])
      BY <1>5, <2>2, <3>2
    <3> QED BY ONLY <3>1, <3>2, <3>3
  <2>4. DataTypes'
    BY <1>1, <1>2, <2>1, <2>3 DEF DataTypes
  <2>5. pc'[t] \in {"unlock", "export"}
    BY <1>2, <2>1 DEF LockTypes
  <2>6. WorkOK(t)'
    BY ONLY <1>1, <2>1, <2>5 DEF WorkOK, ItemOK, AckOK, CloseOK, Preparing
  <2>7. /\ {"export", "unlock"} \subseteq Middle \cup {"unlock"}
        /\ Path(op[t].kind, "export") /\ Path(op[t].kind, "unlock")
    BY <2>1 DEF Middle, Steps, Path, Operation
  <2> QED BY <1>6, <2>1, <2>4, <2>6, <2>7
<1> QED BY <1>8, <1>9, <1>10, <1>11

-----------------------------------------------------------------------------
(* Nobody deletes the cursors of a stream somebody else works on. *)
LEMMA NoEnding ==
    ASSUME LockInv, NEW t \in Thread, NEW s \in Stream, Works(t, s), pc[t] # "deleteCursors"
    PROVE  ~Ending(s)
<1> SUFFICES ASSUME NEW u \in Thread, pc[u] = "deleteCursors", op[u].obs = s.view[1] PROVE FALSE
  BY DEF Ending
<1>1. op[u].kind = "close"
  BY DEF LockInv, OpInv, OpOK, Path, Preparing, Operation
<1>2. Works(u, s)
  BY <1>1 DEF Works, Middle, Steps
<1> QED BY <1>2, Alone

(* A stream a step leaves alone. *)
LEMMA StreamStays ==
    ASSUME NEW s \in Stream, StreamOK(s), hist'[s] = hist[s], cursors'[s] = cursors[s],
           source'[s.topic] = source[s.topic], Ending(s) => Ending(s)'
    PROVE  StreamOK(s)'
  BY DEF StreamOK, SentUpTo

(* An operation moves on, with one stream changed. *)
LEMMA WorkStep ==
    ASSUME IInv, NEW t \in Thread, NEW step, Moves(t, step), Leaves(t), DataTypes', WorkOK(t)',
           pc[t] # "deleteCursors", NEW s \in Stream, StreamOK(s)',
           \A r \in Stream \ {s} : hist'[r] = hist[r] /\ cursors'[r] = cursors[r]
    PROVE  IInv'
<1>1. LockInv' /\ pc'[t] = step /\ \A u \in Thread \ {t} : pc'[u] = pc[u]
  BY KeepsLocks DEF IInv
<1>2. WorkInv'
  BY OthersKeep DEF IInv
<1>3. StreamInv'
  <2> SUFFICES ASSUME NEW r \in Stream, r # s PROVE StreamOK(r)'
    BY DEF StreamInv
  <2>1. StreamOK(r) /\ source' = source /\ op' = op
    BY DEF IInv, StreamInv, Leaves, Moves
  <2>2. Ending(r) => Ending(r)'
    BY <1>1, <2>1 DEF Ending
  <2> QED BY <2>1, <2>2, StreamStays
<1> QED BY <1>1, <1>2, <1>3 DEF IInv

(* A packet is appended to the stream of an operation. *)
LEMMA AppendStep ==
    ASSUME IInv, NEW t \in Thread, AppendRecord(t)
    PROVE  IInv'
<1>1. /\ UNCHANGED <<up, source, trimmed, acked, pending, cursors, table, refs, holder, closed,
                     closing, op, mine, locked, at, upto, left, exported>>
      /\ UNCHANGED <<locks, observers>> /\ pc[t] = "append" /\ pc' = [pc EXCEPT ![t] = "put"]
  BY DEF AppendRecord, AppendFrom, Goto, journal, locks, observers
<1>2. OpOK(t) /\ WorkOK(t) /\ LockTypes /\ LockInv /\ DataTypes /\ StreamInv
  BY DEF IInv, LockInv, OpInv, WorkInv
<1>3. op[t].kind \in Preparing /\ pc[t] \in Middle /\ "put" \in Middle /\ Path(op[t].kind, "put")
  BY <1>1, <1>2 DEF OpOK, Path, Preparing, Operation, Middle, Steps
<1>4. PICK s \in Stream : s = StreamOf(t) /\ s.view = ViewOf(t)
  BY <1>2, <1>3, StreamIsTyped DEF DataTypes, Preparing, OnView
<1>5. PICK r : r = [full |-> item[t].full, src |-> item[t].src]
  OBVIOUS
<1>6. PICK n : n = Len(hist[s])
  OBVIOUS
<1>7. PICK it : it = [item[t] EXCEPT !.seq = n + 1]
  OBVIOUS
<1>8. /\ hist' = [hist EXCEPT ![s] = Append(hist[s], r)] /\ item' = [item EXCEPT ![t] = it]
      /\ n < MaxLatest
  BY <1>4, <1>5, <1>6, <1>7 DEF AppendRecord, AppendFrom
<1>9. /\ hist[s] \in Seq(Record) /\ n \in Nat /\ item[t] \in ItemType /\ cursors[s] \in 0..MaxSource
      /\ cursors[s] <= source[s.topic]
  BY <1>2, <1>6 DEF DataTypes, StreamInv, StreamOK
<1>10. r \in Record /\ r.full = item[t].full /\ r.src = item[t].src /\ r.src \in Nat
  BY ONLY <1>5, <1>9, NumberAssumption DEF ItemType, Record
<1>11. /\ it \in ItemType /\ it.full = item[t].full /\ it.src = item[t].src /\ it.seq = n + 1
  <2>1. n + 1 \in 0..MaxLatest
    BY ONLY <1>8, <1>9, NumberAssumption
  <2>2. PICK x \in BOOLEAN, y \in 0..MaxSource, z \in 0..MaxLatest :
            item[t] = [full |-> x, src |-> y, seq |-> z]
    BY ONLY <1>9 DEF ItemType
  <2>3. it = [full |-> x, src |-> y, seq |-> n + 1] /\ item[t].full = x /\ item[t].src = y
    BY ONLY <1>7, <2>2
  <2> QED BY ONLY <2>1, <2>3 DEF ItemType
<1>12. /\ hist'[s] = Append(hist[s], r) /\ hist'[s] \in Seq(Record) /\ Len(hist'[s]) = n + 1
       /\ hist'[s][n + 1] = r /\ \A i \in 1..n : hist'[s][i] = hist[s][i]
       /\ \A q \in Stream \ {s} : hist'[q] = hist[q]
  <2>1. hist'[s] = Append(hist[s], r) /\ \A q \in Stream \ {s} : hist'[q] = hist[q]
    BY <1>2, <1>8 DEF DataTypes
  <2>2. /\ Append(hist[s], r) \in Seq(Record) /\ Len(Append(hist[s], r)) = n + 1
        /\ Append(hist[s], r)[n + 1] = r /\ \A i \in 1..n : Append(hist[s], r)[i] = hist[s][i]
    BY ONLY <1>6, <1>9, <1>10
  <2> QED BY ONLY <2>1, <2>2
<1>13. DataTypes'
  <2>1. hist' \in [Stream -> Seq(Record)]
    BY <1>2, <1>8, <1>12 DEF DataTypes
  <2>2. \A q \in Stream : Len(hist'[q]) <= MaxLatest /\ acked'[q] <= Len(hist'[q])
    <3>1. \A q \in Stream : Len(hist[q]) <= MaxLatest /\ acked[q] <= Len(hist[q]) /\ acked[q] \in Nat
      BY <1>2 DEF DataTypes
    <3> QED BY ONLY <1>1, <1>6, <1>8, <1>9, <1>12, <3>1, NumberAssumption, s \in Stream
  <2>3. item' \in [Thread -> ItemType]
    BY <1>2, <1>8, <1>11 DEF DataTypes
  <2> QED BY <1>1, <1>2, <2>1, <2>2, <2>3 DEF DataTypes
<1>14. Works(t, s)
  BY <1>3, <1>4 DEF Works, Preparing, OnView
<1>15. Leaves(t)
  BY <1>1, <1>2, <1>4, <1>8, <1>12, <1>14 DEF Leaves, DataTypes
<1>16. WorkOK(t)'
  <2>1. pc'[t] = "put" /\ item'[t] = it /\ StreamOf(t)' = s
    BY <1>1, <1>2, <1>4, <1>8 DEF LockTypes, DataTypes, StreamOf, ViewOf
  <2>2. /\ cursors[s] <= item[t].src /\ item[t].src <= source[s.topic]
        /\ item[t].full \/ (op[t].kind = "flush" /\ item[t].src = cursors[s] + 1)
        /\ op[t].kind = "flush" => left[t] > 0
        /\ ~item[t].full => upto[t] <= source[s.topic]
    BY <1>1, <1>2, <1>3, <1>4 DEF WorkOK, ItemOK
  <2> QED BY ONLY <1>1, <1>5, <1>9, <1>11, <1>12, <2>1, <2>2 DEF WorkOK, ItemOK, AckOK, CloseOK
<1>17. StreamOK(s)'
  <2>1. SentUpTo(s, cursors[s], n)
    BY <1>1, <1>2, <1>6, <1>14, NoEnding DEF StreamInv, StreamOK
  <2>2. SentUpTo(s, cursors[s], n)'
    <3>1. SentUpTo(s, cursors[s], n) => \A i \in 1..n : hist'[s][i] = hist[s][i]
      BY <1>12
    <3> QED BY ONLY <1>1, <1>12, <2>1 DEF SentUpTo
  <2>3. SentUpTo(s, cursors[s], n + 1)'
    BY ONLY <1>9, <2>2 DEF SentUpTo
  <2>4. ASSUME NEW i \in 1..n, ~hist'[s][i].full
        PROVE  SentUpTo(s, hist[s][i].src - 1, i - 1)'
    <3>1. hist'[s][i] = hist[s][i] /\ i \in 1..Len(hist[s])
      BY <1>6, <1>12
    <3> PICK m : m = hist[s][i].src - 1
      OBVIOUS
    <3>2. SentUpTo(s, m, i - 1)
      BY <1>2, <2>4, <3>1 DEF StreamInv, StreamOK
    <3>3. \A j \in 1..(i - 1) : hist'[s][j] = hist[s][j]
      BY <1>9, <1>12
    <3>4. SentUpTo(s, m, i - 1)'
      BY ONLY <3>2, <3>3 DEF SentUpTo
    <3>5. m = hist'[s][i].src - 1
      BY <3>1
    <3> QED BY ONLY <3>4, <3>5
  <2>5. ASSUME ~hist'[s][n + 1].full
        PROVE  SentUpTo(s, hist[s][n + 1].src - 1, n)'
    <3>1. item[t].src = cursors[s] + 1
      BY <1>1, <1>2, <1>3, <1>4, <1>10, <1>12, <2>5 DEF WorkOK, ItemOK
    <3> PICK c : c = cursors[s]
      OBVIOUS
    <3>2. hist'[s][n + 1].src - 1 = c /\ c = cursors'[s]
      <4>1. cursors'[s] = c /\ r.src = c + 1 /\ c \in Nat /\ hist'[s][n + 1] = r
        BY <1>1, <1>9, <1>10, <1>12, <3>1, NumberAssumption
      <4> QED BY ONLY <4>1
    <3> QED BY ONLY <2>2, <3>2
  <2>6. \A i \in 1..Len(hist'[s]) : ~hist'[s][i].full => SentUpTo(s, hist[s][i].src - 1, i - 1)'
    <3> SUFFICES ASSUME NEW i \in 1..Len(hist'[s]), ~hist'[s][i].full
                 PROVE  SentUpTo(s, hist[s][i].src - 1, i - 1)'
      OBVIOUS
    <3>1. CASE i \in 1..n
      BY <2>4, <3>1
    <3>2. CASE i = n + 1
      <4>1. i - 1 = n
        BY <1>9, <3>2
      <4> QED BY <2>5, <3>2, <4>1
    <3> QED BY <1>9, <1>12, <3>1, <3>2
  <2>7. (cursors[s] <= source[s.topic])'
    BY <1>1, <1>9
  <2>8. SentUpTo(s, cursors[s], Len(hist[s]))'
    <3> PICK c : c = cursors[s]
      OBVIOUS
    <3>1. SentUpTo(s, c, n + 1)' /\ c = cursors'[s]
      BY <1>1, <2>3
    <3> QED BY ONLY <1>12, <3>1
  <2> QED BY ONLY <2>6, <2>7, <2>8 DEF StreamOK
<1> QED BY <1>1, <1>3, <1>12, <1>13, <1>15, <1>16, <1>17, WorkStep DEF Moves

(* A record that is filtered out, and the packet of one that is not, take   *)
(* the cursor along.                                                        *)
LEMMA CursorSteps ==
    ASSUME IInv, NEW t \in Thread, ScanFilters(t) \/ Advance(t)
    PROVE  IInv'
<1>1. /\ UNCHANGED <<up, source, trimmed, hist, acked, pending, table, refs, holder, closed,
                     closing, op, mine, locked, upto, exported>>
      /\ UNCHANGED <<locks, observers>>
  BY DEF ScanFilters, Advance, NextTopic, journal, history, locks, observers, locals
<1>2. OpOK(t) /\ WorkOK(t) /\ LockTypes /\ LockInv /\ DataTypes /\ StreamInv
  BY DEF IInv, LockInv, OpInv, WorkInv
<1>3. op[t].kind \in Preparing /\ pc[t] \in Middle /\ pc[t] # "deleteCursors"
  BY <1>2 DEF ScanFilters, Advance, OpOK, Path, Preparing, Operation, Middle, Steps
<1>4. PICK s \in Stream : s = StreamOf(t) /\ s.view = ViewOf(t) /\ s.topic = Topics[at[t]]
  <2>1. StreamOf(t) \in Stream /\ StreamOf(t).view = ViewOf(t)
    BY <1>2, <1>3, StreamIsTyped DEF DataTypes, Preparing, OnView
  <2> QED BY <2>1 DEF StreamOf
<1>5. /\ cursors[s] \in 0..MaxSource /\ upto[t] \in 0..MaxSource /\ source[s.topic] \in 0..MaxSource
      /\ Len(hist[s]) \in Nat
  <2>1. s.topic \in Topic
    BY DEF Stream
  <2> QED BY <1>2, <2>1 DEF DataTypes
<1>6. Works(t, s)
  BY <1>3, <1>4 DEF Works, Preparing, OnView
<1>7. SentUpTo(s, cursors[s], Len(hist[s]))
  BY <1>2, <1>3, <1>6, NoEnding DEF StreamInv, StreamOK
<1>8. PICK c : c = IF Advance(t) THEN item[t].src ELSE cursors[s] + 1
  OBVIOUS
<1>9. /\ cursors' = [cursors EXCEPT ![s] = c] /\ c \in 0..MaxSource /\ c <= source[s.topic]
      /\ SentUpTo(s, c, Len(hist[s]))
  <2>1. CASE Advance(t)
    <3>1. /\ cursors' = [cursors EXCEPT ![s] = c] /\ pc[t] = "advance" /\ c = item[t].src
      BY <1>4, <1>8, <2>1 DEF Advance, NewCursor
    <3>2. /\ item[t].src <= source[s.topic] /\ Len(hist[s]) > 0
          /\ item[t].full \/ item[t].src = cursors[s] + 1
          /\ hist[s][Len(hist[s])] = [full |-> item[t].full, src |-> item[t].src]
      BY <1>2, <1>3, <1>4, <3>1 DEF WorkOK, ItemOK
    <3>3. item[t].src \in 0..MaxSource
      BY <1>2 DEF DataTypes, ItemType
    <3>4. \A k \in 1..c : k \in 1..cursors[s] \/ Covers(hist[s][Len(hist[s])], k)
      BY ONLY <1>5, <3>1, <3>2, <3>3 DEF Covers
    <3>5. Len(hist[s]) \in 1..Len(hist[s])
      BY ONLY <1>5, <3>2
    <3>6. SentUpTo(s, c, Len(hist[s]))
      BY ONLY <1>7, <3>4, <3>5 DEF SentUpTo
    <3> QED BY <3>1, <3>2, <3>3, <3>6
  <2>2. CASE ~Advance(t)
    <3>1. /\ cursors' = [cursors EXCEPT ![s] = c] /\ c = cursors[s] + 1
          /\ pc[t] = "scan" /\ cursors[s] < upto[t] /\ c \in Hidden
      BY <1>4, <1>8, <2>2 DEF ScanFilters
    <3>2. upto[t] <= source[s.topic]
      BY <1>2, <1>3, <1>4, <3>1 DEF WorkOK, ItemOK
    <3>3. c \in 0..MaxSource /\ c <= source[s.topic]
      BY <1>5, <3>1, <3>2, NumberAssumption
    <3>4. \A k \in 1..c : k \in 1..cursors[s] \/ k = c
      BY ONLY <1>5, <3>1
    <3>5. SentUpTo(s, c, Len(hist[s]))
      BY ONLY <1>7, <3>1, <3>4 DEF SentUpTo
    <3> QED BY <3>1, <3>3, <3>5
  <2> QED BY <2>1, <2>2
<1>10. cursors'[s] = c /\ \A r \in Stream \ {s} : cursors'[r] = cursors[r]
  BY <1>2, <1>9 DEF DataTypes
<1>11. PICK step :
          /\ step \in {"unlock", "poll", "scan"} /\ pc' = [pc EXCEPT ![t] = step]
          /\ Path(op[t].kind, step)
          /\ at' \in [Thread -> 1..Len(Topics)] /\ left' \in [Thread -> 0..MaxPackets]
          /\ item' \in [Thread -> ItemType]
          /\ step # "unlock" => op[t].kind = "flush" /\ left'[t] > 0
          /\ step = "scan" => at'[t] = at[t] /\ upto[t] <= source[s.topic]
          /\ \A u \in Thread \ {t} : at'[u] = at[u] /\ left'[u] = left[u] /\ item'[u] = item[u]
  <2>1. /\ at \in [Thread -> 1..Len(Topics)] /\ left \in [Thread -> 0..MaxPackets]
        /\ item \in [Thread -> ItemType] /\ pc \in [Thread -> Steps] /\ Len(Topics) \in Nat
    BY <1>2, TopicsAreSound DEF DataTypes, LockTypes
  <2>2. CASE ScanFilters(t)
    <3>1. pc' = pc /\ pc[t] = "scan" /\ UNCHANGED <<at, left, item>>
      BY <2>2 DEF ScanFilters, locals
    <3>2. op[t].kind = "flush"
      BY <1>2, <3>1 DEF OpOK, Path, Preparing, Operation
    <3>3. left[t] > 0 /\ upto[t] <= source[s.topic]
      BY <1>2, <1>3, <1>4, <3>1, <3>2 DEF WorkOK, ItemOK
    <3>4. pc' = [pc EXCEPT ![t] = "scan"] /\ Path(op[t].kind, "scan")
      BY <2>1, <3>1, <3>2 DEF Path
    <3> QED BY ONLY <2>1, <3>1, <3>2, <3>3, <3>4
  <2>3. CASE Advance(t)
    <3> PICK remaining : remaining = IF s.topic = "state" THEN left[t] - 1 ELSE left[t]
      OBVIOUS
    <3>1. /\ pc[t] = "advance" /\ op[t].kind \in {"snapshot", "flush"}
          /\ item' = [item EXCEPT ![t] = NoItem]
          /\ IF op[t].kind = "snapshot"
             THEN pc' = [pc EXCEPT ![t] = "unlock"] /\ at' = at /\ left' = left
             ELSE /\ left' = [left EXCEPT ![t] = remaining]
                  /\ \/ pc' = [pc EXCEPT ![t] = "unlock"] /\ at' = at
                     \/ /\ pc' = [pc EXCEPT ![t] = "poll"] /\ at' = [at EXCEPT ![t] = @ + 1]
                        /\ at[t] < Len(Topics) /\ remaining > 0
                     \/ /\ pc' = [pc EXCEPT ![t] = "scan"] /\ at' = at
                        /\ remaining # 0 /\ ~item[t].full
      BY <1>4, <2>3 DEF Advance, NextTopic, Goto
    <3>2. NoItem \in ItemType
      BY NumberAssumption DEF NoItem, ItemType
    <3>3. op[t].kind = "flush" => left[t] > 0 /\ (~item[t].full => upto[t] <= source[s.topic])
      BY <1>2, <1>3, <1>4, <3>1 DEF WorkOK, ItemOK
    <3>4. op[t].kind = "flush" => remaining \in 0..MaxPackets
      BY <2>1, <3>3, NumberAssumption
    <3>5. \A x \in {"unlock", "poll", "scan"} : op[t].kind = "flush" => Path(op[t].kind, x)
      BY DEF Path
    <3>6. op[t].kind = "snapshot" => Path(op[t].kind, "unlock")
      BY DEF Path
    <3>7. CASE op[t].kind = "snapshot"
      BY ONLY <2>1, <3>1, <3>2, <3>6, <3>7, t \in Thread
    <3>8. CASE op[t].kind # "snapshot"
      <4>1. op[t].kind = "flush"
        BY <3>1, <3>8
      <4>2. /\ item' = [item EXCEPT ![t] = NoItem] /\ left' = [left EXCEPT ![t] = remaining]
            /\ left'[t] = remaining /\ left' \in [Thread -> 0..MaxPackets]
            /\ item' \in [Thread -> ItemType]
            /\ \A u \in Thread \ {t} : left'[u] = left[u] /\ item'[u] = item[u]
        BY ONLY <2>1, <3>1, <3>2, <3>4, <3>8, <4>1, t \in Thread
      <4>3. CASE pc' = [pc EXCEPT ![t] = "unlock"] /\ at' = at
        BY ONLY <2>1, <3>5, <4>1, <4>2, <4>3
      <4>4. CASE /\ pc' = [pc EXCEPT ![t] = "poll"] /\ at' = [at EXCEPT ![t] = @ + 1]
                 /\ at[t] < Len(Topics) /\ remaining > 0
        <5>1. at' \in [Thread -> 1..Len(Topics)] /\ \A u \in Thread \ {t} : at'[u] = at[u]
          BY ONLY <2>1, <4>4, t \in Thread
        <5> QED BY ONLY <3>5, <4>1, <4>2, <4>4, <5>1
      <4>5. CASE /\ pc' = [pc EXCEPT ![t] = "scan"] /\ at' = at /\ remaining # 0 /\ ~item[t].full
        <5>1. remaining > 0
          BY ONLY <3>4, <4>1, <4>5
        <5> QED BY ONLY <2>1, <3>3, <3>5, <4>1, <4>2, <4>5, <5>1
      <4> QED BY ONLY <3>1, <3>8, <4>3, <4>4, <4>5
    <3> QED BY <3>7, <3>8
  <2> QED BY <2>2, <2>3
<1>12. Moves(t, step)
  BY <1>1, <1>3, <1>11 DEF Moves, Middle, Steps
<1>13. DataTypes'
  <2>1. cursors' \in [Stream -> 0..MaxSource]
    BY <1>2, <1>9 DEF DataTypes
  <2> QED BY <1>1, <1>2, <1>11, <2>1 DEF DataTypes
<1>14. Leaves(t)
  <2>1. \A u \in Thread \ {t} : upto'[u] = upto[u]
    BY <1>1
  <2> QED BY ONLY <1>1, <1>6, <1>10, <1>11, <2>1 DEF Leaves
<1>15. WorkOK(t)'
  <2>1. pc'[t] = step
    BY <1>2, <1>11 DEF LockTypes
  <2>2. CASE step # "scan"
    BY <1>1, <1>11, <2>1, <2>2, UnlockingIsFine
  <2>3. CASE step = "scan"
    <3>1. StreamOf(t)' = s
      BY <1>1, <1>4, <1>11, <2>3 DEF StreamOf, ViewOf
    <3> QED BY ONLY <1>1, <1>11, <2>1, <2>3, <3>1 DEF WorkOK, ItemOK, AckOK, CloseOK
  <2> QED BY <2>2, <2>3
<1>16. StreamOK(s)'
  <2>1. StreamOK(s)
    BY <1>2 DEF StreamInv
  <2>2. SentUpTo(s, c, Len(hist[s]))' /\ c = cursors'[s]
    BY ONLY <1>1, <1>9, <1>10 DEF SentUpTo
  <2>3. SentUpTo(s, cursors[s], Len(hist[s]))'
    BY ONLY <2>2
  <2> QED BY ONLY <1>1, <1>9, <1>10, <2>1, <2>3 DEF StreamOK, SentUpTo
<1>17. \A r \in Stream \ {s} : hist'[r] = hist[r] /\ cursors'[r] = cursors[r]
  BY <1>1, <1>10
<1> QED BY ONLY IInv, <1>3, <1>12, <1>13, <1>14, <1>15, <1>16, <1>17, t \in Thread, s \in Stream, WorkStep

(* An observer that is closed loses its streams, then its cursors. *)
LEMMA DeleteSteps ==
    ASSUME IInv, NEW t \in Thread, DeleteHistory(t) \/ DeleteCursors(t)
    PROVE  IInv'
<1>1. /\ UNCHANGED <<up, source, trimmed, pending, table, refs, holder, closed, closing, op, mine,
                     locked, at, upto, left, item, exported>>
      /\ UNCHANGED <<locks, observers>>
  BY DEF DeleteHistory, DeleteCursors, journal, locks, observers, locals
<1>2. OpOK(t) /\ WorkOK(t) /\ LockTypes /\ LockInv /\ DataTypes /\ StreamInv
  BY DEF IInv, LockInv, OpInv, WorkInv
<1>3. op[t].kind = "close" /\ pc[t] \in Middle
  BY <1>2 DEF DeleteHistory, DeleteCursors, OpOK, Path, Preparing, Operation, Middle, Steps
<1> DEFINE o == op[t].obs
<1>5. PICK step :
          /\ pc' = [pc EXCEPT ![t] = step] /\ step \in {"deleteCursors", "unlock"}
          /\ hist' \in [Stream -> Seq(Record)] /\ acked' \in [Stream -> Nat]
          /\ cursors' \in [Stream -> 0..MaxSource]
          /\ \A s \in Stream : s.view[1] # o => hist'[s] = hist[s] /\ cursors'[s] = cursors[s]
          /\ \A s \in Stream : \/ acked'[s] = acked[s] /\ hist'[s] = hist[s]
                               \/ acked'[s] = 0 /\ hist'[s] = <<>>
          /\ \/ \A s \in Stream : hist'[s] = hist[s] /\ cursors'[s] = cursors[s]
             \/ step = "deleteCursors" /\ cursors' = cursors
                  /\ \A s \in Stream : s.view[1] = o => hist'[s] = <<>>
             \/ hist' = hist /\ \A s \in Stream : s.view[1] = o => cursors'[s] = 0
          /\ pc[t] = "deleteHistory" \/
                (hist' = hist /\ \A s \in Stream : s.view[1] = o => cursors'[s] = 0)
  <2>1. /\ hist \in [Stream -> Seq(Record)] /\ acked \in [Stream -> Nat]
        /\ cursors \in [Stream -> 0..MaxSource]
    BY <1>2 DEF DataTypes
  <2>2. CASE DeleteHistory(t)
    <3>1. <<>> \in Seq(Record)
      OBVIOUS
    <3>2. pc[t] = "deleteHistory" /\ cursors' = cursors
      BY <2>2 DEF DeleteHistory
    <3>3. \/ /\ pc' = [pc EXCEPT ![t] = "deleteCursors"]
             /\ hist' = [s \in Stream |-> IF s.view[1] = o THEN <<>> ELSE hist[s]]
             /\ acked' = [s \in Stream |-> IF s.view[1] = o THEN 0 ELSE acked[s]]
          \/ pc' = [pc EXCEPT ![t] = "unlock"] /\ hist' = hist /\ acked' = acked
      BY <2>2 DEF DeleteHistory, Goto, history
    <3>4. CASE /\ pc' = [pc EXCEPT ![t] = "deleteCursors"]
               /\ hist' = [s \in Stream |-> IF s.view[1] = o THEN <<>> ELSE hist[s]]
               /\ acked' = [s \in Stream |-> IF s.view[1] = o THEN 0 ELSE acked[s]]
      <4>1. \A s \in Stream :
                /\ s.view[1] = o => hist'[s] = <<>> /\ acked'[s] = 0
                /\ s.view[1] # o => hist'[s] = hist[s] /\ acked'[s] = acked[s]
        BY ONLY <3>4
      <4>2. hist' \in [Stream -> Seq(Record)] /\ acked' \in [Stream -> Nat]
        BY ONLY <2>1, <3>1, <3>4
      <4> QED BY ONLY <2>1, <3>2, <3>4, <4>1, <4>2
    <3>5. CASE pc' = [pc EXCEPT ![t] = "unlock"] /\ hist' = hist /\ acked' = acked
      BY ONLY <2>1, <3>2, <3>5
    <3> QED BY ONLY <3>3, <3>4, <3>5
  <2>3. CASE DeleteCursors(t)
    <3>1. /\ pc' = [pc EXCEPT ![t] = "unlock"] /\ hist' = hist /\ acked' = acked
          /\ cursors' = [s \in Stream |-> IF s.view[1] = o THEN 0 ELSE cursors[s]]
      BY <2>3 DEF DeleteCursors, Goto, history
    <3>2. \A s \in Stream : /\ s.view[1] = o => cursors'[s] = 0
                            /\ s.view[1] # o => cursors'[s] = cursors[s]
      BY ONLY <3>1
    <3>3. cursors' \in [Stream -> 0..MaxSource]
      BY ONLY <2>1, <3>1, NumberAssumption
    <3> QED BY ONLY <2>1, <3>1, <3>2, <3>3
  <2> QED BY <2>2, <2>3
<1>6. Moves(t, step)
  BY <1>1, <1>3, <1>5 DEF Moves, Middle, Steps, Path
<1>7. LockInv' /\ pc'[t] = step /\ \A u \in Thread \ {t} : pc'[u] = pc[u]
  BY <1>2, <1>6, KeepsLocks
<1>8. DataTypes'
  <2>1. \A s \in Stream : Len(hist'[s]) <= MaxLatest /\ acked'[s] <= Len(hist'[s])
    <3> SUFFICES ASSUME NEW s \in Stream
                 PROVE  Len(hist'[s]) <= MaxLatest /\ acked'[s] <= Len(hist'[s])
      OBVIOUS
    <3>1. Len(hist[s]) <= MaxLatest /\ acked[s] <= Len(hist[s])
      BY <1>2 DEF DataTypes
    <3>2. \/ acked'[s] = acked[s] /\ hist'[s] = hist[s]
          \/ acked'[s] = 0 /\ hist'[s] = <<>>
      BY ONLY <1>5, s \in Stream
    <3>3. Len(<<>>) = 0 /\ 0 <= 0
      OBVIOUS
    <3>4. 0 <= MaxLatest
      BY NumberAssumption
    <3> QED BY ONLY <3>1, <3>2, <3>3, <3>4
  <2> QED BY ONLY <1>1, <1>2, <1>5, <2>1 DEF DataTypes
<1>9. Leaves(t)
  <2>1. \A s \in Stream : s.view[1] = o => Works(t, s)
    BY <1>3 DEF Works
  <2> QED BY ONLY <1>1, <1>5, <2>1 DEF Leaves
<1>10. WorkOK(t)'
  <2>1. CloseOK(t)'
    <3>1. CASE pc[t] = "deleteHistory"
      <4>1. step = "deleteCursors" => DeleteHistory(t) /\ pc' = [pc EXCEPT ![t] = "deleteCursors"]
        BY <1>5, <3>1 DEF DeleteCursors
      <4>2. step = "deleteCursors" => \A s \in Stream : s.view[1] = o => hist'[s] = <<>>
        <5> SUFFICES ASSUME step = "deleteCursors"
                     PROVE  hist' = [s \in Stream |-> IF s.view[1] = o THEN <<>> ELSE hist[s]]
          OBVIOUS
        <5>1. pc'[t] = "deleteCursors"
          BY <1>7
        <5>2. ~(pc' = [pc EXCEPT ![t] = "unlock"])
          BY <1>2, <5>1 DEF LockTypes
        <5> QED BY <4>1, <5>2 DEF DeleteHistory, Goto
      <4> QED BY <1>1, <1>7, <4>2 DEF CloseOK
    <3>2. CASE pc[t] # "deleteHistory"
      <4>1. pc' = [pc EXCEPT ![t] = "unlock"]
        BY <3>2 DEF DeleteHistory, DeleteCursors, Goto
      <4>2. pc'[t] # "deleteCursors"
        BY <1>2, <4>1 DEF LockTypes
      <4> QED BY <4>2 DEF CloseOK
    <3> QED BY <3>1, <3>2
  <2> QED BY ONLY <1>1, <1>3, <1>5, <1>7, <2>1 DEF WorkOK, ItemOK, AckOK, Preparing
<1>11. WorkInv'
  BY <1>6, <1>9, <1>10, OthersKeep DEF IInv
<1>12. StreamInv'
  <2> SUFFICES ASSUME NEW s \in Stream PROVE StreamOK(s)'
    BY DEF StreamInv
  <2>1. StreamOK(s) /\ cursors[s] \in 0..MaxSource /\ source[s.topic] \in 0..MaxSource
    BY <1>2 DEF StreamInv, DataTypes, Stream
  <2>2. CASE s.view[1] # o
    <3>1. Ending(s) => Ending(s)'
      BY <1>1, <1>7, <2>2 DEF Ending
    <3> QED BY <1>1, <1>5, <2>1, <2>2, <3>1, StreamStays
  <2>3. CASE s.view[1] = o /\ hist' = hist /\ cursors'[s] = 0
    <3>1. SentUpTo(s, 0, Len(hist[s]))
      BY DEF SentUpTo
    <3> QED BY ONLY <1>1, <2>1, <2>3, <3>1 DEF StreamOK, SentUpTo
  <2>4. CASE s.view[1] = o /\ step = "deleteCursors" /\ hist'[s] = <<>> /\ cursors' = cursors
    <3>1. Ending(s)'
      BY <1>1, <1>7, <2>4 DEF Ending
    <3>2. Len(hist'[s]) = 0
      BY <2>4
    <3> QED BY ONLY <1>1, <2>1, <2>4, <3>1, <3>2 DEF StreamOK
  <2>5. CASE pc[t] = "deleteHistory" /\ hist'[s] = hist[s] /\ cursors'[s] = cursors[s]
    <3>1. Ending(s) => Ending(s)'
      BY <1>1, <1>7, <2>5 DEF Ending
    <3> QED BY <1>1, <2>1, <2>5, <3>1, StreamStays
  <2> QED BY <1>5, <2>2, <2>3, <2>4, <2>5
<1> QED BY <1>7, <1>8, <1>11, <1>12 DEF IInv

-----------------------------------------------------------------------------
(* The locks.  A step outside the middle of an operation leaves the data as *)
(* it is.                                                                   *)
Outside(t) ==
    /\ UNCHANGED <<source, trimmed, hist, acked, cursors, pending>>
    /\ \A u \in Thread \ {t} : /\ pc'[u] = pc[u] /\ op'[u] = op[u] /\ at'[u] = at[u]
                               /\ upto'[u] = upto[u] /\ left'[u] = left[u] /\ item'[u] = item[u]
    /\ pc[t] # "deleteCursors"
    /\ pc'[t] \in {"idle", "lock", "unlock", "unref", "snap", "poll", "validate", "recover",
                   "discard", "export"}
    /\ op'[t].kind = "flush" => left'[t] > 0 \/ pc'[t] \in {"idle", "lock", "unlock", "unref"}
    /\ pc'[t] = "export" => op'[t].kind = "reconcile"

(* It keeps the invariant when it keeps the locks in order.                 *)
LEMMA OutsideStep ==
    ASSUME IInv, NEW t \in Thread, Outside(t), LockInv', at' \in [Thread -> 1..Len(Topics)],
           upto' \in [Thread -> 0..MaxSource], left' \in [Thread -> 0..MaxPackets],
           item' \in [Thread -> ItemType], exported' \in [Thread -> SUBSET PacketID]
    PROVE  IInv'
<1>1. DataTypes'
  <2>1. DataTypes /\ UNCHANGED <<source, trimmed, hist, acked, cursors, pending>>
    BY DEF IInv, Outside
  <2> QED BY <2>1, KeepsTypes DEF DataTypes
<1>2. WorkInv'
  <2> SUFFICES ASSUME NEW u \in Thread PROVE WorkOK(u)'
    BY DEF WorkInv
  <2>1. WorkOK(u) /\ UNCHANGED <<source, hist, cursors>>
    BY DEF IInv, WorkInv, Outside
  <2>2. CASE u = t
    BY ONLY <2>2, Outside(t) DEF Outside, WorkOK, ItemOK, AckOK, CloseOK, Middle, Steps, Preparing
  <2>3. CASE u # t
    <3>1. /\ pc'[u] = pc[u] /\ op'[u] = op[u] /\ at'[u] = at[u]
          /\ upto'[u] = upto[u] /\ left'[u] = left[u] /\ item'[u] = item[u]
      BY <2>3 DEF Outside
    <3>2. StreamOf(u)' = StreamOf(u)
      BY <3>1 DEF StreamOf, ViewOf
    <3> QED BY ONLY <2>1, <3>1, <3>2 DEF WorkOK, ItemOK, AckOK, CloseOK
  <2> QED BY <2>2, <2>3
<1>3. StreamInv'
  <2> SUFFICES ASSUME NEW s \in Stream PROVE StreamOK(s)'
    BY DEF StreamInv
  <2>1. StreamOK(s) /\ UNCHANGED <<source, hist, cursors>>
    BY DEF IInv, StreamInv, Outside
  <2>2. Ending(s) => Ending(s)'
    BY DEF Ending, Outside
  <2> QED BY <2>1, <2>2, StreamStays
<1> QED BY <1>1, <1>2, <1>3 DEF IInv

(* Who refers to an entry is counted. *)
LEMMA OneMore ==
    ASSUME NEW S, NEW t \in Thread, S \subseteq Thread, t \notin S
    PROVE  Cardinality(S \cup {t}) = Cardinality(S) + 1
<1>1. IsFiniteSet(S)
  BY FiniteAssumption, FS_Subset
<1> QED BY <1>1, FS_AddElement

(* Who lets it go was counted, and unless it was the only one, another one  *)
(* is left.                                                                 *)
LEMMA OneLess ==
    ASSUME NEW S, NEW t \in S, S \subseteq Thread
    PROVE  /\ Cardinality(S \ {t}) = Cardinality(S) - 1 /\ Cardinality(S) \in Nat \ {0}
           /\ Cardinality(S) # 1 => S \ {t} # {}
<1>1. IsFiniteSet(S)
  BY FiniteAssumption, FS_Subset
<1>2. Cardinality(S \ {t}) = Cardinality(S) - 1 /\ Cardinality(S) \in Nat /\ Cardinality(S) # 0
  BY <1>1, FS_RemoveElement, FS_CardinalityType, FS_EmptySet
<1>3. S \ {t} = {} => Cardinality(S) = 1
  <2>1. Cardinality({}) = 0
    BY FS_EmptySet
  <2> QED BY ONLY <1>2, <2>1
<1> QED BY <1>2, <1>3

(* Goroutines share entries.                                                *)
LEMMA SharingIsFinite == \A e : Sharing(e) \subseteq Thread
  BY DEF Sharing

(* Whoever is idle has nothing. *)
LEMMA IdleHasNothing ==
    ASSUME LockInv, NEW t \in Thread, pc[t] = "idle"
    PROVE  op[t].kind = "none" /\ mine[t] = {} /\ locked[t] = {}
<1>1. OpOK(t) /\ locked[t] \subseteq mine[t]
  BY DEF LockInv, OpInv, TableInv
<1>2. op[t].kind = "none"
  BY <1>1 DEF OpOK, Path, Preparing, Operation
<1> QED BY <1>1, <1>2 DEF OpOK

(* The others stand where they stood. *)
LEMMA OthersStand ==
    ASSUME LockInv, NEW t \in Thread,
           \A u \in Thread \ {t} :
               op[u].kind = "close" /\ op[u].obs \in closing => op[u].obs \in closing',
           \A u \in Thread \ {t} : /\ pc'[u] = pc[u] /\ op'[u] = op[u]
                                   /\ mine'[u] = mine[u] /\ locked'[u] = locked[u]
    PROVE  \A u \in Thread \ {t} : OpOK(u)'
<1> SUFFICES ASSUME NEW u \in Thread \ {t} PROVE OpOK(u)'
  OBVIOUS
<1>1. OpOK(u)
  BY DEF LockInv, OpInv
<1>2. /\ pc'[u] = pc[u] /\ op'[u] = op[u] /\ mine'[u] = mine[u] /\ locked'[u] = locked[u]
      /\ op[u].kind = "close" /\ op[u].obs \in closing => op[u].obs \in closing'
  OBVIOUS
<1> QED BY ONLY <1>1, <1>2 DEF OpOK, ViewOf

(* An operation refers to the entry of its view, an old or a new one. *)
LEMMA AcquireStep ==
    ASSUME IInv, NEW t \in Thread, NEW kind \in OnView, NEW v \in View, NEW i \in 1..Len(Topics),
           NEW n \in 0..MaxLatest, Acquire(t, kind, v, i, n)
    PROVE  IInv'
<1>1. LockInv /\ LockTypes /\ DataTypes /\ TableInv /\ HolderInv /\ CloserInv /\ pc[t] = "idle"
  BY DEF IInv, LockInv, Acquire
<1>2. op[t].kind = "none" /\ mine[t] = {} /\ locked[t] = {}
  BY <1>1, IdleHasNothing
<1>3. PICK e : e = IF table[v] = None THEN CHOOSE f \in Entry : Free(f) ELSE table[v]
  OBVIOUS
<1>4. /\ e \in Entry /\ e # None
      /\ table[v] # None => table[v] = e
      /\ table[v] = None => \A w \in View : table[w] # e
  <2>1. CASE table[v] = None
    <3>1. \E f \in Entry : Free(f)
      BY <2>1 DEF Acquire
    <3>2. e \in Entry /\ Free(e)
      BY <1>3, <2>1, <3>1
    <3> QED BY <2>1, <3>2, NoneAssumption DEF Free
  <2>2. CASE table[v] # None
    BY <1>1, <1>3, <2>2, NoneAssumption DEF LockTypes
  <2> QED BY <2>1, <2>2
<1>5. /\ table' = [table EXCEPT ![v] = e] /\ refs' = [refs EXCEPT ![e] = @ + 1]
      /\ mine' = [mine EXCEPT ![t] = {<<v, e>>}] /\ pc' = [pc EXCEPT ![t] = "lock"]
      /\ op' = [op EXCEPT ![t] = [kind |-> kind, obs |-> v[1], key |-> v[2], seq |-> n]]
      /\ at' = [at EXCEPT ![t] = i] /\ v[1] \notin closed
  BY <1>3 DEF Acquire, Goto
<1>6. UNCHANGED <<up, source, trimmed, hist, acked, pending, cursors, holder, closed, closing,
                  locked, upto, left, item, exported>>
  BY DEF Acquire, journal, history, observers
<1>7. /\ pc'[t] = "lock" /\ mine'[t] = {<<v, e>>} /\ locked'[t] = {}
      /\ op'[t] = [kind |-> kind, obs |-> v[1], key |-> v[2], seq |-> n]
      /\ table'[v] = e /\ \A w \in View \ {v} : table'[w] = table[w]
      /\ \A u \in Thread \ {t} : /\ pc'[u] = pc[u] /\ op'[u] = op[u] /\ mine'[u] = mine[u]
                                 /\ locked'[u] = locked[u] /\ at'[u] = at[u]
  BY <1>1, <1>2, <1>5, <1>6 DEF LockTypes, DataTypes
<1>8. v[1] \in Observer /\ v[2] \in Nat /\ v = <<v[1], v[2]>>
  BY ViewsArePairs
<1>9. LockTypes'
  <2>1. op'[t] \in OpType
    BY <1>7, <1>8 DEF OpType, OnView, Operation
  <2>2. op' \in [Thread -> OpType]
    BY <1>1, <1>5, <1>7, <2>1 DEF LockTypes
  <2>3. table' \in [View -> Entry \cup {None}] /\ refs' \in [Entry -> Nat]
    <3>1. table \in [View -> Entry \cup {None}] /\ refs \in [Entry -> Nat]
      BY <1>1 DEF LockTypes
    <3>2. table' = [table EXCEPT ![v] = e] /\ refs' = [refs EXCEPT ![e] = @ + 1] /\ e \in Entry
      BY <1>4, <1>5
    <3>3. table' \in [View -> Entry \cup {None}]
      BY ONLY <3>1, <3>2
    <3>4. refs' \in [Entry -> Nat]
      BY ONLY <3>1, <3>2
    <3> QED BY <3>3, <3>4
  <2>4. mine' \in [Thread -> SUBSET (View \X Entry)]
    <3>1. {<<v, e>>} \in SUBSET (View \X Entry)
      BY ONLY <1>4, v \in View
    <3>2. mine \in [Thread -> SUBSET (View \X Entry)]
      BY <1>1 DEF LockTypes
    <3> HIDE DEF View
    <3> QED BY ONLY <1>5, <3>1, <3>2
  <2>5. pc' \in [Thread -> Steps]
    BY <1>1, <1>5 DEF LockTypes, Steps
  <2> QED BY <1>1, <1>6, <2>2, <2>3, <2>4, <2>5 DEF LockTypes
<1>10. OpInv'
  <2>1. \A u \in Thread \ {t} : OpOK(u)'
    BY ONLY <1>1, <1>6, <1>7, t \in Thread, OthersStand
  <2>2. OpOK(t)'
    <3>1. ViewOf(t)' = v
      BY <1>7, <1>8 DEF ViewOf
    <3>2. Path(kind, "lock") /\ kind \notin {"none", "open", "close", "reconcile"}
      BY DEF Path, OnView
    <3>3. "lock" \notin Middle
      BY DEF Middle, Steps
    <3>4. mine'[t] = {<<ViewOf(t)', e>>}
      BY ONLY <1>7, <3>1
    <3>5. ViewOf(t)' \in View
      BY <3>1
    <3> QED BY ONLY <1>4, <1>7, <3>2, <3>3, <3>4, <3>5 DEF OpOK
  <2> QED BY <2>1, <2>2 DEF OpInv
<1>11. \A u \in Thread, w \in View, f \in Entry : <<w, f>> \in mine[u] => table'[w] = table[w]
  <2> SUFFICES ASSUME NEW u \in Thread, NEW w \in View, NEW f \in Entry, <<w, f>> \in mine[u]
               PROVE  table'[w] = table[w]
    OBVIOUS
  <2>1. table[w] = f /\ f # None
    BY <1>1, NoneAssumption DEF TableInv
  <2>2. CASE w = v
    BY ONLY <1>4, <1>7, <2>1, <2>2
  <2>3. CASE w # v
    BY ONLY <1>7, <2>3, w \in View
  <2> QED BY <2>2, <2>3
<1>12. TableInv'
  <2>1. \A u \in Thread : locked'[u] \subseteq mine'[u]
    BY <1>1, <1>7 DEF TableInv
  <2>2. \A u \in Thread, w \in View, f \in Entry : <<w, f>> \in mine'[u] => table'[w] = f
    <3> SUFFICES ASSUME NEW u \in Thread, NEW w \in View, NEW f \in Entry, <<w, f>> \in mine'[u]
                 PROVE  table'[w] = f
      OBVIOUS
    <3>1. CASE u = t
      BY <1>7, <3>1
    <3>2. CASE u # t
      <4>1. <<w, f>> \in mine[u]
        BY <1>7, <3>2
      <4> QED BY <1>1, <1>11, <4>1 DEF TableInv
    <3> QED BY <3>1, <3>2
  <2>3. \A w \in View : table'[w] # None => \E u \in Thread : <<w, table'[w]>> \in mine'[u]
    <3> SUFFICES ASSUME NEW w \in View, w # v, table'[w] # None
                 PROVE  \E u \in Thread : <<w, table'[w]>> \in mine'[u]
      BY <1>7
    <3>1. PICK u \in Thread : <<w, table[w]>> \in mine[u]
      BY <1>1, <1>7 DEF TableInv
    <3> QED BY <1>2, <1>7, <3>1
  <2>4. \A w, x \in View : table'[w] = table'[x] /\ table'[w] # None => w = x
    <3> SUFFICES ASSUME NEW w \in View, NEW x \in View, table'[w] = table'[x], table'[w] # None
                 PROVE  w = x
      OBVIOUS
    <3>1. table[w] = table[x] /\ table[w] # None => w = x
      BY <1>1 DEF TableInv
    <3>2. \A y \in View : y # v => table[y] # e
      <4> SUFFICES ASSUME NEW y \in View, y # v, table[y] = e PROVE FALSE
        OBVIOUS
      <4>1. table[v] = e
        BY <1>4
      <4> QED BY <1>1, <1>4, <4>1 DEF TableInv
    <3>3. \A y \in View \ {v} : table'[y] = table[y]
      BY <1>7
    <3>4. CASE w = v /\ x # v
      <4>1. table'[x] # e
        BY <3>2, <3>3, <3>4
      <4> QED BY <1>7, <3>4, <4>1
    <3>5. CASE w # v /\ x = v
      <4>1. table'[w] # e
        BY <3>2, <3>3, <3>5
      <4> QED BY <1>7, <3>5, <4>1
    <3>6. CASE w # v /\ x # v
      <4>1. table'[w] = table[w] /\ table'[x] = table[x]
        BY <3>3, <3>6
      <4> QED BY <3>1, <4>1
    <3> QED BY <3>4, <3>5, <3>6
  <2>5. \A f \in Entry : refs'[f] = Cardinality(Sharing(f)')
    <3> SUFFICES ASSUME NEW f \in Entry PROVE refs'[f] = Cardinality(Sharing(f)')
      OBVIOUS
    <3>1. refs[f] = Cardinality(Sharing(f)) /\ refs[f] \in Nat /\ t \notin Sharing(f)
      BY <1>1, <1>2 DEF TableInv, LockTypes, Sharing
    <3>2. CASE f = e
      <4>1. Sharing(f)' = Sharing(f) \cup {t}
        BY ONLY <1>2, <1>7, <3>2, v \in View, t \in Thread DEF Sharing
      <4>2. refs'[f] = refs[f] + 1
        BY <1>1, <1>5, <3>2 DEF LockTypes
      <4>3. Cardinality(Sharing(f) \cup {t}) = Cardinality(Sharing(f)) + 1
        BY ONLY <3>1, SharingIsFinite, OneMore, t \in Thread
      <4> QED BY ONLY <3>1, <4>1, <4>2, <4>3
    <3>3. CASE f # e
      <4>1. Sharing(f)' = Sharing(f)
        <5>1. \A u \in Thread : (\E w \in View : <<w, f>> \in mine'[u])
                                 <=> \E w \in View : <<w, f>> \in mine[u]
          <6> SUFFICES ASSUME NEW u \in Thread
                       PROVE  (\E w \in View : <<w, f>> \in mine'[u])
                              <=> \E w \in View : <<w, f>> \in mine[u]
            OBVIOUS
          <6>1. CASE u = t
            <7>1. \A w \in View : <<w, f>> \notin mine'[t] /\ <<w, f>> \notin mine[t]
              BY <1>2, <1>7, <3>3
            <7> QED BY <6>1, <7>1
          <6>2. CASE u # t
            BY <1>7, <6>2
          <6> QED BY <6>1, <6>2
        <5> QED BY ONLY <5>1 DEF Sharing
      <4>2. refs'[f] = refs[f]
        BY <1>1, <1>5, <3>3 DEF LockTypes
      <4> QED BY ONLY <3>1, <4>1, <4>2
    <3> QED BY <3>2, <3>3
  <2> QED BY <2>1, <2>2, <2>3, <2>4, <2>5 DEF TableInv
<1>13. HolderInv'
  BY ONLY <1>1, <1>6 DEF HolderInv
<1>14. CloserInv'
  <2>1. op'[t].kind # "close"
    BY <1>7 DEF OnView
  <2>2. \A u \in Thread : op[u].kind = "close" => op[u].obs # v[1]
    BY <1>1, <1>5 DEF LockInv, OpInv, OpOK, LockTypes
  <2>3. \A u \in Thread, w \in View :
            op'[u].kind = "close" /\ w[1] = op'[u].obs /\ table'[w] # None =>
                <<w, table'[w]>> \in mine'[u]
    BY <1>1, <1>7, <2>1, <2>2 DEF CloserInv
  <2>4. \A u, w \in Thread :
            op'[u].kind = "close" /\ op'[w].kind = "close" /\ op'[u].obs = op'[w].obs => u = w
    BY <1>1, <1>7, <2>1 DEF CloserInv
  <2> QED BY <2>3, <2>4 DEF CloserInv
<1>15. LockInv'
  BY <1>9, <1>10, <1>12, <1>13, <1>14 DEF LockInv
<1>16. Outside(t)
  BY <1>1, <1>6, <1>7 DEF Outside
<1>17. at' \in [Thread -> 1..Len(Topics)]
  BY <1>1, <1>5 DEF DataTypes
<1> QED BY <1>1, <1>6, <1>15, <1>16, <1>17, OutsideStep DEF DataTypes

(* The mutex of an entry is taken by one goroutine at a time. *)
LEMMA LockStep ==
    ASSUME IInv, NEW t \in Thread, Lock(t)
    PROVE  IInv'
<1>1. LockInv /\ LockTypes /\ DataTypes /\ TableInv /\ HolderInv /\ CloserInv /\ OpOK(t)
      /\ pc[t] = "lock"
  BY DEF IInv, LockInv, OpInv, Lock
<1>2. PICK pair \in mine[t] \ locked[t] :
          /\ holder[pair[2]] = None /\ holder' = [holder EXCEPT ![pair[2]] = t]
          /\ locked' = [locked EXCEPT ![t] = @ \cup {pair}]
          /\ Goto(t, IF locked'[t] = mine[t] THEN FirstStep(op[t].kind) ELSE "lock")
  BY DEF Lock
<1>3. UNCHANGED <<up, source, trimmed, hist, acked, pending, cursors, table, refs, closed, closing,
                  op, mine, at, upto, item, exported>>
      /\ left' = [left EXCEPT ![t] = IF op[t].kind = "flush" THEN MaxPackets ELSE 0]
  BY DEF Lock, journal, history, observers
<1>4. PICK w \in View, e \in Entry : pair = <<w, e>>
  <2>1. mine[t] \subseteq View \X Entry
    BY <1>1 DEF LockTypes
  <2> QED BY <2>1
<1>5. holder[e] = None /\ holder' = [holder EXCEPT ![e] = t]
  BY <1>2, <1>4
<1>6. PICK step : step = IF locked'[t] = mine[t] THEN FirstStep(op[t].kind) ELSE "lock"
  OBVIOUS
<1>7. /\ pc'[t] = step /\ locked'[t] = locked[t] \cup {pair} /\ holder'[e] = t
      /\ \A u \in Thread \ {t} : pc'[u] = pc[u] /\ locked'[u] = locked[u] /\ left'[u] = left[u]
      /\ \A f \in Entry \ {e} : holder'[f] = holder[f]
      /\ left'[t] = IF op[t].kind = "flush" THEN MaxPackets ELSE 0
  BY <1>1, <1>2, <1>3, <1>5, <1>6 DEF LockTypes, DataTypes, Goto
<1>8. /\ op[t].kind \in OnView \cup {"close"}
      /\ \/ step = "lock"
         \/ locked'[t] = mine[t] /\ step = FirstStep(op[t].kind)
  BY <1>1, <1>6 DEF OpOK, Path, LockTypes, OpType, Operation, OnView
<1>9. /\ step \in {"lock", "snap", "poll", "validate", "recover", "discard"}
      /\ Path(op[t].kind, step)
      /\ step \in Middle => locked'[t] = mine[t]
  <2>1. "lock" \notin Middle
    BY DEF Middle
  <2> QED BY ONLY <1>8, <2>1 DEF OnView, Path, FirstStep, Preparing, Operation
<1>10. LockTypes'
  <2>1. step \in Steps
    BY <1>9 DEF Steps
  <2>2. pc' \in [Thread -> Steps]
    BY <1>1, <1>2, <1>6, <2>1 DEF LockTypes, Goto
  <2>3. holder' \in [Entry -> Thread \cup {None}]
    BY <1>1, <1>5 DEF LockTypes
  <2>4. locked' \in [Thread -> SUBSET (View \X Entry)]
    <3>1. locked \in [Thread -> SUBSET (View \X Entry)] /\ mine[t] \in SUBSET (View \X Entry)
      BY <1>1 DEF LockTypes
    <3> QED BY ONLY <1>2, <3>1
  <2> QED BY ONLY <1>1, <1>3, <2>2, <2>3, <2>4 DEF LockTypes, OpType
<1>11. OpInv'
  <2>1. \A u \in Thread \ {t} : OpOK(u)'
    BY ONLY <1>1, <1>3, <1>7, t \in Thread, OthersStand
  <2>2. OpOK(t)'
    <3>1. pc'[t] # "unref"
      BY ONLY <1>7, <1>9
    <3> QED BY ONLY <1>1, <1>3, <1>7, <1>9, <3>1 DEF OpOK, ViewOf
  <2> QED BY <2>1, <2>2 DEF OpInv
<1>12. TableInv'
  <2>1. \A u \in Thread : locked'[u] \subseteq mine'[u]
    BY <1>1, <1>2, <1>3, <1>7 DEF TableInv
  <2> QED BY ONLY <1>1, <1>3, <2>1 DEF TableInv, Sharing
<1>13. HolderInv'
  <2> SUFFICES ASSUME NEW u \in Thread, NEW v \in View, NEW f \in Entry, <<v, f>> \in locked'[u]
               PROVE  holder'[f] = u
    BY DEF HolderInv
  <2>1. CASE <<v, f>> \in locked[u]
    <3>1. holder[f] = u /\ u # None
      BY <1>1, <2>1, NoneAssumption DEF HolderInv
    <3>2. f # e
      BY <1>5, <3>1
    <3> QED BY <1>7, <3>1, <3>2
  <2>2. CASE <<v, f>> \notin locked[u]
    <3>1. u = t /\ <<v, f>> = <<w, e>>
      BY <1>4, <1>7, <2>2
    <3> QED BY <1>7, <3>1
  <2> QED BY <2>1, <2>2
<1>14. CloserInv'
  BY ONLY <1>1, <1>3 DEF CloserInv
<1>15. LockInv'
  BY <1>10, <1>11, <1>12, <1>13, <1>14 DEF LockInv
<1>16. MaxPackets \in Nat /\ MaxPackets > 0
  BY NumberAssumption
<1>17. Outside(t)
  <2>1. op'[t].kind = "flush" => left'[t] > 0
    BY <1>3, <1>7, <1>16
  <2> QED BY <1>1, <1>3, <1>7, <1>9, <2>1 DEF Outside
<1>18. left' \in [Thread -> 0..MaxPackets]
  <2>1. (IF op[t].kind = "flush" THEN MaxPackets ELSE 0) \in 0..MaxPackets
    BY <1>16
  <2>2. left \in [Thread -> 0..MaxPackets]
    BY <1>1 DEF DataTypes
  <2> QED BY ONLY <1>3, <2>1, <2>2
<1> QED BY <1>1, <1>3, <1>15, <1>17, <1>18, OutsideStep DEF DataTypes

(* It is given back before the entry is let go. *)
LEMMA UnlockStep ==
    ASSUME IInv, NEW t \in Thread, Unlock(t)
    PROVE  IInv'
<1>1. LockInv /\ LockTypes /\ DataTypes /\ TableInv /\ HolderInv /\ CloserInv /\ OpOK(t)
      /\ pc[t] = "unlock"
  BY DEF IInv, LockInv, OpInv, Unlock
<1>2. UNCHANGED <<up, source, trimmed, hist, acked, pending, cursors, table, refs, closed, closing,
                  op, mine, at, upto, left, item, exported>>
  BY DEF Unlock, journal, history, observers, locals
<1>3. PICK step \in {"unlock", "unref"} :
          /\ pc' = [pc EXCEPT ![t] = step]
          /\ \/ step = "unref" /\ locked[t] = {} /\ holder' = holder /\ locked' = locked
             \/ \E pair \in locked[t] : /\ holder' = [holder EXCEPT ![pair[2]] = None]
                                        /\ locked' = [locked EXCEPT ![t] = @ \ {pair}]
                                        /\ step = IF locked'[t] = {} THEN "unref" ELSE "unlock"
  BY DEF Unlock, Goto
<1>4. /\ pc'[t] = step /\ \A u \in Thread \ {t} : pc'[u] = pc[u] /\ locked'[u] = locked[u]
      /\ locked'[t] \subseteq locked[t]
      /\ step = "unref" => locked'[t] = {}
  BY <1>1, <1>3 DEF LockTypes
<1>5. op[t].kind # "none"
  BY <1>1 DEF OpOK, Path
<1>6. \A u \in Thread, v \in View, f \in Entry :
          <<v, f>> \in locked'[u] => holder'[f] = u
  <2> SUFFICES ASSUME NEW u \in Thread, NEW v \in View, NEW f \in Entry, <<v, f>> \in locked'[u]
               PROVE  holder'[f] = u
    OBVIOUS
  <2>1. <<v, f>> \in locked[u] /\ holder[f] = u
    BY <1>1, <1>4 DEF HolderInv
  <2>2. CASE holder' = holder
    BY <2>1, <2>2
  <2>3. ASSUME NEW pair \in locked[t], holder' = [holder EXCEPT ![pair[2]] = None],
               locked' = [locked EXCEPT ![t] = @ \ {pair}]
        PROVE  holder'[f] = u
    <3>1. locked[t] \subseteq View \X Entry /\ locked[t] \subseteq mine[t]
      BY <1>1 DEF LockTypes, TableInv
    <3>2. PICK w \in View, e \in Entry : pair = <<w, e>>
      BY <3>1
    <3>3. holder[e] = t /\ table[w] = e
      BY <1>1, <2>3, <3>1, <3>2 DEF HolderInv, TableInv
    <3>4. f # e
      <4> SUFFICES ASSUME f = e PROVE FALSE
        OBVIOUS
      <4>1. u = t /\ <<v, f>> \in mine[t]
        BY <2>1, <3>1, <3>3
      <4>2. table[v] = e /\ e # None
        BY <1>1, <4>1, NoneAssumption DEF TableInv
      <4>3. v = w
        BY <1>1, <3>3, <4>2 DEF TableInv
      <4>4. locked'[t] = locked[t] \ {pair}
        BY <1>1, <2>3 DEF LockTypes
      <4> QED BY <3>2, <4>1, <4>3, <4>4
    <3>5. holder'[f] = holder[f]
      BY <1>1, <2>3, <3>2, <3>4 DEF LockTypes
    <3> QED BY <2>1, <3>5
  <2> QED BY <1>3, <2>2, <2>3
<1>7. LockTypes'
  <2>1. pc' \in [Thread -> Steps]
    BY <1>1, <1>3 DEF LockTypes, Steps
  <2>2. holder' \in [Entry -> Thread \cup {None}]
    BY <1>1, <1>3 DEF LockTypes
  <2>3. locked' \in [Thread -> SUBSET (View \X Entry)]
    <3>1. locked \in [Thread -> SUBSET (View \X Entry)]
      BY <1>1 DEF LockTypes
    <3> QED BY ONLY <1>3, <3>1
  <2> QED BY ONLY <1>1, <1>2, <2>1, <2>2, <2>3 DEF LockTypes, OpType
<1>8. OpInv'
  <2>1. \A u \in Thread \ {t} : OpOK(u)'
    BY ONLY <1>1, <1>2, <1>4, t \in Thread, OthersStand
  <2>2. OpOK(t)'
    <3>1. pc'[t] \notin Middle /\ Path(op[t].kind, pc'[t])
      BY <1>4, <1>5 DEF Middle, Path
    <3>2. pc'[t] = "unref" => locked'[t] = {}
      BY <1>4
    <3> QED BY ONLY <1>1, <1>2, <3>1, <3>2 DEF OpOK, ViewOf
  <2> QED BY <2>1, <2>2 DEF OpInv
<1>9. TableInv'
  <2>1. \A u \in Thread : locked'[u] \subseteq mine'[u]
    BY <1>1, <1>2, <1>4 DEF TableInv
  <2> QED BY ONLY <1>1, <1>2, <2>1 DEF TableInv, Sharing
<1>10. HolderInv' /\ CloserInv'
  <2>1. CloserInv'
    BY ONLY <1>1, <1>2 DEF CloserInv
  <2> QED BY <1>6, <2>1 DEF HolderInv
<1>11. LockInv'
  BY <1>7, <1>8, <1>9, <1>10 DEF LockInv
<1>12. Outside(t)
  BY <1>1, <1>2, <1>4 DEF Outside
<1> QED BY <1>1, <1>2, <1>11, <1>12, OutsideStep DEF DataTypes

(* The last reference takes the entry out of the table. *)
LEMMA UnrefStep ==
    ASSUME IInv, NEW t \in Thread, Unref(t)
    PROVE  IInv'
<1>1. LockInv /\ LockTypes /\ DataTypes /\ TableInv /\ HolderInv /\ CloserInv /\ OpOK(t)
      /\ pc[t] = "unref"
  BY DEF IInv, LockInv, OpInv, Unref
<1>2. UNCHANGED <<up, source, trimmed, hist, acked, pending, cursors, holder, closed, locked>>
  BY DEF Unref, journal, history
<1>3. /\ table' = Reclaimed(t)
      /\ refs' = [e \in Entry |-> IF \E v \in View : <<v, e>> \in mine[t]
                                  THEN refs[e] - 1 ELSE refs[e]]
      /\ closing' = IF op[t].kind = "close" THEN closing \ {op[t].obs} ELSE closing
      /\ mine' = [mine EXCEPT ![t] = {}] /\ pc' = [pc EXCEPT ![t] = "idle"]
      /\ op' = [op EXCEPT ![t] = NoOp]
  BY DEF Unref, Goto, Forget
<1>4. /\ at' = [at EXCEPT ![t] = 1] /\ upto' = [upto EXCEPT ![t] = 0]
      /\ left' = [left EXCEPT ![t] = 0] /\ item' = [item EXCEPT ![t] = NoItem]
      /\ exported' = [exported EXCEPT ![t] = {}]
  BY DEF Unref, Forget
<1>5. /\ pc'[t] = "idle" /\ mine'[t] = {} /\ op'[t] = NoOp /\ locked'[t] = {}
      /\ \A u \in Thread \ {t} : pc'[u] = pc[u] /\ op'[u] = op[u] /\ mine'[u] = mine[u]
  <2>1. locked[t] = {}
    BY <1>1 DEF OpOK
  <2> QED BY <1>1, <1>2, <1>3, <2>1 DEF LockTypes
<1>6. /\ at' \in [Thread -> 1..Len(Topics)] /\ upto' \in [Thread -> 0..MaxSource]
      /\ left' \in [Thread -> 0..MaxPackets] /\ item' \in [Thread -> ItemType]
      /\ exported' \in [Thread -> SUBSET PacketID]
  <2>1. /\ 1 \in 1..Len(Topics) /\ 0 \in 0..MaxSource /\ 0 \in 0..MaxPackets
        /\ NoItem \in ItemType /\ {} \in SUBSET PacketID
    BY NumberAssumption, TopicsAreSound DEF NoItem, ItemType
  <2> QED BY ONLY <1>1, <1>4, <2>1 DEF DataTypes
<1>7. \A u \in Thread \ {t} : at'[u] = at[u] /\ upto'[u] = upto[u] /\ left'[u] = left[u]
                             /\ item'[u] = item[u]
  BY <1>1, <1>4 DEF DataTypes
<1>8. \A v \in View : table'[v] = table[v] \/ table'[v] = None
  BY <1>3 DEF Reclaimed
<1>9. \A e \in Entry : t \in Sharing(e) => refs[e] >= 1
  <2> SUFFICES ASSUME NEW e \in Entry, t \in Sharing(e) PROVE refs[e] >= 1
    OBVIOUS
  <2>1. Cardinality(Sharing(e)) \in Nat \ {0}
    BY SharingIsFinite, OneLess
  <2> QED BY <1>1, <2>1 DEF TableInv
<1>10. LockTypes'
  <2>1. table' \in [View -> Entry \cup {None}]
    BY <1>1, <1>3 DEF LockTypes, Reclaimed
  <2>2. refs' \in [Entry -> Nat]
    <3>1. \A e \in Entry : (IF \E v \in View : <<v, e>> \in mine[t]
                            THEN refs[e] - 1 ELSE refs[e]) \in Nat
      <4> SUFFICES ASSUME NEW e \in Entry
                   PROVE  /\ refs[e] \in Nat
                          /\ (\E v \in View : <<v, e>> \in mine[t]) => refs[e] - 1 \in Nat
        OBVIOUS
      <4>1. refs[e] \in Nat
        BY <1>1 DEF LockTypes
      <4>2. (\E v \in View : <<v, e>> \in mine[t]) => refs[e] >= 1
        BY <1>9 DEF Sharing
      <4> QED BY ONLY <4>1, <4>2
    <3> QED BY ONLY <1>3, <3>1
  <2>3. op' \in [Thread -> OpType]
    <3>1. NoOp \in OpType
      BY NumberAssumption DEF NoOp, OpType
    <3> QED BY ONLY <1>1, <1>3, <3>1 DEF LockTypes
  <2>4. mine' \in [Thread -> SUBSET (View \X Entry)]
    BY ONLY <1>1, <1>3 DEF LockTypes
  <2>5. pc' \in [Thread -> Steps]
    BY <1>1, <1>3 DEF LockTypes, Steps
  <2>6. closing' \subseteq closed
    BY <1>1, <1>3 DEF LockTypes
  <2> QED BY ONLY <1>1, <1>2, <2>1, <2>2, <2>3, <2>4, <2>5, <2>6 DEF LockTypes
<1>11. OpInv'
  <2>1. \A u \in Thread \ {t} :
            op[u].kind = "close" /\ op[u].obs \in closing => op[u].obs \in closing'
    <3>1. \A u \in Thread \ {t} :
              op[u].kind = "close" /\ op[t].kind = "close" => op[u].obs # op[t].obs
      BY <1>1 DEF CloserInv
    <3> QED BY <1>3, <3>1
  <2>2. \A u \in Thread \ {t} : OpOK(u)'
    BY ONLY <1>1, <1>2, <1>5, <2>1, t \in Thread, OthersStand
  <2>3. OpOK(t)'
    BY <1>5 DEF OpOK, NoOp, Path, Middle, OnView
  <2> QED BY <2>2, <2>3 DEF OpInv
<1>12. \A u \in Thread \ {t}, v \in View : <<v, table[v]>> \in mine[u] /\ table[v] \in Entry
                                           => table'[v] = table[v]
  <2> SUFFICES ASSUME NEW u \in Thread \ {t}, NEW v \in View, <<v, table[v]>> \in mine[u],
                      table[v] \in Entry, refs[table[v]] = 1, <<v, table[v]>> \in mine[t]
               PROVE  FALSE
    BY <1>3 DEF Reclaimed
  <2>1. PICK e \in Entry : e = table[v]
    OBVIOUS
  <2>2. t \in Sharing(e) /\ u \in Sharing(e) \ {t}
    BY <2>1 DEF Sharing
  <2>3. Cardinality(Sharing(e)) = 1
    BY <1>1, <2>1 DEF TableInv
  <2>4. Cardinality(Sharing(e) \ {t}) = Cardinality(Sharing(e)) - 1
    BY <2>2, SharingIsFinite, OneLess
  <2>5. Cardinality(Sharing(e) \ {t}) \in Nat \ {0}
    <3>1. Sharing(e) \ {t} \subseteq Thread
      BY SharingIsFinite
    <3> QED BY <2>2, <3>1, OneLess
  <2> QED BY ONLY <2>3, <2>4, <2>5
<1>13. TableInv'
  <2>1. \A u \in Thread : locked'[u] \subseteq mine'[u]
    BY <1>1, <1>2, <1>5 DEF TableInv
  <2>2. \A u \in Thread, v \in View, e \in Entry : <<v, e>> \in mine'[u] => table'[v] = e
    <3> SUFFICES ASSUME NEW u \in Thread, NEW v \in View, NEW e \in Entry, <<v, e>> \in mine'[u]
                 PROVE  table'[v] = e
      OBVIOUS
    <3>1. u # t /\ <<v, e>> \in mine[u]
      BY <1>5
    <3>2. table[v] = e
      BY <1>1, <3>1 DEF TableInv
    <3> QED BY <1>12, <3>1, <3>2
  <2>3. \A v \in View : table'[v] # None => \E u \in Thread : <<v, table'[v]>> \in mine'[u]
    <3> SUFFICES ASSUME NEW v \in View, table'[v] # None
                 PROVE  \E u \in Thread : <<v, table'[v]>> \in mine'[u]
      OBVIOUS
    <3>1. PICK e \in Entry : e = table[v] /\ e = table'[v] /\ e # None
      BY <1>1, <1>8 DEF LockTypes
    <3>2. PICK u \in Thread : <<v, e>> \in mine[u]
      BY <1>1, <3>1 DEF TableInv
    <3>3. CASE u # t
      BY <1>5, <3>1, <3>2, <3>3
    <3>4. CASE u = t
      <4>1. refs[e] # 1
        BY <1>3, <3>1, <3>2, <3>4 DEF Reclaimed
      <4>2. t \in Sharing(e)
        BY <3>2, <3>4 DEF Sharing
      <4>3. PICK w \in Sharing(e) \ {t} : TRUE
        <5>1. Cardinality(Sharing(e)) # 1
          BY <1>1, <4>1 DEF TableInv
        <5>2. Sharing(e) \ {t} # {}
          BY <4>2, <5>1, SharingIsFinite, OneLess
        <5> QED BY <5>2
      <4>4. w \in Thread \ {t}
        BY <4>3, SharingIsFinite
      <4>5. PICK x \in View : <<x, e>> \in mine[w]
        BY <4>3 DEF Sharing
      <4>6. x = v
        BY <1>1, <3>1, <4>4, <4>5 DEF TableInv
      <4> QED BY <1>5, <3>1, <4>4, <4>5, <4>6
    <3> QED BY <3>3, <3>4
  <2>4. \A v, w \in View : table'[v] = table'[w] /\ table'[v] # None => v = w
    <3>1. \A v, w \in View : table[v] = table[w] /\ table[v] # None => v = w
      BY <1>1 DEF TableInv
    <3> QED BY ONLY <1>8, <3>1
  <2>5. \A e \in Entry : refs'[e] = Cardinality(Sharing(e)')
    <3> SUFFICES ASSUME NEW e \in Entry PROVE refs'[e] = Cardinality(Sharing(e)')
      OBVIOUS
    <3>1. Sharing(e)' = Sharing(e) \ {t}
      <4>1. \A u \in Thread : (\E v \in View : <<v, e>> \in mine'[u])
                               <=> u # t /\ \E v \in View : <<v, e>> \in mine[u]
        BY <1>5
      <4> QED BY ONLY <4>1 DEF Sharing
    <3>2. refs[e] = Cardinality(Sharing(e))
      BY <1>1 DEF TableInv
    <3>3. CASE t \in Sharing(e)
      <4>1. refs'[e] = refs[e] - 1
        BY <1>3, <3>3 DEF Sharing
      <4>2. Cardinality(Sharing(e) \ {t}) = Cardinality(Sharing(e)) - 1
        BY <3>3, SharingIsFinite, OneLess
      <4> QED BY ONLY <3>1, <3>2, <4>1, <4>2
    <3>4. CASE t \notin Sharing(e)
      <4>1. refs'[e] = refs[e]
        BY <1>3, <3>4 DEF Sharing
      <4>2. Sharing(e) \ {t} = Sharing(e)
        BY <3>4
      <4> QED BY ONLY <3>1, <3>2, <4>1, <4>2
    <3> QED BY <3>3, <3>4
  <2> QED BY <2>1, <2>2, <2>3, <2>4, <2>5 DEF TableInv
<1>14. HolderInv'
  BY ONLY <1>1, <1>2 DEF HolderInv
<1>15. CloserInv'
  <2>1. op'[t].kind # "close"
    BY <1>5 DEF NoOp
  <2>2. \A u \in Thread, v \in View :
            op'[u].kind = "close" /\ v[1] = op'[u].obs /\ table'[v] # None =>
                <<v, table'[v]>> \in mine'[u]
    <3> SUFFICES ASSUME NEW u \in Thread, NEW v \in View, op'[u].kind = "close",
                        v[1] = op'[u].obs, table'[v] # None
                 PROVE  <<v, table'[v]>> \in mine'[u]
      OBVIOUS
    <3>1. u # t /\ op'[u] = op[u] /\ mine'[u] = mine[u] /\ table'[v] = table[v]
      BY <1>5, <1>8, <2>1
    <3> QED BY <1>1, <3>1 DEF CloserInv
  <2>3. \A u, w \in Thread :
            op'[u].kind = "close" /\ op'[w].kind = "close" /\ op'[u].obs = op'[w].obs => u = w
    BY <1>1, <1>5, <2>1 DEF CloserInv
  <2> QED BY <2>2, <2>3 DEF CloserInv
<1>16. LockInv'
  BY <1>10, <1>11, <1>13, <1>14, <1>15 DEF LockInv
<1>17. Outside(t)
  <2>1. op'[t].kind # "flush"
    BY <1>5 DEF NoOp
  <2> QED BY <1>1, <1>2, <1>5, <1>7, <2>1 DEF Outside
<1> QED BY <1>6, <1>16, <1>17, OutsideStep

(* CloseObserver refers to every entry of its observer. *)
LEMMA CloseStep ==
    ASSUME IInv, NEW t \in Thread, NEW o \in Observer, Close(t, o)
    PROVE  IInv'
<1>1. LockInv /\ LockTypes /\ DataTypes /\ TableInv /\ HolderInv /\ CloserInv /\ OpInv
      /\ pc[t] = "idle" /\ o \notin closing
  BY DEF IInv, LockInv, Close
<1>2. op[t].kind = "none" /\ mine[t] = {} /\ locked[t] = {}
  BY <1>1, IdleHasNothing
<1>3. UNCHANGED <<up, source, trimmed, hist, acked, pending, cursors, table, holder, locked,
                  at, upto, left, item, exported>>
  BY DEF Close, journal, history, locals
<1>4. PICK step \in {"discard", "lock"} :
          pc' = [pc EXCEPT ![t] = step] /\ (step = "discard" => InUse(o) = {})
  BY DEF Close, Goto
<1>5. /\ closed' = closed \cup {o} /\ closing' = closing \cup {o}
      /\ refs' = [e \in Entry |-> IF \E v \in InUse(o) : table[v] = e
                                  THEN refs[e] + 1 ELSE refs[e]]
      /\ op' = [op EXCEPT ![t] = [kind |-> "close", obs |-> o, key |-> 0, seq |-> 0]]
  BY DEF Close
<1> DEFINE Held == {<<v, table[v]>> : v \in InUse(o)}
<1>6. mine' = [mine EXCEPT ![t] = Held]
  BY DEF Close
<1>7. /\ \A pair \in Held : \E v \in View : v[1] = o /\ table[v] # None /\ pair = <<v, table[v]>>
      /\ \A v \in View : v[1] = o /\ table[v] # None => <<v, table[v]>> \in Held
  BY DEF InUse
<1>8. Held \subseteq View \X Entry
  BY <1>1, <1>7 DEF LockTypes
<1>9. Held = {} <=> InUse(o) = {}
  OBVIOUS
<1> HIDE DEF Held
<1>10. /\ pc'[t] = step /\ mine'[t] = Held /\ locked'[t] = {}
       /\ op'[t] = [kind |-> "close", obs |-> o, key |-> 0, seq |-> 0]
       /\ \A u \in Thread \ {t} : /\ pc'[u] = pc[u] /\ op'[u] = op[u] /\ mine'[u] = mine[u]
                                  /\ locked'[u] = locked[u]
  BY <1>1, <1>2, <1>3, <1>4, <1>5, <1>6 DEF LockTypes
<1>11. LockTypes'
  <2>1. op' \in [Thread -> OpType]
    <3>1. [kind |-> "close", obs |-> o, key |-> 0, seq |-> 0] \in OpType
      BY NumberAssumption DEF OpType, Operation
    <3> QED BY ONLY <1>1, <1>5, <3>1 DEF LockTypes
  <2>2. refs' \in [Entry -> Nat]
    <3>1. refs \in [Entry -> Nat]
      BY <1>1 DEF LockTypes
    <3>2. \A e \in Entry : refs[e] \in Nat /\ refs[e] + 1 \in Nat
      BY ONLY <3>1
    <3> QED BY ONLY <1>5, <3>2
  <2>3. mine' \in [Thread -> SUBSET (View \X Entry)]
    BY ONLY <1>1, <1>6, <1>8 DEF LockTypes
  <2>4. pc' \in [Thread -> Steps]
    BY <1>1, <1>4 DEF LockTypes, Steps
  <2>5. closing' \subseteq closed' /\ closed' \subseteq Observer
    BY <1>1, <1>5 DEF LockTypes
  <2> QED BY ONLY <1>1, <1>3, <2>1, <2>2, <2>3, <2>4, <2>5 DEF LockTypes
<1>12. OpInv'
  <2>1. \A u \in Thread \ {t} : OpOK(u)'
    <3>1. \A u \in Thread \ {t} :
              op[u].kind = "close" /\ op[u].obs \in closing => op[u].obs \in closing'
      BY <1>5
    <3> QED BY ONLY <1>1, <1>10, <3>1, t \in Thread, OthersStand
  <2>2. OpOK(t)'
    <3>1. Path("close", step) /\ step # "unref"
      BY <1>4 DEF Path, Operation
    <3>2. o \in closing' /\ \A pair \in Held : pair[1][1] = o
      BY <1>5, <1>7
    <3>3. step \in Middle => Held = {}
      BY <1>4, <1>9 DEF Middle
    <3> QED BY ONLY <1>10, <3>1, <3>2, <3>3 DEF OpOK, OnView
  <2> QED BY <2>1, <2>2 DEF OpInv
<1>13. TableInv'
  <2>1. \A u \in Thread : locked'[u] \subseteq mine'[u]
    BY <1>1, <1>10 DEF TableInv
  <2>2. \A u \in Thread, v \in View, e \in Entry : <<v, e>> \in mine'[u] => table'[v] = e
    <3> SUFFICES ASSUME NEW u \in Thread, NEW v \in View, NEW e \in Entry, <<v, e>> \in mine'[u]
                 PROVE  table[v] = e
      BY <1>3
    <3>1. CASE u = t
      BY <1>7, <1>10, <3>1
    <3>2. CASE u # t
      BY <1>1, <1>10, <3>2 DEF TableInv
    <3> QED BY <3>1, <3>2
  <2>3. \A v \in View : table'[v] # None => \E u \in Thread : <<v, table'[v]>> \in mine'[u]
    <3> SUFFICES ASSUME NEW v \in View, table[v] # None
                 PROVE  \E u \in Thread : <<v, table[v]>> \in mine'[u]
      BY <1>3
    <3>1. PICK u \in Thread : <<v, table[v]>> \in mine[u]
      BY <1>1 DEF TableInv
    <3> QED BY <1>2, <1>10, <3>1
  <2>4. \A v, w \in View : table'[v] = table'[w] /\ table'[v] # None => v = w
    BY <1>1, <1>3 DEF TableInv
  <2>5. \A e \in Entry : refs'[e] = Cardinality(Sharing(e)')
    <3> SUFFICES ASSUME NEW e \in Entry PROVE refs'[e] = Cardinality(Sharing(e)')
      OBVIOUS
    <3>1. refs[e] = Cardinality(Sharing(e)) /\ t \notin Sharing(e)
      BY <1>1, <1>2 DEF TableInv, Sharing
    <3>2. (\E v \in View : <<v, e>> \in Held) <=> \E v \in InUse(o) : table[v] = e
      <4>1. ASSUME NEW v \in View, <<v, e>> \in Held PROVE v \in InUse(o) /\ table[v] = e
        BY <1>7, <4>1 DEF InUse
      <4>2. ASSUME NEW v \in InUse(o), table[v] = e PROVE v \in View /\ <<v, e>> \in Held
        BY <1>7, <4>2 DEF InUse
      <4> QED BY <4>1, <4>2
    <3>3. CASE \E v \in InUse(o) : table[v] = e
      <4>1. \A u \in Thread : (\E v \in View : <<v, e>> \in mine'[u])
                               <=> u = t \/ \E v \in View : <<v, e>> \in mine[u]
        BY <1>10, <3>2, <3>3
      <4>2. Sharing(e)' = Sharing(e) \cup {t}
        BY ONLY <4>1, t \in Thread DEF Sharing
      <4>3. refs'[e] = refs[e] + 1
        BY <1>5, <3>3
      <4>4. Cardinality(Sharing(e) \cup {t}) = Cardinality(Sharing(e)) + 1
        BY ONLY <3>1, SharingIsFinite, OneMore, t \in Thread
      <4> QED BY ONLY <3>1, <4>2, <4>3, <4>4
    <3>4. CASE ~\E v \in InUse(o) : table[v] = e
      <4>1. \A u \in Thread : (\E v \in View : <<v, e>> \in mine'[u])
                               <=> \E v \in View : <<v, e>> \in mine[u]
        BY <1>2, <1>10, <3>2, <3>4
      <4>2. Sharing(e)' = Sharing(e)
        BY ONLY <4>1 DEF Sharing
      <4>3. refs'[e] = refs[e]
        BY <1>5, <3>4
      <4> QED BY ONLY <3>1, <4>2, <4>3
    <3> QED BY <3>3, <3>4
  <2> QED BY <2>1, <2>2, <2>3, <2>4, <2>5 DEF TableInv
<1>14. HolderInv'
  BY ONLY <1>1, <1>3 DEF HolderInv
<1>15. CloserInv'
  <2>1. \A u \in Thread, v \in View :
            op'[u].kind = "close" /\ v[1] = op'[u].obs /\ table'[v] # None =>
                <<v, table'[v]>> \in mine'[u]
    BY <1>1, <1>3, <1>7, <1>10 DEF CloserInv
  <2>2. \A u \in Thread \ {t} : op[u].kind = "close" => op[u].obs # o
    BY <1>1 DEF OpInv, OpOK
  <2>3. \A u, w \in Thread :
            op'[u].kind = "close" /\ op'[w].kind = "close" /\ op'[u].obs = op'[w].obs => u = w
    BY <1>1, <1>10, <2>2 DEF CloserInv
  <2> QED BY <2>1, <2>3 DEF CloserInv
<1>16. LockInv'
  BY <1>11, <1>12, <1>13, <1>14, <1>15 DEF LockInv
<1>17. Outside(t)
  BY <1>1, <1>3, <1>4, <1>10 DEF Outside
<1> QED BY <1>1, <1>3, <1>16, <1>17, OutsideStep DEF DataTypes

(* OpenObserver and ReconcilePending begin without a lock. *)
LEMMA OpenStep ==
    ASSUME IInv, NEW t \in Thread, NEW o \in Observer, Open(t, o)
    PROVE  IInv'
<1>1. LockInv /\ LockTypes /\ DataTypes /\ pc[t] = "idle" /\ o \notin closing
  BY DEF IInv, LockInv, Open, Openable
<1>2. UNCHANGED <<up, source, trimmed, hist, acked, pending, cursors, table, refs, holder, closing,
                  pc, op, mine, locked, at, upto, left, item, exported>>
  BY DEF Open, journal, history, locks, locals
<1>3. closed' = closed \ {o}
  BY DEF Open
<1>4. LockTypes'
  BY ONLY <1>1, <1>2, <1>3 DEF LockTypes, OpType
<1>5. OpInv' /\ TableInv' /\ HolderInv' /\ CloserInv'
  BY ONLY <1>1, <1>2 DEF LockInv, OpInv, OpOK, ViewOf, TableInv, HolderInv, CloserInv, Sharing
<1>6. LockInv'
  BY <1>4, <1>5 DEF LockInv
<1>7. Outside(t)
  <2>1. op[t].kind = "none"
    BY <1>1, IdleHasNothing
  <2> QED BY <1>1, <1>2, <2>1 DEF Outside
<1> QED BY <1>1, <1>2, <1>6, <1>7, OutsideStep DEF DataTypes

(* ReconcilePending has no view, and no lock.                               *)
LEMMA ReconcilePendingStep ==
    ASSUME IInv, NEW t \in Thread, ReconcilePending(t)
    PROVE  IInv'
<1>1. LockInv /\ LockTypes /\ DataTypes /\ TableInv /\ HolderInv /\ CloserInv /\ pc[t] = "idle"
  BY DEF IInv, LockInv, ReconcilePending
<1>2. UNCHANGED <<up, source, trimmed, hist, acked, pending, cursors, table, refs, holder, closed,
                  closing, mine, locked, at, upto, left, item, exported>>
  BY DEF ReconcilePending, journal, history, locks, observers, locals
<1>3. PICK c : c = [NoOp EXCEPT !.kind = "reconcile"]
  OBVIOUS
<1>4. op' = [op EXCEPT ![t] = c] /\ pc' = [pc EXCEPT ![t] = "export"]
  BY <1>3 DEF ReconcilePending, Goto
<1>5. c \in OpType /\ c.kind = "reconcile" /\ c.obs = None
  BY <1>3, NumberAssumption DEF NoOp, OpType, Operation
<1>6. /\ pc'[t] = "export" /\ op'[t] = c
      /\ \A u \in Thread \ {t} : pc'[u] = pc[u] /\ op'[u] = op[u]
  BY <1>1, <1>4 DEF LockTypes
<1>7. mine[t] = {} /\ locked[t] = {} /\ op[t].kind = "none"
  BY <1>1, IdleHasNothing
<1>8. LockTypes'
  <2>1. pc' \in [Thread -> Steps] /\ op' \in [Thread -> OpType]
    BY <1>1, <1>4, <1>5 DEF LockTypes, Steps
  <2> QED BY ONLY <1>1, <1>2, <2>1 DEF LockTypes
<1>9. OpInv'
  <2>1. \A u \in Thread \ {t} : OpOK(u)'
    BY ONLY <1>1, <1>2, <1>6, t \in Thread, OthersStand
  <2>2. OpOK(t)'
    <3>1. Path("reconcile", "export")
      BY DEF Path, Operation
    <3> QED BY ONLY <1>2, <1>5, <1>6, <1>7, <3>1 DEF OpOK, OnView
  <2> QED BY <2>1, <2>2 DEF OpInv
<1>10. TableInv' /\ HolderInv'
  BY ONLY <1>1, <1>2 DEF TableInv, HolderInv, Sharing
<1>11. CloserInv'
  <2>1. op'[t].kind # "close"
    BY <1>5, <1>6
  <2> QED BY <1>1, <1>2, <1>6, <2>1 DEF CloserInv
<1>12. LockInv'
  BY <1>8, <1>9, <1>10, <1>11 DEF LockInv
<1>13. Outside(t)
  BY <1>1, <1>2, <1>5, <1>6 DEF Outside
<1> QED BY <1>1, <1>2, <1>12, <1>13, OutsideStep DEF DataTypes

-----------------------------------------------------------------------------
(* A step that touches no lock.                                             *)
LEMMA LocksStay ==
    ASSUME LockInv, UNCHANGED <<table, refs, holder, closed, closing, pc, op, mine, locked>>,
           up' \in BOOLEAN
    PROVE  LockInv'
<1>1. LockTypes'
  BY DEF LockInv, LockTypes
<1>2. OpInv'
  <2> SUFFICES ASSUME NEW t \in Thread PROVE OpOK(t)'
    BY DEF OpInv
  <2>1. OpOK(t)
    BY DEF LockInv, OpInv
  <2> QED BY <2>1 DEF OpOK, ViewOf
<1>3. TableInv'
  BY DEF LockInv, TableInv, Sharing
<1>4. HolderInv' /\ CloserInv'
  BY DEF LockInv, HolderInv, CloserInv
<1> QED BY <1>1, <1>2, <1>3, <1>4 DEF LockInv

(* The runtime goes on, the process dies and starts again.                  *)
LEMMA JournalSteps ==
    ASSUME IInv, NEW tp \in Topic, Mutate(tp) \/ Trim(tp)
    PROVE  IInv'
<1>1. UNCHANGED <<up, hist, acked, pending, cursors, table, refs, holder, closed, closing,
                  pc, op, mine, locked, at, upto, left, item, exported>>
  BY DEF Mutate, Trim, history, locks, observers, locals
<1>2. LockInv /\ DataTypes /\ WorkInv /\ StreamInv
  BY DEF IInv
<1>3. /\ source' \in [Topic -> 0..MaxSource] /\ trimmed' \in [Topic -> 0..MaxSource]
      /\ \A q \in Topic : trimmed'[q] <= source'[q] /\ source[q] <= source'[q]
  <2>1. /\ source \in [Topic -> 0..MaxSource] /\ trimmed \in [Topic -> 0..MaxSource]
        /\ \A q \in Topic : trimmed[q] <= source[q]
    BY <1>2 DEF DataTypes
  <2>2. CASE Mutate(tp)
    <3>1. source' = [source EXCEPT ![tp] = @ + 1] /\ trimmed' = trimmed /\ source[tp] < MaxSource
      BY <2>2 DEF Mutate
    <3> QED BY ONLY <2>1, <3>1, NumberAssumption
  <2>3. CASE Trim(tp)
    <3>1. trimmed' = [trimmed EXCEPT ![tp] = @ + 1] /\ source' = source /\ trimmed[tp] < source[tp]
      BY <2>3 DEF Trim, journal
    <3> QED BY ONLY <2>1, <3>1, NumberAssumption
  <2> QED BY <2>2, <2>3
<1>4. LockInv'
  <2>1. up' \in BOOLEAN
    BY <1>1, <1>2 DEF LockInv, LockTypes
  <2> QED BY <1>1, <1>2, <2>1, LocksStay
<1>5. DataTypes'
  BY ONLY <1>1, <1>2, <1>3 DEF DataTypes
<1>6. \A s \in Stream : /\ s.topic \in Topic /\ source[s.topic] \in Nat /\ source'[s.topic] \in Nat
                        /\ source[s.topic] <= source'[s.topic] /\ cursors[s] \in Nat
  <2> SUFFICES ASSUME NEW s \in Stream, NEW q, q = s.topic
               PROVE  /\ q \in Topic /\ source[q] \in Nat /\ source'[q] \in Nat
                      /\ source[q] <= source'[q] /\ cursors[s] \in Nat
    OBVIOUS
  <2>1. q \in Topic
    BY DEF Stream
  <2>2. source[q] \in 0..MaxSource /\ source'[q] \in 0..MaxSource /\ source[q] <= source'[q]
    BY <1>2, <1>3, <2>1 DEF DataTypes
  <2>3. cursors[s] \in 0..MaxSource
    BY <1>2 DEF DataTypes
  <2> QED BY ONLY <2>1, <2>2, <2>3
<1>7. WorkInv'
  <2> SUFFICES ASSUME NEW u \in Thread PROVE WorkOK(u)'
    BY DEF WorkInv
  <2>1. WorkOK(u) /\ StreamOf(u)' = StreamOf(u) /\ upto[u] \in Nat /\ item[u].src \in Nat
    BY <1>1, <1>2, NumberAssumption DEF WorkInv, StreamOf, ViewOf, DataTypes, ItemType
  <2>2. CASE op[u].kind \in Preparing
    <3>1. StreamOf(u) \in Stream
      BY <1>2, <2>2, StreamIsTyped DEF LockInv, OpInv, DataTypes, Preparing, OnView
    <3>2. \A n \in Nat : n <= source[StreamOf(u).topic] => n <= source'[StreamOf(u).topic]
      BY <1>6, <3>1
    <3> QED BY ONLY <1>1, <2>1, <3>2 DEF WorkOK, ItemOK, AckOK, CloseOK
  <2>3. CASE op[u].kind \notin Preparing
    BY ONLY <1>1, <2>1, <2>3 DEF WorkOK, ItemOK, AckOK, CloseOK
  <2> QED BY <2>2, <2>3
<1>8. StreamInv'
  <2> SUFFICES ASSUME NEW s \in Stream PROVE StreamOK(s)'
    BY DEF StreamInv
  <2>1. StreamOK(s) /\ (Ending(s) <=> Ending(s)')
    BY <1>1, <1>2 DEF StreamInv, Ending
  <2>2. cursors[s] <= source'[s.topic]
    BY <1>6, <2>1 DEF StreamOK
  <2> QED BY ONLY <1>1, <2>1, <2>2 DEF StreamOK, SentUpTo
<1> QED BY <1>4, <1>5, <1>7, <1>8 DEF IInv

(* What a process starts with: nothing but what is on disk. *)
Idle ==
    /\ up \in BOOLEAN /\ table = [v \in View |-> None]
    /\ refs = [e \in Entry |-> 0] /\ holder = [e \in Entry |-> None] /\ closed = {} /\ closing = {}
    /\ pc = [t \in Thread |-> "idle"] /\ op = [t \in Thread |-> NoOp]
    /\ mine = [t \in Thread |-> {}] /\ locked = [t \in Thread |-> {}]

(* Nothing is locked and nobody has found out anything.                     *)
LEMMA IdleIsSound == Idle => LockInv /\ WorkInv
<1> SUFFICES ASSUME Idle PROVE LockInv /\ WorkInv
  OBVIOUS
<1> USE DEF Idle
<1>1. LockTypes
  <2>1. NoOp \in OpType
    BY NumberAssumption DEF NoOp, OpType
  <2> QED BY <2>1 DEF LockTypes, Steps
<1>2. OpInv
  BY DEF OpInv, OpOK, NoOp, Path, OnView, Middle
<1>3. TableInv /\ HolderInv
  <2>1. \A e \in Entry : Sharing(e) = {}
    BY DEF Sharing
  <2>2. Cardinality({}) = 0
    BY FS_EmptySet
  <2> QED BY <2>1, <2>2 DEF TableInv, HolderInv
<1>4. CloserInv
  BY DEF CloserInv, NoOp
<1>5. WorkInv
  BY DEF WorkInv, WorkOK, ItemOK, AckOK, CloseOK, NoOp, Preparing
<1> QED BY <1>1, <1>2, <1>3, <1>4, <1>5 DEF LockInv

(* What goroutines keep when they have begun nothing. *)
LEMMA FreshLocals ==
    /\ [t \in Thread |-> 1] \in [Thread -> 1..Len(Topics)]
    /\ [t \in Thread |-> 0] \in [Thread -> 0..MaxSource]
    /\ [t \in Thread |-> 0] \in [Thread -> 0..MaxPackets]
    /\ [t \in Thread |-> NoItem] \in [Thread -> ItemType]
    /\ [t \in Thread |-> {}] \in [Thread -> SUBSET PacketID]
    /\ [s \in Stream |-> 0] \in [Stream -> 0..MaxSource]
<1>1. 1 \in 1..Len(Topics) /\ 0 \in 0..MaxSource /\ 0 \in 0..MaxPackets
  BY NumberAssumption, TopicsAreSound
<1>2. NoItem \in ItemType
  BY NumberAssumption DEF NoItem, ItemType
<1> QED BY <1>1, <1>2

(* The invariant is true at the start.                                      *)
LEMMA InitIsSound == Init => IInv
<1> SUFFICES ASSUME Init PROVE IInv
  OBVIOUS
<1>1. LockInv /\ WorkInv
  BY IdleIsSound DEF Init, Idle
<1>2. DataTypes
  <2>1. /\ source \in [Topic -> 0..MaxSource] /\ trimmed \in [Topic -> 0..MaxSource]
        /\ \A tp \in Topic : trimmed[tp] <= source[tp]
    BY NumberAssumption DEF Init
  <2>2. /\ hist \in [Stream -> Seq(Record)] /\ acked \in [Stream -> Nat]
        /\ \A s \in Stream : Len(hist[s]) <= MaxLatest /\ acked[s] <= Len(hist[s])
    BY NumberAssumption DEF Init
  <2> QED BY <2>1, <2>2, FreshLocals DEF DataTypes, Init
<1>3. StreamInv
  <2> SUFFICES ASSUME NEW s \in Stream PROVE StreamOK(s)
    BY DEF StreamInv
  <2>1. hist[s] = <<>> /\ cursors[s] = 0 /\ source[s.topic] = 0
    BY DEF Init, Stream
  <2> QED BY <2>1 DEF StreamOK, SentUpTo
<1> QED BY <1>1, <1>2, <1>3 DEF IInv

(* It is after a crash, and after NewCoordinator.                           *)
LEMMA ProcessSteps ==
    ASSUME IInv, Crash \/ Restart
    PROVE  IInv'
<1>1. LockInv /\ DataTypes /\ WorkInv /\ StreamInv
  BY DEF IInv
<1>2. CASE Crash
  <2>1. UNCHANGED <<source, trimmed, hist, acked, pending>>
    BY <1>2 DEF Crash, journal, history
  <2>2. LockInv' /\ WorkInv'
    <3>1. Idle'
      BY <1>2 DEF Crash, Idle
    <3>2. (Idle => LockInv /\ WorkInv)'
      BY IdleIsSound, PTL
    <3> QED BY <3>1, <3>2
  <2>3. DataTypes'
    BY <1>1, <1>2, <2>1, FreshLocals DEF DataTypes, Crash
  <2>4. StreamInv'
    <3> SUFFICES ASSUME NEW s \in Stream PROVE StreamOK(s)'
      BY DEF StreamInv
    <3>1. StreamOK(s) /\ cursors'[s] = 0 /\ source[s.topic] \in Nat
      BY <1>1, <1>2, NumberAssumption DEF StreamInv, Crash, DataTypes, Stream
    <3>2. SentUpTo(s, 0, Len(hist[s]))
      BY DEF SentUpTo
    <3> QED BY ONLY <2>1, <3>1, <3>2 DEF StreamOK, SentUpTo
  <2> QED BY <2>2, <2>3, <2>4 DEF IInv
<1>3. CASE Restart
  <2>1. /\ UNCHANGED <<source, trimmed, hist, acked, cursors, table, refs, holder, closed, closing,
                       pc, op, mine, locked, at, upto, left, item, exported>>
        /\ up' = TRUE /\ pending' = pending \cup Unacknowledged
    BY <1>3 DEF Restart, StartReconciled, journal, history, locks, observers, locals
  <2>2. LockInv'
    <3>1. up' \in BOOLEAN
      BY <2>1
    <3> QED BY <1>1, <2>1, <3>1, LocksStay
  <2>3. DataTypes'
    <3>1. pending' \subseteq PacketID
      BY <1>1, <2>1, PacketsAreTyped DEF DataTypes
    <3> QED BY <1>1, <2>1, <3>1, KeepsTypes DEF DataTypes
  <2>4. WorkInv' /\ StreamInv'
    BY ONLY <1>1, <2>1 DEF WorkInv, WorkOK, ItemOK, AckOK, CloseOK, StreamOf, ViewOf, StreamInv,
       StreamOK, SentUpTo, Ending
  <2> QED BY <2>2, <2>3, <2>4 DEF IInv
<1> QED BY <1>2, <1>3

(* Every step keeps the invariant. *)
LEMMA NextIsSound ==
    ASSUME IInv, [Next]_vars
    PROVE  IInv'
<1>1. ASSUME NEW tp \in Topic, Mutate(tp) \/ Trim(tp) PROVE IInv'
  BY <1>1, JournalSteps
<1>2. ASSUME NEW t \in Thread, Begin(t) PROVE IInv'
  <2>1. ASSUME NEW v \in View, NEW kind \in OnView, NEW i \in 1..Len(Topics), NEW n \in 0..MaxLatest,
               Acquire(t, kind, v, i, n)
        PROVE  IInv'
    BY <2>1, AcquireStep
  <2>2. /\ 1 \in 1..Len(Topics) /\ 0 \in 0..MaxLatest /\ 1..MaxLatest \subseteq 0..MaxLatest
        /\ OnView = {"snapshot", "flush", "ack", "recover"}
    BY NumberAssumption, TopicsAreSound DEF OnView
  <2>3. CASE \E v \in View :
                \/ Acquire(t, "snapshot", v, 1, 0) \/ Acquire(t, "flush", v, 1, 0)
                \/ \E i \in 1..Len(Topics) : Acquire(t, "recover", v, i, 0)
                \/ \E i \in 1..Len(Topics), n \in 1..MaxLatest : Acquire(t, "ack", v, i, n)
    BY <2>1, <2>2, <2>3
  <2>4. CASE \E o \in Observer : Close(t, o) \/ Open(t, o)
    BY <2>4, CloseStep, OpenStep
  <2>5. CASE ReconcilePending(t)
    BY <2>5, ReconcilePendingStep
  <2> QED BY <1>2, <2>3, <2>4, <2>5 DEF Begin
<1>3. ASSUME NEW t \in Thread, Lock(t) PROVE IInv'
  BY <1>3, LockStep
<1>4. ASSUME NEW t \in Thread, Work(t) PROVE IInv'
  BY <1>4, FailSteps, PacketSteps, ReadSteps, AppendStep, CursorSteps, DeleteSteps, UnlockStep, UnrefStep
     DEF Work
<1>5. CASE Crash \/ Restart
  BY <1>5, ProcessSteps
<1>6. CASE UNCHANGED vars
  <2>1. UNCHANGED <<up, source, trimmed, hist, acked, cursors, table, refs, holder, closed, closing,
                    pc, op, mine, locked, at, upto, left, item, exported, pending>>
    BY <1>6 DEF vars, journal, history, locks, observers, locals
  <2>2. LockInv /\ DataTypes /\ WorkInv /\ StreamInv
    BY DEF IInv
  <2>3. LockInv'
    <3>1. up' \in BOOLEAN
      BY <2>1, <2>2 DEF LockInv, LockTypes
    <3> QED BY <2>1, <2>2, <3>1, LocksStay
  <2>4. DataTypes'
    BY ONLY <2>1, <2>2 DEF DataTypes
  <2>5. WorkInv' /\ StreamInv'
    BY ONLY <2>1, <2>2 DEF WorkInv, WorkOK, ItemOK, AckOK, CloseOK, StreamOf, ViewOf, StreamInv,
       StreamOK, SentUpTo, Ending
  <2> QED BY <2>3, <2>4, <2>5 DEF IInv
<1> QED BY <1>1, <1>2, <1>3, <1>4, <1>5, <1>6 DEF Next

(* What is true of every state a Coordinator reaches. *)
THEOREM Invariance == Spec => []IInv
<1>1. IInv /\ [Next]_vars => IInv'
  BY NextIsSound
<1> QED BY <1>1, InitIsSound, PTL DEF Spec

-----------------------------------------------------------------------------
(* No stream has a gap, no cursor is ahead of what was sent, and a sequence *)
(* that was validated may still be acknowledged (coordinator.go:385-386).   *)
THEOREM StreamsWhole == Spec => []StreamsAreWhole
<1>1. IInv => StreamsAreWhole
  <2> SUFFICES ASSUME IInv PROVE StreamsAreWhole
    OBVIOUS
  <2>1. LockInv /\ LockTypes /\ TableInv /\ OpInv /\ DataTypes /\ WorkInv /\ StreamInv
    BY DEF IInv, LockInv
  <2>2. TypeOK
    <3>1. \A s \in Stream : acked[s] \in 0..Len(hist[s])
      BY <2>1 DEF DataTypes
    <3>2. \A t \in Thread : op[t].kind \in Operation \cup {"none"} /\ locked[t] \subseteq mine[t]
      BY <2>1 DEF LockTypes, OpType, TableInv
    <3> QED BY <2>1, <3>1, <3>2 DEF TypeOK, LockTypes, DataTypes
  <2>3. NoSourceGap
    BY <2>1 DEF NoSourceGap, StreamInv, StreamOK
  <2>4. CursorIsSent
    <3>1. \A s \in Stream : Ending(s) => s.view[1] \in closing
      BY <2>1 DEF Ending, OpInv, OpOK, Path, Preparing, Operation
    <3> QED BY <2>1, <3>1 DEF CursorIsSent, StreamInv, StreamOK
  <2>5. AckStaysValid
    BY <2>1 DEF AckStaysValid, WorkInv, WorkOK, AckOK
  <2> QED BY <2>2, <2>3, <2>4, <2>5 DEF StreamsAreWhole
<1> QED BY <1>1, Invariance, PTL

(* The locks of views exclude, and are in the table as long as, and only as *)
(* long as, somebody uses them                                              *)
(* (TestCoordinatorReclaimsViewLocksAndRequiresExplicitReopen).             *)
THEOREM LocksKept == Spec => []LocksAreKept
<1>1. IInv => LocksAreKept
  <2> SUFFICES ASSUME IInv PROVE LocksAreKept
    OBVIOUS
  <2>1. LockTypes /\ TableInv /\ HolderInv
    BY DEF IInv, LockInv
  <2>2. ViewsAreExclusive
    <3> SUFFICES ASSUME NEW t \in Thread, NEW u \in Thread, NEW v \in View, Holds(t, v), Holds(u, v)
                 PROVE  t = u
      BY DEF ViewsAreExclusive
    <3>1. PICK e \in Entry, f \in Entry : <<v, e>> \in locked[t] /\ <<v, f>> \in locked[u]
      BY DEF Holds
    <3>2. table[v] = e /\ table[v] = f
      BY <2>1, <3>1 DEF TableInv
    <3> QED BY <2>1, <3>1, <3>2 DEF HolderInv
  <2>3. \A v \in View : table[v] # None <=> \E t \in Thread, e \in Entry : <<v, e>> \in mine[t]
    <3> SUFFICES ASSUME NEW v \in View
                 PROVE  table[v] # None <=> \E t \in Thread, e \in Entry : <<v, e>> \in mine[t]
      OBVIOUS
    <3>1. ASSUME table[v] # None PROVE \E t \in Thread, e \in Entry : <<v, e>> \in mine[t]
      <4>1. table[v] \in Entry
        BY <2>1, <3>1 DEF LockTypes
      <4> QED BY <2>1, <3>1, <4>1 DEF TableInv
    <3>2. ASSUME NEW t \in Thread, NEW e \in Entry, <<v, e>> \in mine[t] PROVE table[v] # None
      BY <2>1, <3>2, NoneAssumption DEF TableInv
    <3> QED BY <3>1, <3>2
  <2>4. \A e \in Entry :
            refs[e] = Cardinality({t \in Thread : \E v \in View : <<v, e>> \in mine[t]})
    BY <2>1 DEF TableInv, Sharing
  <2> QED BY <2>2, <2>3, <2>4 DEF LocksAreKept, LocksAreReclaimed
<1> QED BY <1>1, Invariance, PTL

(* An observer is opened again only when nobody works for its former life.  *)
THEOREM OpensCleanly == Spec => OpensClean
<1>1. IInv /\ [Next]_vars
      => [\A o \in closed \ closed' : up' => \A t \in Thread : op[t].obs # o]_vars
  <2> SUFFICES ASSUME IInv, Next, NEW o \in closed \ closed', up', NEW u \in Thread, op[u].obs = o
               PROVE  FALSE
    OBVIOUS
  <2>1. LockTypes /\ OpInv /\ TableInv
    BY DEF IInv, LockInv
  <2>2. PICK t \in Thread : Open(t, o)
    <3>1. ASSUME NEW tp \in Topic, Mutate(tp) \/ Trim(tp) PROVE closed' = closed
      BY <3>1 DEF Mutate, Trim, observers
    <3>2. ASSUME NEW t \in Thread, Lock(t) \/ Work(t) PROVE closed' = closed
      BY <3>2 DEF Lock, Work, observers, AppendRecord, Fail, Put, PutFails, Export, Reconcile, Poll,
         Snapshot, ScanEnds, ScanFilters, ScanProjects, Advance, Validate, DropPending,
         AcknowledgeHistory, Recover, Resend, RecoverPut, Discard, DeleteHistory, DeleteCursors,
         Unlock, Unref
    <3>3. ASSUME NEW t \in Thread, NEW kind, NEW v \in View, NEW i, NEW n, Acquire(t, kind, v, i, n)
          PROVE  closed' = closed
      BY <3>3 DEF Acquire, observers
    <3>4. ASSUME NEW t \in Thread, NEW x \in Observer, Close(t, x) PROVE closed \subseteq closed'
      BY <3>4 DEF Close
    <3>5. ASSUME NEW t \in Thread, NEW x \in Observer, Open(t, x) PROVE x = o
      BY <3>5 DEF Open
    <3>6. ASSUME NEW t \in Thread, ReconcilePending(t) PROVE closed' = closed
      BY <3>6 DEF ReconcilePending, observers
    <3>7. ~Crash /\ (Restart => closed' = closed)
      BY DEF Crash, Restart, observers
    <3>8. PICK t \in Thread : Begin(t)
      BY <3>1, <3>2, <3>7 DEF Next
    <3>9. PICK x \in Observer : Open(t, x)
      BY <3>3, <3>4, <3>6, <3>8 DEF Begin
    <3> QED BY <3>5, <3>9
  <2>3. o \notin closing /\ (\A v \in View : v[1] = o => table[v] = None) /\ o \in Observer /\ o # None
    BY <2>1, <2>2, NoneAssumption DEF Open, Openable, InUse, LockTypes
  <2>4. OpOK(u) /\ op[u].kind \in Operation \cup {"none"}
    BY <2>1 DEF OpInv, LockTypes, OpType
  <2>5. op[u].kind \in OnView
    BY <2>3, <2>4 DEF OpOK, OnView, Operation
  <2>6. PICK e \in Entry : ViewOf(u) \in View /\ mine[u] = {<<ViewOf(u), e>>}
    BY <2>4, <2>5 DEF OpOK
  <2>7. table[ViewOf(u)] = e /\ e # None
    BY <2>1, <2>6, NoneAssumption DEF TableInv
  <2>8. ViewOf(u)[1] = o
    BY DEF ViewOf
  <2> QED BY <2>3, <2>6, <2>7, <2>8
<1> QED BY <1>1, Invariance, PTL DEF Spec, OpensClean

-----------------------------------------------------------------------------
(* What is owed to the Outbox, packet by packet.                            *)
Retained(s) == (acked[s] + 1)..Len(hist[s])
Packet(s, n) == [stream |-> s, seq |-> n]

Owed ==
    up => \A s \in Stream : \A n \in Retained(s) :
              Packet(s, n) \in pending \/ \E t \in Thread : InHand(t, s, n)

(* UnackedIsPending, said packet by packet.                                 *)
LEMMA OwedMeans == UnackedIsPending <=> Owed
<1>1. \A s \in Stream : \A n \in Retained(s) :
          Packet(s, n) \in Unacknowledged /\ Packet(s, n).stream = s /\ Packet(s, n).seq = n
  BY DEF Unacknowledged, Retained, Packet
<1>2. \A p \in Unacknowledged : \E s \in Stream : \E n \in Retained(s) :
          p = Packet(s, n) /\ p.stream = s /\ p.seq = n
  BY DEF Unacknowledged, Retained, Packet
<1> QED BY <1>1, <1>2 DEF UnackedIsPending, Owed

(* What a goroutine has in hand depends on what it is doing only. *)
LEMMA HandsStay ==
    ASSUME NEW t \in Thread, NEW s, NEW n, pc'[t] = pc[t], op'[t] = op[t], at'[t] = at[t],
           item'[t] = item[t], exported'[t] = exported[t]
    PROVE  InHand(t, s, n) <=> InHand(t, s, n)'
  BY DEF InHand, StreamOf, ViewOf

(* The others stay where they are, and what goroutine t lets go is stored,  *)
(* or need not be any more.                                                 *)
Pays(t) ==
    /\ up' => up
    /\ \A u \in Thread \ {t} : /\ pc'[u] = pc[u] /\ op'[u] = op[u] /\ at'[u] = at[u]
                               /\ item'[u] = item[u] /\ exported'[u] = exported[u]
    /\ exported'[t] # {} => pc'[t] = "reconcile"
    /\ \A s \in Stream : \A n \in Retained(s)' :
          \/ Packet(s, n) \in pending' \/ InHand(t, s, n)'
          \/ n \in Retained(s) /\ Packet(s, n) \notin pending /\ ~InHand(t, s, n)

(* Then nothing is owed that nobody has in hand.                            *)
LEMMA PaysIsEnough ==
    ASSUME OwedInv, NEW t \in Thread, Pays(t)
    PROVE  OwedInv'
<1>1. (\A u \in Thread : exported[u] # {} => pc[u] = "reconcile")'
  <2>1. \A u \in Thread : exported[u] # {} => pc[u] = "reconcile"
    BY DEF OwedInv
  <2> QED BY <2>1 DEF Pays
<1>2. ASSUME up', NEW s \in Stream, NEW n \in Retained(s)'
      PROVE  Packet(s, n) \in pending' \/ \E u \in Thread : InHand(u, s, n)'
  <2> SUFFICES ASSUME n \in Retained(s), Packet(s, n) \notin pending, ~InHand(t, s, n)
               PROVE  \E u \in Thread : InHand(u, s, n)'
    BY <1>2 DEF Pays
  <2>1. up
    BY <1>2 DEF Pays
  <2>2. PICK u \in Thread : InHand(u, s, n)
    BY <2>1, OwedMeans DEF OwedInv, Owed
  <2>3. u # t
    BY <2>2
  <2>4. pc'[u] = pc[u] /\ op'[u] = op[u] /\ at'[u] = at[u] /\ item'[u] = item[u]
        /\ exported'[u] = exported[u]
    BY <2>3 DEF Pays
  <2> QED BY <2>2, <2>4, HandsStay
<1>3. (UnackedIsPending <=> Owed)'
  BY OwedMeans, PTL
<1>4. UnackedIsPending'
  BY <1>2, <1>3 DEF Owed
<1> QED BY <1>1, <1>4 DEF OwedInv

(* A goroutine with nothing in hand that removes nothing owes nothing new.  *)
LEMMA EmptyHanded ==
    ASSUME IInv, OwedInv, NEW t \in Thread,
           UNCHANGED <<up, hist, acked>>, pending \subseteq pending',
           pc[t] \notin {"put", "export", "reconcile", "ackHistory", "deleteHistory"},
           \A u \in Thread \ {t} : /\ pc'[u] = pc[u] /\ op'[u] = op[u] /\ at'[u] = at[u]
                                   /\ item'[u] = item[u] /\ exported'[u] = exported[u],
           exported'[t] = exported[t] \/ exported'[t] = {}
    PROVE  OwedInv'
<1>1. exported[t] = {} /\ exported'[t] = {}
  BY DEF OwedInv
<1>2. \A s, n : ~InHand(t, s, n)
  BY <1>1 DEF InHand
<1>3. \A s : Retained(s)' = Retained(s)
  BY DEF Retained
<1>4. Pays(t)
  BY <1>1, <1>2, <1>3 DEF Pays
<1> QED BY <1>4, PaysIsEnough

(* Steps that do not store, drop or delete a packet. *)
LEMMA OtherSteps ==
    ASSUME IInv, OwedInv, NEW t \in Thread,
           \/ Begin(t) \/ Lock(t) \/ Unlock(t) \/ Unref(t) \/ Fail(t) \/ Poll(t) \/ Snapshot(t)
           \/ ScanEnds(t) \/ ScanFilters(t) \/ ScanProjects(t) \/ Advance(t) \/ Validate(t)
           \/ Recover(t) \/ Resend(t) \/ RecoverPut(t) \/ DeleteCursors(t)
    PROVE  OwedInv'
<1>1. /\ pc \in [Thread -> Steps] /\ op \in [Thread -> OpType] /\ at \in [Thread -> 1..Len(Topics)]
      /\ item \in [Thread -> ItemType] /\ exported \in [Thread -> SUBSET PacketID]
  BY DEF IInv, LockInv, LockTypes, DataTypes
<1>2. CASE Begin(t)
  <2>1. CASE \E kind, v, i, n : Acquire(t, kind, v, i, n)
    <3> PICK kind, v, i, n : Acquire(t, kind, v, i, n)
      BY <2>1
    <3>1. /\ UNCHANGED <<up, hist, acked, pending, item, exported>> /\ pc[t] = "idle"
          /\ \A u \in Thread \ {t} : pc'[u] = pc[u] /\ op'[u] = op[u] /\ at'[u] = at[u]
      BY <1>1 DEF Acquire, Goto, history
    <3> QED BY <3>1, EmptyHanded
  <2>2. CASE \E o \in Observer : Close(t, o)
    <3> PICK o \in Observer : Close(t, o)
      BY <2>2
    <3>1. /\ UNCHANGED <<up, hist, acked, pending, at, item, exported>> /\ pc[t] = "idle"
          /\ \A u \in Thread \ {t} : pc'[u] = pc[u] /\ op'[u] = op[u]
      BY <1>1 DEF Close, Goto, history, locals
    <3> QED BY <3>1, EmptyHanded
  <2>3. CASE (\E o \in Observer : Open(t, o)) \/ ReconcilePending(t)
    <3>1. /\ UNCHANGED <<up, hist, acked, pending, at, item, exported>> /\ pc[t] = "idle"
          /\ \A u \in Thread \ {t} : pc'[u] = pc[u] /\ op'[u] = op[u]
      BY <1>1, <2>3 DEF Open, ReconcilePending, Goto, history, locals
    <3> QED BY <3>1, EmptyHanded
  <2> QED BY <1>2, <2>1, <2>2, <2>3 DEF Begin
<1>3. CASE Unref(t)
  <2>1. /\ UNCHANGED <<up, hist, acked, pending>> /\ pc[t] = "unref" /\ exported'[t] = {}
        /\ \A u \in Thread \ {t} : /\ pc'[u] = pc[u] /\ op'[u] = op[u] /\ at'[u] = at[u]
                                   /\ item'[u] = item[u] /\ exported'[u] = exported[u]
    BY <1>1, <1>3 DEF Unref, Forget, Goto, history
  <2> QED BY <2>1, EmptyHanded
<1>4. CASE Lock(t) \/ Unlock(t) \/ Fail(t) \/ Poll(t) \/ Validate(t) \/ Recover(t) \/ RecoverPut(t)
  <2>1. /\ UNCHANGED <<up, hist, acked, pending, op, at, item, exported>>
        /\ pc[t] \notin {"put", "export", "reconcile", "ackHistory", "deleteHistory"}
        /\ \A u \in Thread \ {t} : pc'[u] = pc[u]
    BY <1>1, <1>4 DEF Lock, Unlock, Fail, Poll, Validate, Recover, RecoverPut, Goto, history, locals
  <2> QED BY <2>1, EmptyHanded
<1>5. CASE Snapshot(t) \/ ScanEnds(t) \/ ScanFilters(t) \/ ScanProjects(t) \/ DeleteCursors(t)
  <2>1. /\ UNCHANGED <<up, hist, acked, pending, op, exported>>
        /\ pc[t] \notin {"put", "export", "reconcile", "ackHistory", "deleteHistory"}
        /\ \A u \in Thread \ {t} : pc'[u] = pc[u] /\ at'[u] = at[u] /\ item'[u] = item[u]
    BY <1>1, <1>5 DEF Snapshot, ScanEnds, ScanFilters, ScanProjects, DeleteCursors, NextTopic, Goto,
       history, locals
  <2> QED BY <2>1, EmptyHanded
<1>6. CASE Advance(t)
  <2>1. /\ UNCHANGED <<up, hist, acked, pending, op, exported>> /\ pc[t] = "advance"
        /\ \A u \in Thread \ {t} : pc'[u] = pc[u] /\ at'[u] = at[u] /\ item'[u] = item[u]
    BY <1>1, <1>6 DEF Advance, NextTopic, Goto, history
  <2> QED BY <2>1, EmptyHanded
<1>7. CASE Resend(t)
  <2>1. /\ UNCHANGED <<up, hist, acked, op, at, item, exported>> /\ pc[t] = "resend"
        /\ \A u \in Thread \ {t} : pc'[u] = pc[u]
    BY <1>1, <1>7 DEF Resend, Goto, history, locals
  <2>2. pending \subseteq pending'
    BY <1>7 DEF Resend
  <2> QED BY <2>1, <2>2, EmptyHanded
<1> QED BY <1>2, <1>3, <1>4, <1>5, <1>6, <1>7

(* Steps that do. *)
LEMMA OwingSteps ==
    ASSUME IInv, OwedInv, NEW t \in Thread, Faults \cap {"reconcile", "recoverPut", "delete"} = {},
           \/ AppendRecord(t) \/ Put(t) \/ PutFails(t) \/ Export(t) \/ Reconcile(t) \/ DropPending(t)
           \/ AcknowledgeHistory(t) \/ Discard(t) \/ DeleteHistory(t)
    PROVE  OwedInv'
<1>1. /\ pc \in [Thread -> Steps] /\ op \in [Thread -> OpType] /\ at \in [Thread -> 1..Len(Topics)]
      /\ item \in [Thread -> ItemType] /\ exported \in [Thread -> SUBSET PacketID]
      /\ hist \in [Stream -> Seq(Record)] /\ acked \in [Stream -> Nat] /\ OpOK(t)
      /\ exported[t] # {} => pc[t] = "reconcile"
  BY DEF IInv, LockInv, LockTypes, DataTypes, OpInv, OwedInv
<1>2. ~MayFail("reconcile") /\ ~MayFail("recoverPut") /\ ~MayFail("delete")
  BY DEF MayFail
<1>3. ASSUME UNCHANGED <<up, op, at>>,
             \A u \in Thread \ {t} : /\ pc'[u] = pc[u] /\ item'[u] = item[u]
                                     /\ exported'[u] = exported[u],
             exported'[t] # {} => pc'[t] = "reconcile",
             \A s \in Stream : \A n \in Retained(s)' :
                 \/ Packet(s, n) \in pending' \/ InHand(t, s, n)'
                 \/ n \in Retained(s) /\ Packet(s, n) \notin pending /\ ~InHand(t, s, n)
      PROVE  OwedInv'
  <2>1. Pays(t)
    BY <1>3 DEF Pays
  <2> QED BY <2>1, PaysIsEnough
<1>4. CASE AppendRecord(t)
  <2>1. /\ UNCHANGED <<up, op, at, acked, pending, exported>> /\ pc[t] = "append" /\ pc'[t] = "put"
        /\ \A u \in Thread \ {t} : pc'[u] = pc[u] /\ item'[u] = item[u]
    BY <1>1, <1>4 DEF AppendRecord, AppendFrom, Goto
  <2>2. op[t].kind \in Preparing
    BY <1>1, <2>1 DEF OpOK, Path, Preparing, Operation
  <2>3. PICK s \in Stream : s = StreamOf(t)
    BY <1>1, <2>2, StreamIsTyped DEF Preparing, OnView
  <2>4. /\ \A r \in Stream \ {s} : hist'[r] = hist[r]
        /\ Len(hist'[s]) = Len(hist[s]) + 1 /\ item'[t].seq = Len(hist[s]) + 1
    <3> PICK rec : rec = [full |-> item[t].full, src |-> item[t].src]
      OBVIOUS
    <3>1. /\ hist' = [hist EXCEPT ![s] = Append(hist[s], rec)]
          /\ item' = [item EXCEPT ![t] = [item[t] EXCEPT !.seq = Len(hist[s]) + 1]]
      BY <1>4, <2>3 DEF AppendRecord, AppendFrom
    <3>2. hist[s] \in Seq(Record) /\ item[t] \in ItemType
      BY <1>1
    <3>3. rec \in Record
      BY <3>2 DEF ItemType, Record
    <3>4. Len(Append(hist[s], rec)) = Len(hist[s]) + 1
      BY ONLY <3>2, <3>3
    <3>5. [item[t] EXCEPT !.seq = Len(hist[s]) + 1].seq = Len(hist[s]) + 1
      BY ONLY <3>2 DEF ItemType
    <3> QED BY <1>1, <3>1, <3>4, <3>5
  <2>5. \A r \in Stream : \A n \in Retained(r)' : n \in Retained(r) \/ (r = s /\ n = Len(hist[s]) + 1)
    <3> SUFFICES ASSUME NEW r \in Stream, NEW n \in Retained(r)'
                 PROVE  n \in Retained(r) \/ (r = s /\ n = Len(hist[s]) + 1)
      OBVIOUS
    <3>1. n \in (acked[r] + 1)..Len(hist'[r]) /\ Len(hist[r]) \in Nat /\ acked[r] \in Nat
      BY <1>1, <2>1 DEF Retained
    <3>2. CASE r # s
      <4>1. hist'[r] = hist[r]
        BY <2>4, <3>2
      <4> QED BY <3>1, <4>1 DEF Retained
    <3>3. CASE r = s
      <4>1. Len(hist'[r]) = Len(hist[s]) + 1
        BY <2>4, <3>3
      <4>2. n \in (acked[r] + 1)..Len(hist[r]) \/ n = Len(hist[s]) + 1
        BY ONLY <3>1, <3>3, <4>1
      <4> QED BY <3>3, <4>2 DEF Retained
    <3> QED BY <3>2, <3>3
  <2>6. \A n : n = Len(hist[s]) + 1 => InHand(t, s, n)'
    <3>1. StreamOf(t)' = s
      BY <2>1, <2>3 DEF StreamOf, ViewOf
    <3> QED BY <2>1, <2>2, <2>4, <3>1 DEF InHand, Preparing
  <2>7. exported[t] = {} /\ \A r, n : ~InHand(t, r, n)
    BY <1>1, <2>1 DEF InHand
  <2>8. \A r \in Stream : \A n \in Retained(r)' :
            \/ Packet(r, n) \in pending' \/ InHand(t, r, n)'
            \/ n \in Retained(r) /\ Packet(r, n) \notin pending /\ ~InHand(t, r, n)
    <3> SUFFICES ASSUME NEW r \in Stream, NEW n \in Retained(r)', Packet(r, n) \notin pending',
                        ~InHand(t, r, n)'
                 PROVE  n \in Retained(r) /\ Packet(r, n) \notin pending /\ ~InHand(t, r, n)
      OBVIOUS
    <3> QED BY <2>1, <2>5, <2>6, <2>7
  <2> QED BY <1>3, <2>1, <2>7, <2>8
<1>5. CASE Put(t)
  <2>1. /\ UNCHANGED <<up, op, at, hist, acked, item, exported>> /\ pc[t] = "put" /\ exported[t] = {}
        /\ \A u \in Thread \ {t} : pc'[u] = pc[u]
        /\ pending' = pending \cup {Packet(StreamOf(t), item[t].seq)}
    BY <1>1, <1>5 DEF Put, Goto, history, locals, Packet
  <2>2. \A s, n : InHand(t, s, n) => Packet(s, n) = Packet(StreamOf(t), item[t].seq)
    BY <2>1 DEF InHand
  <2>3. \A s : Retained(s)' = Retained(s)
    BY <2>1 DEF Retained
  <2> QED BY <1>3, <2>1, <2>2, <2>3
<1>6. CASE PutFails(t)
  <2>1. /\ UNCHANGED <<up, op, at, hist, acked, pending, item, exported>> /\ pc[t] = "put"
        /\ op[t].kind # "recover" /\ pc'[t] = "export" /\ exported[t] = {}
        /\ \A u \in Thread \ {t} : pc'[u] = pc[u]
    BY <1>1, <1>2, <1>6 DEF PutFails, Repair, Goto, history, locals
  <2>2. StreamOf(t)' = StreamOf(t)
    BY <2>1 DEF StreamOf, ViewOf
  <2>3. \A s, n : InHand(t, s, n) => InHand(t, s, n)'
    BY <2>1, <2>2 DEF InHand
  <2>4. \A s : Retained(s)' = Retained(s)
    BY <2>1 DEF Retained
  <2> QED BY <1>3, <2>1, <2>3, <2>4
<1>7. CASE Export(t)
  <2>1. /\ UNCHANGED <<up, op, at, hist, acked, pending, item>> /\ pc'[t] = "reconcile"
        /\ exported'[t] = Unacknowledged
        /\ \A u \in Thread \ {t} : pc'[u] = pc[u] /\ exported'[u] = exported[u]
    BY <1>1, <1>7 DEF Export, Goto, history
  <2>2. \A s \in Stream : \A n \in Retained(s)' : Packet(s, n) \in Unacknowledged
    BY <2>1 DEF Retained, Packet, Unacknowledged
  <2>3. \A s \in Stream : \A n \in Retained(s)' : InHand(t, s, n)'
    BY <2>1, <2>2 DEF InHand, Packet
  <2> QED BY <1>3, <2>1, <2>3
<1>8. CASE Reconcile(t)
  <2>1. /\ UNCHANGED <<up, op, at, hist, acked, item>> /\ pc[t] = "reconcile" /\ exported'[t] = {}
        /\ \A u \in Thread \ {t} : pc'[u] = pc[u] /\ exported'[u] = exported[u]
        /\ pending' = pending \cup exported[t]
    BY <1>1, <1>2, <1>8 DEF Reconcile, Goto, history
  <2>2. \A s, n : InHand(t, s, n) => Packet(s, n) \in exported[t]
    BY <2>1 DEF InHand, Packet
  <2>3. \A s : Retained(s)' = Retained(s)
    BY <2>1 DEF Retained
  <2> QED BY <1>3, <2>1, <2>2, <2>3
<1>9. CASE DropPending(t)
  <2>1. /\ UNCHANGED <<up, op, at, hist, acked, item, exported>> /\ pc[t] = "drop" /\ exported[t] = {}
        /\ pc'[t] \in {"ackHistory", "export"} /\ op[t].kind = "ack" /\ op[t].seq \in Nat
        /\ \A u \in Thread \ {t} : pc'[u] = pc[u]
    <3>1. op[t].kind = "ack"
      BY <1>1, <1>9 DEF DropPending, OpOK, Path, Preparing, Operation
    <3>2. op[t].seq \in Nat
      BY <1>1, NumberAssumption DEF OpType
    <3> QED BY <1>1, <1>9, <3>1, <3>2 DEF DropPending, Repair, Goto, history, locals
  <2>2. \A s, n : Packet(s, n) \in pending => Packet(s, n) \in pending' \/ (s = StreamOf(t) /\ n <= op[t].seq)
    <3>1. PICK m : pending' = pending \ UpTo(StreamOf(t), m) /\ m \in Int /\ m <= op[t].seq
      BY <1>9, <2>1 DEF DropPending
    <3> SUFFICES ASSUME NEW s, NEW n, Packet(s, n) \in pending, Packet(s, n) \notin pending'
                 PROVE  s = StreamOf(t) /\ n <= op[t].seq
      OBVIOUS
    <3>2. Packet(s, n) \in PacketID
      BY DEF IInv, DataTypes
    <3>3. n \in 1..MaxLatest /\ Packet(s, n).stream = s /\ Packet(s, n).seq = n
      BY <3>2 DEF PacketID, Packet
    <3>4. s = StreamOf(t) /\ n <= m
      BY <3>1, <3>3 DEF UpTo
    <3> QED BY <2>1, <3>1, <3>3, <3>4, NumberAssumption
  <2>3. StreamOf(t)' = StreamOf(t) /\ \A s, n : ~InHand(t, s, n)
    BY <2>1 DEF StreamOf, ViewOf, InHand
  <2>4. \A n : n <= op[t].seq => InHand(t, StreamOf(t), n)'
    BY <2>1, <2>3 DEF InHand
  <2>5. \A s : Retained(s)' = Retained(s)
    BY <2>1 DEF Retained
  <2>6. \A s \in Stream : \A n \in Retained(s)' :
            \/ Packet(s, n) \in pending' \/ InHand(t, s, n)'
            \/ n \in Retained(s) /\ Packet(s, n) \notin pending /\ ~InHand(t, s, n)
    BY <2>2, <2>3, <2>4, <2>5
  <2> QED BY <1>3, <2>1, <2>6
<1>10. CASE AcknowledgeHistory(t)
  <2>1. /\ UNCHANGED <<up, op, at, hist, pending, item, exported>> /\ pc[t] = "ackHistory"
        /\ exported[t] = {} /\ op[t].kind = "ack" /\ op[t].seq \in Nat
        /\ \A u \in Thread \ {t} : pc'[u] = pc[u]
    <3>1. op[t].kind = "ack"
      BY <1>1, <1>10 DEF AcknowledgeHistory, OpOK, Path, Preparing, Operation
    <3>2. op[t].seq \in Nat
      BY <1>1, NumberAssumption DEF OpType
    <3> QED BY <1>1, <1>10, <3>1, <3>2 DEF AcknowledgeHistory, Repair, Goto, locals
  <2>2. StreamOf(t)' = StreamOf(t) /\ \A s, n : InHand(t, s, n) => s = StreamOf(t) /\ n <= op[t].seq
    BY <2>1 DEF StreamOf, ViewOf, InHand
  <2>3. CASE pc'[t] = "export" /\ acked' = acked
    <3>1. \A s, n : InHand(t, s, n) => InHand(t, s, n)'
      BY <2>1, <2>2, <2>3 DEF InHand
    <3>2. \A s : Retained(s)' = Retained(s)
      BY <2>1, <2>3 DEF Retained
    <3> QED BY <1>3, <2>1, <2>3, <3>1, <3>2
  <2>4. CASE acked' = [acked EXCEPT ![StreamOf(t)] = IF op[t].seq > @ THEN op[t].seq ELSE @]
    <3>1. \A s \in Stream : /\ s # StreamOf(t) => acked'[s] = acked[s]
                            /\ s = StreamOf(t) => acked'[s] >= acked[s] /\ acked'[s] >= op[t].seq
                            /\ acked'[s] \in Nat /\ acked[s] \in Nat /\ acked'[s] >= acked[s]
      BY ONLY <1>1, <2>1, <2>4
    <3>2. \A s \in Stream : \A n \in Retained(s)' : n \in Retained(s) /\ ~InHand(t, s, n)
      <4> SUFFICES ASSUME NEW s \in Stream, NEW n \in Retained(s)'
                   PROVE  n \in Retained(s) /\ ~(s = StreamOf(t) /\ n <= op[t].seq)
        BY <2>2
      <4>1. n \in (acked'[s] + 1)..Len(hist[s]) /\ Len(hist[s]) \in Nat
        BY <1>1, <2>1 DEF Retained
      <4> QED BY ONLY <2>1, <3>1, <4>1, s \in Stream DEF Retained
    <3> QED BY <1>3, <2>1, <3>2
  <2> QED BY <1>1, <1>10, <2>3, <2>4 DEF AcknowledgeHistory, Repair, Goto
<1>11. CASE Discard(t)
  <2>1. /\ UNCHANGED <<up, op, at, hist, acked, item, exported>> /\ pc[t] = "discard"
        /\ exported[t] = {} /\ pc'[t] \in {"deleteHistory", "export"} /\ op[t].kind = "close"
        /\ \A u \in Thread \ {t} : pc'[u] = pc[u]
    <3>1. op[t].kind = "close"
      BY <1>1, <1>11 DEF Discard, OpOK, Path, Preparing, Operation
    <3> QED BY <1>1, <1>11, <3>1 DEF Discard, Repair, Goto, history, locals
  <2>2. \A s, n : Packet(s, n) \in pending => Packet(s, n) \in pending' \/ op[t].obs = s.view[1]
    <3>1. PICK gone \in SUBSET OfObserver(op[t].obs) : pending' = pending \ gone
      BY <1>11 DEF Discard
    <3>2. \A p \in gone : p.stream.view[1] = op[t].obs
      BY <3>1 DEF OfObserver
    <3> QED BY <3>1, <3>2 DEF Packet
  <2>3. \A s, n : ~InHand(t, s, n)
    BY <2>1 DEF InHand
  <2>4. \A s, n : op[t].obs = s.view[1] => InHand(t, s, n)'
    BY <2>1 DEF InHand
  <2>5. \A s : Retained(s)' = Retained(s)
    BY <2>1 DEF Retained
  <2> QED BY <1>3, <2>1, <2>2, <2>3, <2>4, <2>5
<1>12. CASE DeleteHistory(t)
  <2>1. /\ UNCHANGED <<up, op, at, pending, item, exported>> /\ pc[t] = "deleteHistory"
        /\ exported[t] = {} /\ op[t].kind = "close"
        /\ \A u \in Thread \ {t} : pc'[u] = pc[u]
        /\ hist' = [s \in Stream |-> IF s.view[1] = op[t].obs THEN <<>> ELSE hist[s]]
        /\ acked' = [s \in Stream |-> IF s.view[1] = op[t].obs THEN 0 ELSE acked[s]]
    <3>1. op[t].kind = "close"
      BY <1>1, <1>12 DEF DeleteHistory, OpOK, Path, Preparing, Operation
    <3> QED BY <1>1, <1>2, <1>12, <3>1 DEF DeleteHistory, Goto, locals
  <2>2. \A s, n : InHand(t, s, n) => op[t].obs = s.view[1]
    BY <2>1 DEF InHand
  <2>3. \A s \in Stream : \A n \in Retained(s)' : n \in Retained(s) /\ op[t].obs # s.view[1]
    <3> SUFFICES ASSUME NEW s \in Stream, NEW n \in Retained(s)'
                 PROVE  n \in Retained(s) /\ op[t].obs # s.view[1]
      OBVIOUS
    <3>1. CASE op[t].obs = s.view[1]
      <4>1. hist'[s] = <<>> /\ acked'[s] = 0
        BY <2>1, <3>1
      <4>2. n \in (0 + 1)..Len(<<>>)
        BY <4>1 DEF Retained
      <4> QED BY <4>2
    <3>2. CASE op[t].obs # s.view[1]
      <4>1. hist'[s] = hist[s] /\ acked'[s] = acked[s]
        BY <2>1, <3>2
      <4> QED BY <3>2, <4>1 DEF Retained
    <3> QED BY <3>1, <3>2
  <2> QED BY <1>3, <2>1, <2>2, <2>3
<1> QED BY <1>4, <1>5, <1>6, <1>7, <1>8, <1>9, <1>10, <1>11, <1>12

(* "Outbox retains every appended packet until client ACK" (outbox.go:106): *)
(* a packet that was not acknowledged is in the Outbox, or somebody is      *)
(* about to put it there, whatever the operations do and wherever the       *)
(* process dies.  When the repair itself fails, or Recover or the deletion  *)
(* of a stream does, the packet waits for the next repair instead.          *)
THEOREM NothingOwed ==
    ASSUME Faults \cap {"reconcile", "recoverPut", "delete"} = {}
    PROVE  Spec => []UnackedIsPending
<1>1. Init => OwedInv
  <2> SUFFICES ASSUME Init PROVE OwedInv
    OBVIOUS
  <2>1. \A s \in Stream : Retained(s) = {}
    BY DEF Init, Retained
  <2> QED BY <2>1, OwedMeans DEF OwedInv, Owed, Init
<1>2. IInv /\ OwedInv /\ [Next]_vars => OwedInv'
  <2> SUFFICES ASSUME IInv, OwedInv, [Next]_vars PROVE OwedInv'
    OBVIOUS
  <2>1. (UnackedIsPending <=> Owed)'
    BY OwedMeans, PTL
  <2>2. ASSUME UNCHANGED <<pc, op, at, item, exported, hist, acked>>, pending \subseteq pending',
               up' = up
        PROVE  OwedInv'
    <3>1. \A t \in Thread : \A s, n : InHand(t, s, n) <=> InHand(t, s, n)'
      BY <2>2, HandsStay
    <3>2. \A s : Retained(s)' = Retained(s)
      BY <2>2 DEF Retained
    <3>3. UnackedIsPending'
      BY <2>1, <2>2, <3>1, <3>2, OwedMeans DEF OwedInv, Owed
    <3> QED BY <2>2, <3>3 DEF OwedInv
  <2>3. ASSUME NEW tp \in Topic, Mutate(tp) \/ Trim(tp) PROVE OwedInv'
    BY <2>2, <2>3 DEF Mutate, Trim, history, locals
  <2>4. ASSUME NEW t \in Thread, Begin(t) \/ Lock(t) \/ Work(t) PROVE OwedInv'
    BY <2>4, OtherSteps, OwingSteps DEF Work
  <2>5. CASE Crash
    BY <2>5 DEF Crash, OwedInv, UnackedIsPending
  <2>6. CASE Restart
    <3>1. /\ UNCHANGED <<pc, op, at, item, exported, hist, acked>>
          /\ pending' = pending \cup Unacknowledged
      BY <2>6 DEF Restart, StartReconciled, history, locals
    <3>2. Unacknowledged' = Unacknowledged
      BY <3>1 DEF Unacknowledged
    <3> QED BY <3>1, <3>2 DEF OwedInv, UnackedIsPending
  <2>7. CASE UNCHANGED vars
    BY <2>2, <2>7 DEF vars, history, locals
  <2> QED BY <2>3, <2>4, <2>5, <2>6, <2>7 DEF Next
<1>3. OwedInv => UnackedIsPending
  BY DEF OwedInv
<1> QED BY <1>1, <1>2, <1>3, Invariance, PTL DEF Spec

-----------------------------------------------------------------------------
(* Deltas and cursors.                                                      *)
UnderWay == {"put", "export", "reconcile", "advance"}
OnceInv == NoDuplicateDelta /\ DeltasInv

(* What goroutine t does leaves every delta below the cursor, or with who   *)
(* takes the cursor there.                                                  *)
LEMMA DeltasStay ==
    ASSUME IInv, OnceInv, NEW t \in Thread, hist' = hist, op'[t] = op[t] \/ pc[t] \notin UnderWay,
           \A s \in Stream : cursors'[s] \in Nat /\ cursors[s] <= cursors'[s],
           \A u \in Thread \ {t} :
               pc'[u] = pc[u] /\ op'[u] = op[u] /\ at'[u] = at[u] /\ item'[u] = item[u],
           pc[t] \in UnderWay /\ op[t].kind = "flush" =>
               pc'[t] \in UnderWay /\ at'[t] = at[t] /\ item'[t] = item[t]
    PROVE  OnceInv'
<1>1. NoDuplicateDelta'
  BY DEF OnceInv, NoDuplicateDelta
<1>2. DeltasInv'
  <2> SUFFICES ASSUME NEW s \in Stream, NEW i \in 1..Len(hist[s]), ~hist[s][i].full
               PROVE  \/ hist[s][i].src <= cursors'[s]
                      \/ \E u \in Thread : /\ pc'[u] \in UnderWay /\ op'[u].kind = "flush"
                                           /\ StreamOf(u)' = s /\ item'[u].seq = i
    BY DEF DeltasInv, UnderWay
  <2>1. cursors[s] \in Nat /\ cursors'[s] \in Nat /\ cursors[s] <= cursors'[s] /\ hist[s][i].src \in Nat
    <3>1. hist[s] \in Seq(Record) /\ cursors[s] \in 0..MaxSource
      BY DEF IInv, DataTypes
    <3>2. hist[s][i] \in Record
      BY <3>1
    <3> QED BY <3>1, <3>2, NumberAssumption DEF Record
  <2>2. CASE hist[s][i].src <= cursors[s]
    BY ONLY <2>1, <2>2
  <2>3. ASSUME NEW u \in Thread, pc[u] \in UnderWay, op[u].kind = "flush", StreamOf(u) = s,
               item[u].seq = i
        PROVE  /\ pc'[u] \in UnderWay /\ op'[u].kind = "flush"
               /\ StreamOf(u)' = s /\ item'[u].seq = i
    <3>1. pc'[u] \in UnderWay /\ op'[u] = op[u] /\ at'[u] = at[u] /\ item'[u] = item[u]
      BY <2>3
    <3> QED BY <2>3, <3>1 DEF StreamOf, ViewOf
  <2> QED BY <2>2, <2>3 DEF OnceInv, DeltasInv, UnderWay
<1> QED BY <1>1, <1>2 DEF OnceInv

(* Steps that append, advance and delete nothing. *)
LEMMA CursorKeepers ==
    ASSUME IInv, OnceInv, NEW t \in Thread, Faults \cap {"crash", "reconcile"} = {},
           \/ Begin(t) \/ Lock(t) \/ Unlock(t) \/ Unref(t) \/ Fail(t) \/ Poll(t) \/ Snapshot(t)
           \/ ScanEnds(t) \/ ScanFilters(t) \/ ScanProjects(t) \/ Validate(t) \/ Recover(t)
           \/ Resend(t) \/ RecoverPut(t) \/ Put(t) \/ PutFails(t) \/ Export(t) \/ Reconcile(t)
           \/ DropPending(t) \/ AcknowledgeHistory(t) \/ Discard(t)
    PROVE  OnceInv'
<1>1. /\ pc \in [Thread -> Steps] /\ op \in [Thread -> OpType] /\ at \in [Thread -> 1..Len(Topics)]
      /\ item \in [Thread -> ItemType] /\ cursors \in [Stream -> 0..MaxSource] /\ OpOK(t)
  BY DEF IInv, LockInv, LockTypes, DataTypes, OpInv
<1>2. \A s \in Stream : cursors[s] \in Nat /\ cursors[s] <= cursors[s]
  BY <1>1, NumberAssumption
<1>3. CASE Begin(t)
  <2>1. CASE \E kind, v, i, n : Acquire(t, kind, v, i, n)
    <3>1. /\ UNCHANGED <<hist, cursors, item>> /\ pc[t] = "idle"
          /\ \A u \in Thread \ {t} : pc'[u] = pc[u] /\ op'[u] = op[u] /\ at'[u] = at[u]
      BY <1>1, <2>1 DEF Acquire, Goto, history
    <3> QED BY <1>2, <3>1, DeltasStay DEF UnderWay
  <2>2. CASE (\E o \in Observer : Close(t, o) \/ Open(t, o)) \/ ReconcilePending(t)
    <3>1. /\ UNCHANGED <<hist, cursors, at, item>> /\ pc[t] = "idle"
          /\ \A u \in Thread \ {t} : pc'[u] = pc[u] /\ op'[u] = op[u]
      BY <1>1, <2>2 DEF Close, Open, ReconcilePending, Goto, history, locals
    <3> QED BY <1>2, <3>1, DeltasStay DEF UnderWay
  <2> QED BY <1>3, <2>1, <2>2 DEF Begin
<1>4. CASE Unref(t)
  <2>1. /\ UNCHANGED <<hist, cursors>> /\ pc[t] = "unref"
        /\ \A u \in Thread \ {t} : /\ pc'[u] = pc[u] /\ op'[u] = op[u] /\ at'[u] = at[u]
                                   /\ item'[u] = item[u]
    BY <1>1, <1>4 DEF Unref, Forget, Goto, history
  <2> QED BY <1>2, <2>1, DeltasStay DEF UnderWay
<1>5. CASE \/ Lock(t) \/ Unlock(t) \/ Fail(t) \/ Poll(t) \/ Validate(t) \/ Recover(t) \/ Resend(t)
           \/ DropPending(t) \/ AcknowledgeHistory(t) \/ Discard(t)
  <2>1. /\ UNCHANGED <<hist, cursors, op, at, item>> /\ pc[t] \notin UnderWay
        /\ \A u \in Thread \ {t} : pc'[u] = pc[u]
    BY <1>1, <1>5 DEF Lock, Unlock, Fail, Poll, Validate, Recover, Resend, DropPending,
       AcknowledgeHistory, Discard, Repair, Goto, history, locals, UnderWay
  <2> QED BY <1>2, <2>1, DeltasStay
<1>6. CASE Snapshot(t) \/ ScanEnds(t) \/ ScanProjects(t)
  <2>1. /\ UNCHANGED <<hist, cursors, op>> /\ pc[t] \notin UnderWay
        /\ \A u \in Thread \ {t} : pc'[u] = pc[u] /\ at'[u] = at[u] /\ item'[u] = item[u]
    BY <1>1, <1>6 DEF Snapshot, ScanEnds, ScanProjects, NextTopic, Goto, history, locals, UnderWay
  <2> QED BY <1>2, <2>1, DeltasStay
<1>7. CASE ScanFilters(t)
  <2>1. /\ UNCHANGED <<hist, pc, op, at, item>> /\ pc[t] = "scan"
        /\ cursors' = [cursors EXCEPT ![StreamOf(t)] = @ + 1]
    BY <1>7 DEF ScanFilters, history, locals
  <2>2. \A s \in Stream : cursors'[s] \in Nat /\ cursors[s] <= cursors'[s]
    BY ONLY <1>1, <2>1, NumberAssumption
  <2> QED BY <2>1, <2>2, DeltasStay DEF UnderWay
<1>8. CASE RecoverPut(t) \/ Put(t) \/ PutFails(t) \/ Export(t) \/ Reconcile(t)
  <2>1. /\ UNCHANGED <<hist, cursors, op, at, item>>
        /\ \A u \in Thread \ {t} : pc'[u] = pc[u]
    BY <1>1, <1>8 DEF RecoverPut, Put, PutFails, Export, Reconcile, Repair, Goto, history, locals
  <2>2. ~MayFail("reconcile")
    BY DEF MayFail
  <2>3. op[t].kind = "flush" => pc'[t] \in UnderWay
    BY <1>1, <1>8, <2>2 DEF RecoverPut, Put, PutFails, Export, Reconcile, Repair, Goto, UnderWay
  <2> QED BY <1>2, <2>1, <2>3, DeltasStay
<1> QED BY <1>3, <1>4, <1>5, <1>6, <1>7, <1>8

(* A flush appends the record after the cursor, and nobody else has one     *)
(* under way in the stream.                                                 *)
LEMMA AppendsOnce ==
    ASSUME IInv, OnceInv, NEW t \in Thread, AppendRecord(t)
    PROVE  OnceInv'
<1>1. /\ UNCHANGED <<cursors, op, at>> /\ pc[t] = "append" /\ pc' = [pc EXCEPT ![t] = "put"]
      /\ pc \in [Thread -> Steps] /\ item \in [Thread -> ItemType] /\ OpOK(t) /\ WorkOK(t)
      /\ hist \in [Stream -> Seq(Record)] /\ LockInv /\ at \in [Thread -> 1..Len(Topics)]
      /\ cursors \in [Stream -> 0..MaxSource]
  BY DEF IInv, LockInv, LockTypes, DataTypes, OpInv, WorkInv, AppendRecord, AppendFrom, Goto
<1>2. op[t].kind \in Preparing
  BY <1>1 DEF OpOK, Path, Preparing, Operation
<1>3. PICK s \in Stream : s = StreamOf(t) /\ s.view = ViewOf(t)
  BY <1>1, <1>2, StreamIsTyped DEF Preparing, OnView
<1>4. PICK r : r = [full |-> item[t].full, src |-> item[t].src]
  OBVIOUS
<1>5. PICK n : n = Len(hist[s])
  OBVIOUS
<1>6. PICK it : it = [item[t] EXCEPT !.seq = n + 1]
  OBVIOUS
<1>7. hist' = [hist EXCEPT ![s] = Append(hist[s], r)] /\ item' = [item EXCEPT ![t] = it]
  BY <1>3, <1>4, <1>5, <1>6 DEF AppendRecord, AppendFrom
<1>8. /\ n \in Nat /\ r \in Record /\ it.seq = n + 1 /\ cursors[s] \in Nat
      /\ \A i \in 1..n : hist[s][i] \in Record
  <2>1. hist[s] \in Seq(Record) /\ item[t] \in ItemType
    BY <1>1
  <2>2. cursors[s] \in Nat
    BY <1>1, NumberAssumption
  <2>3. n \in Nat /\ \A i \in 1..n : hist[s][i] \in Record
    BY ONLY <1>5, <2>1
  <2>4. r \in Record /\ it.seq = n + 1
    BY ONLY <1>4, <1>6, <2>1 DEF ItemType, Record
  <2> QED BY <2>2, <2>3, <2>4
<1>9. /\ Len(hist'[s]) = n + 1 /\ hist'[s][n + 1] = r /\ \A i \in 1..n : hist'[s][i] = hist[s][i]
      /\ \A q \in Stream \ {s} : hist'[q] = hist[q]
  <2>1. hist'[s] = Append(hist[s], r) /\ \A q \in Stream \ {s} : hist'[q] = hist[q]
    BY <1>1, <1>7
  <2>2. hist[s] \in Seq(Record)
    BY <1>1
  <2>3. /\ Len(Append(hist[s], r)) = n + 1 /\ Append(hist[s], r)[n + 1] = r
        /\ \A i \in 1..n : Append(hist[s], r)[i] = hist[s][i]
    BY ONLY <1>5, <1>8, <2>2
  <2> QED BY ONLY <2>1, <2>3
<1>10. /\ pc'[t] = "put" /\ item'[t] = it /\ StreamOf(t)' = s
       /\ \A u \in Thread \ {t} : pc'[u] = pc[u] /\ item'[u] = item[u] /\ StreamOf(u)' = StreamOf(u)
  BY <1>1, <1>3, <1>7 DEF StreamOf, ViewOf
<1>11. \A i \in 1..n : ~hist[s][i].full => hist[s][i].src <= cursors[s]
  <2> SUFFICES ASSUME NEW i \in 1..n, ~hist[s][i].full, ~(hist[s][i].src <= cursors[s]) PROVE FALSE
    OBVIOUS
  <2>1. PICK u \in Thread : pc[u] \in UnderWay /\ op[u].kind = "flush" /\ StreamOf(u) = s
    BY <1>5 DEF OnceInv, DeltasInv, UnderWay
  <2>2. u # t
    BY <1>1, <2>1 DEF UnderWay
  <2>3. OpOK(u)
    BY <1>1 DEF LockInv, OpInv
  <2>4. Works(u, s)
    BY <1>1, <2>1, <2>3, StreamIsTyped DEF Works, OnView, UnderWay, Middle, Steps
  <2>5. Works(t, s)
    BY <1>1, <1>2, <1>3 DEF Works, Preparing, OnView, Middle, Steps
  <2> QED BY <1>1, <2>2, <2>4, <2>5, Alone
<1>12. ~r.full => op[t].kind = "flush" /\ r.src = cursors[s] + 1
  BY <1>1, <1>2, <1>3, <1>4 DEF WorkOK, ItemOK
<1>13. NoDuplicateDelta'
  <2> SUFFICES ASSUME NEW q \in Stream, NEW i \in 1..Len(hist'[q]), NEW j \in 1..Len(hist'[q]),
                      i < j, ~hist'[q][i].full, ~hist'[q][j].full
               PROVE  hist'[q][i].src < hist'[q][j].src
    BY DEF NoDuplicateDelta
  <2>1. CASE q # s
    BY <1>9, <2>1 DEF OnceInv, NoDuplicateDelta
  <2>2. CASE q = s /\ j \in 1..n
    <3>1. i \in 1..n
      BY ONLY <1>8, <2>2, i < j, i \in 1..Len(hist'[q])
    <3> QED BY <1>5, <1>9, <2>2, <3>1 DEF OnceInv, NoDuplicateDelta
  <2>3. CASE q = s /\ j = n + 1
    <3>1. i \in 1..n
      BY ONLY <1>8, <1>9, <2>3, i < j, i \in 1..Len(hist'[q])
    <3>2. hist[s][i].src <= cursors[s] /\ hist[s][i].src \in Nat /\ hist'[s][i] = hist[s][i]
      <4>1. hist[s][i] \in Record /\ hist'[s][i] = hist[s][i]
        BY <1>8, <1>9, <3>1
      <4> QED BY <1>11, <2>3, <3>1, <4>1, NumberAssumption DEF Record
    <3>3. hist'[s][n + 1].src = cursors[s] + 1
      BY <1>9, <1>12, <2>3
    <3> QED BY ONLY <1>8, <2>3, <3>2, <3>3
  <2> QED BY <1>8, <1>9, <2>1, <2>2, <2>3
<1>14. DeltasInv'
  <2> SUFFICES ASSUME NEW q \in Stream, NEW i \in 1..Len(hist'[q]), ~hist'[q][i].full
               PROVE  \/ hist'[q][i].src <= cursors[q]
                      \/ \E u \in Thread : /\ pc'[u] \in UnderWay /\ op[u].kind = "flush"
                                           /\ StreamOf(u)' = q /\ item'[u].seq = i
    BY <1>1 DEF DeltasInv, UnderWay
  <2>1. CASE q # s
    <3>1. hist'[q] = hist[q]
      BY <1>9, <2>1
    <3>2. CASE hist[q][i].src <= cursors[q]
      BY <3>1, <3>2
    <3>3. ASSUME NEW u \in Thread, pc[u] \in UnderWay, op[u].kind = "flush", StreamOf(u) = q,
                 item[u].seq = i
          PROVE  pc'[u] \in UnderWay /\ StreamOf(u)' = q /\ item'[u].seq = i
      BY <1>3, <1>10, <2>1, <3>3
    <3> QED BY <3>1, <3>2, <3>3 DEF OnceInv, DeltasInv, UnderWay
  <2>2. CASE q = s /\ i \in 1..n
    BY <1>9, <1>11, <2>2
  <2>3. CASE q = s /\ i = n + 1
    BY <1>8, <1>9, <1>10, <1>12, <2>3 DEF UnderWay
  <2> QED BY <1>8, <1>9, <2>1, <2>2, <2>3
<1> QED BY <1>13, <1>14 DEF OnceInv

(* The cursor goes where the packet is. *)
LEMMA AdvancesOnce ==
    ASSUME IInv, OnceInv, NEW t \in Thread, Advance(t)
    PROVE  OnceInv'
<1>1. /\ UNCHANGED <<hist, op>> /\ pc[t] = "advance" /\ op[t].kind \in Preparing
      /\ pc \in [Thread -> Steps] /\ item \in [Thread -> ItemType] /\ OpOK(t) /\ WorkOK(t)
      /\ LockInv /\ at \in [Thread -> 1..Len(Topics)] /\ cursors \in [Stream -> 0..MaxSource]
      /\ left \in [Thread -> 0..MaxPackets]
  BY DEF IInv, LockInv, LockTypes, DataTypes, OpInv, WorkInv, Advance, history, Preparing
<1>2. PICK s \in Stream : s = StreamOf(t) /\ s.view = ViewOf(t)
  BY <1>1, StreamIsTyped DEF Preparing, OnView
<1>3. cursors' = [cursors EXCEPT ![s] = item[t].src] /\ cursors[s] <= item[t].src
      /\ item[t].seq = Len(hist[s])
      /\ hist[s][Len(hist[s])] = [full |-> item[t].full, src |-> item[t].src]
  BY <1>1, <1>2 DEF Advance, NewCursor, WorkOK, ItemOK
<1>4. \A u \in Thread \ {t} : pc'[u] = pc[u] /\ at'[u] = at[u] /\ item'[u] = item[u]
  BY <1>1 DEF Advance, NextTopic, Goto
<1>5. NoDuplicateDelta'
  BY <1>1 DEF OnceInv, NoDuplicateDelta
<1>6. DeltasInv'
  <2> SUFFICES ASSUME NEW q \in Stream, NEW i \in 1..Len(hist'[q]), ~hist'[q][i].full
               PROVE  \/ hist'[q][i].src <= cursors'[q]
                      \/ \E u \in Thread : /\ pc'[u] \in UnderWay /\ op'[u].kind = "flush"
                                           /\ StreamOf(u)' = q /\ item'[u].seq = i
    BY DEF DeltasInv, UnderWay
  <2>0. hist' = hist /\ i \in 1..Len(hist[q]) /\ ~hist[q][i].full
    BY <1>1
  <2>1. /\ cursors[q] \in Nat /\ cursors'[q] \in Nat /\ cursors[q] <= cursors'[q]
        /\ hist[q][i].src \in Nat
    <3>1. hist[q] \in Seq(Record) /\ cursors[q] \in 0..MaxSource
      BY DEF IInv, DataTypes
    <3>2. hist[q][i] \in Record
      BY <2>0, <3>1
    <3>3. item[t].src \in Nat
      BY <1>1, NumberAssumption DEF ItemType
    <3>4. cursors'[q] = IF q = s THEN item[t].src ELSE cursors[q]
      BY <1>1, <1>3
    <3>5. hist[q][i].src \in Nat /\ cursors[q] \in Nat
      BY <3>1, <3>2, NumberAssumption DEF Record
    <3> QED BY ONLY <1>3, <3>3, <3>4, <3>5
  <2>2. CASE hist[q][i].src <= cursors[q]
    BY <2>0, <2>1, <2>2
  <2>3. ASSUME NEW u \in Thread, pc[u] \in UnderWay, op[u].kind = "flush", StreamOf(u) = q,
               item[u].seq = i
        PROVE  \/ hist[q][i].src <= cursors'[q]
               \/ pc'[u] \in UnderWay /\ StreamOf(u)' = q /\ item'[u].seq = i
    <3>1. CASE u = t
      <4>1. q = s /\ i = Len(hist[s])
        BY <1>2, <1>3, <2>3, <3>1
      <4>2. hist[q][i].src = cursors'[q]
        BY <1>1, <1>3, <4>1
      <4> QED BY <2>1, <4>2
    <3>2. CASE u # t
      <4>1. pc'[u] = pc[u] /\ at'[u] = at[u] /\ item'[u] = item[u]
        BY <1>4, <3>2
      <4> QED BY <1>1, <2>3, <4>1 DEF StreamOf, ViewOf
    <3> QED BY <3>1, <3>2
  <2>4. CASE \E u \in Thread : /\ pc[u] \in UnderWay /\ op[u].kind = "flush" /\ StreamOf(u) = q
                               /\ item[u].seq = i
    BY <1>1, <2>0, <2>3, <2>4
  <2> QED BY <2>0, <2>2, <2>4 DEF OnceInv, DeltasInv, UnderWay
<1> QED BY <1>5, <1>6 DEF OnceInv

(* A stream is gone before its cursor is. *)
LEMMA DeletesOnce ==
    ASSUME IInv, OnceInv, NEW t \in Thread, DeleteHistory(t) \/ DeleteCursors(t)
    PROVE  OnceInv'
<1>1. /\ UNCHANGED <<op, at, item>> /\ pc[t] \notin UnderWay /\ pc \in [Thread -> Steps] /\ WorkOK(t)
      /\ pc[t] \in {"deleteHistory", "deleteCursors"}
      /\ \A s \in Stream : cursors[s] \in Nat
  BY NumberAssumption DEF IInv, LockInv, LockTypes, DataTypes, WorkInv, DeleteHistory, DeleteCursors,
     UnderWay, locals
<1>2. \A u \in Thread \ {t} : pc'[u] = pc[u]
  BY <1>1 DEF DeleteHistory, DeleteCursors, Goto
<1>3. \A s \in Stream : hist'[s] = <<>> \/ (hist'[s] = hist[s] /\ cursors'[s] = cursors[s])
  <2>1. CASE DeleteHistory(t)
    BY <2>1 DEF DeleteHistory, history
  <2>2. CASE DeleteCursors(t)
    <3>1. \A s \in Stream : s.view[1] = op[t].obs => hist[s] = <<>>
      BY <1>1, <2>2 DEF DeleteCursors, WorkOK, CloseOK
    <3>2. hist' = hist
      BY <2>2 DEF DeleteCursors, history
    <3> QED BY <2>2, <3>1, <3>2 DEF DeleteCursors
  <2> QED BY <2>1, <2>2
<1>4. NoDuplicateDelta'
  <2> SUFFICES ASSUME NEW s \in Stream, NEW i \in 1..Len(hist'[s]), NEW j \in 1..Len(hist'[s]),
                      i < j, ~hist'[s][i].full, ~hist'[s][j].full
               PROVE  hist'[s][i].src < hist'[s][j].src
    BY DEF NoDuplicateDelta
  <2>1. hist'[s] # <<>>
    OBVIOUS
  <2> QED BY <1>3, <2>1 DEF OnceInv, NoDuplicateDelta
<1>5. DeltasInv'
  <2> SUFFICES ASSUME NEW s \in Stream, NEW i \in 1..Len(hist'[s]), ~hist'[s][i].full
               PROVE  \/ hist'[s][i].src <= cursors'[s]
                      \/ \E u \in Thread : /\ pc'[u] \in UnderWay /\ op[u].kind = "flush"
                                           /\ StreamOf(u)' = s /\ item'[u].seq = i
    BY <1>1 DEF DeltasInv, UnderWay
  <2>1. hist'[s] # <<>>
    OBVIOUS
  <2>2. hist'[s] = hist[s] /\ cursors'[s] = cursors[s]
    BY <1>3, <2>1
  <2>3. \A u \in Thread : pc[u] \in UnderWay => pc'[u] = pc[u]
    BY <1>1, <1>2
  <2>4. \A u \in Thread : StreamOf(u)' = StreamOf(u)
    BY <1>1 DEF StreamOf, ViewOf
  <2> QED BY <1>1, <2>2, <2>3, <2>4 DEF OnceInv, DeltasInv, UnderWay
<1> QED BY <1>4, <1>5 DEF OnceInv

(* "Without generating a duplicate source mutation on the next flush"       *)
(* (coordinator.go:366-368): the deltas of a stream carry each source       *)
(* record once, as long as the repair of the Outbox does not fail itself    *)
(* and the process lives.                                                   *)
THEOREM DeltasOnce ==
    ASSUME Faults \cap {"crash", "reconcile"} = {}
    PROVE  Spec => []NoDuplicateDelta
<1>1. Init => OnceInv
  <2> SUFFICES ASSUME Init PROVE OnceInv
    OBVIOUS
  <2>1. \A s \in Stream : Len(hist[s]) = 0
    BY DEF Init
  <2> QED BY <2>1 DEF OnceInv, NoDuplicateDelta, DeltasInv
<1>2. IInv /\ OnceInv /\ [Next]_vars => OnceInv'
  <2> SUFFICES ASSUME IInv, OnceInv, [Next]_vars PROVE OnceInv'
    OBVIOUS
  <2>1. ASSUME UNCHANGED <<hist, cursors, pc, op, at, item>> PROVE OnceInv'
    <3>1. \A t \in Thread : StreamOf(t)' = StreamOf(t)
      BY <2>1 DEF StreamOf, ViewOf
    <3> QED BY ONLY OnceInv, <2>1, <3>1 DEF OnceInv, NoDuplicateDelta, DeltasInv
  <2>2. ASSUME NEW tp \in Topic, Mutate(tp) \/ Trim(tp) PROVE OnceInv'
    BY <2>1, <2>2 DEF Mutate, Trim, history, locals
  <2>3. ASSUME NEW t \in Thread, Begin(t) \/ Lock(t) \/ Work(t) PROVE OnceInv'
    BY <2>3, CursorKeepers, AppendsOnce, AdvancesOnce, DeletesOnce DEF Work
  <2>4. CASE Crash
    BY <2>4 DEF Crash, MayFail
  <2>5. CASE Restart
    BY <2>1, <2>5 DEF Restart, history, locals
  <2>6. CASE UNCHANGED vars
    BY <2>1, <2>6 DEF vars, history, locals
  <2> QED BY <2>2, <2>3, <2>4, <2>5, <2>6 DEF Next
<1>3. OnceInv => NoDuplicateDelta
  BY DEF OnceInv
<1> QED BY <1>1, <1>2, <1>3, Invariance, PTL DEF Spec
=============================================================================
