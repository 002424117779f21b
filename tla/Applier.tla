------------------------------- MODULE Applier -------------------------------
(***************************************************************************)
(* The client side of skillsync (skillsync/applier.go): concurrent calls   *)
(* of Applier.Apply on one Applier.                                        *)
(*                                                                         *)
(* Apply takes the mutex twice, in admit and when it records the result,   *)
(* and runs the consumer's Prepare and Commit callbacks between the two    *)
(* without it.  The actions below are those critical sections and those    *)
(* callbacks.  The transport may deliver any packet of Packet to any       *)
(* thread, again and again and in any order.                               *)
(***************************************************************************)
EXTENDS Naturals

CONSTANTS
    Thread,         \* goroutines that call Apply
    Key,            \* stream keys
    Digest,         \* presentation digests a manifest can carry
    NoDigest,       \* the empty digest
    Packet,         \* the packets the transport may deliver
    NoPacket,       \* held by a thread that is not applying
    Transactional   \* topics whose consumer implements the Transactional interface

Topic == {"manifest", "state", "presentation"}
Stream == [topic : Topic, key : Key]

(* "valid" abstracts the checks of admit that read no applier state         *)
(* (observer, schema, migration, blank topic), "fits" those of applyRecord  *)
(* (header, record kind against Full, digest of the plan).                  *)
PacketShape ==
    [stream : Stream, epoch : Nat \ {0}, seq : Nat \ {0}, base : Nat, full : BOOLEAN,
     src : Nat, digest : Digest \cup {NoDigest}, valid : BOOLEAN, fits : BOOLEAN]

ASSUME PacketAssumption == Packet \subseteq PacketShape
ASSUME FitAssumption ==
    \A p \in Packet : p.fits =>
        /\ p.stream.topic = "manifest" => p.full /\ p.digest # NoDigest
        /\ ~p.full => p.src > 0
ASSUME SentinelAssumption == NoPacket \notin Packet /\ NoDigest \notin Digest
ASSUME TransactionalAssumption == Transactional \subseteq Topic

VARIABLES
    epoch,          \* Applier.epoch, 0 before the first packet
    pendingEpoch,   \* Applier.pendingEpoch, 0 when no switch is under way
    sequences,      \* Applier.sequences; a missing entry reads as NoCursor
    inflight,       \* Applier.inflight
    source,         \* Applier.stateMutations and presentationEvents, by stream
    manifests,      \* the digests of Applier.manifests
    pc, held,       \* per thread: where Apply stands, and its packet
    consumer        \* what the consumer of each stream was last given

applierVars == <<epoch, pendingEpoch, sequences, inflight, source, manifests>>
vars == <<applierVars, pc, held, consumer>>

NoCursor == [epoch |-> 0, seq |-> 0]
NothingShown == [epoch |-> 0, src |-> 0]
Cursor == [epoch : Nat, seq : Nat]

Active(t) == pc[t] # "idle"

TypeOK ==
    /\ epoch \in Nat /\ pendingEpoch \in Nat
    /\ sequences \in [Stream -> Cursor]
    /\ inflight \subseteq Stream
    /\ source \in [Stream -> Nat]
    /\ manifests \subseteq Digest
    /\ pc \in [Thread -> {"idle", "admitted", "prepared", "applied", "skipped", "failed"}]
    /\ held \in [Thread -> Packet \cup {NoPacket}]
    /\ \A t \in Thread : Active(t) <=> held[t] \in Packet
    /\ consumer \in [Stream -> [epoch : Nat, src : Nat]]

Init ==
    /\ epoch = 0 /\ pendingEpoch = 0
    /\ sequences = [s \in Stream |-> NoCursor]
    /\ inflight = {}
    /\ source = [s \in Stream |-> 0]
    /\ manifests = {}
    /\ pc = [t \in Thread |-> "idle"]
    /\ held = [t \in Thread |-> NoPacket]
    /\ consumer = [s \in Stream |-> NothingShown]

-----------------------------------------------------------------------------
(* admit, under the mutex. *)

OpensEpoch(p) == epoch # p.epoch

(* Seeded bug of Refusable: a switch beside other streams. *)
SwitchBesideOthers(p) ==
    \/ pendingEpoch # 0
    \/ p.stream \in inflight
    \/ OpensEpoch(p) /\ ~p.full

Refusable(p) ==                        \* refused before anything is written
    \/ pendingEpoch # 0
    \/ p.stream \in inflight
    \/ OpensEpoch(p) /\ (~p.full \/ inflight # {})

CurrentOf(p) == IF OpensEpoch(p) THEN NoCursor ELSE sequences[p.stream]

IsDuplicate(p) ==
    CurrentOf(p).epoch = p.epoch /\ p.seq <= CurrentOf(p).seq

(* Seeded bug of WellChained: a delta may jump forward. *)
ForwardChained(p) ==
    IF p.full THEN p.base = 0 ELSE p.seq > CurrentOf(p).seq

WellChained(p) ==
    IF p.full THEN p.base = 0
    ELSE /\ p.base = CurrentOf(p).seq
         /\ p.seq = CurrentOf(p).seq + 1

Admit(t, p) ==
    /\ pc[t] = "idle" /\ p.valid
    /\ ~Refusable(p) /\ ~IsDuplicate(p) /\ WellChained(p)
    /\ pendingEpoch' = IF OpensEpoch(p) THEN p.epoch ELSE pendingEpoch
    /\ inflight' = inflight \cup {p.stream}
    /\ pc' = [pc EXCEPT ![t] = "admitted"]
    /\ held' = [held EXCEPT ![t] = p]
    /\ UNCHANGED <<epoch, sequences, source, manifests, consumer>>

(* The shape check comes after pendingEpoch was set, and its early return   *)
(* leaves pendingEpoch as it is.                                            *)
AdmitRefused(t, p) ==
    /\ pc[t] = "idle" /\ p.valid
    /\ ~Refusable(p) /\ ~IsDuplicate(p) /\ ~WellChained(p)
    /\ pendingEpoch' = IF OpensEpoch(p) THEN p.epoch ELSE pendingEpoch
    /\ UNCHANGED <<epoch, sequences, inflight, source, manifests, pc, held, consumer>>

-----------------------------------------------------------------------------
(* applyRecord and the consumer's callbacks, without the mutex. *)

IsEvent(p) == p.stream.topic = "presentation" /\ ~p.full
IsStale(p) == ~p.full /\ p.src <= source[p.stream]

(* A presentation event needs its manifest, unless it names no digest. *)
ManifestReady(p) == IsEvent(p) => p.digest \in manifests \cup {NoDigest}

Show(p) == consumer' = [consumer EXCEPT ![p.stream] = [epoch |-> p.epoch, src |-> p.src]]
MoveTo(t, where) == pc' = [pc EXCEPT ![t] = where]

PrepareFails(t) ==                     \* a check or the callback returns an error
    /\ pc[t] = "admitted"
    /\ ~(held[t].fits /\ ManifestReady(held[t]) /\ IsStale(held[t]))
    /\ MoveTo(t, "failed")
    /\ UNCHANGED <<applierVars, held, consumer>>

PrepareSkips(t) ==                     \* the source record was already applied
    /\ pc[t] = "admitted" /\ held[t].fits
    /\ ManifestReady(held[t]) /\ IsStale(held[t])
    /\ MoveTo(t, "skipped")
    /\ UNCHANGED <<applierVars, held, consumer>>

PrepareSucceeds(t) ==
    /\ pc[t] = "admitted" /\ held[t].fits
    /\ ManifestReady(held[t]) /\ ~IsStale(held[t])
    /\ IF held[t].stream.topic \in Transactional
       THEN MoveTo(t, "prepared") /\ UNCHANGED consumer
       ELSE MoveTo(t, "applied") /\ Show(held[t])
    /\ UNCHANGED <<applierVars, held>>

CommitSucceeds(t) ==
    /\ pc[t] = "prepared"
    /\ MoveTo(t, "applied") /\ Show(held[t])
    /\ UNCHANGED <<applierVars, held>>

CommitFails(t) ==                      \* Commit errs, Rollback undoes it
    /\ pc[t] = "prepared"
    /\ MoveTo(t, "failed")
    /\ UNCHANGED <<applierVars, held, consumer>>

-----------------------------------------------------------------------------
(* The second critical section of Apply. *)

KeepSwitch(p) == pendingEpoch' = pendingEpoch             \* seeded bug of EndSwitch
EndSwitch(p) == pendingEpoch' = IF pendingEpoch = p.epoch THEN 0 ELSE pendingEpoch

Release(t) ==
    /\ inflight' = inflight \ {held[t].stream}
    /\ EndSwitch(held[t])
    /\ pc' = [pc EXCEPT ![t] = "idle"]
    /\ held' = [held EXCEPT ![t] = NoPacket]
    /\ UNCHANGED consumer

FinishFailed(t) ==
    /\ pc[t] = "failed"
    /\ Release(t)
    /\ UNCHANGED <<epoch, sequences, source, manifests>>

(* Switching epoch forgets every stream, source cursor and manifest. *)
Forgets(p) == pendingEpoch = p.epoch /\ epoch # p.epoch

SourceKept(p, applied) ==       \* seeded bug of SourceAfter: the switch keeps it
    IF p.stream.topic # "manifest" /\ applied
    THEN [source EXCEPT ![p.stream] = p.src] ELSE source

SourceAfter(p, applied) ==
    [s \in Stream |->
        IF s = p.stream /\ s.topic # "manifest" /\ applied THEN p.src
        ELSE IF Forgets(p) THEN 0 ELSE source[s]]

RecordDigest(p) == {p.digest}          \* seeded bug of NewManifest: any topic
NewManifest(p) == IF p.stream.topic = "manifest" THEN {p.digest} ELSE {}

FinishApplied(t) ==
    /\ pc[t] \in {"applied", "skipped"}
    /\ Release(t)
    /\ LET p == held[t] IN
       /\ epoch' = IF pendingEpoch = p.epoch THEN p.epoch ELSE epoch
       /\ sequences' = [s \in Stream |->
              IF s = p.stream THEN [epoch |-> p.epoch, seq |-> p.seq]
              ELSE IF Forgets(p) THEN NoCursor ELSE sequences[s]]
       /\ source' = SourceAfter(p, pc[t] = "applied")
       /\ manifests' = (IF Forgets(p) THEN {} ELSE manifests) \cup NewManifest(p)

Prepare(t) == PrepareFails(t) \/ PrepareSkips(t) \/ PrepareSucceeds(t)
Commit(t) == CommitSucceeds(t) \/ CommitFails(t)
Finish(t) == FinishApplied(t) \/ FinishFailed(t)
Proceed(t) == Prepare(t) \/ Commit(t) \/ Finish(t)

Next ==
    \E t \in Thread :
        \/ \E p \in Packet : Admit(t, p) \/ AdmitRefused(t, p)
        \/ Proceed(t)

Spec == Init /\ [][Next]_vars

(* The callbacks return: a call that was admitted comes to its end.  No     *)
(* fairness is asked of the transport.                                      *)
FairSpec == Spec /\ \A t \in Thread : WF_vars(Proceed(t))

-----------------------------------------------------------------------------
(* A pending switch belongs to the only Apply in flight, whose packet opens *)
(* the epoch: no other stream is cut off half way by the reset of the maps, *)
(* and the switch always has somebody to end it.                            *)
SwitchIsExclusive ==
    pendingEpoch # 0 =>
        \E t \in Thread :
            /\ Active(t) /\ held[t].full /\ held[t].epoch = pendingEpoch
            /\ \A u \in Thread : Active(u) => u = t

(* Two goroutines are never inside the consumer for one stream. *)
OneApplyPerStream ==
    \A t, u \in Thread :
        Active(t) /\ Active(u) /\ held[t].stream = held[u].stream => t = u

(* A stream nobody is applying shows the consumer exactly the source record *)
(* the applier believes it shows: a failed Prepare or Commit moves neither, *)
(* and a switch of epoch forgets what belongs to the old one.               *)
CursorMatchesConsumer ==
    \A s \in Stream :
        s \notin inflight /\ s.topic # "manifest" /\ sequences[s] # NoCursor
            => consumer[s] = [epoch |-> epoch, src |-> source[s]]

(* The consumer never renders an event whose manifest the applier does not  *)
(* hold: the manifests cannot be dropped between the check and the Commit.  *)
ManifestHeldWhileRendering ==
    \A t \in Thread :
        pc[t] \in {"prepared", "applied"} /\ IsEvent(held[t])
            => held[t].digest \in manifests \cup {NoDigest}

(* What the consumer shows is what the applier has on its books, and what   *)
(* it renders is backed by them: two goroutines and two epochs included.    *)
ConsumerIsRight == CursorMatchesConsumer /\ ManifestHeldWhileRendering

(* While the applier stays in an epoch the records of a stream reach the    *)
(* consumer in order of their source, each once: a delta or an event moves  *)
(* it strictly forward, whatever is delivered again or late.                *)
ShownForward ==
    [][\A t \in Thread :
         pc[t] # "applied" /\ pc'[t] = "applied" /\ ~held[t].full =>
            LET s == held[t].stream IN
            sequences[s] # NoCursor =>
                consumer'[s].src > consumer[s].src]_vars

(* Within an epoch the packet sequence of a stream never goes back, and     *)
(* only a full packet may jump: every delta is applied or none after it.    *)
SequenceGapFree ==
    [][\A s \in Stream :
         sequences'[s] # sequences[s] /\ sequences[s] # NoCursor /\ epoch' = epoch =>
            \E t \in Thread :
                /\ held[t] \in Packet /\ held[t].stream = s
                /\ sequences'[s] = [epoch |-> epoch, seq |-> held[t].seq]
                /\ IF held[t].full THEN held[t].seq > sequences[s].seq
                                   ELSE held[t].seq = sequences[s].seq + 1]_vars

(* A stream is shown in order and whole. *)
StreamsInOrder == ShownForward /\ SequenceGapFree

(* ErrApplyInProgress "can be retried" (applier.go:79-81): the switch that  *)
(* refuses every other packet does not last for ever.                       *)
SwitchEnds == pendingEpoch # 0 ~> pendingEpoch = 0
=============================================================================
