---------------------------- MODULE ApplierProofs ----------------------------
(***************************************************************************)
(* Proofs about module Applier, for every set of goroutines, keys, digests *)
(* and packets.  All of them rest on one inductive invariant, IInv: what a *)
(* call of Apply found out in admit stays true until it takes the mutex    *)
(* again, because nobody else may change the stream or the epoch.          *)
(***************************************************************************)
EXTENDS Applier, TLAPS

(* The inflight table is the set of the streams of the calls under way. *)
InFlightInv ==
    /\ \A t \in Thread : Active(t) => held[t].stream \in inflight
    /\ \A s \in inflight : \E t \in Thread : Active(t) /\ held[t].stream = s
    /\ OneApplyPerStream

(* What a call found out about its packet before it goes on. *)
Checked(t) ==
    /\ pc[t] \in {"prepared", "applied", "skipped"} => held[t].fits
    /\ pc[t] = "skipped" => IsStale(held[t])
    /\ pc[t] = "prepared" => ~IsStale(held[t])
    /\ pc[t] = "applied" => consumer[held[t].stream] = [epoch |-> held[t].epoch, src |-> held[t].src]
CheckedInv == \A t \in Thread : Checked(t)

(* While a switch is pending there is at most one call, and it is the       *)
(* switch; otherwise all calls belong to the current epoch.                 *)
SwitchInv ==
    /\ pendingEpoch # 0 =>
          /\ pendingEpoch # epoch
          /\ \A t \in Thread : Active(t) => held[t].full /\ held[t].epoch = pendingEpoch
          /\ \A t, u \in Thread : Active(t) /\ Active(u) => t = u
    /\ pendingEpoch = 0 => \A t \in Thread : Active(t) => held[t].epoch = epoch

(* The packet of a call follows the cursor of its stream. *)
Follows(p, c) == IF p.full THEN c = NoCursor \/ p.seq > c.seq ELSE p.seq = c.seq + 1

ChainInv ==
    pendingEpoch = 0 =>
        \A t \in Thread : Active(t) => Follows(held[t], sequences[held[t].stream])

(* Cursors belong to the current epoch, and without one nothing was shown. *)
CursorInv ==
    \A s \in Stream :
        /\ sequences[s] = NoCursor => source[s] = 0
        /\ sequences[s] # NoCursor => sequences[s].epoch = epoch

(* The consumer shows what the applier believes, unless a call has just     *)
(* shown it more.                                                           *)
ShownInv ==
    \A s \in Stream :
        /\ s.topic # "manifest" /\ sequences[s] # NoCursor
        /\ \A t \in Thread : pc[t] = "applied" => held[t].stream # s
        => consumer[s] = [epoch |-> epoch, src |-> source[s]]

IInv ==
    /\ TypeOK /\ InFlightInv /\ CheckedInv /\ SwitchInv
    /\ ChainInv /\ CursorInv /\ ShownInv /\ ManifestHeldWhileRendering
-----------------------------------------------------------------------------
(* The fields of a packet, and of the packet of a call. *)
LEMMA PacketFields ==
    ASSUME NEW p \in Packet
    PROVE  /\ p.stream \in Stream /\ p.stream.topic \in Topic
           /\ p.epoch \in Nat \ {0} /\ p.seq \in Nat \ {0} /\ p.base \in Nat /\ p.src \in Nat
           /\ p.full \in BOOLEAN /\ p.digest \in Digest \cup {NoDigest}
           /\ p.fits /\ p.stream.topic = "manifest" => p.full /\ p.digest \in Digest
           /\ p.fits /\ ~p.full => p.src > 0
<1>1. p \in PacketShape
  BY PacketAssumption
<1> QED
  BY <1>1, FitAssumption DEF PacketShape, Stream

LEMMA HeldIsPacket ==
    ASSUME TypeOK, NEW t \in Thread, Active(t)
    PROVE  held[t] \in Packet
  BY DEF TypeOK

LEMMA IdleHoldsNothing ==
    ASSUME NEW t \in Thread, TypeOK, held[t] \in Packet
    PROVE  Active(t)
  BY DEF TypeOK

(* The initial state. *)
LEMMA InitIInv == Init => IInv
  BY SentinelAssumption
  DEF Init, IInv, TypeOK, InFlightInv, OneApplyPerStream, CheckedInv, Checked, SwitchInv,
      ChainInv, CursorInv, ShownInv, ManifestHeldWhileRendering, Active, NoCursor, Cursor,
      NothingShown, Stream

-----------------------------------------------------------------------------
(* One lemma per action: each preserves the invariant. *)

(* admit lets a call in: it owns its stream, and a switch has it alone. *)
LEMMA AdmitKeepsIInv ==
    ASSUME IInv, NEW t \in Thread, NEW p \in Packet, Admit(t, p)
    PROVE  IInv'
<1> USE DEF Admit, IInv
<1>1. /\ held'[t] = p /\ pc'[t] = "admitted"
      /\ \A u \in Thread : u # t => held'[u] = held[u] /\ pc'[u] = pc[u]
  BY DEF TypeOK
<1>2. \A u \in Thread : u # t /\ Active(u) => held[u].stream # p.stream
  BY DEF InFlightInv, Refusable
<1>3. TypeOK'
  BY PacketFields, SentinelAssumption DEF TypeOK, Active
<1>4. InFlightInv'
  BY <1>1, <1>2, PacketFields DEF InFlightInv, OneApplyPerStream, Active, TypeOK
<1>5. CheckedInv'
  BY <1>1 DEF CheckedInv, Checked, IsStale
<1>6. SwitchInv'
  <2>1. CASE OpensEpoch(p)
    <3>1. \A u \in Thread : ~Active(u)
      BY <2>1 DEF Refusable, InFlightInv
    <3> QED
      BY <1>1, <2>1, <3>1, PacketFields DEF SwitchInv, Active, Refusable, OpensEpoch
  <2>2. CASE ~OpensEpoch(p)
    BY <1>1, <2>2 DEF SwitchInv, Active, Refusable, OpensEpoch
  <2> QED BY <2>1, <2>2
<1>7. ChainInv'
  <2> SUFFICES ASSUME pendingEpoch' = 0, NEW u \in Thread, Active(u)'
               PROVE  Follows(held'[u], sequences[held'[u].stream])
    BY DEF ChainInv, Follows
  <2>1. ~OpensEpoch(p) /\ pendingEpoch = 0
    BY PacketFields DEF Refusable
  <2>2. CASE u = t
    <3>1. CurrentOf(p) = sequences[p.stream] /\ sequences[p.stream] \in Cursor
      BY <2>1, PacketFields DEF CurrentOf, TypeOK
    <3>2. sequences[p.stream] # NoCursor => sequences[p.stream].epoch = p.epoch
      BY <2>1, PacketFields DEF CursorInv, OpensEpoch
    <3> QED
      BY <1>1, <2>2, <3>1, <3>2, PacketFields DEF IsDuplicate, WellChained, Follows, Cursor
  <2>3. CASE u # t
    BY <1>1, <2>1, <2>3 DEF ChainInv, Active
  <2> QED BY <2>2, <2>3
<1>8. CursorInv'
  BY DEF CursorInv
<1>9. ShownInv'
  BY <1>1 DEF ShownInv
<1>10. ManifestHeldWhileRendering'
  BY <1>1 DEF ManifestHeldWhileRendering, IsEvent
<1> QED
  BY <1>3, <1>4, <1>5, <1>6, <1>7, <1>8, <1>9, <1>10

(* A packet refused for its shape may leave a switch pending, with nobody   *)
(* in flight.                                                               *)
LEMMA AdmitRefusedKeepsIInv ==
    ASSUME IInv, NEW t \in Thread, NEW p \in Packet, AdmitRefused(t, p)
    PROVE  IInv'
<1> USE DEF AdmitRefused, IInv
<1>1. TypeOK'
  BY PacketFields DEF TypeOK, Active
<1>2. InFlightInv' /\ CheckedInv' /\ CursorInv' /\ ShownInv' /\ ManifestHeldWhileRendering'
  BY DEF InFlightInv, OneApplyPerStream, CheckedInv, Checked, IsStale, CursorInv, ShownInv,
         ManifestHeldWhileRendering, Active, IsEvent
<1>3. SwitchInv'
  BY PacketFields DEF SwitchInv, InFlightInv, Refusable, OpensEpoch, Active
<1>4. ChainInv'
  BY PacketFields DEF ChainInv, Follows, Active, Refusable
<1> QED
  BY <1>1, <1>2, <1>3, <1>4

(* The steps of a call between its two critical sections. *)
LEMMA CallbackKeepsIInv ==
    ASSUME IInv, NEW t \in Thread, Prepare(t) \/ Commit(t)
    PROVE  IInv'
<1> USE DEF IInv
<1>1. /\ Active(t) /\ Active(t)' /\ UNCHANGED <<applierVars, held>>
      /\ \A u \in Thread : u # t => pc'[u] = pc[u]
      /\ pc' \in [Thread -> {"idle", "admitted", "prepared", "applied", "skipped", "failed"}]
      /\ pc[t] # "applied"
  BY DEF Prepare, Commit, PrepareFails, PrepareSkips, PrepareSucceeds, CommitSucceeds,
         CommitFails, MoveTo, Active, TypeOK
<1>2. held[t] \in Packet
  BY <1>1, HeldIsPacket
<1>3. \/ consumer' = consumer /\ pc'[t] # "applied"
      \/ Show(held[t]) /\ pc'[t] = "applied"
  BY DEF Prepare, Commit, PrepareFails, PrepareSkips, PrepareSucceeds, CommitSucceeds,
         CommitFails, MoveTo, TypeOK
<1>4. \A s \in Stream : s # held[t].stream => consumer'[s] = consumer[s]
  BY <1>3 DEF Show, TypeOK
<1>5. TypeOK'
  BY <1>1, <1>2, <1>3, PacketFields DEF TypeOK, Show, applierVars, Active
<1>6. InFlightInv'
  BY <1>1 DEF InFlightInv, OneApplyPerStream, Active, applierVars
<1>7. CheckedInv'
  <2> SUFFICES ASSUME NEW u \in Thread PROVE Checked(u)'
    BY DEF CheckedInv
  <2>1. CASE u = t
    <3>1. pc'[t] = "applied" => consumer'[held[t].stream] = [epoch |-> held[t].epoch, src |-> held[t].src]
      BY <1>2, <1>3, PacketFields DEF Show, TypeOK
    <3> QED
      BY <1>1, <2>1, <3>1 DEF Checked, CheckedInv, Prepare, Commit, PrepareFails, PrepareSkips,
         PrepareSucceeds, CommitSucceeds, CommitFails, MoveTo, TypeOK, applierVars, IsStale
  <2>2. CASE u # t
    <3>1. pc[u] = "applied" => held[u].stream # held[t].stream /\ held[u].stream \in Stream
      BY <1>1, <2>2, HeldIsPacket, PacketFields DEF InFlightInv, OneApplyPerStream, Active
    <3> QED
      BY <1>1, <1>4, <2>2, <3>1 DEF Checked, CheckedInv, applierVars, IsStale
  <2> QED BY <2>1, <2>2
<1>8. SwitchInv' /\ ChainInv' /\ CursorInv'
  BY <1>1 DEF SwitchInv, ChainInv, CursorInv, Follows, Active, applierVars
<1>9. ShownInv'
  <2> SUFFICES ASSUME NEW s \in Stream, s.topic # "manifest", sequences[s] # NoCursor,
                      \A u \in Thread : pc'[u] = "applied" => held[u].stream # s
               PROVE  consumer'[s] = [epoch |-> epoch, src |-> source[s]]
    BY <1>1 DEF ShownInv, applierVars
  <2>1. \A u \in Thread : pc[u] = "applied" => held[u].stream # s
    BY <1>1
  <2>2. consumer'[s] = consumer[s]
    BY <1>3, <1>4
  <2> QED
    BY <2>1, <2>2 DEF ShownInv
<1>10. ManifestHeldWhileRendering'
  <2> SUFFICES ASSUME NEW u \in Thread, pc'[u] \in {"prepared", "applied"}, IsEvent(held[u])
               PROVE  held[u].digest \in manifests \cup {NoDigest}
    BY <1>1 DEF ManifestHeldWhileRendering, IsEvent, applierVars
  <2>1. CASE u = t
    BY <2>1 DEF ManifestHeldWhileRendering, ManifestReady, Prepare, Commit, PrepareFails,
       PrepareSkips, PrepareSucceeds, CommitSucceeds, CommitFails, MoveTo, TypeOK
  <2>2. CASE u # t
    BY <1>1, <2>2 DEF ManifestHeldWhileRendering
  <2> QED BY <2>1, <2>2
<1> QED
  BY <1>5, <1>6, <1>7, <1>8, <1>9, <1>10

(* What both ends of Apply have in common. *)
LEMMA ReleaseFacts ==
    ASSUME IInv, NEW t \in Thread, Active(t), Release(t)
    PROVE  /\ held[t] \in Packet /\ ~Active(t)' /\ held'[t] = NoPacket
           /\ \A u \in Thread : u # t => held'[u] = held[u] /\ pc'[u] = pc[u]
           /\ \A u \in Thread : Active(u)' =>
                  Active(u) /\ u # t /\ held[u].stream # held[t].stream
           /\ pc' \in [Thread -> {"idle", "admitted", "prepared", "applied", "skipped", "failed"}]
           /\ held' \in [Thread -> Packet \cup {NoPacket}]
           /\ \A u \in Thread : Active(u)' <=> held'[u] \in Packet
           /\ pendingEpoch' = 0 \/ pendingEpoch' = pendingEpoch
           /\ pendingEpoch # 0 => pendingEpoch' = 0 /\ \A u \in Thread : ~Active(u)'
           /\ InFlightInv' /\ inflight' \subseteq Stream /\ pendingEpoch' \in Nat
<1> USE DEF IInv, Release
<1>1. held[t] \in Packet
  BY HeldIsPacket
<1>2. /\ ~Active(t)' /\ held'[t] = NoPacket
      /\ \A u \in Thread : u # t => held'[u] = held[u] /\ pc'[u] = pc[u]
      /\ pc' \in [Thread -> {"idle", "admitted", "prepared", "applied", "skipped", "failed"}]
      /\ held' \in [Thread -> Packet \cup {NoPacket}]
  BY DEF TypeOK, Active
<1>3. \A u \in Thread : Active(u)' <=> held'[u] \in Packet
  BY <1>2, SentinelAssumption DEF TypeOK, Active
<1>4. \A u \in Thread : Active(u)' => Active(u) /\ u # t /\ held[u].stream # held[t].stream
  BY <1>2 DEF Active, InFlightInv, OneApplyPerStream
<1>5. pendingEpoch # 0 => pendingEpoch' = 0 /\ \A u \in Thread : ~Active(u)'
  BY <1>4 DEF SwitchInv, EndSwitch
<1>6. InFlightInv'
  BY <1>2, <1>4 DEF InFlightInv, OneApplyPerStream, Active
<1>7. inflight' \subseteq Stream /\ pendingEpoch' \in Nat
  BY DEF TypeOK, EndSwitch
<1> QED
  BY <1>1, <1>2, <1>3, <1>4, <1>5, <1>6, <1>7 DEF EndSwitch

LEMMA FinishFailedKeepsIInv ==
    ASSUME IInv, NEW t \in Thread, FinishFailed(t)
    PROVE  IInv'
<1> USE DEF IInv
<1>1. Active(t) /\ Release(t) /\ UNCHANGED <<epoch, sequences, source, manifests, consumer>>
  BY DEF FinishFailed, Active, Release
<1>2. TypeOK'
  <2>1. consumer' = consumer /\ UNCHANGED <<epoch, sequences, source, manifests>>
    BY <1>1 DEF Release
  <2> QED
    BY <1>1, <2>1, ReleaseFacts DEF TypeOK, Active
<1>3. InFlightInv'
  BY <1>1, ReleaseFacts
<1>4. CheckedInv'
  BY <1>1, ReleaseFacts DEF CheckedInv, Checked, IsStale, Active
<1>5. SwitchInv'
  BY <1>1, ReleaseFacts DEF SwitchInv
<1>6. ChainInv'
  BY <1>1, ReleaseFacts DEF ChainInv, Follows
<1>7. CursorInv'
  BY <1>1 DEF CursorInv
<1>8. ShownInv'
  BY <1>1, ReleaseFacts DEF ShownInv, FinishFailed, Active
<1>9. ManifestHeldWhileRendering'
  BY <1>1, ReleaseFacts DEF ManifestHeldWhileRendering, IsEvent, Active
<1> QED
  BY <1>2, <1>3, <1>4, <1>5, <1>6, <1>7, <1>8, <1>9

(* The call that ends a switch is alone, and starts its epoch afresh.       *)
LEMMA FinishSwitchKeepsIInv ==
    ASSUME IInv, NEW t \in Thread, FinishApplied(t), pendingEpoch # 0
    PROVE  IInv'
<1> USE DEF IInv
<1> DEFINE p == held[t]
<1>1. Active(t) /\ Release(t) /\ consumer' = consumer
  BY DEF FinishApplied, Active, Release
<1>2. /\ p \in Packet /\ p.full /\ p.epoch = pendingEpoch /\ epoch # p.epoch
      /\ pc[t] = "applied" /\ p.fits
      /\ pendingEpoch' = 0 /\ \A u \in Thread : ~Active(u)'
  BY <1>1, ReleaseFacts DEF SwitchInv, CheckedInv, Checked, IsStale, FinishApplied
<1>3. /\ epoch' = p.epoch /\ manifests' = NewManifest(p)
      /\ sequences' = [s \in Stream |-> IF s = p.stream
             THEN [epoch |-> p.epoch, seq |-> p.seq] ELSE NoCursor]
      /\ source' = [s \in Stream |-> IF s = p.stream /\ s.topic # "manifest"
             THEN p.src ELSE 0]
  BY <1>2 DEF FinishApplied, Forgets, SourceAfter
<1>4. TypeOK'
  <2>1. p.stream \in Stream /\ p.epoch \in Nat /\ p.seq \in Nat /\ p.src \in Nat
    BY <1>2, PacketFields
  <2>2. sequences' \in [Stream -> Cursor] /\ source' \in [Stream -> Nat]
    BY <1>3, <2>1 DEF Cursor, NoCursor
  <2>3. manifests' \subseteq Digest /\ epoch' \in Nat
    BY <1>2, <1>3, <2>1, PacketFields DEF NewManifest
  <2> QED
    BY <1>1, <2>2, <2>3, ReleaseFacts DEF TypeOK, Active
<1>5. InFlightInv'
  BY <1>1, ReleaseFacts
<1>6. CheckedInv' /\ SwitchInv' /\ ChainInv' /\ ManifestHeldWhileRendering'
  BY <1>2 DEF CheckedInv, Checked, SwitchInv, ChainInv, ManifestHeldWhileRendering, Active
<1>7. CursorInv'
  BY <1>2, <1>3, PacketFields DEF CursorInv, NoCursor
<1>8. ShownInv'
  BY <1>1, <1>2, <1>3, PacketFields DEF ShownInv, CheckedInv, Checked
<1> QED
  BY <1>4, <1>5, <1>6, <1>7, <1>8

(* Within an epoch only the cursor of the call's own stream moves. *)
LEMMA FinishDeltaKeepsIInv ==
    ASSUME IInv, NEW t \in Thread, FinishApplied(t), pendingEpoch = 0
    PROVE  IInv'
<1> USE DEF IInv
<1> DEFINE p == held[t]
<1>1. Active(t) /\ Release(t) /\ consumer' = consumer
  BY DEF FinishApplied, Active, Release
<1>2. /\ p \in Packet /\ p.epoch = epoch /\ p.fits /\ p.stream \in Stream
      /\ p.epoch \in Nat \ {0} /\ p.seq \in Nat \ {0} /\ p.src \in Nat
      /\ pendingEpoch' = 0
  BY <1>1, ReleaseFacts, PacketFields DEF SwitchInv, CheckedInv, Checked, FinishApplied
<1>3. /\ epoch' = epoch /\ manifests' = manifests \cup NewManifest(p)
      /\ sequences' = [s \in Stream |-> IF s = p.stream
             THEN [epoch |-> p.epoch, seq |-> p.seq] ELSE sequences[s]]
      /\ source' = [s \in Stream |-> IF s = p.stream /\ s.topic # "manifest" /\ pc[t] = "applied"
             THEN p.src ELSE source[s]]
  BY <1>2 DEF FinishApplied, Forgets, SourceAfter
<1>4. TypeOK'
  <2>1. sequences' \in [Stream -> Cursor] /\ source' \in [Stream -> Nat]
    BY <1>2, <1>3 DEF TypeOK, Cursor
  <2>2. manifests' \subseteq Digest
    BY <1>2, <1>3, PacketFields DEF NewManifest, TypeOK
  <2> QED
    BY <1>1, <1>3, <2>1, <2>2, ReleaseFacts DEF TypeOK, Active
<1>5. InFlightInv'
  BY <1>1, ReleaseFacts
<1>6. CheckedInv'
  <2> SUFFICES ASSUME NEW u \in Thread, Active(u)' PROVE Checked(u)'
    BY DEF CheckedInv, Checked, Active
  <2>1. u # t /\ held'[u] = held[u] /\ pc'[u] = pc[u] /\ held[u].stream # p.stream
    BY <1>1, ReleaseFacts
  <2>2. held[u].stream \in Stream
    BY <1>1, <2>1, HeldIsPacket, ReleaseFacts, PacketFields
  <2> QED
    BY <1>1, <1>3, <2>1, <2>2 DEF CheckedInv, Checked, IsStale
<1>7. SwitchInv'
  BY <1>1, <1>2, <1>3, ReleaseFacts DEF SwitchInv
<1>8. ChainInv'
  <2> SUFFICES ASSUME NEW u \in Thread, Active(u)'
               PROVE  Follows(held'[u], sequences'[held'[u].stream])
    BY DEF ChainInv, Follows
  <2>1. Active(u) /\ held'[u] = held[u] /\ held[u].stream # p.stream
    BY <1>1, ReleaseFacts
  <2>2. held[u].stream \in Stream
    BY <2>1, HeldIsPacket, PacketFields
  <2> QED
    BY <1>3, <2>1, <2>2 DEF ChainInv
<1>9. CursorInv'
  BY <1>2, <1>3 DEF CursorInv, NoCursor
<1>10. ShownInv'
  <2> SUFFICES ASSUME NEW s \in Stream, s.topic # "manifest", sequences'[s] # NoCursor,
                      \A u \in Thread : pc'[u] = "applied" => held'[u].stream # s
               PROVE  consumer[s] = [epoch |-> epoch, src |-> source'[s]]
    BY <1>1, <1>3 DEF ShownInv
  <2>1. CASE s # p.stream
    <3>1. \A u \in Thread : pc[u] = "applied" => held[u].stream # s
      BY <1>1, <2>1, ReleaseFacts
    <3> QED
      BY <1>3, <2>1, <3>1 DEF ShownInv
  <2>2. CASE s = p.stream /\ pc[t] = "applied"
    BY <1>2, <1>3, <2>2 DEF CheckedInv, Checked
  <2>3. CASE s = p.stream /\ pc[t] = "skipped"
    <3>1. ~p.full /\ p.src <= source[s] /\ p.src > 0
      BY <1>2, <2>3, PacketFields DEF CheckedInv, Checked, IsStale
    <3>2. sequences[s] # NoCursor
      BY <3>1, <1>2 DEF CursorInv
    <3>3. \A u \in Thread : pc[u] = "applied" => held[u].stream # s
      BY <1>1, <2>3 DEF InFlightInv, OneApplyPerStream, Active
    <3> QED
      BY <1>3, <2>3, <3>2, <3>3 DEF ShownInv
  <2> QED
    BY <2>1, <2>2, <2>3 DEF FinishApplied
<1>11. ManifestHeldWhileRendering'
  BY <1>1, <1>3, ReleaseFacts DEF ManifestHeldWhileRendering, IsEvent, Active
<1> QED
  BY <1>4, <1>5, <1>6, <1>7, <1>8, <1>9, <1>10, <1>11

LEMMA StepKeepsIInv == IInv /\ [Next]_vars => IInv'
<1> SUFFICES ASSUME IInv, [Next]_vars PROVE IInv'
  OBVIOUS
<1>1. ASSUME NEW t \in Thread, NEW p \in Packet, Admit(t, p) PROVE IInv'
  BY <1>1, AdmitKeepsIInv
<1>2. ASSUME NEW t \in Thread, NEW p \in Packet, AdmitRefused(t, p) PROVE IInv'
  BY <1>2, AdmitRefusedKeepsIInv
<1>3. ASSUME NEW t \in Thread, Prepare(t) \/ Commit(t) PROVE IInv'
  BY <1>3, CallbackKeepsIInv
<1>4. ASSUME NEW t \in Thread, FinishFailed(t) PROVE IInv'
  BY <1>4, FinishFailedKeepsIInv
<1>5. ASSUME NEW t \in Thread, FinishApplied(t) PROVE IInv'
  BY <1>5, FinishSwitchKeepsIInv, FinishDeltaKeepsIInv
<1>6. CASE UNCHANGED vars
  BY <1>6 DEF vars, applierVars, IInv, TypeOK, InFlightInv, OneApplyPerStream, CheckedInv,
     Checked, IsStale, SwitchInv, ChainInv, Follows, CursorInv, ShownInv,
     ManifestHeldWhileRendering, IsEvent, Active
<1> QED
  BY <1>1, <1>2, <1>3, <1>4, <1>5, <1>6 DEF Next, Proceed, Finish

-----------------------------------------------------------------------------
(* The theorems. *)

(* The strengthened invariant holds in every reachable state. *)
THEOREM Invariance == Spec => []IInv
  BY InitIInv, StepKeepsIInv, PTL DEF Spec

(* Type correctness of the applier (skillsync/applier.go:64-77).            *)
THEOREM TypeCorrect == Spec => []TypeOK
<1>1. IInv => TypeOK
  BY DEF IInv
<1> QED
  BY <1>1, Invariance, PTL

(* Two goroutines are never inside the consumer of one stream: admit claims *)
(* the stream in the inflight table and only the owner gives it up.         *)
THEOREM StreamExclusion == Spec => []OneApplyPerStream
<1>1. IInv => OneApplyPerStream
  BY DEF IInv, InFlightInv
<1> QED
  BY <1>1, Invariance, PTL

(* Between calls the consumer shows exactly the source record the applier   *)
(* has on its books, whatever failed, was repeated or came late.            *)
THEOREM ConsumerAgrees == Spec => []CursorMatchesConsumer
<1>1. ASSUME IInv PROVE CursorMatchesConsumer
  <2> SUFFICES ASSUME NEW s \in Stream, s \notin inflight, s.topic # "manifest",
                      sequences[s] # NoCursor
               PROVE  consumer[s] = [epoch |-> epoch, src |-> source[s]]
    BY DEF CursorMatchesConsumer
  <2>1. \A t \in Thread : pc[t] = "applied" => held[t].stream # s
    BY <1>1 DEF IInv, InFlightInv, Active
  <2> QED
    BY <1>1, <2>1 DEF IInv, ShownInv
<1> QED
  BY <1>1, Invariance, PTL

(* A presentation event reaches the consumer only while its manifest is     *)
(* held, although the check and the callback run outside the mutex.         *)
THEOREM ManifestsHeld == Spec => []ManifestHeldWhileRendering
<1>1. IInv => ManifestHeldWhileRendering
  BY DEF IInv
<1> QED
  BY <1>1, Invariance, PTL

-----------------------------------------------------------------------------
(* Within an epoch the consumer of a stream only moves forward: the cursor  *)
(* a call compared its record with still stands when the callback returns.  *)
THEOREM ForwardOnly == Spec => ShownForward
<1>1. ASSUME IInv, [Next]_vars, NEW t \in Thread, pc[t] # "applied", pc'[t] = "applied",
             ~held[t].full, sequences[held[t].stream] # NoCursor
      PROVE  consumer'[held[t].stream].src > consumer[held[t].stream].src
  <2> USE <1>1 DEF IInv
  <2> DEFINE s == held[t].stream
  <2>1. PrepareSucceeds(t) \/ CommitSucceeds(t)
    <3>1. ASSUME NEW u \in Thread, NEW p \in Packet, Admit(u, p) \/ AdmitRefused(u, p)
          PROVE  FALSE
      BY <3>1 DEF Admit, AdmitRefused, TypeOK
    <3>2. ASSUME NEW u \in Thread, Proceed(u), u # t PROVE FALSE
      BY <3>2 DEF Proceed, Prepare, Commit, Finish, PrepareFails, PrepareSkips, PrepareSucceeds,
         CommitSucceeds, CommitFails, FinishApplied, FinishFailed, Release, MoveTo, TypeOK
    <3>3. CASE Proceed(t)
      BY <3>3 DEF Proceed, Prepare, Commit, Finish, PrepareFails, PrepareSkips, CommitFails,
         FinishApplied, FinishFailed, Release, MoveTo, TypeOK
    <3> QED
      BY <3>1, <3>2, <3>3 DEF Next, vars
  <2>2. held[t] \in Packet /\ Active(t)
    BY <2>1, HeldIsPacket DEF PrepareSucceeds, CommitSucceeds, Active
  <2>3. held[t].fits /\ ~IsStale(held[t]) /\ Show(held[t])
    BY <2>1 DEF PrepareSucceeds, CommitSucceeds, CheckedInv, Checked, MoveTo, TypeOK
  <2>4. s \in Stream /\ s.topic # "manifest"
    BY <2>2, <2>3, PacketFields
  <2>5. source[s] < held[t].src
    BY <2>2, <2>3, <2>4, PacketFields DEF IsStale, TypeOK
  <2>6. \A u \in Thread : pc[u] = "applied" => held[u].stream # s
    BY <2>2 DEF InFlightInv, OneApplyPerStream, Active
  <2>7. consumer[s] = [epoch |-> epoch, src |-> source[s]]
    BY <2>4, <2>6 DEF ShownInv
  <2>8. consumer'[s] = [epoch |-> held[t].epoch, src |-> held[t].src]
    BY <2>3, <2>4 DEF Show, TypeOK
  <2> QED
    BY <2>5, <2>7, <2>8
<1>2. IInv /\ [Next]_vars =>
        [\A t \in Thread : pc[t] # "applied" /\ pc'[t] = "applied" /\ ~held[t].full =>
            LET s == held[t].stream IN
            sequences[s] # NoCursor => consumer'[s].src > consumer[s].src]_vars
  BY <1>1
<1> QED
  BY <1>2, Invariance, PTL DEF Spec, ShownForward

(* Within an epoch the cursor of a stream moves by one for a delta and      *)
(* forward for a full packet, and only to the sequence of a packet that a   *)
(* call holds.                                                              *)
THEOREM NoGap == Spec => SequenceGapFree
<1>1. ASSUME IInv, [Next]_vars, NEW s \in Stream,
             sequences'[s] # sequences[s], sequences[s] # NoCursor, epoch' = epoch
      PROVE  \E t \in Thread :
                /\ held[t] \in Packet /\ held[t].stream = s
                /\ sequences'[s] = [epoch |-> epoch, seq |-> held[t].seq]
                /\ IF held[t].full THEN held[t].seq > sequences[s].seq
                                   ELSE held[t].seq = sequences[s].seq + 1
  <2> USE <1>1 DEF IInv
  <2>1. PICK t \in Thread : FinishApplied(t)
    BY DEF Next, Proceed, Prepare, Commit, Finish, Admit, AdmitRefused, PrepareFails,
       PrepareSkips, PrepareSucceeds, CommitSucceeds, CommitFails, FinishFailed,
       applierVars, vars
  <2>2. held[t] \in Packet /\ Active(t)
    BY <2>1, HeldIsPacket DEF FinishApplied, Active
  <2>3. held[t].epoch \in Nat \ {0} /\ held[t].stream \in Stream
    BY <2>2, PacketFields
  <2>4. pendingEpoch = 0 /\ held[t].epoch = epoch
    BY <2>1, <2>2, <2>3 DEF SwitchInv, FinishApplied
  <2>5. held[t].stream = s /\ sequences'[s] = [epoch |-> epoch, seq |-> held[t].seq]
    BY <2>1, <2>3, <2>4 DEF FinishApplied, Forgets
  <2>6. Follows(held[t], sequences[s])
    BY <2>2, <2>4, <2>5 DEF ChainInv
  <2> QED
    BY <2>2, <2>5, <2>6 DEF Follows
<1>2. IInv /\ [Next]_vars =>
        [\A s \in Stream :
           sequences'[s] # sequences[s] /\ sequences[s] # NoCursor /\ epoch' = epoch =>
            \E t \in Thread :
                /\ held[t] \in Packet /\ held[t].stream = s
                /\ sequences'[s] = [epoch |-> epoch, seq |-> held[t].seq]
                /\ IF held[t].full THEN held[t].seq > sequences[s].seq
                                   ELSE held[t].seq = sequences[s].seq + 1]_vars
  BY <1>1
<1> QED
  BY <1>2, Invariance, PTL DEF Spec, SequenceGapFree

-----------------------------------------------------------------------------
(* What the consumer shows and renders is right, whatever the packets, the  *)
(* goroutines and the failures: the two facts above.                        *)
THEOREM ConsumerRight == Spec => []ConsumerIsRight
<1>1. CursorMatchesConsumer /\ ManifestHeldWhileRendering => ConsumerIsRight
  BY DEF ConsumerIsRight
<1> QED
  BY <1>1, ConsumerAgrees, ManifestsHeld, PTL

(* A stream is shown forward and without gaps.                              *)
THEOREM InOrder == Spec => StreamsInOrder
  BY ForwardOnly, NoGap, PTL DEF StreamsInOrder

-----------------------------------------------------------------------------
(* A full packet that names a base is refused after the switch was opened   *)
(* and leaves it open with nobody to end it.  Without such packets the      *)
(* switch always has its owner.                                             *)
FullIsUnbased == \A p \in Packet : p.full => p.base = 0
SwitchHasOwner == pendingEpoch # 0 => \E t \in Thread : Active(t)

LEMMA StepKeepsOwner ==
    ASSUME FullIsUnbased, IInv, SwitchHasOwner, [Next]_vars
    PROVE  SwitchHasOwner'
<1> USE DEF SwitchHasOwner, IInv
<1>1. ASSUME NEW t \in Thread, NEW p \in Packet, Admit(t, p) PROVE SwitchHasOwner'
  BY <1>1 DEF Admit, Active, TypeOK
<1>2. ASSUME NEW t \in Thread, NEW p \in Packet, AdmitRefused(t, p) PROVE SwitchHasOwner'
  <2>1. pendingEpoch' = pendingEpoch
    BY <1>2 DEF AdmitRefused, Refusable, WellChained, FullIsUnbased, OpensEpoch
  <2> QED
    BY <1>2, <2>1 DEF AdmitRefused, Active
<1>3. ASSUME NEW t \in Thread, Prepare(t) \/ Commit(t) PROVE SwitchHasOwner'
  <2>1. Active(t)' 
    BY <1>3 DEF Prepare, Commit, PrepareFails, PrepareSkips, PrepareSucceeds, CommitSucceeds,
       CommitFails, MoveTo, Active, TypeOK
  <2> QED
    BY <2>1
<1>4. ASSUME NEW t \in Thread, Finish(t) PROVE SwitchHasOwner'
  <2>1. Active(t) /\ Release(t)
    BY <1>4 DEF Finish, FinishApplied, FinishFailed, Active
  <2>2. pendingEpoch' = 0
    BY <2>1, ReleaseFacts
  <2> QED
    BY <2>2
<1>5. CASE UNCHANGED vars
  BY <1>5 DEF vars, applierVars, Active
<1> QED
  BY <1>1, <1>2, <1>3, <1>4, <1>5 DEF Next, Proceed

(* A pending switch of epoch is alone in the applier and somebody is there  *)
(* to end it, as long as no full packet names a base sequence.              *)
THEOREM SwitchExclusion ==
    ASSUME FullIsUnbased
    PROVE  Spec => []SwitchIsExclusive
<1>1. Init => SwitchHasOwner
  BY DEF Init, SwitchHasOwner
<1>2. IInv /\ SwitchHasOwner /\ [Next]_vars => SwitchHasOwner'
  BY StepKeepsOwner
<1>3. IInv /\ SwitchHasOwner => SwitchIsExclusive
  BY DEF IInv, SwitchInv, SwitchHasOwner, SwitchIsExclusive
<1> QED
  BY <1>1, <1>2, <1>3, Invariance, PTL DEF Spec

=============================================================================
