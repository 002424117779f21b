---------------------------- MODULE PacketLedger ----------------------------
(***************************************************************************)
(* What skillsync.Outbox promises: "Outbox retains every appended packet   *)
(* until client ACK, not merely until the transport accepts it"            *)
(* (outbox.go:106).  Packets are owed from a Put on; what ends the debt is *)
(* an acknowledgement, of the oldest packets of one stream, or the end of  *)
(* an observer.  No retry, failure or restart is an action here: they may  *)
(* not change what is owed.                                                *)
(***************************************************************************)
EXTENDS Naturals

CONSTANTS
    Packet,        \* records with at least the fields obs and seq
    StreamOf(_)    \* the stream of a packet

VARIABLE owed

Init == owed = {}

Owe(S) == S # {} /\ owed' = owed \cup S

(* A store that fails half way leaves the later packets owed. *)
Acknowledge(p) ==
    \E n \in {q.seq : q \in owed} :
        /\ n <= p.seq
        /\ owed' = {q \in owed : StreamOf(q) = StreamOf(p) => q.seq > n}

(* Of every stream of the observer, up to some packet. *)
Discard(o) ==
    \E T \in SUBSET {q \in owed : q.obs = o} :
        /\ \A p \in T, q \in owed : StreamOf(p) = StreamOf(q) /\ q.seq < p.seq => q \in T
        /\ owed' = owed \ T

Next ==
    \/ \E S \in SUBSET Packet : Owe(S)
    \/ \E p \in Packet : Acknowledge(p) \/ Discard(p.obs)

Spec == Init /\ [][Next]_owed
=============================================================================
