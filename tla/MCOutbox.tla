------------------------------ MODULE MCOutbox ------------------------------
(* Two packets of one state stream of observer 1, one packet of observer 2. *)
EXTENDS Outbox

CONSTANTS w1, w2

P(o, n) == [obs |-> o, topic |-> "state", key |-> 7, epoch |-> 1, seq |-> n]

MCWorker == {w1}
MCWorkerPair == {w1, w2}
MCPacket == {P(1, 1), P(1, 2), P(2, 1)}
MCPacketPair == {P(1, 1), P(2, 1)}
MCSize == [p \in Packet |-> p.seq]

(* RetryPending and one publishObserver. *)
MCFilter == {Packet, {p \in Packet : p.obs = 1}}

FileStore == {"store", "records"}
PacketStore == {"store"}
=============================================================================
