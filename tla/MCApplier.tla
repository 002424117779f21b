------------------------------ MODULE MCApplier ------------------------------
(* One match key, two epochs of the server's history.  In each epoch: the   *)
(* manifest, a state snapshot with two deltas, the second a source mutation *)
(* the server sent twice, and two presentation events.                      *)
EXTENDS Applier

CONSTANTS t1, t2, k, d, none

Pkt(topic, e, n, b, full, src) ==
    [stream |-> [topic |-> topic, key |-> k], epoch |-> e, seq |-> n, base |-> b,
     full |-> full, src |-> src, digest |-> IF topic = "state" THEN none ELSE d,
     valid |-> TRUE, fits |-> TRUE]

OfEpoch(e) ==
    {Pkt("manifest", e, 1, 0, TRUE, 0),
     Pkt("state", e, 1, 0, TRUE, 1), Pkt("state", e, 2, 1, FALSE, 2),
     Pkt("state", e, 3, 2, FALSE, 2),
     Pkt("presentation", e, 1, 0, FALSE, 1), Pkt("presentation", e, 2, 1, FALSE, 2)}

(* A snapshot that would repair the stream after a gap, a packet that fails *)
(* the record checks and one that fails the stateless admission checks.     *)
Odd ==
    {Pkt("state", 1, 4, 0, TRUE, 3),
     [Pkt("manifest", 1, 2, 0, TRUE, 0) EXCEPT !.fits = FALSE],
     [Pkt("manifest", 1, 3, 0, TRUE, 0) EXCEPT !.valid = FALSE]}

(* The presentation consumer is a plain one: its call is the commit. *)
MCTransactional == {"manifest", "state"}

MCThread == {t1, t2}
MCKey == {k}
MCDigest == {d}
MCPacket == OfEpoch(1) \cup OfEpoch(2) \cup Odd

=============================================================================
