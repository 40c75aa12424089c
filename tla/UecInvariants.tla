----------------------------- MODULE UecInvariants ------------------------------
(* The inductive invariant of UecTransport: where each packet can be, given     *)
(* what the sender and the receiver have recorded about it.                     *)
EXTENDS UecTransport

\* Packet p has a selective acknowledgement in flight.
SelectivelyAcked(p) == \E a \in acks : a.pkt = p /\ ~a.cum

\* _highest_sent separates the packets sent from the others, and entries leave
\* _sent_packets from the front only.
SentInOrder ==
    /\ \A p \in Packets : sent[p] = "none" <=> p > highest
    /\ \A p, q \in Packets : q < p /\ sent[p] = "erased" => sent[q] = "erased"

\* A packet on its way to the receiver, as data, header or NACK, is outstanding,
\* not held, and in one place only.
Travelling ==
    \A p \in Packets :
        /\ data[p] > 0 => /\ data[p] = 1 /\ sent[p] = "out"
                          /\ p \notin Held /\ p \notin headers /\ p \notin nacks
        /\ p \in headers => sent[p] = "out" /\ p \notin Held /\ p \notin nacks
        /\ p \in nacks => sent[p] = "out" /\ p \notin Held
        /\ sent[p] \in {"none", "nacked"} => p \notin Held

\* An acknowledgement concerns a packet that is held and not yet known to be.
Answering ==
    /\ \A a \in acks :
        /\ a.pkt \in Held /\ sent[a.pkt] \in {"out", "erased"}
        /\ IF a.cum THEN a.pkt <= a.ack /\ a.ack <= cumAck ELSE a.ack = a.pkt
    /\ \A a, b \in acks : a.pkt = b.pkt => a = b

\* Two cumulative acknowledgements cover disjoint new ranges.
CumulativeRangesDisjoint ==
    \A a, b \in acks : a.cum /\ b.cum /\ a # b => a.ack < b.pkt \/ b.ack < a.pkt

\* What is held out of order lies beyond a gap.
HeldBeyondGap == \A p \in received : p > cumAck + 1

\* An entry whose packet arrived out of order has, before it, the entry of a
\* packet that only a cumulative acknowledgement covering both can remove.
GapBefore(p) ==
    \/ p \in received
    \/ \E m \in Packets :
          /\ m < p /\ m <= cumAck /\ sent[m] = "out" /\ ~SelectivelyAcked(m)
          /\ \A b \in acks : b.cum /\ m <= b.ack => p <= b.ack

SelectiveHasGap ==
    \A p \in Entries(sent) :
        sent[p] = "acked" \/ SelectivelyAcked(p) => GapBefore(p)

FinishedIsErased == finished => \A p \in Packets : sent[p] = "erased"

IInv ==
    /\ TypeOK
    /\ SentInOrder
    /\ Travelling
    /\ Answering
    /\ CumulativeRangesDisjoint
    /\ HeldBeyondGap
    /\ AckedIsHeld
    /\ SelectiveHasGap
    /\ FinishedIsErased

--------------------------------------------------------------------------------
(* What the liveness of a flow rests on                                         *)

\* A flow that has started and not finished has a packet outstanding: whatever
\* comes back and whatever becomes of the window, send_packets leaves one.
AlwaysOutstanding == started /\ ~finished => With(sent, "out") # {}

\* Until a message is dropped an unfinished flow has something on its way, which
\* will wake its sender.
SenderNeverWaits ==
    started /\ ~finished /\ losses = 0 => \E p \in Packets : InFlight(p) > 0
================================================================================
