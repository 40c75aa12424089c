----------------------------- MODULE UecTransport -------------------------------
(* One UEC flow: the sender UecSrc and the receiver UecSink of sim/uec.cpp, and *)
(* the network between them. The network is packet spray over queues that trim  *)
(* (or turn around, "back to sender") a data packet when they are full, so that *)
(* messages are reordered freely; a queue may also drop a message.              *)
(*                                                                              *)
(* All packets of a flow have the size _mss, so packet p stands for the bytes   *)
(* (p-1)*_mss+1 .. p*_mss and sequence and acknowledgement numbers are packet   *)
(* numbers. The window stays in bytes: it is not a multiple of _mss. What       *)
(* congestion control makes of the window is a choice among Windows, which      *)
(* check_limits_cwnd keeps between _mss and _maxcwnd. Pacing is off, its        *)
(* default (UecSrc::use_pacing).                                                *)
EXTENDS Integers, FiniteSets

CONSTANTS N,             \* packets of the flow: _flow_size in packets, rounded up
          Mss,           \* bytes of a packet: _mss
          Windows,       \* the values congestion control gives _cwnd
          MaxLoss        \* bound on the messages the network drops

ASSUME FlowAssumption == N \in Nat \ {0} /\ Mss \in Nat \ {0} /\ MaxLoss \in Nat
ASSUME WindowAssumption ==
    /\ Windows \subseteq Nat
    /\ Windows # {}
    /\ \A w \in Windows : w >= Mss

Packets == 1..N

VARIABLES
    \* UecSrc
    started,       \* startflow has run
    sent,          \* _sent_packets: where each packet stands (see Status)
    highest,       \* _highest_sent
    cwnd,          \* _cwnd
    unacked,       \* _unacked
    nackRtx,       \* _nack_rtx_pending
    rtxPending,    \* _rtx_pending
    finished,      \* _flow_finished
    \* UecSink
    cumAck,        \* _cumulative_ack
    received,      \* _received: held out of order
    \* the network
    data,          \* copies of each data packet on their way to the sink
    headers,       \* data packets trimmed on their way to the sink
    nacks,         \* NACKs, or back-to-sender headers, on their way to the source
    acks,          \* ACKs on their way to the source
    losses         \* messages dropped so far

srcVars  == <<started, sent, highest, cwnd, unacked, nackRtx, rtxPending, finished>>
sinkVars == <<cumAck, received>>
netVars  == <<data, headers, nacks, acks, losses>>
vars     == <<srcVars, sinkVars, netVars>>

(* An entry of _sent_packets is outstanding, nacked or acked; a packet is       *)
(* "none" before it is sent and "erased" once its entry has been removed.       *)
Status == {"none", "out", "nacked", "acked", "erased"}

(* An acknowledgement of data packet pkt. A cumulative one (cum: the code gives *)
(* it sequence number 1) acknowledges everything up to ack; a selective one     *)
(* acknowledges pkt alone, and ack = pkt.                                       *)
Ack == [pkt : Packets, cum : BOOLEAN, ack : Packets]

TypeOK ==
    /\ started \in BOOLEAN
    /\ sent \in [Packets -> Status]
    /\ highest \in 0..N
    /\ cwnd \in Windows
    /\ unacked \in Nat
    /\ nackRtx \in Int
    /\ rtxPending \in BOOLEAN
    /\ finished \in BOOLEAN
    /\ cumAck \in 0..N
    /\ received \subseteq Packets
    /\ data \in [Packets -> Nat]
    /\ headers \subseteq Packets
    /\ nacks \subseteq Packets
    /\ acks \subseteq Ack
    /\ losses \in 0..MaxLoss

Init ==
    /\ started = FALSE
    /\ sent = [p \in Packets |-> "none"]
    /\ highest = 0
    /\ cwnd \in Windows
    /\ unacked = 0 /\ nackRtx = 0
    /\ rtxPending = FALSE /\ finished = FALSE
    /\ cumAck = 0 /\ received = {}
    /\ data = [p \in Packets |-> 0]
    /\ headers = {} /\ nacks = {} /\ acks = {}
    /\ losses = 0

--------------------------------------------------------------------------------
(* The sender *)

\* The packets with an entry in _sent_packets, and those of a given status.
Entries(st) == {p \in Packets : st[p] \in {"out", "nacked", "acked"}}
With(st, s) == {p \in Packets : st[p] = s}

\* (Mutant.) Counts what is acknowledged but not erased.
GetUnackedWithAcked(st) == Mss * Cardinality(With(st, "out") \cup With(st, "acked"))

\* get_unacked: bytes neither acknowledged nor waiting for a retransmission.
GetUnacked(st) == Mss * Cardinality(With(st, "out"))

\* p is the first entry of _sent_packets.
IsFront(st, p) == p \in Entries(st) /\ \A q \in Entries(st) : p <= q

\* What erasing entries from the front leaves, as long as they are in gone.
EraseFront(st, gone) ==
    [p \in Packets |->
        IF p \in Entries(st) /\ \A q \in Entries(st) : q <= p => q \in gone
        THEN "erased" ELSE st[p]]

\* (Mutants.) A cumulative acknowledgement erases one packet too many; it erases
\* its own packet alone.
MarkOneMore(st, a) ==
    IF a.cum THEN EraseFront(st, 1..(a.ack + 1) \cup With(st, "acked"))
    ELSE [st EXCEPT ![a.pkt] = "acked"]
MarkOwnOnly(st, a) ==
    IF a.pkt \in Entries(st)
    THEN IF a.cum \/ IsFront(st, a.pkt)
         THEN EraseFront(st, {a.pkt} \cup With(st, "acked"))
         ELSE [st EXCEPT ![a.pkt] = "acked"]
    ELSE st

\* What mark_received leaves of _sent_packets after acknowledgement a.
MarkReceived(st, a) ==
    IF a.cum THEN EraseFront(st, 1..a.ack \cup With(st, "acked"))
    ELSE IF \A q \in Entries(st) : q > a.ack THEN st        \* duplicate
    ELSE IF IsFront(st, a.pkt) THEN EraseFront(st, {a.pkt} \cup With(st, "acked"))
    ELSE [st EXCEPT ![a.pkt] = "acked"]

\* The assertion of mark_received: a selective acknowledgement finds its entry.
AckFindsEntry(a) ==
    a.cum \/ (\A q \in Entries(sent) : q > a.ack) \/ a.pkt \in Entries(sent)

\* The assertions of processNack: the packet has an entry that is not acked.
NackFindsEntry(p) == sent[p] \in {"out", "nacked"}

\* retransmit_packet: the nacked packets, in order, while the window has room.
Resent(st, w) ==
    {p \in With(st, "nacked") :
        GetUnacked(st) + Mss * Cardinality({q \in With(st, "nacked") : q < p}) < w}

\* (Mutant.) New packets as soon as one byte is free.
FreshLoose(st, w, h) ==
    {p \in Packets : p > h /\ GetUnacked(st) + Mss * (p - h - 1) < w}

\* The loop of send_packets: new packets while a whole one fits in the window.
Fresh(st, w, h) ==
    {p \in Packets : p > h /\ GetUnacked(st) + Mss * (p - h) <= w}

\* (Mutant.) Retransmitting does not clear the nacked flag.
LaunchNew(st, S) == [p \in Packets |-> IF p \in S /\ st[p] = "none" THEN "out" ELSE st[p]]

\* st with the packets of S sent.
Launch(st, S) == [p \in Packets |-> IF p \in S THEN "out" ELSE st[p]]

(* send_packets, from _sent_packets st, window w, _rtx_pending rtx and          *)
(* _highest_sent h; "sending" is what the handler has already put on the wire.  *)
(* base is _unacked and nk _nack_rtx_pending when send_packets is called. New   *)
(* packets are sent in order, up to some k.                                     *)
SendPackets(st, w, rtx, h, sending, base, nk) ==
    LET again == IF rtx THEN Resent(st, w) ELSE {}
        st1   == Launch(st, again)
        fresh == Fresh(st1, w, h)
    IN  /\ sent' = Launch(st1, fresh)
        /\ \E k \in h..N : fresh = (h + 1)..k /\ highest' = k
        /\ rtxPending' = (rtx /\ With(st1, "nacked") # {})
        /\ nackRtx' = nk - Cardinality(again)
        /\ unacked' = base + Mss * Cardinality(again \cup fresh)
        /\ data' = [p \in Packets |->
                       data[p] + (IF p \in sending THEN 1 ELSE 0)
                               + (IF p \in again \cup fresh THEN 1 ELSE 0)]

\* startflow, at the start time of the flow or when its trigger fires.
StartFlow ==
    /\ ~started
    /\ started' = TRUE
    /\ SendPackets(sent, cwnd, rtxPending, highest, {}, unacked, nackRtx)
    /\ UNCHANGED <<cwnd, finished, sinkVars, headers, nacks, acks, losses>>

\* (Mutants.) reduce_unacked called twice, without its guard, or never.
ReducedTwice == unacked - 2 * Mss
NotReduced   == unacked

\* reduce_unacked(_mss), for every packet the source receives.
Reduced == IF unacked >= Mss THEN unacked - Mss ELSE 0

\* processAck
ReceiveAck(a) ==
    /\ a \in acks
    /\ AckFindsEntry(a)
    /\ acks' = acks \ {a}
    /\ LET st == MarkReceived(sent, a)
           nk == IF ~a.cum /\ st[a.pkt] = "acked" /\ sent[a.pkt] = "nacked"
                 THEN nackRtx - 1 ELSE nackRtx
       IN IF a.ack >= N /\ Entries(st) = {} /\ ~finished
          THEN /\ finished' = TRUE
               /\ sent' = st
               /\ unacked' = Reduced
               /\ nackRtx' = nk
               /\ UNCHANGED <<highest, cwnd, rtxPending, data>>
          ELSE /\ cwnd' \in Windows                       \* adjust_window
               /\ SendPackets(st, cwnd', rtxPending,
                              IF a.ack >= highest THEN a.ack ELSE highest,
                              {}, Reduced, nk)
               /\ UNCHANGED finished
    /\ UNCHANGED <<started, sinkVars, headers, nacks, losses>>

\* (Mutant.) A NACK that cannot be answered at once is not remembered.
ReceiveNackForgotten(p) ==
    /\ p \in nacks /\ NackFindsEntry(p)
    /\ nacks' = nacks \ {p}
    /\ cwnd' \in Windows
    /\ LET marked == [sent EXCEPT ![p] = "nacked"]
       IN IF GetUnacked(marked) < cwnd'
          THEN SendPackets(Launch(marked, {p}), cwnd', rtxPending, highest, {p},
                           Reduced + Mss, nackRtx)
          ELSE SendPackets(marked, cwnd', rtxPending, highest, {}, Reduced, nackRtx + 1)
    /\ UNCHANGED <<started, finished, sinkVars, headers, acks, losses>>

\* processNack and processBts
ReceiveNack(p) ==
    /\ p \in nacks
    /\ NackFindsEntry(p)
    /\ nacks' = nacks \ {p}
    /\ cwnd' \in Windows            \* reduce_cwnd, quick_adapt, check_limits_cwnd
    /\ LET nk      == IF sent[p] = "nacked" THEN nackRtx ELSE nackRtx + 1
           marked  == [sent EXCEPT ![p] = "nacked"]
           success == GetUnacked(marked) < cwnd'          \* resend_packet
       IN IF success
          THEN SendPackets(Launch(marked, {p}), cwnd', rtxPending, highest, {p},
                           Reduced + Mss, nk - 1)
          ELSE SendPackets(marked, cwnd', TRUE, highest, {}, Reduced, nk)
    /\ UNCHANGED <<started, finished, sinkVars, headers, acks, losses>>

--------------------------------------------------------------------------------
(* The receiver *)

\* UecSink::receivePacket for a whole packet. The packet expected next advances
\* the cumulative acknowledgement over what is held; an old one is acknowledged
\* again; any other is held and acknowledged selectively.
ReceiveData(p) ==
    /\ data[p] > 0
    /\ data' = [data EXCEPT ![p] = @ - 1]
    /\ \/ /\ p = cumAck + 1
          /\ \E c \in p..N :
                /\ (p + 1)..c \subseteq received /\ c + 1 \notin received
                /\ cumAck' = c
                /\ received' = received \ ((p + 1)..c)
                /\ acks' = acks \cup {[pkt |-> p, cum |-> TRUE, ack |-> c]}
       \/ /\ p <= cumAck
          /\ acks' = acks \cup {[pkt |-> p, cum |-> TRUE, ack |-> cumAck]}
          /\ UNCHANGED sinkVars
       \/ /\ p > cumAck + 1
          /\ received' = received \cup {p}
          /\ acks' = acks \cup {[pkt |-> p, cum |-> FALSE, ack |-> p]}
          /\ UNCHANGED cumAck
    /\ UNCHANGED <<srcVars, headers, nacks, losses>>

\* (Mutant.) The header of a trimmed packet is held as if it were whole.
ReceiveTrimmedAsData(p) ==
    /\ p \in headers
    /\ headers' = headers \ {p}
    /\ nacks' = nacks \cup {p}
    /\ received' = received \cup {p}
    /\ UNCHANGED <<srcVars, cumAck, data, acks, losses>>

\* UecSink::receivePacket for a trimmed packet: send_nack.
ReceiveTrimmed(p) ==
    /\ p \in headers
    /\ headers' = headers \ {p}
    /\ nacks' = nacks \cup {p}
    /\ UNCHANGED <<srcVars, sinkVars, data, acks, losses>>

--------------------------------------------------------------------------------
(* The network: CompositeQueue trims a data packet that does not fit, or turns  *)
(* its header around to the sender, or drops it                                 *)

\* strip_payload on a full queue.
Trim(p) ==
    /\ data[p] > 0
    /\ data' = [data EXCEPT ![p] = @ - 1]
    /\ headers' = headers \cup {p}
    /\ UNCHANGED <<srcVars, sinkVars, nacks, acks, losses>>

\* The use_bts branch of a full queue.
BackToSender(p) ==
    /\ data[p] > 0
    /\ data' = [data EXCEPT ![p] = @ - 1]
    /\ nacks' = nacks \cup {p}
    /\ UNCHANGED <<srcVars, sinkVars, headers, acks, losses>>

\* A queue that may neither trim nor keep a message frees it.
Drop ==
    /\ losses < MaxLoss
    /\ losses' = losses + 1
    /\ \/ \E p \in Packets : /\ data[p] > 0
                             /\ data' = [data EXCEPT ![p] = @ - 1]
                             /\ UNCHANGED <<headers, nacks, acks>>
       \/ \E p \in headers : headers' = headers \ {p} /\ UNCHANGED <<data, nacks, acks>>
       \/ \E p \in nacks : nacks' = nacks \ {p} /\ UNCHANGED <<data, headers, acks>>
       \/ \E a \in acks : acks' = acks \ {a} /\ UNCHANGED <<data, headers, nacks>>
    /\ UNCHANGED <<srcVars, sinkVars>>

--------------------------------------------------------------------------------
Next ==
    \/ StartFlow
    \/ \E a \in acks : ReceiveAck(a)
    \/ \E p \in Packets : ReceiveNack(p) \/ ReceiveData(p) \/ ReceiveTrimmed(p)
    \/ \E p \in Packets : Trim(p) \/ BackToSender(p)
    \/ Drop

Spec == Init /\ [][Next]_vars

(* The event list runs every scheduled event, so a flow starts and what is in   *)
(* flight arrives; a packet sent again and again is not trimmed for ever.       *)
Fairness ==
    /\ WF_vars(StartFlow)
    /\ \A p \in Packets : /\ SF_vars(ReceiveData(p))
                          /\ WF_vars(ReceiveTrimmed(p))
                          /\ WF_vars(ReceiveNack(p))
    /\ \A a \in Ack : WF_vars(ReceiveAck(a))

FairSpec == Spec /\ Fairness

--------------------------------------------------------------------------------
(* What makes the transport correct *)

\* The acknowledgements of packet p in flight, and everything in flight.
AcksOf(p) == {a \in acks : a.pkt = p}
Held == 1..cumAck \cup received

InFlight(p) ==
    data[p] + (IF p \in headers THEN 1 ELSE 0) + (IF p \in nacks THEN 1 ELSE 0)
            + Cardinality(AcksOf(p))

\* The assertions of mark_received, processNack and processBts never fail,
\* whatever order the network delivers in ("would it be possible for a packet
\* to receive a nack after being acked?", asks processNack: it would not).
AssertionsHold ==
    /\ \A a \in acks : AckFindsEntry(a)
    /\ \A p \in nacks : NackFindsEntry(p)

\* A selective acknowledgement never concerns the first entry: the branch of
\* mark_received that "should not happen because of cummulative acks".
FrontIsAckedCumulatively == \A a \in acks : ~a.cum => ~IsFront(sent, a.pkt)

\* A packet, its trimmed header, its NACK and its acknowledgement are never in
\* flight together nor twice: nothing is retransmitted that is not known lost.
OneCopyInFlight == \A p \in Packets : InFlight(p) <= 1

\* What the sender counts as acknowledged the receiver holds, and what it has
\* forgotten is below the cumulative acknowledgement.
AckedIsHeld ==
    \A p \in Packets : /\ sent[p] = "acked" => p \in Held
                       /\ sent[p] = "erased" => p <= cumAck

\* A flow that has finished was received whole, and has nothing left to send.
FinishedIsComplete ==
    finished => cumAck = N /\ highest = N /\ Entries(sent) = {} /\ nacks = {}

\* _nack_rtx_pending counts the nacked entries: no way of removing an entry
\* forgets to uncount it.
NackCountExact == nackRtx = Cardinality(With(sent, "nacked"))

\* _unacked is the bytes of the packets whose answer has not come back ("every
\* packet received represents one less packet in flight").
UnackedExact ==
    unacked = Mss * (losses + Cardinality({p \in Packets : InFlight(p) > 0}))

\* Both counters of the sender stay exact, in whatever order messages come.
CountersExact == NackCountExact /\ UnackedExact

\* A NACK that could not be answered at once is remembered in _rtx_pending.
NackedIsRemembered == With(sent, "nacked") # {} => rtxPending

\* What a step puts on the wire fits the window: a new packet whole, a
\* retransmission as soon as one byte is free.
WindowRespected ==
    [][ \A p \in Packets : data'[p] > data[p] =>
          /\ GetUnacked(sent') < cwnd' + Mss
          /\ sent[p] = "none" => GetUnacked(sent') <= cwnd' ]_vars

\* New packets leave only when no nacked packet is waiting.
RetransmissionsFirst ==
    [][ highest' > highest => With(sent', "nacked") = {} ]_vars

\* What the receiver holds and what the sender reports implement reliable
\* transfer: each packet accepted once, the cumulative acknowledgement exactly
\* the prefix held, completion reported once and only for the whole flow.
Transfer == INSTANCE ReliableTransfer
                WITH accepted <- Held, frontier <- cumAck, done <- finished
ImplementsTransfer == Transfer!Spec

\* Every flow finishes under any behaviour of the window, unless a message is
\* dropped: the sender never waits with nothing in flight that would wake it.
FlowCompletesUnlessLoss == <>(finished \/ losses > 0)

\* Every flow finishes (a lost packet is what "retransmission for timeout" is for).
FlowCompletes == <>finished
================================================================================
