---------------------------------- MODULE Swift ----------------------------------
(* One Swift flow with one subflow, SwiftSrc, SwiftSubflowSrc, SwiftPacer,       *)
(* SwiftSubflowSink and SwiftSink of sim/swift.cpp, behind the scheduler of its  *)
(* host, BaseScheduler of sim/swift_scheduler.cpp. A packet has a number in the  *)
(* subflow and a number in the data of the flow. The source recovers from losses *)
(* by duplicate acknowledgements or by a timeout, sends by the window or, when   *)
(* the window is below a packet, by a pacer, and waits when the scheduler holds  *)
(* enough of its packets. The path is fixed, so that messages are never          *)
(* reordered; a queue may drop a data packet or an acknowledgement.              *)
(*                                                                               *)
(* All packets have the size _mss and stand for their number; 0 is nothing yet.  *)
(* Time is left out but for the retransmission timer, which is running or not,   *)
(* and the pacing delay, which is positive or not. startflow sets _established   *)
(* before anything is sent, so that no SYN is. PLB and _app_limited are off.     *)
EXTENDS Integers, Sequences, FiniteSets

CONSTANTS N,                \* packets that more_data_available lets the flow send
          Mss,              \* _mss
          Windows,          \* what adjust_cwnd and the limits may make of _swift_cwnd
          NicLimit,         \* packets of the flow with which the scheduler refuses more
          MaxLoss,          \* bound on the messages dropped
          MaxEarly          \* bound on the timeouts that come too early

ASSUME SwiftAssumption ==
    /\ N \in Nat \ {0} /\ Mss \in Nat \ {0} /\ NicLimit \in Nat \ {0}
    /\ Windows \subseteq Nat \ {0} /\ Windows # {}
    /\ MaxLoss \in Nat /\ MaxEarly \in Nat

VARIABLES
    \* the source
    started,        \* _established
    highest,        \* _highest_sent
    lastAcked,      \* _last_acked
    dupAcks,        \* _dupacks, those beyond four not counted
    recovering,     \* _in_fast_recovery
    recoverq,       \* _recoverq
    inflate, cwnd,  \* _inflate, _swift_cwnd, in bytes
    slow,           \* _pacing_delay > 0
    pacing,         \* the pacer is_pending
    deferred,       \* _deferred_send
    timer,          \* _RFC2988_RTO_timeout is set
    expired,        \* _rtx_timeout_pending: the timeout is an event of the source
    nextDsn,        \* _highest_dsn_sent
    dsnMap,         \* _dsn_map
    done,           \* update_dsn_ack has reported the flow finished
    \* the sink
    cumAck, held,           \* of the subflow: _cumulative_ack, _received
    dataAck, dataHeld,      \* of the flow: _cumulative_data_ack, _dsn_received
    \* the network
    data,           \* data packets on their way, oldest first
    nic,            \* how many of them, the last ones, are still in the scheduler
    acks,           \* acknowledgements on their way, oldest first
    losses, early,  \* messages dropped and timeouts too early, so far
    untimed         \* a message was dropped while the timer was not running

windowVars == <<lastAcked, dupAcks, recovering, recoverq, inflate, cwnd, slow>>
sendVars   == <<highest, nextDsn, dsnMap, pacing, deferred, timer>>
sinkVars   == <<cumAck, held, dataAck, dataHeld>>
envVars    == <<losses, early, untimed>>
vars == <<started, windowVars, sendVars, expired, done, sinkVars, data, nic, acks, envVars>>

TypeOK ==
    /\ {started, recovering, slow, pacing, deferred, timer, expired, done, untimed}
            \subseteq BOOLEAN
    /\ {highest, lastAcked, recoverq, inflate, cumAck} \subseteq Nat
    /\ dupAcks \in 0..4 /\ cwnd \in Windows
    /\ nextDsn \in 0..N /\ dsnMap \in Seq(0..N)
    /\ held \subseteq Nat /\ IsFiniteSet(held)
    /\ dataAck \in 0..N /\ dataHeld \subseteq 1..N
    /\ data \in Seq([seq : Nat, dsn : 0..N]) /\ nic \in 0..Len(data)
    /\ acks \in Seq([ackno : Nat, ds : 0..N])
    /\ losses \in 0..MaxLoss /\ early \in 0..MaxEarly

Init ==
    /\ started = FALSE /\ highest = 0 /\ lastAcked = 0 /\ dupAcks = 0
    /\ recovering = FALSE /\ recoverq = 0 /\ inflate = 0 /\ cwnd \in Windows
    /\ slow = FALSE /\ pacing = FALSE /\ deferred = FALSE
    /\ timer = FALSE /\ expired = FALSE /\ nextDsn = 0 /\ dsnMap = <<>> /\ done = FALSE
    /\ cumAck = 0 /\ held = {} /\ dataAck = 0 /\ dataHeld = {}
    /\ data = <<>> /\ nic = 0 /\ acks = <<>>
    /\ losses = 0 /\ early = 0 /\ untimed = FALSE

--------------------------------------------------------------------------------
(* Sending *)

Lesser(a, b) == IF a < b THEN a ELSE b
Excess(a, b) == IF a > b THEN a - b ELSE 0

\* _dsn_map[s]: a number that was never sent has no data.
DsnOf(s) == IF s \in DOMAIN dsnMap THEN dsnMap[s] ELSE 0

\* retransmit_packet: the packet after those acknowledged.
Retransmission(acked) == <<[seq |-> acked + 1, dsn |-> DsnOf(acked + 1)]>>

\* send_next_packet, k times: new data in the packets after hs.
NewPackets(hs, k) == [i \in 1..k |-> [seq |-> hs + i, dsn |-> nextDsn + i]]

\* Puts the packets of re and then k new ones into the scheduler, which holds q.
Put(q, re, hs, k) ==
    /\ data' = data \o re \o NewPackets(hs, k)
    /\ nic' = q + Len(re) + k
    /\ highest' = hs + k
    /\ nextDsn' = nextDsn + k
    /\ dsnMap' = [s \in 1..(IF hs + k > Len(dsnMap) THEN hs + k ELSE Len(dsnMap)) |->
                    IF s \in (hs + 1)..(hs + k) THEN nextDsn + s - hs ELSE DsnOf(s)]

\* (Mutant.) The pacer sends on when the flow is over.
PacedSendAnyway(q, hs) ==
    /\ Put(q, <<>>, hs, IF q >= NicLimit THEN 0 ELSE 1)
    /\ deferred' = (q >= NicLimit)

\* send_next_packet for the pacer. The retransmission timer is not started.
PacedSend(q, hs) ==
    /\ Put(q, <<>>, hs, IF q >= NicLimit THEN 0 ELSE Lesser(1, N - nextDsn))
    /\ deferred' = (q >= NicLimit)

\* New packets that window and data have left.
Wanted(at) == Lesser(Excess(at.acked + (at.window \div Mss), at.highest), N - nextDsn)

(* send_packets, at a state given by a record: the acknowledged and the sent     *)
(* part of the subflow, the window with its inflation, whether the pacing delay  *)
(* is positive, timer and deferred, and the packets in the scheduler. re is what *)
(* the handler has retransmitted before.                                         *)
SendByWindow(at, re) ==
    LET sent == Lesser(Wanted(at), Excess(NicLimit, at.queued + Len(re)))
    IN  /\ at.window >= Mss
        /\ Put(at.queued, re, at.highest, sent)
        /\ pacing' = (pacing /\ Wanted(at) = 0)
        /\ deferred' = IF Wanted(at) = 0 THEN at.deferred ELSE sent < Wanted(at)
        /\ timer' = (at.timer \/ sent > 0)

\* The next packet is the pacer's, at once if it is due.
SendByPacer(at, re) ==
    /\ at.window < Mss
    /\ timer' = at.timer
    /\ \/ /\ pacing \/ at.slow
          /\ Put(at.queued, re, at.highest, 0)
          /\ pacing' = TRUE /\ deferred' = at.deferred
       \/ /\ ~pacing
          /\ PacedSend(at.queued, at.highest)
          /\ pacing' = at.slow

SendPackets(at, re) == SendByWindow(at, re) \/ SendByPacer(at, re)

StartFlow ==
    /\ ~started /\ started' = TRUE
    /\ SendPackets([acked |-> lastAcked, highest |-> highest, window |-> cwnd + inflate,
                    slow |-> slow, timer |-> timer, deferred |-> deferred,
                    queued |-> nic], <<>>)
    /\ UNCHANGED <<windowVars, expired, done, sinkVars, acks, envVars>>

\* doNextEvent of the pacer.
PacerFires ==
    /\ pacing
    /\ PacedSend(nic, highest)
    /\ pacing' = slow
    /\ UNCHANGED <<started, windowVars, timer, expired, done, sinkVars, acks, envVars>>

\* send_callback has something to do.
Callback == deferred

\* completeService of the scheduler: a packet leaves the host, and the source
\* is called back.
NicCompletes ==
    /\ nic > 0
    /\ IF Callback
       THEN SendPackets([acked |-> lastAcked, highest |-> highest,
                         window |-> cwnd + inflate, slow |-> slow, timer |-> timer,
                         deferred |-> FALSE, queued |-> nic - 1], <<>>)
       ELSE nic' = nic - 1 /\ UNCHANGED <<data, sendVars>>
    /\ UNCHANGED <<started, windowVars, expired, done, sinkVars, acks, envVars>>

--------------------------------------------------------------------------------
(* Acknowledgements: receivePacket and handle_ack *)

\* applySwiftLimits, then send_packets.
LimitAndSend(acked, hs, tm, re) ==
    /\ slow' = (cwnd' < Mss)
    /\ SendPackets([acked |-> acked, highest |-> hs, window |-> cwnd' + inflate',
                    slow |-> slow', timer |-> tm, deferred |-> deferred,
                    queued |-> nic], re)

\* (Mutant.) What is not acknowledged counts as not sent.
HighestRewound(ackno) == ackno

\* What has been acknowledged has been sent.
HighestAfter(ackno) == IF ackno >= highest THEN ackno ELSE highest

\* (Mutant.) The timer stops with every new acknowledgement.
TimerNeverRuns(ackno) == FALSE

\* A new acknowledgement restarts the timer, and stops it if nothing is left.
TimerRuns(ackno) == ackno < highest

\* A new acknowledgement, and no recovery or the end of one.
Advance(ackno) ==
    /\ ~recovering \/ ackno >= recoverq
    /\ inflate' = IF recovering THEN 0 ELSE inflate
    /\ recovering' = FALSE /\ dupAcks' = 0
    /\ LimitAndSend(ackno, HighestAfter(ackno), TimerRuns(ackno), <<>>)

\* A new acknowledgement that leaves another loss to repair.
AdvancePartly(ackno) ==
    /\ recovering /\ ackno < recoverq
    /\ inflate' = Excess(inflate, (ackno - lastAcked) * Mss) + Mss
    /\ UNCHANGED <<recovering, dupAcks>>
    /\ LimitAndSend(ackno, HighestAfter(ackno), TRUE, Retransmission(ackno))

\* A duplicate during recovery.
DuplicateInflates ==
    /\ recovering
    /\ inflate' = Lesser(inflate + Mss, cwnd')
    /\ SendPackets([acked |-> lastAcked, highest |-> highest, window |-> cwnd' + inflate',
                    slow |-> slow, timer |-> timer, deferred |-> deferred,
                    queued |-> nic], <<>>)
    /\ UNCHANGED <<recovering, recoverq, dupAcks, slow>>

\* Any other duplicate but the third.
DuplicateCounts ==
    /\ ~recovering /\ dupAcks # 2
    /\ dupAcks' = Lesser(dupAcks + 1, 4)
    /\ UNCHANGED <<recovering, recoverq, inflate>>
    /\ LimitAndSend(lastAcked, highest, timer, <<>>)

BeginsRecovery == recovering' = TRUE /\ recoverq' = highest

\* The third duplicate retransmits, unless the last recovery is not over.
DuplicateRetransmits ==
    /\ ~recovering /\ dupAcks = 2 /\ dupAcks' = 3
    /\ IF lastAcked < recoverq
       THEN UNCHANGED <<recovering, recoverq, slow, sendVars, data, nic>>
       ELSE /\ slow' = (cwnd' < Mss)
            /\ Put(nic, Retransmission(lastAcked), highest, 0)
            /\ timer' = TRUE
            /\ BeginsRecovery
            /\ UNCHANGED <<pacing, deferred>>
    /\ UNCHANGED inflate

ReceiveAck ==
    /\ acks # <<>> /\ acks' = Tail(acks)
    /\ LET a == Head(acks)
       IN  IF a.ackno < lastAcked THEN UNCHANGED <<windowVars, sendVars, done, data, nic>>
           ELSE /\ cwnd' \in Windows
                /\ done' = (done \/ a.ds = N)
                /\ lastAcked' = a.ackno
                /\ \/ /\ a.ackno > lastAcked
                      /\ Advance(a.ackno) \/ AdvancePartly(a.ackno)
                      /\ UNCHANGED recoverq
                   \/ /\ a.ackno = lastAcked
                      /\ DuplicateInflates \/ DuplicateCounts \/ DuplicateRetransmits
    /\ UNCHANGED <<started, expired, sinkVars, envVars>>

--------------------------------------------------------------------------------
(* The retransmission timer *)

\* rtx_timer_hook, called by the scanner, makes the timeout an event. Unless it is
\* early, nothing is then on its way: _rto is longer than a packet and its
\* acknowledgement take.
TimerExpires ==
    /\ timer /\ ~expired /\ highest > 0
    /\ data = <<>> /\ acks = <<>>
    /\ expired' = TRUE
    /\ UNCHANGED <<started, windowVars, sendVars, done, sinkVars, data, nic, acks, envVars>>
TimerExpiresEarly ==
    /\ timer /\ ~expired /\ highest > 0
    /\ data # <<>> \/ acks # <<>>
    /\ early < MaxEarly /\ early' = early + 1
    /\ expired' = TRUE
    /\ UNCHANGED <<started, windowVars, sendVars, done, sinkVars, data, nic, acks,
                   losses, untimed>>

\* doNextEvent: everything after the packet it retransmits counts as not sent.
\* Acknowledgements may have come since the timer expired.
Timeout ==
    /\ expired /\ expired' = FALSE
    /\ recovering' = FALSE /\ recoverq' = highest /\ dupAcks' = 0
    /\ cwnd' \in {w \in Windows : w <= cwnd}
    /\ Put(nic, Retransmission(lastAcked), lastAcked + 1, 0)
    /\ timer' = TRUE
    /\ UNCHANGED <<started, lastAcked, inflate, slow, pacing, deferred, done, sinkVars,
                   acks, envVars>>

--------------------------------------------------------------------------------
(* The sink and the network *)

\* (Mutant.) What arrives beyond a gap closes it.
TakesAnyway(s, cum, above, cumNew, aboveNew) ==
    IF s > cum THEN cumNew = s /\ aboveNew = above \ (1..s)
               ELSE cumNew = cum /\ aboveNew = above

\* receivePacket of both sinks: number s arrives where the numbers up to cum and
\* those of above are held.
Takes(s, cum, above, cumNew, aboveNew) ==
    \/ /\ s = cum + 1
       /\ \E c \in s..(s + Cardinality(above)) :
            /\ (s + 1)..c \subseteq above /\ c + 1 \notin above
            /\ cumNew = c /\ aboveNew = above \ (1..c)
    \/ s <= cum /\ cumNew = cum /\ aboveNew = above
    \/ s > cum + 1 /\ cumNew = cum /\ aboveNew = above \cup {s}

ReceiveData ==
    /\ Len(data) > nic /\ data' = Tail(data)
    /\ Takes(Head(data).seq, cumAck, held, cumAck', held')
    /\ Takes(Head(data).dsn, dataAck, dataHeld, dataAck', dataHeld')
    /\ acks' = Append(acks, [ackno |-> cumAck', ds |-> dataAck'])
    /\ UNCHANGED <<started, windowVars, sendVars, expired, done, nic, envVars>>

\* A queue drops a data packet or an acknowledgement.
Drop ==
    /\ losses < MaxLoss /\ losses' = losses + 1
    /\ untimed' = (untimed \/ ~timer)
    /\ \/ Len(data) > nic /\ data' = Tail(data) /\ UNCHANGED acks
       \/ acks # <<>> /\ acks' = Tail(acks) /\ UNCHANGED data
    /\ UNCHANGED <<started, windowVars, sendVars, expired, done, sinkVars, nic, early>>

Next ==
    \/ StartFlow \/ PacerFires \/ NicCompletes \/ ReceiveAck
    \/ TimerExpires \/ TimerExpiresEarly \/ Timeout \/ ReceiveData \/ Drop

Spec == Init /\ [][Next]_vars

(* The event list runs what is pending, messages arrive, and the scanner looks   *)
(* at the timer again and again.                                                 *)
FairSpec ==
    /\ Spec
    /\ WF_vars(StartFlow) /\ WF_vars(PacerFires) /\ WF_vars(NicCompletes)
    /\ WF_vars(ReceiveData) /\ WF_vars(ReceiveAck)
    /\ WF_vars(TimerExpires) /\ WF_vars(Timeout)

--------------------------------------------------------------------------------
Accepted == 1..dataAck \cup dataHeld

\* Rewinding, retransmissions under a new number and packets without data never
\* make the sink count what it does not hold, nor the flow be reported finished
\* before everything is accepted.
Transfer == INSTANCE ReliableTransfer
                WITH accepted <- Accepted, frontier <- dataAck
ImplementsTransfer == Transfer!Spec

\* A timeout gives the numbers of the subflow beyond the first to new data, and
\* what was sent under them before can no longer be retransmitted; and it stops the
\* timer once the first is acknowledged. If two of these packets are missing, or
\* one and the timeout came too early, data is lost for ever.
SingleFault == losses + early <= 1

\* Data that was sent is accepted, on its way, or known by a number of the subflow
\* that is not acknowledged yet, so that it can be retransmitted.
NothingForgotten ==
    SingleFault =>
        \A d \in 1..nextDsn :
            \/ d \in Accepted
            \/ \E i \in DOMAIN data : data[i].dsn = d
            \/ \E s \in DOMAIN dsnMap : s > lastAcked /\ dsnMap[s] = d

\* Every flow finishes though a message is lost or a timeout comes too early: by
\* duplicate acknowledgements or the timer, through window, pacer and scheduler.
\* What the pacer sends does not start the timer, and may be lost unnoticed.
FlowCompletes == <>(done \/ ~SingleFault \/ untimed)
================================================================================
