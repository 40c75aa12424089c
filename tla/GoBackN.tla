--------------------------------- MODULE GoBackN ---------------------------------
(* One RoCE flow, RoceSrc and RoceSink of sim/roce.cpp, or one HPCC flow,        *)
(* HPCCSrc and HPCCSink of sim/hpcc.cpp: the same go-back-N transport over the   *)
(* lossless network, HPCC with a window on top. The receiver keeps nothing that  *)
(* comes out of order and asks for everything again; the sender is paced by      *)
(* events it schedules itself, and its host queue passes on to it the PAUSE and  *)
(* RESUME frames of the switch. Routes are fixed or, with adaptive routing, let  *)
(* one message overtake another; a queue may drop a message.                     *)
(*                                                                               *)
(* All packets have the size _mss and stand for their packet number; a cumulative*)
(* acknowledgement is a packet number too. stop_time is left out: no main sets   *)
(* it for these sources.                                                         *)
EXTENDS Integers, SequencesExt

CONSTANTS Protocols,        \* the transports to consider: "roce", "hpcc"
          N,                \* packets of the flow
          FlowSizes,        \* the values of _flow_size, in bytes, that take N packets
          Mss,              \* _mss
          Windows,          \* what computeWind may make of _cwnd, in packets
                            \* (a packet or more: _Wai, which it adds, is _mss)
          MaxLoss,          \* bound on the messages dropped
          MaxReorder,       \* bound on the messages that overtake others
          MaxPauses         \* bound on the PAUSE frames of the switch

ASSUME GoBackNAssumption ==
    /\ Protocols \subseteq {"roce", "hpcc"}
    /\ N \in Nat \ {0} /\ Mss \in Nat \ {0} /\ FlowSizes \subseteq ((N - 1) * Mss + 1)..(N * Mss)
    /\ Windows \subseteq Nat \ {0} /\ 1 \in Windows
    /\ MaxLoss \in Nat /\ MaxReorder \in Nat /\ MaxPauses \in Nat

VARIABLES
    protocol, flowSize,     \* fixed with the flow
    \* the source
    started,        \* _flow_started
    highest,        \* _highest_sent
    lastAcked,      \* _last_acked
    done,           \* _done
    paused,         \* _state_send = PAUSED
    events,         \* wake-ups of the source pending in the event list
    spaced,         \* _packet_spacing has passed since _time_last_sent
    cwnd, flight,   \* HPCC: _cwnd and _flightsize
    \* the sink
    cumAck,         \* _cumulative_ack
    \* the network
    data,           \* data packets on their way, oldest first
    answers,        \* ACKs and NACKs on their way, oldest first
    linkPaused,     \* the switch has paused the host
    losses, reorders, pauses,       \* so far
    tailLost        \* a copy of the last packet, or an answer, was dropped

flowVars == <<protocol, flowSize>>
srcVars  == <<started, highest, lastAcked, done, paused, events, spaced, cwnd, flight>>
envVars  == <<linkPaused, losses, reorders, pauses, tailLost>>
vars     == <<flowVars, srcVars, cumAck, data, answers, envVars>>


TypeOK ==
    /\ protocol \in Protocols /\ flowSize \in FlowSizes
    /\ {started, done, paused, spaced, linkPaused, tailLost} \subseteq BOOLEAN
    /\ {highest, lastAcked, cumAck} \subseteq 0..N
    /\ events \in Nat /\ cwnd \in Windows /\ flight \in 0..N
    /\ data \in Seq(1..N)
    /\ answers \in Seq([nack : BOOLEAN, ackno : 0..N])
    /\ losses \in 0..MaxLoss /\ reorders \in 0..MaxReorder /\ pauses \in 0..MaxPauses

Init ==
    /\ protocol \in Protocols /\ flowSize \in FlowSizes
    /\ started = FALSE /\ highest = 0 /\ lastAcked = 0 /\ done = FALSE
    /\ paused = FALSE /\ events = 0 /\ spaced = TRUE
    /\ cwnd \in Windows /\ flight = 0 /\ (protocol = "roce" => cwnd = 1)
    /\ cumAck = 0 /\ data = <<>> /\ answers = <<>>
    /\ linkPaused = FALSE /\ losses = 0 /\ reorders = 0 /\ pauses = 0
    /\ tailLost = FALSE

--------------------------------------------------------------------------------
(* The source *)

StartFlow ==
    /\ ~started
    /\ started' = TRUE /\ events' = events + 1
    /\ UNCHANGED <<flowVars, highest, lastAcked, done, paused, spaced, cwnd, flight,
                   cumAck, data, answers, envVars>>

\* (Mutant.) Stops one packet late if the last packet is full.
AllSentLate == highest * Mss > flowSize

\* doNextEvent has nothing to pace: the flow has been sent.
AllSent == highest * Mss >= flowSize

\* send_packet returns without a packet.
NothingToSend == lastAcked * Mss >= flowSize \/ highest * Mss > flowSize

WindowOpen == protocol = "hpcc" => cwnd >= flight + 1

(* doNextEvent. While the source is paused, or has sent the whole flow, the      *)
(* event is its last; otherwise it schedules the next one, after a packet if one *)
(* is due. An event that finds the spacing not over yet only moves to its end,   *)
(* which changes nothing here.                                                   *)
DoNextEvent ==
    /\ events > 0
    /\ IF paused \/ AllSent
       THEN events' = events - 1 /\ UNCHANGED <<highest, spaced, flight, data>>
       ELSE /\ spaced
            /\ spaced' = FALSE
            /\ UNCHANGED events
            /\ IF NothingToSend \/ ~WindowOpen
               THEN UNCHANGED <<highest, flight, data>>
               ELSE /\ highest' = highest + 1
                    /\ data' = Append(data, highest + 1)
                    /\ flight' = IF protocol = "hpcc" THEN flight + 1 ELSE flight
    /\ UNCHANGED <<flowVars, started, lastAcked, done, paused, cwnd, cumAck, answers,
                   envVars>>

SpacingPasses ==
    /\ ~spaced /\ spaced' = TRUE
    /\ UNCHANGED <<flowVars, started, highest, lastAcked, done, paused, events, cwnd,
                   flight, cumAck, data, answers, envVars>>

\* (Mutant.) A NACK restarts nothing.
RestartsNever(ackno) == FALSE

\* The pacing has stopped, and this NACK must restart it. HPCC asks for more.
Restarts(ackno) ==
    /\ ackno * Mss < flowSize
    /\ IF protocol = "hpcc" THEN highest * Mss > flowSize ELSE AllSent

\* processNack
ProcessNack(ackno) ==
    /\ lastAcked' = ackno
    /\ events' = IF Restarts(ackno) THEN events + 1 ELSE events
    /\ highest' = ackno
    /\ IF protocol = "hpcc" THEN cwnd' = 1 /\ flight' = 0 ELSE UNCHANGED <<cwnd, flight>>
    /\ UNCHANGED done

\* processAck of HPCC asserts that what is acknowledged was in flight.
AckInFlight(ackno) == protocol = "hpcc" /\ ackno > lastAcked => ackno - lastAcked <= flight

\* (Mutant.) A full last packet is not enough.
AckCompletesBeyond(ackno) == ackno * Mss > flowSize

AckCompletes(ackno) == ackno * Mss >= flowSize

FlightAfter(ackno) ==
    IF protocol = "hpcc" /\ ackno > lastAcked THEN flight - (ackno - lastAcked) ELSE flight

\* processAck. If its assertion fails, the program ends here.
ProcessAck(ackno) ==
    /\ AckInFlight(ackno)
    /\ lastAcked' = IF ackno > lastAcked THEN ackno ELSE lastAcked
    /\ flight' = FlightAfter(ackno)
    /\ IF protocol = "hpcc" THEN cwnd' \in Windows ELSE UNCHANGED cwnd
    /\ done' = AckCompletes(ackno)
    /\ UNCHANGED <<highest, events>>

\* The messages of channel ch that may be the next to arrive, and what happens
\* to the count of those that overtook others.
Arrivals(ch) == {i \in DOMAIN ch : i = 1 \/ reorders < MaxReorder}
Overtakes(i) == reorders' = IF i = 1 THEN reorders ELSE reorders + 1

\* receivePacket of an ACK or NACK. A source that is done ignores it.
ReceiveAnswer ==
    /\ \E i \in Arrivals(answers) :
        /\ answers' = RemoveAt(answers, i) /\ Overtakes(i)
        /\ IF done THEN UNCHANGED <<highest, lastAcked, done, events, cwnd, flight>>
           ELSE IF answers[i].nack THEN ProcessNack(answers[i].ackno)
                ELSE ProcessAck(answers[i].ackno)
    /\ UNCHANGED <<flowVars, started, paused, spaced, cumAck, data, linkPaused, losses,
                   pauses, tailLost>>

\* (Mutant.) A RESUME schedules nothing.
ResumeQuietly == UNCHANGED events

\* processPause of a RESUME schedules the source at once, in addition to any
\* event that is still pending.
ResumeWakes == events' = events + 1

\* The source does not listen before it has started nor after it is done.
Listening  == started /\ ~done
PauseHeard == paused \/ Listening

\* The switch pauses or resumes the host, whose queue tells the source.
Pause ==
    /\ ~linkPaused /\ pauses < MaxPauses
    /\ linkPaused' = TRUE /\ pauses' = pauses + 1
    /\ paused' = PauseHeard
    /\ UNCHANGED <<flowVars, started, highest, lastAcked, done, events, spaced, cwnd,
                   flight, cumAck, data, answers, losses, reorders, tailLost>>
Resume ==
    /\ linkPaused /\ linkPaused' = FALSE
    /\ IF Listening
       THEN paused' = FALSE /\ ResumeWakes
       ELSE UNCHANGED <<paused, events>>
    /\ UNCHANGED <<flowVars, started, highest, lastAcked, done, spaced, cwnd, flight,
                   cumAck, data, answers, losses, reorders, pauses, tailLost>>

--------------------------------------------------------------------------------
(* The sink and the network *)

\* (Mutant.) A gap is jumped.
AnswerJumping(p) == [nack |-> FALSE, ackno |-> IF p > cumAck THEN p ELSE cumAck]

\* receivePacket of the sink: what it answers to packet p. A NACK repeats the
\* cumulative acknowledgement; an ACK of an old packet too.
Answer(p) == [nack  |-> p > cumAck + 1,
              ackno |-> IF p = cumAck + 1 THEN p ELSE cumAck]

ReceiveData ==
    /\ \E i \in Arrivals(data) :
        /\ data' = RemoveAt(data, i) /\ Overtakes(i)
        /\ answers' = Append(answers, Answer(data[i]))
        /\ cumAck' = Answer(data[i]).ackno
    /\ UNCHANGED <<flowVars, srcVars, linkPaused, losses, pauses, tailLost>>

\* A queue drops a data packet or an answer.
DropData ==
    /\ losses < MaxLoss
    /\ \E i \in DOMAIN data :
        /\ data' = RemoveAt(data, i)
        /\ tailLost' = (tailLost \/ data[i] = N)
    /\ losses' = losses + 1
    /\ UNCHANGED <<flowVars, srcVars, cumAck, answers, linkPaused, reorders, pauses>>
DropAnswer ==
    /\ losses < MaxLoss
    /\ \E i \in DOMAIN answers : answers' = RemoveAt(answers, i)
    /\ losses' = losses + 1 /\ tailLost' = TRUE
    /\ UNCHANGED <<flowVars, srcVars, cumAck, data, linkPaused, reorders, pauses>>

Next ==
    \/ StartFlow \/ DoNextEvent \/ SpacingPasses \/ ReceiveAnswer \/ Pause \/ Resume
    \/ ReceiveData \/ DropData \/ DropAnswer

Spec == Init /\ [][Next]_vars

(* The event list runs what is pending and lets time pass, messages arrive, and  *)
(* a PAUSE is lifted in the end (property Drained of Pfc).                       *)
FairSpec ==
    /\ Spec
    /\ WF_vars(StartFlow) /\ WF_vars(DoNextEvent) /\ WF_vars(SpacingPasses)
    /\ WF_vars(ReceiveData) /\ WF_vars(ReceiveAnswer) /\ WF_vars(Resume)

--------------------------------------------------------------------------------
\* HPCC's processNack restarts the pacing only if the flow was not a whole number
\* of packets (highest > _flow_size, where doNextEvent has stopped at >=), and it
\* clears _flightsize, so that the assertion of processAck may fail for an ACK
\* under way: nothing is promised of HPCC once a message was lost or overtaken.
Disturbed == losses > 0 \/ reorders > 0
Promised == protocol = "hpcc" => ~Disturbed

\* A source that is not paused and has something to send has an event pending:
\* whatever NACKs, pauses and resumes come between the events of its pacing, it
\* never waits for an event that nobody scheduled.
NeverIdle == Promised /\ started /\ ~paused /\ ~AllSent => events > 0

\* Rewinding, duplicates, overtaking and loss never make the receiver accept a
\* packet twice or out of order, nor the source finish before everything is
\* accepted.
Transfer == INSTANCE ReliableTransfer
                WITH accepted <- 1..cumAck, frontier <- cumAck
ImplementsTransfer == Transfer!Spec

\* Every flow completes, whatever pauses it and whatever is lost or overtaken, as
\* long as neither a copy of its last packet nor an answer is lost.
FlowCompletes == <>(done \/ tailLost \/ ~Promised)

\* In an undisturbed flow the pacing ends with the flow: no event stays behind
\* that would keep the event list going.
PacingStops == <>[](Disturbed \/ (done /\ events = 0))
================================================================================
