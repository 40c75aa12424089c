----------------------------------- MODULE Pfc -----------------------------------
(* Priority flow control: the queues of hosts (FairPriorityQueue of              *)
(* sim/queue.cpp), the input and output queues of switches                       *)
(* (sim/queue_lossless_input.cpp, sim/queue_lossless_output.cpp) and the links   *)
(* and switch pipes between them. An input queue only counts what is in its      *)
(* switch; when that is too much it has the sender at the other end of its link  *)
(* pause, by calling its receivePacket: a PAUSE does not travel.                 *)
(*                                                                               *)
(* A link is named after its sender, a host or an output queue; the input queue  *)
(* at its other end has the same name. Each packet has the size Mtu; a host      *)
(* serves them in the order of its load, which stands for what FairPullQueue     *)
(* makes of its flows. Delays are counted in ticks; of what is due at the same   *)
(* time anything may come first. ECN and HPCC's telemetry are left out.          *)
EXTENDS Integers, SequencesExt

CONSTANTS Hosts, Outputs,   \* the senders
          Exits,            \* the outputs whose link leads to a host that receives
          Forward,          \* Forward[x][d]: the output queue that the switch at the
                            \* end of link x sends a packet for exit d to
          Load,             \* per host: the bursts it sends, each a sequence of the
                            \* exits its packets go to, one flow for each exit
          Mtu,              \* bytes of a packet
          High, Low,        \* _high_threshold and _low_threshold, in bytes
          TxTime,           \* drainTime of a packet, in ticks
          LinkDelay,        \* per link: delay of its pipe, in ticks
          SwitchDelay,      \* per link: delay of the pipe of the switch at its end
          InitSize,         \* the initial _size of a CircularBuffer, 256 in the code
          Exempt,           \* the hosts whose packets have type UECACK_DROP
          Budgeted,         \* the hosts whose packets outlast any wait: a timeout_budget
          NoPacket, Busy    \* values of _sending: NULL or 0, and 1

Links  == Hosts \cup (Outputs \ Exits)    \* those that end at an input queue
Ports  == Hosts \cup Outputs
Packet == [src : Hosts, seq : Nat, exit : Exits]

ASSUME PfcAssumption ==
    /\ Hosts \cap Outputs = {} /\ Exits \subseteq Outputs
    /\ NoPacket \notin Packet /\ NoPacket # Busy
    /\ Forward \in [Links -> [Exits -> Outputs]]
    /\ Load \in [Hosts -> Seq(Seq(Exits))]
    /\ Mtu \in Nat \ {0} /\ High \in Nat /\ Low \in Nat \ {0} /\ High > Low
    /\ TxTime \in Nat \ {0} /\ LinkDelay \in [Links -> Nat] /\ SwitchDelay \in [Links -> Nat]
    /\ InitSize \in Nat \ {0, 1}
    /\ Exempt \subseteq Hosts /\ Budgeted \subseteq Hosts

\* A host is handed no empty burst.
ASSUME BurstsHavePackets == \A h \in Hosts : \A b \in DOMAIN Load[h] : Load[h][b] # <<>>

\* No packet goes around in circles: from any set of links one leads out of it.
ASSUME RoutesEnd ==
    \A d \in Exits : \A S \in SUBSET Links : S # {} => \E x \in S : Forward[x][d] \notin S

VARIABLES
    sent,           \* per host: the bursts handed to its queue so far
    queue,          \* per port: _queue, or _enqueued, from the head
    size,           \* per port: _queuesize
    send,           \* per port: _state_send
    sending,        \* per port: _sending, of an output NoPacket or Busy
    due,            \* per port: ticks to each completion pending in the event list
    vq,             \* per output: _vq, the input queues its packets came through
    ring,           \* per output: _size and _next_pop of its CircularBuffer, and
                    \* the packet popped last, which stands before _next_pop
    link, cross,    \* per link: what is in its pipe, and in the pipe of the switch at
                    \* its end, with the ticks each packet has left
    bytes,          \* per link: _queuesize of the input queue
    recv,           \* per link: _state_recv of the input queue
    arrived         \* packets that have reached their receiver

portVars  == <<queue, size, send, sending, due, vq, ring>>
inputVars == <<bytes, recv>>
pipeVars  == <<link, cross>>
vars      == <<sent, portVars, pipeVars, inputVars, arrived>>

TypeOK ==
    /\ \A h \in Hosts : sent[h] \in 0..Len(Load[h])
    /\ queue \in [Ports -> Seq(Packet)] /\ size \in [Ports -> Nat]
    /\ send \in [Ports -> {"READY", "PAUSED", "PAUSE_RECEIVED"}]
    /\ \A h \in Hosts : sending[h] \in Packet \cup {NoPacket}
    /\ \A o \in Outputs : sending[o] \in {NoPacket, Busy}
    /\ due \in [Ports -> Seq(0..TxTime)]
    /\ vq \in [Outputs -> Seq(Links)]
    /\ \A x \in Links : \A i \in DOMAIN link[x] : link[x][i].left \in 0..LinkDelay[x]
    /\ \A x \in Links : \A i \in DOMAIN cross[x] : cross[x][i].left \in 0..SwitchDelay[x]
    /\ bytes \in [Links -> Nat] /\ recv \in [Links -> {"READY", "PAUSED"}]
    /\ arrived \subseteq Packet
    \* completeService reads _enqueued._queue[_next_pop + i] without going around
    /\ \A o \in Outputs : ring[o].pop \in {0, 1} /\ ring[o].pop + Len(queue[o]) <= ring[o].size

Init ==
    /\ sent = [h \in Hosts |-> 0]
    /\ queue = [x \in Ports |-> <<>>] /\ size = [x \in Ports |-> 0]
    /\ send = [x \in Ports |-> "READY"]
    /\ sending = [x \in Ports |-> NoPacket]
    /\ due = [x \in Ports |-> <<>>]
    /\ vq = [o \in Outputs |-> <<>>]
    /\ ring = [o \in Outputs |-> [size |-> InitSize, pop |-> 0, last |-> NoPacket]]
    /\ link = [x \in Links |-> <<>>] /\ cross = [x \in Links |-> <<>>]
    /\ bytes = [x \in Links |-> 0] /\ recv = [x \in Links |-> "READY"]
    /\ arrived = {}

--------------------------------------------------------------------------------
(* The sending end of a link. What a handler does to several ports goes through  *)
(* a record of their state.                                                      *)

State == [queue |-> queue, size |-> size, send |-> send, sending |-> sending, due |-> due]

Become(s) ==
    /\ queue' = s.queue /\ size' = s.size /\ send' = s.send
    /\ sending' = s.sending /\ due' = s.due

\* beginService. A host takes the packet out of its queue (its assertion that
\* there is one fails if only the packet in transmission is left, and then a
\* completion is pending for none); an output leaves it at the head.
BeginService(s, x) ==
    LET timed == [s EXCEPT !.due[x] = Append(@, TxTime)]
    IN  IF x \in Outputs THEN [timed EXCEPT !.sending[x] = Busy]
        ELSE IF s.queue[x] = <<>> THEN [timed EXCEPT !.sending[x] = NoPacket]
        ELSE [timed EXCEPT !.sending[x] = Head(s.queue[x]), !.queue[x] = Tail(@)]

\* (Mutants.) The packet in transmission is forgotten; an output begins anew
\* whether or not it is transmitting.
ReceivePauseIdle(s, x) == [s EXCEPT !.send[x] = "PAUSED"]
ReceiveResumeAnew(s, x) ==
    LET ready == [s EXCEPT !.send[x] = "READY"]
    IN  IF s.size[x] > 0 THEN BeginService(ready, x) ELSE ready
ReceiveResumeQuietly(s, x) == [s EXCEPT !.send[x] = "READY"]

\* receivePacket of a PAUSE, and of a RESUME. The count of a host includes the
\* packet in transmission.
ReceivePause(s, x) ==
    LET busy == IF x \in Hosts THEN s.size[x] > 0 ELSE s.sending[x] = Busy
    IN  [s EXCEPT !.send[x] = IF busy THEN "PAUSE_RECEIVED" ELSE "PAUSED"]
ReceiveResume(s, x) ==
    LET ready  == [s EXCEPT !.send[x] = "READY"]
        begins == IF x \in Hosts THEN s.size[x] > 0
                  ELSE s.queue[x] # <<>> /\ s.sending[x] = NoPacket
    IN  IF begins THEN BeginService(ready, x) ELSE ready

\* (Mutants.) A PAUSE that waited is forgotten; a paused port goes on.
ServeOnForgetting(s, x) ==
    LET heard == [s EXCEPT !.send[x] = IF @ = "PAUSE_RECEIVED" THEN "READY" ELSE @]
        more  == IF x \in Hosts THEN s.size[x] > 0 ELSE s.queue[x] # <<>>
    IN  IF more /\ heard.send[x] = "READY" THEN BeginService(heard, x) ELSE heard
ServeOnAnyway(s, x) ==
    LET more == IF x \in Hosts THEN s.size[x] > 0 ELSE s.queue[x] # <<>>
    IN  IF more THEN BeginService(s, x) ELSE s

\* The end of completeService: a PAUSE that waited takes effect, and the next
\* packet is begun if there is one and the port may.
ServeOn(s, x) ==
    LET heard == IF s.send[x] = "PAUSE_RECEIVED" THEN [s EXCEPT !.send[x] = "PAUSED"] ELSE s
        more  == IF x \in Hosts THEN s.size[x] > 0 ELSE s.queue[x] # <<>>
    IN  IF more /\ heard.send[x] = "READY" THEN BeginService(heard, x) ELSE heard

\* A packet that port x has transmitted enters the pipe of its link.
Transmit(x, p) ==
    IF x \in Exits
    THEN arrived' = arrived \cup {p} /\ UNCHANGED link
    ELSE link' = [link EXCEPT ![x] = Append(@, [pkt |-> p, left |-> LinkDelay[x]])]
         /\ UNCHANGED arrived

\* The packets in the first k bursts of host h.
PacketsIn(h, k) == Cardinality(UNION {{b} \X DOMAIN Load[h][b] : b \in 1..k})

\* The packets of the k-th burst of host h, in the order of its queue.
Burst(h, k) ==
    [i \in DOMAIN Load[h][k] |->
        [src |-> h, seq |-> PacketsIn(h, k - 1) + i, exit |-> Load[h][k][i]]]

\* The flows of host h hand its queue a burst of packets, one after the other.
HostSends(h) ==
    /\ sent[h] < Len(Load[h])
    /\ sent' = [sent EXCEPT ![h] = @ + 1]
    /\ LET burst == Burst(h, sent[h] + 1)
           held  == [State EXCEPT !.queue[h] = @ \o burst, !.size[h] = @ + Mtu * Len(burst)]
       IN  Become(IF size[h] = 0 /\ send[h] = "READY" THEN BeginService(held, h) ELSE held)
    /\ UNCHANGED <<vq, ring, pipeVars, inputVars, arrived>>

\* completeService of a host. One that is paused by now does nothing, and one
\* that has nothing in transmission only looks for more.
HostCompletes(h) ==
    /\ due[h] # <<>> /\ Head(due[h]) = 0
    /\ LET woken == [State EXCEPT !.due[h] = Tail(@)]
       IN  IF send[h] = "PAUSED" THEN Become(woken) /\ UNCHANGED <<link, arrived>>
           ELSE IF sending[h] = NoPacket
           THEN Become(ServeOn(woken, h)) /\ UNCHANGED <<link, arrived>>
           ELSE /\ Become(ServeOn([woken EXCEPT !.size[h] = @ - Mtu,
                                                !.sending[h] = NoPacket], h))
                /\ Transmit(h, sending[h])
    /\ UNCHANGED <<sent, vq, ring, cross, inputVars>>

--------------------------------------------------------------------------------
(* The switch *)

\* A packet leaves the pipe of link x and is counted by the input queue, which
\* may have the sender pause; then it enters the pipe of the switch.
ReachesInput(x) ==
    /\ link[x] # <<>> /\ Head(link[x]).left = 0
    /\ link' = [link EXCEPT ![x] = Tail(@)]
    /\ cross' = [cross EXCEPT ![x] = Append(@, [pkt  |-> Head(link[x]).pkt,
                                                left |-> SwitchDelay[x]])]
    /\ bytes' = [bytes EXCEPT ![x] = @ + Mtu]
    /\ IF bytes[x] + Mtu > High /\ recv[x] # "PAUSED"
       THEN recv' = [recv EXCEPT ![x] = "PAUSED"] /\ Become(ReceivePause(State, x))
       ELSE UNCHANGED <<recv, queue, size, send, sending, due>>
    /\ UNCHANGED <<sent, vq, ring, arrived>>

\* (Mutant.) The buffer of an output grows only once it is full.
PushedLate(r, count) == IF count = r.size THEN [r EXCEPT !.size = 2 * @] ELSE r

\* push of the CircularBuffer, when it holds count packets.
Pushed(r, count) == IF count + 1 = r.size THEN [r EXCEPT !.size = 2 * @] ELSE r

\* A packet leaves the pipe of the switch and is queued at its output.
ReachesOutput(x) ==
    /\ cross[x] # <<>> /\ Head(cross[x]).left = 0
    /\ cross' = [cross EXCEPT ![x] = Tail(@)]
    /\ LET p    == Head(cross[x]).pkt
           o    == Forward[x][p.exit]
           held == [State EXCEPT !.queue[o] = Append(@, p), !.size[o] = @ + Mtu]
       IN  /\ vq' = [vq EXCEPT ![o] = Append(@, x)]
           /\ ring' = [ring EXCEPT ![o] = Pushed(@, Len(queue[o]))]
           /\ Become(IF queue[o] = <<>> /\ send[o] = "READY" THEN BeginService(held, o)
                     ELSE held)
    /\ UNCHANGED <<sent, link, inputVars, arrived>>

\* Slot k of the buffer of output o.
Slot(o, k) == IF ring[o].pop = 0 THEN queue[o][k + 1]
              ELSE IF k = 0 THEN ring[o].last ELSE queue[o][k]

(* What completeService keeps of the queue: it drops the packets whose budget is *)
(* used up. Whether the type of a packet exempts it is asked of the slot that it *)
(* would move to, which holds another one.                                       *)
Kept(o) ==
    LET kept[n \in 0..Len(queue[o])] ==    \* of the first n packets
            IF n = 0 THEN <<>>
            ELSE LET before == kept[n - 1]
                     p      == queue[o][n]
                 IN  IF p.src \in Budgeted \/ Slot(o, Len(before)).src \in Exempt
                     THEN Append(before, p) ELSE before
    IN  kept[Len(queue[o])]

\* (Mutant.) The packet that leaves is credited to the input of the newest one.
CreditedNewest(o) == vq[o][Len(vq[o])]

\* The input queue told of a departure from output o: that of the oldest entry.
Credited(o) == Head(vq[o])

\* completedService of input queue x, and what it does to the sender of its link.
CompletedService(x, s) ==
    /\ bytes' = [bytes EXCEPT ![x] = @ - Mtu]
    /\ IF bytes[x] - Mtu < Low /\ recv[x] = "PAUSED"
       THEN recv' = [recv EXCEPT ![x] = "READY"] /\ Become(ReceiveResume(s, x))
       ELSE UNCHANGED recv /\ Become(s)

\* completeService of an output. If nothing is left it stops as it is, without
\* a word to the input queues of what it dropped.
OutputCompletes(o) ==
    /\ due[o] # <<>> /\ Head(due[o]) = 0
    /\ LET kept  == Kept(o)
           swept == [State EXCEPT !.due[o] = Tail(@), !.sending[o] = NoPacket, !.queue[o] = kept,
                                  !.size[o] = Mtu * Len(kept)]
           left  == [swept EXCEPT !.queue[o] = Tail(kept), !.size[o] = @ - Mtu]
       IN  IF kept = <<>>
           THEN /\ Become(swept)
                /\ ring' = [ring EXCEPT ![o].pop = 0, ![o].last = NoPacket]
                /\ UNCHANGED <<vq, inputVars, link, arrived>>
           ELSE /\ CompletedService(Credited(o), ServeOn(left, o))
                /\ vq' = [vq EXCEPT ![o] = Tail(@)]
                /\ ring' = [ring EXCEPT ![o].pop = 1, ![o].last = Head(kept)]
                /\ Transmit(o, Head(kept))
    /\ UNCHANGED <<sent, cross>>

--------------------------------------------------------------------------------
\* Something is due, and must happen before time passes.
DueNow ==
    \/ \E x \in Ports : due[x] # <<>> /\ Head(due[x]) = 0
    \/ \E x \in Links : \/ link[x] # <<>> /\ Head(link[x]).left = 0
                        \/ cross[x] # <<>> /\ Head(cross[x]).left = 0

Aged(s) == [i \in DOMAIN s |-> [s[i] EXCEPT !.left = @ - 1]]

Tick ==
    /\ ~DueNow
    /\ due' = [x \in Ports |-> [i \in DOMAIN due[x] |-> due[x][i] - 1]]
    /\ link' = [x \in Links |-> Aged(link[x])]
    /\ cross' = [x \in Links |-> Aged(cross[x])]
    /\ UNCHANGED <<sent, queue, size, send, sending, vq, ring, inputVars, arrived>>

Happens ==
    \/ \E h \in Hosts : HostCompletes(h)
    \/ \E x \in Links : ReachesInput(x) \/ ReachesOutput(x)
    \/ \E o \in Outputs : OutputCompletes(o)

Next == (\E h \in Hosts : HostSends(h)) \/ Happens \/ Tick

Spec == Init /\ [][Next]_vars

\* The event list runs whatever is due, and time passes.
FairSpec == Spec /\ WF_vars(Happens) /\ WF_vars(Tick)

--------------------------------------------------------------------------------
\* A port is paused while, and only while, the input queue at the end of its link
\* says so, and an input queue says so only while enough is in its switch for a
\* departure to lift the pause.
PauseAgreed ==
    \A x \in Links : /\ recv[x] = "PAUSED" <=> send[x] # "READY"
                     /\ recv[x] = "PAUSED" => bytes[x] >= Low

\* The ports that a packet for exit d passes from port x on: the least set that has x
\* and what its links lead to.
Route ==
    [d \in Exits |-> [x \in Ports |->
        {y \in Ports :
            \A S \in SUBSET Ports :
                x \in S /\ (\A z \in S \cap Links : Forward[z][d] \in S) => y \in S}]]

\* An input queue counts exactly the bytes that came through it and are still in
\* the switch, whatever output they wait for: every departure is credited to the
\* input its packet came by.
InputBytesExact ==
    \A x \in Links :
        LET waiting == UNION {{o} \X {i \in DOMAIN queue[o] :
                                LET p == queue[o][i]
                                IN  x \in Route[p.exit][p.src] /\ Forward[x][p.exit] = o} :
                              o \in Outputs}
        IN  bytes[x] = Mtu * (Len(cross[x]) + Cardinality(waiting))

\* After a PAUSE an input queue receives at most what is in the pipe of its link
\* and the packet in transmission: a buffer of that much and a packet beyond
\* _high_threshold never overflows.
HeadroomSuffices ==
    \A x \in Links :
        bytes[x] <= High + Mtu * (2 + LinkDelay[x] \div TxTime)

\* Each port has one completion pending while it transmits and none otherwise, and
\* completeService finds a packet: no PAUSE or RESUME, whenever it comes, makes a
\* port transmit twice at a time or stop with its packet in hand.
OneServiceAtATime ==
    /\ \A x \in Ports : Len(due[x]) = IF sending[x] = NoPacket THEN 0 ELSE 1
    /\ \A o \in Outputs : sending[o] = Busy => queue[o] # <<>>
    /\ \A x \in Ports : send[x] = "PAUSED" => due[x] = <<>>

\* The packets that are somewhere.
Somewhere ==
    LET In(pipe) == UNION {{pipe[x][i].pkt : i \in DOMAIN pipe[x]} : x \in Links}
    IN  (UNION {ToSet(queue[x]) : x \in Ports}) \cup ({sending[h] : h \in Hosts} \ {NoPacket})
        \cup In(link) \cup In(cross) \cup arrived

\* The packets that the hosts have handed their queues.
Handed == UNION {UNION {ToSet(Burst(h, k)) : k \in 1..sent[h]} : h \in Hosts}

\* The packets of one flow arrive in the order they were sent.
InOrder ==
    \A p \in Somewhere \ arrived, q \in arrived :
        p.src = q.src /\ p.exit = q.exit => p.seq > q.seq

\* "A FIFO queue that supports PAUSE frames and lossless operation": every packet
\* a host has sent is somewhere, and those of one flow arrive in the order they
\* were sent.
NothingLost == Somewhere = Handed /\ InOrder

\* Every packet arrives and every pause is lifted, however the inputs pause their
\* outputs and the outputs fill the inputs behind them.
Drained == []<>(Somewhere = arrived /\ \A x \in Links : recv[x] = "READY")
================================================================================
