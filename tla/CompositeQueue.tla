------------------------------ MODULE CompositeQueue ------------------------------
(* CompositeQueue of sim/compositequeue.cpp, the queue of every switch port in a *)
(* UEC run: data packets in a low-priority queue of _maxsize bytes, headers in a *)
(* high-priority one, served in a weighted round; a data packet that does not    *)
(* fit is trimmed, turned around to its sender or dropped. With it runs the      *)
(* phantom queue, a counter filled by traffic and drained by a periodic event of *)
(* its own, from which packets are marked.                                       *)
(*                                                                               *)
(* Both events are wake-ups of the same source, and doNextEvent tells them apart *)
(* by the time alone. Sizes are in units of a header; a unit takes a time unit   *)
(* to send. Times are relative to now. Marking is random between two             *)
(* thresholds: here, a choice. failed_link, which nothing sets, is left out.     *)
EXTENDS Integers, Sequences, FiniteSets

CONSTANTS PktSize,        \* a data packet
          MaxSize,        \* _maxsize
          HeaderLimit,    \* bound of the high-priority queue: 2000 * _maxsize
          RatioHigh,      \* _ratio_high: 20
          RatioLow,       \* _ratio_low: 1
          PhantomSize,    \* _phantom_queue_size
          KMin, KMax,     \* the marking thresholds, on the phantom or the low queue
          DrainTime,      \* _draining_time_phantom
          Budget,         \* timeout_budget of a packet, 0 unless its source sets it
          Configs,        \* the settings of the static flags to consider
          MaxPackets      \* bound on the packets that arrive

\* What a full low-priority queue does; and the flags _use_phantom,
\* _phantom_in_series and _use_mixed.
AllConfigs == [full : {"trim", "bts", "drop"}, phantom : BOOLEAN, series : BOOLEAN,
               mixed : BOOLEAN]

ASSUME SizeAssumption ==
    /\ PktSize \in Nat \ {0} /\ MaxSize \in Nat /\ HeaderLimit \in Nat
    /\ RatioHigh \in Nat \ {0} /\ RatioLow \in Nat \ {0}
    /\ PhantomSize \in Nat /\ KMin \in Nat /\ KMax \in Nat
    /\ DrainTime \in Nat \ {0} /\ Budget \in Nat
    /\ Configs \subseteq AllConfigs /\ MaxPackets \in Nat

VARIABLES
    config,        \* the static flags of this run
    events,        \* events[t]: wake-ups of this queue pending in t time units
    serv,          \* _serv: the queue being served
    crt,           \* _crt: the position in the round
    low, high,     \* _enqueued_low and _enqueued_high, next to leave first
    qlow, qhigh,   \* _queuesize_low, _queuesize_high
    phantom,       \* _current_queuesize_phatom
    phantomNext,   \* _decrease_phantom_next, -1 once it is past
    firstTime,     \* first_time: the phantom queue does not drain yet
    arrived,       \* packets that have arrived
    gone,          \* packets that have left, or were dropped or turned around
    how,           \* and how the last of them did
    streak         \* history: the class of the last services begun while both
                   \* queues held a packet, and how many

vars == <<config, events, serv, crt, low, high, qlow, qhigh, phantom,
          phantomNext, firstTime, arrived, gone, how, streak>>
queues == <<serv, crt, low, high, qlow, qhigh, streak>>
left   == <<gone, how>>

Times  == 0..(PktSize + DrainTime)
Kinds  == {"data", "trim", "nack", "ack"}
\* age: the time since enter_timestamp, counted up to the budget.
Packet == [id : 1..MaxPackets, kind : Kinds, age : 0..Budget]
Fates  == {"sent", "marked", "turned", "dropped", "bounced"}

TypeOK ==
    /\ config \in Configs /\ events \in [Times -> Nat]
    /\ serv \in {"none", "low", "high"} /\ crt \in 0..(RatioHigh + RatioLow - 1)
    /\ low \in Seq(Packet) /\ high \in Seq(Packet)
    /\ qlow \in 0..MaxSize /\ qhigh \in 0..HeaderLimit
    /\ phantom \in 0..PhantomSize /\ phantomNext \in -1..DrainTime
    /\ firstTime \in BOOLEAN /\ arrived \in 0..MaxPackets
    /\ gone \subseteq 1..arrived /\ how \in Fates \cup {"none"}
    /\ streak \in [of : {"none", "low", "high"}, n : Nat]

Init ==
    /\ config \in Configs
    /\ events = [t \in Times |-> 0]
    /\ serv = "none" /\ crt = 0
    /\ low = <<>> /\ high = <<>> /\ qlow = 0 /\ qhigh = 0
    /\ phantom = 0 /\ phantomNext = 0 /\ firstTime = TRUE
    /\ arrived = 0 /\ gone = {} /\ how = "none"
    /\ streak = [of |-> "none", n |-> 0]

Size(p) == IF p.kind = "data" THEN PktSize ELSE 1

\* (Mutant.) The phantom queue grows past its size.
FillOver(x, n) == x + n

\* Adding to the phantom queue stops at its size.
Fill(x, n) == IF x + n > PhantomSize THEN PhantomSize ELSE x + n
Drained(x) == IF x < PktSize THEN 0 ELSE x - PktSize

Wake(ev, t) == [ev EXCEPT ![t] = @ + 1]

\* The packets of S are gone, the last of them as f says.
Leave(S, f) == gone' = gone \cup S /\ how' = f

\* decide_ECN, on the level the flags choose. With _use_both_queues the level is
\* still the phantom's: the real queue counts only between the thresholds.
Marks(lowBytes, phantomBytes) ==
    LET level == IF config.phantom THEN phantomBytes ELSE lowBytes
    IN  IF level > KMax THEN {TRUE} ELSE IF level > KMin THEN BOOLEAN ELSE {FALSE}

\* (Mutant.) The round is one too long.
RoundLong == (crt + 1) % (RatioHigh + RatioLow + 1)

\* The next position in the round.
Round == (crt + 1) % (RatioHigh + RatioLow)

\* beginService with queues lo and hi, at least one of them not empty: the class
\* served next. While both wait, RatioHigh headers go for RatioLow packets.
BeginService(ev, lo, hi) ==
    LET both  == lo # <<>> /\ hi # <<>>
        class == IF both THEN IF Round < RatioHigh THEN "high" ELSE "low"
                 ELSE IF hi # <<>> THEN "high" ELSE "low"
        first == IF class = "high" THEN Head(hi) ELSE Head(lo)
    IN  /\ serv' = class
        /\ crt' = IF both THEN Round ELSE crt
        /\ events' = Wake(ev, Size(first))
        /\ streak' = IF ~both THEN [of |-> "none", n |-> 0]
                     ELSE [of |-> class, n |-> IF streak.of = class THEN streak.n + 1 ELSE 1]

\* (Mutant.) Service begins whether or not it is under way.
EnqueuedAlways(lo, hi) == BeginService(events, lo, hi)

\* The packet is in; an idle queue starts to serve it.
Enqueued(lo, hi) ==
    IF serv = "none" THEN BeginService(events, lo, hi)
    ELSE UNCHANGED <<serv, crt, events, streak>>

--------------------------------------------------------------------------------
\* receivePacket for a data packet that fits.
Accept(p) ==
    /\ p.kind = "data" /\ qlow + PktSize <= MaxSize
    /\ low' = Append(low, p) /\ qlow' = qlow + PktSize
    /\ phantom' = IF config.series THEN phantom ELSE Fill(phantom, PktSize)
    /\ Enqueued(low', high)
    /\ UNCHANGED <<high, qhigh, left>>

\* (Mutant.) The packet turned around is trimmed and forwarded as well.
RefuseAndForward(p) ==
    /\ p.kind = "data" /\ qlow + PktSize > MaxSize /\ config.full # "trim"
    /\ phantom' = IF config.series THEN phantom ELSE Fill(phantom, PktSize)
    /\ Leave({p.id}, "turned")
    /\ high' = Append(high, p) /\ qhigh' = qhigh + 1
    /\ Enqueued(low, high')
    /\ UNCHANGED <<low, qlow>>

\* A data packet that does not fit is turned around or dropped, by the flags.
Refuse(p) ==
    /\ p.kind = "data" /\ qlow + PktSize > MaxSize
    /\ phantom' = IF config.series THEN phantom ELSE Fill(phantom, PktSize)
    /\ \/ config.full = "bts"  /\ Leave({p.id}, "turned")
       \/ config.full = "drop" /\ Leave({p.id}, "dropped")
    /\ UNCHANGED <<queues, events>>

\* A header goes to the high-priority queue. When that is full it bounces, if it
\* knows a way back, or is dropped.
EnqueueHeader(p) ==
    IF qhigh + 1 > HeaderLimit
    THEN /\ \E f \in {"bounced", "dropped"} : Leave({p.id}, f)
         /\ UNCHANGED <<queues, events>>
    ELSE /\ high' = Append(high, p) /\ qhigh' = qhigh + 1
         /\ Enqueued(low, high')
         /\ UNCHANGED <<low, qlow, left>>

\* A data packet that does not fit is trimmed to its header.
Trim(p) ==
    /\ p.kind = "data" /\ qlow + PktSize > MaxSize /\ config.full = "trim"
    /\ phantom' = IF config.series THEN phantom ELSE Fill(phantom, PktSize)
    /\ EnqueueHeader([p EXCEPT !.kind = "trim"])

AcceptHeader(p) ==
    /\ p.kind # "data"
    /\ EnqueueHeader(p)
    /\ UNCHANGED phantom

ReceivePacket ==
    /\ arrived < MaxPackets
    /\ arrived' = arrived + 1
    /\ \E k \in Kinds :
          LET p == [id |-> arrived + 1, kind |-> k, age |-> 0]
          IN  Accept(p) \/ Refuse(p) \/ Trim(p) \/ AcceptHeader(p)
    /\ UNCHANGED <<config, phantomNext, firstTime>>

--------------------------------------------------------------------------------
\* With _use_mixed, serving a data packet first drops those that have waited in
\* the queue longer than their budget.
InTime(p) == p.age < Budget
ToServe   == IF config.mixed THEN SelectSeq(low, InTime) ELSE low
Expired   == IF config.mixed THEN {i \in DOMAIN low : ~InTime(low[i])} ELSE {}

\* The end of completeService: serve on, from events ev, and with the first
\* packet served start to drain a phantom queue of size x.
ServeOn(ev, lo, hi, x) ==
    LET start == config.phantom /\ firstTime
        ev1   == IF start THEN Wake(ev, DrainTime) ELSE ev
    IN  /\ IF lo # <<>> \/ hi # <<>> THEN BeginService(ev1, lo, hi)
           ELSE /\ serv' = "none" /\ events' = ev1
                /\ streak' = [of |-> "none", n |-> 0]
                /\ UNCHANGED crt
        /\ phantom' = IF start THEN Drained(x) ELSE x
        /\ phantomNext' = IF start THEN DrainTime ELSE phantomNext
        /\ firstTime' = (firstTime /\ ~start)

\* The wake-up that doNextEvent answers is taken.
Woken == [events EXCEPT ![0] = @ - 1]

\* completeService for a data packet.
CompleteLow ==
    /\ serv = "low" /\ ToServe # <<>>
    /\ LET p == Head(ToServe)
           x == IF config.series THEN Fill(phantom, PktSize) ELSE phantom
       IN /\ low' = Tail(ToServe)
          /\ qlow' = qlow - PktSize * (1 + Cardinality(Expired))
          /\ \E m \in Marks(qlow', x) :
                Leave({p.id} \cup {low[i].id : i \in Expired}, IF m THEN "marked" ELSE "sent")
          /\ ServeOn(Woken, low', high, x)
    /\ UNCHANGED <<high, qhigh>>

\* completeService for a header: that of a trimmed packet, or a NACK, counts in
\* a phantom queue in series as the whole packet; an ACK may be marked.
CompleteHigh ==
    /\ serv = "high" /\ high # <<>>
    /\ LET p == Head(high)
           x == IF config.series /\ p.kind \in {"trim", "nack"}
                THEN Fill(phantom, PktSize) ELSE phantom
       IN /\ high' = Tail(high) /\ qhigh' = qhigh - 1
          /\ \E m \in IF p.kind = "ack" THEN Marks(qlow, x) ELSE {FALSE} :
                Leave({p.id}, IF m THEN "marked" ELSE "sent")
          /\ ServeOn(Woken, low, high', x)
    /\ UNCHANGED <<low, qlow>>

\* (Mutant.) No wake-up is taken for a drain.
DrainNever == FALSE

\* doNextEvent takes any wake-up at the time of the next drain for that drain.
DrainDue == config.phantom /\ phantomNext = 0

CompleteService ==
    /\ events[0] > 0 /\ ~DrainDue
    /\ CompleteLow \/ CompleteHigh
    /\ UNCHANGED <<config, arrived>>

DecreasePhantom ==
    /\ events[0] > 0 /\ DrainDue
    /\ phantom' = Drained(phantom)
    /\ phantomNext' = DrainTime
    /\ events' = Wake(Woken, DrainTime)
    /\ UNCHANGED <<config, queues, firstTime, arrived, left>>

\* The event list goes on once nothing is pending at this time.
Tick ==
    /\ events[0] = 0
    /\ events' = [t \in Times |-> IF t + 1 \in Times THEN events[t + 1] ELSE 0]
    /\ phantomNext' = IF phantomNext >= 0 THEN phantomNext - 1 ELSE -1
    /\ low' = [i \in DOMAIN low |->
                 [low[i] EXCEPT !.age = IF @ < Budget THEN @ + 1 ELSE @]]
    /\ UNCHANGED <<config, serv, crt, high, qlow, qhigh, phantom, firstTime,
                   arrived, left, streak>>

Next == ReceivePacket \/ CompleteService \/ DecreasePhantom \/ Tick

Spec == Init /\ [][Next]_vars

--------------------------------------------------------------------------------
\* The assertions of completeService: a completion finds a packet to send.
ServiceFindsPacket ==
    events[0] > 0 /\ ~DrainDue =>
        \/ serv = "low" /\ ToServe # <<>>
        \/ serv = "high" /\ high # <<>>

\* One completion is pending exactly while a packet waits, beside the drain of
\* the phantom queue: telling the two apart by time alone neither loses a
\* completion, which would stop the port for ever, nor completes one twice.
OneCompletionPending ==
    LET drain(t)   == IF ~firstTime /\ t = phantomNext THEN 1 ELSE 0
        service(t) == events[t] - drain(t)
    IN  /\ (serv # "none") <=> (low # <<>> \/ high # <<>>)
        /\ \A t \in Times : service(t) \in {0, 1}
        /\ Cardinality({t \in Times : service(t) = 1}) = IF serv = "none" THEN 0 ELSE 1

\* The byte counts are the bytes queued.
BytesExact == qlow = PktSize * Len(low) /\ qhigh = Len(high)

Waiting == {low[i].id : i \in DOMAIN low} \cup {high[i].id : i \in DOMAIN high}
EveryPacketOnce ==
    /\ Waiting \cap gone = {} /\ Waiting \cup gone = 1..arrived
    /\ Cardinality(Waiting) = Len(low) + Len(high)

\* Every packet that came is queued once, or gone once, and counted with its bytes
\* while it is queued, whatever was trimmed, turned around, dropped or expired.
AccountsExact == EveryPacketOnce /\ BytesExact

\* While both queues wait, neither is served more than its share in a row:
\* headers cannot starve data, nor data headers.
FairShare ==
    /\ streak.of = "high" => streak.n <= RatioHigh
    /\ streak.of = "low"  => streak.n <= RatioLow
================================================================================
