---------------------------------- MODULE Pipe ----------------------------------
(* Pipe of sim/pipe.cpp and CallbackPipe of sim/callback_pipe.cpp: the packets  *)
(* in flight stand in a ring buffer that doubles when it fills, and the pipe    *)
(* has itself woken by the event list when the oldest one is due.               *)
(*                                                                              *)
(* doNextEvent hands a packet on while it runs. When the pipe is the one inside *)
(* a switch, the queue the packet is handed to may be full and turn it around   *)
(* into the same switch (back to sender), whose pipe receives it before         *)
(* doNextEvent returns. Whether the next hop does that is fixed with the        *)
(* topology.                                                                    *)
EXTENDS Integers, Sequences

CONSTANTS Delay,          \* _delay
          InitSize,       \* the initial _size, 16 in the code
          Reentrant,      \* the next hops to consider: may one hand a packet back at once
          MaxPackets,     \* bound on the packets that enter
          MaxTime         \* bound on time

ASSUME PipeAssumption ==
    /\ Delay \in Nat \ {0} /\ InitSize \in Nat \ {0, 1}
    /\ Reentrant \subseteq BOOLEAN /\ MaxPackets \in Nat /\ MaxTime \in Nat

VARIABLES
    reentrant,      \* the next hop may hand a packet back at once
    now,            \* the time of the event list
    events,         \* events[t]: wake-ups of this pipe pending at time t
    inflight,       \* _inflight_v
    nextInsert,     \* _next_insert
    nextPop,        \* _next_pop
    count,          \* _count
    size,           \* _size
    entered,        \* packets that have entered
    out             \* packets that have left, in order, with the time each did

vars == <<reentrant, now, events, inflight, nextInsert, nextPop, count, size,
          entered, out>>

Times   == 0..(MaxTime + Delay)
NoEntry == [time |-> 0, pkt |-> 0]      \* a cell of the vector never written

Init ==
    /\ reentrant \in Reentrant
    /\ now = 0
    /\ events = [t \in Times |-> 0]
    /\ inflight = [i \in 0..(InitSize - 1) |-> NoEntry]
    /\ nextInsert = 0 /\ nextPop = 0 /\ count = 0 /\ size = InitSize
    /\ entered = 0 /\ out = <<>>

TypeOK ==
    /\ reentrant \in Reentrant
    /\ now \in 0..MaxTime
    /\ events \in [Times -> Nat]
    /\ inflight \in [0..(size - 1) -> [time : Times, pkt : 0..MaxPackets]]
    /\ nextInsert \in 0..(size - 1) /\ nextPop \in 0..(size - 1)
    /\ count \in 0..(size - 1) /\ size \in Nat
    /\ entered \in 0..MaxPackets
    /\ out \in Seq([pkt : 1..MaxPackets, due : Times, at : Times])

\* The ring as a record, for handlers that change it more than once.
Ring == [ev |-> events, vec |-> inflight, ins |-> nextInsert, pop |-> nextPop,
         cnt |-> count, sz |-> size]

\* sourceIsPending at time t.
Schedule(r, t) == [r EXCEPT !.ev[t] = @ + 1]

\* (Mutants.) The vector never grows; it grows without moving what wraps around.
GrowNever(r) == r
GrowFlat(r) ==
    [r EXCEPT !.vec = [i \in 0..(2 * r.sz - 1) |-> IF i < r.sz THEN r.vec[i] ELSE NoEntry],
              !.sz  = 2 * r.sz]

\* The vector is about to fill: double it, and move what stands before the
\* insertion point behind the rest if the packets in flight wrap around.
Grow(r) ==
    LET wraps == r.ins < r.pop
    IN  [r EXCEPT
          !.vec = [i \in 0..(2 * r.sz - 1) |->
                     IF i < r.sz THEN r.vec[i]
                     ELSE IF wraps /\ i - r.sz < r.ins THEN r.vec[i - r.sz]
                     ELSE NoEntry],
          !.ins = IF wraps THEN r.ins + r.sz ELSE r.ins,
          !.sz  = 2 * r.sz]

\* receivePacket
Receive(r, k) ==
    LET woken   == IF r.cnt = 0 THEN Schedule(r, now + Delay) ELSE r
        counted == [woken EXCEPT !.cnt = @ + 1]
        grown   == IF counted.cnt = counted.sz THEN Grow(counted) ELSE counted
    IN  [grown EXCEPT !.vec[grown.ins] = [time |-> now + Delay, pkt |-> k],
                      !.ins = (grown.ins + 1) % grown.sz]

\* (Mutants.) Asks for a wake-up even when empty; asks for one only when a second
\* packet waits.
RearmAlways(r) == Schedule(r, r.vec[r.pop].time)
RearmLate(r)   == IF r.cnt > 1 THEN Schedule(r, r.vec[r.pop].time) ELSE r

\* doNextEvent after sendOn: ask for the next wake-up.
Rearm(r) == IF r.cnt > 0 THEN Schedule(r, r.vec[r.pop].time) ELSE r

Become(r) ==
    /\ events' = r.ev /\ inflight' = r.vec /\ nextInsert' = r.ins
    /\ nextPop' = r.pop /\ count' = r.cnt /\ size' = r.sz

MayEnter == entered < MaxPackets

\* A packet comes from outside.
ReceivePacket ==
    /\ MayEnter
    /\ Become(Receive(Ring, entered + 1))
    /\ entered' = entered + 1
    /\ UNCHANGED <<reentrant, now, out>>

\* The event list wakes the pipe: the packet at _next_pop goes on to its next
\* hop, which may hand a packet back before doNextEvent asks for a wake-up.
DoNextEvent ==
    /\ events[now] > 0
    /\ LET woken  == [Ring EXCEPT !.ev[now] = @ - 1]
           popped == [woken EXCEPT !.pop = (@ + 1) % size, !.cnt = @ - 1]
           gone   == [pkt |-> inflight[nextPop].pkt, due |-> inflight[nextPop].time,
                      at |-> now]
       IN IF count = 0
          THEN Become(woken) /\ UNCHANGED <<entered, out>>
          ELSE /\ out' = Append(out, gone)
               /\ \/ Become(Rearm(popped)) /\ UNCHANGED entered
                  \/ /\ reentrant /\ MayEnter
                     /\ Become(Rearm(Receive(popped, entered + 1)))
                     /\ entered' = entered + 1
    /\ UNCHANGED <<reentrant, now>>

\* The event list goes on once nothing is pending at this time.
Tick ==
    /\ events[now] = 0 /\ now < MaxTime
    /\ now' = now + 1
    /\ UNCHANGED <<reentrant, events, inflight, nextInsert, nextPop, count, size,
                   entered, out>>

Next == ReceivePacket \/ DoNextEvent \/ Tick

Spec == Init /\ [][Next]_vars

\* The event list runs what is scheduled and time goes on.
FairSpec == Spec /\ WF_vars(DoNextEvent) /\ WF_vars(Tick)

--------------------------------------------------------------------------------
\* The packets in flight, oldest first.
InFlight == [i \in 1..count |-> inflight[(nextPop + i - 1) % size]]

\* Every packet leaves exactly _delay after it entered ("simply delays all
\* incoming packets").
OnTime == \A i \in DOMAIN out : out[i].at = out[i].due

\* While packets are in flight exactly one wake-up is pending, at the time the
\* oldest is due, and an empty pipe has none, as long as nothing comes back from
\* the next hop.
Pending == {t \in Times : events[t] > 0}
OneWakeup ==
    ~reentrant =>
        /\ \A t \in Times : events[t] <= 1
        /\ Pending = IF count = 0 THEN {} ELSE {inflight[nextPop].time}

\* Growing, wrapping and popping never lose, duplicate or reorder a packet, and
\* none leaves early or late: a pipe from whose next hop nothing comes back
\* implements a delay line.
Line == INSTANCE DelayLine
            WITH line <- InFlight,
                 out  <- [i \in DOMAIN out |-> [pkt |-> out[i].pkt, at |-> out[i].at]]
ImplementsDelayLine == Line!Init /\ [][reentrant \/ Line!Next]_Line!vars

\* Whatever the next hop hands back, the pipe never sleeps on a packet for more
\* than _delay, and packets leave in the order they came, none lost or repeated.
EverythingLeaves ==
    \A k \in 1..MaxPackets :
        (entered >= k /\ now + Delay <= MaxTime) ~> (Len(out) >= k /\ out[k].pkt = k)
================================================================================
