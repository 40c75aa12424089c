------------------------------- MODULE DelayLine --------------------------------
(* "A pipe is a dumb device which simply delays all incoming packets": packets  *)
(* leave in the order they came, each exactly Delay after it came.              *)
EXTENDS Integers, Sequences

CONSTANTS Delay, MaxPackets

VARIABLES now,          \* the current time
          line,         \* the packets in the pipe, with the time each is due
          out           \* the packets that have left, with the time each did

vars == <<now, line, out>>

Init == now = 0 /\ line = <<>> /\ out = <<>>

\* Packet k comes.
Enter(k) ==
    /\ k = Len(line) + Len(out) + 1
    /\ line' = Append(line, [pkt |-> k, time |-> now + Delay])
    /\ UNCHANGED <<now, out>>

\* The packet at the head leaves at its time; another may come at that moment.
Leave ==
    /\ line # <<>> /\ Head(line).time = now
    /\ out' = Append(out, [pkt |-> Head(line).pkt, at |-> now])
    /\ UNCHANGED now
    /\ \/ line' = Tail(line)
       \/ line' = Append(Tail(line), [pkt  |-> Len(line) + Len(out) + 1,
                                      time |-> now + Delay])

\* Time passes while no packet is due.
Tick ==
    /\ now' = now + 1
    /\ line # <<>> => Head(line).time > now
    /\ UNCHANGED <<line, out>>

Next == (\E k \in 1..MaxPackets : Enter(k)) \/ Leave \/ Tick

Spec == Init /\ [][Next]_vars
================================================================================
