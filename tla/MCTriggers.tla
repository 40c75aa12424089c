------------------------------- MODULE MCTriggers --------------------------------
(* Instances of FlowTriggers for TLC. *)
EXTENDS FlowTriggers

Activating(m, t) == {f \in Flows : m.sendDone[f] = t}
Waiting(m, t)    == {f \in Flows : m.trigger[f] = t}

\* Each trigger is activated as often as it needs, by earlier flows only.
WellFormed(m) ==
    /\ \A t \in Trigs :
          LET a == Cardinality(Activating(m, t))
              w == Cardinality(Waiting(m, t))
          IN  /\ a > 0 /\ w > 0
              /\ m.type[t] = "oneshot" => a = 1
              /\ m.type[t] = "multishot" => a >= w
              /\ m.count[t] = IF m.type[t] = "barrier" THEN a ELSE 0
              /\ \A f \in Activating(m, t), g \in Waiting(m, t) : f < g

NoTriggers == [f \in Flows |-> 0]

\* Every well-formed matrix whose triggers are activated by senders.
SendMatrices ==
    {m \in [type : [Trigs -> {"oneshot", "multishot", "barrier"}], count : [Trigs -> 0..3],
            trigger : [Flows -> 0..NTrigs], sendDone : [Flows -> 0..NTrigs],
            recvDone : {NoTriggers}] : WellFormed(m)}

\* Two flows, the second to start when the first has been received.
RecvMatrices ==
    {[type |-> [t \in Trigs |-> "oneshot"], count |-> [t \in Trigs |-> 0],
      trigger |-> <<0, 1>>, sendDone |-> <<0, 0>>, recvDone |-> <<1, 0>>]}
================================================================================
