------------------------------- MODULE FlowTriggers ------------------------------
(* The flows of a connection matrix and the triggers between them: trigger.cpp,  *)
(* the triggers ConnectionMatrix::getTrigger makes, and main_uec_entry_modern,   *)
(* which connects them to the flows, run by the event list. What the transport   *)
(* does between the start of a flow and its completion is one event, some time   *)
(* later.                                                                        *)
EXTENDS EventList, FiniteSets

CONSTANTS NFlows,           \* connections of the matrix
          NTrigs,           \* its triggers
          TriggerStart,     \* TRIGGER_START, the latest time there is
          Durations,        \* how long a flow may take
          Matrices          \* the connection matrices to consider

ASSUME MatrixAssumption ==
    /\ NFlows \in Nat /\ NTrigs \in Nat /\ Durations \subseteq Nat \ {0}
    /\ EndTime # 0 /\ TriggerStart \in Nat /\ TriggerStart >= EndTime

Flows == 1..NFlows
Trigs == 1..NTrigs

(* A matrix: the type of each trigger and its count; for each flow its trigger,  *)
(* send_done_trigger and recv_done_trigger, 0 for none. A flow without a trigger *)
(* starts at time 0.                                                             *)
Matrix == [type : [Trigs -> {"oneshot", "multishot", "barrier"}],
           count : [Trigs -> 0..NFlows], trigger : [Flows -> 0..NTrigs],
           sendDone : [Flows -> 0..NTrigs], recvDone : [Flows -> 0..NTrigs]]

ASSUME MatricesAssumption == Matrices \subseteq Matrix

VARIABLES matrix,           \* the connection matrix loaded
          fired,            \* per trigger: the activations so far, for _done, _next
                            \* (which stops at the last target) or those remaining
          starts,           \* times each flow has been started
          startTime,        \* _flow_start_time
          finishTime        \* when each flow finished, -1 before

vars == <<eventVars, matrix, fired, starts, startTime, finishTime>>

\* The flows a trigger starts, in the order of the matrix; and those that
\* activate it.
TargetsIn(m, t) ==
    LET s[k \in 0..NFlows] ==
            IF k = 0 THEN <<>>
            ELSE IF m.trigger[k] = t THEN Append(s[k - 1], k) ELSE s[k - 1]
    IN  s[NFlows]
Targets(t) == TargetsIn(matrix, t)
Activators(t) == {f \in Flows : matrix.sendDone[f] = t}

TypeOK ==
    /\ matrix \in Matrices
    /\ now \in 0..(EndTime - 1) /\ triggers \in Seq(Flows)
    /\ pending \in Seq([time : 0..(EndTime - 1), src : {"start", "finish"} \X Flows])
    /\ fired \in [Trigs -> 0..NFlows]
    /\ starts \in [Flows -> Nat] /\ startTime \in [Flows -> Nat]
    /\ finishTime \in [Flows -> Nat \cup {-1}]

\* connect, for each flow of matrix m in turn. A triggered flow asks to be woken
\* at TRIGGER_START, past the end of the simulation.
Connected(m) ==
    LET q[k \in 0..NFlows] ==
            IF k = 0 THEN <<>>
            ELSE SourceIsPending(q[k - 1], <<"start", k>>,
                                 IF m.trigger[k] = 0 THEN 0 ELSE TriggerStart)
    IN  q[NFlows]

Init ==
    /\ matrix \in Matrices
    /\ now = 0 /\ pending = Connected(matrix) /\ triggers = <<>>
    /\ fired = [t \in Trigs |-> 0]
    /\ starts = [f \in Flows |-> 0] /\ startTime = [f \in Flows |-> 0]
    /\ finishTime = [f \in Flows |-> -1]

--------------------------------------------------------------------------------
\* startflow at time at, with q left to wake: the flow completes some time later.
StartFlow(f, at, q) ==
    /\ starts' = [starts EXCEPT ![f] = @ + 1]
    /\ startTime' = [startTime EXCEPT ![f] = at]
    /\ \E d \in Durations :
          pending' = SourceIsPending(q, <<"finish", f>>, at + d)

\* (Mutant.) The barrier fires one activation early.
ReleasedEarly(t, n) ==
    CASE matrix.type[t] = "oneshot"   -> Targets(t)
      [] matrix.type[t] = "multishot" -> IF n > Len(Targets(t)) THEN <<>> ELSE <<Targets(t)[n]>>
      [] matrix.type[t] = "barrier"   -> IF n + 1 = matrix.count[t] THEN Targets(t) ELSE <<>>

\* (Mutant.) _next is incremented before it is used.
ReleasedFromSecond(t, n) ==
    CASE matrix.type[t] = "oneshot"   -> Targets(t)
      [] matrix.type[t] = "multishot" -> IF n >= Len(Targets(t)) THEN <<>> ELSE <<Targets(t)[n + 1]>>
      [] matrix.type[t] = "barrier"   -> IF n = matrix.count[t] THEN Targets(t) ELSE <<>>

\* What the n-th activation of trigger t asks the event list to fire: all the
\* targets at once, or one after the other, or all once the barrier is complete.
Released(t, n) ==
    CASE matrix.type[t] = "oneshot"   -> Targets(t)
      [] matrix.type[t] = "multishot" -> IF n > Len(Targets(t)) THEN <<>> ELSE <<Targets(t)[n]>>
      [] matrix.type[t] = "barrier"   -> IF n = matrix.count[t] THEN Targets(t) ELSE <<>>

\* The assertions of activate: a oneshot trigger is activated once, a barrier at
\* most count times, and both have a target. A multishot trigger asserts nothing:
\* trigger.h:58 says that it aborts if activated more than count times, but it
\* returns, as the matrices need (all activates it four times for three flows).
MayActivate(t) ==
    \/ matrix.type[t] = "multishot"
    \/ /\ Targets(t) # <<>>
       /\ fired[t] < (IF matrix.type[t] = "oneshot" THEN 1 ELSE matrix.count[t])

\* The event list fires a trigger: UecSrc::activate.
FireTrigger ==
    /\ \E f \in Flows : NextIsTrigger(f) /\ StartFlow(f, now, pending)
    /\ triggers' = SubSeq(triggers, 1, Len(triggers) - 1)
    /\ UNCHANGED <<now, matrix, fired, finishTime>>

\* The start time of a flow has come: UecSrc::doNextEvent.
WakeFlow ==
    /\ \E f \in Flows : NextIsSource(<<"start", f>>) /\ StartFlow(f, now', Tail(pending))
    /\ UNCHANGED <<triggers, matrix, fired, finishTime>>

\* The last acknowledgement of a flow arrives: processAck activates the
\* end trigger. The receiver's, though set, is activated by nothing.
FinishFlow ==
    /\ \E f \in Flows :
          LET t == matrix.sendDone[f] IN
          /\ NextIsSource(<<"finish", f>>)
          /\ finishTime' = [finishTime EXCEPT ![f] = now']
          /\ \/ t = 0 /\ UNCHANGED <<triggers, fired>>
             \/ /\ t # 0 /\ MayActivate(t)
                /\ fired' = [fired EXCEPT ![t] = @ + 1]
                /\ triggers' = triggers \o Released(t, fired[t] + 1)
    /\ pending' = Tail(pending)
    /\ UNCHANGED <<matrix, starts, startTime>>

Next == FireTrigger \/ WakeFlow \/ FinishFlow

Spec == Init /\ [][Next]_vars

\* main calls doNextEvent until nothing is left.
FairSpec == Spec /\ WF_vars(Next)

--------------------------------------------------------------------------------
\* Flow f has finished.
Finished(f) == finishTime[f] >= 0

\* A flow is started once, by its time or by its trigger.
StartedOnce == \A f \in Flows : starts[f] <= 1

\* "Triggers happen immediately - no time passes": a triggered flow starts at the
\* moment a flow that activates its trigger finishes, and at a barrier at the
\* moment the last of them does.
TriggeredAtOnce ==
    \A f \in Flows : starts[f] > 0 /\ matrix.trigger[f] # 0 =>
        LET before == Activators(matrix.trigger[f]) IN
        /\ \E g \in before : finishTime[g] = startTime[f]
        /\ matrix.type[matrix.trigger[f]] = "barrier" =>
              \A g \in before : Finished(g) /\ finishTime[g] <= startTime[f]

\* A flow that finishes next activates a trigger that takes it: no assertion of a
\* oneshot trigger or a barrier fails, in whatever order the flows finish; and a
\* multishot trigger with no target left, on which it returns and does not abort as
\* its header says, has "activated everyone" (trigger.cpp:37): each flow that waits
\* for it has been started.
ActivationsTaken ==
    \A f \in Flows :
        LET t == matrix.sendDone[f] IN
        triggers = <<>> /\ pending # <<>> /\ Head(pending).src = <<"finish", f>> /\ t # 0 =>
            /\ MayActivate(t)
            /\ matrix.type[t] = "multishot" /\ fired[t] >= Len(Targets(t)) =>
                  \A g \in Flows : matrix.trigger[g] = t => starts[g] = 1

\* Every flow of the matrix runs.
AllFlowsFinish == <>(\A f \in Flows : Finished(f))
================================================================================
