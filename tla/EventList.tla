-------------------------------- MODULE EventList --------------------------------
(* EventList of sim/eventlist.cpp: the clock of the simulation, the sources that *)
(* asked to be woken, in the order of their times and, at one time, in the order *)
(* they asked (a multimap), and the triggers to fire before time goes on.        *)
EXTENDS Integers, SequencesExt

CONSTANT EndTime            \* _endtime, 0 for none

ASSUME EndTimeAssumption == EndTime \in Nat

VARIABLES now,              \* _lasteventtime
          pending,          \* _pendingsources: a sequence of [time, src]
          triggers          \* _pending_triggers: a stack, its top last

eventVars == <<now, pending, triggers>>

\* Queue q with src to be woken at time when, behind those to be woken by then.
Insert(q, src, when) ==
    LET before == CHOOSE k \in 0..Len(q) : /\ k > 0 => q[k].time <= when
                                           /\ k < Len(q) => q[k + 1].time > when
    IN  InsertAt(q, before + 1, [time |-> when, src |-> src])

\* (Mutant.) The end is not minded.
SourceIsPendingAlways(q, src, when) == Insert(q, src, when)

\* sourceIsPending: q with src to be woken at time when, unless that is past the end.
SourceIsPending(q, src, when) ==
    IF EndTime = 0 \/ when < EndTime THEN Insert(q, src, when) ELSE q

\* (Mutant.) The trigger asked for first fires, the last one is removed.
NextIsOldest(target) == triggers # <<>> /\ target = triggers[1]

\* doNextEvent with a trigger pending: the one asked for last fires.
NextIsTrigger(target) ==
    /\ triggers # <<>>
    /\ target = triggers[Len(triggers)]

\* doNextEvent without one: the clock moves to the earliest source.
NextIsSource(src) ==
    /\ triggers = <<>> /\ pending # <<>>
    /\ src = Head(pending).src
    /\ now' = Head(pending).time
================================================================================
