--------------------------------- MODULE MCPfc ----------------------------------
(* An instance of Pfc for TLC: hosts h1 and h2 at one switch, whose only output   *)
(* leads to a second switch with host h3 and two receivers. The flows of h1 and   *)
(* h3 meet at d1, so that the second switch pauses the first, and that one its    *)
(* hosts.                                                                         *)
EXTENDS Pfc

TheHosts   == {"h1", "h2", "h3"}
TheOutputs == {"trunk", "d1", "d2"}
TheExits   == {"d1", "d2"}
TheForward ==
    [x \in {"h1", "h2", "h3", "trunk"} |->
        [d \in TheExits |-> IF x \in {"h1", "h2"} THEN "trunk" ELSE d]]
TheLoad ==
    [h \in TheHosts |->
        CASE h = "h1" -> <<<<"d1", "d1", "d1">>, <<"d1">>>>
          [] h = "h2" -> <<<<"d2">>>>
          [] h = "h3" -> <<<<"d1", "d1">>>>]
TheDelay == [x \in {"h1", "h2", "h3", "trunk"} |-> IF x = "trunk" THEN 0 ELSE 1]
TheCross == [x \in {"h1", "h2", "h3", "trunk"} |-> IF x \in {"h1", "h2"} THEN 1 ELSE 0]

\* Host h3 has flows to both receivers.
TwoFlows ==
    [h \in TheHosts |->
        CASE h = "h1" -> <<<<"d1">>>>
          [] h = "h2" -> <<>>
          [] h = "h3" -> <<<<"d1", "d2", "d1", "d1", "d1">>>>]
OneEach == [x \in {"h1", "h2", "h3", "trunk"} |-> 1]
Nobody == {}
================================================================================
