---------------------------- MODULE ReliableTransfer ----------------------------
(* What a flow of the simulator promises: every packet of the flow is accepted  *)
(* by the receiver exactly once, the receiver's cumulative acknowledgement is   *)
(* always the longest prefix it holds, and the sender reports completion once,  *)
(* after the whole flow has been accepted.                                      *)
EXTENDS Naturals

CONSTANT N                      \* packets of the flow

VARIABLES accepted,             \* the packets the receiver holds
          frontier,             \* the receiver's cumulative acknowledgement
          done                  \* the sender has reported completion

vars == <<accepted, frontier, done>>

Packets == 1..N

Init == accepted = {} /\ frontier = 0 /\ done = FALSE

\* The longest prefix of the flow contained in S ends at c.
IsFrontier(S, c) == 1..c \subseteq S /\ c + 1 \notin S

\* The receiver takes a packet it does not hold yet.
Accept(p) ==
    /\ p \notin accepted
    /\ accepted' = accepted \cup {p}
    /\ \E c \in 0..N : IsFrontier(accepted', c) /\ frontier' = c
    /\ UNCHANGED done

\* The sender reports completion.
Finish ==
    /\ ~done /\ frontier = N
    /\ done' = TRUE
    /\ UNCHANGED <<accepted, frontier>>

Next == (\E p \in Packets : Accept(p)) \/ Finish

Spec == Init /\ [][Next]_vars
================================================================================
