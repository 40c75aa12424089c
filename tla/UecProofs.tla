------------------------------- MODULE UecProofs --------------------------------
(* Proofs about UecTransport, for every length of the flow, packet size, set of *)
(* windows and number of losses: what the sender and the receiver know of each  *)
(* packet; then that the counters of the sender are exact, that what it sends   *)
(* fits its window, and that it never waits for nothing.                        *)
EXTENDS UecInvariants, FiniteSetTheorems, TLAPS

USE FlowAssumption, WindowAssumption DEF Packets

-----------------------------------------------------------------------------
(* The operators of the sender *)

\* A set of packets is finite: its cardinality is a number.
LEMMA PacketSetsCount ==
    ASSUME NEW S \in SUBSET Packets
    PROVE  Cardinality(S) \in Nat
<1>1. IsFiniteSet(1..N)
  BY FS_Interval
<1>2. IsFiniteSet(S)
  BY <1>1, FS_Subset
<1> QED
  BY <1>2, FS_CardinalityType

\* get_unacked is a number of bytes.
LEMMA GetUnackedType ==
    ASSUME NEW st \in [Packets -> Status]
    PROVE  GetUnacked(st) \in Nat
<1>1. With(st, "out") \in SUBSET Packets
  BY DEF With
<1>2. Cardinality(With(st, "out")) \in Nat
  BY <1>1, PacketSetsCount
<1> QED
  BY <1>2 DEF GetUnacked

\* mark_received leaves every entry a status.
LEMMA MarkReceivedType ==
    ASSUME NEW st \in [Packets -> Status], NEW a \in Ack
    PROVE  MarkReceived(st, a) \in [Packets -> Status]
<1>1. \A gone : EraseFront(st, gone) \in [Packets -> Status]
  BY DEF EraseFront, Status
<1>2. [st EXCEPT ![a.pkt] = "acked"] \in [Packets -> Status]
  BY DEF Status, Ack
<1> QED
  BY <1>1, <1>2 DEF MarkReceived

\* The copies of data packets on the wire once those of sending are put on it.
OnWire(sending) == [p \in Packets |-> data[p] + (IF p \in sending THEN 1 ELSE 0)]

\* The packets of S leave: entries st become sent' and copies d become data'.
\* They are nacked packets and all the new ones up to the new _highest_sent.
Leave(st, d, h, S) ==
    /\ sent' = Launch(st, S)
    /\ \A p \in S : st[p] = "nacked" \/ (p > h /\ p <= highest')
    /\ \A p \in Packets : p > h /\ p <= highest' => p \in S
    /\ data' = [p \in Packets |-> d[p] + (IF p \in S THEN 1 ELSE 0)]

\* What send_packets does: it launches a set S of packets, the nacked ones
\* among them and all the new ones up to the new _highest_sent.
LEMMA SendPacketsEffect ==
    ASSUME NEW st \in [Packets -> Status], NEW w, NEW rtx \in BOOLEAN,
           NEW h \in 0..N, NEW sending \in SUBSET Packets,
           NEW base \in Nat, NEW nk \in Int, data \in [Packets -> Nat],
           SendPackets(st, w, rtx, h, sending, base, nk)
    PROVE  /\ highest' \in h..N
           /\ rtxPending' \in BOOLEAN /\ nackRtx' \in Int /\ unacked' \in Nat
           /\ \E S \in SUBSET Packets : Leave(st, OnWire(sending), h, S)
<1> DEFINE again == IF rtx THEN Resent(st, w) ELSE {}
           st1   == Launch(st, again)
           fresh == Fresh(st1, w, h)
<1>1. again \in SUBSET Packets /\ \A p \in again : st[p] = "nacked"
  BY DEF Resent, With
<1>2. fresh \in SUBSET Packets
  BY DEF Fresh
<1>3. /\ sent' = Launch(st1, fresh)
      /\ \E k \in h..N : fresh = (h + 1)..k /\ highest' = k
      /\ rtxPending' = (rtx /\ With(st1, "nacked") # {})
      /\ nackRtx' = nk - Cardinality(again)
      /\ unacked' = base + Mss * Cardinality(again \cup fresh)
      /\ data' = [p \in Packets |->
                     data[p] + (IF p \in sending THEN 1 ELSE 0)
                             + (IF p \in again \cup fresh THEN 1 ELSE 0)]
  BY DEF SendPackets
<1> HIDE DEF again, fresh, st1
<1>4. highest' \in h..N /\ fresh = (h + 1)..highest'
  BY <1>3
<1>5. Cardinality(again) \in Nat /\ Cardinality(again \cup fresh) \in Nat
  BY <1>1, <1>2, PacketSetsCount
<1>6. rtxPending' \in BOOLEAN /\ nackRtx' \in Int /\ unacked' \in Nat
  BY <1>3, <1>5, SMTT(60)
<1>7. sent' = Launch(st, again \cup fresh)
  BY <1>3 DEF Launch, st1
<1>8. \A p \in again \cup fresh : st[p] = "nacked" \/ (p > h /\ p <= highest')
  BY <1>1, <1>4
<1>9. \A p \in Packets : p > h /\ p <= highest' => p \in again \cup fresh
  BY <1>4
<1>10. data' = [p \in Packets |->
                  OnWire(sending)[p] + (IF p \in again \cup fresh THEN 1 ELSE 0)]
  BY <1>3 DEF OnWire
<1>11. Leave(st, OnWire(sending), h, again \cup fresh)
  BY <1>7, <1>8, <1>9, <1>10 DEF Leave
<1> QED
  BY <1>1, <1>2, <1>4, <1>6, <1>11

-----------------------------------------------------------------------------
(* A handler of the sender first marks entries and then calls send_packets.     *)
(* Between the two the invariant holds of the marked entries st, the copies d   *)
(* of data packets on the wire, and the NACKs ns and acknowledgements as left.  *)

MarkedSent(st) ==
    /\ \A p \in Packets : st[p] = "none" <=> p > highest
    /\ \A p, q \in Packets : q < p /\ st[p] = "erased" => st[q] = "erased"

MarkedTravelling(st, d, ns) ==
    \A p \in Packets :
        /\ d[p] > 0 => /\ d[p] = 1 /\ st[p] = "out"
                       /\ p \notin Held /\ p \notin headers /\ p \notin ns
        /\ p \in headers => st[p] = "out" /\ p \notin Held /\ p \notin ns
        /\ p \in ns => st[p] = "out" /\ p \notin Held
        /\ st[p] \in {"none", "nacked"} => p \notin Held

MarkedAnswering(st, as) ==
    \A a \in as : a.pkt \in Held /\ st[a.pkt] \in {"out", "erased"}

MarkedHeld(st) ==
    \A p \in Packets : /\ st[p] = "acked" => p \in Held
                       /\ st[p] = "erased" => p <= cumAck

MarkedGap(st, as) ==
    \A p \in Entries(st) :
        st[p] = "acked" \/ (\E a \in as : a.pkt = p /\ ~a.cum) =>
            \/ p \in received
            \/ \E m \in Packets :
                  /\ m < p /\ m <= cumAck /\ st[m] = "out"
                  /\ ~(\E a \in as : a.pkt = m /\ ~a.cum)
                  /\ \A b \in as : b.cum /\ m <= b.ack => p <= b.ack

Marked(st, d, ns, as) ==
    /\ st \in [Packets -> Status] /\ d \in [Packets -> Nat]
    /\ MarkedSent(st)
    /\ MarkedTravelling(st, d, ns)
    /\ MarkedAnswering(st, as)
    /\ MarkedHeld(st)
    /\ MarkedGap(st, as)

\* The invariant is what Marked says of the present state.
LEMMA MarkedPresent ==
    ASSUME IInv
    PROVE  Marked(sent, data, nacks, acks)
<1>1. sent \in [Packets -> Status] /\ data \in [Packets -> Nat]
  BY DEF IInv, TypeOK
<1>2. MarkedSent(sent)
  BY DEF IInv, SentInOrder, MarkedSent
<1>3. MarkedTravelling(sent, data, nacks)
  BY DEF IInv, Travelling, MarkedTravelling
<1>4. MarkedAnswering(sent, acks)
  BY DEF IInv, Answering, MarkedAnswering
<1>5. MarkedHeld(sent)
  BY DEF IInv, AckedIsHeld, MarkedHeld
<1>6. MarkedGap(sent, acks)
  BY DEF IInv, SelectiveHasGap, GapBefore, SelectivelyAcked, MarkedGap
<1> QED
  BY <1>1, <1>2, <1>3, <1>4, <1>5, <1>6 DEF Marked

\* Sending keeps what was marked: it moves nacked and new packets to the wire.
LEMMA SendingKeepsMarked ==
    ASSUME NEW st, NEW d, NEW ns, NEW as, Marked(st, d, ns, as),
           highest \in 0..N, cumAck \in 0..N,
           highest' \in highest..N, UNCHANGED <<cumAck, received, headers>>,
           NEW S \in SUBSET Packets, Leave(st, d, highest, S),
           nacks' = ns, acks' = as,
           received \subseteq Packets, ns \subseteq Packets, as \subseteq Ack,
           headers \subseteq Packets
    PROVE  Marked(sent, data, nacks, acks)'
<1> USE DEF Marked, Leave
<1>1. Held' = Held
  BY DEF Held
<1>2. \A p \in S : st[p] \in {"nacked", "none"}
  BY DEF MarkedSent
<1>3. \A p \in Packets : sent'[p] = IF p \in S THEN "out" ELSE st[p]
  BY DEF Launch
<1>4. sent' \in [Packets -> Status] /\ data' \in [Packets -> Nat]
  BY DEF Launch, Status
<1>5. MarkedSent(sent)'
  <2>1. \A p \in Packets : sent'[p] = "none" <=> p > highest'
    BY <1>3 DEF MarkedSent
  <2>2. \A p, q \in Packets : q < p /\ sent'[p] = "erased" => sent'[q] = "erased"
    BY <1>2, <1>3 DEF MarkedSent
  <2> QED
    BY <2>1, <2>2 DEF MarkedSent
<1>6. MarkedTravelling(sent, data, nacks)'
  <2> SUFFICES ASSUME NEW p \in Packets
               PROVE  /\ data'[p] > 0 => /\ data'[p] = 1 /\ sent'[p] = "out"
                                         /\ p \notin Held /\ p \notin headers /\ p \notin ns
                      /\ p \in headers => sent'[p] = "out" /\ p \notin Held /\ p \notin ns
                      /\ p \in ns => sent'[p] = "out" /\ p \notin Held
                      /\ sent'[p] \in {"none", "nacked"} => p \notin Held
    BY <1>1 DEF MarkedTravelling
  <2>1. CASE p \in S
    <3>1. st[p] \in {"nacked", "none"}
      BY <2>1, <1>2
    <3>2. ~(d[p] > 0) /\ p \notin headers /\ p \notin ns /\ p \notin Held
      BY <3>1 DEF MarkedTravelling
    <3>3. data'[p] = 1 /\ sent'[p] = "out"
      BY <2>1, <3>2, <1>3
    <3> QED
      BY <3>2, <3>3
  <2>2. CASE p \notin S
    <3>1. data'[p] = d[p] /\ sent'[p] = st[p]
      BY <2>2, <1>3
    <3> QED
      BY <3>1 DEF MarkedTravelling
  <2> QED
    BY <2>1, <2>2
<1>7. MarkedAnswering(sent, acks)'
  BY <1>1, <1>2, <1>3 DEF MarkedAnswering, Ack
<1>8. MarkedHeld(sent)'
  BY <1>1, <1>3 DEF MarkedHeld
<1>9. MarkedGap(sent, acks)'
  <2> SUFFICES ASSUME NEW p \in Packets, sent'[p] \in {"out", "nacked", "acked"},
                      sent'[p] = "acked" \/ (\E a \in as : a.pkt = p /\ ~a.cum),
                      p \notin received
               PROVE  \E m \in Packets :
                        /\ m < p /\ m <= cumAck /\ sent'[m] = "out"
                        /\ ~(\E a \in as : a.pkt = m /\ ~a.cum)
                        /\ \A b \in as : b.cum /\ m <= b.ack => p <= b.ack
    BY DEF MarkedGap, Entries
  <2>1. p \notin S
    BY <1>2, <1>3 DEF MarkedAnswering
  <2>2. p \in Entries(st) /\ sent'[p] = st[p]
    BY <2>1, <1>3 DEF Entries
  <2>3. PICK m \in Packets :
                        /\ m < p /\ m <= cumAck /\ st[m] = "out"
                        /\ ~(\E a \in as : a.pkt = m /\ ~a.cum)
                        /\ \A b \in as : b.cum /\ m <= b.ack => p <= b.ack
    BY <2>2 DEF MarkedGap
  <2>4. sent'[m] = "out"
    BY <2>3, <1>3
  <2> QED
    BY <2>3, <2>4
<1> QED
  BY <1>4, <1>5, <1>6, <1>7, <1>8, <1>9
-----------------------------------------------------------------------------
(* What the invariant says of the answers in flight                             *)

\* An acknowledgement covers only what was sent.
LEMMA AckWithinSent ==
    ASSUME IInv, NEW a \in acks
    PROVE  a.ack <= highest
<1>1. /\ a \in Ack /\ cumAck \in 0..N /\ a.pkt \in Held
      /\ IF a.cum THEN a.pkt <= a.ack /\ a.ack <= cumAck ELSE a.ack = a.pkt
      /\ highest \in 0..N /\ sent \in [Packets -> Status]
  BY DEF IInv, TypeOK, Answering
<1>2. \A p \in Packets : p \in Held => p <= highest
  BY <1>1 DEF IInv, Travelling, SentInOrder
<1>3. CASE a.cum
  <2>1. cumAck \in Packets /\ cumAck \in Held
    BY <1>1, <1>3 DEF Ack, Held
  <2> QED
    BY <2>1, <1>1, <1>2, <1>3 DEF Ack
<1>4. CASE ~a.cum
  BY <1>1, <1>2, <1>4 DEF Ack
<1> QED
  BY <1>1, <1>3, <1>4 DEF Ack

\* The first entry of _sent_packets is never acknowledged selectively.
LEMMA FrontNotSelective ==
    ASSUME IInv, NEW a \in acks, ~a.cum
    PROVE  ~IsFront(sent, a.pkt)
<1> SUFFICES ASSUME IsFront(sent, a.pkt) PROVE FALSE
  OBVIOUS
<1>1. a.pkt \in Packets /\ a.pkt \in Entries(sent) /\ SelectivelyAcked(a.pkt)
  BY DEF IInv, TypeOK, Ack, IsFront, SelectivelyAcked
<1>2. GapBefore(a.pkt)
  BY <1>1 DEF IInv, SelectiveHasGap
<1>3. cumAck \in 0..N /\ highest \in 0..N /\ sent \in [Packets -> Status]
  BY DEF IInv, TypeOK
<1>4. CASE a.pkt \in received
  <2>1. cumAck + 1 < a.pkt
    BY <1>4 DEF IInv, HeldBeyondGap
  <2>2. cumAck + 1 \in Packets
    BY <2>1, <1>1, <1>3
  <2>3. a.pkt <= highest
    BY <1>1, <1>3 DEF IInv, SentInOrder, Entries
  <2>4. sent[cumAck + 1] # "none" /\ sent[cumAck + 1] # "erased"
    BY <2>1, <2>2, <2>3, <1>1, <1>3 DEF IInv, SentInOrder, AckedIsHeld
  <2>5. cumAck + 1 \in Entries(sent)
    BY <2>2, <2>4, <1>3 DEF Entries, Status
  <2> QED
    BY <2>1, <2>5, <1>1, <1>3 DEF IsFront
<1>5. CASE a.pkt \notin received
  <2>1. PICK m \in Packets : m < a.pkt /\ sent[m] = "out"
    BY <1>2, <1>5 DEF GapBefore
  <2>2. m \in Entries(sent)
    BY <2>1 DEF Entries
  <2> QED
    BY <2>1, <2>2, <1>1 DEF IsFront
<1> QED
  BY <1>4, <1>5

\* The assertion of mark_received holds for every acknowledgement in flight.
LEMMA AckAlwaysFinds ==
    ASSUME IInv, NEW a \in acks
    PROVE  AckFindsEntry(a)
<1> SUFFICES ASSUME ~a.cum, NEW q \in Entries(sent), ~(q > a.ack)
             PROVE  a.pkt \in Entries(sent)
  BY DEF AckFindsEntry
<1>1. /\ a \in Ack /\ a.ack = a.pkt /\ sent[a.pkt] \in {"out", "erased"}
      /\ q \in Packets /\ sent[q] # "erased"
  BY DEF IInv, TypeOK, Answering, Entries
<1>2. sent[a.pkt] # "erased"
  BY <1>1 DEF IInv, SentInOrder, Ack
<1> QED
  BY <1>1, <1>2 DEF Entries, Ack

\* The assertions of processNack hold for every NACK in flight.
LEMMA NackAlwaysFinds ==
    ASSUME IInv, NEW p \in nacks
    PROVE  sent[p] = "out" /\ NackFindsEntry(p)
  BY DEF IInv, TypeOK, Travelling, NackFindsEntry

\* A cumulative acknowledgement erases nothing beyond what it covers.
LEMMA ErasedIsCovered ==
    ASSUME IInv, NEW a \in acks, a.cum, NEW p \in Entries(sent),
           \A q \in Entries(sent) : q <= p => q \in 1..a.ack \cup With(sent, "acked")
    PROVE  p <= a.ack
<1> SUFFICES ASSUME p > a.ack PROVE FALSE
  BY DEF IInv, TypeOK, Ack, Entries
<1>1. /\ a \in Ack /\ p \in Packets /\ cumAck \in 0..N /\ highest \in 0..N
      /\ sent \in [Packets -> Status] /\ a.ack <= cumAck
  BY DEF IInv, TypeOK, Answering, Entries
<1>2. sent[p] = "acked"
  BY <1>1 DEF With, Ack
<1>3. GapBefore(p)
  BY <1>2 DEF IInv, SelectiveHasGap
<1>4. CASE p \in received
  <2>1. cumAck + 1 < p /\ cumAck + 1 \in Packets
    BY <1>1, <1>4 DEF IInv, HeldBeyondGap
  <2>2. p <= highest
    BY <1>1, <1>2 DEF IInv, SentInOrder
  <2>3. sent[cumAck + 1] # "none" /\ sent[cumAck + 1] # "erased"
    BY <2>1, <2>2, <1>1 DEF IInv, SentInOrder, AckedIsHeld
  <2>4. cumAck + 1 \in Entries(sent)
    BY <2>1, <2>3, <1>1 DEF Entries, Status
  <2>5. sent[cumAck + 1] = "acked"
    BY <2>1, <2>4, <1>1 DEF With, Ack
  <2>6. cumAck + 1 \in received
    BY <2>1, <2>5, <1>1 DEF IInv, AckedIsHeld, Held
  <2> QED
    BY <2>6, <1>1 DEF IInv, HeldBeyondGap
<1>5. CASE p \notin received
  <2>1. PICK m \in Packets :
          /\ m < p /\ sent[m] = "out"
          /\ \A b \in acks : b.cum /\ m <= b.ack => p <= b.ack
    BY <1>3, <1>5 DEF GapBefore
  <2>2. m \in Entries(sent) /\ m \notin With(sent, "acked")
    BY <2>1 DEF Entries, With
  <2>3. m <= a.ack
    BY <2>1, <2>2, <1>1 DEF Ack
  <2> QED
    BY <2>1, <2>3, <1>1 DEF Ack
<1> QED
  BY <1>4, <1>5
-----------------------------------------------------------------------------
(* What the handlers mark                                                       *)

\* Processing an acknowledgement keeps the invariant, with that acknowledgement
\* consumed.
LEMMA AckMarks ==
    ASSUME IInv, NEW a \in acks
    PROVE  Marked(MarkReceived(sent, a), data, nacks, acks \ {a})
<1> DEFINE st == MarkReceived(sent, a)
           as == acks \ {a}
<1>1. Marked(sent, data, nacks, acks)
  BY MarkedPresent
<1>2. /\ a \in Ack /\ acks \subseteq Ack /\ cumAck \in 0..N /\ highest \in 0..N
      /\ sent \in [Packets -> Status] /\ data \in [Packets -> Nat]
      /\ nacks \subseteq Packets /\ headers \subseteq Packets
  BY DEF IInv, TypeOK
<1>3. st \in [Packets -> Status]
  BY <1>2, MarkReceivedType
<1>4. CASE a.cum
  <2>1. st = EraseFront(sent, 1..a.ack \cup With(sent, "acked"))
    BY <1>4 DEF MarkReceived
  <2> HIDE DEF st
  <2>2. \A p \in Packets :
          \/ st[p] = sent[p]
          \/ /\ st[p] = "erased" /\ p \in Entries(sent) /\ p <= a.ack
             /\ \A q \in Entries(sent) :
                   q <= p => q \in 1..a.ack \cup With(sent, "acked")
    BY <2>1, <1>4, ErasedIsCovered DEF EraseFront
  <2>3. \A p \in Entries(sent) : p <= a.ack => st[p] = "erased"
    BY <2>1, <1>2 DEF EraseFront, Entries, Ack
  <2>4. a.ack <= cumAck
    BY <1>4 DEF IInv, Answering
  <2>5. MarkedSent(st)
    <3>1. \A p \in Packets : st[p] = "none" <=> p > highest
      BY <2>2, <1>1 DEF Marked, MarkedSent, Entries
    <3>2. ASSUME NEW p \in Packets, NEW q \in Packets, q < p, st[p] = "erased"
          PROVE  st[q] = "erased"
      <4>1. CASE sent[p] = "erased"
        BY <3>2, <4>1, <2>2, <1>1 DEF Marked, MarkedSent
      <4>2. CASE sent[p] # "erased"
        <5>1. /\ p \in Entries(sent)
              /\ \A r \in Entries(sent) :
                    r <= p => r \in 1..a.ack \cup With(sent, "acked")
          BY <3>2, <4>2, <2>2
        <5>2. sent[q] # "none"
          BY <3>2, <5>1, <1>1, <1>2 DEF Marked, MarkedSent, Entries
        <5>3. CASE sent[q] = "erased"
          BY <5>3, <2>2
        <5>4. CASE q \in Entries(sent)
          <6>1. \A r \in Entries(sent) :
                  r <= q => r \in 1..a.ack \cup With(sent, "acked")
            BY <5>1, <3>2 DEF Entries
          <6> QED
            BY <5>4, <6>1, <2>1 DEF EraseFront
        <5> QED
          BY <5>2, <5>3, <5>4, <1>2 DEF Entries, Status
      <4> QED
        BY <4>1, <4>2
    <3> QED
      BY <3>1, <3>2 DEF MarkedSent
  <2>6. MarkedTravelling(st, data, nacks)
    BY <2>2, <2>4, <1>1, <1>2, SMTT(60) DEF Marked, MarkedTravelling, Held, Ack
  <2>7. MarkedAnswering(st, as)
    BY <2>2, <1>1, <1>2 DEF Marked, MarkedAnswering, Ack
  <2>8. MarkedHeld(st)
    BY <2>2, <2>4, <1>1, <1>2, SMTT(60) DEF Marked, MarkedHeld, Ack
  <2>9. MarkedGap(st, as)
    <3> SUFFICES ASSUME NEW p \in Entries(st),
                        st[p] = "acked" \/ (\E b \in as : b.pkt = p /\ ~b.cum),
                        p \notin received
                 PROVE  \E m \in Packets :
                  /\ m < p /\ m <= cumAck /\ st[m] = "out"
                  /\ ~(\E b \in as : b.pkt = m /\ ~b.cum)
                  /\ \A b \in as : b.cum /\ m <= b.ack => p <= b.ack
      BY DEF MarkedGap
    <3>1. p \in Packets /\ st[p] = sent[p] /\ p \in Entries(sent)
      BY <2>2 DEF Entries
    <3>2. PICK m \in Packets :
                  /\ m < p /\ m <= cumAck /\ sent[m] = "out"
                  /\ ~(\E b \in acks : b.pkt = m /\ ~b.cum)
                  /\ \A b \in acks : b.cum /\ m <= b.ack => p <= b.ack
      BY <3>1, <1>1 DEF Marked, MarkedGap
    <3>3. ~(m <= a.ack)
      BY <3>1, <3>2, <2>3, <1>4 DEF Entries
    <3>4. st[m] = "out"
      BY <3>2, <3>3, <2>2
    <3> QED
      BY <3>2, <3>4
  <2> QED
    BY <2>5, <2>6, <2>7, <2>8, <2>9, <1>2, <1>3 DEF st, Marked
<1>5. CASE ~a.cum
  <2>1. CASE \A q \in Entries(sent) : q > a.ack
    <3>1. st = sent
      BY <1>5, <2>1 DEF MarkReceived
    <3> QED
      BY <3>1, <1>1, SMTT(60) DEF Marked, MarkedAnswering, MarkedGap
  <2>2. CASE ~(\A q \in Entries(sent) : q > a.ack)
    <3>1. st = [sent EXCEPT ![a.pkt] = "acked"]
      BY <1>5, <2>2, FrontNotSelective DEF MarkReceived
    <3>2. a.pkt \in Packets /\ a.pkt \in Entries(sent)
      BY <1>2, <1>5, <2>2, AckAlwaysFinds DEF AckFindsEntry, Ack
    <3>3. a.pkt \in Held /\ sent[a.pkt] = "out"
      BY <3>2, <1>1 DEF Marked, MarkedAnswering, Entries
    <3>4. \A p \in Packets : st[p] = IF p = a.pkt THEN "acked" ELSE sent[p]
      BY <3>1, <1>2
    <3>5. \A b \in as : b.pkt # a.pkt
      BY DEF IInv, Answering
    <3> HIDE DEF st
    <3>6. MarkedSent(st)
      BY <3>2, <3>3, <3>4, <1>1, ZenonT(60) DEF Marked, MarkedSent
    <3>7. MarkedTravelling(st, data, nacks)
      BY <3>3, <3>4, <1>1 DEF Marked, MarkedTravelling
    <3>8. MarkedAnswering(st, as)
      BY <3>4, <3>5, <1>1, <1>2 DEF Marked, MarkedAnswering, Ack
    <3>9. MarkedHeld(st)
      BY <3>3, <3>4, <1>1 DEF Marked, MarkedHeld
    <3>10. MarkedGap(st, as)
      <4> SUFFICES ASSUME NEW p \in Entries(st),
                          st[p] = "acked" \/ (\E b \in as : b.pkt = p /\ ~b.cum),
                          p \notin received
                   PROVE  \E m \in Packets :
                    /\ m < p /\ m <= cumAck /\ st[m] = "out"
                    /\ ~(\E b \in as : b.pkt = m /\ ~b.cum)
                    /\ \A b \in as : b.cum /\ m <= b.ack => p <= b.ack
        BY DEF MarkedGap
      <4>1. /\ p \in Packets /\ p \in Entries(sent)
            /\ sent[p] = "acked" \/ (\E b \in acks : b.pkt = p /\ ~b.cum)
        BY <3>2, <3>4, <1>5 DEF Entries
      <4>2. PICK m \in Packets :
                    /\ m < p /\ m <= cumAck /\ sent[m] = "out"
                    /\ ~(\E b \in acks : b.pkt = m /\ ~b.cum)
                    /\ \A b \in acks : b.cum /\ m <= b.ack => p <= b.ack
        BY <4>1, <1>1 DEF Marked, MarkedGap
      <4>3. m # a.pkt
        BY <4>2, <1>5
      <4> QED
        BY <4>2, <4>3, <3>4
    <3> QED
      BY <3>6, <3>7, <3>8, <3>9, <3>10, <1>2, <1>3 DEF st, Marked
  <2> QED
    BY <2>1, <2>2
<1> QED
  BY <1>4, <1>5

\* Marking a packet nacked, its NACK consumed, keeps the invariant ...
LEMMA NackMarks ==
    ASSUME IInv, NEW p \in nacks
    PROVE  Marked([sent EXCEPT ![p] = "nacked"], data, nacks \ {p}, acks)
<1> DEFINE st == [sent EXCEPT ![p] = "nacked"]
<1>1. Marked(sent, data, nacks, acks)
  BY MarkedPresent
<1>2. /\ p \in Packets /\ acks \subseteq Ack /\ sent \in [Packets -> Status]
      /\ data \in [Packets -> Nat]
  BY DEF IInv, TypeOK
<1>3. sent[p] = "out" /\ p \notin Held /\ data[p] = 0 /\ p \notin headers
  BY <1>1, <1>2 DEF Marked, MarkedTravelling
<1>4. \A q \in Packets : st[q] = IF q = p THEN "nacked" ELSE sent[q]
  BY <1>2
<1>5. st \in [Packets -> Status]
  BY <1>2 DEF Status
<1> HIDE DEF st
<1>6. MarkedSent(st)
  BY <1>1, <1>3, <1>4, SMTT(60) DEF Marked, MarkedSent
<1>7. MarkedTravelling(st, data, nacks \ {p})
  BY <1>1, <1>3, <1>4 DEF Marked, MarkedTravelling
<1>8. MarkedAnswering(st, acks)
  BY <1>1, <1>2, <1>3, <1>4 DEF Marked, MarkedAnswering, Ack
<1>9. MarkedHeld(st)
  BY <1>1, <1>4 DEF Marked, MarkedHeld
<1>10. MarkedGap(st, acks)
  <2> SUFFICES ASSUME NEW r \in Entries(st),
                      st[r] = "acked" \/ (\E b \in acks : b.pkt = r /\ ~b.cum),
                      r \notin received
               PROVE  \E m \in Packets :
                /\ m < r /\ m <= cumAck /\ st[m] = "out"
                /\ ~(\E b \in acks : b.pkt = m /\ ~b.cum)
                /\ \A b \in acks : b.cum /\ m <= b.ack => r <= b.ack
    BY DEF MarkedGap
  <2>1. /\ r \in Packets /\ r \in Entries(sent)
        /\ sent[r] = "acked" \/ (\E b \in acks : b.pkt = r /\ ~b.cum)
    BY <1>3, <1>4 DEF Entries
  <2>2. PICK m \in Packets :
                /\ m < r /\ m <= cumAck /\ sent[m] = "out"
                /\ ~(\E b \in acks : b.pkt = m /\ ~b.cum)
                /\ \A b \in acks : b.cum /\ m <= b.ack => r <= b.ack
    BY <2>1, <1>1 DEF Marked, MarkedGap
  <2>3. m # p
    BY <2>2, <1>3 DEF Held, IInv, TypeOK
  <2> QED
    BY <2>2, <2>3, <1>4
<1> QED
  BY <1>2, <1>5, <1>6, <1>7, <1>8, <1>9, <1>10 DEF st, Marked

\* ... and so does sending it again at once.
LEMMA ResendMarks ==
    ASSUME IInv, NEW p \in nacks
    PROVE  /\ Launch([sent EXCEPT ![p] = "nacked"], {p}) = sent
           /\ Marked(sent, OnWire({p}), nacks \ {p}, acks)
<1> DEFINE d == OnWire({p})
<1>1. Marked(sent, data, nacks, acks)
  BY MarkedPresent
<1>2. /\ p \in Packets /\ sent \in [Packets -> Status] /\ data \in [Packets -> Nat]
  BY DEF IInv, TypeOK
<1>3. sent[p] = "out" /\ p \notin Held /\ data[p] = 0 /\ p \notin headers
  BY <1>1, <1>2 DEF Marked, MarkedTravelling
<1>4. Launch([sent EXCEPT ![p] = "nacked"], {p}) = sent
  BY <1>2, <1>3 DEF Launch
<1>5. \A q \in Packets : d[q] = IF q = p THEN 1 ELSE data[q]
  BY <1>2, <1>3 DEF OnWire
<1>6. d \in [Packets -> Nat]
  BY <1>2 DEF OnWire
<1> HIDE DEF d
<1>7. MarkedTravelling(sent, d, nacks \ {p})
  BY <1>1, <1>3, <1>5 DEF Marked, MarkedTravelling
<1> QED
  BY <1>1, <1>4, <1>6, <1>7 DEF d, Marked
-----------------------------------------------------------------------------
(* The steps of the sender                                                      *)

\* What remains to show after a step of the sender.
LEMMA SenderStep ==
    ASSUME IInv, TypeOK', Marked(sent, data, nacks, acks)', acks' \subseteq acks,
           UNCHANGED <<cumAck, received>>, FinishedIsErased'
    PROVE  IInv'
<1>1. SentInOrder'
  BY DEF Marked, MarkedSent, SentInOrder
<1>2. Travelling'
  BY DEF Marked, MarkedTravelling, Travelling
<1>3. Answering'
  BY DEF Marked, MarkedAnswering, Answering, IInv
<1>4. CumulativeRangesDisjoint'
  BY DEF IInv, CumulativeRangesDisjoint
<1>5. HeldBeyondGap'
  BY DEF IInv, HeldBeyondGap
<1>6. AckedIsHeld'
  BY DEF Marked, MarkedHeld, AckedIsHeld
<1>7. SelectiveHasGap'
  BY SMTT(60) DEF Marked, MarkedGap, SelectiveHasGap, GapBefore, SelectivelyAcked
<1> QED
  BY <1>1, <1>2, <1>3, <1>4, <1>5, <1>6, <1>7 DEF IInv

\* send_packets after an entry set st in which everything may be erased.
LEMMA SendingStep ==
    ASSUME IInv, NEW st, NEW w, NEW rtx \in BOOLEAN, NEW sending \in SUBSET Packets,
           NEW base \in Nat, NEW nk \in Int,
           SendPackets(st, w, rtx, highest, sending, base, nk),
           Marked(st, OnWire(sending), nacks', acks'),
           nacks' \subseteq nacks, acks' \subseteq acks,
           finished => \A p \in Packets : st[p] = "erased",
           started' \in BOOLEAN, cwnd' \in Windows,
           UNCHANGED <<finished, cumAck, received, headers, losses>>
    PROVE  IInv'
<1>1. st \in [Packets -> Status]
  BY DEF Marked
<1>2. TypeOK
  BY DEF IInv
<1>3. /\ highest \in 0..N /\ data \in [Packets -> Nat] /\ cumAck \in 0..N
      /\ received \subseteq Packets /\ headers \subseteq Packets
      /\ nacks' \subseteq Packets /\ acks' \subseteq Ack
  BY <1>2 DEF TypeOK
<1>4. /\ highest' \in highest..N
      /\ rtxPending' \in BOOLEAN /\ nackRtx' \in Int /\ unacked' \in Nat
      /\ \E S \in SUBSET Packets : Leave(st, OnWire(sending), highest, S)
  BY <1>1, <1>3, SendPacketsEffect
<1>5. PICK S \in SUBSET Packets : Leave(st, OnWire(sending), highest, S)
  BY <1>4
<1>7. Marked(sent, data, nacks, acks)'
  BY <1>3, <1>4, <1>5, SendingKeepsMarked
<1>8. TypeOK'
  <2>1. sent' \in [Packets -> Status] /\ data' \in [Packets -> Nat]
    BY <1>7 DEF Marked
  <2>2. highest' \in 0..N
    BY <1>3, <1>4
  <2> QED
    BY <1>2, <1>3, <1>4, <2>1, <2>2 DEF TypeOK
<1>9. FinishedIsErased'
  <2>1. ASSUME finished PROVE S = {}
    <3>1. \A p \in Packets : st[p] = "erased"
      BY <2>1
    <3>2. \A p \in S : p > highest
      BY <3>1, <1>5 DEF Leave
    <3> QED
      BY <3>1, <3>2 DEF Marked, MarkedSent
  <2> QED
    BY <2>1, <1>5 DEF FinishedIsErased, Leave, Launch
<1> QED
  BY <1>7, <1>8, <1>9, SenderStep

LEMMA StartFlowStep ==
    ASSUME IInv, StartFlow
    PROVE  IInv'
<1>1. TypeOK
  BY DEF IInv
<1>2. SendPackets(sent, cwnd, rtxPending, highest, {}, unacked, nackRtx)
  BY DEF StartFlow
<1>3. /\ started' \in BOOLEAN /\ cwnd' \in Windows
      /\ UNCHANGED <<finished, cumAck, received, headers, nacks, acks, losses>>
  BY <1>1 DEF StartFlow, TypeOK, sinkVars
<1>4. data = OnWire({})
  BY <1>1 DEF TypeOK, OnWire
<1>5. Marked(sent, OnWire({}), nacks', acks')
  BY <1>3, <1>4, MarkedPresent
<1>6. finished => \A p \in Packets : sent[p] = "erased"
  BY DEF IInv, FinishedIsErased
<1>7. rtxPending \in BOOLEAN /\ unacked \in Nat /\ nackRtx \in Int
  BY <1>1 DEF TypeOK
<1> QED
  BY <1>2, <1>3, <1>5, <1>6, <1>7, SendingStep

LEMMA ReceiveAckStep ==
    ASSUME IInv, NEW a \in acks, ReceiveAck(a)
    PROVE  IInv'
<1> DEFINE st == MarkReceived(sent, a)
           nk == IF ~a.cum /\ st[a.pkt] = "acked" /\ sent[a.pkt] = "nacked"
                 THEN nackRtx - 1 ELSE nackRtx
<1>1. TypeOK
  BY DEF IInv
<1>2. /\ acks' = acks \ {a} /\ acks' \subseteq acks /\ a \in Ack
      /\ UNCHANGED <<started, cumAck, received, headers, nacks, losses>>
  BY <1>1 DEF ReceiveAck, sinkVars, TypeOK
<1>3. data = OnWire({})
  BY <1>1 DEF TypeOK, OnWire
<1>4. /\ Marked(st, data, nacks', acks')
      /\ Marked(st, OnWire({}), nacks', acks')
  BY <1>2, <1>3, AckMarks
<1>5. /\ Reduced \in Nat /\ nk \in Int /\ rtxPending \in BOOLEAN
      /\ sent \in [Packets -> Status] /\ highest \in 0..N /\ started \in BOOLEAN
  BY <1>1 DEF Reduced, TypeOK
<1>6. a.ack <= highest
  BY AckWithinSent
<1>7. finished => \A p \in Packets : st[p] = "erased"
  <2> SUFFICES ASSUME finished, NEW p \in Packets PROVE st[p] = "erased"
    OBVIOUS
  <2>1. \A q \in Packets : sent[q] = "erased"
    BY DEF IInv, FinishedIsErased
  <2>2. Entries(sent) = {}
    BY <2>1 DEF Entries
  <2>3. \A gone : EraseFront(sent, gone)[p] = "erased"
    BY <2>1, <2>2 DEF EraseFront
  <2>4. \A q \in Entries(sent) : q > a.ack
    BY <2>2
  <2> QED
    BY <2>1, <2>3, <2>4 DEF MarkReceived
<1>8. CASE a.ack >= N /\ Entries(st) = {} /\ ~finished
  <2>1. /\ finished' = TRUE /\ sent' = st /\ unacked' = Reduced /\ nackRtx' = nk
        /\ UNCHANGED <<highest, cwnd, rtxPending, data>>
    BY <1>8 DEF ReceiveAck
  <2>2. highest = N
    BY <1>2, <1>5, <1>6, <1>8 DEF Ack
  <2> HIDE DEF st, nk
  <2>3. TypeOK'
    BY <1>1, <1>2, <1>4, <1>5, <2>1 DEF TypeOK, Marked
  <2>4. UNCHANGED <<Held, highest, cumAck, received, headers, data>>
    BY <1>2, <2>1 DEF Held
  <2>5. Marked(sent, data, nacks, acks)'
    BY <1>4, <2>1, <2>4 DEF Marked, MarkedSent, MarkedTravelling, MarkedAnswering,
                            MarkedHeld, MarkedGap
  <2>6. FinishedIsErased'
    <3>1. \A p \in Packets : st[p] # "none"
      BY <1>4, <2>2 DEF Marked, MarkedSent
    <3>2. \A p \in Packets : st[p] = "erased"
      BY <3>1, <1>4, <1>8 DEF Marked, Status, Entries
    <3> QED
      BY <3>2, <2>1 DEF FinishedIsErased
  <2> QED
    BY <1>2, <2>3, <2>5, <2>6, SenderStep
<1>9. CASE ~(a.ack >= N /\ Entries(st) = {} /\ ~finished)
  <2>1. /\ cwnd' \in Windows /\ UNCHANGED finished
        /\ SendPackets(st, cwnd', rtxPending,
                       IF a.ack >= highest THEN a.ack ELSE highest, {}, Reduced, nk)
    BY <1>9 DEF ReceiveAck
  <2>2. (IF a.ack >= highest THEN a.ack ELSE highest) = highest
    BY <1>2, <1>5, <1>6 DEF Ack
  <2> HIDE DEF st, nk
  <2>3. SendPackets(st, cwnd', rtxPending, highest, {}, Reduced, nk)
    BY <2>1, <2>2
  <2> QED
    BY <1>2, <1>4, <1>5, <1>7, <2>1, <2>3, SendingStep
<1> QED
  BY <1>8, <1>9

LEMMA ReceiveNackStep ==
    ASSUME IInv, NEW p \in Packets, ReceiveNack(p)
    PROVE  IInv'
<1> DEFINE nk     == IF sent[p] = "nacked" THEN nackRtx ELSE nackRtx + 1
           marked == [sent EXCEPT ![p] = "nacked"]
<1>1. TypeOK
  BY DEF IInv
<1>2. /\ p \in nacks /\ nacks' = nacks \ {p} /\ nacks' \subseteq nacks
      /\ acks' \subseteq acks /\ acks' = acks /\ cwnd' \in Windows
      /\ UNCHANGED <<started, finished, cumAck, received, headers, losses>>
  BY DEF ReceiveNack, sinkVars
<1>3. /\ Reduced \in Nat /\ Reduced + Mss \in Nat /\ nk \in Int /\ nk - 1 \in Int
      /\ rtxPending \in BOOLEAN /\ started \in BOOLEAN
  BY <1>1 DEF Reduced, TypeOK
<1>4. ~finished
  BY <1>2, NackAlwaysFinds DEF IInv, FinishedIsErased
<1>5. CASE GetUnacked(marked) < cwnd'
  <2>1. SendPackets(Launch(marked, {p}), cwnd', rtxPending, highest, {p},
                    Reduced + Mss, nk - 1)
    BY <1>5 DEF ReceiveNack
  <2>2. Launch(marked, {p}) = sent
    BY <1>2, ResendMarks
  <2>3. SendPackets(sent, cwnd', rtxPending, highest, {p}, Reduced + Mss, nk - 1)
    BY <2>1, <2>2
  <2>4. Marked(sent, OnWire({p}), nacks', acks')
    BY <1>2, ResendMarks
  <2> HIDE DEF nk, marked
  <2> QED
    BY <1>2, <1>3, <1>4, <2>3, <2>4, SendingStep
<1>6. CASE ~(GetUnacked(marked) < cwnd')
  <2>1. SendPackets(marked, cwnd', TRUE, highest, {}, Reduced, nk)
    BY <1>6 DEF ReceiveNack
  <2>2. Marked(marked, data, nacks', acks')
    BY <1>2, NackMarks
  <2>3. data = OnWire({})
    BY <1>1 DEF TypeOK, OnWire
  <2> HIDE DEF nk, marked
  <2>4. Marked(marked, OnWire({}), nacks', acks')
    BY <2>2, <2>3
  <2> QED
    BY <1>2, <1>3, <1>4, <2>1, <2>4, SendingStep
<1> QED
  BY <1>5, <1>6
-----------------------------------------------------------------------------
(* The steps of the network: a message moves or disappears                      *)

\* Nothing that the sender and the receiver record changes, messages may only
\* disappear or a data packet be replaced by its header or NACK.
LEMMA NetworkStep ==
    ASSUME IInv, UNCHANGED <<srcVars, sinkVars>>, acks' \subseteq acks, Travelling',
           data' \in [Packets -> Nat], headers' \subseteq Packets,
           nacks' \subseteq Packets, losses' \in 0..MaxLoss
    PROVE  IInv'
<1>1. UNCHANGED <<started, sent, highest, cwnd, unacked, nackRtx, rtxPending,
                  finished, cumAck, received, Held>>
  BY DEF srcVars, sinkVars, Held
<1>2. TypeOK'
  BY <1>1 DEF IInv, TypeOK
<1>3. SentInOrder' /\ HeldBeyondGap' /\ AckedIsHeld' /\ FinishedIsErased'
  BY <1>1 DEF IInv, SentInOrder, HeldBeyondGap, AckedIsHeld, FinishedIsErased
<1>4. Answering' /\ CumulativeRangesDisjoint'
  BY <1>1 DEF IInv, Answering, CumulativeRangesDisjoint
<1>5. SelectiveHasGap'
  <2> SUFFICES ASSUME NEW p \in Entries(sent),
                      sent[p] = "acked" \/ SelectivelyAcked(p)', p \notin received
               PROVE  \E m \in Packets :
                 /\ m < p /\ m <= cumAck /\ sent[m] = "out" /\ ~SelectivelyAcked(m)'
                 /\ \A b \in acks' : b.cum /\ m <= b.ack => p <= b.ack
    BY <1>1 DEF SelectiveHasGap, GapBefore, Entries
  <2>1. \A q : SelectivelyAcked(q)' => SelectivelyAcked(q)
    BY DEF SelectivelyAcked
  <2>2. GapBefore(p)
    BY <2>1 DEF IInv, SelectiveHasGap
  <2> QED
    BY <2>1, <2>2 DEF GapBefore
<1> QED
  BY <1>2, <1>3, <1>4, <1>5 DEF IInv

LEMMA ReceiveTrimmedStep ==
    ASSUME IInv, NEW p \in Packets, ReceiveTrimmed(p)
    PROVE  IInv'
<1>1. /\ p \in headers /\ headers' = headers \ {p} /\ nacks' = nacks \cup {p}
      /\ UNCHANGED <<srcVars, sinkVars>> /\ UNCHANGED <<data, acks, losses, sent, Held>>
  BY DEF ReceiveTrimmed, srcVars, sinkVars, Held
<1>2. Travelling'
  BY <1>1 DEF IInv, TypeOK, Travelling
<1> QED
  BY <1>1, <1>2, NetworkStep DEF IInv, TypeOK

\* A data packet leaves the wire as a data packet.
LEMMA TakeData ==
    ASSUME IInv, NEW p \in Packets, data[p] > 0, data' = [data EXCEPT ![p] = @ - 1]
    PROVE  /\ data' \in [Packets -> Nat]
           /\ \A q \in Packets : data'[q] = IF q = p THEN 0 ELSE data[q]
           /\ sent[p] = "out" /\ p \notin Held /\ p \notin headers /\ p \notin nacks
  BY DEF IInv, TypeOK, Travelling

LEMMA TrimStep ==
    ASSUME IInv, NEW p \in Packets, Trim(p) \/ BackToSender(p)
    PROVE  IInv'
<1>1. /\ data[p] > 0 /\ data' = [data EXCEPT ![p] = @ - 1]
      /\ \/ headers' = headers \cup {p} /\ nacks' = nacks
         \/ headers' = headers /\ nacks' = nacks \cup {p}
      /\ UNCHANGED <<srcVars, sinkVars>> /\ UNCHANGED <<acks, losses, sent, Held>>
  BY DEF Trim, BackToSender, srcVars, sinkVars, Held
<1>2. /\ data' \in [Packets -> Nat]
      /\ \A q \in Packets : data'[q] = IF q = p THEN 0 ELSE data[q]
      /\ sent[p] = "out" /\ p \notin Held /\ p \notin headers /\ p \notin nacks
  BY <1>1, TakeData
<1>3. Travelling'
  BY <1>1, <1>2 DEF IInv, Travelling
<1> QED
  BY <1>1, <1>2, <1>3, NetworkStep DEF IInv, TypeOK

LEMMA DropStep ==
    ASSUME IInv, Drop
    PROVE  IInv'
<1>1. /\ losses' \in 0..MaxLoss /\ UNCHANGED <<srcVars, sinkVars>>
      /\ UNCHANGED <<sent, Held>>
  BY DEF Drop, IInv, TypeOK, srcVars, sinkVars, Held
<1>2. CASE \E p \in Packets : /\ data[p] > 0
                             /\ data' = [data EXCEPT ![p] = @ - 1]
                             /\ UNCHANGED <<headers, nacks, acks>>
  <2>1. PICK p \in Packets : /\ data[p] > 0
                             /\ data' = [data EXCEPT ![p] = @ - 1]
                             /\ UNCHANGED <<headers, nacks, acks>>
    BY <1>2
  <2>2. /\ data' \in [Packets -> Nat]
        /\ \A q \in Packets : data'[q] = IF q = p THEN 0 ELSE data[q]
    BY <2>1, TakeData
  <2>3. Travelling'
    BY <1>1, <2>1, <2>2 DEF IInv, Travelling
  <2> QED
    BY <1>1, <2>1, <2>2, <2>3, NetworkStep DEF IInv, TypeOK
<1>3. CASE /\ data' = data /\ headers' \subseteq headers /\ nacks' \subseteq nacks
           /\ acks' \subseteq acks
  <2>1. Travelling'
    BY <1>1, <1>3 DEF IInv, Travelling
  <2> QED
    BY <1>1, <1>3, <2>1, NetworkStep DEF IInv, TypeOK
<1> QED
  BY <1>2, <1>3 DEF Drop

-----------------------------------------------------------------------------
(* The steps of the receiver                                                    *)

\* What holds at the arrival of a data packet, and the acknowledgements after it.
LEMMA ReceiveDataStep ==
    ASSUME IInv, NEW p \in Packets, ReceiveData(p)
    PROVE  IInv'
<1>1. TypeOK
  BY DEF IInv
<1>2. /\ data[p] > 0 /\ data' = [data EXCEPT ![p] = @ - 1]
      /\ UNCHANGED <<started, sent, highest, cwnd, unacked, nackRtx, rtxPending,
                     finished, headers, nacks, losses>>
  BY DEF ReceiveData, srcVars
<1>3. /\ data' \in [Packets -> Nat]
      /\ \A q \in Packets : data'[q] = IF q = p THEN 0 ELSE data[q]
      /\ sent[p] = "out" /\ p \notin Held /\ p \notin headers /\ p \notin nacks
  BY <1>2, TakeData
<1>4. /\ cumAck \in 0..N /\ received \subseteq Packets /\ acks \subseteq Ack
      /\ sent \in [Packets -> Status] /\ p > cumAck
  BY <1>1, <1>3, SMTT(60) DEF TypeOK, Held
<1>5. \A a \in acks : a.pkt # p
  BY <1>3 DEF IInv, Answering
<1>6. SentInOrder' /\ FinishedIsErased'
  BY <1>2 DEF IInv, SentInOrder, FinishedIsErased
<1>7. CASE p = cumAck + 1
  <2>1. PICK c \in p..N :
            /\ (p + 1)..c \subseteq received /\ c + 1 \notin received
            /\ cumAck' = c
            /\ received' = received \ ((p + 1)..c)
            /\ acks' = acks \cup {[pkt |-> p, cum |-> TRUE, ack |-> c]}
    BY <1>4, <1>7 DEF ReceiveData
  <2> DEFINE new == [pkt |-> p, cum |-> TRUE, ack |-> c]
  <2>2. new \in Ack /\ new.pkt = p /\ new.cum /\ new.ack = c /\ c \in Packets
    BY DEF Ack
  <2>3. acks' = acks \cup {new}
    BY <2>1
  <2> HIDE DEF new
  <2>4. TypeOK'
    BY <1>1, <1>2, <1>3, <1>4, <2>1, <2>2, <2>3, SMTT(60) DEF TypeOK
  <2>5. \A q \in Packets : q \in Held' <=> q \in Held \/ q = p
    BY <1>4, <1>7, <2>1 DEF Held
  <2>6. Travelling'
    BY <1>2, <1>3, <2>5 DEF IInv, Travelling
  <2>7. \A a \in acks : a.cum => a.ack <= cumAck /\ a.pkt <= cumAck
    BY <1>4 DEF IInv, Answering, Ack
  <2>8. Answering'
    <3>1. \A a \in acks' : a.pkt \in Held' /\ sent'[a.pkt] \in {"out", "erased"}
      BY <1>2, <1>3, <1>4, <2>2, <2>3, <2>5 DEF IInv, Answering, Ack
    <3>2. \A a \in acks' : IF a.cum THEN a.pkt <= a.ack /\ a.ack <= cumAck'
                                    ELSE a.ack = a.pkt
      BY <1>4, <1>7, <2>1, <2>2, <2>3 DEF IInv, Answering, Ack
    <3>3. \A a, b \in acks' : a.pkt = b.pkt => a = b
      BY <1>5, <2>2, <2>3 DEF IInv, Answering
    <3> QED
      BY <3>1, <3>2, <3>3 DEF Answering
  <2>9. CumulativeRangesDisjoint'
    <3> SUFFICES ASSUME NEW a \in acks', NEW b \in acks', a.cum, b.cum, a # b
                 PROVE  a.ack < b.pkt \/ b.ack < a.pkt
      BY DEF CumulativeRangesDisjoint
    <3>1. CASE a \in acks /\ b \in acks
      BY <3>1 DEF IInv, CumulativeRangesDisjoint
    <3>2. CASE a = new
      BY <3>2, <1>4, <1>7, <2>2, <2>3, <2>7 DEF Ack
    <3>3. CASE b = new
      BY <3>3, <1>4, <1>7, <2>2, <2>3, <2>7 DEF Ack
    <3> QED
      BY <3>1, <3>2, <3>3, <2>3
  <2>10. HeldBeyondGap'
    BY <1>4, <1>7, <2>1 DEF IInv, HeldBeyondGap
  <2>11. AckedIsHeld'
    BY <1>2, <1>4, <1>7, <2>1, <2>5 DEF IInv, AckedIsHeld
  <2>12. SelectiveHasGap'
    <3> SUFFICES ASSUME NEW q \in Entries(sent),
                        sent[q] = "acked" \/ SelectivelyAcked(q)', q \notin received'
                 PROVE  \E m \in Packets :
                   /\ m < q /\ m <= cumAck' /\ sent[m] = "out" /\ ~SelectivelyAcked(m)'
                   /\ \A b \in acks' : b.cum /\ m <= b.ack => q <= b.ack
      BY <1>2 DEF SelectiveHasGap, GapBefore, Entries
    <3>1. q \in Packets
      BY DEF Entries
    <3>2. \A r : SelectivelyAcked(r)' <=> SelectivelyAcked(r)
      BY <2>2, <2>3 DEF SelectivelyAcked
    <3>3. GapBefore(q) /\ q \in Held
      BY <3>1, <3>2 DEF IInv, SelectiveHasGap, AckedIsHeld, Answering, SelectivelyAcked
    <3>4. CASE q \in received
      <4>1. q \in (p + 1)..c
        BY <3>4, <2>1
      <4>2. p < q /\ p <= cumAck' /\ ~SelectivelyAcked(p)'
        BY <4>1, <3>1, <3>2, <1>5, <2>1 DEF SelectivelyAcked
      <4>3. \A b \in acks' : b.cum /\ p <= b.ack => q <= b.ack
        BY <4>1, <3>1, <1>4, <1>7, <2>2, <2>3, <2>7 DEF Ack
      <4> QED
        BY <4>2, <4>3, <1>3
    <3>5. CASE q \notin received
      <4>1. q <= cumAck
        BY <3>1, <3>3, <3>5 DEF Held
      <4>2. PICK m \in Packets :
              /\ m < q /\ m <= cumAck /\ sent[m] = "out" /\ ~SelectivelyAcked(m)
              /\ \A b \in acks : b.cum /\ m <= b.ack => q <= b.ack
        BY <3>3, <3>5 DEF GapBefore
      <4>3. q <= new.ack
        BY <4>1, <3>1, <1>4, <1>7, <2>1, <2>2
      <4>4. \A b \in acks' : b.cum /\ m <= b.ack => q <= b.ack
        BY <4>2, <4>3, <2>3
      <4>5. m <= cumAck'
        BY <4>2, <1>4, <1>7, <2>1
      <4> QED
        BY <4>2, <4>4, <4>5, <3>2
    <3> QED
      BY <3>4, <3>5
  <2> QED
    BY <1>6, <2>4, <2>6, <2>8, <2>9, <2>10, <2>11, <2>12 DEF IInv
<1>8. CASE p > cumAck + 1
  <2> DEFINE new == [pkt |-> p, cum |-> FALSE, ack |-> p]
  <2>1. /\ received' = received \cup {p} /\ cumAck' = cumAck
        /\ acks' = acks \cup {new}
    BY <1>4, <1>8 DEF ReceiveData
  <2>2. new \in Ack /\ new.pkt = p /\ ~new.cum /\ new.ack = p
    BY DEF Ack
  <2> HIDE DEF new
  <2>3. TypeOK'
    BY <1>1, <1>2, <1>3, <1>4, <2>1, <2>2 DEF TypeOK
  <2>4. \A q \in Packets : q \in Held' <=> q \in Held \/ q = p
    BY <2>1 DEF Held
  <2>5. Travelling'
    BY <1>2, <1>3, <2>4 DEF IInv, Travelling
  <2>6. Answering'
    <3>1. \A a \in acks' : a.pkt \in Held' /\ sent'[a.pkt] \in {"out", "erased"}
      BY <1>2, <1>3, <1>4, <2>1, <2>2, <2>4 DEF IInv, Answering, Ack
    <3>2. \A a \in acks' : IF a.cum THEN a.pkt <= a.ack /\ a.ack <= cumAck'
                                    ELSE a.ack = a.pkt
      BY <1>4, <2>1, <2>2 DEF IInv, Answering
    <3>3. \A a, b \in acks' : a.pkt = b.pkt => a = b
      BY <1>5, <2>1, <2>2 DEF IInv, Answering
    <3> QED
      BY <3>1, <3>2, <3>3 DEF Answering
  <2>7. CumulativeRangesDisjoint'
    BY <2>1, <2>2 DEF IInv, CumulativeRangesDisjoint
  <2>8. HeldBeyondGap'
    BY <1>8, <2>1 DEF IInv, HeldBeyondGap
  <2>9. AckedIsHeld'
    BY <1>2, <2>1, <2>4 DEF IInv, AckedIsHeld
  <2>10. SelectiveHasGap'
    <3> SUFFICES ASSUME NEW q \in Entries(sent),
                        sent[q] = "acked" \/ SelectivelyAcked(q)', q \notin received'
                 PROVE  \E m \in Packets :
                   /\ m < q /\ m <= cumAck /\ sent[m] = "out" /\ ~SelectivelyAcked(m)'
                   /\ \A b \in acks' : b.cum /\ m <= b.ack => q <= b.ack
      BY <1>2, <2>1 DEF SelectiveHasGap, GapBefore, Entries
    <3>1. q # p /\ q \notin received
      BY <2>1
    <3>2. \A r : r # p => (SelectivelyAcked(r)' <=> SelectivelyAcked(r))
      BY <2>1, <2>2 DEF SelectivelyAcked
    <3>3. GapBefore(q)
      BY <3>1, <3>2 DEF IInv, SelectiveHasGap
    <3>4. PICK m \in Packets :
              /\ m < q /\ m <= cumAck /\ sent[m] = "out" /\ ~SelectivelyAcked(m)
              /\ \A b \in acks : b.cum /\ m <= b.ack => q <= b.ack
      BY <3>1, <3>3 DEF GapBefore
    <3>5. m # p
      BY <3>4, <1>4
    <3> QED
      BY <3>2, <3>4, <3>5, <2>1, <2>2
  <2> QED
    BY <1>6, <2>3, <2>5, <2>6, <2>7, <2>8, <2>9, <2>10 DEF IInv
<1> QED
  BY <1>4, <1>7, <1>8
-----------------------------------------------------------------------------
(* The theorems                                                                 *)

LEMMA InvariantInitially == Init => IInv
<1> SUFFICES ASSUME Init PROVE IInv
  OBVIOUS
<1> USE DEF Init
<1>1. TypeOK
  <2>1. sent \in [Packets -> Status] /\ data \in [Packets -> Nat]
    BY DEF Status
  <2>2. /\ received \subseteq Packets /\ headers \subseteq Packets
        /\ nacks \subseteq Packets /\ acks \subseteq Ack
    OBVIOUS
  <2>3. /\ highest \in 0..N /\ cumAck \in 0..N /\ losses \in 0..MaxLoss
        /\ unacked \in Nat /\ nackRtx \in Int
    OBVIOUS
  <2>4. started \in BOOLEAN /\ rtxPending \in BOOLEAN /\ finished \in BOOLEAN
    BY Zenon
  <2>5. cwnd \in Windows
    OBVIOUS
  <2> HIDE DEF Init
  <2> QED
    BY <2>1, <2>2, <2>3, <2>4, <2>5, Zenon DEF TypeOK
<1>2. Held = {}
  BY DEF Held
<1>3. SentInOrder /\ Travelling
  BY <1>2 DEF SentInOrder, Travelling
<1>4. Answering /\ CumulativeRangesDisjoint /\ HeldBeyondGap
  BY DEF Answering, CumulativeRangesDisjoint, HeldBeyondGap
<1>5. AckedIsHeld /\ SelectiveHasGap /\ FinishedIsErased
  BY DEF AckedIsHeld, SelectiveHasGap, FinishedIsErased, Entries
<1> QED
  BY <1>1, <1>3, <1>4, <1>5 DEF IInv

LEMMA InvariantPreserved == IInv /\ [Next]_vars => IInv'
<1> SUFFICES ASSUME IInv, [Next]_vars PROVE IInv'
  OBVIOUS
<1>1. CASE StartFlow
  BY <1>1, StartFlowStep
<1>2. CASE \E a \in acks : ReceiveAck(a)
  BY <1>2, ReceiveAckStep
<1>3. CASE \E p \in Packets : ReceiveNack(p)
  BY <1>3, ReceiveNackStep
<1>4. CASE \E p \in Packets : ReceiveData(p)
  BY <1>4, ReceiveDataStep
<1>5. CASE \E p \in Packets : ReceiveTrimmed(p)
  BY <1>5, ReceiveTrimmedStep
<1>6. CASE \E p \in Packets : Trim(p) \/ BackToSender(p)
  BY <1>6, TrimStep
<1>7. CASE Drop
  BY <1>7, DropStep
<1>8. CASE UNCHANGED vars
  BY <1>8, SMTT(60) DEF vars, srcVars, sinkVars, netVars, IInv, TypeOK, SentInOrder, Travelling,
              Answering, CumulativeRangesDisjoint, HeldBeyondGap, AckedIsHeld,
              SelectiveHasGap, GapBefore, SelectivelyAcked, FinishedIsErased, Held,
              Entries
<1> QED
  BY <1>1, <1>2, <1>3, <1>4, <1>5, <1>6, <1>7, <1>8 DEF Next

\* The inductive invariant holds in every reachable state, for every flow
\* length, packet size, set of windows and number of losses.
THEOREM Invariance == Spec => []IInv
  BY InvariantInitially, InvariantPreserved, PTL DEF Spec

\* Every variable keeps its type: no window, packet number or counter of the
\* sender or the receiver leaves its range.
THEOREM TypeCorrect == Spec => []TypeOK
<1>1. IInv => TypeOK
  BY DEF IInv
<1> QED
  BY <1>1, Invariance, PTL

\* The assertions of mark_received, processNack and processBts never fail:
\* the answer to the TODO of processNack is no.
THEOREM AssertionsNeverFail == Spec => []AssertionsHold
<1>1. IInv => AssertionsHold
  BY AckAlwaysFinds, NackAlwaysFinds DEF AssertionsHold
<1> QED
  BY <1>1, Invariance, PTL

\* The branch of mark_received that "should not happen" does not, even when
\* acknowledgements are lost or reordered.
THEOREM FrontNeverSelective == Spec => []FrontIsAckedCumulatively
<1>1. IInv => FrontIsAckedCumulatively
  BY FrontNotSelective DEF FrontIsAckedCumulatively
<1> QED
  BY <1>1, Invariance, PTL

\* What the sender takes for acknowledged the receiver holds.
THEOREM AcknowledgedIsHeld == Spec => []AckedIsHeld
<1>1. IInv => AckedIsHeld
  BY DEF IInv
<1> QED
  BY <1>1, Invariance, PTL

\* No packet is ever in flight twice, in whatever form.
THEOREM OneCopy == Spec => []OneCopyInFlight
<1>1. ASSUME IInv, NEW p \in Packets PROVE InFlight(p) <= 1
  <2>1. data[p] \in Nat
    BY <1>1 DEF IInv, TypeOK
  <2>2. CASE AcksOf(p) = {}
    <3>1. Cardinality(AcksOf(p)) = 0
      BY <2>2, FS_EmptySet
    <3> QED
      BY <1>1, <2>1, <3>1 DEF InFlight, IInv, Travelling
  <2>3. CASE AcksOf(p) # {}
    <3>1. PICK a \in acks : a.pkt = p
      BY <2>3 DEF AcksOf
    <3>2. AcksOf(p) = {a}
      BY <1>1, <3>1 DEF AcksOf, IInv, Answering
    <3>3. Cardinality(AcksOf(p)) = 1
      BY <3>2, FS_Singleton
    <3>4. p \in Held
      BY <1>1, <3>1 DEF IInv, Answering
    <3>5. data[p] = 0 /\ p \notin headers /\ p \notin nacks
      BY <1>1, <2>1, <3>4 DEF IInv, Travelling
    <3> QED
      BY <3>3, <3>5 DEF InFlight
  <2> QED
    BY <2>2, <2>3
<1>2. IInv => OneCopyInFlight
  BY <1>1 DEF OneCopyInFlight
<1> QED
  BY <1>2, Invariance, PTL

\* A flow is reported finished only once the receiver holds all of it.
LEMMA FinishedComplete ==
    ASSUME IInv, finished
    PROVE  cumAck = N /\ highest = N /\ Entries(sent) = {} /\ nacks = {}
<1>1. /\ \A p \in Packets : sent[p] = "erased"
      /\ cumAck \in 0..N /\ highest \in 0..N /\ nacks \subseteq Packets
  BY DEF IInv, FinishedIsErased, TypeOK
<1>2. N \in Packets
  OBVIOUS
<1>3. cumAck = N /\ highest = N
  BY <1>1, <1>2 DEF IInv, AckedIsHeld, SentInOrder
<1>4. Entries(sent) = {}
  BY <1>1 DEF Entries
<1>5. nacks = {}
  BY <1>1 DEF IInv, Travelling
<1> QED
  BY <1>3, <1>4, <1>5

THEOREM FinishedMeansComplete == Spec => []FinishedIsComplete
<1>1. IInv => FinishedIsComplete
  BY FinishedComplete DEF FinishedIsComplete
<1> QED
  BY <1>1, Invariance, PTL

-----------------------------------------------------------------------------
(* Reliable transfer is implemented                                             *)

\* A data packet that arrives is accepted for the first time, and the
\* cumulative acknowledgement becomes the longest prefix held.
LEMMA ArrivalAccepts ==
    ASSUME IInv, NEW p \in Packets, ReceiveData(p)
    PROVE  Transfer!Accept(p)
<1>1. /\ data[p] > 0 /\ finished' = finished
      /\ cumAck \in 0..N /\ received \subseteq Packets
  BY DEF ReceiveData, srcVars, IInv, TypeOK
<1>2. p \notin Held /\ p > cumAck
  BY <1>1 DEF IInv, Travelling, Held
<1>3. CASE p = cumAck + 1
  <2>1. PICK c \in p..N :
            /\ (p + 1)..c \subseteq received /\ c + 1 \notin received
            /\ cumAck' = c /\ received' = received \ ((p + 1)..c)
    BY <1>1, <1>3 DEF ReceiveData
  <2>2. Held' = Held \cup {p}
    BY <1>1, <1>3, <2>1 DEF Held
  <2>3. 1..c \subseteq Held' /\ c + 1 \notin Held'
    BY <1>1, <2>1 DEF Held
  <2> QED
    BY <1>1, <1>2, <2>1, <2>2, <2>3 DEF Transfer!Accept, Transfer!IsFrontier
<1>4. CASE p > cumAck + 1
  <2>1. received' = received \cup {p} /\ cumAck' = cumAck
    BY <1>1, <1>4 DEF ReceiveData
  <2>2. Held' = Held \cup {p}
    BY <2>1 DEF Held
  <2>3. 1..cumAck \subseteq Held' /\ cumAck + 1 \notin Held'
    BY <1>1, <1>4, <2>1 DEF Held, IInv, HeldBeyondGap
  <2> QED
    BY <1>1, <1>2, <2>1, <2>2, <2>3 DEF Transfer!Accept, Transfer!IsFrontier
<1> QED
  BY <1>1, <1>2, <1>3, <1>4

\* An acknowledgement changes nothing of the receiver and finishes the flow only
\* when it is complete.
LEMMA AckFinishes ==
    ASSUME IInv, IInv', NEW a \in acks, ReceiveAck(a)
    PROVE  Transfer!Finish \/ UNCHANGED <<Held, cumAck, finished>>
<1>1. UNCHANGED <<Held, cumAck>>
  BY DEF ReceiveAck, sinkVars, Held
<1>2. CASE finished' = finished
  BY <1>1, <1>2
<1>3. CASE finished' # finished
  <2>1. ~finished /\ finished' = TRUE
    BY <1>3 DEF ReceiveAck
  <2>2. \A p \in Packets : sent'[p] = "erased"
    BY <2>1 DEF IInv, FinishedIsErased
  <2>3. cumAck = N
    <3>1. N \in Packets /\ cumAck' \in 0..N
      BY DEF IInv, TypeOK
    <3> QED
      BY <1>1, <2>2, <3>1 DEF IInv, AckedIsHeld
  <2> QED
    BY <1>1, <2>1, <2>3 DEF Transfer!Finish
<1> QED
  BY <1>2, <1>3

\* The flow implements ReliableTransfer: each packet is accepted once, the
\* cumulative acknowledgement is the longest prefix held, and completion is
\* reported once, for the whole flow.
THEOREM Refinement == Spec => ImplementsTransfer
<1>1. Init => Transfer!Init
  BY DEF Init, Transfer!Init, Held
<1>2. IInv /\ IInv' /\ [Next]_vars => [Transfer!Next]_(Transfer!vars)
  <2> SUFFICES ASSUME IInv, IInv', [Next]_vars
               PROVE  [Transfer!Next]_(Transfer!vars)
    OBVIOUS
  <2> USE DEF Transfer!vars
  <2>1. CASE \E p \in Packets : ReceiveData(p)
    BY <2>1, ArrivalAccepts DEF Transfer!Next, Transfer!Packets
  <2>2. CASE \E a \in acks : ReceiveAck(a)
    BY <2>2, AckFinishes DEF Transfer!Next
  <2>3. CASE StartFlow
    BY <2>3 DEF StartFlow, sinkVars, Held
  <2>4. CASE \E p \in Packets : ReceiveNack(p)
    BY <2>4 DEF ReceiveNack, sinkVars, Held
  <2>5. CASE \E p \in Packets : ReceiveTrimmed(p) \/ Trim(p) \/ BackToSender(p)
    BY <2>5 DEF ReceiveTrimmed, Trim, BackToSender, srcVars, sinkVars, Held
  <2>6. CASE Drop
    BY <2>6 DEF Drop, srcVars, sinkVars, Held
  <2>7. CASE UNCHANGED vars
    BY <2>7 DEF vars, srcVars, sinkVars, Held
  <2> QED
    BY <2>1, <2>2, <2>3, <2>4, <2>5, <2>6, <2>7 DEF Next
<1> QED
  BY <1>1, <1>2, Invariance, PTL DEF Spec, ImplementsTransfer, Transfer!Spec

-----------------------------------------------------------------------------
(* A NACK that could not be answered is remembered *)

\* send_packets keeps NackedIsRemembered: it launches, and never nacks.
LEMMA SendingRemembers ==
    ASSUME NEW st \in [Packets -> Status], NEW w, NEW rtx \in BOOLEAN, NEW h,
           NEW sending, NEW base, NEW nk,
           SendPackets(st, w, rtx, h, sending, base, nk),
           With(st, "nacked") # {} => rtx
    PROVE  NackedIsRemembered'
<1> DEFINE again == IF rtx THEN Resent(st, w) ELSE {}
           st1   == Launch(st, again)
           fresh == Fresh(st1, w, h)
<1>1. sent' = Launch(st1, fresh) /\ rtxPending' = (rtx /\ With(st1, "nacked") # {})
  BY DEF SendPackets
<1> HIDE DEF again, fresh
<1>2. With(st1, "nacked") \subseteq With(st, "nacked")
  BY DEF Launch, With
<1>3. With(Launch(st1, fresh), "nacked") \subseteq With(st1, "nacked")
  BY DEF Launch, With
<1>4. With(sent, "nacked")' = With(Launch(st1, fresh), "nacked")
  BY <1>1 DEF With
<1> HIDE DEF st1
<1> QED
  BY <1>1, <1>2, <1>3, <1>4, Zenon DEF NackedIsRemembered

\* No acknowledgement makes an entry nacked.
LEMMA AckingNacksNone ==
    ASSUME NEW st \in [Packets -> Status], NEW a \in Ack
    PROVE  With(MarkReceived(st, a), "nacked") \subseteq With(st, "nacked")
<1>1. \A gone : With(EraseFront(st, gone), "nacked") \subseteq With(st, "nacked")
  BY DEF EraseFront, With
<1>2. With([st EXCEPT ![a.pkt] = "acked"], "nacked") \subseteq With(st, "nacked")
  BY DEF With
<1> QED
  BY <1>1, <1>2 DEF MarkReceived

\* Every step keeps it; the type invariant says that entries have a status.
LEMMA RememberedPreserved ==
    TypeOK /\ NackedIsRemembered /\ [Next]_vars => NackedIsRemembered'
<1> SUFFICES ASSUME TypeOK, NackedIsRemembered, [Next]_vars
             PROVE  NackedIsRemembered'
  OBVIOUS
<1>1. sent \in [Packets -> Status] /\ rtxPending \in BOOLEAN /\ acks \subseteq Ack
  BY DEF TypeOK
<1>2. With(sent, "nacked") # {} => rtxPending
  BY DEF NackedIsRemembered
<1>3. CASE StartFlow
  BY <1>1, <1>2, <1>3, SendingRemembers DEF StartFlow
<1>4. ASSUME NEW a \in acks, ReceiveAck(a)
      PROVE  NackedIsRemembered'
  <2> DEFINE st == MarkReceived(sent, a)
  <2>1. a \in Ack
    BY <1>1
  <2>2. st \in [Packets -> Status] /\ With(st, "nacked") \subseteq With(sent, "nacked")
    BY <1>1, <2>1, MarkReceivedType, AckingNacksNone
  <2>3. With(st, "nacked") # {} => rtxPending
    BY <1>2, <2>2
  <2>4. \/ sent' = st /\ rtxPending' = rtxPending
        \/ \E w, h, base, nk : SendPackets(st, w, rtxPending, h, {}, base, nk)
    BY <1>4, Zenon DEF ReceiveAck
  <2> HIDE DEF st
  <2>5. CASE sent' = st /\ rtxPending' = rtxPending
    BY <2>3, <2>5 DEF NackedIsRemembered, With
  <2> QED
    BY <1>1, <2>2, <2>3, <2>4, <2>5, SendingRemembers
<1>5. ASSUME NEW p \in Packets, ReceiveNack(p)
      PROVE  NackedIsRemembered'
  <2> DEFINE marked == [sent EXCEPT ![p] = "nacked"]
  <2>1. marked \in [Packets -> Status] /\ Launch(marked, {p}) \in [Packets -> Status]
    BY <1>1 DEF Status, Launch
  <2>2. With(Launch(marked, {p}), "nacked") \subseteq With(sent, "nacked")
    BY <1>1 DEF Launch, With
  <2>3. \/ \E base, nk : SendPackets(Launch(marked, {p}), cwnd', rtxPending, highest,
                                     {p}, base, nk)
        \/ \E base, nk : SendPackets(marked, cwnd', TRUE, highest, {}, base, nk)
    BY <1>5, Zenon DEF ReceiveNack
  <2> HIDE DEF marked
  <2>4. With(Launch(marked, {p}), "nacked") # {} => rtxPending
    BY <1>2, <2>2
  <2> QED
    BY <1>1, <2>1, <2>3, <2>4, SendingRemembers
<1>6. CASE UNCHANGED <<sent, rtxPending>>
  BY <1>2, <1>6 DEF NackedIsRemembered, With
<1>7. ASSUME NEW p \in Packets,
             ReceiveData(p) \/ ReceiveTrimmed(p) \/ Trim(p) \/ BackToSender(p)
      PROVE  NackedIsRemembered'
  BY <1>6, <1>7 DEF ReceiveData, ReceiveTrimmed, Trim, BackToSender, srcVars
<1>8. CASE Drop
  BY <1>6, <1>8 DEF Drop, srcVars
<1>9. CASE UNCHANGED vars
  BY <1>6, <1>9 DEF vars, srcVars
<1> QED
  BY <1>3, <1>4, <1>5, <1>7, <1>8, <1>9 DEF Next

\* A NACK that found the window full is never forgotten: as long as a packet
\* waits for its retransmission, _rtx_pending makes the next call of send_packets
\* try it again.
THEOREM NackedRemembered == Spec => []NackedIsRemembered
<1>1. Init => NackedIsRemembered
  BY DEF Init, NackedIsRemembered, With
<1> QED
  BY <1>1, RememberedPreserved, TypeCorrect, PTL DEF Spec

-----------------------------------------------------------------------------
(* Sets of packets and their sizes *)

LEMMA PacketSets ==
    ASSUME NEW S \in SUBSET Packets
    PROVE  IsFiniteSet(S) /\ Cardinality(S) \in Nat
<1>1. IsFiniteSet(1..N)
  BY FS_Interval
<1>2. IsFiniteSet(S)
  BY <1>1, FS_Subset
<1> QED
  BY <1>2, FS_CardinalityType

LEMMA DisjointSizes ==
    ASSUME NEW S \in SUBSET Packets, NEW T \in SUBSET Packets, S \cap T = {}
    PROVE  Cardinality(S \cup T) = Cardinality(S) + Cardinality(T)
<1>1. IsFiniteSet(S) /\ IsFiniteSet(T)
  BY PacketSets
<1>2. Cardinality(S \cup T) = Cardinality(S) + Cardinality(T) - Cardinality(S \cap T)
  BY <1>1, FS_Union
<1>3. Cardinality(S \cap T) = 0
  BY FS_EmptySet
<1>4. Cardinality(S) \in Nat /\ Cardinality(T) \in Nat
  BY PacketSets
<1> QED
  BY <1>2, <1>3, <1>4

LEMMA RemovedSize ==
    ASSUME NEW S \in SUBSET Packets, NEW T \in SUBSET S
    PROVE  Cardinality(S \ T) = Cardinality(S) - Cardinality(T)
<1> DEFINE R == S \ T
<1>1. R \in SUBSET Packets /\ T \in SUBSET Packets /\ R \cap T = {} /\ S = R \cup T
  OBVIOUS
<1> HIDE DEF R
<1>2. Cardinality(R \cup T) = Cardinality(R) + Cardinality(T)
  BY <1>1, DisjointSizes
<1>3. Cardinality(R) \in Nat /\ Cardinality(T) \in Nat
  BY <1>1, PacketSets
<1>4. Cardinality(R) = Cardinality(S) - Cardinality(T)
  BY <1>1, <1>2, <1>3
<1> QED
  BY <1>4 DEF R

LEMMA SubsetSize ==
    ASSUME NEW S \in SUBSET Packets, NEW T \in SUBSET S
    PROVE  Cardinality(T) <= Cardinality(S)
  BY PacketSets, FS_Subset

LEMMA SingleSize ==
    ASSUME NEW S \in SUBSET Packets, NEW p \in Packets
    PROVE  /\ p \notin S => Cardinality(S \cup {p}) = Cardinality(S) + 1
           /\ p \in S => Cardinality(S \ {p}) = Cardinality(S) - 1 /\ Cardinality(S) >= 1
<1>1. Cardinality({p}) = 1
  BY FS_Singleton
<1>2. CASE p \notin S
  BY <1>1, <1>2, DisjointSizes
<1>3. CASE p \in S
  <2>1. Cardinality(S \ {p}) = Cardinality(S) - 1
    BY <1>1, <1>3, RemovedSize
  <2>2. Cardinality({p}) <= Cardinality(S)
    BY <1>3, SubsetSize
  <2> QED
    BY <1>1, <1>3, <2>1, <2>2, PacketSets
<1> QED
  BY <1>2, <1>3

LEMMA PrefixSize ==
    ASSUME NEW h \in 0..N, NEW k \in h..N
    PROVE  Cardinality((h + 1)..k) = k - h
<1>1. h + 1 \in Int /\ k \in Int
  OBVIOUS
<1>2. Cardinality((h + 1)..k) = IF h + 1 > k THEN 0 ELSE k - (h + 1) + 1
  BY <1>1, FS_Interval
<1> QED
  BY <1>2

\* A set of natural numbers that is not empty has a least element.
LEMMA LeastNatural ==
    ASSUME NEW S \in SUBSET Nat, S # {}
    PROVE  \E m \in S : \A k \in S : m <= k
<1> DEFINE R == StrictSubsetOrdering(Nat)
           T == {1..n : n \in S}
<1>1. IsWellFoundedOn(R, FiniteSubsetsOf(Nat))
  BY FS_StrictSubsetOrderingWellFounded
<1>2. T \subseteq FiniteSubsetsOf(Nat) /\ T # {}
  <2>1. \A n \in Nat : IsFiniteSet(1..n) /\ 1..n \subseteq Nat
    BY FS_Interval
  <2> QED
    BY <2>1 DEF FiniteSubsetsOf
<1>3. PICK t \in T : \A u \in T : ~(<<u, t>> \in R)
  <2> HIDE DEF R, T
  <2> QED
    BY <1>1, <1>2, WFMin
<1>4. PICK m \in S : t = 1..m
  OBVIOUS
<1>5. ASSUME NEW k \in S, k < m
      PROVE  FALSE
  <2>1. 1..k \subseteq 1..m /\ m \in 1..m /\ m \notin 1..k
    BY <1>5
  <2>2. <<1..k, 1..m>> \in R
    BY <2>1 DEF StrictSubsetOrdering
  <2> QED
    BY <1>3, <1>4, <2>2
<1> QED
  BY <1>5

\* A set of packets that is not empty has a last one.
LEMMA LastPacket ==
    ASSUME NEW S \in SUBSET Packets, S # {}
    PROVE  \E m \in S : \A q \in S : q <= m
<1> DEFINE above == {n \in Nat : \A q \in S : q <= n}
<1>1. N \in above
  OBVIOUS
<1>2. PICK m \in above : \A k \in above : m <= k
  BY <1>1, LeastNatural
<1>3. CASE m \in S
  BY <1>2, <1>3
<1>4. CASE m \notin S
  <2>1. m \in Nat /\ \A q \in S : q \in Nat /\ q >= 1 /\ q <= m
    OBVIOUS
  <2>2. PICK r \in S : TRUE
    OBVIOUS
  <2>3. m - 1 \in Nat
    BY <2>1, <2>2
  <2>4. \A q \in S : q <= m - 1
    <3>1. \A q \in S : q # m
      BY <1>4
    <3> QED
      BY <2>1, <2>3, <3>1
  <2>5. m - 1 \in above
    BY <2>3, <2>4
  <2> HIDE DEF above
  <2>6. m <= m - 1
    BY <1>2, <2>5
  <2> QED
    BY <2>1, <2>6
<1> QED
  BY <1>3, <1>4

-----------------------------------------------------------------------------
(* The packets in flight                                                         *)

\* The packets of which a copy, a header, a NACK or an acknowledgement is on its
\* way, given the copies d of data packets and the sets of the others.
OnTheWay(d, hs, ns, as) ==
    {p \in Packets : d[p] > 0 \/ p \in hs \/ p \in ns \/ \E a \in as : a.pkt = p}

LEMMA InFlightMeans ==
    ASSUME IInv
    PROVE  {p \in Packets : InFlight(p) > 0} = OnTheWay(data, headers, nacks, acks)
<1> SUFFICES ASSUME NEW p \in Packets
             PROVE  InFlight(p) > 0 <=> p \in OnTheWay(data, headers, nacks, acks)
  BY DEF OnTheWay
<1>1. data[p] \in Nat
  BY DEF IInv, TypeOK
<1>2. CASE AcksOf(p) = {}
  <2>1. Cardinality(AcksOf(p)) = 0
    BY <1>2, FS_EmptySet
  <2>2. ~\E a \in acks : a.pkt = p
    BY <1>2 DEF AcksOf
  <2> QED
    BY <1>1, <2>1, <2>2 DEF InFlight, OnTheWay
<1>3. CASE AcksOf(p) # {}
  <2>1. PICK a \in acks : a.pkt = p
    BY <1>3 DEF AcksOf
  <2>2. AcksOf(p) = {a}
    BY <2>1 DEF AcksOf, IInv, Answering
  <2>3. Cardinality(AcksOf(p)) = 1
    BY <2>2, FS_Singleton
  <2> QED
    BY <1>1, <2>1, <2>3 DEF InFlight, OnTheWay
<1> QED
  BY <1>2, <1>3

\* The counters, given the entries st and the packets S on the way.
Counted(st, S) ==
    /\ nackRtx = Cardinality(With(st, "nacked"))
    /\ unacked = Mss * (losses + Cardinality(S))

LEMMA CountersMean ==
    IInv => (CountersExact <=> Counted(sent, OnTheWay(data, headers, nacks, acks)))
  BY InFlightMeans DEF CountersExact, NackCountExact, UnackedExact, Counted

\* send_packets counts what it sends: none of it was on its way.
LEMMA SendingCounts ==
    ASSUME NEW st \in [Packets -> Status], NEW w, NEW rtx \in BOOLEAN,
           NEW sending \in SUBSET Packets, NEW base, NEW nk,
           TypeOK, losses' = losses, headers' = headers, nacks' \subseteq Packets,
           cumAck' = cumAck, received' = received,
           SendPackets(st, w, rtx, highest, sending, base, nk),
           Marked(st, OnWire(sending), nacks', acks'),
           nk = Cardinality(With(st, "nacked")),
           base = Mss * (losses + Cardinality(OnTheWay(OnWire(sending), headers,
                                                       nacks', acks')))
    PROVE  Counted(sent, OnTheWay(data, headers, nacks, acks))'
<1> DEFINE again == IF rtx THEN Resent(st, w) ELSE {}
           st1   == Launch(st, again)
           fresh == Fresh(st1, w, highest)
           S     == OnTheWay(OnWire(sending), headers, nacks', acks')
<1>1. again \in SUBSET With(st, "nacked") /\ again \in SUBSET Packets
  BY DEF Resent, With
<1>2. fresh \in SUBSET Packets /\ \A p \in fresh : p > highest
  BY DEF Fresh
<1>3. /\ sent' = Launch(st1, fresh)
      /\ nackRtx' = nk - Cardinality(again)
      /\ unacked' = base + Mss * Cardinality(again \cup fresh)
      /\ data' = [p \in Packets |->
                     data[p] + (IF p \in sending THEN 1 ELSE 0)
                             + (IF p \in again \cup fresh THEN 1 ELSE 0)]
  BY DEF SendPackets
<1>4. \A p \in again : st[p] = "nacked"
  BY DEF Resent, With
<1>5. \A p \in fresh : st[p] = "none"
  BY <1>2 DEF Marked, MarkedSent
<1>6. S \in SUBSET Packets /\ With(st, "nacked") \in SUBSET Packets
  BY DEF OnTheWay, With
<1> HIDE DEF again, fresh
<1>7. S \cap (again \cup fresh) = {}
  <2> SUFFICES ASSUME NEW p \in S, p \in again \cup fresh
               PROVE  FALSE
    OBVIOUS
  <2>1. p \in Packets /\ st[p] \in {"nacked", "none"}
    BY <1>1, <1>2, <1>4, <1>5
  <2>2. OnWire(sending)[p] \in Nat
    BY <2>1 DEF Marked
  <2>3. ~(OnWire(sending)[p] > 0) /\ p \notin headers /\ p \notin nacks'
    BY <2>1 DEF Marked, MarkedTravelling
  <2>4. ~\E a \in acks' : a.pkt = p
    BY <2>1 DEF Marked, MarkedAnswering
  <2> QED
    BY <2>3, <2>4 DEF OnTheWay
<1>8. OnTheWay(data, headers, nacks, acks)' = S \cup (again \cup fresh)
  <2>1. ASSUME NEW p \in Packets
        PROVE  data'[p] > 0 <=> OnWire(sending)[p] > 0 \/ p \in again \cup fresh
    <3> DEFINE n == data[p] + (IF p \in sending THEN 1 ELSE 0)
    <3>1. data[p] \in Nat
      BY DEF TypeOK
    <3>2. n \in Nat /\ OnWire(sending)[p] = n
      BY <3>1 DEF OnWire
    <3>3. data'[p] = n + (IF p \in again \cup fresh THEN 1 ELSE 0)
      BY <1>3
    <3> HIDE DEF n
    <3> QED
      BY <3>2, <3>3
  <2> QED
    BY <1>1, <1>2, <2>1 DEF OnTheWay
<1>9. Cardinality(OnTheWay(data, headers, nacks, acks)')
          = Cardinality(S) + Cardinality(again \cup fresh)
  <2> HIDE DEF S
  <2>1. again \cup fresh \in SUBSET Packets
    BY <1>1, <1>2
  <2> QED
    BY <1>6, <1>7, <1>8, <2>1, DisjointSizes
<1>10. unacked' = Mss * (losses' + Cardinality(OnTheWay(data, headers, nacks, acks)'))
  <2>1. Cardinality(S) \in Nat /\ Cardinality(again \cup fresh) \in Nat
    <3> HIDE DEF S
    <3>1. again \cup fresh \in SUBSET Packets
      BY <1>1, <1>2
    <3> QED
      BY <1>6, <3>1, PacketSets
  <2>2. losses \in Nat /\ Mss \in Nat
    BY DEF TypeOK
  <2> DEFINE x == Cardinality(S)
             y == Cardinality(again \cup fresh)
  <2>3. base = Mss * (losses + x) /\ unacked' = base + Mss * y
    BY <1>3
  <2>4. Cardinality(OnTheWay(data, headers, nacks, acks)') = x + y
    BY <1>9
  <2>5. x \in Nat /\ y \in Nat
    BY <2>1
  <2> HIDE DEF x, y
  <2>6. unacked' = Mss * (losses + (x + y))
    BY <2>2, <2>3, <2>5
  <2> QED
    BY <2>4, <2>6
<1>11. With(sent', "nacked") = With(st, "nacked") \ again
  <2>1. \A p \in Packets : sent'[p] = IF p \in again \cup fresh THEN "out" ELSE st[p]
    BY <1>3 DEF Launch
  <2> QED
    BY <2>1, <1>5 DEF With
<1>12. nackRtx' = Cardinality(With(sent', "nacked"))
  BY <1>1, <1>3, <1>6, <1>11, RemovedSize
<1> QED
  BY <1>10, <1>12 DEF Counted

-----------------------------------------------------------------------------
(* The steps                                                                     *)

\* Between the answer that a handler takes and its call of send_packets: the
\* answer is uncounted.
LEMMA AnswerUncounted ==
    ASSUME IInv, CountersExact, NEW p \in Packets,
           p \in OnTheWay(data, headers, nacks, acks)
    PROVE  Reduced = Mss * (losses + Cardinality(OnTheWay(data, headers, nacks, acks) \ {p}))
<1> DEFINE S == OnTheWay(data, headers, nacks, acks)
<1>1. S \in SUBSET Packets
  BY DEF OnTheWay
<1>2. unacked = Mss * (losses + Cardinality(S))
  BY CountersMean DEF Counted
<1> HIDE DEF S
<1>3. /\ Cardinality(S \ {p}) = Cardinality(S) - 1 /\ Cardinality(S) >= 1
      /\ Cardinality(S) \in Nat
  BY <1>1, SingleSize, PacketSets DEF S
<1>4. losses \in Nat
  BY DEF IInv, TypeOK
<1> DEFINE c == Cardinality(S)
<1>5. c \in Nat /\ c >= 1 /\ unacked = Mss * (losses + c)
  BY <1>2, <1>3
<1> HIDE DEF c
<1>6. Mss * (losses + c) = Mss * (losses + (c - 1)) + Mss
  BY <1>4, <1>5
<1>7. Mss * (losses + (c - 1)) \in Nat
  BY <1>4, <1>5
<1>8. Reduced = Mss * (losses + (c - 1))
  BY <1>5, <1>6, <1>7 DEF Reduced
<1> QED
  BY <1>3, <1>8 DEF S, c

LEMMA StartFlowCounts ==
    ASSUME IInv, CountersExact, StartFlow
    PROVE  Counted(sent, OnTheWay(data, headers, nacks, acks))'
<1>1. TypeOK /\ sent \in [Packets -> Status] /\ rtxPending \in BOOLEAN
  BY DEF IInv, TypeOK
<1>2. /\ SendPackets(sent, cwnd, rtxPending, highest, {}, unacked, nackRtx)
      /\ UNCHANGED <<cumAck, received, headers, nacks, acks, losses>>
  BY DEF StartFlow, sinkVars
<1>3. data = OnWire({}) /\ nacks' \subseteq Packets
  BY <1>1, <1>2 DEF TypeOK, OnWire
<1>4. Marked(sent, OnWire({}), nacks', acks')
  BY <1>2, <1>3, MarkedPresent
<1>5. Counted(sent, OnTheWay(OnWire({}), headers, nacks', acks'))
  BY <1>2, <1>3, CountersMean
<1> QED
  BY <1>1, <1>2, <1>3, <1>4, <1>5, SendingCounts DEF Counted

\* mark_received removes no entry that is nacked.
LEMMA AckKeepsNacked ==
    ASSUME IInv, NEW a \in acks
    PROVE  /\ With(MarkReceived(sent, a), "nacked") = With(sent, "nacked")
           /\ sent[a.pkt] # "nacked"
<1>1. a \in Ack /\ sent \in [Packets -> Status] /\ cumAck \in 0..N
  BY DEF IInv, TypeOK
<1>2. /\ sent[a.pkt] \in {"out", "erased"}
      /\ a.cum => a.ack <= cumAck
  BY DEF IInv, Answering
<1>3. \A p \in With(sent, "nacked") : p \in Packets /\ sent[p] = "nacked" /\ p \notin Held
  BY DEF IInv, Travelling, With
<1>4. ASSUME NEW gone, gone \cap With(sent, "nacked") = {}
      PROVE  With(EraseFront(sent, gone), "nacked") = With(sent, "nacked")
  BY <1>4 DEF EraseFront, With
<1>5. CASE a.cum
  <2> DEFINE gone == 1..a.ack \cup With(sent, "acked")
  <2>1. gone \cap With(sent, "nacked") = {}
    BY <1>1, <1>2, <1>3, <1>5 DEF Held, With, Ack
  <2>2. MarkReceived(sent, a) = EraseFront(sent, gone)
    BY <1>5 DEF MarkReceived
  <2> HIDE DEF gone
  <2> QED
    BY <1>2, <1>4, <2>1, <2>2
<1>6. CASE ~a.cum /\ IsFront(sent, a.pkt)
  <2> DEFINE gone == {a.pkt} \cup With(sent, "acked")
  <2>1. gone \cap With(sent, "nacked") = {}
    BY <1>2 DEF With
  <2>2. MarkReceived(sent, a) = EraseFront(sent, gone) \/ MarkReceived(sent, a) = sent
    BY <1>6 DEF MarkReceived
  <2> HIDE DEF gone
  <2> QED
    BY <1>2, <1>4, <2>1, <2>2
<1>7. CASE ~a.cum /\ ~IsFront(sent, a.pkt)
  <2>1. \/ MarkReceived(sent, a) = sent
        \/ MarkReceived(sent, a) = [sent EXCEPT ![a.pkt] = "acked"]
    BY <1>7 DEF MarkReceived
  <2>2. With([sent EXCEPT ![a.pkt] = "acked"], "nacked") = With(sent, "nacked")
    BY <1>1, <1>2 DEF With, Ack
  <2> QED
    BY <1>2, <2>1, <2>2
<1> QED
  BY <1>5, <1>6, <1>7

LEMMA ReceiveAckCounts ==
    ASSUME IInv, CountersExact, NEW a \in acks, ReceiveAck(a)
    PROVE  Counted(sent, OnTheWay(data, headers, nacks, acks))'
<1> DEFINE st == MarkReceived(sent, a)
           nk == IF ~a.cum /\ st[a.pkt] = "acked" /\ sent[a.pkt] = "nacked"
                 THEN nackRtx - 1 ELSE nackRtx
           S  == OnTheWay(data, headers, nacks, acks)
<1>1. TypeOK /\ sent \in [Packets -> Status] /\ highest \in 0..N /\ rtxPending \in BOOLEAN
  BY DEF IInv, TypeOK
<1>2. /\ acks' = acks \ {a} /\ a \in Ack /\ a.pkt \in Packets
      /\ UNCHANGED <<cumAck, received, headers, nacks, losses>>
  BY <1>1 DEF ReceiveAck, sinkVars, TypeOK, Ack
<1>3. data = OnWire({}) /\ nacks' \subseteq Packets
  BY <1>1, <1>2 DEF TypeOK, OnWire
<1>4. /\ Marked(st, data, nacks', acks')
      /\ Marked(st, OnWire({}), nacks', acks')
  BY <1>2, <1>3, AckMarks
<1>5. nk = nackRtx /\ nackRtx = Cardinality(With(st, "nacked"))
  BY AckKeepsNacked, CountersMean DEF Counted
<1>6. a.pkt \in S /\ OnTheWay(data, headers, nacks', acks') = S \ {a.pkt}
  <2>1. a.pkt \in Held
    BY DEF IInv, Answering
  <2>2. /\ ~(data[a.pkt] > 0) /\ a.pkt \notin headers /\ a.pkt \notin nacks
    BY <1>2, <2>1 DEF IInv, Travelling
  <2>3. \A b \in acks : b.pkt = a.pkt => b = a
    BY DEF IInv, Answering
  <2> QED
    BY <1>2, <2>2, <2>3 DEF OnTheWay
<1>7. Reduced = Mss * (losses + Cardinality(OnTheWay(data, headers, nacks', acks')))
  BY <1>2, <1>6, AnswerUncounted
<1>8. CASE a.ack >= N /\ Entries(st) = {} /\ ~finished
  <2>1. sent' = st /\ unacked' = Reduced /\ nackRtx' = nk /\ data' = data
    BY <1>8 DEF ReceiveAck
  <2> HIDE DEF st, nk
  <2> QED
    BY <1>2, <1>5, <1>7, <2>1 DEF Counted
<1>9. CASE ~(a.ack >= N /\ Entries(st) = {} /\ ~finished)
  <2>1. SendPackets(st, cwnd', rtxPending,
                    IF a.ack >= highest THEN a.ack ELSE highest, {}, Reduced, nk)
    BY <1>9 DEF ReceiveAck
  <2>2. (IF a.ack >= highest THEN a.ack ELSE highest) = highest
    BY <1>1, <1>2, AckWithinSent DEF Ack
  <2> HIDE DEF st, nk
  <2>3. SendPackets(st, cwnd', rtxPending, highest, {}, Reduced, nk)
    BY <2>1, <2>2
  <2>4. st \in [Packets -> Status]
    BY <1>4 DEF Marked
  <2> QED
    BY <1>1, <1>2, <1>3, <1>4, <1>5, <1>7, <2>3, <2>4, SendingCounts
<1> QED
  BY <1>8, <1>9

LEMMA ReceiveNackCounts ==
    ASSUME IInv, CountersExact, NEW p \in Packets, ReceiveNack(p)
    PROVE  Counted(sent, OnTheWay(data, headers, nacks, acks))'
<1> DEFINE nk     == IF sent[p] = "nacked" THEN nackRtx ELSE nackRtx + 1
           marked == [sent EXCEPT ![p] = "nacked"]
           S      == OnTheWay(data, headers, nacks, acks)
<1>1. /\ TypeOK /\ sent \in [Packets -> Status] /\ rtxPending \in BOOLEAN
      /\ data \in [Packets -> Nat] /\ losses \in Nat
  BY SMTT(60) DEF IInv, TypeOK
<1>2. /\ p \in nacks /\ nacks' = nacks \ {p} /\ acks' = acks /\ nacks' \subseteq Packets
      /\ UNCHANGED <<cumAck, received, headers, losses>>
  BY <1>1 DEF ReceiveNack, sinkVars, TypeOK
<1>3. sent[p] = "out"
  BY <1>2, NackAlwaysFinds
<1>4. /\ ~(data[p] > 0) /\ p \notin headers /\ ~\E a \in acks : a.pkt = p
  BY <1>2 DEF IInv, Travelling, Answering
<1>5. p \in S /\ OnTheWay(data, headers, nacks', acks') = S \ {p}
  BY <1>2, <1>4 DEF OnTheWay
<1>6. Reduced = Mss * (losses + Cardinality(S \ {p}))
  BY <1>5, AnswerUncounted
<1>7. S \in SUBSET Packets /\ nackRtx = Cardinality(With(sent, "nacked"))
  BY CountersMean DEF OnTheWay, Counted
<1>8. nk = nackRtx + 1
  BY <1>3
<1> HIDE DEF nk
<1>9. CASE GetUnacked(marked) < cwnd'
  <2>1. SendPackets(Launch(marked, {p}), cwnd', rtxPending, highest, {p},
                    Reduced + Mss, nk - 1)
    BY <1>9 DEF ReceiveNack, nk
  <2>2. Launch(marked, {p}) = sent /\ Marked(sent, OnWire({p}), nacks', acks')
    BY <1>2, ResendMarks
  <2> HIDE DEF marked
  <2>3. nk - 1 = nackRtx
    BY <1>1, <1>8 DEF TypeOK
  <2>4. SendPackets(sent, cwnd', rtxPending, highest, {p}, Reduced + Mss, nackRtx)
    BY <2>1, <2>2, <2>3
  <2>5. OnTheWay(OnWire({p}), headers, nacks', acks') = S
    <3>1. \A q \in Packets : OnWire({p})[q] > 0 <=> q = p \/ data[q] > 0
      BY <1>1 DEF OnWire
    <3> QED
      BY <1>2, <3>1 DEF OnTheWay
  <2>6. Reduced + Mss = Mss * (losses + Cardinality(S))
    <3> DEFINE c == Cardinality(S)
    <3>1. c \in Nat /\ Cardinality(S \ {p}) = c - 1
      <4> HIDE DEF S
      <4> QED
        BY <1>5, <1>7, SingleSize, PacketSets
    <3>2. Reduced = Mss * (losses + (c - 1))
      BY <1>6, <3>1
    <3> HIDE DEF c
    <3>3. Mss * (losses + (c - 1)) + Mss = Mss * (losses + c)
      BY <1>1, <3>1
    <3> QED
      BY <3>2, <3>3 DEF c
  <2>7. Reduced + Mss = Mss * (losses + Cardinality(OnTheWay(OnWire({p}), headers,
                                                             nacks', acks')))
    BY <2>5, <2>6
  <2> QED
    BY <1>1, <1>2, <1>7, <2>2, <2>4, <2>7, SendingCounts
<1>10. CASE ~(GetUnacked(marked) < cwnd')
  <2>1. SendPackets(marked, cwnd', TRUE, highest, {}, Reduced, nk)
    BY <1>10 DEF ReceiveNack, nk
  <2>2. Marked(marked, data, nacks', acks')
    BY <1>2, NackMarks
  <2>3. data = OnWire({})
    BY <1>1 DEF OnWire
  <2>4. With(marked, "nacked") = With(sent, "nacked") \cup {p} /\ p \notin With(sent, "nacked")
    BY <1>1, <1>3 DEF With
  <2>5. nk = Cardinality(With(marked, "nacked"))
    <3>1. With(sent, "nacked") \in SUBSET Packets
      BY DEF With
    <3> QED
      BY <1>7, <1>8, <2>4, <3>1, SingleSize
  <2> HIDE DEF marked
  <2>6. marked \in [Packets -> Status] /\ Marked(marked, OnWire({}), nacks', acks')
    BY <2>2, <2>3 DEF Marked
  <2>7. Reduced = Mss * (losses + Cardinality(OnTheWay(OnWire({}), headers,
                                                       nacks', acks')))
    BY <1>2, <1>5, <1>6, <2>3
  <2> QED
    BY <1>1, <1>2, <2>1, <2>5, <2>6, <2>7, SendingCounts
<1> QED
  BY <1>9, <1>10

LEMMA DataTaken ==
    ASSUME IInv, NEW p \in Packets, data[p] > 0, data' = [data EXCEPT ![p] = @ - 1]
    PROVE  \A q \in Packets : data'[q] > 0 <=> data[q] > 0 /\ q # p
<1>1. \A q \in Packets : data'[q] = IF q = p THEN 0 ELSE data[q]
  BY TakeData
<1>2. \A q \in Packets : data[q] \in Nat
  BY DEF IInv, TypeOK
<1> QED
  BY <1>1, <1>2

\* A packet that arrives, or is trimmed or turned around, stays on its way in
\* another form.
LEMMA FormChanges ==
    ASSUME IInv, NEW p \in Packets,
           ReceiveData(p) \/ ReceiveTrimmed(p) \/ Trim(p) \/ BackToSender(p)
    PROVE  OnTheWay(data, headers, nacks, acks)' = OnTheWay(data, headers, nacks, acks)
<1>1. CASE ReceiveTrimmed(p)
  BY <1>1 DEF ReceiveTrimmed, OnTheWay
<1>2. ASSUME data[p] > 0, data' = [data EXCEPT ![p] = @ - 1]
      PROVE  \A q \in Packets : data'[q] > 0 <=> data[q] > 0 /\ q # p
  BY <1>2, DataTaken
<1>3. CASE Trim(p) \/ BackToSender(p)
  BY <1>2, <1>3 DEF Trim, BackToSender, OnTheWay
<1>4. CASE ReceiveData(p)
  <2>1. /\ data[p] > 0 /\ data' = [data EXCEPT ![p] = @ - 1]
        /\ headers' = headers /\ nacks' = nacks
        /\ \E a : a.pkt = p /\ acks' = acks \cup {a}
    BY <1>4 DEF ReceiveData
  <2> QED
    BY <1>2, <2>1 DEF OnTheWay
<1> QED
  BY <1>1, <1>3, <1>4

\* So it stays counted.
LEMMA FormChangeCounts ==
    ASSUME IInv, CountersExact, NEW p \in Packets,
           ReceiveData(p) \/ ReceiveTrimmed(p) \/ Trim(p) \/ BackToSender(p)
    PROVE  Counted(sent, OnTheWay(data, headers, nacks, acks))'
<1>1. UNCHANGED <<sent, nackRtx, unacked, losses>>
  BY DEF ReceiveData, ReceiveTrimmed, Trim, BackToSender, srcVars
<1>2. OnTheWay(data, headers, nacks, acks)' = OnTheWay(data, headers, nacks, acks)
  BY FormChanges
<1>3. Counted(sent, OnTheWay(data, headers, nacks, acks))
  BY CountersMean
<1> QED
  BY <1>1, <1>2, <1>3 DEF Counted

\* A message that is dropped stays counted: nothing tells the sender.
LEMMA DropCounts ==
    ASSUME IInv, CountersExact, Drop
    PROVE  Counted(sent, OnTheWay(data, headers, nacks, acks))'
<1> DEFINE S == OnTheWay(data, headers, nacks, acks)
<1>1. UNCHANGED <<sent, nackRtx, unacked>> /\ losses' = losses + 1 /\ losses \in Nat
  BY DEF Drop, srcVars, IInv, TypeOK
<1>2. \E p \in S : OnTheWay(data, headers, nacks, acks)' = S \ {p}
  <2>1. /\ headers \subseteq Packets /\ nacks \subseteq Packets /\ acks \subseteq Ack
        /\ \A a, b \in acks : a.pkt = b.pkt => a = b
        /\ \A a \in acks : a.pkt \in Packets /\ a.pkt \in Held
    BY DEF IInv, TypeOK, Answering, Ack
  <2>2. \A p \in Packets :
           /\ data[p] > 0 => p \notin headers /\ p \notin nacks /\ p \notin Held
           /\ p \in headers => p \notin nacks /\ p \notin Held /\ ~(data[p] > 0)
           /\ p \in nacks => p \notin Held /\ p \notin headers /\ ~(data[p] > 0)
           /\ p \in Held => ~(data[p] > 0) /\ p \notin headers /\ p \notin nacks
    BY DEF IInv, Travelling
  <2>3. CASE \E p \in Packets : /\ data[p] > 0 /\ data' = [data EXCEPT ![p] = @ - 1]
                                /\ UNCHANGED <<headers, nacks, acks>>
    <3>1. PICK p \in Packets : /\ data[p] > 0 /\ data' = [data EXCEPT ![p] = @ - 1]
                               /\ UNCHANGED <<headers, nacks, acks>>
      BY <2>3
    <3>2. \A q \in Packets : data'[q] > 0 <=> data[q] > 0 /\ q # p
      BY <3>1, DataTaken
    <3>3. p \in S /\ OnTheWay(data, headers, nacks, acks)' = S \ {p}
      BY <2>1, <2>2, <3>1, <3>2 DEF OnTheWay
    <3> QED
      BY <3>3
  <2>4. CASE \E p \in headers : headers' = headers \ {p} /\ UNCHANGED <<data, nacks, acks>>
    <3>1. PICK p \in headers : headers' = headers \ {p} /\ UNCHANGED <<data, nacks, acks>>
      BY <2>4
    <3>2. p \in S /\ OnTheWay(data, headers, nacks, acks)' = S \ {p}
      BY <2>1, <2>2, <3>1 DEF OnTheWay
    <3> QED
      BY <3>2
  <2>5. CASE \E p \in nacks : nacks' = nacks \ {p} /\ UNCHANGED <<data, headers, acks>>
    <3>1. PICK p \in nacks : nacks' = nacks \ {p} /\ UNCHANGED <<data, headers, acks>>
      BY <2>5
    <3>2. p \in S /\ OnTheWay(data, headers, nacks, acks)' = S \ {p}
      BY <2>1, <2>2, <3>1 DEF OnTheWay
    <3> QED
      BY <3>2
  <2>6. CASE \E a \in acks : acks' = acks \ {a} /\ UNCHANGED <<data, headers, nacks>>
    <3>1. PICK a \in acks : acks' = acks \ {a} /\ UNCHANGED <<data, headers, nacks>>
      BY <2>6
    <3>2. a.pkt \in S /\ OnTheWay(data, headers, nacks, acks)' = S \ {a.pkt}
      BY <2>1, <2>2, <3>1 DEF OnTheWay
    <3> QED
      BY <3>2
  <2> QED
    BY <2>3, <2>4, <2>5, <2>6 DEF Drop
<1>3. S \in SUBSET Packets
  BY DEF OnTheWay
<1>4. unacked = Mss * (losses + Cardinality(S)) /\ nackRtx = Cardinality(With(sent, "nacked"))
  BY CountersMean DEF Counted
<1> HIDE DEF S
<1>5. /\ Cardinality(OnTheWay(data, headers, nacks, acks)') = Cardinality(S) - 1
      /\ Cardinality(S) \in Nat
  BY <1>2, <1>3, SingleSize, PacketSets
<1>6. losses' + Cardinality(OnTheWay(data, headers, nacks, acks)') = losses + Cardinality(S)
  BY <1>1, <1>5
<1>7. With(sent', "nacked") = With(sent, "nacked")
  BY <1>1
<1> QED
  BY <1>1, <1>4, <1>6, <1>7 DEF Counted

LEMMA CountersPreserved == IInv /\ IInv' /\ CountersExact /\ [Next]_vars => CountersExact'
<1> SUFFICES ASSUME IInv, IInv', CountersExact, [Next]_vars
             PROVE  CountersExact'
  OBVIOUS
<1>0. CountersExact' <=> Counted(sent, OnTheWay(data, headers, nacks, acks))'
  BY CountersMean, PTL
<1>1. CASE StartFlow
  BY <1>0, <1>1, StartFlowCounts
<1>2. CASE \E a \in acks : ReceiveAck(a)
  BY <1>0, <1>2, ReceiveAckCounts
<1>3. CASE \E p \in Packets : ReceiveNack(p)
  BY <1>0, <1>3, ReceiveNackCounts
<1>4. CASE \E p \in Packets : ReceiveData(p) \/ ReceiveTrimmed(p) \/ Trim(p) \/ BackToSender(p)
  BY <1>0, <1>4, FormChangeCounts
<1>5. CASE Drop
  BY <1>0, <1>5, DropCounts
<1>6. CASE UNCHANGED vars
  <2>1. UNCHANGED <<sent, nackRtx, unacked, losses, data, headers, nacks, acks>>
    BY <1>6 DEF vars, srcVars, netVars
  <2> QED
    BY <2>1 DEF CountersExact, NackCountExact, UnackedExact, InFlight, AcksOf, With
<1> QED
  BY <1>1, <1>2, <1>3, <1>4, <1>5, <1>6 DEF Next

\* No counter of the sender drifts: _nack_rtx_pending is the number of entries
\* waiting for a retransmission, and _unacked the bytes of the packets of which
\* something is on its way, plus those of the messages the network dropped, which
\* nothing will ever take off.
THEOREM CountersStayExact == Spec => []CountersExact
<1>1. Init => CountersExact
  <2> SUFFICES ASSUME Init PROVE CountersExact
    OBVIOUS
  <2>1. IInv
    BY InvariantInitially
  <2>2. With(sent, "nacked") = {} /\ OnTheWay(data, headers, nacks, acks) = {}
    BY DEF Init, With, OnTheWay
  <2>3. Cardinality({}) = 0
    BY FS_EmptySet
  <2>4. nackRtx = 0 /\ unacked = Mss * (losses + 0)
    BY DEF Init
  <2>5. Counted(sent, OnTheWay(data, headers, nacks, acks))
    BY <2>2, <2>3, <2>4, Zenon DEF Counted
  <2> QED
    BY <2>1, <2>5, CountersMean
<1> QED
  BY <1>1, CountersPreserved, Invariance, PTL DEF Spec

-----------------------------------------------------------------------------
(* The window                                                                    *)

LEMMA Bytes ==
    ASSUME NEW a \in Nat, NEW b \in Nat
    PROVE  /\ Mss * a \in Nat
           /\ Mss * (a + b) = Mss * a + Mss * b
           /\ a <= b => Mss * a <= Mss * b
           /\ a >= 1 => Mss * a >= Mss
<1>1. Mss * a \in Nat /\ Mss * b \in Nat
  OBVIOUS
<1>2. Mss * (a + b) = Mss * a + Mss * b
  OBVIOUS
<1>3. ASSUME a <= b
      PROVE  Mss * a <= Mss * b
  <2>1. b - a \in Nat
    BY <1>3
  <2>2. Mss * (b - a) \in Nat
    BY <2>1
  <2>3. Mss * b = Mss * a + Mss * (b - a)
    BY <2>1
  <2> QED
    BY <1>1, <2>2, <2>3
<1>4. ASSUME a >= 1
      PROVE  Mss * a >= Mss
  <2>1. a - 1 \in Nat
    BY <1>4
  <2>2. Mss * (a - 1) \in Nat
    BY <2>1
  <2>3. Mss * a = Mss + Mss * (a - 1)
    BY <2>1
  <2> QED
    BY <1>1, <2>2, <2>3
<1> QED
  BY <1>1, <1>2, <1>3, <1>4

\* retransmit_packet stops before the first packet that finds the window full:
\* what it resends overshoots the window by less than a packet, and if it leaves
\* a packet behind, the window is full.
LEMMA ResentFits ==
    ASSUME NEW st \in [Packets -> Status], NEW w \in Nat
    PROVE  /\ Resent(st, w) # {} =>
                 GetUnacked(st) + Mss * Cardinality(Resent(st, w)) < w + Mss
           /\ With(st, "nacked") \ Resent(st, w) # {} =>
                 GetUnacked(st) + Mss * Cardinality(Resent(st, w)) >= w
<1> DEFINE A == Resent(st, w)
           W == With(st, "nacked")
           before(p) == {q \in W : q < p}
<1>1. A \in SUBSET W /\ W \in SUBSET Packets /\ A \in SUBSET Packets
  BY DEF Resent, With
<1>2. \A p \in W : p \in A <=> GetUnacked(st) + Mss * Cardinality(before(p)) < w
  BY DEF Resent
<1>3. GetUnacked(st) \in Nat
  BY GetUnackedType
<1> HIDE DEF A, W
<1>4. \A p : before(p) \in SUBSET Packets /\ Cardinality(before(p)) \in Nat
  BY <1>1, PacketSets
<1>5. Cardinality(A) \in Nat
  BY <1>1, PacketSets
<1>6. ASSUME A # {}
      PROVE  GetUnacked(st) + Mss * Cardinality(A) < w + Mss
  <2>1. PICK m \in A : \A q \in A : q <= m
    BY <1>1, <1>6, LastPacket
  <2>2. A \in SUBSET (before(m) \cup {m}) /\ before(m) \cup {m} \in SUBSET Packets
    <3>1. before(m) \in SUBSET Packets /\ m \in Packets
      BY <1>1, <1>4
    <3>2. ASSUME NEW q \in A, q # m
          PROVE  q \in before(m)
      <4>1. q \in W /\ q \in Nat /\ m \in Nat /\ q <= m
        BY <1>1, <2>1
      <4> QED
        BY <3>2, <4>1
    <3> HIDE DEF before
    <3> QED
      BY <3>1, <3>2
  <2>3. Cardinality(A) <= Cardinality(before(m) \cup {m})
    BY <2>2, SubsetSize
  <2>4. Cardinality(before(m) \cup {m}) = Cardinality(before(m)) + 1
    <3>1. m \in Packets /\ m \notin before(m)
      BY <1>1
    <3> QED
      BY <1>4, <3>1, SingleSize
  <2> DEFINE c == Cardinality(before(m))
             d == Cardinality(A)
  <2>5. c \in Nat /\ d \in Nat /\ d <= c + 1 /\ GetUnacked(st) + Mss * c < w
    BY <1>1, <1>2, <1>4, <1>5, <2>1, <2>3, <2>4
  <2> HIDE DEF c, d
  <2>6. Mss * d <= Mss * (c + 1) /\ Mss * (c + 1) = Mss * c + Mss /\ Mss * c \in Nat
        /\ Mss * d \in Nat
    BY <2>5, Bytes
  <2>7. GetUnacked(st) + Mss * d < w + Mss
    BY <1>3, <2>5, <2>6
  <2> QED
    BY <2>7 DEF d
<1>7. ASSUME W \ A # {}
      PROVE  GetUnacked(st) + Mss * Cardinality(A) >= w
  <2>1. W \ A \in SUBSET Nat
    BY <1>1
  <2>2. PICK q \in W \ A : \A k \in W \ A : q <= k
    BY <1>7, <2>1, LeastNatural
  <2>3. before(q) \in SUBSET A
    <3> SUFFICES ASSUME NEW k \in W, k < q, k \notin A
                 PROVE  FALSE
      OBVIOUS
    <3>1. k \in Nat /\ q \in Nat /\ q <= k
      BY <1>1, <2>2
    <3> QED
      BY <3>1
  <2>4. Cardinality(before(q)) <= Cardinality(A)
    BY <1>1, <2>3, SubsetSize
  <2> DEFINE c == Cardinality(before(q))
             d == Cardinality(A)
  <2>5. c \in Nat /\ d \in Nat /\ c <= d /\ ~(GetUnacked(st) + Mss * c < w)
    BY <1>2, <1>4, <1>5, <2>2, <2>4
  <2> HIDE DEF c, d
  <2>6. Mss * c <= Mss * d /\ Mss * c \in Nat /\ Mss * d \in Nat
    BY <2>5, Bytes
  <2>7. GetUnacked(st) + Mss * d >= w
    BY <1>3, <2>5, <2>6
  <2> QED
    BY <2>7 DEF d
<1> QED
  BY <1>6, <1>7 DEF A, W

\* What send_packets puts on the wire fits the window w, and new packets leave
\* only when no nacked one is left.
LEMMA SendingFits ==
    ASSUME NEW st \in [Packets -> Status], NEW w \in Nat, NEW rtx \in BOOLEAN,
           NEW sending \in SUBSET Packets, NEW base, NEW nk, TypeOK,
           SendPackets(st, w, rtx, highest, sending, base, nk),
           MarkedSent(st),
           With(st, "nacked") # {} => rtx,
           \A p \in sending : p <= highest,
           sending # {} => GetUnacked(st) < w + Mss
    PROVE  /\ highest' > highest => With(sent', "nacked") = {}
           /\ \A p \in Packets : data'[p] > data[p] =>
                 /\ GetUnacked(sent') < w + Mss
                 /\ p > highest => GetUnacked(sent') <= w
<1> DEFINE again == IF rtx THEN Resent(st, w) ELSE {}
           st1   == Launch(st, again)
           fresh == Fresh(st1, w, highest)
           O     == With(st, "out")
<1>1. again \in SUBSET Packets /\ \A p \in again : st[p] = "nacked"
  BY DEF Resent, With
<1>2. PICK k \in highest..N : fresh = (highest + 1)..k /\ highest' = k
  BY DEF SendPackets
<1>3. /\ sent' = Launch(st1, fresh)
      /\ data' = [p \in Packets |->
                     data[p] + (IF p \in sending THEN 1 ELSE 0)
                             + (IF p \in again \cup fresh THEN 1 ELSE 0)]
  BY DEF SendPackets
<1>4. highest \in 0..N /\ data \in [Packets -> Nat]
  BY DEF TypeOK
<1>5. fresh \in SUBSET Packets /\ \A p \in fresh : p > highest /\ st[p] = "none"
  BY <1>4 DEF MarkedSent, Fresh
<1>6. k # highest =>
        k \in Packets /\ GetUnacked(st1) + Mss * (k - highest) <= w
  <2> SUFFICES ASSUME k # highest
               PROVE  k \in Packets /\ GetUnacked(st1) + Mss * (k - highest) <= w
    OBVIOUS
  <2>1. k \in (highest + 1)..k
    BY <1>2, <1>4
  <2>2. k \in fresh
    BY <1>2, <2>1
  <2> QED
    BY <2>2 DEF Fresh
<1>7. k - highest \in Nat /\ (k = highest => fresh = {}) /\ (k # highest => k - highest >= 1)
  BY <1>2, <1>4
<1>8. Cardinality(fresh) = k - highest
  BY <1>2, <1>4, PrefixSize
<1> HIDE DEF fresh
<1>9. O \in SUBSET Packets /\ With(st1, "out") = O \cup again /\ O \cap again = {}
  <2> HIDE DEF again
  <2> QED
    BY <1>1 DEF With, Launch
<1>10. /\ With(sent', "out") = (O \cup again) \cup fresh
       /\ (O \cup again) \cap fresh = {}
  <2>1. \A p \in Packets : sent'[p] = IF p \in fresh THEN "out" ELSE st1[p]
    BY <1>3 DEF Launch
  <2>2. O \cap fresh = {} /\ again \cap fresh = {}
    <3> HIDE DEF again
    <3> QED
      BY <1>1, <1>5 DEF With
  <2>3. With(sent', "out") = With(st1, "out") \cup fresh
    BY <1>5, <2>1 DEF With
  <2> QED
    BY <1>9, <2>2, <2>3
<1> DEFINE o == Cardinality(O)
           a == Cardinality(again)
           n == k - highest
<1>11. /\ o \in Nat /\ a \in Nat /\ n \in Nat
       /\ Cardinality(O \cup again) = o + a
       /\ Cardinality((O \cup again) \cup fresh) = (o + a) + n
  <2> HIDE DEF O, again
  <2>1. O \in SUBSET Packets /\ again \in SUBSET Packets /\ O \cup again \in SUBSET Packets
    BY <1>1, <1>9
  <2>2. Cardinality(O \cup again) = Cardinality(O) + Cardinality(again)
    BY <1>9, <2>1, DisjointSizes
  <2>3. Cardinality((O \cup again) \cup fresh) = Cardinality(O \cup again) + Cardinality(fresh)
    BY <1>5, <1>10, <2>1, DisjointSizes
  <2> QED
    BY <1>7, <1>8, <2>1, <2>2, <2>3, PacketSets
<1>12. /\ GetUnacked(st) = Mss * o /\ GetUnacked(st1) = Mss * (o + a)
       /\ GetUnacked(sent') = Mss * ((o + a) + n)
  BY <1>9, <1>10, <1>11 DEF GetUnacked
<1>13. /\ Mss * (o + a) = Mss * o + Mss * a /\ Mss * ((o + a) + n) = Mss * (o + a) + Mss * n
       /\ Mss * o \in Nat /\ Mss * a \in Nat /\ Mss * n \in Nat
       /\ (n >= 1 => Mss * n >= Mss)
  <2> HIDE DEF o, a, n
  <2>1. o + a \in Nat
    BY <1>11
  <2> QED
    BY <1>11, <2>1, Bytes
<1>14. k # highest => GetUnacked(sent') <= w
  BY <1>6, <1>12, <1>13
<1>15. ASSUME k = highest, again # {}
       PROVE  GetUnacked(sent') < w + Mss
  <2>1. again = Resent(st, w)
    BY <1>15
  <2>2. GetUnacked(st) + Mss * a < w + Mss
    BY <1>15, <2>1, ResentFits
  <2>3. n = 0
    BY <1>4, <1>15
  <2>4. (o + a) + n = o + a
    BY <1>11, <2>3
  <2> HIDE DEF n, o, a
  <2> QED
    BY <1>12, <1>13, <2>2, <2>4
<1>16. ASSUME k = highest, again = {}
       PROVE  GetUnacked(sent') = GetUnacked(st)
  <2>1. With(sent', "out") = O
    BY <1>7, <1>10, <1>16
  <2> QED
    BY <2>1 DEF GetUnacked
<1>17. ASSUME highest' > highest
       PROVE  With(sent', "nacked") = {}
  <2>1. k # highest /\ n >= 1
    BY <1>2, <1>4, <1>17
  <2>2. With(sent', "nacked") \subseteq With(st, "nacked") \ again
    <3> HIDE DEF again
    <3> QED
      BY <1>3 DEF With, Launch
  <2>3. CASE With(st, "nacked") \ again = {}
    BY <2>2, <2>3
  <2>4. CASE With(st, "nacked") \ again # {}
    <3>1. rtx /\ again = Resent(st, w)
      <4>1. With(st, "nacked") # {}
        BY <2>4
      <4> QED
        BY <4>1
    <3>2. GetUnacked(st) + Mss * a >= w
      BY <2>4, <3>1, ResentFits
    <3>3. GetUnacked(st1) + Mss * n <= w
      BY <1>6, <2>1
    <3> HIDE DEF o, a, n
    <3>4. FALSE
      BY <1>12, <1>13, <2>1, <3>2, <3>3
    <3> QED
      BY <3>4
  <2> QED
    BY <2>3, <2>4
<1>18. ASSUME NEW p \in Packets, data'[p] > data[p]
       PROVE  /\ GetUnacked(sent') < w + Mss
              /\ p > highest => GetUnacked(sent') <= w
  <2>1. data'[p] = data[p] + (IF p \in sending THEN 1 ELSE 0)
                           + (IF p \in again \cup fresh THEN 1 ELSE 0)
    BY <1>3
  <2>2. p \in sending \/ p \in again \/ p \in fresh
    BY <1>4, <1>18, <2>1
  <2>3. p > highest => k # highest
    <3> SUFFICES ASSUME p > highest, k = highest PROVE FALSE
      OBVIOUS
    <3>1. p \notin sending /\ p \notin fresh
      BY <1>4, <1>7
    <3>2. p \in again
      BY <2>2, <3>1
    <3>3. st[p] = "nacked"
      BY <1>1, <3>2
    <3> QED
      BY <3>3 DEF MarkedSent
  <2>4. Mss \in Nat /\ Mss > 0 /\ GetUnacked(sent') \in Nat
    BY <1>12, <1>13
  <2>5. CASE k # highest
    BY <1>14, <2>4, <2>5
  <2>6. CASE k = highest /\ again # {}
    BY <1>15, <2>3, <2>6
  <2>7. CASE k = highest /\ again = {}
    <3>1. p \in sending
      BY <1>7, <2>2, <2>7
    <3> QED
      BY <1>16, <2>3, <2>7, <3>1
  <2> QED
    BY <2>5, <2>6, <2>7
<1> QED
  BY <1>17, <1>18

\* What a step puts on the wire, as RetransmissionsFirst and WindowRespected
\* state it.
StepFits ==
    /\ highest' > highest => With(sent', "nacked") = {}
    /\ \A p \in Packets : data'[p] > data[p] =>
          /\ GetUnacked(sent') < cwnd' + Mss
          /\ sent[p] = "none" => GetUnacked(sent') <= cwnd'

LEMMA HandlerFits ==
    ASSUME IInv, NEW st, NEW rtx \in BOOLEAN, NEW sending \in SUBSET Packets,
           NEW base, NEW nk, cwnd' \in Windows,
           SendPackets(st, cwnd', rtx, highest, sending, base, nk),
           st \in [Packets -> Status], MarkedSent(st),
           With(st, "nacked") # {} => rtx,
           \A p \in sending : p <= highest,
           sending # {} => GetUnacked(st) < cwnd' + Mss
    PROVE  StepFits
<1>1. TypeOK /\ cwnd' \in Nat
  BY WindowAssumption DEF IInv
<1> DEFINE w == cwnd'
<1>2. w \in Nat /\ SendPackets(st, w, rtx, highest, sending, base, nk)
      /\ (sending # {} => GetUnacked(st) < w + Mss)
  BY <1>1
<1> HIDE DEF w
<1>3. /\ highest' > highest => With(sent', "nacked") = {}
      /\ \A p \in Packets : data'[p] > data[p] =>
            /\ GetUnacked(sent') < w + Mss
            /\ p > highest => GetUnacked(sent') <= w
  BY <1>1, <1>2, SendingFits
<1>4. \A p \in Packets : sent[p] = "none" => p > highest
  BY DEF IInv, SentInOrder
<1> QED
  BY <1>3, <1>4 DEF StepFits, w

LEMMA ReceiveAckFits ==
    ASSUME IInv, NackedIsRemembered, NEW a \in acks, ReceiveAck(a)
    PROVE  StepFits
<1> DEFINE st == MarkReceived(sent, a)
           nk == IF ~a.cum /\ st[a.pkt] = "acked" /\ sent[a.pkt] = "nacked"
                 THEN nackRtx - 1 ELSE nackRtx
<1>1. /\ TypeOK /\ highest \in 0..N /\ rtxPending \in BOOLEAN /\ a \in Ack
      /\ data \in [Packets -> Nat]
  BY DEF IInv, TypeOK
<1>2. Marked(st, data, nacks, acks \ {a})
  BY AckMarks
<1>3. With(st, "nacked") # {} => rtxPending
  BY AckKeepsNacked DEF NackedIsRemembered
<1>4. CASE a.ack >= N /\ Entries(st) = {} /\ ~finished
  <2>1. highest' = highest /\ data' = data
    BY <1>4 DEF ReceiveAck
  <2> QED
    BY <1>1, <2>1 DEF StepFits
<1>5. CASE ~(a.ack >= N /\ Entries(st) = {} /\ ~finished)
  <2>1. SendPackets(st, cwnd', rtxPending,
                    IF a.ack >= highest THEN a.ack ELSE highest, {}, Reduced, nk)
        /\ cwnd' \in Windows
    BY <1>5 DEF ReceiveAck
  <2>2. (IF a.ack >= highest THEN a.ack ELSE highest) = highest
    BY <1>1, AckWithinSent DEF Ack
  <2> HIDE DEF st, nk
  <2>3. SendPackets(st, cwnd', rtxPending, highest, {}, Reduced, nk)
    BY <2>1, <2>2
  <2>4. st \in [Packets -> Status] /\ MarkedSent(st)
    BY <1>2 DEF Marked
  <2> QED
    BY <1>1, <1>3, <2>1, <2>3, <2>4, HandlerFits
<1> QED
  BY <1>4, <1>5

LEMMA ReceiveNackFits ==
    ASSUME IInv, NackedIsRemembered, NEW p \in Packets, ReceiveNack(p)
    PROVE  StepFits
<1> DEFINE nk     == IF sent[p] = "nacked" THEN nackRtx ELSE nackRtx + 1
           marked == [sent EXCEPT ![p] = "nacked"]
<1>1. /\ TypeOK /\ sent \in [Packets -> Status] /\ rtxPending \in BOOLEAN
      /\ highest \in 0..N
  BY DEF IInv, TypeOK
<1>2. p \in nacks /\ cwnd' \in Windows
  BY DEF ReceiveNack
<1>3. sent[p] = "out" /\ p <= highest
  <2>1. sent[p] = "out"
    BY <1>2, NackAlwaysFinds
  <2> QED
    BY <1>1, <2>1 DEF IInv, SentInOrder
<1>4. MarkedSent(sent) /\ MarkedSent(marked) /\ marked \in [Packets -> Status]
  <2>1. Marked(sent, data, nacks, acks) /\ Marked(marked, data, nacks \ {p}, acks)
    BY <1>2, MarkedPresent, NackMarks
  <2> QED
    BY <2>1 DEF Marked
<1>5. CASE GetUnacked(marked) < cwnd'
  <2>1. SendPackets(Launch(marked, {p}), cwnd', rtxPending, highest, {p},
                    Reduced + Mss, nk - 1)
    BY <1>5 DEF ReceiveNack
  <2>2. Launch(marked, {p}) = sent
    BY <1>2, ResendMarks
  <2>3. GetUnacked(sent) < cwnd' + Mss
    <3> DEFINE c == Cardinality(With(marked, "out"))
    <3>1. With(sent, "out") = With(marked, "out") \cup {p} /\ p \notin With(marked, "out")
          /\ With(marked, "out") \in SUBSET Packets
      BY <1>1, <1>3 DEF With
    <3> HIDE DEF marked
    <3>2. c \in Nat /\ Cardinality(With(sent, "out")) = c + 1
      BY <3>1, SingleSize, PacketSets
    <3>3. GetUnacked(sent) = Mss * (c + 1) /\ GetUnacked(marked) = Mss * c
      BY <3>2 DEF GetUnacked
    <3> HIDE DEF c
    <3>4. Mss * (c + 1) = Mss * c + Mss /\ Mss * c \in Nat
      BY <3>2, Bytes
    <3>5. cwnd' \in Nat
      BY <1>2, WindowAssumption
    <3> QED
      BY <1>5, <3>3, <3>4, <3>5
  <2> HIDE DEF marked, nk
  <2>4. SendPackets(sent, cwnd', rtxPending, highest, {p}, Reduced + Mss, nk - 1)
    BY <2>1, <2>2
  <2>5. With(sent, "nacked") # {} => rtxPending
    BY DEF NackedIsRemembered
  <2> QED
    BY <1>1, <1>2, <1>3, <1>4, <2>3, <2>4, <2>5, HandlerFits
<1>6. CASE ~(GetUnacked(marked) < cwnd')
  <2> DEFINE rtx == TRUE
  <2>1. SendPackets(marked, cwnd', rtx, highest, {}, Reduced, nk)
    BY <1>6 DEF ReceiveNack
  <2>2. rtx \in BOOLEAN /\ (With(marked, "nacked") # {} => rtx)
    OBVIOUS
  <2> HIDE DEF marked, nk, rtx
  <2>3. {} \in SUBSET Packets
    OBVIOUS
  <2> QED
    BY <1>2, <1>4, <2>1, <2>2, <2>3, HandlerFits
<1> QED
  BY <1>5, <1>6

LEMMA StepsFit == IInv /\ NackedIsRemembered /\ [Next]_vars => StepFits
<1> SUFFICES ASSUME IInv, NackedIsRemembered, [Next]_vars
             PROVE  StepFits
  OBVIOUS
<1>1. /\ cwnd \in Windows /\ rtxPending \in BOOLEAN /\ sent \in [Packets -> Status]
      /\ highest \in 0..N /\ data \in [Packets -> Nat]
  BY DEF IInv, TypeOK
<1>2. CASE StartFlow
  <2>1. SendPackets(sent, cwnd, rtxPending, highest, {}, unacked, nackRtx) /\ cwnd' = cwnd
    BY <1>2 DEF StartFlow
  <2>2. MarkedSent(sent)
    BY MarkedPresent DEF Marked
  <2>3. With(sent, "nacked") # {} => rtxPending
    BY DEF NackedIsRemembered
  <2>4. SendPackets(sent, cwnd', rtxPending, highest, {}, unacked, nackRtx)
    BY <2>1
  <2>5. cwnd' \in Windows
    BY <1>1, <2>1
  <2> QED
    BY <1>1, <2>2, <2>3, <2>4, <2>5, HandlerFits
<1>3. CASE \E a \in acks : ReceiveAck(a)
  BY <1>3, ReceiveAckFits
<1>4. CASE \E p \in Packets : ReceiveNack(p)
  BY <1>4, ReceiveNackFits
<1>5. ASSUME highest' = highest, \A q \in Packets : ~(data'[q] > data[q])
      PROVE  StepFits
  BY <1>1, <1>5 DEF StepFits
<1>6. ASSUME NEW p \in Packets, data[p] > 0, data' = [data EXCEPT ![p] = @ - 1],
             highest' = highest
      PROVE  StepFits
  <2>1. \A q \in Packets : data[q] \in Nat /\ data'[q] = IF q = p THEN 0 ELSE data[q]
    BY <1>1, <1>6, TakeData
  <2>2. \A q \in Packets : ~(data'[q] > data[q])
    <3> SUFFICES ASSUME NEW q \in Packets
                 PROVE  ~(data'[q] > data[q])
      OBVIOUS
    <3> DEFINE x == data[q]
               y == data'[q]
    <3>1. x \in Nat /\ (y = 0 \/ y = x)
      BY <2>1
    <3> HIDE DEF x, y
    <3>2. ~(y > x)
      BY <3>1
    <3> QED
      BY <3>2 DEF x, y
  <2> QED
    BY <1>5, <1>6, <2>2
<1>7. ASSUME highest' = highest, data' = data
      PROVE  StepFits
  BY <1>1, <1>5, <1>7
<1>8. ASSUME NEW p \in Packets, ReceiveData(p) \/ Trim(p) \/ BackToSender(p)
      PROVE  StepFits
  BY <1>6, <1>8 DEF ReceiveData, Trim, BackToSender, srcVars
<1>9. CASE \E p \in Packets : ReceiveTrimmed(p)
  BY <1>7, <1>9 DEF ReceiveTrimmed, srcVars
<1>10. CASE Drop
  <2>1. highest' = highest
    BY <1>10 DEF Drop, srcVars
  <2>2. \/ \E p \in Packets : data[p] > 0 /\ data' = [data EXCEPT ![p] = @ - 1]
        \/ data' = data
    BY <1>10 DEF Drop
  <2> QED
    BY <1>6, <1>7, <2>1, <2>2
<1>11. CASE UNCHANGED vars
  BY <1>7, <1>11 DEF vars, srcVars, netVars
<1> QED
  BY <1>2, <1>3, <1>4, <1>8, <1>9, <1>10, <1>11 DEF Next

\* New packets leave only when no nacked packet is waiting for its
\* retransmission: send_packets empties the retransmissions before it reads on.
THEOREM RetransmissionsGoFirst == Spec => RetransmissionsFirst
<1>1. IInv /\ NackedIsRemembered /\ [Next]_vars =>
          [highest' > highest => With(sent', "nacked") = {}]_vars
  BY StepsFit DEF StepFits
<1> QED
  BY <1>1, Invariance, NackedRemembered, PTL DEF Spec, RetransmissionsFirst

\* What a step puts on the wire fits the congestion window: new packets whole,
\* retransmissions as soon as one byte of the window is free.
THEOREM WindowIsRespected == Spec => WindowRespected
<1>1. IInv /\ NackedIsRemembered /\ [Next]_vars =>
          [\A p \in Packets : data'[p] > data[p] =>
              /\ GetUnacked(sent') < cwnd' + Mss
              /\ sent[p] = "none" => GetUnacked(sent') <= cwnd']_vars
  BY StepsFit DEF StepFits
<1> QED
  BY <1>1, Invariance, NackedRemembered, PTL DEF Spec, WindowRespected

-----------------------------------------------------------------------------
(* The sender never waits for nothing                                           *)

\* A flow of which every packet is acknowledged and erased is finished.
ErasedMeansFinished == (\A p \in Packets : sent[p] = "erased") => finished

\* Unless a message was dropped, what is outstanding is on its way.
OutTravels == losses = 0 => With(sent, "out") \subseteq OnTheWay(data, headers, nacks, acks)

\* A window holds a packet, so send_packets leaves a packet outstanding, or
\* everything has been sent and nothing is to be retransmitted.
LEMMA SendingLeavesOut ==
    ASSUME NEW st \in [Packets -> Status], NEW w \in Windows, NEW rtx \in BOOLEAN,
           NEW h \in 0..N, NEW sending, NEW base, NEW nk,
           SendPackets(st, w, rtx, h, sending, base, nk),
           With(st, "nacked") # {} => rtx,
           With(sent', "out") = {}
    PROVE  /\ sent' = st /\ highest' = N /\ h = N
           /\ With(sent', "nacked") = {}
<1> DEFINE again == IF rtx THEN Resent(st, w) ELSE {}
           st1   == Launch(st, again)
           fresh == Fresh(st1, w, h)
<1>1. /\ sent' = Launch(st1, fresh)
      /\ \E k \in h..N : fresh = (h + 1)..k /\ highest' = k
  BY DEF SendPackets
<1>2. again \subseteq Packets /\ fresh \subseteq Packets
  BY DEF Resent, Fresh, With
<1>3. \A p \in Packets : sent'[p] = IF p \in again \cup fresh THEN "out" ELSE st[p]
  <2> HIDE DEF again, fresh
  <2> QED
    BY <1>1 DEF Launch
<1>4. again = {} /\ fresh = {} /\ With(st, "out") = {}
  <2> HIDE DEF again, fresh
  <2> QED
    BY <1>2, <1>3 DEF With
<1>5. st1 = st /\ sent' = st
  <2> HIDE DEF again, fresh
  <2>1. st1 = st
    BY <1>4 DEF Launch
  <2> QED
    BY <1>1, <1>4, <2>1 DEF Launch
<1>6. Cardinality(With(st, "out")) = 0 /\ GetUnacked(st) = 0
  BY <1>4, FS_EmptySet DEF GetUnacked
<1>7. w \in Nat /\ w >= Mss /\ Mss \in Nat /\ Mss > 0
  BY WindowAssumption, FlowAssumption
<1>8. With(st, "nacked") = {}
  <2> SUFFICES ASSUME With(st, "nacked") # {}
               PROVE  FALSE
    OBVIOUS
  <2>1. With(st, "nacked") \in SUBSET Nat
    BY DEF With
  <2>2. PICK m \in With(st, "nacked") : \A k \in With(st, "nacked") : m <= k
    BY <2>1, LeastNatural
  <2>3. {q \in With(st, "nacked") : q < m} = {}
    BY <2>1, <2>2
  <2>4. Cardinality({q \in With(st, "nacked") : q < m}) = 0
    BY <2>3, FS_EmptySet
  <2>5. GetUnacked(st) + Mss * Cardinality({q \in With(st, "nacked") : q < m}) < w
    BY <1>6, <1>7, <2>4
  <2>6. m \in Resent(st, w)
    BY <2>2, <2>5 DEF Resent
  <2> QED
    BY <1>4, <2>6
<1>9. h = N
  <2> SUFFICES ASSUME h # N
               PROVE  FALSE
    OBVIOUS
  <2>1. h + 1 \in Packets /\ h + 1 > h /\ (h + 1) - h = 1
    OBVIOUS
  <2>2. GetUnacked(st) + Mss * ((h + 1) - h) <= w
    BY <1>6, <1>7, <2>1
  <2>3. h + 1 \in Fresh(st1, w, h)
    BY <1>5, <2>1, <2>2 DEF Fresh
  <2> QED
    BY <1>4, <2>3
<1>10. highest' = N
  <2> HIDE DEF fresh
  <2> QED
    BY <1>1, <1>9
<1> QED
  BY <1>5, <1>8, <1>9, <1>10

\* If no packet is outstanding, none is to be sent again and all have been sent,
\* then all are erased: an entry acknowledged selectively has a gap before it.
LEMMA NoneOutAllErased ==
    IInv /\ With(sent, "out") = {} /\ With(sent, "nacked") = {} /\ highest = N
        => \A p \in Packets : sent[p] = "erased"
<1> SUFFICES ASSUME IInv, With(sent, "out") = {}, With(sent, "nacked") = {}, highest = N
             PROVE  \A p \in Packets : sent[p] = "erased"
  OBVIOUS
<1>1. /\ sent \in [Packets -> Status] /\ received \subseteq Packets /\ cumAck \in 0..N
  BY DEF IInv, TypeOK
<1>2. \A p \in Packets : sent[p] \in {"acked", "erased"}
  <2>1. \A p \in Packets : sent[p] # "none"
    BY DEF IInv, SentInOrder
  <2> QED
    BY <1>1, <2>1 DEF With, Status
<1>3. SUFFICES ASSUME NEW p \in Packets, sent[p] = "acked"
               PROVE  FALSE
  BY <1>2
<1>4. GapBefore(p)
  BY <1>3 DEF IInv, SelectiveHasGap, Entries
<1>5. p \in received
  BY <1>2, <1>4 DEF GapBefore
<1>6. p > cumAck + 1 /\ cumAck + 1 \in Packets
  BY <1>1, <1>5 DEF IInv, HeldBeyondGap
<1>7. cumAck + 1 \notin Held
  BY <1>1 DEF Held, IInv, HeldBeyondGap
<1>8. sent[cumAck + 1] # "acked" /\ sent[cumAck + 1] # "erased"
  BY <1>1, <1>6, <1>7 DEF IInv, AckedIsHeld
<1> QED
  BY <1>2, <1>6, <1>8

\* The acknowledgement that empties _sent_packets acknowledges the last packet.
LEMMA LastAckFinishes ==
    ASSUME IInv, ErasedMeansFinished, NEW a \in acks,
           \A p \in Packets : MarkReceived(sent, a)[p] = "erased", ~finished
    PROVE  a.ack >= N /\ Entries(MarkReceived(sent, a)) = {}
<1>1. /\ sent \in [Packets -> Status] /\ a \in Ack /\ a.pkt \in Packets /\ a.ack \in Packets
      /\ N \in Packets
  BY DEF IInv, TypeOK, Ack
<1>2. Entries(MarkReceived(sent, a)) = {}
  BY DEF Entries
<1>3. sent[N] # "erased"
  <2> SUFFICES ASSUME sent[N] = "erased"
               PROVE  FALSE
    OBVIOUS
  <2>1. \A p \in Packets : p # N => p < N
    OBVIOUS
  <2>2. \A p \in Packets : sent[p] = "erased"
    BY <1>1, <2>1 DEF IInv, SentInOrder
  <2> QED
    BY <2>2 DEF ErasedMeansFinished
<1>4. MarkReceived(sent, a) # sent
  BY <1>1, <1>3
<1>5. MarkReceived(sent, a) # [sent EXCEPT ![a.pkt] = "acked"]
  BY <1>1
<1>6. a.cum
  BY <1>4, <1>5, FrontNotSelective DEF MarkReceived
<1> DEFINE gone == 1..a.ack \cup With(sent, "acked")
<1>7. MarkReceived(sent, a) = EraseFront(sent, gone)
  BY <1>6 DEF MarkReceived
<1>8. EraseFront(sent, gone)[N] = "erased"
  BY <1>1, <1>7
<1> HIDE DEF gone
<1>9. N \in Entries(sent) /\ \A q \in Entries(sent) : q <= N => q \in gone
  BY <1>1, <1>3, <1>8 DEF EraseFront
<1>10. N <= a.ack
  BY <1>6, <1>9, ErasedIsCovered DEF gone
<1> QED
  BY <1>1, <1>2, <1>10

\* mark_received settles its packet: no entry of it is outstanding afterwards,
\* and none of another packet becomes so.
LEMMA AckSettles ==
    ASSUME IInv, NEW a \in acks
    PROVE  With(MarkReceived(sent, a), "out") \subseteq With(sent, "out") \ {a.pkt}
<1>1. /\ sent \in [Packets -> Status] /\ a \in Ack /\ a.pkt \in Packets /\ a.ack \in Packets
  BY DEF IInv, TypeOK, Ack
<1>2. /\ sent[a.pkt] \in {"out", "erased"}
      /\ IF a.cum THEN a.pkt <= a.ack ELSE a.ack = a.pkt
  BY DEF IInv, Answering
<1>3. \A gone : With(EraseFront(sent, gone), "out") \subseteq With(sent, "out")
  BY DEF EraseFront, With
<1>4. With([sent EXCEPT ![a.pkt] = "acked"], "out") \subseteq With(sent, "out") \ {a.pkt}
  BY <1>1 DEF With
<1>5. With(sent, "out") \subseteq Entries(sent)
  BY DEF With, Entries
<1>6. CASE a.cum
  <2> DEFINE gone == 1..a.ack \cup With(sent, "acked")
  <2>1. MarkReceived(sent, a) = EraseFront(sent, gone)
    BY <1>6 DEF MarkReceived
  <2>2. \A q \in Packets : q <= a.pkt => q \in gone
    BY <1>1, <1>2, <1>6
  <2> HIDE DEF gone
  <2>3. \A q \in Entries(sent) : q <= a.pkt => q \in gone
    BY <2>2 DEF Entries
  <2>4. EraseFront(sent, gone)[a.pkt] # "out"
    BY <1>1, <2>3 DEF EraseFront, Entries
  <2> QED
    BY <1>3, <2>1, <2>4 DEF With
<1>7. CASE ~a.cum
  <2>1. CASE \A q \in Entries(sent) : q > a.ack
    <3>1. a.pkt \notin Entries(sent)
      BY <1>1, <1>2, <1>7, <2>1
    <3> QED
      BY <1>5, <1>7, <2>1, <3>1 DEF MarkReceived
  <2>2. CASE ~\A q \in Entries(sent) : q > a.ack
    <3>1. MarkReceived(sent, a) = [sent EXCEPT ![a.pkt] = "acked"]
      BY <1>7, <2>2, FrontNotSelective DEF MarkReceived
    <3> QED
      BY <1>4, <3>1
  <2> QED
    BY <2>1, <2>2
<1> QED
  BY <1>6, <1>7

\* send_packets erases no entry.
LEMMA SendingErasesNone ==
    ASSUME NEW st \in [Packets -> Status], NEW w, NEW rtx \in BOOLEAN, NEW h,
           NEW sending, NEW base, NEW nk,
           SendPackets(st, w, rtx, h, sending, base, nk)
    PROVE  \A p \in Packets : sent'[p] = "erased" => st[p] = "erased"
<1> DEFINE again == IF rtx THEN Resent(st, w) ELSE {}
           st1   == Launch(st, again)
           fresh == Fresh(st1, w, h)
<1>1. sent' = Launch(st1, fresh)
  BY DEF SendPackets
<1> HIDE DEF again, fresh
<1> QED
  BY <1>1 DEF Launch

\* What send_packets sends is on its way.
LEMMA SendingTravels ==
    ASSUME NEW st \in [Packets -> Status], NEW w, NEW rtx \in BOOLEAN, NEW h \in 0..N,
           NEW sending \in SUBSET Packets, NEW base, NEW nk,
           data \in [Packets -> Nat], headers' = headers,
           SendPackets(st, w, rtx, h, sending, base, nk),
           With(st, "out") \subseteq OnTheWay(OnWire(sending), headers, nacks', acks')
    PROVE  With(sent', "out") \subseteq OnTheWay(data', headers', nacks', acks')
<1> DEFINE again == IF rtx THEN Resent(st, w) ELSE {}
           st1   == Launch(st, again)
           fresh == Fresh(st1, w, h)
<1>1. /\ sent' = Launch(st1, fresh)
      /\ data' = [p \in Packets |->
                     data[p] + (IF p \in sending THEN 1 ELSE 0)
                             + (IF p \in again \cup fresh THEN 1 ELSE 0)]
  BY DEF SendPackets
<1> HIDE DEF again, fresh
<1>2. \A p \in Packets : sent'[p] = IF p \in again \cup fresh THEN "out" ELSE st[p]
  BY <1>1 DEF Launch
<1>3. \A p \in Packets : data'[p] > 0 <=> OnWire(sending)[p] > 0 \/ p \in again \cup fresh
  <2> SUFFICES ASSUME NEW p \in Packets
               PROVE  data'[p] > 0 <=> OnWire(sending)[p] > 0 \/ p \in again \cup fresh
    OBVIOUS
  <2> DEFINE n == data[p] + (IF p \in sending THEN 1 ELSE 0)
  <2>1. n \in Nat /\ OnWire(sending)[p] = n
    BY DEF OnWire
  <2>2. data'[p] = n + (IF p \in again \cup fresh THEN 1 ELSE 0)
    BY <1>1
  <2> HIDE DEF n
  <2> QED
    BY <2>1, <2>2
<1> HIDE DEF st1
<1>4. SUFFICES ASSUME NEW p \in Packets, sent'[p] = "out"
               PROVE  p \in OnTheWay(data', headers', nacks', acks')
  BY DEF With
<1>5. CASE p \in again \cup fresh
  BY <1>3, <1>5 DEF OnTheWay
<1>6. CASE p \notin again \cup fresh
  <2>1. p \in OnTheWay(OnWire(sending), headers, nacks', acks')
    BY <1>2, <1>4, <1>6 DEF With
  <2> QED
    BY <1>3, <2>1 DEF OnTheWay
<1> QED
  BY <1>5, <1>6

-----------------------------------------------------------------------------
(* The steps                                                                    *)

\* What the three invariants say of a step.
WaitsRight ==
    /\ AlwaysOutstanding
    /\ ErasedMeansFinished
    /\ OutTravels

\* After a handler that sends: if nothing is outstanding everything is erased.
LEMMA SendingWaits ==
    ASSUME IInv', NEW st \in [Packets -> Status], NEW rtx \in BOOLEAN,
           NEW h \in 0..N, NEW sending, NEW base, NEW nk, NEW w \in Windows,
           SendPackets(st, w, rtx, h, sending, base, nk),
           With(st, "nacked") # {} => rtx,
           ErasedMeansFinished'
    PROVE  AlwaysOutstanding'
<1>1. SUFFICES ASSUME With(sent', "out") = {}
               PROVE  finished'
  BY DEF AlwaysOutstanding
<1>2. highest' = N /\ With(sent', "nacked") = {}
  BY <1>1, SendingLeavesOut
<1>3. (IInv /\ With(sent, "out") = {} /\ With(sent, "nacked") = {} /\ highest = N
          => \A p \in Packets : sent[p] = "erased")'
  BY NoneOutAllErased, PTL
<1>4. \A p \in Packets : sent'[p] = "erased"
  BY <1>1, <1>2, <1>3 DEF With
<1> QED
  BY <1>4 DEF ErasedMeansFinished

\* startflow sends the first packets.
LEMMA StartFlowWaits ==
    ASSUME IInv, IInv', NackedIsRemembered, WaitsRight, StartFlow
    PROVE  WaitsRight'
<1>1. /\ sent \in [Packets -> Status] /\ rtxPending \in BOOLEAN /\ highest \in 0..N
      /\ data \in [Packets -> Nat] /\ cwnd \in Windows
  BY DEF IInv, TypeOK
<1>2. /\ SendPackets(sent, cwnd, rtxPending, highest, {}, unacked, nackRtx)
      /\ UNCHANGED <<finished, headers, nacks, acks, losses>>
  BY DEF StartFlow
<1>3. With(sent, "nacked") # {} => rtxPending
  BY DEF NackedIsRemembered
<1>4. \A p \in Packets : sent'[p] = "erased" => sent[p] = "erased"
  BY <1>1, <1>2, SendingErasesNone
<1>5. ErasedMeansFinished'
  BY <1>2, <1>4 DEF WaitsRight, ErasedMeansFinished
<1>6. AlwaysOutstanding'
  BY <1>1, <1>2, <1>3, <1>5, SendingWaits
<1>7. OutTravels'
  <2> SUFFICES ASSUME losses' = 0
               PROVE  With(sent', "out") \subseteq OnTheWay(data', headers', nacks', acks')
    BY DEF OutTravels, With, OnTheWay
  <2>1. OnWire({}) = data
    BY <1>1 DEF OnWire
  <2>2. With(sent, "out") \subseteq OnTheWay(OnWire({}), headers, nacks', acks')
    BY <1>2, <2>1 DEF WaitsRight, OutTravels
  <2> QED
    BY <1>1, <1>2, <2>2, SendingTravels
<1> QED
  BY <1>5, <1>6, <1>7 DEF WaitsRight

\* An acknowledgement settles a packet; then the flow finishes, or what is sent
\* in its place is outstanding.
LEMMA ReceiveAckWaits ==
    ASSUME IInv, IInv', NackedIsRemembered, WaitsRight, NEW a \in acks, ReceiveAck(a)
    PROVE  WaitsRight'
<1> DEFINE st == MarkReceived(sent, a)
           nk == IF ~a.cum /\ st[a.pkt] = "acked" /\ sent[a.pkt] = "nacked"
                 THEN nackRtx - 1 ELSE nackRtx
           last == a.ack >= N /\ Entries(st) = {} /\ ~finished
<1>1. /\ sent \in [Packets -> Status] /\ rtxPending \in BOOLEAN /\ highest \in 0..N
      /\ data \in [Packets -> Nat] /\ a \in Ack /\ a.ack \in Packets
  BY DEF IInv, TypeOK, Ack
<1>2. acks' = acks \ {a} /\ UNCHANGED <<started, headers, nacks, losses>>
  BY DEF ReceiveAck
<1>3. st \in [Packets -> Status] /\ With(st, "out") \subseteq With(sent, "out") \ {a.pkt}
  BY <1>1, MarkReceivedType, AckSettles
<1>4. With(st, "nacked") # {} => rtxPending
  BY AckKeepsNacked DEF NackedIsRemembered
<1>5. losses = 0 => With(st, "out") \subseteq OnTheWay(data, headers, nacks', acks')
  <2> HIDE DEF st
  <2>1. losses = 0 => With(sent, "out") \subseteq OnTheWay(data, headers, nacks, acks)
    BY DEF WaitsRight, OutTravels
  <2> QED
    BY <1>2, <1>3, <2>1 DEF OnTheWay
<1>6. (\A p \in Packets : st[p] = "erased") => finished \/ last
  BY LastAckFinishes DEF WaitsRight
<1>7. last => finished' = TRUE /\ sent' = st /\ data' = data
  BY DEF ReceiveAck
<1>8. ~last => /\ cwnd' \in Windows /\ finished' = finished
               /\ SendPackets(st, cwnd', rtxPending,
                              IF a.ack >= highest THEN a.ack ELSE highest, {}, Reduced, nk)
  BY DEF ReceiveAck
<1> HIDE DEF st, nk, last
<1>9. CASE last
  <2>1. ErasedMeansFinished' /\ AlwaysOutstanding'
    BY <1>7, <1>9 DEF ErasedMeansFinished, AlwaysOutstanding
  <2>2. OutTravels'
    BY <1>2, <1>5, <1>7, <1>9 DEF OutTravels, With, OnTheWay
  <2> QED
    BY <2>1, <2>2 DEF WaitsRight
<1>10. CASE ~last
  <2> DEFINE h == IF a.ack >= highest THEN a.ack ELSE highest
  <2>1. /\ cwnd' \in Windows /\ finished' = finished /\ h \in 0..N
        /\ SendPackets(st, cwnd', rtxPending, h, {}, Reduced, nk)
    BY <1>1, <1>8, <1>10
  <2> HIDE DEF h
  <2>2. \A p \in Packets : sent'[p] = "erased" => st[p] = "erased"
    BY <1>1, <1>3, <2>1, SendingErasesNone
  <2>3. ErasedMeansFinished'
    BY <1>6, <1>10, <2>1, <2>2 DEF ErasedMeansFinished
  <2>4. AlwaysOutstanding'
    BY <1>1, <1>3, <1>4, <2>1, <2>3, SendingWaits
  <2>5. OutTravels'
    <3> SUFFICES ASSUME losses' = 0
                 PROVE  With(sent', "out") \subseteq OnTheWay(data', headers', nacks', acks')
      BY DEF OutTravels, With, OnTheWay
    <3>1. OnWire({}) = data
      BY <1>1 DEF OnWire
    <3>2. With(st, "out") \subseteq OnTheWay(OnWire({}), headers, nacks', acks')
      BY <1>2, <1>5, <3>1
    <3> QED
      BY <1>1, <1>2, <1>3, <2>1, <3>2, SendingTravels, ZenonT(60)
  <2> QED
    BY <2>3, <2>4, <2>5 DEF WaitsRight
<1> QED
  BY <1>9, <1>10

\* A NACK makes its packet leave again, or wait for its retransmission.
LEMMA ReceiveNackWaits ==
    ASSUME IInv, IInv', NackedIsRemembered, WaitsRight, NEW p \in Packets, ReceiveNack(p)
    PROVE  WaitsRight'
<1> DEFINE marked == [sent EXCEPT ![p] = "nacked"]
           nk     == IF sent[p] = "nacked" THEN nackRtx ELSE nackRtx + 1
           again  == GetUnacked(marked) < cwnd'
           S      == OnTheWay(data, headers, nacks, acks)
<1>1. /\ sent \in [Packets -> Status] /\ rtxPending \in BOOLEAN /\ highest \in 0..N
      /\ data \in [Packets -> Nat] /\ marked \in [Packets -> Status]
  BY DEF IInv, TypeOK, Status
<1>2. /\ p \in nacks /\ nacks' = nacks \ {p} /\ cwnd' \in Windows
      /\ UNCHANGED <<started, finished, headers, acks, losses>>
  BY DEF ReceiveNack
<1>3. sent[p] = "out" /\ Launch(marked, {p}) = sent
  BY <1>2, NackAlwaysFinds, ResendMarks
<1>4. losses = 0 => With(sent, "out") \subseteq S
  BY DEF WaitsRight, OutTravels
<1>5. /\ again => SendPackets(Launch(marked, {p}), cwnd', rtxPending, highest, {p},
                              Reduced + Mss, nk - 1)
      /\ ~again => SendPackets(marked, cwnd', TRUE, highest, {}, Reduced, nk)
  BY DEF ReceiveNack
<1>6. \A q \in Packets : marked[q] = IF q = p THEN "nacked" ELSE sent[q]
  BY <1>1
<1> HIDE DEF marked, nk, again, S
<1>7. CASE again
  <2>1. SendPackets(sent, cwnd', rtxPending, highest, {p}, Reduced + Mss, nk - 1)
    BY <1>3, <1>5, <1>7
  <2>2. \A q \in Packets : sent'[q] = "erased" => sent[q] = "erased"
    BY <1>1, <2>1, SendingErasesNone
  <2>3. ErasedMeansFinished'
    BY <1>2, <2>2 DEF WaitsRight, ErasedMeansFinished
  <2>4. With(sent, "nacked") # {} => rtxPending
    BY DEF NackedIsRemembered
  <2>5. AlwaysOutstanding'
    BY <1>1, <1>2, <2>1, <2>3, <2>4, SendingWaits
  <2>6. OutTravels'
    <3> SUFFICES ASSUME losses' = 0
                 PROVE  With(sent', "out") \subseteq OnTheWay(data', headers', nacks', acks')
      BY DEF OutTravels, With, OnTheWay
    <3>1. \A q \in Packets : OnWire({p})[q] > 0 <=> q = p \/ data[q] > 0
      BY <1>1 DEF OnWire
    <3>2. With(sent, "out") \subseteq OnTheWay(OnWire({p}), headers, nacks', acks')
      BY <1>2, <1>4, <3>1 DEF OnTheWay, S
    <3>3. {p} \in SUBSET Packets
      OBVIOUS
    <3> QED
      BY <1>1, <1>2, <2>1, <3>2, <3>3, SendingTravels, ZenonT(60)
  <2> QED
    BY <2>3, <2>5, <2>6 DEF WaitsRight
<1>8. CASE ~again
  <2> DEFINE rtx == TRUE
  <2>1. SendPackets(marked, cwnd', rtx, highest, {}, Reduced, nk) /\ rtx \in BOOLEAN /\ rtx
    BY <1>5, <1>8
  <2> HIDE DEF rtx
  <2>2. \A q \in Packets : sent'[q] = "erased" => marked[q] = "erased"
    BY <1>1, <2>1, SendingErasesNone
  <2>3. ErasedMeansFinished'
    BY <1>2, <1>6, <2>2 DEF ErasedMeansFinished
  <2>4. AlwaysOutstanding'
    BY <1>1, <1>2, <2>1, <2>3, SendingWaits
  <2>5. OutTravels'
    <3> SUFFICES ASSUME losses' = 0
                 PROVE  With(sent', "out") \subseteq OnTheWay(data', headers', nacks', acks')
      BY DEF OutTravels, With, OnTheWay
    <3>1. OnWire({}) = data
      BY <1>1 DEF OnWire
    <3>2. With(marked, "out") \subseteq With(sent, "out") \ {p}
      BY <1>6 DEF With
    <3>3. With(marked, "out") \subseteq OnTheWay(OnWire({}), headers, nacks', acks')
      BY <1>2, <1>4, <3>1, <3>2 DEF OnTheWay, S
    <3> QED
      BY <1>1, <1>2, <2>1, <3>3, SendingTravels
  <2> QED
    BY <2>3, <2>4, <2>5 DEF WaitsRight
<1> QED
  BY <1>7, <1>8

\* A packet that is received, trimmed or turned around stays on its way in
\* another form; one that is dropped is a loss.
LEMMA NetworkWaits ==
    ASSUME IInv, WaitsRight,
           \/ \E p \in Packets : ReceiveData(p) \/ ReceiveTrimmed(p) \/ Trim(p) \/ BackToSender(p)
           \/ Drop
           \/ UNCHANGED vars
    PROVE  WaitsRight'
<1>1. UNCHANGED <<started, sent, finished>>
  BY DEF ReceiveData, ReceiveTrimmed, Trim, BackToSender, Drop, vars, srcVars
<1>2. AlwaysOutstanding' /\ ErasedMeansFinished'
  BY <1>1 DEF WaitsRight, AlwaysOutstanding, ErasedMeansFinished, With
<1>3. OutTravels'
  <2>1. CASE Drop
    <3>1. losses' # 0
      BY <2>1 DEF Drop, IInv, TypeOK
    <3> QED
      BY <3>1 DEF OutTravels
  <2>2. CASE \E p \in Packets : ReceiveData(p) \/ ReceiveTrimmed(p) \/ Trim(p) \/ BackToSender(p)
    <3>1. PICK p \in Packets : ReceiveData(p) \/ ReceiveTrimmed(p) \/ Trim(p) \/ BackToSender(p)
      BY <2>2
    <3>2. OnTheWay(data, headers, nacks, acks)' = OnTheWay(data, headers, nacks, acks)
      BY <3>1, FormChanges
    <3>3. losses' = losses
      BY <3>1 DEF ReceiveData, ReceiveTrimmed, Trim, BackToSender
    <3> QED
      BY <1>1, <3>2, <3>3 DEF WaitsRight, OutTravels, With
  <2>3. CASE UNCHANGED vars
    BY <1>1, <2>3 DEF WaitsRight, OutTravels, With, OnTheWay, vars, netVars
  <2> QED
    BY <2>1, <2>2, <2>3
<1> QED
  BY <1>2, <1>3 DEF WaitsRight

LEMMA WaitsPreserved ==
    IInv /\ IInv' /\ NackedIsRemembered /\ WaitsRight /\ [Next]_vars => WaitsRight'
<1> SUFFICES ASSUME IInv, IInv', NackedIsRemembered, WaitsRight, [Next]_vars
             PROVE  WaitsRight'
  OBVIOUS
<1>1. CASE StartFlow
  BY <1>1, StartFlowWaits
<1>2. CASE \E a \in acks : ReceiveAck(a)
  BY <1>2, ReceiveAckWaits
<1>3. CASE \E p \in Packets : ReceiveNack(p)
  BY <1>3, ReceiveNackWaits
<1>4. CASE \E p \in Packets : ReceiveData(p) \/ ReceiveTrimmed(p) \/ Trim(p) \/ BackToSender(p)
  BY <1>4, NetworkWaits
<1>5. CASE Drop
  BY <1>5, NetworkWaits
<1>6. CASE UNCHANGED vars
  BY <1>6, NetworkWaits
<1> QED
  BY <1>1, <1>2, <1>3, <1>4, <1>5, <1>6 DEF Next

LEMMA WaitsInvariant == Spec => []WaitsRight
<1>1. Init => WaitsRight
  <2> SUFFICES ASSUME Init
               PROVE  WaitsRight
    OBVIOUS
  <2>1. N \in Packets /\ \A p \in Packets : sent[p] = "none"
    BY DEF Init
  <2> QED
    BY <2>1 DEF Init, WaitsRight, AlwaysOutstanding, ErasedMeansFinished, OutTravels, With
<1> QED
  BY <1>1, WaitsPreserved, Invariance, NackedRemembered, PTL DEF Spec

\* A flow that has started and not finished has a packet outstanding, whatever is
\* lost: no window, even one just cut, keeps send_packets from sending one.
THEOREM SomethingOutstanding == Spec => []AlwaysOutstanding
<1>1. WaitsRight => AlwaysOutstanding
  BY DEF WaitsRight
<1> QED
  BY <1>1, WaitsInvariant, PTL

\* Unless a message was dropped, an unfinished flow has a message on its way that
\* will wake its sender: the sender needs no timer as long as nothing is lost.
THEOREM NeverWaitsForNothing == Spec => []SenderNeverWaits
<1>1. IInv /\ WaitsRight => SenderNeverWaits
  <2> SUFFICES ASSUME IInv, WaitsRight, started, ~finished, losses = 0
               PROVE  \E p \in Packets : InFlight(p) > 0
    BY DEF SenderNeverWaits
  <2>1. PICK p \in Packets : p \in With(sent, "out")
    BY DEF WaitsRight, AlwaysOutstanding, With
  <2>2. p \in OnTheWay(data, headers, nacks, acks)
    BY <2>1 DEF WaitsRight, OutTravels
  <2> QED
    BY <2>2, InFlightMeans
<1> QED
  BY <1>1, WaitsInvariant, Invariance, PTL
================================================================================
