------------------------------- MODULE SwiftProofs -------------------------------
(* What is proved of Swift for every number of packets, every set of windows and *)
(* every number of losses and early timeouts: its type invariant, that it        *)
(* implements the abstract reliable transfer, and that after a single fault      *)
(* nothing it has sent is forgotten and the flow never waits for nothing. Only   *)
(* the receiver's data sequence and the acknowledgements of it matter for the    *)
(* second; the third is about how the numbers of the subflow, the data and the   *)
(* acknowledgements on their way go together; the last adds pacer and timer.     *)
EXTENDS Swift, FiniteSetTheorems, SequenceTheorems, TLAPS

Message == [seq : Nat, dsn : 0..N]
Acknowledgement == [ackno : Nat, ds : 0..N]

\* The state that send_packets is given.
SendState == [acked : Nat, highest : Nat, window : Nat, slow : BOOLEAN,
              timer : BOOLEAN, deferred : BOOLEAN, queued : Nat]

\* What is held beyond the data acknowledged begins with a gap.
BeyondGap(cum, above) == \A d \in above : d > cum + 1
HeldBeyondGap == BeyondGap(dataAck, dataHeld)

\* An acknowledgement says no more than what the sink has acknowledged.
AcksKnown == \A i \in DOMAIN acks : acks[i].ds <= dataAck

\* A flow reported finished is held by the sink.
DoneIsHeld == done => dataAck = N

\* A packet of data changes nothing, or is one the sink does not hold and moves
\* the acknowledgement to the end of what it holds without a gap.
Absorbed(s, cum, above, cumNew, aboveNew) ==
    /\ BeyondGap(cumNew, aboveNew)
    /\ cumNew + 1 \notin (1..cumNew) \cup aboveNew
    /\ \/ cumNew = cum /\ aboveNew = above
       \/ /\ s \in 1..N /\ s \notin (1..cum) \cup above
          /\ (1..cumNew) \cup aboveNew = ((1..cum) \cup above) \cup {s}

IInv == TypeOK /\ HeldBeyondGap /\ AcksKnown /\ DoneIsHeld

-----------------------------------------------------------------------------
(* The operators *)

LEMMA SumTyped == \A x, y \in Nat : x + y \in Nat
OBVIOUS

LEMMA DsnTyped ==
    ASSUME TypeOK, NEW s \in Nat
    PROVE  DsnOf(s) \in 0..N
BY SwiftAssumption, SMTT(60) DEF TypeOK, DsnOf

LEMMA RetransmissionTyped ==
    ASSUME TypeOK, NEW a \in Nat
    PROVE  Retransmission(a) \in Seq(Message) /\ Len(Retransmission(a)) = 1
<1>1. [seq |-> a + 1, dsn |-> DsnOf(a + 1)] \in Message
  BY DsnTyped DEF Message
<1> QED
  BY <1>1 DEF Retransmission

\* The packets sent by one handler keep the types.
LEMMA PutTyped ==
    ASSUME TypeOK, NEW re \in Seq(Message), NEW hs \in Nat, NEW k \in 0..(N - nextDsn),
           NEW q \in Nat, q <= Len(data), Put(q, re, hs, k)
    PROVE  /\ data' \in Seq(Message) /\ nic' \in 0..Len(data')
           /\ highest' \in Nat /\ nextDsn' \in 0..N /\ dsnMap' \in Seq(0..N)
<1>1. nextDsn \in 0..N /\ dsnMap \in Seq(0..N) /\ data \in Seq(Message)
  BY DEF TypeOK, Message
<1>a. k \in Nat /\ nextDsn + k \in 0..N
  BY <1>1, SwiftAssumption
<1>2. NewPackets(hs, k) \in Seq(Message) /\ Len(NewPackets(hs, k)) = k
  <2>1. \A i \in 1..k : [seq |-> hs + i, dsn |-> nextDsn + i] \in Message
    BY <1>1, <1>a, SwiftAssumption DEF Message
  <2> HIDE DEF Message
  <2> QED
    BY <2>1, <1>a DEF NewPackets
<1>3. /\ (data \o re) \o NewPackets(hs, k) \in Seq(Message)
      /\ Len((data \o re) \o NewPackets(hs, k)) = Len(data) + Len(re) + k
  <2>1. data \o re \in Seq(Message) /\ Len(data \o re) = Len(data) + Len(re)
    BY <1>1, ConcatProperties
  <2> QED
    <3> DEFINE both == data \o re
               new == NewPackets(hs, k)
    <3>1. /\ both \in Seq(Message) /\ Len(both) = Len(data) + Len(re)
          /\ new \in Seq(Message) /\ Len(new) = k
      BY <1>2, <2>1
    <3> HIDE DEF both, new
    <3>2. both \o new \in Seq(Message) /\ Len(both \o new) = Len(both) + Len(new)
      BY <3>1, ConcatProperties, ZenonT(60)
    <3>3. Len(both \o new) = Len(data) + Len(re) + k
      BY <3>1, <3>2
    <3> QED
      BY <3>2, <3>3 DEF both, new
<1>4. highest' \in Nat /\ nextDsn' \in 0..N
  BY <1>1, SwiftAssumption DEF Put
<1>5. dsnMap' \in Seq(0..N)
  <2> DEFINE m == IF hs + k > Len(dsnMap) THEN hs + k ELSE Len(dsnMap)
             entry(s) == IF s \in (hs + 1)..(hs + k) THEN nextDsn + s - hs ELSE DsnOf(s)
  <2>1. m \in Nat
    BY <1>1, <1>a
  <2>2. \A s \in 1..m : entry(s) \in 0..N
    <3> SUFFICES ASSUME NEW s \in 1..m
                 PROVE  entry(s) \in 0..N
      OBVIOUS
    <3>0. s \in Nat
      <4> HIDE DEF m, entry
      <4> QED
        BY <2>1
    <3>1. DsnOf(s) \in 0..N
      BY <3>0, DsnTyped
    <3> QED
      BY <3>0, <3>1, <1>1, <1>a, SwiftAssumption
  <2>3. dsnMap' = [s \in 1..m |-> entry(s)]
    BY DEF Put
  <2> HIDE DEF m, entry
  <2> QED
    BY <2>1, <2>2, <2>3
<1> QED
  BY <1>1, <1>3, <1>4, <1>5, LenProperties, SwiftAssumption, SMTT(60) DEF Put

LEMMA WantedTyped ==
    ASSUME TypeOK, NEW at \in SendState
    PROVE  Wanted(at) \in 0..(N - nextDsn)
<1>1. at.window \div Mss \in Nat
  <2>1. at.window \in Nat /\ Mss \in Nat /\ Mss > 0
    BY SwiftAssumption DEF SendState
  <2> QED
    BY <2>1
<1> DEFINE x == at.window \div Mss
<1>2. x \in Nat
  BY <1>1
<1> HIDE DEF x
<1>3. Wanted(at) = Lesser(Excess(at.acked + x, at.highest), N - nextDsn)
  BY DEF Wanted, x
<1> QED
  <2>1. /\ at.acked \in Nat /\ at.highest \in Nat /\ N - nextDsn \in Nat
    BY SwiftAssumption DEF SendState, TypeOK
  <2>2. Excess(at.acked + x, at.highest) \in Nat
    BY <1>2, <2>1 DEF Excess
  <2> QED
    BY <1>3, <2>1, <2>2 DEF Lesser

LEMMA PacedSendTyped ==
    ASSUME TypeOK, NEW hs \in Nat, NEW q \in Nat, q <= Len(data), PacedSend(q, hs)
    PROVE  /\ data' \in Seq(Message) /\ nic' \in 0..Len(data')
           /\ highest' \in Nat /\ nextDsn' \in 0..N /\ dsnMap' \in Seq(0..N)
           /\ deferred' \in BOOLEAN
<1>1. (IF q >= NicLimit THEN 0 ELSE Lesser(1, N - nextDsn)) \in 0..(N - nextDsn)
  <2>1. N - nextDsn \in Nat
    BY SwiftAssumption DEF TypeOK
  <2> QED
    BY <2>1, SwiftAssumption DEF Lesser
<1>2. << >> \in Seq(Message)
  OBVIOUS
<1>3. deferred' \in BOOLEAN
  BY DEF PacedSend
<1> DEFINE k == IF q >= NicLimit THEN 0 ELSE Lesser(1, N - nextDsn)
<1>4. Put(q, <<>>, hs, k)
  BY DEF PacedSend
<1> HIDE DEF k
<1> QED
  BY <1>1, <1>2, <1>3, <1>4, PutTyped DEF k

LEMMA SendPacketsTyped ==
    ASSUME TypeOK, NEW at \in SendState, at.queued <= Len(data),
           NEW re \in Seq(Message), SendPackets(at, re)
    PROVE  /\ data' \in Seq(Message) /\ nic' \in 0..Len(data')
           /\ highest' \in Nat /\ nextDsn' \in 0..N /\ dsnMap' \in Seq(0..N)
           /\ pacing' \in BOOLEAN /\ deferred' \in BOOLEAN /\ timer' \in BOOLEAN
<1>1. /\ at.queued \in Nat /\ at.highest \in Nat /\ at.slow \in BOOLEAN
      /\ at.timer \in BOOLEAN /\ at.deferred \in BOOLEAN
      /\ pacing \in BOOLEAN
  BY DEF SendState, TypeOK
<1>2. CASE SendByWindow(at, re)
  <2> DEFINE sent == Lesser(Wanted(at), Excess(NicLimit, at.queued + Len(re)))
  <2>1. sent \in 0..(N - nextDsn)
    <3>1. Len(re) \in Nat /\ NicLimit \in Nat /\ N - nextDsn \in Nat
      BY SwiftAssumption, LenProperties DEF TypeOK
    <3>2. Excess(NicLimit, at.queued + Len(re)) \in Nat
      BY <1>1, <3>1 DEF Excess
    <3> QED
      BY <3>1, <3>2, WantedTyped DEF Lesser
  <2>2. Put(at.queued, re, at.highest, sent)
    BY <1>2 DEF SendByWindow
  <2>3. pacing' \in BOOLEAN /\ deferred' \in BOOLEAN /\ timer' \in BOOLEAN
    <3>1. pacing' \in BOOLEAN
      BY <1>2 DEF SendByWindow
    <3>2. timer' \in BOOLEAN
      BY <1>2 DEF SendByWindow
    <3>3. CASE Wanted(at) = 0
      BY <1>1, <1>2, <3>1, <3>2, <3>3 DEF SendByWindow
    <3>4. CASE Wanted(at) # 0
      <4>1. deferred' = (sent < Wanted(at))
        BY <1>2, <3>4 DEF SendByWindow
      <4> QED
        BY <3>1, <3>2, <4>1
    <3> QED
      BY <3>3, <3>4
  <2> HIDE DEF sent
  <2> QED
    BY <1>1, <2>1, <2>2, <2>3, PutTyped
<1>3. CASE SendByPacer(at, re)
  <2>1. 0 \in 0..(N - nextDsn)
    BY SwiftAssumption DEF TypeOK
  <2>2. CASE Put(at.queued, re, at.highest, 0) /\ pacing' = TRUE
             /\ deferred' = at.deferred /\ timer' = at.timer
    BY <1>1, <2>1, <2>2, PutTyped
  <2>3. CASE PacedSend(at.queued, at.highest) /\ pacing' = at.slow /\ timer' = at.timer
    BY <1>1, <2>3, PacedSendTyped
  <2> QED
    BY <1>3, <2>2, <2>3 DEF SendByPacer
<1> QED
  BY <1>2, <1>3 DEF SendPackets

\* What arrives at the sink of the subflow keeps the types.
LEMMA TakesTyped ==
    ASSUME NEW s \in Nat, NEW cum \in Nat, NEW above \in SUBSET Nat, IsFiniteSet(above),
           NEW cumNew, NEW aboveNew, Takes(s, cum, above, cumNew, aboveNew)
    PROVE  cumNew \in Nat /\ aboveNew \in SUBSET Nat /\ IsFiniteSet(aboveNew)
<1>1. CASE s = cum + 1
  <2>1. PICK c \in s..(s + Cardinality(above)) : cumNew = c /\ aboveNew = above \ (1..c)
    BY <1>1 DEF Takes
  <2>2. c \in Nat
    BY <2>1, FS_CardinalityType
  <2> QED
    BY <2>1, <2>2, FS_Difference
<1>2. CASE s # cum + 1
  <2>1. IsFiniteSet(above \cup {s})
    BY FS_AddElement
  <2> QED
    BY <1>2, <2>1 DEF Takes
<1> QED
  BY <1>1, <1>2

LEMMA TakesData ==
    ASSUME NEW s \in 0..N, NEW cum \in 0..N, NEW above \in SUBSET (1..N),
           BeyondGap(cum, above),
           NEW cumNew, NEW aboveNew, Takes(s, cum, above, cumNew, aboveNew)
    PROVE  /\ cumNew \in 0..N /\ cumNew >= cum /\ aboveNew \in SUBSET (1..N)
           /\ Absorbed(s, cum, above, cumNew, aboveNew)
<1> SUFFICES /\ cumNew \in 0..N /\ cumNew >= cum /\ aboveNew \in SUBSET (1..N)
             /\ \A d \in aboveNew : d > cumNew + 1
             /\ \/ cumNew = cum /\ aboveNew = above
                \/ /\ s \in 1..N /\ s \notin (1..cum) \cup above
                   /\ (1..cumNew) \cup aboveNew = ((1..cum) \cup above) \cup {s}
  BY SwiftAssumption DEF Absorbed, BeyondGap
<1> USE DEF BeyondGap
<1>1. N \in Nat /\ IsFiniteSet(above)
  <2>1. N \in Nat
    BY SwiftAssumption
  <2>2. IsFiniteSet(1..N)
    BY <2>1, FS_Interval
  <2> QED
    BY <2>1, <2>2, FS_Subset
<1>2. CASE s = cum + 1
  <2>1. PICK c \in s..(s + Cardinality(above)) :
               /\ (s + 1)..c \subseteq above /\ c + 1 \notin above
               /\ cumNew = c /\ aboveNew = above \ (1..c)
    BY <1>2 DEF Takes
  <2>2. c \in Nat /\ c >= s
    BY <1>1, <2>1, FS_CardinalityType
  <2>3. c <= N
    <3>1. CASE c = s
      BY <3>1, <1>1
    <3>2. CASE c # s
      <4>1. c \in (s + 1)..c
        BY <2>2, <3>2, <1>1
      <4> QED
        BY <4>1, <2>1, <1>1
    <3> QED
      BY <3>1, <3>2
  <2>4. \A d \in aboveNew : d > cumNew + 1
    BY <1>1, <2>1, <2>2
  <2>5. s \in 1..N /\ s \notin (1..cum) \cup above
    BY <1>1, <1>2, <2>2, <2>3
  <2>6. (1..cumNew) \cup aboveNew = ((1..cum) \cup above) \cup {s}
    <3>1. \A d \in 1..c : d \in (1..cum) \cup above \cup {s}
      BY <1>1, <1>2, <2>1, <2>2
    <3>2. \A d \in above : d \in (1..c) \cup aboveNew
      BY <2>1
    <3>3. \A d \in 1..cum : d \in 1..c
      BY <1>1, <1>2, <2>2
    <3>4. s \in 1..c
      BY <1>1, <1>2, <2>2
    <3> QED
      BY <2>1, <3>1, <3>2, <3>3, <3>4
  <2>7. cumNew \in 0..N /\ cumNew >= cum /\ aboveNew \in SUBSET (1..N)
    BY <1>1, <1>2, <2>1, <2>2, <2>3
  <2> QED
    BY <2>4, <2>5, <2>6, <2>7
<1>3. CASE s <= cum
  <2>1. cumNew = cum /\ aboveNew = above
    BY <1>1, <1>3 DEF Takes
  <2> QED
    BY <1>1, <2>1
<1>4. CASE s > cum + 1
  <2>1. cumNew = cum /\ aboveNew = above \cup {s}
    BY <1>1, <1>4 DEF Takes
  <2>2. s \in 1..N /\ s \notin 1..cum
    BY <1>1, <1>4
  <2>3. \A d \in aboveNew : d > cumNew + 1
    BY <1>4, <2>1
  <2>4. aboveNew = above \/ s \notin (1..cum) \cup above
    BY <2>1, <2>2
  <2> QED
    BY <1>1, <2>1, <2>2, <2>3, <2>4
<1> QED
  BY <1>1, <1>2, <1>3, <1>4

-----------------------------------------------------------------------------
(* The invariant *)

LEMMA InvInit == Init => IInv
<1> SUFFICES ASSUME Init
             PROVE  IInv
  OBVIOUS
<1>1. TypeOK
  <2>1. IsFiniteSet(held)
    BY FS_EmptySet DEF Init
  <2>2. /\ dsnMap \in Seq(0..N) /\ data \in Seq([seq : Nat, dsn : 0..N])
        /\ acks \in Seq([ackno : Nat, ds : 0..N]) /\ nic \in 0..Len(data)
    BY DEF Init
  <2>3. nextDsn \in 0..N /\ dataAck \in 0..N /\ losses \in 0..MaxLoss /\ early \in 0..MaxEarly
    BY SwiftAssumption DEF Init
  <2>4. {started, recovering, slow, pacing, deferred, timer, expired, done, untimed}
            \subseteq BOOLEAN
    BY Zenon DEF Init
  <2>5. /\ {highest, lastAcked, recoverq, inflate, cumAck} \subseteq Nat
        /\ dupAcks \in 0..4
    BY DEF Init
  <2>6. cwnd \in Windows /\ held \subseteq Nat /\ dataHeld \subseteq 1..N
    BY DEF Init
  <2> QED
    BY <2>1, <2>2, <2>3, <2>4, <2>5, <2>6 DEF TypeOK
<1> QED
  BY <1>1 DEF Init, IInv, HeldBeyondGap, BeyondGap, AcksKnown, DoneIsHeld

LEMMA StartFlowStep == TypeOK /\ StartFlow => TypeOK'
<1> SUFFICES ASSUME TypeOK, StartFlow
             PROVE  TypeOK'
  OBVIOUS
<1> DEFINE at == [acked |-> lastAcked, highest |-> highest, window |-> cwnd + inflate,
                  slow |-> slow, timer |-> timer, deferred |-> deferred, queued |-> nic]
<1>1. at \in SendState /\ at.queued <= Len(data)
  BY SwiftAssumption, LenProperties, SMTT(60) DEF TypeOK, SendState
<1>2. << >> \in Seq(Message)
  OBVIOUS
<1>3. SendPackets(at, <<>>)
  BY DEF StartFlow
<1> HIDE DEF at
<1>4. /\ data' \in Seq(Message) /\ nic' \in 0..Len(data')
      /\ highest' \in Nat /\ nextDsn' \in 0..N /\ dsnMap' \in Seq(0..N)
      /\ pacing' \in BOOLEAN /\ deferred' \in BOOLEAN /\ timer' \in BOOLEAN
  BY <1>1, <1>2, <1>3, SendPacketsTyped
<1> QED
  BY <1>4 DEF TypeOK, StartFlow, Message, windowVars, sinkVars, envVars

LEMMA PacerStep == TypeOK /\ PacerFires => TypeOK'
<1> SUFFICES ASSUME TypeOK, PacerFires
             PROVE  TypeOK'
  OBVIOUS
<1>1. highest \in Nat /\ nic \in Nat /\ nic <= Len(data)
  BY LenProperties DEF TypeOK
<1>2. /\ data' \in Seq(Message) /\ nic' \in 0..Len(data')
      /\ highest' \in Nat /\ nextDsn' \in 0..N /\ dsnMap' \in Seq(0..N)
      /\ deferred' \in BOOLEAN
  BY <1>1, PacedSendTyped DEF PacerFires
<1> QED
  BY <1>2 DEF TypeOK, PacerFires, Message, windowVars, sinkVars, envVars

LEMMA NicStep == TypeOK /\ NicCompletes => TypeOK'
<1> SUFFICES ASSUME TypeOK, NicCompletes
             PROVE  TypeOK'
  OBVIOUS
<1> DEFINE at == [acked |-> lastAcked, highest |-> highest, window |-> cwnd + inflate,
                  slow |-> slow, timer |-> timer, deferred |-> FALSE,
                  queued |-> nic - 1]
<1>1. CASE Callback
  <2>1. at \in SendState /\ at.queued <= Len(data)
    <3>1. nic - 1 \in Nat /\ nic - 1 <= Len(data)
      <4>1. nic \in 0..Len(data) /\ Len(data) \in Nat
        BY LenProperties DEF TypeOK
      <4>2. nic > 0
        BY DEF NicCompletes
      <4> QED
        BY <4>1, <4>2
    <3>2. /\ lastAcked \in Nat /\ highest \in Nat /\ cwnd + inflate \in Nat
          /\ slow \in BOOLEAN /\ timer \in BOOLEAN
      BY SwiftAssumption, SMTT(60) DEF TypeOK
    <3> QED
      BY <3>1, <3>2 DEF SendState
  <2>2. << >> \in Seq(Message)
    OBVIOUS
  <2>3. SendPackets(at, <<>>)
    BY <1>1 DEF NicCompletes
  <2> HIDE DEF at
  <2>4. /\ data' \in Seq(Message) /\ nic' \in 0..Len(data')
        /\ highest' \in Nat /\ nextDsn' \in 0..N /\ dsnMap' \in Seq(0..N)
        /\ pacing' \in BOOLEAN /\ deferred' \in BOOLEAN /\ timer' \in BOOLEAN
    BY <2>1, <2>2, <2>3, SendPacketsTyped
  <2> QED
    BY <2>4 DEF TypeOK, NicCompletes, Message, windowVars, sinkVars, envVars
<1>2. CASE ~Callback
  <2>1. nic' = nic - 1 /\ data' = data /\ UNCHANGED sendVars /\ nic > 0
    BY <1>2 DEF NicCompletes
  <2>2. Len(data) \in Nat /\ nic \in 0..Len(data)
    BY LenProperties DEF TypeOK
  <2>3. nic - 1 \in 0..Len(data)
    BY <2>1, <2>2
  <2>4. nic' \in 0..Len(data')
    BY <2>1, <2>3, Zenon
  <2> QED
    BY <2>1, <2>4 DEF TypeOK, NicCompletes, windowVars, sendVars, sinkVars, envVars
<1> QED
  BY <1>1, <1>2

\* Whatever an acknowledgement makes of the window, what follows keeps the types.
LEMMA LimitAndSendTyped ==
    ASSUME TypeOK, NEW acked \in Nat, NEW hs \in Nat, NEW tm \in BOOLEAN,
           NEW re \in Seq(Message), cwnd' \in Windows, inflate' \in Nat,
           LimitAndSend(acked, hs, tm, re)
    PROVE  /\ data' \in Seq(Message) /\ nic' \in 0..Len(data')
           /\ highest' \in Nat /\ nextDsn' \in 0..N /\ dsnMap' \in Seq(0..N)
           /\ pacing' \in BOOLEAN /\ deferred' \in BOOLEAN /\ timer' \in BOOLEAN
           /\ slow' \in BOOLEAN
<1> DEFINE at == [acked |-> acked, highest |-> hs, window |-> cwnd' + inflate',
                  slow |-> slow', timer |-> tm, deferred |-> deferred, queued |-> nic]
<1>1. slow' \in BOOLEAN
  BY DEF LimitAndSend
<1>2. at \in SendState /\ at.queued <= Len(data)
  <2>1. nic \in Nat /\ nic <= Len(data) /\ deferred \in BOOLEAN
    BY LenProperties DEF TypeOK
  <2>2. cwnd' + inflate' \in Nat
    <3>1. cwnd' \in Nat /\ inflate' \in Nat
      BY SwiftAssumption
    <3> QED
      BY <3>1, SumTyped, Zenon
  <2> QED
    BY <1>1, <2>1, <2>2 DEF SendState
<1>3. SendPackets(at, re)
  BY DEF LimitAndSend
<1> HIDE DEF at
<1> QED
  BY <1>1, <1>2, <1>3, SendPacketsTyped

LEMMA ReceiveAckStep == TypeOK /\ ReceiveAck => TypeOK'
<1> SUFFICES ASSUME TypeOK, ReceiveAck
             PROVE  TypeOK'
  OBVIOUS
<1> DEFINE a == Head(acks)
<1>1. /\ a.ackno \in Nat /\ a.ds \in 0..N
      /\ acks' \in Seq([ackno : Nat, ds : 0..N])
  <2>1. acks \in Seq(Acknowledgement) /\ acks # << >> /\ acks' = Tail(acks)
    BY DEF TypeOK, ReceiveAck, Acknowledgement
  <2>2. Head(acks) \in Acknowledgement /\ Tail(acks) \in Seq(Acknowledgement)
    BY <2>1, HeadTailProperties
  <2> QED
    BY <2>1, <2>2 DEF Acknowledgement
<1> HIDE DEF a
<1>2. CASE a.ackno < lastAcked
  <2>1. UNCHANGED <<windowVars, sendVars, done, data, nic>>
    BY <1>2 DEF ReceiveAck, a
  <2> QED
    BY <1>1, <2>1 DEF TypeOK, ReceiveAck, windowVars, sendVars, sinkVars, envVars
<1>3. CASE ~(a.ackno < lastAcked)
  <2>1. /\ cwnd' \in Windows /\ done' = (done \/ a.ds = N) /\ lastAcked' = a.ackno
        /\ \/ /\ a.ackno > lastAcked
              /\ Advance(a.ackno) \/ AdvancePartly(a.ackno)
              /\ UNCHANGED recoverq
           \/ /\ a.ackno = lastAcked
              /\ DuplicateInflates \/ DuplicateCounts \/ DuplicateRetransmits
    BY <1>3 DEF ReceiveAck, a
  <2>2. done' \in BOOLEAN /\ lastAcked' \in Nat
    BY <1>1, <2>1
  <2>3. /\ lastAcked \in Nat /\ highest \in Nat /\ inflate \in Nat /\ Mss \in Nat
        /\ dupAcks \in 0..4 /\ recoverq \in Nat /\ cwnd' \in Nat
        /\ nic \in Nat /\ nic <= Len(data)
        /\ timer \in BOOLEAN /\ slow \in BOOLEAN /\ deferred \in BOOLEAN
        /\ recovering \in BOOLEAN /\ pacing \in BOOLEAN
    BY <2>1, SwiftAssumption, LenProperties, SMTT(60) DEF TypeOK
  <2>4. << >> \in Seq(Message)
    OBVIOUS
  <2> DEFINE Sent == /\ data' \in Seq(Message) /\ nic' \in 0..Len(data')
                     /\ highest' \in Nat /\ nextDsn' \in 0..N /\ dsnMap' \in Seq(0..N)
                     /\ pacing' \in BOOLEAN /\ deferred' \in BOOLEAN
                     /\ timer' \in BOOLEAN /\ slow' \in BOOLEAN
             Recovered == /\ recovering' \in BOOLEAN /\ recoverq' \in Nat
                          /\ inflate' \in Nat /\ dupAcks' \in 0..4
  <2>5. ASSUME Advance(a.ackno) /\ UNCHANGED recoverq
         PROVE  Sent /\ Recovered
    <3>1. Recovered
      <4>1. recovering' \in BOOLEAN
        BY <2>5, Zenon DEF Advance
      <4>2. recoverq' \in Nat /\ inflate' \in Nat /\ dupAcks' \in 0..4
        BY <2>3, <2>5 DEF Advance
      <4> QED
        BY <4>1, <4>2
    <3>2. HighestAfter(a.ackno) \in Nat /\ TimerRuns(a.ackno) \in BOOLEAN
      BY <1>1, <2>3 DEF HighestAfter, TimerRuns
    <3>3. LimitAndSend(a.ackno, HighestAfter(a.ackno), TimerRuns(a.ackno), <<>>)
      BY <2>5 DEF Advance
    <3>4. Sent
      BY <1>1, <2>1, <2>4, <3>1, <3>2, <3>3, LimitAndSendTyped
    <3> QED
      BY <3>1, <3>4
  <2>6. ASSUME AdvancePartly(a.ackno) /\ a.ackno > lastAcked /\ UNCHANGED recoverq
         PROVE  Sent /\ Recovered
    <3>1. (a.ackno - lastAcked) * Mss \in Nat
      <4>1. a.ackno - lastAcked \in Nat
        BY <1>1, <2>3, <2>6
      <4> QED
        BY <2>3, <4>1
    <3>2. Recovered
      <4> DEFINE new == (a.ackno - lastAcked) * Mss
      <4>1. inflate' = Excess(inflate, new) + Mss /\ UNCHANGED <<recovering, dupAcks>>
        BY <2>6 DEF AdvancePartly
      <4>2. new \in Nat
        BY <3>1
      <4> HIDE DEF new
      <4>3. inflate' \in Nat
        BY <2>3, <4>1, <4>2 DEF Excess
      <4> QED
        BY <2>3, <2>6, <4>1, <4>3
    <3>3. HighestAfter(a.ackno) \in Nat /\ Retransmission(a.ackno) \in Seq(Message)
      BY <1>1, <2>3, RetransmissionTyped DEF HighestAfter
    <3>4. LimitAndSend(a.ackno, HighestAfter(a.ackno), TRUE, Retransmission(a.ackno))
      BY <2>6 DEF AdvancePartly
    <3>5. Sent
      BY <1>1, <2>1, <3>2, <3>3, <3>4, LimitAndSendTyped
    <3> QED
      BY <3>2, <3>5
  <2>7. ASSUME DuplicateInflates
         PROVE  Sent /\ Recovered
    <3>1. Recovered /\ slow' \in BOOLEAN
      BY <2>3, <2>7 DEF DuplicateInflates, Lesser
    <3> DEFINE at == [acked |-> lastAcked, highest |-> highest,
                      window |-> cwnd' + inflate', slow |-> slow, timer |-> timer,
                      deferred |-> deferred, queued |-> nic]
    <3>2. at \in SendState /\ at.queued <= Len(data)
      <4>1. cwnd' + inflate' \in Nat
        BY <2>3, <3>1, SumTyped, Zenon
      <4> QED
        BY <2>3, <4>1 DEF SendState
    <3>3. SendPackets(at, <<>>)
      BY <2>7 DEF DuplicateInflates
    <3> HIDE DEF at
    <3>4. Sent
      BY <2>4, <3>1, <3>2, <3>3, SendPacketsTyped
    <3> QED
      BY <3>1, <3>4
  <2>8. ASSUME DuplicateCounts
         PROVE  Sent /\ Recovered
    <3>1. Recovered
      BY <2>3, <2>8 DEF DuplicateCounts, Lesser
    <3>2. LimitAndSend(lastAcked, highest, timer, <<>>)
      BY <2>8 DEF DuplicateCounts
    <3>3. Sent
      BY <2>1, <2>3, <2>4, <3>1, <3>2, LimitAndSendTyped, ZenonT(60)
    <3> QED
      BY <3>1, <3>3
  <2>9. ASSUME DuplicateRetransmits
         PROVE  Sent /\ Recovered
    <3>1. dupAcks' \in 0..4 /\ inflate' \in Nat
      BY <2>3, <2>9 DEF DuplicateRetransmits
    <3>2. CASE lastAcked < recoverq
      <4>1. UNCHANGED <<recovering, recoverq, slow, sendVars, data, nic>>
        BY <2>9, <3>2 DEF DuplicateRetransmits
      <4>2. Sent
        BY <4>1 DEF TypeOK, sendVars, Message
      <4> QED
        BY <2>3, <3>1, <4>1, <4>2
    <3>3. CASE ~(lastAcked < recoverq)
      <4>1. /\ slow' = (cwnd' < Mss) /\ timer' = TRUE /\ BeginsRecovery
            /\ Put(nic, Retransmission(lastAcked), highest, 0)
            /\ UNCHANGED <<pacing, deferred>>
        BY <2>9, <3>3 DEF DuplicateRetransmits
      <4>2. recovering' \in BOOLEAN /\ recoverq' \in Nat
        BY <2>3, <4>1 DEF BeginsRecovery
      <4>3. 0 \in 0..(N - nextDsn) /\ Retransmission(lastAcked) \in Seq(Message)
        BY <2>3, RetransmissionTyped, SwiftAssumption, SMTT(60) DEF TypeOK
      <4>4. /\ data' \in Seq(Message) /\ nic' \in 0..Len(data')
            /\ highest' \in Nat /\ nextDsn' \in 0..N /\ dsnMap' \in Seq(0..N)
        BY <2>3, <4>1, <4>3, PutTyped
      <4>5. /\ slow' \in BOOLEAN /\ timer' \in BOOLEAN
            /\ pacing' \in BOOLEAN /\ deferred' \in BOOLEAN
        BY <2>3, <4>1
      <4> QED
        BY <3>1, <4>2, <4>4, <4>5
    <3> QED
      BY <3>2, <3>3
  <2>10. Sent /\ Recovered
    BY <2>1, <2>5, <2>6, <2>7, <2>8, <2>9
  <2> QED
    BY <1>1, <2>1, <2>2, <2>10
    DEF TypeOK, ReceiveAck, Message, sinkVars, envVars
<1> QED
  BY <1>2, <1>3

LEMMA TimerStep == TypeOK /\ (TimerExpires \/ TimerExpiresEarly) => TypeOK'
<1>1. ASSUME TypeOK, TimerExpires
      PROVE  TypeOK'
  BY <1>1 DEF TypeOK, TimerExpires, windowVars, sendVars, sinkVars, envVars
<1>2. ASSUME TypeOK, TimerExpiresEarly
      PROVE  TypeOK'
  <2>1. early \in 0..MaxEarly /\ early < MaxEarly /\ early' = early + 1
    BY <1>2 DEF TypeOK, TimerExpiresEarly
  <2>2. early' \in 0..MaxEarly
    BY <2>1, SwiftAssumption
  <2>3. expired' \in BOOLEAN
    BY <1>2, Zenon DEF TimerExpiresEarly
  <2> QED
    BY <1>2, <2>2, <2>3
    DEF TypeOK, TimerExpiresEarly, windowVars, sendVars, sinkVars
<1> QED
  BY <1>1, <1>2

LEMMA TimeoutStep == TypeOK /\ Timeout => TypeOK'
<1> SUFFICES ASSUME TypeOK, Timeout
             PROVE  TypeOK'
  OBVIOUS
<1>1. /\ lastAcked \in Nat /\ highest \in Nat /\ nic \in Nat /\ nic <= Len(data)
  BY LenProperties DEF TypeOK
<1>2. /\ 0 \in 0..(N - nextDsn) /\ lastAcked + 1 \in Nat
      /\ Retransmission(lastAcked) \in Seq(Message)
  <2>1. 0 \in 0..(N - nextDsn)
    BY SwiftAssumption DEF TypeOK
  <2>2. Retransmission(lastAcked) \in Seq(Message)
    BY <1>1, RetransmissionTyped
  <2> QED
    BY <1>1, <2>1, <2>2
<1>3. /\ data' \in Seq(Message) /\ nic' \in 0..Len(data')
      /\ highest' \in Nat /\ nextDsn' \in 0..N /\ dsnMap' \in Seq(0..N)
  BY <1>1, <1>2, PutTyped DEF Timeout
<1>4. /\ recovering' \in BOOLEAN /\ recoverq' \in Nat /\ dupAcks' \in 0..4
      /\ cwnd' \in Windows /\ timer' \in BOOLEAN /\ expired' \in BOOLEAN
  <2>1. recovering' \in BOOLEAN /\ timer' \in BOOLEAN /\ expired' \in BOOLEAN
    BY Zenon DEF Timeout
  <2>2. recoverq' \in Nat /\ dupAcks' \in 0..4 /\ cwnd' \in Windows
    BY <1>1 DEF Timeout
  <2> QED
    BY <2>1, <2>2
<1> QED
  BY <1>3, <1>4 DEF TypeOK, Timeout, Message, sinkVars, envVars

\* What remains of the acknowledgements when the first is taken is still known.
LEMMA TailKnown ==
    ASSUME TypeOK, AcksKnown, acks # << >>, acks' = Tail(acks), UNCHANGED dataAck
    PROVE  AcksKnown'
<1>1. acks \in Seq(Acknowledgement)
  BY DEF TypeOK, Acknowledgement
<1>2. /\ Len(acks') = Len(acks) - 1 /\ Len(acks) \in Nat
      /\ \A i \in 1..(Len(acks) - 1) : acks'[i] = acks[i + 1]
      /\ DOMAIN acks' = 1..(Len(acks) - 1) /\ DOMAIN acks = 1..Len(acks)
  BY <1>1, HeadTailProperties, LenProperties
<1>3. ASSUME NEW i \in DOMAIN acks'
      PROVE  acks'[i].ds <= dataAck'
  <2>1. acks'[i] = acks[i + 1] /\ i + 1 \in DOMAIN acks
    BY <1>2, <1>3
  <2>2. acks[i + 1].ds <= dataAck
    BY <2>1 DEF AcksKnown
  <2> QED
    BY <2>1, <2>2
<1> QED
  BY <1>3 DEF AcksKnown

\* A packet of data that arrives is a step of the reliable transfer, or changes
\* nothing of it.
LEMMA ReceiveDataStep ==
    IInv /\ ReceiveData =>
        IInv' /\ (UNCHANGED <<dataAck, Accepted, done>> \/ \E s \in 1..N : Transfer!Accept(s))
<1> SUFFICES ASSUME IInv, ReceiveData
             PROVE  /\ IInv'
                    /\ \/ UNCHANGED <<dataAck, Accepted, done>>
                       \/ \E s \in 1..N : Transfer!Accept(s)
  OBVIOUS
<1>0. TypeOK /\ HeldBeyondGap /\ AcksKnown /\ DoneIsHeld
  BY DEF IInv
<1> DEFINE s == Head(data)
<1>1. s.seq \in Nat /\ s.dsn \in 0..N /\ data' \in Seq(Message) /\ nic' \in 0..Len(data')
  <2>1. /\ data \in Seq(Message) /\ nic \in 0..Len(data) /\ Len(data) > nic
        /\ data' = Tail(data) /\ nic' = nic
    BY <1>0 DEF TypeOK, ReceiveData, Message
  <2>2. data # << >> /\ Len(data) \in Nat /\ nic \in Nat
    BY <2>1, EmptySeq, LenProperties
  <2>3. /\ Head(data) \in Message /\ Tail(data) \in Seq(Message)
        /\ Len(Tail(data)) = Len(data) - 1
    BY <2>1, <2>2, HeadTailProperties
  <2>4. s.seq \in Nat /\ s.dsn \in 0..N
    BY <2>3 DEF Message
  <2> QED
    BY <2>1, <2>2, <2>3, <2>4
<1> HIDE DEF s
<1>2. /\ Takes(s.seq, cumAck, held, cumAck', held')
      /\ Takes(s.dsn, dataAck, dataHeld, dataAck', dataHeld')
      /\ acks' = Append(acks, [ackno |-> cumAck', ds |-> dataAck'])
  BY DEF ReceiveData, s
<1>3. cumAck' \in Nat /\ held' \in SUBSET Nat /\ IsFiniteSet(held')
  BY <1>0, <1>1, <1>2, TakesTyped DEF TypeOK
<1>4. /\ dataAck' \in 0..N /\ dataAck' >= dataAck /\ dataHeld' \in SUBSET (1..N)
      /\ Absorbed(s.dsn, dataAck, dataHeld, dataAck', dataHeld')
  <2>1. dataAck \in 0..N /\ dataHeld \in SUBSET (1..N) /\ BeyondGap(dataAck, dataHeld)
    BY <1>0 DEF TypeOK, HeldBeyondGap
  <2> QED
    BY <1>1, <1>2, <2>1, TakesData, Zenon
<1>5. acks' \in Seq(Acknowledgement) /\ AcksKnown'
  <2> DEFINE new == [ackno |-> cumAck', ds |-> dataAck']
  <2>1. acks \in Seq(Acknowledgement) /\ new \in Acknowledgement
    BY <1>0, <1>3, <1>4 DEF TypeOK, Acknowledgement
  <2>2. new.ds = dataAck' /\ acks' = Append(acks, new)
    BY <1>2
  <2> HIDE DEF new
  <2>3. /\ acks' \in Seq(Acknowledgement) /\ Len(acks') = Len(acks) + 1
        /\ \A i \in 1..Len(acks) : acks'[i] = acks[i]
        /\ acks'[Len(acks) + 1] = new
    BY <2>1, <2>2, AppendProperties
  <2>4. ASSUME NEW i \in DOMAIN acks'
        PROVE  acks'[i].ds <= dataAck'
    <3>1. i \in 1..(Len(acks) + 1) /\ Len(acks) \in Nat
      BY <2>1, <2>3, <2>4, LenProperties
    <3>2. CASE i = Len(acks) + 1
      BY <1>4, <2>2, <2>3, <3>2
    <3>3. CASE i # Len(acks) + 1
      <4>1. i \in 1..Len(acks) /\ i \in DOMAIN acks
        BY <2>1, <3>1, <3>3, LenProperties
      <4>2. acks[i].ds \in 0..N /\ acks[i].ds <= dataAck
        <5>1. acks[i] \in Acknowledgement
          BY <2>1, <4>1, ElementOfSeq
        <5> QED
          BY <1>0, <4>1, <5>1 DEF AcksKnown, Acknowledgement
      <4>3. acks'[i].ds = acks[i].ds
        BY <2>3, <4>1
      <4>4. dataAck \in Int /\ dataAck' \in Int
        BY <1>0, <1>4 DEF TypeOK
      <4> QED
        BY <1>4, <4>2, <4>3, <4>4
    <3> QED
      BY <3>2, <3>3
  <2> QED
    BY <2>3, <2>4 DEF AcksKnown
<1>6. DoneIsHeld'
  <2>1. done' = done
    BY DEF ReceiveData
  <2>2. dataAck \in 0..N /\ N \in Nat
    BY <1>0, SwiftAssumption DEF TypeOK
  <2> QED
    BY <1>0, <1>4, <2>1, <2>2 DEF DoneIsHeld
<1>7. TypeOK'
  BY <1>0, <1>1, <1>3, <1>4, <1>5
  DEF TypeOK, ReceiveData, Message, Acknowledgement, windowVars, sendVars, envVars
<1>8. UNCHANGED <<dataAck, Accepted, done>> \/ \E d \in 1..N : Transfer!Accept(d)
  <2>1. done' = done
    BY DEF ReceiveData
  <2>2. CASE dataAck' = dataAck /\ dataHeld' = dataHeld
    BY <2>1, <2>2 DEF Accepted
  <2>3. CASE /\ s.dsn \in 1..N /\ s.dsn \notin (1..dataAck) \cup dataHeld
             /\ (1..dataAck') \cup dataHeld' = ((1..dataAck) \cup dataHeld) \cup {s.dsn}
    <3>1. s.dsn \notin Accepted /\ Accepted' = Accepted \cup {s.dsn}
      BY <2>3 DEF Accepted
    <3>2. 1..dataAck' \subseteq Accepted' /\ dataAck' + 1 \notin Accepted'
      BY <1>4, Zenon DEF Accepted, Absorbed
    <3>3. Transfer!Accept(s.dsn)
      BY <1>4, <2>1, <3>1, <3>2, Zenon DEF Transfer!Accept, Transfer!IsFrontier
    <3> QED
      BY <2>3, <3>3
  <2> QED
    BY <1>4, <2>2, <2>3 DEF Absorbed
<1> QED
  BY <1>4, <1>5, <1>6, <1>7, <1>8 DEF IInv, HeldBeyondGap, Absorbed

LEMMA DropStep == IInv /\ Drop => IInv'
<1> SUFFICES ASSUME IInv, Drop
             PROVE  IInv'
  OBVIOUS
<1>0. TypeOK /\ HeldBeyondGap /\ AcksKnown /\ DoneIsHeld
  BY DEF IInv
<1>1. /\ data \in Seq(Message) /\ nic \in 0..Len(data) /\ Len(data) \in Nat
      /\ acks \in Seq(Acknowledgement)
  BY <1>0, LenProperties DEF TypeOK, Message, Acknowledgement
<1>2. losses' \in 0..MaxLoss /\ untimed' \in BOOLEAN
  <2>1. losses' \in 0..MaxLoss
    BY <1>0, SwiftAssumption DEF TypeOK, Drop
  <2>2. untimed' \in BOOLEAN
    BY Zenon DEF Drop
  <2> QED
    BY <2>1, <2>2
<1>3. ASSUME Len(data) > nic /\ data' = Tail(data) /\ UNCHANGED acks
      PROVE  IInv'
  <2>1. data # << >> /\ nic \in Nat
    BY <1>1, <1>3, EmptySeq
  <2>2. Tail(data) \in Seq(Message) /\ Len(Tail(data)) = Len(data) - 1
    BY <1>1, <2>1, HeadTailProperties
  <2>3. data' \in Seq(Message) /\ nic \in 0..Len(data')
    BY <1>1, <1>3, <2>1, <2>2
  <2>4. TypeOK'
    BY <1>0, <1>2, <1>3, <2>3 DEF TypeOK, Drop, Message, windowVars, sendVars, sinkVars
  <2> QED
    BY <1>0, <1>3, <2>4 DEF IInv, Drop, HeldBeyondGap, AcksKnown, DoneIsHeld, sinkVars
<1>4. ASSUME acks # << >> /\ acks' = Tail(acks) /\ UNCHANGED data
      PROVE  IInv'
  <2>1. acks' \in Seq(Acknowledgement)
    BY <1>1, <1>4, HeadTailProperties
  <2>2. TypeOK'
    BY <1>0, <1>2, <1>4, <2>1
    DEF TypeOK, Drop, Acknowledgement, windowVars, sendVars, sinkVars
  <2>3. AcksKnown'
    BY <1>0, <1>4, TailKnown, Zenon DEF Drop, sinkVars
  <2> QED
    BY <1>0, <2>2, <2>3 DEF IInv, Drop, HeldBeyondGap, DoneIsHeld, sinkVars
<1> QED
  BY <1>3, <1>4 DEF Drop

\* A step that leaves the sink alone keeps the invariant, if it keeps the types,
\* sends no acknowledgement and reports nothing.
LEMMA SinkAlone ==
    ASSUME IInv, TypeOK', UNCHANGED <<sinkVars, acks, done>>
    PROVE  IInv'
BY DEF IInv, HeldBeyondGap, AcksKnown, DoneIsHeld, sinkVars

\* The flow is reported finished only if the sink has acknowledged all its data.
LEMMA AckStep ==
    IInv /\ ReceiveAck => IInv' /\ (UNCHANGED done \/ Transfer!Finish) /\ UNCHANGED sinkVars
<1> SUFFICES ASSUME IInv, ReceiveAck
             PROVE  IInv' /\ (UNCHANGED done \/ Transfer!Finish) /\ UNCHANGED sinkVars
  OBVIOUS
<1>0. TypeOK /\ HeldBeyondGap /\ AcksKnown /\ DoneIsHeld
  BY DEF IInv
<1>1. TypeOK'
  BY <1>0, ReceiveAckStep
<1>2. UNCHANGED sinkVars /\ acks # << >> /\ acks' = Tail(acks)
  BY DEF ReceiveAck
<1>3. Head(acks).ds \in 0..N /\ Head(acks).ds <= dataAck
  <2>1. acks \in Seq(Acknowledgement)
    BY <1>0 DEF TypeOK, Acknowledgement
  <2>2. Head(acks) = acks[1] /\ 1 \in DOMAIN acks
    BY <1>2, <2>1, EmptySeq, LenProperties
  <2>3. Head(acks) \in Acknowledgement
    BY <1>2, <2>1, HeadTailProperties
  <2> QED
    BY <1>0, <2>2, <2>3 DEF AcksKnown, Acknowledgement
<1>4. AcksKnown'
  BY <1>0, <1>2, TailKnown, Zenon DEF sinkVars
<1>5. done' = done \/ done' = (done \/ Head(acks).ds = N)
  BY DEF ReceiveAck
<1>6. N \in Nat /\ dataAck \in 0..N
  BY <1>0, SwiftAssumption DEF TypeOK
<1>7. CASE done' = done
  BY <1>0, <1>1, <1>2, <1>4, <1>7 DEF IInv, HeldBeyondGap, DoneIsHeld, sinkVars
<1>8. CASE done' # done
  <2>1. ~done /\ done' = TRUE /\ Head(acks).ds = N
    BY <1>0, <1>5, <1>8 DEF TypeOK
  <2>2. dataAck = N
    BY <1>3, <1>6, <2>1
  <2>3. Transfer!Finish
    BY <1>2, <2>1, <2>2 DEF Transfer!Finish, Accepted, sinkVars
  <2>4. DoneIsHeld' /\ HeldBeyondGap'
    BY <1>0, <1>2, <2>2 DEF DoneIsHeld, HeldBeyondGap, sinkVars
  <2> QED
    BY <1>1, <1>2, <1>4, <2>3, <2>4 DEF IInv
<1> QED
  BY <1>7, <1>8

LEMMA InvariantPreserved == IInv /\ [Next]_vars => IInv'
<1> SUFFICES ASSUME IInv, [Next]_vars
             PROVE  IInv'
  OBVIOUS
<1>0. TypeOK
  BY DEF IInv
<1>1. CASE StartFlow
  BY <1>0, <1>1, StartFlowStep, SinkAlone DEF StartFlow
<1>2. CASE PacerFires
  BY <1>0, <1>2, PacerStep, SinkAlone DEF PacerFires
<1>3. CASE NicCompletes
  BY <1>0, <1>3, NicStep, SinkAlone DEF NicCompletes
<1>4. CASE ReceiveAck
  BY <1>4, AckStep
<1>5. CASE TimerExpires \/ TimerExpiresEarly
  BY <1>0, <1>5, TimerStep, SinkAlone DEF TimerExpires, TimerExpiresEarly
<1>6. CASE Timeout
  BY <1>0, <1>6, TimeoutStep, SinkAlone DEF Timeout
<1>7. CASE ReceiveData
  BY <1>7, ReceiveDataStep
<1>8. CASE Drop
  BY <1>8, DropStep
<1>9. CASE UNCHANGED vars
  <2>1. TypeOK'
    BY <1>0, <1>9 DEF TypeOK, vars, windowVars, sendVars, sinkVars, envVars
  <2> QED
    BY <1>9, <2>1, SinkAlone DEF vars
<1> QED
  BY <1>1, <1>2, <1>3, <1>4, <1>5, <1>6, <1>7, <1>8, <1>9 DEF Next

-----------------------------------------------------------------------------
(* The theorems *)

\* In every reachable state the variables have their types, the data the sink holds
\* beyond its acknowledgement begins with a gap, no acknowledgement on its way says
\* more than the sink has acknowledged, and a flow reported finished is held
\* entirely: the parts of receivePacket of both sinks and of the source that decide
\* what counts as delivered.
THEOREM SwiftInvariance == Spec => []IInv
BY InvInit, InvariantPreserved, PTL DEF Spec

\* Whatever the windows, and however many messages are dropped or timeouts come too
\* early, the source, scheduler and sinks keep their types; in particular the source
\* never sends data beyond that of the flow, and the scheduler never holds more
\* packets than are on their way.
THEOREM SwiftTypeCorrect == Spec => []TypeOK
<1>1. IInv => TypeOK
  BY DEF IInv
<1> QED
  BY <1>1, SwiftInvariance, PTL

LEMMA SwiftStepRefines == IInv /\ [Next]_vars => [Transfer!Next]_(Transfer!vars)
<1> SUFFICES ASSUME IInv, [Next]_vars
             PROVE  Transfer!Next \/ UNCHANGED Transfer!vars
  OBVIOUS
<1>1. ASSUME UNCHANGED <<sinkVars, done>>
      PROVE  UNCHANGED Transfer!vars
  BY <1>1 DEF sinkVars, Transfer!vars, Accepted
<1>2. CASE ReceiveData
  <2>1. CASE UNCHANGED <<dataAck, Accepted, done>>
    BY <2>1 DEF Transfer!vars
  <2>2. CASE \E s \in 1..N : Transfer!Accept(s)
    BY <2>2 DEF Transfer!Next, Transfer!Packets
  <2> QED
    BY <1>2, <2>1, <2>2, ReceiveDataStep
<1>3. CASE ReceiveAck
  <2>1. (UNCHANGED done \/ Transfer!Finish) /\ UNCHANGED sinkVars
    BY <1>3, AckStep
  <2> QED
    BY <1>1, <2>1 DEF Transfer!Next
<1>4. CASE StartFlow \/ PacerFires \/ NicCompletes \/ TimerExpires
           \/ TimerExpiresEarly \/ Timeout \/ Drop \/ UNCHANGED vars
  BY <1>1, <1>4 DEF StartFlow, PacerFires, NicCompletes, TimerExpires,
                    TimerExpiresEarly, Timeout, Drop, vars
<1> QED
  BY <1>2, <1>3, <1>4 DEF Next

\* The subflow, its renumbering after a timeout, its retransmissions and its packets
\* without data implement the reliable transfer of the flow's data: each datum is
\* accepted once, the data acknowledgement is the prefix held, and the flow is
\* reported finished once, when the sink holds all of it.
THEOREM SwiftRefinement == Spec => ImplementsTransfer
<1>1. Init => Transfer!Init
  <2> SUFFICES ASSUME Init
               PROVE  Transfer!Init
    OBVIOUS
  <2>1. 1..dataAck = {} /\ dataHeld = {}
    BY DEF Init
  <2> QED
    BY <2>1 DEF Init, Transfer!Init, Accepted
<1> QED
  BY <1>1, SwiftInvariance, SwiftStepRefines, PTL
  DEF Spec, ImplementsTransfer, Transfer!Spec

-----------------------------------------------------------------------------
(* What is forgotten *)

\* Data that was sent, is not accepted, and is not on its way.
Missing ==
    {d \in 1..nextDsn : d \notin Accepted /\ \A i \in DOMAIN data : data[i].dsn # d}

\* No number of the subflow has been given to other data.
Identity == highest = nextDsn /\ dsnMap = [s \in 1..nextDsn |-> s]

\* Nothing has gone wrong: what is on its way follows what has arrived.
DataInOrder ==
    /\ Identity
    /\ held = {} /\ dataHeld = {} /\ dataAck = cumAck
    /\ Len(data) = highest - cumAck
    /\ \A i \in DOMAIN data : data[i] = [seq |-> cumAck + i, dsn |-> cumAck + i]
AcksInOrder ==
    /\ Len(acks) = cumAck - lastAcked
    /\ \A i \in DOMAIN acks : acks[i].ackno = lastAcked + i
Undisturbed == ~recovering /\ ~expired /\ (timer => lastAcked < highest)
Orderly == DataInOrder /\ AcksInOrder /\ Undisturbed

\* One packet is missing: the next the sink waits for, which the source will retransmit,
\* for the last acknowledgement it gets asks for it.
AcksAskForIt ==
    /\ lastAcked <= cumAck /\ \A i \in DOMAIN acks : acks[i].ackno <= cumAck
    /\ IF acks = <<>> THEN lastAcked = cumAck ELSE acks[Len(acks)].ackno = cumAck
    /\ expired => lastAcked = cumAck
OneMissing ==
    /\ Identity
    /\ Missing \subseteq {cumAck + 1} /\ dataAck = cumAck
    /\ \A i \in DOMAIN data : data[i].seq = data[i].dsn
    /\ AcksAskForIt

LossInv ==
    /\ losses = 0 => Missing = {}
    /\ losses = 0 /\ early = 0 => Orderly
    /\ SingleFault /\ Missing # {} => OneMissing

\* The sequence all consists of a, b and c.
Joins(S, all, a, b, c) ==
    /\ all \in Seq(S) /\ Len(all) = Len(a) + Len(b) + Len(c)
    /\ \A i \in 1..Len(a) : all[i] = a[i]
    /\ \A i \in 1..Len(b) : all[Len(a) + i] = b[i]
    /\ \A i \in 1..Len(c) : all[Len(a) + Len(b) + i] = c[i]

LEMMA Joined ==
    ASSUME NEW S, NEW a \in Seq(S), NEW b \in Seq(S), NEW c \in Seq(S)
    PROVE  Joins(S, (a \o b) \o c, a, b, c)
<1> DEFINE ab == a \o b
<1>1. /\ ab \in Seq(S) /\ Len(ab) = Len(a) + Len(b)
      /\ \A i \in 1..(Len(a) + Len(b)) : ab[i] = IF i <= Len(a) THEN a[i] ELSE b[i - Len(a)]
  BY ConcatProperties
<1>2. Len(a) \in Nat /\ Len(b) \in Nat /\ Len(c) \in Nat
  BY LenProperties
<1>3. /\ \A i \in 1..Len(a) : ab[i] = a[i]
      /\ \A i \in 1..Len(b) : ab[Len(a) + i] = b[i]
  BY <1>1, <1>2
<1> HIDE DEF ab
<1>d. /\ ab \o c \in Seq(S) /\ Len(ab \o c) = Len(ab) + Len(c)
      /\ \A i \in 1..(Len(ab) + Len(c)) :
           (ab \o c)[i] = IF i <= Len(ab) THEN ab[i] ELSE c[i - Len(ab)]
  <2>1. ab \in Seq(S)
    BY <1>1
  <2> QED
    BY <2>1, ConcatProperties, Zenon
<1> DEFINE abc == ab \o c
<1>4. /\ abc \in Seq(S) /\ Len(abc) = Len(ab) + Len(c)
      /\ \A i \in 1..(Len(ab) + Len(c)) :
           abc[i] = IF i <= Len(ab) THEN ab[i] ELSE c[i - Len(ab)]
  BY <1>d
<1> HIDE DEF abc
<1>5. \A i \in 1..Len(a) : abc[i] = a[i]
  BY <1>1, <1>2, <1>3, <1>4
<1>6. ASSUME NEW i \in 1..Len(b)
      PROVE  abc[Len(a) + i] = b[i]
  <2>1. Len(a) + i \in 1..(Len(ab) + Len(c)) /\ Len(a) + i <= Len(ab)
    BY <1>1, <1>2
  <2> QED
    BY <1>3, <1>4, <2>1
<1>7. ASSUME NEW i \in 1..Len(c)
      PROVE  abc[Len(a) + Len(b) + i] = c[i]
  <2> DEFINE j == Len(a) + Len(b) + i
  <2>1. j \in 1..(Len(ab) + Len(c)) /\ ~(j <= Len(ab)) /\ j - Len(ab) = i
    BY <1>1, <1>2
  <2> HIDE DEF j
  <2>2. abc[j] = c[i]
    BY <1>4, <2>1
  <2> QED
    BY <2>2 DEF j
<1>8. Len(abc) = Len(a) + Len(b) + Len(c)
  BY <1>1, <1>2, <1>4
<1> QED
  BY <1>4, <1>5, <1>6, <1>7, <1>8 DEF abc, ab, Joins

\* What a handler that sends puts on the way.
LEMMA PutContent ==
    ASSUME TypeOK, NEW re \in Seq(Message), NEW hs \in Nat, NEW k \in 0..(N - nextDsn),
           NEW q, Put(q, re, hs, k)
    PROVE  /\ data' \in Seq(Message) /\ Len(data') = Len(data) + Len(re) + k
           /\ \A i \in 1..Len(data) : data'[i] = data[i]
           /\ \A i \in 1..Len(re) : data'[Len(data) + i] = re[i]
           /\ \A i \in 1..k : data'[Len(data) + Len(re) + i]
                                = [seq |-> hs + i, dsn |-> nextDsn + i]
<1> DEFINE new == NewPackets(hs, k)
<1>1. nextDsn \in 0..N /\ data \in Seq(Message) /\ k \in Nat /\ nextDsn + k \in 0..N
  BY SwiftAssumption DEF TypeOK, Message
<1>2. /\ new \in Seq(Message) /\ Len(new) = k
      /\ \A i \in 1..k : new[i] = [seq |-> hs + i, dsn |-> nextDsn + i]
  <2>1. \A i \in 1..k : [seq |-> hs + i, dsn |-> nextDsn + i] \in Message
    BY <1>1, SwiftAssumption DEF Message
  <2> HIDE DEF Message
  <2> QED
    BY <2>1, <1>1, SMTT(60) DEF NewPackets
<1>3. data' = (data \o re) \o new
  BY DEF Put
<1> HIDE DEF new
<1>d. Joins(Message, (data \o re) \o new, data, re, new)
  <2>1. data \in Seq(Message) /\ new \in Seq(Message)
    BY <1>1, <1>2
  <2> QED
    BY <2>1, Joined, Zenon
<1> DEFINE all == (data \o re) \o new
<1>4. /\ all \in Seq(Message) /\ Len(all) = Len(data) + Len(re) + Len(new)
      /\ \A i \in 1..Len(data) : all[i] = data[i]
      /\ \A i \in 1..Len(re) : all[Len(data) + i] = re[i]
      /\ \A i \in 1..Len(new) : all[Len(data) + Len(re) + i] = new[i]
  BY <1>d DEF Joins
<1> HIDE DEF all
<1>5. data' = all
  BY <1>3 DEF all
<1>6. ASSUME NEW i \in 1..k
      PROVE  all[Len(data) + Len(re) + i] = [seq |-> hs + i, dsn |-> nextDsn + i]
  <2>1. all[Len(data) + Len(re) + i] = new[i] /\ i \in 1..Len(new)
    BY <1>2, <1>4
  <2> QED
    BY <1>2, <2>1, Zenon
<1>7. Len(all) = Len(data) + Len(re) + k
  BY <1>2, <1>4
<1> HIDE DEF new, Message
<1> QED
  BY <1>4, <1>5, <1>6, <1>7, Zenon

\* Sending forgets nothing, and remembers what it retransmits.
LEMMA PutFinds ==
    ASSUME TypeOK, NEW re \in Seq(Message), NEW hs \in Nat, NEW k \in 0..(N - nextDsn),
           NEW q, Put(q, re, hs, k), UNCHANGED sinkVars
    PROVE  Missing' \subseteq Missing /\ \A i \in 1..Len(re) : re[i].dsn \notin Missing'
<1>1. /\ data \in Seq(Message) /\ nextDsn \in Nat /\ k \in Nat
      /\ Len(data) \in Nat /\ Len(re) \in Nat /\ DOMAIN data = 1..Len(data)
  BY SwiftAssumption, LenProperties DEF TypeOK, Message
<1>2. /\ data' \in Seq(Message) /\ Len(data') = Len(data) + Len(re) + k
      /\ \A i \in 1..Len(data) : data'[i] = data[i]
      /\ \A i \in 1..Len(re) : data'[Len(data) + i] = re[i]
      /\ \A i \in 1..k : data'[Len(data) + Len(re) + i]
                           = [seq |-> hs + i, dsn |-> nextDsn + i]
  BY PutContent
<1>3. DOMAIN data' = 1..(Len(data) + Len(re) + k)
  BY <1>2, LenProperties
<1>4. Accepted' = Accepted /\ nextDsn' = nextDsn + k
  BY DEF Accepted, sinkVars, Put
<1>5. ASSUME NEW d \in Missing'
      PROVE  d \in Missing
  <2>1. /\ d \in 1..(nextDsn + k) /\ d \notin Accepted
        /\ \A i \in DOMAIN data' : data'[i].dsn # d
    BY <1>4, <1>5 DEF Missing
  <2>2. CASE d > nextDsn
    <3> DEFINE j == d - nextDsn
               at == Len(data) + Len(re) + j
    <3>1. j \in 1..k /\ nextDsn + j = d /\ at \in DOMAIN data'
      BY <1>1, <1>3, <2>1, <2>2
    <3>2. data'[at] = [seq |-> hs + j, dsn |-> nextDsn + j]
      BY <1>2, <3>1
    <3>3. data'[at].dsn = d
      BY <3>1, <3>2
    <3> QED
      BY <2>1, <3>1, <3>3
  <2>3. CASE d <= nextDsn
    <3>1. \A i \in DOMAIN data : i \in DOMAIN data' /\ data'[i] = data[i]
      BY <1>1, <1>2, <1>3
    <3>2. \A i \in DOMAIN data : data[i].dsn # d
      BY <2>1, <3>1
    <3>3. d \in 1..nextDsn
      BY <1>1, <2>1, <2>3
    <3> QED
      BY <2>1, <3>2, <3>3 DEF Missing
  <2> QED
    BY <1>1, <2>1, <2>2, <2>3
<1>6. ASSUME NEW i \in 1..Len(re)
      PROVE  re[i].dsn \notin Missing'
  <2>1. Len(data) + i \in DOMAIN data' /\ data'[Len(data) + i] = re[i]
    BY <1>1, <1>2, <1>3
  <2> QED
    BY <2>1 DEF Missing
<1> QED
  BY <1>5, <1>6

\* Sending new data beyond all that was sent keeps the numbers.
LEMMA PutIdentity ==
    ASSUME TypeOK, Identity, NEW re, NEW k \in 0..(N - nextDsn), NEW q,
           Put(q, re, highest, k)
    PROVE  Identity'
<1> DEFINE m == IF highest + k > Len(dsnMap) THEN highest + k ELSE Len(dsnMap)
           entry(s) == IF s \in (highest + 1)..(highest + k) THEN nextDsn + s - highest
                       ELSE DsnOf(s)
<1>1. /\ nextDsn \in Nat /\ k \in Nat /\ highest = nextDsn
      /\ dsnMap = [s \in 1..nextDsn |-> s]
  BY SwiftAssumption DEF TypeOK, Identity
<1>2. Len(dsnMap) = nextDsn /\ DOMAIN dsnMap = 1..nextDsn
  BY <1>1
<1>3. m = nextDsn + k
  BY <1>1, <1>2
<1>4. \A s \in 1..(nextDsn + k) : entry(s) = s
  <2> SUFFICES ASSUME NEW s \in 1..(nextDsn + k)
               PROVE  entry(s) = s
    OBVIOUS
  <2>1. CASE s \in (highest + 1)..(highest + k)
    BY <1>1, <2>1
  <2>2. CASE s \notin (highest + 1)..(highest + k)
    <3>1. s \in 1..nextDsn
      BY <1>1, <2>2
    <3> QED
      BY <1>1, <1>2, <2>2, <3>1 DEF DsnOf
  <2> QED
    BY <2>1, <2>2
<1>5. dsnMap' = [s \in 1..m |-> entry(s)] /\ highest' = highest + k /\ nextDsn' = nextDsn + k
  BY DEF Put
<1> HIDE DEF m, entry
<1>6. dsnMap' = [s \in 1..nextDsn' |-> s]
  BY <1>3, <1>4, <1>5
<1> QED
  BY <1>1, <1>5, <1>6 DEF Identity
\* A handler has sent re and some new packets beyond hs; the timer runs then if tm holds,
\* or perhaps if something new was sent.
Sends(re, hs, tm) ==
    \E q \in Nat, k \in 0..(N - nextDsn) :
        Put(q, re, hs, k) /\ (timer' => tm \/ k > 0) /\ (tm => timer')
Quiet == UNCHANGED <<data, highest, nextDsn, dsnMap, timer>>

LEMMA PacedSends ==
    ASSUME TypeOK, NEW hs, NEW q \in Nat, NEW tm, PacedSend(q, hs), timer' = tm
    PROVE  Sends(<<>>, hs, tm)
<1> DEFINE k == IF q >= NicLimit THEN 0 ELSE Lesser(1, N - nextDsn)
<1>1. k \in 0..(N - nextDsn)
  <2>1. N - nextDsn \in Nat
    BY SwiftAssumption DEF TypeOK
  <2> QED
    BY <2>1, SwiftAssumption DEF Lesser
<1>2. Put(q, <<>>, hs, k)
  BY DEF PacedSend
<1> HIDE DEF k
<1> QED
  BY <1>1, <1>2, Zenon DEF Sends

LEMMA SendPacketsSends ==
    ASSUME TypeOK, NEW at \in SendState, NEW re \in Seq(Message), SendPackets(at, re)
    PROVE  Sends(re, at.highest, at.timer) \/ Sends(<<>>, at.highest, at.timer)
<1>1. at.queued \in Nat /\ N - nextDsn \in Nat /\ 0 \in 0..(N - nextDsn)
  BY SwiftAssumption DEF SendState, TypeOK
<1>2. CASE SendByWindow(at, re)
  <2> DEFINE sent == Lesser(Wanted(at), Excess(NicLimit, at.queued + Len(re)))
  <2>1. sent \in 0..(N - nextDsn)
    <3>1. Len(re) \in Nat /\ NicLimit \in Nat
      BY SwiftAssumption, LenProperties
    <3>2. Excess(NicLimit, at.queued + Len(re)) \in Nat
      BY <1>1, <3>1 DEF Excess
    <3> QED
      BY <1>1, <3>1, <3>2, WantedTyped DEF Lesser
  <2>2. Put(at.queued, re, at.highest, sent) /\ timer' = (at.timer \/ sent > 0)
    BY <1>2 DEF SendByWindow
  <2> HIDE DEF sent
  <2> QED
    BY <1>1, <2>1, <2>2, Zenon DEF Sends
<1>3. CASE SendByPacer(at, re)
  <2>1. CASE Put(at.queued, re, at.highest, 0) /\ timer' = at.timer
    BY <1>1, <2>1, Zenon DEF Sends
  <2>2. CASE PacedSend(at.queued, at.highest) /\ timer' = at.timer
    BY <1>1, <2>2, PacedSends, Zenon
  <2> QED
    BY <1>3, <2>1, <2>2 DEF SendByPacer
<1> QED
  BY <1>2, <1>3 DEF SendPackets

\* The handlers that send without an acknowledgement.
LEMMA SourceSends ==
    ASSUME TypeOK, StartFlow \/ PacerFires \/ NicCompletes
    PROVE  Quiet \/ Sends(<<>>, highest, timer)
<1>0. << >> \in Seq(Message)
  OBVIOUS
<1>1. CASE StartFlow
  <2> DEFINE at == [acked |-> lastAcked, highest |-> highest, window |-> cwnd + inflate,
                    slow |-> slow, timer |-> timer, deferred |-> deferred, queued |-> nic]
  <2>1. at \in SendState /\ at.highest = highest /\ at.timer = timer
    BY SwiftAssumption, LenProperties, SMTT(60) DEF TypeOK, SendState
  <2>2. SendPackets(at, <<>>)
    BY <1>1 DEF StartFlow
  <2> HIDE DEF at
  <2>3. Sends(<<>>, at.highest, at.timer)
    BY <1>0, <2>1, <2>2, SendPacketsSends, Zenon
  <2> QED
    BY <2>1, <2>3
<1>2. CASE PacerFires
  <2>1. nic \in Nat
    BY LenProperties DEF TypeOK
  <2>2. PacedSend(nic, highest) /\ timer' = timer
    BY <1>2 DEF PacerFires
  <2> QED
    BY <2>1, <2>2, PacedSends, Zenon
<1>3. CASE NicCompletes /\ Callback
  <2> DEFINE at == [acked |-> lastAcked, highest |-> highest, window |-> cwnd + inflate,
                    slow |-> slow, timer |-> timer, deferred |-> FALSE,
                    queued |-> nic - 1]
  <2>1. at \in SendState /\ at.highest = highest /\ at.timer = timer
    <3>1. nic - 1 \in Nat
      <4>1. nic \in 0..Len(data) /\ Len(data) \in Nat
        BY LenProperties DEF TypeOK
      <4>2. nic > 0
        BY <1>3 DEF NicCompletes
      <4> QED
        BY <4>1, <4>2
    <3>2. /\ lastAcked \in Nat /\ highest \in Nat /\ cwnd + inflate \in Nat
          /\ slow \in BOOLEAN /\ timer \in BOOLEAN
      BY SwiftAssumption, SMTT(60) DEF TypeOK
    <3> QED
      BY <3>1, <3>2 DEF SendState
  <2>2. SendPackets(at, <<>>)
    BY <1>3 DEF NicCompletes
  <2> HIDE DEF at
  <2>3. Sends(<<>>, at.highest, at.timer)
    BY <1>0, <2>1, <2>2, SendPacketsSends, Zenon
  <2> QED
    BY <2>1, <2>3
<1>4. CASE NicCompletes /\ ~Callback
  BY <1>4 DEF NicCompletes, sendVars, Quiet
<1> QED
  BY <1>1, <1>2, <1>3, <1>4

\* What an acknowledgement of number n makes the source do.
Responds(n) ==
    \/ Quiet
    \/ \E re \in {<<>>, Retransmission(n)}, hs \in {highest, HighestAfter(n)},
          tm \in BOOLEAN : Sends(re, hs, tm)

\* The timer does not run after it: nothing is left to acknowledge, or it did not before.
Unwatched(n) ==
    \/ n >= highest /\ Sends(<<>>, n, FALSE)
    \/ n = lastAcked /\ ~timer /\ (Quiet \/ Sends(<<>>, highest, FALSE))
AckOutcome(n) ==
    \/ n < lastAcked /\ UNCHANGED <<lastAcked, recovering>> /\ Quiet
    \/ /\ n >= lastAcked /\ lastAcked' = n
       /\ Responds(n)
       /\ timer' \/ Unwatched(n)
       /\ (n > lastAcked /\ ~recovering =>
              ~recovering' /\ Sends(<<>>, HighestAfter(n), TimerRuns(n)))

LEMMA LimitAndSendSends ==
    ASSUME TypeOK, NEW acked \in Nat, NEW hs \in Nat, NEW tm \in BOOLEAN,
           NEW re \in Seq(Message), cwnd' \in Windows, inflate' \in Nat,
           LimitAndSend(acked, hs, tm, re)
    PROVE  Sends(re, hs, tm) \/ Sends(<<>>, hs, tm)
<1> DEFINE at == [acked |-> acked, highest |-> hs, window |-> cwnd' + inflate',
                  slow |-> slow', timer |-> tm, deferred |-> deferred, queued |-> nic]
<1>1. slow' \in BOOLEAN
  BY DEF LimitAndSend
<1>2. at \in SendState /\ at.highest = hs /\ at.timer = tm
  <2>1. nic \in Nat /\ deferred \in BOOLEAN
    BY LenProperties DEF TypeOK
  <2>2. cwnd' + inflate' \in Nat
    <3>1. cwnd' \in Nat /\ inflate' \in Nat
      BY SwiftAssumption
    <3> QED
      BY <3>1, SumTyped, Zenon
  <2> QED
    BY <1>1, <2>1, <2>2 DEF SendState
<1>3. SendPackets(at, re)
  BY DEF LimitAndSend
<1> HIDE DEF at
<1>4. Sends(re, at.highest, at.timer) \/ Sends(<<>>, at.highest, at.timer)
  BY <1>2, <1>3, SendPacketsSends, Zenon
<1> QED
  BY <1>2, <1>4

LEMMA AckSends ==
    ASSUME TypeOK, ReceiveAck
    PROVE  AckOutcome(Head(acks).ackno)
<1> SUFFICES ASSUME NEW n, n = Head(acks).ackno
             PROVE  AckOutcome(n)
  OBVIOUS
<1>1. n \in Nat
  <2>1. acks \in Seq(Acknowledgement) /\ acks # << >>
    BY DEF TypeOK, ReceiveAck, Acknowledgement
  <2>2. Head(acks) \in Acknowledgement
    BY <2>1, HeadTailProperties
  <2> QED
    BY <2>2 DEF Acknowledgement
<1>2. CASE n < lastAcked
  BY <1>2 DEF ReceiveAck, AckOutcome, windowVars, sendVars, Quiet
<1>3. CASE ~(n < lastAcked)
  <2>1. /\ cwnd' \in Windows /\ lastAcked' = n
        /\ \/ /\ n > lastAcked
              /\ Advance(n) \/ AdvancePartly(n)
              /\ UNCHANGED recoverq
           \/ /\ n = lastAcked
              /\ DuplicateInflates \/ DuplicateCounts \/ DuplicateRetransmits
    BY <1>3 DEF ReceiveAck
  <2>2. inflate' \in Nat
    <3>1. TypeOK'
      BY ReceiveAckStep
    <3> QED
      BY <3>1 DEF TypeOK
  <2>3. /\ lastAcked \in Nat /\ highest \in Nat /\ timer \in BOOLEAN
        /\ recovering \in BOOLEAN /\ n >= lastAcked
    BY <1>1, <1>3, SMTT(60) DEF TypeOK
  <2>4. << >> \in Seq(Message) /\ Retransmission(n) \in Seq(Message)
    BY <1>1, RetransmissionTyped
  <2>5. HighestAfter(n) \in Nat /\ TimerRuns(n) \in BOOLEAN
    BY <1>1, <2>3 DEF HighestAfter, TimerRuns
  <2>6. CASE n > lastAcked /\ Advance(n)
    <3>1. LimitAndSend(n, HighestAfter(n), TimerRuns(n), <<>>) /\ ~recovering'
      BY <2>6 DEF Advance
    <3>2. Sends(<<>>, HighestAfter(n), TimerRuns(n))
      BY <1>1, <2>1, <2>2, <2>4, <2>5, <3>1, LimitAndSendSends, Zenon
    <3>3. Responds(n)
      BY <2>5, <3>2, Zenon DEF Responds
    <3>4. timer' \/ Unwatched(n)
      <4>1. CASE TimerRuns(n)
        BY <3>2, <4>1, Zenon DEF Sends
      <4>2. CASE ~TimerRuns(n)
        <5>1. n >= highest /\ HighestAfter(n) = n /\ TimerRuns(n) = FALSE
          BY <1>1, <2>3, <4>2 DEF TimerRuns, HighestAfter
        <5>2. Sends(<<>>, n, FALSE)
          BY <3>2, <5>1
        <5> QED
          BY <5>1, <5>2, Zenon DEF Unwatched
      <4> QED
        BY <4>1, <4>2
    <3> QED
      BY <2>1, <2>3, <3>1, <3>2, <3>3, <3>4 DEF AckOutcome
  <2>7. CASE n > lastAcked /\ AdvancePartly(n)
    <3>1. LimitAndSend(n, HighestAfter(n), TRUE, Retransmission(n)) /\ recovering
      BY <2>7 DEF AdvancePartly
    <3>2. \/ Sends(Retransmission(n), HighestAfter(n), TRUE)
          \/ Sends(<<>>, HighestAfter(n), TRUE)
      BY <1>1, <2>1, <2>2, <2>4, <2>5, <3>1, LimitAndSendSends, Zenon
    <3>3. Responds(n)
      BY <3>2, Zenon DEF Responds
    <3>4. timer'
      BY <3>2, Zenon DEF Sends
    <3> QED
      BY <2>1, <2>3, <3>1, <3>3, <3>4 DEF AckOutcome
  <2>8. CASE n = lastAcked /\ DuplicateInflates
    <3> DEFINE at == [acked |-> lastAcked, highest |-> highest,
                      window |-> cwnd' + inflate', slow |-> slow, timer |-> timer,
                      deferred |-> deferred, queued |-> nic]
    <3>1. at \in SendState /\ at.highest = highest /\ at.timer = timer
      <4>1. cwnd' + inflate' \in Nat
        <5>1. cwnd' \in Nat
          BY <2>1, SwiftAssumption
        <5> QED
          BY <2>2, <5>1, SumTyped, Zenon
      <4>2. nic \in Nat /\ slow \in BOOLEAN /\ deferred \in BOOLEAN
        BY LenProperties DEF TypeOK
      <4> QED
        BY <2>3, <4>1, <4>2 DEF SendState
    <3>2. SendPackets(at, <<>>)
      BY <2>8 DEF DuplicateInflates
    <3> HIDE DEF at
    <3>3. Sends(<<>>, at.highest, at.timer)
      BY <2>4, <3>1, <3>2, SendPacketsSends, Zenon
    <3>4. Sends(<<>>, highest, timer)
      BY <3>1, <3>3
    <3>5. Responds(n)
      BY <2>3, <3>4, Zenon DEF Responds
    <3>6. timer' \/ Unwatched(n)
      <4>1. CASE timer
        BY <3>4, <4>1, Zenon DEF Sends
      <4>2. CASE ~timer
        <5>1. timer = FALSE
          BY <2>3, <4>2
        <5>2. Sends(<<>>, highest, FALSE)
          BY <3>4, <5>1
        <5> QED
          BY <2>8, <4>2, <5>2, Zenon DEF Unwatched
      <4> QED
        BY <4>1, <4>2
    <3> QED
      BY <2>1, <2>3, <2>8, <3>5, <3>6 DEF AckOutcome
  <2>9. CASE n = lastAcked /\ DuplicateCounts
    <3>1. LimitAndSend(lastAcked, highest, timer, <<>>)
      BY <2>9 DEF DuplicateCounts
    <3>2. Sends(<<>>, highest, timer)
      BY <2>1, <2>2, <2>3, <2>4, <3>1, LimitAndSendSends, Zenon
    <3>3. Responds(n)
      BY <2>3, <3>2, Zenon DEF Responds
    <3>4. timer' \/ Unwatched(n)
      <4>1. CASE timer
        BY <3>2, <4>1, Zenon DEF Sends
      <4>2. CASE ~timer
        <5>1. timer = FALSE
          BY <2>3, <4>2
        <5>2. Sends(<<>>, highest, FALSE)
          BY <3>2, <5>1
        <5> QED
          BY <2>9, <4>2, <5>2, Zenon DEF Unwatched
      <4> QED
        BY <4>1, <4>2
    <3> QED
      BY <2>1, <2>3, <2>9, <3>3, <3>4 DEF AckOutcome
  <2>10. CASE n = lastAcked /\ DuplicateRetransmits
    <3>1. CASE lastAcked < recoverq
      <4>1. Quiet
        BY <2>10, <3>1 DEF DuplicateRetransmits, sendVars, Quiet
      <4>2. timer' \/ Unwatched(n)
        BY <2>3, <2>10, <4>1 DEF Quiet, Unwatched
      <4> QED
        BY <2>1, <2>3, <2>10, <4>1, <4>2 DEF AckOutcome, Responds
    <3>2. CASE ~(lastAcked < recoverq)
      <4>1. Put(nic, Retransmission(n), highest, 0) /\ timer' = TRUE
        BY <2>10, <3>2 DEF DuplicateRetransmits
      <4>2. nic \in Nat /\ 0 \in 0..(N - nextDsn)
        BY SwiftAssumption, LenProperties DEF TypeOK
      <4>3. Sends(Retransmission(n), highest, TRUE)
        BY <4>1, <4>2, Zenon DEF Sends
      <4>4. Responds(n)
        BY <4>3, Zenon DEF Responds
      <4> QED
        BY <2>1, <2>3, <2>10, <4>1, <4>4 DEF AckOutcome
    <3> QED
      BY <3>1, <3>2
  <2> QED
    BY <2>1, <2>6, <2>7, <2>8, <2>9, <2>10
<1> QED
  BY <1>2, <1>3
\* Sending forgets nothing.
LEMMA SendsFind ==
    ASSUME TypeOK, NEW re \in Seq(Message), NEW hs \in Nat, NEW tm, Sends(re, hs, tm),
           UNCHANGED sinkVars
    PROVE  Missing' \subseteq Missing
<1>1. PICK q \in Nat, k \in 0..(N - nextDsn) : Put(q, re, hs, k)
  BY Zenon DEF Sends
<1> QED
  BY <1>1, PutFinds, Zenon

LEMMA QuietFinds ==
    ASSUME Quiet \/ UNCHANGED <<data, nextDsn>>, UNCHANGED sinkVars
    PROVE  Missing' = Missing
BY DEF Quiet, Missing, Accepted, sinkVars

LEMMA RespondsFind ==
    ASSUME TypeOK, NEW n \in Nat, Responds(n), UNCHANGED sinkVars
    PROVE  Missing' \subseteq Missing
<1>1. CASE Quiet
  BY <1>1, QuietFinds
<1>2. ASSUME NEW re \in {<<>>, Retransmission(n)}, NEW hs \in {highest, HighestAfter(n)},
             NEW tm \in BOOLEAN, Sends(re, hs, tm)
      PROVE  Missing' \subseteq Missing
  <2>1. << >> \in Seq(Message) /\ Retransmission(n) \in Seq(Message)
    BY RetransmissionTyped
  <2>2. re \in Seq(Message)
    BY <1>2, <2>1
  <2>3. hs \in Nat
    BY <1>2 DEF TypeOK, HighestAfter
  <2> QED
    BY <1>2, <2>2, <2>3, SendsFind, Zenon
<1> QED
  BY <1>1, <1>2, Zenon DEF Responds

\* What arrives is held from then on, and so is what was held.
LEMMA TakesHolds ==
    ASSUME NEW s \in Nat, NEW cum \in Nat, NEW above, NEW cumNew, NEW aboveNew,
           IsFiniteSet(above), Takes(s, cum, above, cumNew, aboveNew)
    PROVE  /\ (1..cum) \cup above \subseteq (1..cumNew) \cup aboveNew
           /\ s > 0 => s \in (1..cumNew) \cup aboveNew
<1>1. CASE s = cum + 1
  <2>1. PICK c \in s..(s + Cardinality(above)) :
               /\ (s + 1)..c \subseteq above /\ c + 1 \notin above
               /\ cumNew = c /\ aboveNew = above \ (1..c)
    BY <1>1 DEF Takes
  <2>2. c \in Nat /\ c >= s
    BY <2>1, FS_CardinalityType
  <2>3. \A d \in 1..cum : d \in 1..c
    BY <1>1, <2>2
  <2>4. s \in 1..c
    BY <1>1, <2>2
  <2> QED
    BY <2>1, <2>3, <2>4
<1>2. CASE s <= cum /\ cumNew = cum /\ aboveNew = above
  BY <1>2
<1>3. CASE s > cum + 1 /\ cumNew = cum /\ aboveNew = above \cup {s}
  BY <1>3
<1> QED
  BY <1>1, <1>2, <1>3 DEF Takes

\* The tail of what is on its way.
LEMMA Arrival ==
    ASSUME TypeOK, Len(data) > nic
    PROVE  /\ data # <<>> /\ Len(data) \in Nat /\ Len(data) > 0
           /\ data[1] = Head(data) /\ Head(data) \in Message
           /\ DOMAIN data = 1..Len(data) /\ DOMAIN Tail(data) = 1..(Len(data) - 1)
           /\ Len(Tail(data)) = Len(data) - 1
           /\ \A i \in 1..(Len(data) - 1) : Tail(data)[i] = data[i + 1]
<1>1. data \in Seq(Message) /\ nic \in Nat /\ Len(data) \in Nat
  BY LenProperties DEF TypeOK, Message
<1>2. data # << >>
  BY <1>1, EmptySeq
<1>3. /\ Head(data) \in Message /\ Tail(data) \in Seq(Message)
      /\ Len(Tail(data)) = Len(data) - 1
      /\ \A i \in 1..(Len(data) - 1) : Tail(data)[i] = data[i + 1]
  BY <1>1, <1>2, HeadTailProperties
<1>4. data[1] = Head(data)
  BY <1>1, <1>2
<1>5. DOMAIN data = 1..Len(data) /\ DOMAIN Tail(data) = 1..(Len(data) - 1)
  BY <1>1, <1>3, LenProperties
<1>6. Len(data) > 0
  BY <1>1
<1> HIDE DEF Message
<1> QED
  BY <1>1, <1>2, <1>3, <1>4, <1>5, <1>6

LEMMA AckArrival ==
    ASSUME TypeOK, acks # <<>>
    PROVE  /\ Len(acks) \in Nat /\ Len(acks) > 0
           /\ acks[1] = Head(acks) /\ Head(acks) \in Acknowledgement
           /\ DOMAIN acks = 1..Len(acks) /\ DOMAIN Tail(acks) = 1..(Len(acks) - 1)
           /\ Len(Tail(acks)) = Len(acks) - 1
           /\ \A i \in 1..(Len(acks) - 1) : Tail(acks)[i] = acks[i + 1]
           /\ Tail(acks) = <<>> <=> Len(acks) = 1
<1>1. acks \in Seq(Acknowledgement) /\ Len(acks) \in Nat /\ Len(acks) > 0
  <2>1. acks \in Seq(Acknowledgement)
    BY DEF TypeOK, Acknowledgement
  <2> QED
    BY <2>1, EmptySeq, LenProperties
<1>3. /\ Head(acks) \in Acknowledgement /\ Tail(acks) \in Seq(Acknowledgement)
      /\ Len(Tail(acks)) = Len(acks) - 1
      /\ \A i \in 1..(Len(acks) - 1) : Tail(acks)[i] = acks[i + 1]
  BY <1>1, HeadTailProperties
<1>4. acks[1] = Head(acks)
  BY <1>1
<1>5. Tail(acks) = <<>> <=> Len(acks) = 1
  <2>1. \A y \in Seq(Acknowledgement) : y = <<>> <=> Len(y) = 0
    BY EmptySeq
  <2>2. Tail(acks) = <<>> <=> Len(Tail(acks)) = 0
    BY <1>3, <2>1
  <2> QED
    BY <1>1, <1>3, <2>2
<1>6. DOMAIN acks = 1..Len(acks) /\ DOMAIN Tail(acks) = 1..(Len(acks) - 1)
  BY <1>1, <1>3, LenProperties
<1> QED
  BY <1>1, <1>3, <1>4, <1>5, <1>6

LEMMA ReceiveFinds ==
    ASSUME IInv, ReceiveData
    PROVE  /\ Missing' \subseteq Missing /\ Head(data).dsn \notin Missing'
<1>0. TypeOK /\ IsFiniteSet(dataHeld) /\ dataAck \in Nat
  <2>1. TypeOK
    BY DEF IInv
  <2>2. IsFiniteSet(1..N) /\ dataHeld \subseteq 1..N
    BY <2>1, SwiftAssumption, FS_Interval, SMTT(60) DEF TypeOK
  <2>3. dataAck \in Nat
    BY <2>1, SwiftAssumption DEF TypeOK
  <2>4. dataHeld \in SUBSET (1..N)
    BY <2>2
  <2>5. IsFiniteSet(dataHeld)
    BY <2>2, <2>4, FS_Subset, Zenon
  <2> QED
    BY <2>1, <2>3, <2>5
<1>1. /\ data[1] = Head(data) /\ Head(data) \in Message /\ Len(data) \in Nat
      /\ DOMAIN data = 1..Len(data) /\ DOMAIN Tail(data) = 1..(Len(data) - 1)
      /\ \A i \in 1..(Len(data) - 1) : Tail(data)[i] = data[i + 1]
  BY <1>0, Arrival DEF ReceiveData
<1> DEFINE s == Head(data).dsn
<1>2. s \in Nat
  BY <1>1 DEF Message
<1> HIDE DEF s
<1>3. Takes(s, dataAck, dataHeld, dataAck', dataHeld') /\ data' = Tail(data)
      /\ nextDsn' = nextDsn
  BY DEF ReceiveData, s, sendVars
<1>4. Accepted \subseteq Accepted' /\ (s > 0 => s \in Accepted')
  BY <1>0, <1>2, <1>3, TakesHolds, Zenon DEF Accepted
<1>5. s \notin Missing'
  BY <1>2, <1>3, <1>4 DEF Missing
<1>6. ASSUME NEW d \in Missing'
      PROVE  d \in Missing
  <2>1. /\ d \in 1..nextDsn /\ d \notin Accepted /\ d # s
        /\ \A i \in DOMAIN Tail(data) : Tail(data)[i].dsn # d
    BY <1>3, <1>4, <1>5, <1>6 DEF Missing
  <2>2. ASSUME NEW i \in DOMAIN data
        PROVE  data[i].dsn # d
    <3>1. CASE i = 1
      BY <1>1, <2>1, <3>1 DEF s
    <3>2. CASE i # 1
      <4> DEFINE j == i - 1
      <4>1. j \in 1..(Len(data) - 1) /\ j + 1 = i
        BY <1>1, <2>2, <3>2
      <4> HIDE DEF j
      <4>2. Tail(data)[j] = data[i]
        BY <1>1, <4>1
      <4> QED
        BY <1>1, <2>1, <4>1, <4>2
    <3> QED
      BY <3>1, <3>2
  <2> QED
    BY <2>1, <2>2 DEF Missing
<1> QED
  BY <1>5, <1>6 DEF s

\* Only what is dropped may be missing after a step, if it was not before.
LEMMA StepFinds ==
    ASSUME IInv, [Next]_vars, ~Drop
    PROVE  Missing' \subseteq Missing
<1>0. TypeOK
  BY DEF IInv
<1>1. CASE StartFlow \/ PacerFires \/ NicCompletes
  <2>1. UNCHANGED sinkVars
    BY <1>1 DEF StartFlow, PacerFires, NicCompletes
  <2>2. CASE Quiet
    BY <2>1, <2>2, QuietFinds
  <2>3. CASE Sends(<<>>, highest, timer)
    <3>1. << >> \in Seq(Message) /\ highest \in Nat
      BY <1>0 DEF TypeOK
    <3> QED
      BY <1>0, <2>1, <2>3, <3>1, SendsFind, Zenon
  <2> QED
    BY <1>0, <1>1, <2>2, <2>3, SourceSends
<1>2. CASE ReceiveAck
  <2>1. UNCHANGED sinkVars /\ AckOutcome(Head(acks).ackno)
    <3>1. UNCHANGED sinkVars
      BY <1>2 DEF ReceiveAck
    <3> QED
      BY <1>0, <1>2, <3>1, AckSends, Zenon
  <2>2. Head(acks).ackno \in Nat
    BY <1>0, <1>2, AckArrival DEF ReceiveAck, Acknowledgement
  <2> QED
    BY <1>0, <2>1, <2>2, QuietFinds, RespondsFind DEF AckOutcome
<1>3. CASE Timeout
  <2>1. UNCHANGED sinkVars /\ Put(nic, Retransmission(lastAcked), lastAcked + 1, 0)
    BY <1>3 DEF Timeout
  <2>2. /\ Retransmission(lastAcked) \in Seq(Message) /\ lastAcked + 1 \in Nat
        /\ 0 \in 0..(N - nextDsn)
    BY <1>0, RetransmissionTyped, SwiftAssumption, SMTT(30) DEF TypeOK
  <2> QED
    BY <1>0, <2>1, <2>2, PutFinds, Zenon
<1>4. CASE ReceiveData
  BY <1>4, ReceiveFinds
<1>5. CASE TimerExpires \/ TimerExpiresEarly \/ UNCHANGED vars
  <2>1. UNCHANGED sinkVars /\ UNCHANGED <<data, nextDsn>>
    BY <1>5 DEF TimerExpires, TimerExpiresEarly, vars, sendVars
  <2> QED
    BY <2>1, QuietFinds
<1> QED
  BY <1>1, <1>2, <1>3, <1>4, <1>5 DEF Next
-----------------------------------------------------------------------------
(* Nothing has gone wrong *)

\* New packets continue what is on its way.
LEMMA SendsInOrder ==
    ASSUME TypeOK, DataInOrder, NEW tm \in BOOLEAN, Sends(<<>>, highest, tm),
           UNCHANGED sinkVars
    PROVE  DataInOrder' /\ highest' >= highest /\ (timer' => tm \/ highest' > highest)
<1>1. PICK q \in Nat, k \in 0..(N - nextDsn) :
            Put(q, <<>>, highest, k) /\ (timer' => tm \/ k > 0)
  BY Zenon DEF Sends
<1>2. << >> \in Seq(Message) /\ Len(<<>>) = 0
  OBVIOUS
<1>3. /\ highest \in Nat /\ k \in Nat /\ cumAck \in Nat /\ Len(data) \in Nat
      /\ DOMAIN data = 1..Len(data) /\ nextDsn = highest
  BY LenProperties, SwiftAssumption DEF TypeOK, DataInOrder, Identity
<1>4. /\ data' \in Seq(Message) /\ Len(data') = Len(data) + k
      /\ \A i \in 1..Len(data) : data'[i] = data[i]
      /\ \A i \in 1..k : data'[Len(data) + i] = [seq |-> highest + i, dsn |-> nextDsn + i]
  <2> DEFINE none == Len(<<>>)
  <2>0. none = 0
    BY <1>2
  <2> HIDE DEF none
  <2>1. /\ data' \in Seq(Message) /\ Len(data') = Len(data) + none + k
        /\ \A i \in 1..Len(data) : data'[i] = data[i]
        /\ \A i \in 1..k : data'[Len(data) + none + i]
                             = [seq |-> highest + i, dsn |-> nextDsn + i]
    <3>1. << >> \in Seq(Message) /\ highest \in Nat /\ Put(q, <<>>, highest, k)
      BY <1>1, <1>2, <1>3
    <3> HIDE DEF Message
    <3> QED
      BY <3>1, PutContent DEF none
  <2>2. Len(data') = Len(data) + k
    BY <1>3, <2>0, <2>1
  <2>3. ASSUME NEW i \in 1..k
        PROVE  data'[Len(data) + i] = [seq |-> highest + i, dsn |-> nextDsn + i]
    <3>1. Len(data) + none + i = Len(data) + i
      BY <1>3, <2>0
    <3>2. data'[Len(data) + none + i] = [seq |-> highest + i, dsn |-> nextDsn + i]
      BY <2>1, Zenon
    <3> QED
      BY <3>1, <3>2, Zenon
  <2> HIDE DEF Message
  <2> QED
    BY <2>1, <2>2, <2>3, Zenon
<1>5. Identity'
  BY <1>1, PutIdentity, Zenon DEF DataInOrder
<1>6. highest' = highest + k
  BY <1>1 DEF Put
<1>7. Len(data) = highest - cumAck
  BY DEF DataInOrder
<1>8. ASSUME NEW i \in DOMAIN data'
      PROVE  data'[i] = [seq |-> cumAck + i, dsn |-> cumAck + i]
  <2>1. i \in 1..(Len(data) + k)
    BY <1>4, <1>8, LenProperties
  <2>2. CASE i <= Len(data)
    <3>1. data'[i] = data[i] /\ i \in DOMAIN data
      BY <1>3, <1>4, <2>1, <2>2
    <3> QED
      BY <3>1 DEF DataInOrder
  <2>3. CASE i > Len(data)
    <3> DEFINE j == i - Len(data)
    <3>1. j \in 1..k /\ Len(data) + j = i /\ highest + j = cumAck + i
      BY <1>3, <1>7, <2>1, <2>3
    <3> HIDE DEF j
    <3>2. data'[i] = [seq |-> highest + j, dsn |-> nextDsn + j]
      BY <1>4, <3>1
    <3> QED
      BY <1>3, <3>1, <3>2
  <2> QED
    BY <1>3, <2>1, <2>2, <2>3
<1>9. Len(data') = highest' - cumAck
  BY <1>3, <1>4, <1>6, <1>7
<1>10. UNCHANGED <<held, dataHeld, dataAck, cumAck>>
  BY DEF sinkVars
<1>11. DataInOrder'
  BY <1>5, <1>8, <1>9, <1>10 DEF DataInOrder
<1> QED
  BY <1>1, <1>3, <1>6, <1>11

LEMMA QuietInOrder ==
    ASSUME Quiet, UNCHANGED sinkVars, DataInOrder
    PROVE  DataInOrder'
BY DEF Quiet, DataInOrder, Identity, sinkVars

LEMMA AckInOrder ==
    ASSUME TypeOK, Orderly, ReceiveAck
    PROVE  Orderly'
<1> DEFINE n == Head(acks).ackno
<1>1. /\ UNCHANGED <<sinkVars, expired>> /\ acks # <<>> /\ acks' = Tail(acks)
      /\ AckOutcome(n)
  <2>1. UNCHANGED <<sinkVars, expired>> /\ acks # <<>> /\ acks' = Tail(acks)
    BY DEF ReceiveAck
  <2> QED
    BY <2>1, AckSends, Zenon
<1>2. /\ Len(acks) \in Nat /\ Len(acks) > 0 /\ acks[1] = Head(acks)
      /\ DOMAIN acks = 1..Len(acks) /\ DOMAIN Tail(acks) = 1..(Len(acks) - 1)
      /\ Len(Tail(acks)) = Len(acks) - 1
      /\ \A i \in 1..(Len(acks) - 1) : Tail(acks)[i] = acks[i + 1]
  BY <1>1, AckArrival
<1>3. lastAcked \in Nat /\ cumAck \in Nat /\ highest \in Nat /\ cumAck <= highest
  <2>1. Len(data) \in Nat /\ Len(data) = highest - cumAck
    BY LenProperties DEF TypeOK, Orderly, DataInOrder
  <2> QED
    BY <2>1, SMTT(60) DEF TypeOK
<1>4. n = lastAcked + 1 /\ n <= cumAck
  <2>1. acks[1].ackno = lastAcked + 1 /\ Len(acks) = cumAck - lastAcked
    BY <1>2 DEF Orderly, AcksInOrder
  <2> QED
    BY <1>2, <1>3, <2>1
<1> HIDE DEF n
<1>5. /\ lastAcked' = n /\ ~recovering' /\ Sends(<<>>, HighestAfter(n), TimerRuns(n))
  BY <1>1, <1>3, <1>4 DEF AckOutcome, Orderly, Undisturbed
<1>6. HighestAfter(n) = highest /\ TimerRuns(n) \in BOOLEAN
  BY <1>3, <1>4 DEF HighestAfter, TimerRuns
<1>7. DataInOrder' /\ highest' >= highest /\ (timer' => TimerRuns(n) \/ highest' > highest)
  <2>1. Sends(<<>>, highest, TimerRuns(n))
    BY <1>5, <1>6
  <2> QED
    BY <1>1, <1>6, <2>1, SendsInOrder, Zenon DEF Orderly
<1>8. AcksInOrder'
  <2>1. cumAck' = cumAck
    BY <1>1 DEF sinkVars
  <2>2. Len(acks) = cumAck - lastAcked
    BY DEF Orderly, AcksInOrder
  <2>3. Len(acks') = cumAck' - lastAcked'
    BY <1>1, <1>2, <1>3, <1>4, <1>5, <2>1, <2>2
  <2>4. ASSUME NEW i \in DOMAIN acks'
        PROVE  acks'[i].ackno = lastAcked' + i
    <3>1. i \in 1..(Len(acks) - 1) /\ i + 1 \in DOMAIN acks
      BY <1>1, <1>2, <2>4
    <3>2. acks'[i] = acks[i + 1]
      BY <1>1, <1>2, <3>1
    <3>3. acks[i + 1].ackno = lastAcked + (i + 1)
      BY <3>1 DEF Orderly, AcksInOrder
    <3> QED
      BY <1>3, <1>4, <1>5, <3>1, <3>2, <3>3
  <2> QED
    BY <2>3, <2>4 DEF AcksInOrder
<1>9. Undisturbed'
  <2>1. highest' \in Nat
    <3>1. TypeOK'
      BY ReceiveAckStep
    <3> QED
      BY <3>1 DEF TypeOK
  <2>2. timer' => lastAcked' < highest'
    BY <1>3, <1>4, <1>5, <1>7, <2>1 DEF TimerRuns
  <2>3. ~expired'
    BY <1>1 DEF Orderly, Undisturbed
  <2> QED
    BY <1>5, <2>2, <2>3 DEF Undisturbed
<1> QED
  BY <1>7, <1>8, <1>9 DEF Orderly

\* The next packet arrives and is acknowledged.
LEMMA DataArrivesInOrder ==
    ASSUME TypeOK, Orderly, ReceiveData
    PROVE  Orderly'
<1>1. /\ Len(data) \in Nat /\ Len(data) > 0
      /\ data[1] = Head(data) /\ DOMAIN data = 1..Len(data)
      /\ DOMAIN Tail(data) = 1..(Len(data) - 1)
      /\ Len(Tail(data)) = Len(data) - 1
      /\ \A i \in 1..(Len(data) - 1) : Tail(data)[i] = data[i + 1]
  BY Arrival DEF ReceiveData
<1>2. /\ lastAcked \in Nat /\ cumAck \in Nat /\ highest \in Nat
      /\ Len(data) = highest - cumAck /\ held = {} /\ dataHeld = {} /\ dataAck = cumAck
      /\ acks \in Seq(Acknowledgement)
  BY DEF TypeOK, Orderly, DataInOrder, Acknowledgement
<1>3. Head(data) = [seq |-> cumAck + 1, dsn |-> cumAck + 1]
  BY <1>1 DEF Orderly, DataInOrder
<1>4. Head(data).seq = cumAck + 1 /\ Head(data).dsn = cumAck + 1
  BY <1>3
<1>5. /\ Takes(cumAck + 1, cumAck, {}, cumAck', held')
      /\ Takes(cumAck + 1, cumAck, {}, dataAck', dataHeld')
      /\ data' = Tail(data)
      /\ acks' = Append(acks, [ackno |-> cumAck', ds |-> dataAck'])
      /\ UNCHANGED <<highest, nextDsn, dsnMap, timer, recovering, lastAcked, expired>>
  BY <1>2, <1>4 DEF ReceiveData, sendVars, windowVars
<1>6. ASSUME NEW c, NEW h, Takes(cumAck + 1, cumAck, {}, c, h)
      PROVE  c = cumAck + 1 /\ h = {}
  <2>1. Cardinality({}) = 0
    BY FS_EmptySet
  <2> QED
    BY <1>2, <1>6, <2>1 DEF Takes
<1>7. /\ cumAck' = cumAck + 1 /\ dataAck' = cumAck + 1 /\ held' = {} /\ dataHeld' = {}
  BY <1>5, <1>6
<1>8. ASSUME NEW i \in DOMAIN data'
      PROVE  data'[i] = [seq |-> cumAck' + i, dsn |-> cumAck' + i]
  <2>1. i \in 1..(Len(data) - 1) /\ i + 1 \in DOMAIN data
    BY <1>1, <1>5, <1>8
  <2>2. data'[i] = data[i + 1]
    BY <1>1, <1>5, <2>1
  <2>3. data[i + 1] = [seq |-> cumAck + (i + 1), dsn |-> cumAck + (i + 1)]
    BY <2>1 DEF Orderly, DataInOrder
  <2>4. cumAck + (i + 1) = cumAck' + i
    BY <1>2, <1>7, <2>1
  <2> QED
    BY <2>2, <2>3, <2>4
<1>9. Identity' /\ Len(data') = highest' - cumAck'
  <2>1. Identity'
    BY <1>5 DEF Orderly, DataInOrder, Identity
  <2> QED
    BY <1>1, <1>2, <1>5, <1>7, <2>1
<1>10. AcksInOrder'
  <2> DEFINE new == [ackno |-> cumAck', ds |-> dataAck']
  <2>1. new \in Acknowledgement /\ new.ackno = cumAck'
    <3>1. dataAck' \in 0..N /\ cumAck' \in Nat
      <4>1. cumAck + 1 \in 0..N
        <5>1. Head(data) \in Message
          BY Arrival DEF ReceiveData
        <5> QED
          BY <1>4, <5>1 DEF Message
      <4> QED
        BY <1>2, <1>7, <4>1
    <3> QED
      BY <3>1 DEF Acknowledgement
  <2>2. acks' = Append(acks, new)
    BY <1>5
  <2> HIDE DEF new
  <2>3. /\ acks' \in Seq(Acknowledgement) /\ Len(acks') = Len(acks) + 1
        /\ \A i \in 1..Len(acks) : acks'[i] = acks[i]
        /\ acks'[Len(acks) + 1] = new
    BY <1>2, <2>1, <2>2, AppendProperties
  <2>4. Len(acks) = cumAck - lastAcked /\ DOMAIN acks = 1..Len(acks) /\ Len(acks) \in Nat
    BY <1>2, LenProperties DEF Orderly, AcksInOrder
  <2>5. ASSUME NEW i \in DOMAIN acks'
        PROVE  acks'[i].ackno = lastAcked' + i
    <3>1. i \in 1..(Len(acks) + 1)
      BY <2>3, <2>5, LenProperties
    <3>2. CASE i = Len(acks) + 1
      BY <1>2, <1>5, <1>7, <2>1, <2>3, <2>4, <3>2
    <3>3. CASE i # Len(acks) + 1
      <4>1. i \in DOMAIN acks /\ acks'[i] = acks[i]
        BY <2>3, <2>4, <3>1, <3>3
      <4> QED
        BY <1>5, <4>1 DEF Orderly, AcksInOrder
    <3> QED
      BY <3>2, <3>3
  <2>6. Len(acks') = cumAck' - lastAcked'
    BY <1>2, <1>5, <1>7, <2>3, <2>4
  <2> QED
    BY <2>5, <2>6 DEF AcksInOrder
<1>11. DataInOrder'
  BY <1>7, <1>8, <1>9 DEF DataInOrder
<1>12. Undisturbed'
  BY <1>5 DEF Orderly, Undisturbed
<1> QED
  BY <1>10, <1>11, <1>12 DEF Orderly

\* As long as nothing is dropped and no timeout is early everything stays in order.
LEMMA OrderKept ==
    ASSUME IInv, Orderly, [Next]_vars, ~Drop, ~TimerExpiresEarly
    PROVE  Orderly'
<1>0. TypeOK
  BY DEF IInv
<1>1. CASE StartFlow \/ PacerFires \/ NicCompletes
  <2>1. UNCHANGED <<sinkVars, lastAcked, recovering, expired, acks>>
    BY <1>1 DEF StartFlow, PacerFires, NicCompletes, windowVars
  <2>2. /\ highest \in Nat /\ lastAcked \in Nat /\ timer \in BOOLEAN
        /\ (timer => lastAcked < highest) /\ lastAcked <= highest
    <3>1. Len(data) \in Nat /\ Len(data) = highest - cumAck
      BY <1>0, LenProperties DEF TypeOK, Orderly, DataInOrder
    <3>2. Len(acks) \in Nat /\ Len(acks) = cumAck - lastAcked
      BY <1>0, LenProperties DEF TypeOK, Orderly, AcksInOrder
    <3>3. /\ highest \in Nat /\ lastAcked \in Nat /\ timer \in BOOLEAN /\ cumAck \in Nat
      BY <1>0 DEF TypeOK
    <3> QED
      BY <3>1, <3>2, <3>3 DEF Orderly, Undisturbed
  <2>3. AcksInOrder'
    BY <2>1 DEF Orderly, AcksInOrder, sinkVars
  <2>4. CASE Quiet
    <3>1. DataInOrder'
      BY <2>1, <2>4, QuietInOrder DEF Orderly
    <3>2. Undisturbed'
      BY <2>1, <2>4 DEF Orderly, Undisturbed, Quiet
    <3> QED
      BY <2>3, <3>1, <3>2 DEF Orderly
  <2>5. CASE Sends(<<>>, highest, timer)
    <3>1. /\ DataInOrder' /\ highest' >= highest
          /\ (timer' => timer \/ highest' > highest)
      BY <1>0, <2>1, <2>2, <2>5, SendsInOrder, Zenon DEF Orderly
    <3>2. highest' \in Nat
      <4>1. TypeOK'
        BY InvariantPreserved DEF IInv
      <4> QED
        BY <4>1 DEF TypeOK
    <3>3. timer' => lastAcked' < highest'
      BY <2>1, <2>2, <3>1, <3>2
    <3>4. Undisturbed'
      BY <2>1, <3>3 DEF Orderly, Undisturbed
    <3> QED
      BY <2>3, <3>1, <3>4 DEF Orderly
  <2> QED
    BY <1>0, <1>1, <2>4, <2>5, SourceSends
<1>2. CASE ReceiveAck
  BY <1>0, <1>2, AckInOrder
<1>3. CASE ReceiveData
  BY <1>0, <1>3, DataArrivesInOrder
<1>4. CASE TimerExpires
  <2>1. timer /\ Len(data) = 0 /\ Len(acks) = 0
    BY <1>4 DEF TimerExpires
  <2>2. /\ lastAcked < highest /\ Len(data) = highest - cumAck
        /\ Len(acks) = cumAck - lastAcked
    BY <2>1 DEF Orderly, Undisturbed, DataInOrder, AcksInOrder
  <2>3. lastAcked \in Nat /\ highest \in Nat /\ cumAck \in Nat
    BY <1>0 DEF TypeOK
  <2> QED
    BY <2>1, <2>2, <2>3
<1>5. CASE Timeout
  BY <1>5 DEF Timeout, Orderly, Undisturbed
<1>6. CASE UNCHANGED vars
  BY <1>6 DEF vars, windowVars, sendVars, sinkVars, Orderly, DataInOrder, AcksInOrder,
              Undisturbed, Identity
<1> QED
  BY <1>1, <1>2, <1>3, <1>4, <1>5, <1>6 DEF Next
-----------------------------------------------------------------------------
(* One packet is missing *)

Numbered == \A i \in DOMAIN data : data[i].seq = data[i].dsn

\* While no number has been given to other data, nothing sent gives one.
LEMMA SendsNumbered ==
    ASSUME TypeOK, Identity, Numbered, NEW n \in Nat, n + 1 \in 1..nextDsn,
           NEW re \in {<<>>, Retransmission(n)}, NEW tm, Sends(re, highest, tm)
    PROVE  Identity' /\ Numbered'
<1>1. PICK q \in Nat, k \in 0..(N - nextDsn) : Put(q, re, highest, k)
  BY Zenon DEF Sends
<1>2. /\ highest \in Nat /\ k \in Nat /\ Len(data) \in Nat /\ DOMAIN data = 1..Len(data)
      /\ nextDsn = highest /\ dsnMap = [s \in 1..nextDsn |-> s]
  BY LenProperties, SwiftAssumption DEF TypeOK, Identity
<1>3. /\ re \in Seq(Message) /\ Len(re) \in Nat
      /\ \A i \in 1..Len(re) : re[i].seq = re[i].dsn
  <2>1. CASE re = <<>>
    BY <2>1
  <2>2. CASE re = Retransmission(n)
    <3>1. re \in Seq(Message) /\ Len(re) = 1
      BY <2>2, RetransmissionTyped
    <3>2. DsnOf(n + 1) = n + 1
      BY <1>2 DEF DsnOf
    <3>3. re[1] = [seq |-> n + 1, dsn |-> n + 1]
      BY <2>2, <3>2 DEF Retransmission
    <3>4. re[1].seq = re[1].dsn
      BY <3>3
    <3> QED
      BY <3>1, <3>4
  <2> QED
    BY <2>1, <2>2
<1>4. /\ data' \in Seq(Message) /\ Len(data') = Len(data) + Len(re) + k
      /\ \A i \in 1..Len(data) : data'[i] = data[i]
      /\ \A i \in 1..Len(re) : data'[Len(data) + i] = re[i]
      /\ \A i \in 1..k : data'[Len(data) + Len(re) + i]
                           = [seq |-> highest + i, dsn |-> nextDsn + i]
  <2>1. re \in Seq(Message) /\ highest \in Nat
    BY <1>2, <1>3
  <2> QED
    BY <1>1, <2>1, PutContent
<1>5. Identity'
  BY <1>1, PutIdentity, Zenon
<1>6. ASSUME NEW i \in DOMAIN data'
      PROVE  data'[i].seq = data'[i].dsn
  <2>1. i \in 1..(Len(data) + Len(re) + k)
    BY <1>4, <1>6, LenProperties
  <2>2. CASE i <= Len(data)
    <3>1. data'[i] = data[i] /\ i \in DOMAIN data
      BY <1>2, <1>4, <2>1, <2>2
    <3> QED
      BY <3>1 DEF Numbered
  <2>3. CASE i > Len(data) /\ i <= Len(data) + Len(re)
    <3> DEFINE j == i - Len(data)
    <3>0. i \in Nat /\ Len(data) \in Nat /\ Len(re) \in Nat
      BY <1>2, <1>3, <2>1
    <3>1. j \in 1..Len(re) /\ Len(data) + j = i
      BY <2>3, <3>0
    <3> HIDE DEF j
    <3>2. data'[i] = re[j]
      BY <1>4, <3>1
    <3> QED
      BY <1>3, <3>1, <3>2
  <2>4. CASE i > Len(data) + Len(re)
    <3> DEFINE j == i - (Len(data) + Len(re))
    <3>1. j \in 1..k /\ Len(data) + Len(re) + j = i
      BY <1>2, <1>3, <2>1, <2>4
    <3> HIDE DEF j
    <3>2. data'[i] = [seq |-> highest + j, dsn |-> nextDsn + j]
      BY <1>4, <3>1
    <3> QED
      BY <1>2, <3>2
  <2> QED
    BY <1>2, <1>3, <2>1, <2>2, <2>3, <2>4
<1> QED
  BY <1>5, <1>6 DEF Numbered

LEMMA QuietNumbered ==
    ASSUME Quiet, Identity, Numbered
    PROVE  Identity' /\ Numbered'
BY DEF Quiet, Identity, Numbered

\* What a state with a packet missing after a step has before it.
LEMMA MissingIsNext ==
    ASSUME TypeOK, OneMissing, Missing' \subseteq Missing, Missing' # {}
    PROVE  /\ cumAck + 1 \in Missing /\ Missing' = {cumAck + 1}
           /\ cumAck + 1 \in 1..nextDsn /\ cumAck < highest /\ cumAck \in Nat
           /\ highest \in Nat /\ lastAcked \in Nat /\ lastAcked <= cumAck
           /\ \A i \in DOMAIN data : data[i].dsn # cumAck + 1
<1>1. cumAck + 1 \in Missing /\ Missing' = {cumAck + 1}
  BY DEF OneMissing
<1>2. cumAck + 1 \in 1..nextDsn /\ \A i \in DOMAIN data : data[i].dsn # cumAck + 1
  BY <1>1 DEF Missing
<1>3. nextDsn = highest /\ lastAcked <= cumAck
  BY DEF OneMissing, Identity, AcksAskForIt
<1>4. cumAck \in Nat /\ highest \in Nat /\ lastAcked \in Nat
  BY DEF TypeOK
<1> QED
  BY <1>1, <1>2, <1>3, <1>4

LEMMA AckOfMissing ==
    ASSUME TypeOK, OneMissing, Missing' \subseteq Missing, Missing' # {}, ReceiveAck
    PROVE  OneMissing'
<1> DEFINE n == Head(acks).ackno
<1>1. /\ UNCHANGED <<sinkVars, expired>> /\ acks # <<>> /\ acks' = Tail(acks)
      /\ AckOutcome(n)
  <2>1. UNCHANGED <<sinkVars, expired>> /\ acks # <<>> /\ acks' = Tail(acks)
    BY DEF ReceiveAck
  <2> QED
    BY <2>1, AckSends, Zenon
<1>2. /\ Len(acks) \in Nat /\ Len(acks) > 0 /\ acks[1] = Head(acks)
      /\ Head(acks) \in Acknowledgement
      /\ DOMAIN acks = 1..Len(acks) /\ DOMAIN Tail(acks) = 1..(Len(acks) - 1)
      /\ Len(Tail(acks)) = Len(acks) - 1
      /\ \A i \in 1..(Len(acks) - 1) : Tail(acks)[i] = acks[i + 1]
      /\ Tail(acks) = <<>> <=> Len(acks) = 1
  BY <1>1, AckArrival
<1>3. /\ Missing' = {cumAck + 1}
      /\ cumAck + 1 \in 1..nextDsn /\ cumAck < highest /\ cumAck \in Nat
      /\ highest \in Nat /\ lastAcked \in Nat /\ lastAcked <= cumAck
  BY MissingIsNext
<1>4. /\ \A i \in DOMAIN acks : acks[i].ackno <= cumAck
      /\ acks[Len(acks)].ackno = cumAck /\ (expired => lastAcked = cumAck)
  BY <1>1 DEF OneMissing, AcksAskForIt
<1>5. n \in Nat /\ n <= cumAck /\ n = acks[1].ackno
  <2>1. n \in Nat
    BY <1>2 DEF Acknowledgement
  <2>2. n = acks[1].ackno /\ 1 \in DOMAIN acks
    BY <1>2
  <2> QED
    BY <1>4, <2>1, <2>2
<1>6. Len(acks) = 1 => n = cumAck
  BY <1>4, <1>5
<1> HIDE DEF n
<1>7. Identity' /\ Numbered'
  <2>0. Identity /\ Numbered
    BY DEF OneMissing, Numbered
  <2>1. CASE Quiet
    BY <2>0, <2>1, QuietNumbered
  <2>2. ASSUME NEW re \in {<<>>, Retransmission(n)}, NEW hs \in {highest, HighestAfter(n)},
               NEW tm \in BOOLEAN, Sends(re, hs, tm)
        PROVE  Identity' /\ Numbered'
    <3>1. hs = highest
      BY <1>3, <1>5, <2>2 DEF HighestAfter
    <3>2. n + 1 \in 1..nextDsn
      <4>1. nextDsn \in Nat
        BY SwiftAssumption DEF TypeOK
      <4> QED
        BY <1>3, <1>5, <4>1
    <3>3. Sends(re, highest, tm)
      BY <2>2, <3>1
    <3> QED
      BY <1>5, <2>0, <3>2, <3>3, SendsNumbered, Zenon
  <2>3. Quiet \/ Responds(n)
    BY <1>1 DEF AckOutcome
  <2> QED
    BY <2>1, <2>2, <2>3, Zenon DEF Responds
<1>8. lastAcked' = IF n < lastAcked THEN lastAcked ELSE n
  BY <1>1, <1>3, <1>5 DEF AckOutcome
<1>9. AcksAskForIt'
  <2>1. cumAck' = cumAck /\ expired' = expired
    BY <1>1 DEF sinkVars
  <2>2. lastAcked' <= cumAck
    BY <1>3, <1>5, <1>8
  <2>3. ASSUME NEW i \in DOMAIN acks'
        PROVE  acks'[i].ackno <= cumAck
    <3>1. i \in 1..(Len(acks) - 1) /\ i + 1 \in DOMAIN acks
      BY <1>1, <1>2, <2>3
    <3>2. acks'[i] = acks[i + 1]
      BY <1>1, <1>2, <3>1
    <3> QED
      BY <1>4, <3>1, <3>2
  <2>4. acks' = <<>> => lastAcked' = cumAck
    BY <1>1, <1>2, <1>3, <1>6, <1>8
  <2>5. acks' # <<>> => acks'[Len(acks')].ackno = cumAck
    <3> SUFFICES ASSUME acks' # <<>>
                 PROVE  acks'[Len(acks')].ackno = cumAck
      OBVIOUS
    <3> DEFINE j == Len(acks) - 1
    <3>1. Len(acks') = j /\ j \in 1..(Len(acks) - 1) /\ j + 1 = Len(acks)
      BY <1>1, <1>2
    <3> HIDE DEF j
    <3>2. acks'[j] = acks[Len(acks)]
      BY <1>1, <1>2, <3>1
    <3> QED
      BY <1>4, <3>1, <3>2
  <2>6. expired' => lastAcked' = cumAck
    BY <1>3, <1>4, <1>5, <1>8, <2>1
  <2> QED
    BY <2>1, <2>2, <2>3, <2>4, <2>5, <2>6 DEF AcksAskForIt
<1>10. dataAck' = cumAck' /\ cumAck' = cumAck
  BY <1>1 DEF sinkVars, OneMissing
<1> QED
  BY <1>3, <1>7, <1>9, <1>10 DEF OneMissing, Numbered

\* Whatever else arrives is beyond what is missing, or held already.
LEMMA DataAroundMissing ==
    ASSUME IInv, OneMissing, Missing' \subseteq Missing, Missing' # {}, ReceiveData
    PROVE  OneMissing'
<1>0. TypeOK
  BY DEF IInv
<1>1. /\ Len(data) \in Nat /\ Len(data) > 0
      /\ data[1] = Head(data) /\ Head(data) \in Message
      /\ DOMAIN data = 1..Len(data) /\ DOMAIN Tail(data) = 1..(Len(data) - 1)
      /\ \A i \in 1..(Len(data) - 1) : Tail(data)[i] = data[i + 1]
  BY <1>0, Arrival DEF ReceiveData
<1>2. /\ Missing' = {cumAck + 1} /\ cumAck \in Nat /\ lastAcked \in Nat
      /\ lastAcked <= cumAck
      /\ \A i \in DOMAIN data : data[i].dsn # cumAck + 1
  BY <1>0, MissingIsNext
<1>3. /\ data' = Tail(data)
      /\ acks' = Append(acks, [ackno |-> cumAck', ds |-> dataAck'])
      /\ UNCHANGED <<highest, nextDsn, dsnMap, lastAcked, expired>>
      /\ Takes(Head(data).seq, cumAck, held, cumAck', held')
      /\ Takes(Head(data).dsn, dataAck, dataHeld, dataAck', dataHeld')
  BY DEF ReceiveData, sendVars, windowVars
<1>4. Head(data).seq = Head(data).dsn /\ Head(data).dsn # cumAck + 1 /\ dataAck = cumAck
  <2>1. 1 \in DOMAIN data
    BY <1>1
  <2> QED
    BY <1>1, <1>2, <2>1 DEF OneMissing
<1>5. cumAck' = cumAck /\ dataAck' = cumAck
  BY <1>3, <1>4 DEF Takes
<1>6. Identity' /\ Numbered'
  <2>1. Identity'
    BY <1>3 DEF OneMissing, Identity
  <2>2. ASSUME NEW i \in DOMAIN data'
        PROVE  data'[i].seq = data'[i].dsn
    <3>1. i + 1 \in DOMAIN data /\ data'[i] = data[i + 1]
      BY <1>1, <1>3, <2>2
    <3> QED
      BY <3>1 DEF OneMissing
  <2> QED
    BY <2>1, <2>2 DEF Numbered
<1>7. AcksAskForIt'
  <2> DEFINE new == [ackno |-> cumAck', ds |-> dataAck']
  <2>1. acks \in Seq(Acknowledgement) /\ new \in Acknowledgement /\ new.ackno = cumAck
    <3>1. acks \in Seq(Acknowledgement)
      BY <1>0 DEF TypeOK, Acknowledgement
    <3>2. cumAck' \in Nat /\ dataAck' \in 0..N
      BY <1>0, <1>2, <1>4, <1>5 DEF TypeOK
    <3> QED
      BY <1>5, <3>1, <3>2 DEF Acknowledgement
  <2>2. acks' = Append(acks, new)
    BY <1>3
  <2> HIDE DEF new
  <2>3. /\ acks' \in Seq(Acknowledgement) /\ Len(acks') = Len(acks) + 1
        /\ \A i \in 1..Len(acks) : acks'[i] = acks[i]
        /\ acks'[Len(acks) + 1] = new
    BY <2>1, <2>2, AppendProperties
  <2>4. Len(acks) \in Nat /\ DOMAIN acks = 1..Len(acks) /\ DOMAIN acks' = 1..(Len(acks) + 1)
    BY <2>1, <2>3, LenProperties
  <2>5. ASSUME NEW i \in DOMAIN acks'
        PROVE  acks'[i].ackno <= cumAck
    <3>1. CASE i = Len(acks) + 1
      BY <1>2, <2>1, <2>3, <3>1
    <3>2. CASE i # Len(acks) + 1
      <4>1. i \in DOMAIN acks /\ acks'[i] = acks[i]
        BY <2>3, <2>4, <2>5, <3>2
      <4> QED
        BY <4>1 DEF OneMissing, AcksAskForIt
    <3> QED
      BY <3>1, <3>2
  <2>6. acks' # <<>> /\ acks'[Len(acks')].ackno = cumAck
    <3>1. acks' # <<>>
      BY <2>2, <2>4, <2>3
    <3> QED
      BY <2>1, <2>3, <3>1
  <2>7. expired' => lastAcked' = cumAck
    BY <1>3 DEF OneMissing, AcksAskForIt
  <2> QED
    BY <1>2, <1>3, <1>5, <2>5, <2>6, <2>7 DEF AcksAskForIt
<1> QED
  BY <1>2, <1>5, <1>6, <1>7 DEF OneMissing, Numbered
\* A missing packet stays the only one, and the source will retransmit it: a timeout
\* does so at once.
LEMMA MissingKept ==
    ASSUME IInv, OneMissing, Missing' # {}, [Next]_vars, ~Drop, ~TimerExpiresEarly
    PROVE  OneMissing'
<1>0. TypeOK /\ Missing' \subseteq Missing
  <2>1. TypeOK
    BY DEF IInv
  <2> QED
    BY <2>1, StepFinds
<1>a. /\ Missing' = {cumAck + 1} /\ cumAck + 1 \in 1..nextDsn
      /\ cumAck \in Nat /\ lastAcked \in Nat /\ lastAcked <= cumAck /\ cumAck < highest
  BY <1>0, MissingIsNext
<1>b. Identity /\ Numbered /\ AcksAskForIt /\ dataAck = cumAck
  BY DEF OneMissing, Numbered
<1>1. CASE StartFlow \/ PacerFires \/ NicCompletes
  <2>1. UNCHANGED <<sinkVars, lastAcked, expired, acks>>
    BY <1>1 DEF StartFlow, PacerFires, NicCompletes, windowVars
  <2>2. AcksAskForIt' /\ cumAck' = cumAck /\ dataAck' = cumAck
    BY <1>b, <2>1 DEF AcksAskForIt, sinkVars
  <2>3. Identity' /\ Numbered'
    <3>1. CASE Quiet
      BY <1>b, <3>1, QuietNumbered
    <3>2. CASE Sends(<<>>, highest, timer)
      BY <1>0, <1>a, <1>b, <3>2, SendsNumbered
    <3> QED
      BY <1>0, <1>1, <3>1, <3>2, SourceSends
  <2> QED
    BY <1>a, <2>2, <2>3 DEF OneMissing, Numbered
<1>2. CASE ReceiveAck
  BY <1>0, <1>2, AckOfMissing
<1>3. CASE ReceiveData
  BY <1>0, <1>3, DataAroundMissing
<1>4. CASE TimerExpires
  <2>1. /\ UNCHANGED <<sinkVars, sendVars, lastAcked, data, acks>> /\ acks = <<>>
    BY <1>4 DEF TimerExpires, windowVars
  <2>2. AcksAskForIt'
    BY <1>b, <2>1 DEF AcksAskForIt, sinkVars
  <2>3. Identity' /\ Numbered'
    BY <1>b, <2>1 DEF Identity, Numbered, sendVars
  <2>4. cumAck' = cumAck /\ dataAck' = cumAck
    BY <1>b, <2>1 DEF sinkVars
  <2> QED
    BY <1>a, <2>2, <2>3, <2>4 DEF OneMissing, Numbered
<1>5. CASE Timeout
  <2>1. UNCHANGED sinkVars /\ Put(nic, Retransmission(lastAcked), lastAcked + 1, 0)
    BY <1>5 DEF Timeout
  <2>2. lastAcked = cumAck
    BY <1>5, <1>b DEF AcksAskForIt, Timeout
  <2>3. /\ Retransmission(lastAcked) \in Seq(Message) /\ Len(Retransmission(lastAcked)) = 1
        /\ lastAcked + 1 \in Nat /\ 0 \in 0..(N - nextDsn)
    BY <1>0, <1>a, RetransmissionTyped, SwiftAssumption, SMTT(60) DEF TypeOK
  <2>4. Retransmission(lastAcked)[1].dsn \notin Missing'
    <3>1. 1 \in 1..Len(Retransmission(lastAcked))
      BY <2>3
    <3> QED
      BY <1>0, <2>1, <2>3, <3>1, PutFinds, Zenon
  <2>5. DsnOf(lastAcked + 1) = cumAck + 1
    BY <1>a, <1>b, <2>2 DEF Identity, DsnOf
  <2>6. Retransmission(lastAcked)[1].dsn = cumAck + 1
    BY <2>5 DEF Retransmission
  <2> QED
    BY <1>a, <2>4, <2>6
<1>6. CASE UNCHANGED vars
  BY <1>6 DEF vars, windowVars, sendVars, sinkVars, OneMissing, AcksAskForIt, Identity,
              Missing, Accepted
<1> QED
  BY <1>1, <1>2, <1>3, <1>4, <1>5, <1>6 DEF Next

\* The first packet dropped is the one the sink waits for.
LEMMA FirstDrop ==
    ASSUME IInv, Orderly, Missing = {}, Drop, Missing' # {}
    PROVE  OneMissing'
<1>0. TypeOK
  BY DEF IInv
<1>1. /\ UNCHANGED <<sinkVars, highest, nextDsn, dsnMap, timer, lastAcked, expired>>
      /\ UNCHANGED Accepted
  BY DEF Drop, windowVars, sendVars, sinkVars, Accepted
<1>2. Len(data) > nic /\ data' = Tail(data) /\ UNCHANGED acks
  <2>1. CASE UNCHANGED data
    BY <1>1, <2>1 DEF Missing
  <2> QED
    BY <2>1 DEF Drop
<1>3. /\ Len(data) \in Nat /\ Len(data) > 0 /\ data[1] = Head(data)
      /\ DOMAIN data = 1..Len(data) /\ DOMAIN Tail(data) = 1..(Len(data) - 1)
      /\ \A i \in 1..(Len(data) - 1) : Tail(data)[i] = data[i + 1]
  BY <1>0, <1>2, Arrival
<1>4. /\ lastAcked \in Nat /\ cumAck \in Nat /\ dataAck = cumAck
      /\ Len(acks) = cumAck - lastAcked /\ Len(acks) \in Nat
      /\ DOMAIN acks = 1..Len(acks) /\ ~expired
      /\ \A i \in DOMAIN acks : acks[i].ackno = lastAcked + i
      /\ \A i \in DOMAIN data : data[i] = [seq |-> cumAck + i, dsn |-> cumAck + i]
  BY <1>0, LenProperties DEF TypeOK, Orderly, DataInOrder, AcksInOrder, Undisturbed
<1>5. \A i \in DOMAIN data : data[i].seq = cumAck + i /\ data[i].dsn = cumAck + i
  BY <1>4
<1>6. Identity'
  BY <1>1 DEF Orderly, DataInOrder, Identity
<1>7. ASSUME NEW d \in Missing'
      PROVE  d = cumAck + 1
  <2>1. /\ d \in 1..nextDsn /\ d \notin Accepted
        /\ \A i \in DOMAIN Tail(data) : Tail(data)[i].dsn # d
    BY <1>1, <1>2, <1>7 DEF Missing
  <2>2. PICK i \in DOMAIN data : data[i].dsn = d
    BY <2>1 DEF Missing
  <2>3. CASE i = 1
    BY <1>4, <1>5, <2>2, <2>3
  <2>4. CASE i # 1
    <3> DEFINE j == i - 1
    <3>1. j \in 1..(Len(data) - 1) /\ j + 1 = i
      BY <1>3, <2>2, <2>4
    <3> HIDE DEF j
    <3>2. Tail(data)[j] = data[i]
      BY <1>3, <3>1
    <3> QED
      BY <1>3, <2>1, <2>2, <3>1, <3>2
  <2> QED
    BY <2>3, <2>4
<1>8. Numbered'
  <2>1. ASSUME NEW i \in DOMAIN data'
        PROVE  data'[i].seq = data'[i].dsn
    <3>1. i + 1 \in DOMAIN data /\ data'[i] = data[i + 1]
      BY <1>2, <1>3, <2>1
    <3> QED
      BY <1>5, <3>1
  <2> QED
    BY <2>1 DEF Numbered
<1>9. AcksAskForIt'
  <2>1. lastAcked <= cumAck /\ (Len(acks) = 0 => lastAcked = cumAck)
    BY <1>4
  <2>2. \A i \in DOMAIN acks : acks[i].ackno <= cumAck
    BY <1>4
  <2>3. Len(acks) # 0 => acks[Len(acks)].ackno = cumAck
    BY <1>4
  <2>4. acks = <<>> <=> Len(acks) = 0
    <3>1. acks \in Seq(Acknowledgement)
      BY <1>0 DEF TypeOK, Acknowledgement
    <3> QED
      BY <3>1, EmptySeq
  <2>5. cumAck' = cumAck /\ acks' = acks
    BY <1>1, <1>2 DEF sinkVars
  <2> QED
    BY <1>1, <1>4, <2>1, <2>2, <2>3, <2>4, <2>5 DEF AcksAskForIt
<1>10. dataAck' = cumAck' /\ cumAck' = cumAck
  BY <1>1, <1>4 DEF sinkVars
<1> QED
  BY <1>6, <1>7, <1>8, <1>9, <1>10 DEF OneMissing, Numbered

LEMMA LossInvInit == Init => LossInv
<1> SUFFICES ASSUME Init
             PROVE  LossInv
  OBVIOUS
<1>1. Missing = {}
  <2>1. 1..nextDsn = {}
    BY DEF Init
  <2> QED
    BY <2>1 DEF Missing
<1>2. Orderly
  <2>1. highest = 0 /\ nextDsn = 0 /\ dsnMap = <<>> /\ cumAck = 0 /\ data = <<>> /\ acks = <<>>
        /\ lastAcked = 0 /\ held = {} /\ dataHeld = {} /\ dataAck = 0
        /\ ~recovering /\ ~expired /\ ~timer
    BY DEF Init
  <2>2. dsnMap = [s \in 1..0 |-> s]
    BY <2>1
  <2>3. Identity
    BY <2>1, <2>2 DEF Identity
  <2>4. DataInOrder /\ AcksInOrder
    BY <2>1, <2>3 DEF DataInOrder, AcksInOrder
  <2> QED
    BY <2>1, <2>4 DEF Orderly, Undisturbed
<1> QED
  BY <1>1, <1>2 DEF LossInv

\* How the counts of what has gone wrong may change.
LEMMA Faults ==
    ASSUME TypeOK, [Next]_vars
    PROVE  /\ losses \in Nat /\ early \in Nat
           /\ Drop => losses' = losses + 1 /\ early' = early
           /\ ~Drop => losses' = losses
           /\ TimerExpiresEarly => early' = early + 1
           /\ ~TimerExpiresEarly => early' = early
<1>1. losses \in Nat /\ early \in Nat
  BY SwiftAssumption DEF TypeOK
<1>2. Drop => losses' = losses + 1 /\ early' = early
  BY DEF Drop
<1>3. TimerExpiresEarly => early' = early + 1 /\ losses' = losses
  BY DEF TimerExpiresEarly
<1>4. StartFlow \/ PacerFires \/ NicCompletes \/ ReceiveAck \/ TimerExpires \/ Timeout
        \/ ReceiveData \/ UNCHANGED vars => losses' = losses /\ early' = early
  BY DEF StartFlow, PacerFires, NicCompletes, ReceiveAck, TimerExpires, Timeout,
         ReceiveData, vars, envVars
<1> QED
  BY <1>1, <1>2, <1>3, <1>4 DEF Next

LEMMA LossInvPreserved == IInv /\ LossInv /\ [Next]_vars => LossInv'
<1> SUFFICES ASSUME IInv, LossInv, [Next]_vars
             PROVE  LossInv'
  OBVIOUS
<1>0. TypeOK
  BY DEF IInv
<1>1. /\ losses \in Nat /\ early \in Nat
      /\ Drop => losses' = losses + 1 /\ early' = early
      /\ ~Drop => losses' = losses
      /\ TimerExpiresEarly => early' = early + 1
      /\ ~TimerExpiresEarly => early' = early
  BY <1>0, Faults
<1>2. ASSUME losses' = 0
      PROVE  Missing' = {}
  <2>1. ~Drop /\ losses = 0
    BY <1>1, <1>2
  <2>2. Missing' \subseteq Missing /\ Missing = {}
    BY <2>1, StepFinds DEF LossInv
  <2> QED
    BY <2>2
<1>3. ASSUME losses' = 0, early' = 0
      PROVE  Orderly'
  <2>1. ~Drop /\ ~TimerExpiresEarly /\ losses = 0 /\ early = 0
    BY <1>1, <1>3
  <2> QED
    BY <2>1, OrderKept DEF LossInv
<1>4. ASSUME SingleFault', Missing' # {}
      PROVE  OneMissing'
  <2>1. losses' + early' <= 1
    BY <1>4 DEF SingleFault
  <2>2. CASE Drop
    <3>1. losses = 0 /\ early = 0
      BY <1>1, <2>1, <2>2
    <3>2. Orderly /\ Missing = {}
      BY <3>1 DEF LossInv
    <3> QED
      BY <1>4, <2>2, <3>2, FirstDrop
  <2>3. CASE ~Drop
    <3>1. Missing # {}
      BY <1>4, <2>3, StepFinds
    <3>2. losses # 0
      BY <3>1 DEF LossInv
    <3>3. ~TimerExpiresEarly /\ losses + early <= 1
      BY <1>1, <2>1, <2>3, <3>2
    <3>4. OneMissing
      BY <3>1, <3>3 DEF LossInv, SingleFault
    <3> QED
      BY <1>4, <2>3, <3>3, <3>4, MissingKept
  <2> QED
    BY <2>2, <2>3
<1> QED
  BY <1>2, <1>3, <1>4 DEF LossInv

\* While at most one message was lost or one timeout came too early, all data that was
\* sent is accepted, on its way, or can be retransmitted: what is missing is what the
\* sink waits for, handle_ack still has it in _dsn_map beyond _last_acked, and
\* doNextEvent, which gives the numbers beyond it to new data, retransmits it first.
THEOREM SwiftForgetsNothing == Spec => []NothingForgotten
<1>1. IInv /\ LossInv => NothingForgotten
  <2> SUFFICES ASSUME IInv, LossInv, SingleFault, NEW d \in 1..nextDsn,
                      d \notin Accepted, \A i \in DOMAIN data : data[i].dsn # d
               PROVE  \E s \in DOMAIN dsnMap : s > lastAcked /\ dsnMap[s] = d
    BY Zenon DEF NothingForgotten
  <2>1. d \in Missing
    BY DEF Missing
  <2>2. OneMissing
    BY <2>1 DEF LossInv
  <2>3. d = cumAck + 1 /\ dsnMap = [s \in 1..nextDsn |-> s] /\ lastAcked <= cumAck
    BY <2>1, <2>2 DEF OneMissing, Identity, AcksAskForIt
  <2>4. lastAcked \in Nat /\ cumAck \in Nat
    BY DEF IInv, TypeOK
  <2>5. d \in DOMAIN dsnMap /\ dsnMap[d] = d /\ d > lastAcked
    BY <2>3, <2>4
  <2> QED
    BY <2>5
<1> QED
  BY <1>1, SwiftInvariance, LossInvInit, LossInvPreserved, PTL DEF Spec
-----------------------------------------------------------------------------
(* Nothing pending, nothing missing *)

\* The last acknowledgement on its way, and the number the source will know by it.
LastAck == acks[Len(acks)]
Known == IF acks = <<>> THEN lastAcked ELSE LastAck.ackno

\* One fault at most, and none that the timer was not running for.
Watched == SingleFault /\ ~untimed

\* A flow that has started and is not done has something ahead that moves it on: a
\* packet or an acknowledgement on its way, the retransmission timer, or the pacer with
\* new data to send.
NeverStuck ==
    started /\ ~done /\ Watched =>
        \/ data # <<>> \/ acks # <<>>
        \/ timer /\ highest > 0
        \/ pacing /\ nextDsn < N

\* A source with nothing to wait for has the pacer pending, or waits for the scheduler,
\* unless all data has been sent.
MaySend == pacing \/ nextDsn = N \/ (deferred /\ nic > 0)
SendsOn == started /\ highest <= lastAcked => MaySend
AckedWasSent == lastAcked <= highest

\* Before anything is sent there is nothing on its way and no timer.
NothingYet == highest = 0 => acks = <<>> /\ data = <<>> /\ ~timer /\ ~expired

\* Acknowledgements come in order.
AnswersAscend ==
    /\ lastAcked <= cumAck
    /\ \A i \in DOMAIN acks : lastAcked <= acks[i].ackno /\ acks[i].ackno <= cumAck
    /\ \A i, j \in DOMAIN acks : i <= j => acks[i].ackno <= acks[j].ackno

\* Every number up to a that the sink waits for is on its way.
CoveredTo(a) ==
    \A s \in (cumAck + 1)..a : s \in held \/ \E i \in DOMAIN data : data[i].seq = s
Covered == CoveredTo(highest)

\* Without the timer everything is answered or on its way.
TimerGuards == Watched => timer \/ (Known = cumAck /\ Covered)

\* The source will not know what the sink has only if the last acknowledgement was lost;
\* then it waits for more than it will know.
AnswerLost ==
    Watched /\ Known < cumAck =>
        losses = 1 /\ Known < highest /\ (expired => acks = <<>>)

\* Once the sink has everything, the source will know, unless that answer was lost.
EndAnswered ==
    Watched /\ dataAck = N /\ ~done => (acks # <<>> /\ LastAck.ds = N) \/ Known < cumAck

SourceInv == SendsOn /\ AckedWasSent /\ NothingYet
SinkInv   == AnswersAscend /\ BeyondGap(cumAck, held)
GuardInv  == TimerGuards /\ AnswerLost /\ EndAnswered
RunInv    == SourceInv /\ SinkInv /\ GuardInv

LEMMA RunInit == Init => RunInv
<1> SUFFICES ASSUME Init
             PROVE  RunInv
  OBVIOUS
<1>1. /\ ~started /\ highest = 0 /\ lastAcked = 0 /\ acks = <<>> /\ data = <<>> /\ ~timer
      /\ ~expired /\ cumAck = 0 /\ held = {} /\ dataAck = 0
  BY DEF Init
<1>2. SourceInv
  BY <1>1 DEF SourceInv, SendsOn, AckedWasSent, NothingYet
<1>3. SinkInv
  <2>1. DOMAIN acks = {}
    BY <1>1
  <2> QED
    BY <1>1, <2>1 DEF SinkInv, AnswersAscend, BeyondGap
<1>4. Known = cumAck /\ Covered
  BY <1>1 DEF Known, Covered, CoveredTo
<1>5. TimerGuards /\ AnswerLost
  BY <1>1, <1>4 DEF TimerGuards, AnswerLost
<1>6. EndAnswered
  BY <1>1, SwiftAssumption DEF EndAnswered
<1> QED
  BY <1>2, <1>3, <1>5, <1>6 DEF RunInv, GuardInv

(* The source *)

\* The same after a handler that has sent with the numbers up to a acknowledged.
ReadyAfter(a) == highest' <= a => MaySend'

LEMMA PacedReady ==
    ASSUME TypeOK, NEW hs \in Nat, NEW q \in Nat, NEW a \in Nat, a <= hs, PacedSend(q, hs)
    PROVE  highest' >= hs /\ highest' \in Nat /\ ReadyAfter(a)
<1> DEFINE k == IF q >= NicLimit THEN 0 ELSE Lesser(1, N - nextDsn)
<1>1. k \in Nat /\ (k = 0 => q >= NicLimit \/ nextDsn = N)
  <2>1. N - nextDsn \in Nat /\ N \in Nat /\ nextDsn \in Nat
    BY SwiftAssumption DEF TypeOK
  <2> QED
    BY <2>1, SwiftAssumption DEF Lesser
<1>2. /\ Put(q, <<>>, hs, k) /\ deferred' = (q >= NicLimit)
  BY DEF PacedSend
<1> HIDE DEF k
<1>3. highest' = hs + k /\ nextDsn' = nextDsn + k /\ nic' = q + Len(<<>>) + k
  BY <1>2 DEF Put
<1>4. nic' = q + k /\ NicLimit \in Nat \ {0} /\ nextDsn \in Nat
  BY <1>1, <1>3, SwiftAssumption DEF TypeOK
<1>5. ASSUME highest' <= a
      PROVE  MaySend'
  <2>1. k = 0
    BY <1>1, <1>3, <1>5
  <2>2. CASE q >= NicLimit
    <3>1. deferred'
      BY <1>2, <2>2, Zenon
    <3>2. nic' > 0
      BY <1>4, <2>1, <2>2
    <3> QED
      BY <3>1, <3>2, Zenon DEF MaySend
  <2>3. CASE nextDsn = N
    BY <1>3, <1>4, <2>1, <2>3 DEF MaySend
  <2> QED
    BY <1>1, <2>1, <2>2, <2>3
<1> QED
  BY <1>1, <1>3, <1>5 DEF ReadyAfter

\* send_packets leaves nothing undone: with room in the window it sends, unless all data
\* has been sent or the scheduler is full; without, the pacer is asked.
LEMMA SendPacketsReady ==
    ASSUME TypeOK, NEW at \in SendState, NEW re \in Seq(Message), SendPackets(at, re),
           at.acked <= at.highest
    PROVE  highest' >= at.highest /\ highest' \in Nat /\ ReadyAfter(at.acked)
<1>1. /\ at.queued \in Nat /\ at.acked \in Nat /\ at.highest \in Nat /\ at.window \in Nat
      /\ N - nextDsn \in Nat /\ N \in Nat /\ nextDsn \in Nat
      /\ NicLimit \in Nat \ {0} /\ Len(re) \in Nat
  BY SwiftAssumption, LenProperties DEF SendState, TypeOK
<1>2. CASE SendByWindow(at, re)
  <2> DEFINE w == Wanted(at)
             sent == Lesser(w, Excess(NicLimit, at.queued + Len(re)))
  <2>1. w \in Nat
    BY <1>1, WantedTyped
  <2>2. ASSUME w = 0, at.highest <= at.acked
        PROVE  nextDsn = N
    <3> DEFINE x == at.window \div Mss
    <3>1. x \in Nat /\ x >= 1
      <4>1. at.window >= Mss /\ Mss \in Nat \ {0}
        BY <1>2, SwiftAssumption DEF SendByWindow
      <4> QED
        BY <1>1, <4>1, SMTT(60)
    <3>2. w = Lesser(Excess(at.acked + x, at.highest), N - nextDsn)
      BY DEF Wanted
    <3> HIDE DEF x, w
    <3>3. Excess(at.acked + x, at.highest) > 0
      BY <1>1, <2>2, <3>1 DEF Excess
    <3> QED
      BY <1>1, <2>2, <3>2, <3>3 DEF Lesser
  <2>3. /\ Put(at.queued, re, at.highest, sent)
        /\ deferred' = IF w = 0 THEN at.deferred ELSE sent < w
    BY <1>2 DEF SendByWindow
  <2> HIDE DEF w
  <2>4. Excess(NicLimit, at.queued + Len(re)) \in Nat
    BY <1>1 DEF Excess
  <2>5. sent \in Nat /\ (sent = 0 /\ w # 0 => at.queued + Len(re) >= NicLimit)
    BY <1>1, <2>1, <2>4 DEF Lesser, Excess
  <2> HIDE DEF sent
  <2>6. /\ highest' = at.highest + sent /\ nextDsn' = nextDsn + sent
        /\ nic' = at.queued + Len(re) + sent
    BY <2>3 DEF Put
  <2>7. ASSUME highest' <= at.acked
        PROVE  MaySend'
    <3>1. sent = 0 /\ at.highest <= at.acked
      BY <1>1, <2>5, <2>6, <2>7, SMTT(60)
    <3>2. CASE w = 0
      BY <1>1, <2>2, <2>6, <3>1, <3>2 DEF MaySend
    <3>3. CASE w # 0
      <4>1. sent < w /\ nic' > 0
        BY <1>1, <2>1, <2>5, <2>6, <3>1, <3>3
      <4>2. deferred' = (sent < w)
        BY <2>3, <3>3, Zenon
      <4>3. deferred'
        BY <4>1, <4>2, Zenon
      <4> QED
        BY <4>1, <4>3, Zenon DEF MaySend
    <3> QED
      BY <3>2, <3>3
  <2> QED
    BY <1>1, <2>5, <2>6, <2>7, SMTT(60) DEF ReadyAfter
<1>3. CASE SendByPacer(at, re)
  <2>1. CASE pacing' = TRUE /\ Put(at.queued, re, at.highest, 0)
    BY <1>1, <2>1 DEF Put, ReadyAfter, MaySend
  <2>2. CASE PacedSend(at.queued, at.highest)
    BY <1>1, <2>2, PacedReady
  <2> QED
    BY <1>3, <2>1, <2>2 DEF SendByPacer
<1> QED
  BY <1>2, <1>3 DEF SendPackets

\* So none of the handlers that send leaves the source idle.
LEMMA SourceReady ==
    ASSUME TypeOK, SendsOn, AckedWasSent, StartFlow \/ PacerFires \/ NicCompletes
    PROVE  SendsOn' /\ AckedWasSent' /\ highest' >= highest /\ highest' \in Nat
<1>1. /\ << >> \in Seq(Message) /\ lastAcked \in Nat /\ highest \in Nat /\ nic \in Nat
      /\ lastAcked <= highest /\ lastAcked' = lastAcked
  BY LenProperties DEF TypeOK, AckedWasSent, StartFlow, PacerFires, NicCompletes, windowVars
<1>2. ASSUME highest' >= highest, highest' \in Nat, ReadyAfter(lastAcked)
      PROVE  SendsOn' /\ AckedWasSent'
  BY <1>1, <1>2 DEF ReadyAfter, SendsOn, AckedWasSent
<1>3. CASE StartFlow
  <2> DEFINE at == [acked |-> lastAcked, highest |-> highest, window |-> cwnd + inflate,
                    slow |-> slow, timer |-> timer, deferred |-> deferred, queued |-> nic]
  <2>1. at \in SendState /\ at.highest = highest /\ at.acked = lastAcked
    BY SwiftAssumption, LenProperties, SMTT(60) DEF TypeOK, SendState
  <2>2. SendPackets(at, <<>>)
    BY <1>3 DEF StartFlow
  <2> HIDE DEF at
  <2>3. highest' >= at.highest /\ highest' \in Nat /\ ReadyAfter(at.acked)
    BY <1>1, <2>1, <2>2, SendPacketsReady
  <2> QED
    BY <1>2, <2>1, <2>3
<1>4. CASE PacerFires
  <2>1. PacedSend(nic, highest)
    BY <1>4 DEF PacerFires
  <2> QED
    BY <1>1, <1>2, <2>1, PacedReady
<1>5. CASE NicCompletes /\ Callback
  <2> DEFINE at == [acked |-> lastAcked, highest |-> highest, window |-> cwnd + inflate,
                    slow |-> slow, timer |-> timer, deferred |-> FALSE,
                    queued |-> nic - 1]
  <2>1. at \in SendState /\ at.highest = highest /\ at.acked = lastAcked
    <3>1. nic - 1 \in Nat
      <4>1. nic \in 0..Len(data) /\ Len(data) \in Nat
        BY LenProperties DEF TypeOK
      <4>2. nic > 0
        BY <1>5 DEF NicCompletes
      <4> QED
        BY <4>1, <4>2
    <3>2. cwnd + inflate \in Nat /\ slow \in BOOLEAN /\ timer \in BOOLEAN
      BY SwiftAssumption DEF TypeOK
    <3> QED
      BY <1>1, <3>1, <3>2 DEF SendState
  <2>2. SendPackets(at, <<>>)
    BY <1>5 DEF NicCompletes
  <2> HIDE DEF at
  <2>3. highest' >= at.highest /\ highest' \in Nat /\ ReadyAfter(at.acked)
    BY <1>1, <2>1, <2>2, SendPacketsReady
  <2> QED
    BY <1>2, <2>1, <2>3
<1>6. CASE NicCompletes /\ ~Callback
  <2>1. /\ ~deferred /\ UNCHANGED <<started, highest, lastAcked, pacing, nextDsn>>
    BY <1>6 DEF NicCompletes, Callback, sendVars, windowVars
  <2> QED
    BY <1>1, <2>1 DEF SendsOn, AckedWasSent, MaySend
<1> QED
  BY <1>3, <1>4, <1>5, <1>6

LEMMA LimitAndSendReady ==
    ASSUME TypeOK, NEW acked \in Nat, NEW hs \in Nat, NEW tm \in BOOLEAN, acked <= hs,
           NEW re \in Seq(Message), cwnd' \in Windows, inflate' \in Nat,
           LimitAndSend(acked, hs, tm, re)
    PROVE  highest' >= hs /\ highest' \in Nat /\ ReadyAfter(acked)
<1> DEFINE at == [acked |-> acked, highest |-> hs, window |-> cwnd' + inflate',
                  slow |-> slow', timer |-> tm, deferred |-> deferred, queued |-> nic]
<1>1. slow' \in BOOLEAN
  BY DEF LimitAndSend
<1>2. at \in SendState /\ at.highest = hs /\ at.acked = acked
  <2>1. nic \in Nat /\ deferred \in BOOLEAN
    BY LenProperties DEF TypeOK
  <2>2. cwnd' + inflate' \in Nat
    <3>1. cwnd' \in Nat /\ inflate' \in Nat
      BY SwiftAssumption
    <3> QED
      BY <3>1, SumTyped, Zenon
  <2> QED
    BY <1>1, <2>1, <2>2 DEF SendState
<1>3. SendPackets(at, re)
  BY DEF LimitAndSend
<1> HIDE DEF at
<1>4. highest' >= at.highest /\ highest' \in Nat /\ ReadyAfter(at.acked)
  <2>1. at.acked <= at.highest
    BY <1>2
  <2> QED
    BY <1>2, <1>3, <2>1, SendPacketsReady
<1> QED
  BY <1>2, <1>4

\* Nor does an acknowledgement.
LEMMA AckReady ==
    ASSUME TypeOK, SendsOn, AckedWasSent, ReceiveAck
    PROVE  SendsOn' /\ AckedWasSent' /\ highest' >= highest /\ highest' \in Nat
<1> SUFFICES ASSUME NEW n, n = Head(acks).ackno
             PROVE  SendsOn' /\ AckedWasSent' /\ highest' >= highest /\ highest' \in Nat
  OBVIOUS
<1>1. n \in Nat /\ started' = started
  <2>1. Head(acks) \in Acknowledgement /\ started' = started
    BY AckArrival DEF ReceiveAck
  <2> QED
    BY <2>1 DEF Acknowledgement
<1>2. /\ lastAcked \in Nat /\ highest \in Nat /\ timer \in BOOLEAN
      /\ lastAcked <= highest
  BY DEF TypeOK, AckedWasSent
<1>3. CASE n < lastAcked
  <2>1. UNCHANGED <<windowVars, sendVars, nic>>
    BY <1>3 DEF ReceiveAck
  <2> QED
    BY <1>1, <1>2, <2>1 DEF windowVars, sendVars, SendsOn, AckedWasSent, MaySend
<1>4. CASE ~(n < lastAcked)
  <2>1. /\ cwnd' \in Windows /\ lastAcked' = n
        /\ \/ /\ n > lastAcked
              /\ Advance(n) \/ AdvancePartly(n)
           \/ /\ n = lastAcked
              /\ DuplicateInflates \/ DuplicateCounts \/ DuplicateRetransmits
    BY <1>4 DEF ReceiveAck
  <2>2. inflate' \in Nat
    <3>1. TypeOK'
      BY ReceiveAckStep
    <3> QED
      BY <3>1 DEF TypeOK
  <2>3. << >> \in Seq(Message) /\ Retransmission(n) \in Seq(Message)
    BY <1>1, RetransmissionTyped
  <2>4. /\ HighestAfter(n) \in Nat /\ TimerRuns(n) \in BOOLEAN
        /\ n <= HighestAfter(n) /\ highest <= HighestAfter(n)
    BY <1>1, <1>2 DEF HighestAfter, TimerRuns
  <2>5. ASSUME NEW hs \in Nat, hs >= highest, hs >= n,
               highest' >= hs, highest' \in Nat, ReadyAfter(n)
        PROVE  SendsOn' /\ AckedWasSent' /\ highest' >= highest
    BY <1>1, <1>2, <2>1, <2>5 DEF ReadyAfter, SendsOn, AckedWasSent
  <2>6. CASE n > lastAcked /\ Advance(n)
    <3>1. LimitAndSend(n, HighestAfter(n), TimerRuns(n), <<>>)
      BY <2>6 DEF Advance
    <3>2. highest' >= HighestAfter(n) /\ highest' \in Nat /\ ReadyAfter(n)
      BY <1>1, <2>1, <2>2, <2>3, <2>4, <3>1, LimitAndSendReady
    <3> QED
      BY <2>4, <2>5, <3>2
  <2>7. CASE n > lastAcked /\ AdvancePartly(n)
    <3>1. LimitAndSend(n, HighestAfter(n), TRUE, Retransmission(n))
      BY <2>7 DEF AdvancePartly
    <3>2. highest' >= HighestAfter(n) /\ highest' \in Nat /\ ReadyAfter(n)
      BY <1>1, <2>1, <2>2, <2>3, <2>4, <3>1, LimitAndSendReady
    <3> QED
      BY <2>4, <2>5, <3>2
  <2>8. CASE n = lastAcked /\ DuplicateInflates
    <3> DEFINE at == [acked |-> lastAcked, highest |-> highest,
                      window |-> cwnd' + inflate', slow |-> slow, timer |-> timer,
                      deferred |-> deferred, queued |-> nic]
    <3>1. at \in SendState /\ at.highest = highest /\ at.acked = lastAcked
      <4>1. cwnd' + inflate' \in Nat
        <5>1. cwnd' \in Nat
          BY <2>1, SwiftAssumption
        <5> QED
          BY <2>2, <5>1, SumTyped, Zenon
      <4>2. nic \in Nat /\ slow \in BOOLEAN /\ deferred \in BOOLEAN
        BY LenProperties DEF TypeOK
      <4> QED
        BY <1>2, <4>1, <4>2 DEF SendState
    <3>2. SendPackets(at, <<>>)
      BY <2>8 DEF DuplicateInflates
    <3> HIDE DEF at
    <3>3. highest' >= at.highest /\ highest' \in Nat /\ ReadyAfter(at.acked)
      <4>1. at.acked <= at.highest
        BY <1>2, <3>1
      <4> QED
        BY <2>3, <3>1, <3>2, <4>1, SendPacketsReady
    <3>4. highest' >= highest /\ highest' \in Nat /\ ReadyAfter(n)
      BY <2>8, <3>1, <3>3
    <3> QED
      BY <1>2, <2>5, <2>8, <3>4
  <2>9. CASE n = lastAcked /\ DuplicateCounts
    <3>1. LimitAndSend(lastAcked, highest, timer, <<>>)
      BY <2>9 DEF DuplicateCounts
    <3>2. highest' >= highest /\ highest' \in Nat /\ ReadyAfter(n)
      BY <1>2, <2>1, <2>2, <2>3, <2>9, <3>1, LimitAndSendReady
    <3> QED
      BY <1>2, <2>5, <2>9, <3>2
  <2>10. CASE n = lastAcked /\ DuplicateRetransmits
    <3>1. CASE lastAcked < recoverq
      <4>1. UNCHANGED <<highest, pacing, nextDsn, deferred, nic>>
        BY <2>10, <3>1 DEF DuplicateRetransmits, sendVars
      <4> QED
        BY <1>1, <1>2, <2>1, <2>10, <4>1 DEF SendsOn, AckedWasSent, MaySend
    <3>2. CASE ~(lastAcked < recoverq)
      <4>1. Put(nic, Retransmission(n), highest, 0) /\ UNCHANGED <<pacing, deferred>>
        BY <2>10, <3>2 DEF DuplicateRetransmits
      <4>2. Len(Retransmission(n)) = 1 /\ nic \in Nat /\ nextDsn \in Nat
        BY <1>1, RetransmissionTyped, SwiftAssumption, LenProperties, SMTT(60) DEF TypeOK
      <4>3. highest' = highest /\ nextDsn' = nextDsn /\ nic' = nic + 1
        <5> DEFINE one == Len(Retransmission(n))
        <5>1. highest' = highest + 0 /\ nextDsn' = nextDsn + 0 /\ nic' = nic + one + 0
          BY <4>1, Zenon DEF Put
        <5>2. one = 1
          BY <4>2
        <5> HIDE DEF one
        <5> QED
          BY <1>2, <4>2, <5>1, <5>2
      <4>4. MaySend => MaySend'
        BY <4>1, <4>2, <4>3 DEF MaySend
      <4> QED
        BY <1>1, <1>2, <2>1, <2>10, <4>3, <4>4 DEF SendsOn, AckedWasSent
    <3> QED
      BY <3>1, <3>2
  <2> QED
    BY <2>1, <2>6, <2>7, <2>8, <2>9, <2>10
<1> QED
  BY <1>3, <1>4

(* The answers *)

\* An acknowledgement taken from those on their way is the least of them.
LEMMA TailAscends ==
    ASSUME TypeOK, acks # <<>>, AnswersAscend, acks' = Tail(acks), cumAck' = cumAck,
           lastAcked' \in {lastAcked, Head(acks).ackno}
    PROVE  /\ AnswersAscend'
           /\ Head(acks).ackno \in Nat /\ lastAcked <= Head(acks).ackno
           /\ Head(acks).ackno <= Known /\ Known <= cumAck /\ Known \in Nat
           /\ Len(acks) = 1 => acks' = <<>> /\ Known' = lastAcked' /\ Known = Head(acks).ackno
                               /\ LastAck = Head(acks)
           /\ Len(acks) # 1 => acks' # <<>> /\ Known' = Known /\ LastAck' = LastAck
<1> DEFINE n == Head(acks).ackno
<1>1. /\ Len(acks) \in Nat /\ Len(acks) > 0 /\ acks[1] = Head(acks)
      /\ Head(acks) \in Acknowledgement
      /\ DOMAIN acks = 1..Len(acks) /\ DOMAIN Tail(acks) = 1..(Len(acks) - 1)
      /\ Len(Tail(acks)) = Len(acks) - 1
      /\ \A i \in 1..(Len(acks) - 1) : Tail(acks)[i] = acks[i + 1]
      /\ Tail(acks) = <<>> <=> Len(acks) = 1
  BY AckArrival
<1>2. n \in Nat /\ n = acks[1].ackno
  BY <1>1 DEF Acknowledgement
<1> HIDE DEF n
<1>3. /\ lastAcked \in Nat /\ cumAck \in Nat
      /\ \A i \in DOMAIN acks : acks[i] \in Acknowledgement /\ acks[i].ackno \in Nat
  <2>1. lastAcked \in Nat /\ cumAck \in Nat /\ acks \in Seq(Acknowledgement)
    BY DEF TypeOK, Acknowledgement
  <2>2. \A i \in DOMAIN acks : acks[i] \in Acknowledgement
    BY <2>1
  <2> QED
    BY <2>1, <2>2 DEF Acknowledgement
<1>4. 1 \in DOMAIN acks /\ Len(acks) \in DOMAIN acks /\ 1 <= Len(acks)
  BY <1>1
<1>5. /\ lastAcked <= n /\ n <= cumAck
      /\ \A i \in DOMAIN acks : n <= acks[i].ackno /\ acks[i].ackno <= cumAck
      /\ \A i, j \in DOMAIN acks : i <= j => acks[i].ackno <= acks[j].ackno
  <2>1. \A i \in DOMAIN acks : 1 <= i
    BY <1>1
  <2> QED
    BY <1>2, <1>4, <2>1 DEF AnswersAscend
<1>6. Known = LastAck.ackno /\ Known \in Nat /\ n <= Known /\ Known <= cumAck
  BY <1>3, <1>4, <1>5 DEF Known, LastAck
<1>7. lastAcked' \in Nat /\ lastAcked' <= n /\ lastAcked' <= cumAck
  BY <1>2, <1>3, <1>5 DEF n
<1>8. AnswersAscend'
  <2>1. ASSUME NEW i \in DOMAIN acks'
        PROVE  i \in Int /\ i + 1 \in DOMAIN acks /\ acks'[i] = acks[i + 1]
    BY <1>1, <2>1
  <2>2. ASSUME NEW i \in DOMAIN acks'
        PROVE  lastAcked' <= acks'[i].ackno /\ acks'[i].ackno <= cumAck
    <3>1. i + 1 \in DOMAIN acks /\ acks'[i] = acks[i + 1]
      BY <2>1
    <3>2. acks[i + 1].ackno \in Nat /\ n <= acks[i + 1].ackno /\ acks[i + 1].ackno <= cumAck
      BY <1>3, <1>5, <3>1
    <3> QED
      BY <1>2, <1>7, <3>1, <3>2
  <2>3. ASSUME NEW i \in DOMAIN acks', NEW j \in DOMAIN acks', i <= j
        PROVE  acks'[i].ackno <= acks'[j].ackno
    <3>1. /\ i + 1 \in DOMAIN acks /\ acks'[i] = acks[i + 1]
          /\ j + 1 \in DOMAIN acks /\ acks'[j] = acks[j + 1] /\ i + 1 <= j + 1
      BY <2>1, <2>3
    <3> QED
      BY <1>5, <3>1
  <2> QED
    BY <1>7, <2>2, <2>3 DEF AnswersAscend
<1>9. CASE Len(acks) = 1
  <2>1. acks' = <<>> /\ LastAck = Head(acks)
    BY <1>1, <1>9 DEF LastAck
  <2>2. Known' = lastAcked' /\ Known = n
    BY <1>6, <2>1 DEF Known, n
  <2> QED
    BY <1>2, <1>5, <1>6, <1>8, <1>9, <2>1, <2>2 DEF n
<1>10. CASE Len(acks) # 1
  <2>1. acks' # <<>>
    BY <1>1, <1>10
  <2> DEFINE l == Len(acks) - 1
  <2>2. l \in 1..(Len(acks) - 1) /\ l + 1 = Len(acks) /\ Len(acks') = l
    BY <1>1, <1>10
  <2> HIDE DEF l
  <2>3. LastAck' = LastAck
    BY <1>1, <2>2 DEF LastAck
  <2>4. Known' = Known
    BY <1>6, <2>1, <2>3 DEF Known
  <2> QED
    BY <1>2, <1>5, <1>6, <1>8, <1>10, <2>1, <2>3, <2>4 DEF n
<1> QED
  BY <1>9, <1>10

\* A new one is the greatest, and says all that the sink has.
LEMMA AppendAscends ==
    ASSUME TypeOK, TypeOK', AnswersAscend, cumAck' >= cumAck, lastAcked' = lastAcked,
           acks' = Append(acks, [ackno |-> cumAck', ds |-> dataAck'])
    PROVE  AnswersAscend' /\ acks' # <<>> /\ Known' = cumAck' /\ LastAck'.ds = dataAck'
<1> DEFINE new == [ackno |-> cumAck', ds |-> dataAck']
           l   == Len(acks)
<1>1. cumAck \in Nat /\ lastAcked \in Nat /\ cumAck' \in Nat /\ dataAck' \in 0..N
  BY DEF TypeOK
<1>2. acks \in Seq(Acknowledgement)
  BY DEF TypeOK, Acknowledgement
<1>3. new \in Acknowledgement /\ new.ackno = cumAck' /\ new.ds = dataAck'
  BY <1>1 DEF Acknowledgement
<1> HIDE DEF new
<1>4. acks' = Append(acks, new)
  BY DEF new
<1>5. /\ acks' \in Seq(Acknowledgement) /\ Len(acks') = l + 1
      /\ \A i \in 1..l : acks'[i] = acks[i]
      /\ acks'[l + 1] = new
  BY <1>2, <1>3, <1>4, AppendProperties
<1>6. l \in Nat /\ DOMAIN acks = 1..l /\ DOMAIN acks' = 1..(l + 1)
  BY <1>2, <1>5, LenProperties
<1> HIDE DEF l
<1>7. acks' # <<>>
  BY <1>5, <1>6
<1>8. LastAck' = new
  BY <1>5 DEF LastAck
<1>9. ASSUME NEW i \in DOMAIN acks'
      PROVE  /\ i = l + 1 \/ (i \in DOMAIN acks /\ acks'[i] = acks[i])
             /\ acks'[i].ackno \in Nat
             /\ lastAcked <= acks'[i].ackno /\ acks'[i].ackno <= cumAck'
  <2>1. CASE i = l + 1
    BY <1>1, <1>3, <1>5, <2>1 DEF AnswersAscend
  <2>2. CASE i # l + 1
    <3>1. i \in DOMAIN acks /\ acks'[i] = acks[i]
      BY <1>5, <1>6, <1>9, <2>2
    <3>2. acks[i].ackno \in Nat
      <4>1. acks[i] \in Acknowledgement
        BY <1>2, <3>1
      <4> QED
        BY <4>1 DEF Acknowledgement
    <3> QED
      BY <1>1, <3>1, <3>2 DEF AnswersAscend
  <2> QED
    BY <2>1, <2>2
<1>10. ASSUME NEW i \in DOMAIN acks', NEW j \in DOMAIN acks', i <= j
       PROVE  acks'[i].ackno <= acks'[j].ackno
  <2>1. CASE j = l + 1
    <3>1. acks'[j].ackno = cumAck'
      BY <1>3, <1>5, <2>1
    <3> QED
      BY <1>9, <3>1
  <2>2. CASE j # l + 1
    <3>1. i # l + 1
      BY <1>6, <1>10, <2>2
    <3>2. i \in DOMAIN acks /\ acks'[i] = acks[i] /\ j \in DOMAIN acks /\ acks'[j] = acks[j]
      BY <1>9, <2>2, <3>1
    <3> QED
      BY <1>10, <3>2 DEF AnswersAscend
  <2> QED
    BY <2>1, <2>2
<1>11. AnswersAscend'
  <2>1. lastAcked' <= cumAck'
    BY <1>1 DEF AnswersAscend
  <2> QED
    BY <1>9, <1>10, <2>1 DEF AnswersAscend
<1> QED
  BY <1>3, <1>7, <1>8, <1>11 DEF Known

\* What the sink holds of the subflow stays beyond a gap.
LEMMA TakesBeyond ==
    ASSUME NEW s \in Nat, NEW cum \in Nat, NEW above \in SUBSET Nat, IsFiniteSet(above),
           BeyondGap(cum, above),
           NEW cumNew, NEW aboveNew, Takes(s, cum, above, cumNew, aboveNew)
    PROVE  cumNew >= cum /\ cumNew \in Nat /\ BeyondGap(cumNew, aboveNew)
<1>1. CASE s = cum + 1
  <2>1. PICK c \in s..(s + Cardinality(above)) :
               /\ c + 1 \notin above /\ cumNew = c /\ aboveNew = above \ (1..c)
    BY <1>1 DEF Takes
  <2>2. c \in Nat /\ c >= s
    BY <2>1, FS_CardinalityType
  <2>3. ASSUME NEW d \in aboveNew
        PROVE  d > c + 1
    <3>1. d \in Nat /\ d \in above /\ d \notin 1..c /\ d # c + 1
      BY <2>1, <2>3
    <3>2. d > cum + 1
      BY <3>1 DEF BeyondGap
    <3> QED
      BY <1>1, <2>2, <3>1, <3>2
  <2> QED
    BY <1>1, <2>1, <2>2, <2>3 DEF BeyondGap
<1>2. CASE s <= cum
  <2>1. cumNew = cum /\ aboveNew = above
    BY <1>2 DEF Takes
  <2> QED
    BY <2>1
<1>3. CASE s > cum + 1
  <2>1. cumNew = cum /\ aboveNew = above \cup {s}
    BY <1>3 DEF Takes
  <2> QED
    BY <1>3, <2>1 DEF BeyondGap
<1> QED
  BY <1>1, <1>2, <1>3

(* The numbers on their way *)

\* What is sent beyond hs covers what lies beyond it.
LEMMA SendsCover ==
    ASSUME TypeOK, NEW re \in Seq(Message), NEW hs \in Nat, NEW tm, Sends(re, hs, tm),
           UNCHANGED sinkVars, CoveredTo(hs)
    PROVE  Covered'
<1>1. PICK q \in Nat, k \in 0..(N - nextDsn) : Put(q, re, hs, k)
  BY Zenon DEF Sends
<1>2. /\ data' \in Seq(Message) /\ Len(data') = Len(data) + Len(re) + k
      /\ \A i \in 1..Len(data) : data'[i] = data[i]
      /\ \A i \in 1..k : data'[Len(data) + Len(re) + i]
                           = [seq |-> hs + i, dsn |-> nextDsn + i]
  BY <1>1, PutContent
<1>3. /\ Len(data) \in Nat /\ Len(re) \in Nat /\ DOMAIN data = 1..Len(data) /\ k \in Nat
      /\ DOMAIN data' = 1..(Len(data) + Len(re) + k)
      /\ highest' = hs + k /\ cumAck' = cumAck /\ held' = held /\ cumAck \in Nat
  BY <1>1, <1>2, LenProperties, SwiftAssumption DEF TypeOK, Put, sinkVars
<1>4. ASSUME NEW s \in (cumAck + 1)..(hs + k)
      PROVE  s \in held \/ \E i \in DOMAIN data' : data'[i].seq = s
  <2>1. CASE s <= hs
    <3>1. s \in (cumAck + 1)..hs
      BY <1>3, <1>4, <2>1
    <3>2. CASE s \in held
      BY <3>2
    <3>3. CASE \E i \in DOMAIN data : data[i].seq = s
      <4>1. PICK i \in DOMAIN data : data[i].seq = s
        BY <3>3
      <4>2. i \in DOMAIN data' /\ data'[i] = data[i]
        BY <1>2, <1>3, <4>1
      <4> QED
        BY <4>1, <4>2
    <3> QED
      BY <3>1, <3>2, <3>3 DEF CoveredTo
  <2>2. CASE s > hs
    <3> DEFINE j == s - hs
               p == Len(data) + Len(re) + j
    <3>1. j \in 1..k /\ hs + j = s /\ p \in DOMAIN data'
      BY <1>3, <1>4, <2>2
    <3>2. data'[p] = [seq |-> hs + j, dsn |-> nextDsn + j]
      BY <1>2, <3>1
    <3> HIDE DEF j, p
    <3>3. data'[p].seq = s
      BY <3>1, <3>2
    <3> QED
      BY <3>1, <3>3
  <2> QED
    BY <1>3, <1>4, <2>1, <2>2
<1> QED
  BY <1>3, <1>4 DEF Covered, CoveredTo

\* Before the first packet nothing is on its way, nor after a handler that sends nothing.
LEMMA NothingSent ==
    ASSUME TypeOK, NothingYet, NEW tm, Sends(<<>>, highest, tm), tm => timer, highest' = 0
    PROVE  highest = 0 /\ data' = <<>> /\ ~timer'
<1>1. PICK q \in Nat, k \in 0..(N - nextDsn) :
            Put(q, <<>>, highest, k) /\ (timer' => tm \/ k > 0)
  BY Zenon DEF Sends
<1>2. highest \in Nat /\ k \in Nat /\ highest' = highest + k
  BY <1>1, SwiftAssumption DEF TypeOK, Put
<1>3. highest = 0 /\ k = 0
  BY <1>2
<1>4. data = <<>> /\ ~timer
  BY <1>3 DEF NothingYet
<1>5. << >> \in Seq(Message) /\ Len(<<>>) = 0
  OBVIOUS
<1>6. data' \in Seq(Message) /\ Len(data') = Len(data) + Len(<<>>) + k
  <2>1. << >> \in Seq(Message) /\ highest \in Nat
    BY <1>2, <1>5
  <2> QED
    BY <1>1, <2>1, PutContent
<1>7. Len(data') = 0
  <2>1. Len(data) = 0
    BY <1>4
  <2> QED
    BY <1>3, <1>5, <1>6, <2>1
<1>8. data' = <<>>
  BY <1>6, <1>7, EmptySeq
<1>9. ~timer'
  BY <1>1, <1>3, <1>4
<1> QED
  BY <1>3, <1>8, <1>9

\* What arrives is held, or beyond the sink's number no longer.
LEMMA ArrivalCovers ==
    ASSUME IInv, ReceiveData, Covered
    PROVE  Covered'
<1>0. TypeOK
  BY DEF IInv
<1>1. /\ Len(data) \in Nat /\ Len(data) > 0 /\ data[1] = Head(data) /\ Head(data) \in Message
      /\ DOMAIN data = 1..Len(data) /\ DOMAIN Tail(data) = 1..(Len(data) - 1)
      /\ \A i \in 1..(Len(data) - 1) : Tail(data)[i] = data[i + 1]
  BY <1>0, Arrival DEF ReceiveData
<1> DEFINE n == Head(data).seq
<1>2. n \in Nat
  BY <1>1 DEF Message
<1>3. /\ data' = Tail(data) /\ highest' = highest
      /\ Takes(n, cumAck, held, cumAck', held')
  BY DEF ReceiveData, sendVars
<1> HIDE DEF n
<1>4. cumAck \in Nat /\ held \in SUBSET Nat /\ IsFiniteSet(held)
  BY <1>0 DEF TypeOK
<1>5. /\ (1..cumAck) \cup held \subseteq (1..cumAck') \cup held'
      /\ n > 0 => n \in (1..cumAck') \cup held'
  BY <1>2, <1>3, <1>4, TakesHolds
<1>6. cumAck' \in Nat /\ highest \in Nat
  BY <1>0, <1>2, <1>3, <1>4, TakesTyped DEF TypeOK
<1>7. ASSUME NEW s \in (cumAck' + 1)..highest
      PROVE  s \in held' \/ \E i \in DOMAIN data' : data'[i].seq = s
  <2>1. s \in Nat /\ s > 0 /\ s \notin 1..cumAck'
    <3> DEFINE c == cumAck'
    <3>1. c \in Nat /\ s \in (c + 1)..highest
      BY <1>6, <1>7
    <3> HIDE DEF c
    <3>2. s \in Nat /\ s > 0 /\ s \notin 1..c
      BY <1>6, <3>1
    <3> QED
      BY <3>2 DEF c
  <2>2. CASE s \in (1..cumAck) \cup held
    BY <1>5, <2>1, <2>2
  <2>3. CASE s \notin (1..cumAck) \cup held
    <3>1. s \in (cumAck + 1)..highest /\ s \notin held
      BY <1>4, <1>6, <1>7, <2>1, <2>3
    <3>2. PICK i \in DOMAIN data : data[i].seq = s
      BY <3>1 DEF Covered, CoveredTo
    <3>3. CASE i = 1
      <4>1. n = s
        BY <1>1, <3>2, <3>3 DEF n
      <4> QED
        BY <1>5, <2>1, <4>1
    <3>4. CASE i # 1
      <4> DEFINE j == i - 1
      <4>1. j \in 1..(Len(data) - 1) /\ j + 1 = i
        BY <1>1, <3>2, <3>4
      <4> HIDE DEF j
      <4>2. j \in DOMAIN data' /\ data'[j] = data[i]
        BY <1>1, <1>3, <4>1
      <4> QED
        BY <3>2, <4>2
    <3> QED
      BY <3>3, <3>4
  <2> QED
    BY <2>2, <2>3
<1> QED
  BY <1>3, <1>7 DEF Covered, CoveredTo

(* The steps *)

LEMMA RunSource ==
    ASSUME IInv, RunInv, StartFlow \/ PacerFires \/ NicCompletes
    PROVE  RunInv'
<1>0. TypeOK /\ SourceInv /\ SinkInv /\ GuardInv
  BY DEF IInv, RunInv
<1>1. UNCHANGED <<lastAcked, expired, done, sinkVars, acks, envVars>>
  BY DEF StartFlow, PacerFires, NicCompletes, windowVars
<1>2. SendsOn' /\ AckedWasSent' /\ highest' >= highest /\ highest' \in Nat /\ highest \in Nat
  BY <1>0, SourceReady DEF SourceInv, TypeOK
<1>3. Quiet \/ Sends(<<>>, highest, timer)
  BY <1>0, SourceSends
<1>4. /\ Known' = Known /\ LastAck' = LastAck /\ Watched' = Watched
      /\ UNCHANGED <<cumAck, held, dataAck, acks, done, expired, losses, lastAcked>>
  BY <1>1 DEF Known, LastAck, Watched, SingleFault, sinkVars, envVars
<1>5. NothingYet'
  <2> SUFFICES ASSUME highest' = 0
               PROVE  acks' = <<>> /\ data' = <<>> /\ ~timer' /\ ~expired'
    BY DEF NothingYet
  <2>1. highest = 0
    BY <1>2
  <2>2. acks = <<>> /\ data = <<>> /\ ~timer /\ ~expired
    BY <1>0, <2>1 DEF SourceInv, NothingYet
  <2>3. CASE Quiet
    BY <1>4, <2>2, <2>3 DEF Quiet
  <2>4. CASE Sends(<<>>, highest, timer)
    <3>1. data' = <<>> /\ ~timer'
      BY <1>0, <2>4, NothingSent DEF SourceInv
    <3> QED
      BY <1>4, <2>2, <3>1
  <2> QED
    BY <1>3, <2>3, <2>4
<1>6. SinkInv'
  BY <1>0, <1>4 DEF SinkInv, AnswersAscend, BeyondGap
<1>7. TimerGuards'
  <2> SUFFICES ASSUME Watched', ~timer'
               PROVE  Known' = cumAck' /\ Covered'
    BY DEF TimerGuards
  <2>1. ~timer
    <3>1. CASE Quiet
      BY <3>1 DEF Quiet
    <3>2. CASE Sends(<<>>, highest, timer)
      BY <3>2, Zenon DEF Sends
    <3> QED
      BY <1>3, <3>1, <3>2
  <2>2. Known = cumAck /\ Covered
    BY <1>0, <1>4, <2>1 DEF GuardInv, TimerGuards
  <2>3. CASE Quiet
    BY <1>4, <2>2, <2>3 DEF Quiet, Covered, CoveredTo
  <2>4. CASE Sends(<<>>, highest, timer)
    <3>1. << >> \in Seq(Message) /\ CoveredTo(highest)
      BY <2>2 DEF Covered
    <3>2. Covered'
      BY <1>0, <1>1, <1>2, <2>4, <3>1, SendsCover, Zenon
    <3> QED
      BY <1>4, <2>2, <3>2
  <2> QED
    BY <1>3, <2>3, <2>4
<1>8. AnswerLost'
  <2> SUFFICES ASSUME Watched', Known' < cumAck'
               PROVE  losses' = 1 /\ Known' < highest' /\ (expired' => acks' = <<>>)
    BY DEF AnswerLost
  <2>1. losses = 1 /\ Known < highest /\ (expired => acks = <<>>)
    BY <1>0, <1>4 DEF GuardInv, AnswerLost
  <2>2. Known \in Int
    <3>1. lastAcked \in Nat /\ acks \in Seq(Acknowledgement)
      BY <1>0 DEF TypeOK, Acknowledgement
    <3>2. CASE acks = <<>>
      BY <3>1, <3>2 DEF Known
    <3>3. CASE acks # <<>>
      <4>1. LastAck \in Acknowledgement
        BY <3>1, <3>3, LenProperties, EmptySeq DEF LastAck
      <4> QED
        BY <3>3, <4>1 DEF Known, Acknowledgement
    <3> QED
      BY <3>2, <3>3
  <2> QED
    BY <1>2, <1>4, <2>1, <2>2
<1>9. EndAnswered'
  BY <1>0, <1>4 DEF GuardInv, EndAnswered
<1> QED
  BY <1>2, <1>5, <1>6, <1>7, <1>8, <1>9 DEF RunInv, SourceInv, GuardInv

LEMMA RunAck ==
    ASSUME IInv, RunInv, ReceiveAck
    PROVE  RunInv'
<1> DEFINE n == Head(acks).ackno
<1>0. TypeOK /\ SourceInv /\ SinkInv /\ GuardInv
  BY DEF IInv, RunInv
<1>1. /\ acks # <<>> /\ acks' = Tail(acks) /\ UNCHANGED <<started, expired, sinkVars, envVars>>
      /\ n < lastAcked \/ done' = (done \/ Head(acks).ds = N)
  BY DEF ReceiveAck
<1>2. SendsOn' /\ AckedWasSent' /\ highest' >= highest /\ highest' \in Nat /\ highest \in Nat
  BY <1>0, AckReady DEF SourceInv, TypeOK
<1>3. AckOutcome(n)
  BY <1>0, AckSends, Zenon
<1>4. lastAcked' \in {lastAcked, n} /\ cumAck' = cumAck
  BY <1>1, <1>3 DEF AckOutcome, sinkVars
<1>5. /\ AnswersAscend'
      /\ n \in Nat /\ lastAcked <= n /\ n <= Known /\ Known <= cumAck /\ Known \in Nat
      /\ Len(acks) = 1 => acks' = <<>> /\ Known' = lastAcked' /\ Known = n
                          /\ LastAck = Head(acks)
      /\ Len(acks) # 1 => acks' # <<>> /\ Known' = Known /\ LastAck' = LastAck
  BY <1>0, <1>1, <1>4, TailAscends DEF SinkInv
<1>6. lastAcked \in Nat /\ cumAck \in Nat
  BY <1>0 DEF TypeOK
<1> HIDE DEF n
<1>7. lastAcked' = n /\ (timer' \/ Unwatched(n))
  BY <1>3, <1>5, <1>6 DEF AckOutcome
<1>8. /\ Known' = Known /\ Watched' = Watched
      /\ UNCHANGED <<cumAck, held, dataAck, expired, losses>>
  BY <1>1, <1>5, <1>7 DEF Watched, SingleFault, sinkVars, envVars
<1>9. NothingYet'
  <2> SUFFICES ASSUME highest' = 0
               PROVE  FALSE
    BY DEF NothingYet
  <2>1. highest = 0
    BY <1>2
  <2> QED
    BY <1>0, <1>1, <2>1 DEF SourceInv, NothingYet
<1>10. SinkInv'
  BY <1>0, <1>5, <1>8 DEF SinkInv, BeyondGap
<1>11. TimerGuards'
  <2> SUFFICES ASSUME Watched', ~timer'
               PROVE  Known' = cumAck' /\ Covered'
    BY DEF TimerGuards
  <2>0. << >> \in Seq(Message) /\ UNCHANGED sinkVars
    BY <1>1
  <2>1. CASE n >= highest /\ Sends(<<>>, n, FALSE)
    <3>1. Known = cumAck
      <4> SUFFICES ASSUME Known # cumAck
                   PROVE  FALSE
        OBVIOUS
      <4>1. Known < cumAck
        BY <1>5, <1>6
      <4>2. Known < highest
        BY <1>0, <1>8, <4>1 DEF GuardInv, AnswerLost
      <4> QED
        BY <1>2, <1>5, <2>1, <4>2
    <3>2. CoveredTo(n)
      <4>1. (cumAck + 1)..n = {}
        BY <1>5, <1>6
      <4> QED
        BY <4>1 DEF CoveredTo
    <3>3. Covered'
      BY <1>0, <1>5, <2>0, <2>1, <3>2, SendsCover, Zenon
    <3> QED
      BY <1>8, <3>1, <3>3
  <2>2. CASE ~timer /\ Quiet
    <3>1. Known = cumAck /\ Covered
      BY <1>0, <1>8, <2>2 DEF GuardInv, TimerGuards
    <3> QED
      BY <1>8, <2>2, <3>1 DEF Quiet, Covered, CoveredTo
  <2>3. CASE ~timer /\ Sends(<<>>, highest, FALSE)
    <3>1. Known = cumAck /\ CoveredTo(highest)
      BY <1>0, <1>8, <2>3 DEF GuardInv, TimerGuards, Covered
    <3>2. Covered'
      BY <1>0, <1>2, <2>0, <2>3, <3>1, SendsCover, Zenon
    <3> QED
      BY <1>8, <3>1, <3>2
  <2> QED
    BY <1>7, <2>1, <2>2, <2>3 DEF Unwatched
<1>12. AnswerLost'
  <2> SUFFICES ASSUME Watched', Known' < cumAck'
               PROVE  losses' = 1 /\ Known' < highest' /\ (expired' => acks' = <<>>)
    BY DEF AnswerLost
  <2>1. losses = 1 /\ Known < highest /\ ~expired
    BY <1>0, <1>1, <1>8 DEF GuardInv, AnswerLost
  <2> QED
    BY <1>2, <1>5, <1>8, <2>1
<1>13. EndAnswered'
  <2> SUFFICES ASSUME Watched', dataAck' = N, ~done'
               PROVE  (acks' # <<>> /\ LastAck'.ds = N) \/ Known' < cumAck'
    BY DEF EndAnswered
  <2>1. ~(n < lastAcked)
    BY <1>5, <1>6
  <2>2. ~done /\ Head(acks).ds # N
    <3>1. done' = (done \/ Head(acks).ds = N)
      BY <1>1, <2>1
    <3> QED
      BY <3>1
  <2>3. LastAck.ds = N \/ Known < cumAck
    BY <1>0, <1>8, <2>2 DEF GuardInv, EndAnswered
  <2>4. CASE Len(acks) = 1
    BY <1>5, <1>8, <2>2, <2>3, <2>4
  <2>5. CASE Len(acks) # 1
    BY <1>5, <1>8, <2>3, <2>5
  <2> QED
    BY <2>4, <2>5
<1> QED
  BY <1>2, <1>9, <1>10, <1>11, <1>12, <1>13 DEF RunInv, SourceInv, GuardInv

\* The timer expires: early, which is a fault, or when nothing is on its way.
LEMMA RunTimer ==
    ASSUME IInv, RunInv, TimerExpires \/ TimerExpiresEarly \/ UNCHANGED vars
    PROVE  RunInv'
<1>0. TypeOK /\ SourceInv /\ SinkInv /\ GuardInv
  BY DEF IInv, RunInv
<1>1. /\ UNCHANGED <<started, windowVars, sendVars, done, sinkVars, data, nic, acks, losses,
                     untimed>>
      /\ expired' # expired => highest > 0
      /\ \/ early' = early /\ (expired' = expired \/ acks = <<>>)
         \/ early' = early + 1
  BY DEF TimerExpires, TimerExpiresEarly, vars, envVars
<1>2. /\ Known' = Known /\ LastAck' = LastAck /\ Covered' = Covered
      /\ UNCHANGED <<lastAcked, highest, timer, cumAck, held, dataAck, pacing, nextDsn, deferred>>
  BY <1>1 DEF Known, LastAck, Covered, CoveredTo, windowVars, sendVars, sinkVars
<1>3. early \in Nat /\ losses \in Nat /\ highest \in Nat
  BY <1>0, SwiftAssumption DEF TypeOK
<1>4. Watched' => Watched
  BY <1>1, <1>3 DEF Watched, SingleFault
<1>5. SourceInv'
  <2>1. SendsOn' /\ AckedWasSent'
    BY <1>0, <1>1, <1>2 DEF SourceInv, SendsOn, AckedWasSent, MaySend
  <2>2. NothingYet'
    BY <1>0, <1>1, <1>2, <1>3 DEF SourceInv, NothingYet
  <2> QED
    BY <2>1, <2>2 DEF SourceInv
<1>6. SinkInv'
  BY <1>0, <1>1, <1>2 DEF SinkInv, AnswersAscend, BeyondGap
<1>7. TimerGuards' /\ EndAnswered'
  BY <1>0, <1>1, <1>2, <1>4 DEF GuardInv, TimerGuards, EndAnswered
<1>8. AnswerLost'
  <2> SUFFICES ASSUME Watched', Known' < cumAck'
               PROVE  losses' = 1 /\ Known' < highest' /\ (expired' => acks' = <<>>)
    BY DEF AnswerLost
  <2>1. losses = 1 /\ Known < highest /\ (expired => acks = <<>>)
    BY <1>0, <1>2, <1>4 DEF GuardInv, AnswerLost
  <2>2. early' = early
    <3>1. losses' + early' <= 1
      BY DEF Watched, SingleFault
    <3> QED
      BY <1>1, <1>3, <2>1, <3>1
  <2>3. expired' = expired \/ acks = <<>>
    BY <1>1, <1>3, <2>2
  <2> QED
    BY <1>1, <1>2, <2>1, <2>3
<1> QED
  BY <1>5, <1>6, <1>7, <1>8 DEF RunInv, GuardInv

\* A timeout retransmits the first packet and leaves the timer running.
LEMMA RunTimeout ==
    ASSUME IInv, RunInv, Timeout
    PROVE  RunInv'
<1>0. TypeOK /\ SourceInv /\ SinkInv /\ GuardInv
  BY DEF IInv, RunInv
<1>1. /\ expired /\ ~expired' /\ timer'
      /\ UNCHANGED <<started, lastAcked, done, sinkVars, acks, envVars>>
      /\ Put(nic, Retransmission(lastAcked), lastAcked + 1, 0)
  BY DEF Timeout
<1>2. highest' = lastAcked + 1 /\ lastAcked \in Nat
  <2>1. lastAcked \in Nat /\ highest' = lastAcked + 1 + 0
    BY <1>0, <1>1 DEF TypeOK, Put
  <2> QED
    BY <2>1
<1>3. /\ Known' = Known /\ LastAck' = LastAck /\ Watched' = Watched
      /\ UNCHANGED <<cumAck, held, dataAck, losses>>
  BY <1>1 DEF Known, LastAck, Watched, SingleFault, sinkVars, envVars
<1>4. SourceInv'
  BY <1>1, <1>2 DEF SourceInv, SendsOn, AckedWasSent, NothingYet
<1>5. SinkInv'
  BY <1>0, <1>1, <1>3 DEF SinkInv, AnswersAscend, BeyondGap
<1>6. TimerGuards' /\ EndAnswered'
  BY <1>0, <1>1, <1>3 DEF GuardInv, TimerGuards, EndAnswered
<1>7. AnswerLost'
  <2> SUFFICES ASSUME Watched', Known' < cumAck'
               PROVE  losses' = 1 /\ Known' < highest' /\ (expired' => acks' = <<>>)
    BY DEF AnswerLost
  <2>1. losses = 1 /\ acks = <<>>
    BY <1>0, <1>1, <1>3 DEF GuardInv, AnswerLost
  <2>2. Known = lastAcked
    BY <2>1 DEF Known
  <2> QED
    BY <1>1, <1>2, <1>3, <2>1, <2>2
<1> QED
  BY <1>4, <1>5, <1>6, <1>7 DEF RunInv, GuardInv

\* Whatever arrives is answered with all that the sink has.
LEMMA RunData ==
    ASSUME IInv, RunInv, ReceiveData
    PROVE  RunInv'
<1>0. TypeOK /\ SourceInv /\ SinkInv /\ GuardInv /\ TypeOK'
  <2>1. IInv'
    BY ReceiveDataStep
  <2> QED
    BY <2>1 DEF IInv, RunInv
<1>1. /\ UNCHANGED <<started, windowVars, sendVars, expired, done, nic, envVars>>
      /\ acks' = Append(acks, [ackno |-> cumAck', ds |-> dataAck'])
      /\ Takes(Head(data).seq, cumAck, held, cumAck', held')
  BY DEF ReceiveData
<1>2. data # <<>> /\ Head(data).seq \in Nat
  <2>1. data # <<>> /\ Head(data) \in Message
    BY <1>0, Arrival DEF ReceiveData
  <2> QED
    BY <2>1 DEF Message
<1>3. cumAck' >= cumAck /\ BeyondGap(cumAck', held')
  <2>1. /\ cumAck \in Nat /\ held \in SUBSET Nat /\ IsFiniteSet(held) /\ BeyondGap(cumAck, held)
    BY <1>0 DEF TypeOK, SinkInv
  <2> QED
    BY <1>1, <1>2, <2>1, TakesBeyond
<1>4. UNCHANGED <<lastAcked, highest, timer, pacing, nextDsn, deferred>> /\ Watched' = Watched
  BY <1>1 DEF windowVars, sendVars, envVars, Watched, SingleFault
<1>5. AnswersAscend' /\ acks' # <<>> /\ Known' = cumAck' /\ LastAck'.ds = dataAck'
  BY <1>0, <1>1, <1>3, <1>4, AppendAscends DEF SinkInv
<1>6. SourceInv'
  <2>1. SendsOn' /\ AckedWasSent'
    BY <1>0, <1>1, <1>4 DEF SourceInv, SendsOn, AckedWasSent, MaySend
  <2>2. NothingYet'
    BY <1>0, <1>2, <1>4 DEF SourceInv, NothingYet
  <2> QED
    BY <2>1, <2>2 DEF SourceInv
<1>7. SinkInv'
  BY <1>3, <1>5 DEF SinkInv
<1>8. TimerGuards'
  <2> SUFFICES ASSUME Watched', ~timer'
               PROVE  Covered'
    BY <1>5 DEF TimerGuards
  <2>1. Covered
    BY <1>0, <1>4 DEF GuardInv, TimerGuards
  <2> QED
    BY <2>1, ArrivalCovers
<1>9. AnswerLost'
  <2>1. ~(Known' < cumAck')
    <3>1. cumAck' \in Nat
      BY <1>0 DEF TypeOK
    <3> QED
      BY <1>5, <3>1
  <2> QED
    BY <2>1 DEF AnswerLost
<1>10. EndAnswered'
  BY <1>5 DEF EndAnswered
<1> QED
  BY <1>6, <1>7, <1>8, <1>9, <1>10 DEF RunInv, GuardInv

\* The first fault is a loss while the timer runs, and everything was in order.
LEMMA RunDrop ==
    ASSUME IInv, RunInv, LossInv, Drop
    PROVE  RunInv'
<1>0. TypeOK /\ SourceInv /\ SinkInv /\ GuardInv
  BY DEF IInv, RunInv
<1>1. /\ UNCHANGED <<started, windowVars, sendVars, expired, done, sinkVars, nic, early>>
      /\ losses' = losses + 1 /\ untimed' = (untimed \/ ~timer)
      /\ \/ Len(data) > nic /\ data' = Tail(data) /\ UNCHANGED acks
         \/ acks # <<>> /\ acks' = Tail(acks) /\ UNCHANGED data
  BY DEF Drop
<1>2. UNCHANGED <<lastAcked, highest, timer, pacing, nextDsn, deferred, cumAck, held, dataAck>>
  BY <1>1 DEF windowVars, sendVars, sinkVars
<1>3. /\ early \in Nat /\ losses \in Nat /\ highest \in Nat /\ lastAcked \in Nat
      /\ cumAck \in Nat
  BY <1>0, SwiftAssumption DEF TypeOK
<1>4. highest # 0
  <2>1. data # <<>> \/ acks # <<>>
    BY <1>0, <1>1, Arrival
  <2> QED
    BY <1>0, <2>1 DEF SourceInv, NothingYet
<1>5. SourceInv'
  <2>1. SendsOn' /\ AckedWasSent'
    BY <1>0, <1>1, <1>2 DEF SourceInv, SendsOn, AckedWasSent, MaySend
  <2>2. NothingYet'
    BY <1>2, <1>4 DEF NothingYet
  <2> QED
    BY <2>1, <2>2 DEF SourceInv
<1>6. acks' = Tail(acks) /\ acks # <<>> =>
        /\ AnswersAscend'
        /\ Len(acks) = 1 => acks' = <<>> /\ Known' = lastAcked' /\ LastAck = Head(acks)
        /\ Len(acks) # 1 => acks' # <<>> /\ Known' = Known /\ LastAck' = LastAck
  <2> SUFFICES ASSUME acks' = Tail(acks), acks # <<>>
               PROVE  /\ AnswersAscend'
                      /\ Len(acks) = 1 => /\ acks' = <<>> /\ Known' = lastAcked'
                                          /\ LastAck = Head(acks)
                      /\ Len(acks) # 1 => /\ acks' # <<>> /\ Known' = Known
                                          /\ LastAck' = LastAck
    OBVIOUS
  <2>1. lastAcked' \in {lastAcked, Head(acks).ackno} /\ cumAck' = cumAck
    BY <1>2
  <2> QED
    BY <1>0, <2>1, TailAscends DEF SinkInv
<1>7. acks' = acks => AnswersAscend' /\ Known' = Known /\ LastAck' = LastAck
  BY <1>0, <1>2 DEF SinkInv, AnswersAscend, Known, LastAck
<1>8. SinkInv'
  BY <1>0, <1>1, <1>2, <1>6, <1>7 DEF SinkInv, BeyondGap
<1>9. CASE ~Watched'
  BY <1>5, <1>8, <1>9 DEF RunInv, GuardInv, TimerGuards, AnswerLost, EndAnswered
<1>10. CASE Watched'
  <2>1. losses = 0 /\ early = 0 /\ timer /\ Watched /\ losses' = 1
    <3>1. losses' + early' <= 1 /\ ~untimed'
      BY <1>10 DEF Watched, SingleFault
    <3>2. losses = 0 /\ early = 0 /\ losses' = 1
      BY <1>1, <1>3, <3>1
    <3>3. timer /\ ~untimed
      BY <1>1, <3>1
    <3> QED
      BY <3>2, <3>3 DEF Watched, SingleFault
  <2>2. /\ lastAcked < highest /\ ~expired
        /\ Len(acks) = cumAck - lastAcked
    BY <2>1 DEF LossInv, Orderly, Undisturbed, AcksInOrder
  <2>3. ~(Known < cumAck)
    BY <1>0, <2>1 DEF GuardInv, AnswerLost
  <2>4. TimerGuards'
    BY <1>2, <2>1 DEF TimerGuards
  <2>5. CASE acks' = acks
    <3>1. AnswerLost'
      BY <1>2, <1>7, <2>3, <2>5 DEF AnswerLost
    <3>2. EndAnswered'
      <4>1. dataAck = N /\ ~done => acks # <<>> /\ LastAck.ds = N
        BY <1>0, <2>1, <2>3 DEF GuardInv, EndAnswered
      <4> QED
        BY <1>1, <1>2, <1>7, <2>5, <4>1 DEF EndAnswered
    <3> QED
      BY <1>5, <1>8, <2>4, <3>1, <3>2 DEF RunInv, GuardInv
  <2>6. CASE acks' = Tail(acks) /\ acks # <<>> /\ Len(acks) = 1
    <3>1. acks' = <<>> /\ Known' = lastAcked /\ lastAcked < cumAck
      <4>1. acks' = <<>> /\ Known' = lastAcked'
        BY <1>6, <2>6, Zenon
      <4>2. lastAcked < cumAck
        <5>1. cumAck - lastAcked = 1
          BY <2>2, <2>6
        <5> QED
          BY <1>3, <5>1
      <4>3. lastAcked' = lastAcked
        BY <1>2
      <4> QED
        BY <4>1, <4>2, <4>3, Zenon
    <3>2. AnswerLost'
      BY <1>1, <1>2, <2>1, <2>2, <3>1 DEF AnswerLost
    <3>3. EndAnswered'
      BY <1>2, <3>1 DEF EndAnswered
    <3> QED
      BY <1>5, <1>8, <2>4, <3>2, <3>3 DEF RunInv, GuardInv
  <2>7. CASE acks' = Tail(acks) /\ acks # <<>> /\ Len(acks) # 1
    <3>0. acks' # <<>> /\ Known' = Known /\ LastAck' = LastAck
      BY <1>6, <2>7
    <3>1. AnswerLost'
      BY <1>2, <2>3, <3>0 DEF AnswerLost
    <3>2. EndAnswered'
      <4>1. dataAck = N /\ ~done => LastAck.ds = N
        BY <1>0, <2>1, <2>3 DEF GuardInv, EndAnswered
      <4> QED
        BY <1>1, <1>2, <3>0, <4>1 DEF EndAnswered
    <3> QED
      BY <1>5, <1>8, <2>4, <3>1, <3>2 DEF RunInv, GuardInv
  <2> QED
    BY <1>1, <2>5, <2>6, <2>7
<1> QED
  BY <1>9, <1>10

LEMMA RunPreserved == IInv /\ LossInv /\ RunInv /\ [Next]_vars => RunInv'
BY RunSource, RunAck, RunTimer, RunTimeout, RunData, RunDrop DEF Next

\* Without the timer and with nothing on its way the source knows all that the sink
\* has, which is all that was sent.
LEMMA RunStuck ==
    ASSUME IInv, LossInv, RunInv, Watched, started, ~done, data = <<>>, acks = <<>>, ~timer
    PROVE  pacing /\ nextDsn < N
<1>0. TypeOK /\ SourceInv /\ SinkInv /\ GuardInv /\ HeldBeyondGap
  BY DEF IInv, RunInv
<1>1. /\ highest \in Nat /\ lastAcked \in Nat /\ cumAck \in Nat /\ nextDsn \in 0..N
      /\ N \in Nat /\ dataAck \in 0..N /\ dataHeld \subseteq 1..N /\ nic = 0
  <2>1. nic \in 0..Len(data) /\ Len(data) = 0
    BY <1>0 DEF TypeOK
  <2>2. nic = 0
    BY <2>1
  <2> QED
    BY <1>0, <2>2, SwiftAssumption DEF TypeOK
<1>2. lastAcked = cumAck /\ Covered
  BY <1>0 DEF GuardInv, TimerGuards, Known
<1>3. highest <= cumAck
  <2> SUFFICES ASSUME ~(highest <= cumAck)
               PROVE  FALSE
    OBVIOUS
  <2>1. cumAck + 1 \in (cumAck + 1)..highest
    BY <1>1
  <2>2. cumAck + 1 \in held \/ \E i \in DOMAIN data : data[i].seq = cumAck + 1
    BY <1>2, <2>1 DEF Covered, CoveredTo
  <2>3. DOMAIN data = {}
    OBVIOUS
  <2>4. cumAck + 1 \in held
    BY <2>2, <2>3
  <2>5. cumAck + 1 > cumAck + 1
    BY <1>0, <2>4 DEF SinkInv, BeyondGap
  <2> QED
    BY <1>1, <2>5
<1>4. Missing = {}
  <2> SUFFICES ASSUME Missing # {}
               PROVE  FALSE
    OBVIOUS
  <2>1. OneMissing
    BY DEF LossInv, Watched
  <2>2. PICK d \in Missing : d = cumAck + 1
    BY <2>1 DEF OneMissing
  <2>3. d \in 1..nextDsn /\ nextDsn = highest
    BY <2>1, <2>2 DEF OneMissing, Identity, Missing
  <2> QED
    BY <1>1, <1>3, <2>2, <2>3
<1>5. nextDsn # N
  <2> SUFFICES ASSUME nextDsn = N
               PROVE  FALSE
    OBVIOUS
  <2>1. \A d \in 1..N : d \in Accepted
    <3>1. DOMAIN data = {}
      OBVIOUS
    <3> QED
      BY <1>4, <3>1 DEF Missing
  <2>2. dataAck = N
    <3> SUFFICES ASSUME dataAck # N
                 PROVE  FALSE
      OBVIOUS
    <3>1. dataAck + 1 \in 1..N
      BY <1>1
    <3>2. dataAck + 1 \in dataHeld
      <4>1. dataAck + 1 \in (1..dataAck) \cup dataHeld
        BY <2>1, <3>1 DEF Accepted
      <4>2. dataAck + 1 \notin 1..dataAck
        BY <1>1
      <4> QED
        BY <4>1, <4>2
    <3>3. dataAck + 1 > dataAck + 1
      BY <1>0, <3>2 DEF HeldBeyondGap, BeyondGap
    <3> QED
      BY <1>1, <3>3
  <2>3. Known < cumAck
    BY <1>0, <2>2 DEF GuardInv, EndAnswered
  <2> QED
    BY <1>1, <1>2, <2>3 DEF Known
<1>6. pacing
  <2>1. highest <= lastAcked
    BY <1>2, <1>3
  <2>2. MaySend
    BY <1>0, <2>1 DEF SourceInv, SendsOn
  <2> QED
    BY <1>1, <1>5, <2>2 DEF MaySend
<1> QED
  BY <1>1, <1>5, <1>6

\* Until a second fault, or a loss that the timer is not running for, a flow is
\* never left with nothing ahead that moves it on before it is reported finished
\* (the safety core of FlowCompletes): what window, pacer and scheduler hold back is
\* called again, and the timer runs for whatever may not be answered.
THEOREM SwiftNeverStuck == Spec => []NeverStuck
<1>1. IInv /\ LossInv /\ RunInv => NeverStuck
  <2> SUFFICES ASSUME IInv, LossInv, RunInv, started, ~done, Watched,
                      data = <<>>, acks = <<>>, ~(timer /\ highest > 0)
               PROVE  pacing /\ nextDsn < N
    BY DEF NeverStuck
  <2>1. ~timer
    <3>1. highest \in Nat /\ (highest = 0 => ~timer)
      BY DEF IInv, TypeOK, RunInv, SourceInv, NothingYet
    <3> QED
      BY <3>1
  <2> QED
    BY <2>1, RunStuck
<1> QED
  BY <1>1, SwiftInvariance, LossInvInit, LossInvPreserved, RunInit, RunPreserved, PTL DEF Spec
==================================================================================
