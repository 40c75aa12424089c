------------------------------ MODULE GoBackNProofs ------------------------------
(* Proofs about GoBackN, for either protocol, every length of the flow, packet   *)
(* size, set of windows, and number of losses, overtakings and pauses.           *)
EXTENDS GoBackN, SequenceTheorems, TLAPS

USE GoBackNAssumption

Known(c) == [nack : BOOLEAN, ackno : 0..c]

\* What an answer acknowledges the receiver has, and the source believes no more.
AnswersKnown ==
    /\ answers \in Seq(Known(cumAck))
    /\ lastAcked <= cumAck
    /\ done => cumAck = N

\* _flightsize is what HPCC has sent and not seen acknowledged, NACKs included.
FlightExact == flight = IF protocol = "hpcc" THEN highest - lastAcked ELSE 0

IInv == TypeOK /\ AnswersKnown /\ FlightExact

\* As long as nothing is lost or overtaken the receiver meets what it expects,
\* and says so.
InOrder ==
    ~Disturbed =>
        /\ Len(data) = highest - cumAck
        /\ \A i \in DOMAIN data : data[i] = cumAck + i
        /\ \A i \in DOMAIN answers : ~answers[i].nack

-----------------------------------------------------------------------------
(* The operators *)

\* A message removed from a channel leaves the others as they were.
LEMMA RemoveAtLeaves ==
    ASSUME NEW S, NEW s \in Seq(S), NEW i \in DOMAIN s
    PROVE  /\ RemoveAt(s, i) \in Seq(S)
           /\ s[i] \in S
           /\ i = 1 => RemoveAt(s, i) = Tail(s)
<1>1. i \in 1..Len(s) /\ Len(s) \in Nat
  BY LenProperties
<1>2. SubSeq(s, 1, i - 1) \in Seq(S) /\ SubSeq(s, i + 1, Len(s)) \in Seq(S)
  BY <1>1
<1>3. RemoveAt(s, i) \in Seq(S)
  BY <1>2, ConcatProperties DEF RemoveAt
<1>4. s[i] \in S
  BY <1>1, ElementOfSeq
<1>5. ASSUME i = 1
      PROVE  RemoveAt(s, i) = Tail(s)
  <2>1. SubSeq(s, 1, 0) = << >>
    BY <1>1
  <2>2. SubSeq(s, 2, Len(s)) \in Seq(S)
    BY <1>2, <1>5
  <2>3. << >> \o SubSeq(s, 2, Len(s)) = SubSeq(s, 2, Len(s))
    BY <2>2, ConcatEmptySeq
  <2>4. SubSeq(s, 2, Len(s)) = Tail(s)
    BY <1>1, <1>5, TailIsSubSeq, EmptySeq
  <2> QED
    BY <1>5, <2>1, <2>3, <2>4 DEF RemoveAt
<1> QED
  BY <1>3, <1>4, <1>5

\* The flow has N packets: it is sent, or acknowledged, with the last of them and
\* not before.
LEMMA FlowHasNPackets ==
    ASSUME NEW k \in 0..N, flowSize \in FlowSizes
    PROVE  k * Mss >= flowSize <=> k = N
<1>1. flowSize >= (N - 1) * Mss + 1 /\ flowSize <= N * Mss /\ flowSize \in Int
  OBVIOUS
<1>2. CASE k = N
  BY <1>1, <1>2
<1>3. ASSUME k # N
      PROVE  k * Mss < flowSize
  <2>1. N - 1 - k \in Nat
    BY <1>3
  <2>2. (N - 1 - k) * Mss >= 0
    BY <2>1
  <2>3. (N - 1 - k) * Mss = (N - 1) * Mss - k * Mss
    OBVIOUS
  <2> QED
    BY <1>1, <2>2, <2>3
<1> QED
  BY <1>1, <1>2, <1>3

\* The answer acknowledges no less than before, and at most one packet more.
LEMMA AnswerAdvances ==
    ASSUME NEW p \in 1..N, cumAck \in 0..N
    PROVE  /\ Answer(p).ackno \in cumAck..N
           /\ Answer(p) \in Known(Answer(p).ackno)
           /\ Answer(p).ackno # cumAck => p = cumAck + 1 /\ Answer(p).ackno = p
  BY DEF Answer, Known

\* Answers that are known to be true have their type.
LEMMA KnownIsTyped ==
    ASSUME NEW c \in 0..N, NEW s \in Seq(Known(c))
    PROVE  s \in Seq([nack : BOOLEAN, ackno : 0..N])
<1>1. Known(c) \subseteq [nack : BOOLEAN, ackno : 0..N]
  BY DEF Known
<1> QED
  BY <1>1, SeqMonotonic

\* Messages overtake others only while MaxReorder allows it.
LEMMA OvertakingBounded ==
    ASSUME NEW ch, NEW i \in Arrivals(ch), Overtakes(i), reorders \in 0..MaxReorder
    PROVE  reorders' \in 0..MaxReorder
  BY DEF Arrivals, Overtakes

-----------------------------------------------------------------------------
(* The invariant *)

LEMMA InvInit == Init => IInv
<1> SUFFICES ASSUME Init
             PROVE  IInv
  OBVIOUS
<1>1. data \in Seq(1..N) /\ answers \in Seq([nack : BOOLEAN, ackno : 0..N])
      /\ answers \in Seq(Known(cumAck))
  BY EmptySeq DEF Init
<1>2. {started, done, paused, spaced, linkPaused, tailLost} \subseteq BOOLEAN
  BY DEF Init
<1>3. TypeOK
  BY <1>1, <1>2 DEF Init, TypeOK
<1>4. AnswersKnown /\ FlightExact
  BY <1>1 DEF Init, AnswersKnown, FlightExact
<1> QED
  BY <1>3, <1>4 DEF IInv

\* An event of the pacing sends the next packet of the flow or none.
LEMMA DoNextEventStep ==
    ASSUME IInv, DoNextEvent
    PROVE  IInv'
<1>1. TypeOK /\ AnswersKnown /\ FlightExact
  BY DEF IInv
<1>2. UNCHANGED <<flowVars, started, lastAcked, done, paused, cwnd, cumAck, answers, envVars>>
  BY DEF DoNextEvent
<1>3. CASE UNCHANGED <<highest, flight, data>>
  <2>1. events' \in Nat
    <3>1. events > 0 /\ (events' = events - 1 \/ events' = events)
      BY Zenon DEF DoNextEvent
    <3> QED
      BY <1>1, <3>1 DEF TypeOK
  <2>2. spaced' \in BOOLEAN
    BY <1>1, Zenon DEF DoNextEvent, TypeOK
  <2> QED
    BY <1>1, <1>2, <1>3, <2>1, <2>2
    DEF IInv, TypeOK, AnswersKnown, FlightExact, flowVars, envVars
<1>4. CASE ~AllSent /\ spaced' = FALSE /\ events' = events /\ highest' = highest + 1
           /\ data' = Append(data, highest + 1)
           /\ flight' = (IF protocol = "hpcc" THEN flight + 1 ELSE flight)
  <2>1. highest \in 0..N /\ highest # N
    BY <1>1, <1>4, FlowHasNPackets DEF TypeOK, AllSent
  <2>2. highest' \in 1..N /\ data' \in Seq(1..N)
    BY <1>1, <1>4, <2>1, AppendProperties DEF TypeOK
  <2>3. FlightExact' /\ flight' \in 0..N
    <3>1. lastAcked \in 0..N /\ lastAcked' = lastAcked /\ protocol' = protocol
      BY <1>1, <1>2 DEF TypeOK, flowVars
    <3>2. protocol = "hpcc" => flight' = flight + 1 /\ flight = highest - lastAcked
      BY <1>1, <1>4 DEF FlightExact
    <3>3. protocol # "hpcc" => flight' = flight
      BY <1>4
    <3>4. flight \in 0..N /\ N \in Nat
      BY <1>1, FlowHasNPackets DEF TypeOK
    <3>5. protocol = "hpcc" => flight' = highest' - lastAcked'
      BY <1>4, <2>1, <3>1, <3>2, <3>4
    <3> QED
      BY <2>1, <2>2, <3>1, <3>3, <3>4, <3>5, <1>4, <1>1 DEF FlightExact
  <2>4. {started, done, paused, spaced, linkPaused, tailLost}' \subseteq BOOLEAN
    BY <1>1, <1>2, <1>4, Zenon DEF TypeOK, envVars
  <2>5. {highest, lastAcked, cumAck}' \subseteq 0..N
    BY <1>1, <1>2, <2>2 DEF TypeOK
  <2>6. TypeOK'
    BY <1>1, <1>2, <1>4, <2>2, <2>3, <2>4, <2>5 DEF TypeOK, flowVars, envVars
  <2> QED
    BY <1>1, <1>2, <2>3, <2>6 DEF IInv, AnswersKnown
<1> QED
  BY <1>3, <1>4 DEF DoNextEvent

\* A NACK takes the source back to what the receiver has, an ACK forward.
LEMMA ReceiveAnswerStep ==
    ASSUME IInv, ReceiveAnswer
    PROVE  IInv'
<1>1. TypeOK /\ AnswersKnown /\ FlightExact
  BY DEF IInv
<1>2. PICK i \in Arrivals(answers) :
          /\ answers' = RemoveAt(answers, i) /\ Overtakes(i)
          /\ IF done THEN UNCHANGED <<highest, lastAcked, done, events, cwnd, flight>>
             ELSE IF answers[i].nack THEN ProcessNack(answers[i].ackno)
                  ELSE ProcessAck(answers[i].ackno)
  BY DEF ReceiveAnswer
<1>3. UNCHANGED <<flowVars, started, paused, spaced, cumAck, data, linkPaused, losses,
                  pauses, tailLost>>
  BY DEF ReceiveAnswer
<1>4. i \in DOMAIN answers /\ answers \in Seq(Known(cumAck)) /\ cumAck \in 0..N
  BY <1>1 DEF Arrivals, AnswersKnown, TypeOK
<1>5. answers' \in Seq(Known(cumAck)) /\ answers[i] \in Known(cumAck)
  BY <1>2, <1>4, RemoveAtLeaves
<1>6. answers' \in Seq([nack : BOOLEAN, ackno : 0..N])
  BY <1>4, <1>5, KnownIsTyped
<1>7. reorders' \in 0..MaxReorder
  BY <1>1, <1>2, OvertakingBounded DEF TypeOK
<1> DEFINE a == answers[i].ackno
<1>8. a \in 0..cumAck /\ a \in 0..N
  BY <1>4, <1>5 DEF Known
<1> HIDE DEF a
<1>9. /\ {highest', lastAcked'} \subseteq 0..N /\ done' \in BOOLEAN /\ events' \in Nat
      /\ cwnd' \in Windows /\ flight' \in 0..N
      /\ lastAcked' <= cumAck /\ (done' => cumAck = N) /\ FlightExact'
  <2>1. CASE UNCHANGED <<highest, lastAcked, done, events, cwnd, flight>>
    BY <1>1, <1>3, <2>1 DEF TypeOK, AnswersKnown, FlightExact, flowVars
  <2>2. CASE ~done /\ ProcessNack(a)
    <3>1. highest' = a /\ lastAcked' = a /\ done' = done
      BY <2>2 DEF ProcessNack
    <3>2. events' \in Nat
      BY <1>1, <2>2 DEF ProcessNack, TypeOK
    <3>3. cwnd' \in Windows /\ flight' \in 0..N /\ FlightExact'
      BY <1>1, <1>3, <1>8, <2>2, <3>1, SMTT(60) DEF ProcessNack, TypeOK, FlightExact, flowVars
    <3> QED
      BY <1>1, <1>8, <3>1, <3>2, <3>3 DEF TypeOK, AnswersKnown
  <2>3. CASE ~done /\ ProcessAck(a)
    <3>1. lastAcked' \in {a, lastAcked} /\ highest' = highest /\ events' = events
      BY <2>3 DEF ProcessAck
    <3>2. flight' \in 0..N /\ FlightExact'
      BY <1>1, <1>3, <1>8, <2>3, SMTT(60)
         DEF ProcessAck, AckInFlight, FlightAfter, TypeOK, FlightExact, flowVars
    <3>3. done' => a = N
      BY <1>1, <1>8, <2>3, FlowHasNPackets DEF ProcessAck, AckCompletes, TypeOK
    <3>4. cwnd' \in Windows /\ done' \in BOOLEAN
      BY <1>1, <2>3 DEF ProcessAck, AckCompletes, TypeOK
    <3> QED
      BY <1>1, <1>4, <1>8, <3>1, <3>2, <3>3, <3>4, SMTT(60) DEF TypeOK, AnswersKnown
  <2> QED
    BY <1>2, <2>1, <2>2, <2>3 DEF a
<1> QED
  BY <1>1, <1>3, <1>5, <1>6, <1>7, <1>9 DEF IInv, TypeOK, AnswersKnown, flowVars

\* The sink accepts the packet it expects, and answers with what it has.
LEMMA ReceiveDataStep ==
    ASSUME IInv, ReceiveData
    PROVE  IInv'
<1>1. TypeOK /\ AnswersKnown /\ FlightExact
  BY DEF IInv
<1>2. PICK i \in Arrivals(data) :
          /\ data' = RemoveAt(data, i) /\ Overtakes(i)
          /\ answers' = Append(answers, Answer(data[i]))
          /\ cumAck' = Answer(data[i]).ackno
  BY DEF ReceiveData
<1>3. UNCHANGED <<flowVars, srcVars, linkPaused, losses, pauses, tailLost>>
  BY DEF ReceiveData
<1>4. data' \in Seq(1..N) /\ data[i] \in 1..N
  BY <1>1, <1>2, RemoveAtLeaves DEF Arrivals, TypeOK
<1>5. cumAck \in 0..N /\ cumAck' \in cumAck..N /\ Answer(data[i]) \in Known(cumAck')
  BY <1>1, <1>2, <1>4, AnswerAdvances DEF TypeOK
<1>6. answers \in Seq(Known(cumAck'))
  <2>1. Known(cumAck) \subseteq Known(cumAck')
    BY <1>5 DEF Known
  <2> QED
    BY <1>1, <2>1, SeqMonotonic DEF AnswersKnown
<1>7. answers' \in Seq(Known(cumAck'))
  BY <1>2, <1>5, <1>6, AppendProperties
<1>8. answers' \in Seq([nack : BOOLEAN, ackno : 0..N])
  <2>1. cumAck' \in 0..N
    BY <1>5
  <2> QED
    BY <1>7, <2>1, KnownIsTyped
<1>9. reorders' \in 0..MaxReorder
  BY <1>1, <1>2, OvertakingBounded DEF TypeOK
<1>10. AnswersKnown'
  BY <1>1, <1>3, <1>5, <1>7, SMTT(60) DEF AnswersKnown, TypeOK, srcVars
<1> QED
  BY <1>1, <1>3, <1>4, <1>5, <1>8, <1>9, <1>10
  DEF IInv, TypeOK, FlightExact, flowVars, srcVars

LEMMA DropDataStep ==
    ASSUME IInv, DropData
    PROVE  IInv'
<1>1. TypeOK /\ AnswersKnown /\ FlightExact
  BY DEF IInv
<1>2. losses' \in 0..MaxLoss /\ tailLost' \in BOOLEAN
  BY <1>1 DEF DropData, TypeOK
<1>3. data' \in Seq(1..N)
  BY <1>1, RemoveAtLeaves DEF DropData, TypeOK
<1> QED
  BY <1>1, <1>2, <1>3
  DEF DropData, IInv, TypeOK, AnswersKnown, FlightExact, flowVars, srcVars

LEMMA DropAnswerStep ==
    ASSUME IInv, DropAnswer
    PROVE  IInv'
<1>1. TypeOK /\ AnswersKnown /\ FlightExact
  BY DEF IInv
<1>2. losses' \in 0..MaxLoss /\ tailLost' = TRUE
  BY <1>1, SMTT(60) DEF DropAnswer, TypeOK
<1>3. answers' \in Seq(Known(cumAck))
  BY <1>1, RemoveAtLeaves DEF DropAnswer, AnswersKnown
<1>4. answers' \in Seq([nack : BOOLEAN, ackno : 0..N])
  BY <1>1, <1>3, KnownIsTyped DEF TypeOK
<1> QED
  BY <1>1, <1>2, <1>3, <1>4
  DEF DropAnswer, IInv, TypeOK, AnswersKnown, FlightExact, flowVars, srcVars

LEMMA InvariantPreserved == IInv /\ [Next]_vars => IInv'
<1> SUFFICES ASSUME IInv, [Next]_vars
             PROVE  IInv'
  OBVIOUS
<1> USE DEF IInv, TypeOK, AnswersKnown, FlightExact, flowVars, srcVars, envVars
<1>1. CASE StartFlow
  BY <1>1 DEF StartFlow
<1>2. CASE SpacingPasses
  BY <1>2 DEF SpacingPasses
<1>3. CASE Pause
  BY <1>3 DEF Pause, PauseHeard, Listening
<1>4. CASE Resume
  <2>1. events' \in Nat
    <3>1. events' = events + 1 \/ events' = events
      BY <1>4, Zenon DEF Resume, ResumeWakes
    <3> QED
      BY <3>1, SMTT(60)
  <2>2. paused' \in BOOLEAN
    BY <1>4, Zenon DEF Resume
  <2> QED
    BY <1>4, <2>1, <2>2 DEF Resume
<1>5. CASE UNCHANGED vars
  BY <1>5 DEF vars
<1> QED
  BY <1>1, <1>2, <1>3, <1>4, <1>5, DoNextEventStep, ReceiveAnswerStep, ReceiveDataStep,
     DropDataStep, DropAnswerStep DEF Next

THEOREM GoBackNInvariance == Spec => []IInv
  BY InvInit, InvariantPreserved, PTL DEF Spec

\* The state of source, sink and network keeps its type: no packet number passes
\* the end of the flow, wherever late answers take _highest_sent and _last_acked.
THEOREM GoBackNTypeCorrect == Spec => []TypeOK
<1>1. IInv => TypeOK
  BY DEF IInv
<1> QED
  BY <1>1, GoBackNInvariance, PTL

-----------------------------------------------------------------------------
(* Refinement *)

\* What the sink does with a packet is nothing, or acceptance of the next one.
LEMMA ArrivalAccepts ==
    ASSUME IInv, IInv', ReceiveData
    PROVE  (\E p \in 1..N : Transfer!Accept(p)) \/ UNCHANGED <<cumAck, done>>
<1>1. cumAck \in 0..N /\ cumAck' \in 0..N /\ done' = done
  BY DEF IInv, TypeOK, ReceiveData, srcVars
<1>2. PICK p \in 1..N : cumAck' = Answer(p).ackno
  <2>1. data \in Seq(1..N)
    BY DEF IInv, TypeOK
  <2>2. PICK i \in DOMAIN data : cumAck' = Answer(data[i]).ackno
    BY DEF ReceiveData, Arrivals
  <2>3. data[i] \in 1..N
    BY <2>1, RemoveAtLeaves
  <2> QED
    BY <2>2, <2>3
<1>3. CASE cumAck' # cumAck
  <2>1. p = cumAck + 1 /\ cumAck' = cumAck + 1
    BY <1>1, <1>2, <1>3, AnswerAdvances
  <2>2. p \notin 1..cumAck /\ 1..cumAck' = (1..cumAck) \cup {p}
    BY <1>1, <2>1
  <2>3. \A c \in 0..N : c + 1 \notin 1..c
    OBVIOUS
  <2>4. Transfer!Accept(p)
    BY <1>1, <2>2, <2>3 DEF Transfer!Accept, Transfer!IsFrontier
  <2> QED
    BY <2>4
<1> QED
  BY <1>1, <1>3

\* An acknowledgement that completes the flow finds all of it accepted.
LEMMA AnswerFinishes ==
    ASSUME IInv, IInv', ReceiveAnswer
    PROVE  Transfer!Finish \/ UNCHANGED <<cumAck, done>>
<1>1. cumAck' = cumAck
  BY DEF ReceiveAnswer
<1>2. done => done' = done
  BY Zenon DEF ReceiveAnswer
<1>3. done \in BOOLEAN /\ done' \in BOOLEAN /\ (done' => cumAck' = N)
  BY Zenon DEF IInv, TypeOK, AnswersKnown
<1>4. CASE done' = done
  BY <1>1, <1>4
<1>5. CASE ~done /\ done'
  BY <1>1, <1>3, <1>5, Zenon DEF Transfer!Finish
<1> QED
  BY <1>2, <1>3, <1>4, <1>5, Zenon

\* The flow implements ReliableTransfer: packets are accepted once and in order,
\* and completion is reported once, when everything has been accepted, although
\* the source goes back, forgets acknowledgements, and hears old ones again.
THEOREM GoBackNRefinement == Spec => ImplementsTransfer
<1>1. Init => Transfer!Init
  BY DEF Init, Transfer!Init
<1>2. IInv /\ IInv' /\ [Next]_vars => [Transfer!Next]_(Transfer!vars)
  <2> SUFFICES ASSUME IInv, IInv', [Next]_vars
               PROVE  [Transfer!Next]_(Transfer!vars)
    OBVIOUS
  <2> USE DEF Transfer!vars
  <2>1. CASE ReceiveData
    BY <2>1, ArrivalAccepts DEF Transfer!Next, Transfer!Packets
  <2>2. CASE ReceiveAnswer
    BY <2>2, AnswerFinishes DEF Transfer!Next
  <2>3. CASE StartFlow \/ DoNextEvent \/ SpacingPasses \/ Pause \/ Resume
    BY <2>3 DEF StartFlow, DoNextEvent, SpacingPasses, Pause, Resume
  <2>4. CASE DropData \/ DropAnswer
    BY <2>4 DEF DropData, DropAnswer, srcVars
  <2>5. CASE UNCHANGED vars
    BY <2>5 DEF vars, srcVars
  <2> QED
    BY <2>1, <2>2, <2>3, <2>4, <2>5 DEF Next
<1> QED
  BY <1>1, <1>2, GoBackNInvariance, PTL DEF Spec, ImplementsTransfer, Transfer!Spec

-----------------------------------------------------------------------------
(* The pacing *)

LEMMA InOrderInit == Init => InOrder
  BY DEF Init, InOrder

\* An event of the pacing sends the next packet or none.
LEMMA PacingOutcome ==
    ASSUME DoNextEvent
    PROVE  \/ highest' = highest /\ data' = data
           \/ highest' = highest + 1 /\ data' = Append(data, highest + 1)
<1>1. CASE paused \/ AllSent
  BY <1>1 DEF DoNextEvent
<1>2. CASE ~(paused \/ AllSent) /\ (NothingToSend \/ ~WindowOpen)
  BY <1>2 DEF DoNextEvent
<1>3. CASE ~(paused \/ AllSent) /\ ~(NothingToSend \/ ~WindowOpen)
  BY <1>3, Zenon DEF DoNextEvent
<1> QED
  BY <1>1, <1>2, <1>3, Zenon

\* The packet that is sent next continues those on their way.
LEMMA SendingInOrder ==
    ASSUME IInv, InOrder, DoNextEvent
    PROVE  InOrder'
<1>1. data \in Seq(1..N) /\ {highest, cumAck} \subseteq 0..N
  BY DEF IInv, TypeOK
<1>2. UNCHANGED <<cumAck, answers, losses, reorders>>
  BY DEF DoNextEvent, envVars
<1>3. CASE highest' = highest /\ data' = data
  BY <1>2, <1>3 DEF InOrder, Disturbed
<1>4. CASE highest' = highest + 1 /\ data' = Append(data, highest + 1)
  <2> SUFFICES ASSUME ~Disturbed
               PROVE  /\ Len(data') = highest' - cumAck
                      /\ \A i \in DOMAIN data' : data'[i] = cumAck + i
    BY <1>2 DEF InOrder, Disturbed
  <2>1. Len(data) = highest - cumAck /\ \A i \in 1..Len(data) : data[i] = cumAck + i
    <3>1. DOMAIN data = 1..Len(data)
      BY <1>1, LenProperties
    <3> QED
      BY <3>1, Zenon DEF InOrder
  <2>2. data \in Seq(Nat) /\ highest + 1 \in Nat
    BY <1>1, SeqMonotonic
  <2>3. /\ Len(data') = Len(data) + 1 /\ DOMAIN data' = 1..Len(data) + 1
        /\ \A i \in 1..Len(data) : data'[i] = data[i]
        /\ data'[Len(data) + 1] = highest + 1
    BY <1>4, <2>2, AppendProperties
  <2>4. Len(data') = highest' - cumAck
    BY <1>1, <1>4, <2>1, <2>3, LenProperties, SMTT(60)
  <2>5. \A i \in DOMAIN data' : data'[i] = cumAck + i
    <3> SUFFICES ASSUME NEW i \in DOMAIN data'
                 PROVE  data'[i] = cumAck + i
      OBVIOUS
    <3>1. CASE i = Len(data) + 1
      BY <1>1, <2>1, <2>3, <3>1
    <3>2. CASE i \in 1..Len(data)
      BY <2>1, <2>3, <3>2
    <3>3. i \in 1..Len(data) + 1 /\ Len(data) \in Nat
      BY <2>3, <1>1, LenProperties
    <3> QED
      BY <3>1, <3>2, <3>3
  <2> QED
    BY <2>4, <2>5
<1> QED
  BY <1>3, <1>4, PacingOutcome

\* Undisturbed, the sink meets the packet it expects.
LEMMA ArrivingInOrder ==
    ASSUME IInv, InOrder, ReceiveData
    PROVE  InOrder'
<1> SUFFICES ASSUME ~Disturbed'
             PROVE  /\ Len(data') = highest' - cumAck'
                    /\ \A i \in DOMAIN data' : data'[i] = cumAck' + i
                    /\ \A i \in DOMAIN answers' : ~answers'[i].nack
  BY DEF InOrder
<1>1. /\ data \in Seq(1..N) /\ {highest, cumAck} \subseteq 0..N
      /\ answers \in Seq([nack : BOOLEAN, ackno : 0..N])
      /\ losses \in Nat /\ reorders \in Nat
  BY DEF IInv, TypeOK
<1>2. highest' = highest /\ losses' = losses
  BY DEF ReceiveData, srcVars
<1>3. PICK i \in Arrivals(data) :
          /\ data' = RemoveAt(data, i) /\ Overtakes(i)
          /\ answers' = Append(answers, Answer(data[i]))
          /\ cumAck' = Answer(data[i]).ackno
  BY DEF ReceiveData
<1>4. i = 1 /\ i \in DOMAIN data /\ ~Disturbed
  BY <1>1, <1>2, <1>3 DEF Arrivals, Overtakes, Disturbed
<1>5. /\ data # << >> /\ Len(data) = highest - cumAck
      /\ \A j \in 1..Len(data) : data[j] = cumAck + j
      /\ \A j \in DOMAIN answers : ~answers[j].nack
  <2>1. DOMAIN data = 1..Len(data) /\ Len(data) \in Nat
    BY <1>1, LenProperties
  <2>2. data # << >>
    BY <1>4, <2>1, EmptySeq
  <2> QED
    BY <1>4, <2>1, <2>2, Zenon DEF InOrder
<1>6. data[1] = cumAck + 1
  BY <1>1, <1>4, <1>5, LenProperties
<1>7. ~Answer(data[1]).nack /\ cumAck' = cumAck + 1
  <2>1. cumAck' = Answer(cumAck + 1).ackno
    BY <1>3, <1>4, <1>6
  <2>2. ~Answer(cumAck + 1).nack /\ Answer(cumAck + 1).ackno = cumAck + 1
    <3>1. ~(cumAck + 1 > cumAck + 1)
      BY <1>1
    <3> QED
      BY <3>1, Zenon DEF Answer
  <2> QED
    BY <1>6, <2>1, <2>2
<1>8. data' = Tail(data)
  BY <1>1, <1>3, <1>4, RemoveAtLeaves
<1>9. /\ data' \in Seq(1..N) /\ Len(data') = Len(data) - 1
      /\ \A j \in 1..Len(data) - 1 : data'[j] = data[j + 1]
  BY <1>1, <1>5, <1>8, HeadTailProperties, SMTT(60)
<1>10. \A j \in DOMAIN answers' : ~answers'[j].nack
  <2>1. Answer(data[1]) \in [nack : BOOLEAN, ackno : 0..N]
    <3>1. data[1] \in 1..N
      BY <1>1, <1>4, RemoveAtLeaves
    <3>2. Answer(data[1]).ackno \in 0..N
      BY <1>1, <3>1, AnswerAdvances
    <3>3. Answer(data[1]) \in Known(Answer(data[1]).ackno)
      BY <1>1, <3>1, AnswerAdvances
    <3> QED
      BY <3>2, <3>3 DEF Known
  <2>2. /\ DOMAIN answers' = 1..Len(answers) + 1 /\ DOMAIN answers = 1..Len(answers)
        /\ \A j \in 1..Len(answers) : answers'[j] = answers[j]
        /\ answers'[Len(answers) + 1] = Answer(data[1])
    BY <1>1, <1>3, <1>4, <2>1, AppendProperties, LenProperties
  <2>3. Len(answers) \in Nat
    BY <1>1, LenProperties
  <2> QED
    BY <1>5, <1>7, <2>2, <2>3
<1>11. DOMAIN data' = 1..Len(data') /\ Len(data) \in Nat
  BY <1>1, <1>9, LenProperties
<1>12. Len(data') = highest' - cumAck'
  <2>1. highest \in Int /\ cumAck \in Int
    BY <1>1
  <2> QED
    BY <1>2, <1>5, <1>7, <1>9, <2>1
<1>13. \A j \in DOMAIN data' : data'[j] = cumAck' + j
  <2> SUFFICES ASSUME NEW j \in DOMAIN data'
               PROVE  data'[j] = cumAck' + j
    OBVIOUS
  <2>1. j \in 1..Len(data) - 1 /\ j + 1 \in 1..Len(data) /\ cumAck \in Int
    <3>1. j \in 1..Len(data') /\ Len(data') = Len(data) - 1 /\ Len(data) \in Nat
      BY <1>9, <1>11, Zenon
    <3>2. cumAck \in Int
      BY <1>1
    <3> QED
      BY <3>1, <3>2
  <2>2. data'[j] = data[j + 1] /\ data[j + 1] = cumAck + (j + 1)
    BY <1>5, <1>9, <2>1, Zenon
  <2> QED
    BY <1>7, <2>1, <2>2
<1> QED
  BY <1>10, <1>12, <1>13, Zenon

\* Undisturbed, no NACK is answered, so that _highest_sent stays.
LEMMA AnsweringInOrder ==
    ASSUME IInv, InOrder, ReceiveAnswer
    PROVE  /\ InOrder'
           /\ ~Disturbed' => highest' = highest /\ events' = events
<1>1. answers \in Seq([nack : BOOLEAN, ackno : 0..N]) /\ losses \in Nat /\ reorders \in Nat
  BY DEF IInv, TypeOK
<1>2. PICK i \in Arrivals(answers) :
          /\ answers' = RemoveAt(answers, i) /\ Overtakes(i)
          /\ IF done THEN UNCHANGED <<highest, lastAcked, done, events, cwnd, flight>>
             ELSE IF answers[i].nack THEN ProcessNack(answers[i].ackno)
                  ELSE ProcessAck(answers[i].ackno)
  BY DEF ReceiveAnswer
<1>3. UNCHANGED <<cumAck, data, losses>>
  BY DEF ReceiveAnswer
<1> SUFFICES ASSUME ~Disturbed'
             PROVE  /\ highest' = highest /\ events' = events
                    /\ Len(data') = highest' - cumAck'
                    /\ \A j \in DOMAIN data' : data'[j] = cumAck' + j
                    /\ \A j \in DOMAIN answers' : ~answers'[j].nack
  BY DEF InOrder
<1>4. i = 1 /\ i \in DOMAIN answers /\ ~Disturbed
  BY <1>1, <1>2, <1>3 DEF Arrivals, Overtakes, Disturbed
<1>5. ~answers[i].nack
  BY <1>4 DEF InOrder
<1>6. highest' = highest /\ events' = events
  BY <1>2, <1>5, Zenon DEF ProcessAck
<1>7. answers # << >> /\ answers' = Tail(answers)
  <2>1. answers # << >>
    BY <1>4
  <2>2. answers' = RemoveAt(answers, i)
    BY <1>2
  <2>3. RemoveAt(answers, i) = Tail(answers)
    BY <1>1, <1>4, RemoveAtLeaves
  <2> QED
    BY <2>1, <2>2, <2>3, Zenon
<1>8. /\ answers' \in Seq([nack : BOOLEAN, ackno : 0..N])
      /\ Len(answers') = Len(answers) - 1
      /\ \A j \in 1..Len(answers) - 1 : answers'[j] = answers[j + 1]
  BY <1>1, <1>7, HeadTailProperties
<1>9. \A j \in DOMAIN answers' : j + 1 \in DOMAIN answers /\ answers'[j] = answers[j + 1]
  <2>1. /\ DOMAIN answers = 1..Len(answers) /\ DOMAIN answers' = 1..Len(answers')
        /\ Len(answers) \in Nat
    BY <1>1, <1>8, LenProperties
  <2> QED
    BY <1>8, <2>1, SMTT(60)
<1> QED
  BY <1>3, <1>4, <1>6, <1>9 DEF InOrder

LEMMA InOrderPreserved == IInv /\ InOrder /\ [Next]_vars => InOrder'
<1> SUFFICES ASSUME IInv, InOrder, [Next]_vars
             PROVE  InOrder'
  OBVIOUS
<1>1. CASE UNCHANGED <<highest, cumAck, data, answers, losses, reorders>>
  BY <1>1 DEF InOrder, Disturbed
<1>2. CASE StartFlow \/ SpacingPasses \/ Pause \/ Resume
  BY <1>1, <1>2 DEF StartFlow, SpacingPasses, Pause, Resume, envVars
<1>3. CASE DropData \/ DropAnswer
  <2>1. losses \in Nat /\ losses' = losses + 1
    BY <1>3 DEF DropData, DropAnswer, IInv, TypeOK
  <2>2. losses' > 0
    BY <2>1
  <2> QED
    BY <2>2, Zenon DEF InOrder, Disturbed
<1>4. CASE UNCHANGED vars
  BY <1>1, <1>4 DEF vars, srcVars, envVars
<1> QED
  BY <1>2, <1>3, <1>4, SendingInOrder, ArrivingInOrder, AnsweringInOrder DEF Next

\* An event of the pacing ends only when nothing is left to pace.
LEMMA PacingKeepsEvent ==
    ASSUME IInv, NeverIdle, DoNextEvent
    PROVE  NeverIdle'
<1>1. UNCHANGED <<flowSize, protocol, started, paused, losses, reorders>>
  BY DEF DoNextEvent, flowVars, envVars
<1>2. CASE paused \/ AllSent
  <2>1. highest' = highest
    BY <1>2, Zenon DEF DoNextEvent
  <2> QED
    BY <1>1, <1>2, <2>1, Zenon DEF NeverIdle, AllSent
<1>3. CASE ~(paused \/ AllSent)
  <2>1. events' = events /\ events > 0
    BY <1>3, Zenon DEF DoNextEvent
  <2> QED
    BY <2>1, Zenon DEF NeverIdle
<1> QED
  BY <1>2, <1>3

\* Whatever answer takes _highest_sent back restarts a pacing that has ended.
LEMMA AnswerKeepsEvent ==
    ASSUME IInv, IInv', InOrder, NeverIdle, ReceiveAnswer
    PROVE  NeverIdle'
<1>1. UNCHANGED <<flowSize, protocol, started, paused, losses>>
  BY DEF ReceiveAnswer, flowVars
<1>2. events \in Nat
  BY DEF IInv, TypeOK
<1>3. highest' = highest /\ events' = events => NeverIdle'
  <2>1. Disturbed => Disturbed'
    <3>1. reorders \in Nat /\ (reorders' = reorders \/ reorders' = reorders + 1)
      BY DEF ReceiveAnswer, Overtakes, IInv, TypeOK
    <3> QED
      BY <1>1, <3>1 DEF Disturbed
  <2> QED
    BY <1>1, <2>1, Zenon DEF NeverIdle, Promised, AllSent
<1>4. CASE protocol = "hpcc"
  <2>1. ~Disturbed' => highest' = highest /\ events' = events
    BY AnsweringInOrder
  <2> QED
    BY <1>1, <1>3, <1>4, <2>1, Zenon DEF NeverIdle, Promised
<1>5. ASSUME protocol # "hpcc", NEW a, ProcessNack(a)
      PROVE  NeverIdle'
  <2> SUFFICES ASSUME started', ~paused', ~AllSent'
               PROVE  events' > 0
    BY DEF NeverIdle
  <2>1. CASE AllSent
    <3>1. highest' = a /\ ~(a * Mss >= flowSize)
      BY <1>1, <1>5, Zenon DEF ProcessNack, AllSent
    <3>2. flowSize \in Int /\ highest' \in Int
      BY DEF IInv, TypeOK
    <3>3. a * Mss < flowSize
      BY <3>1, <3>2
    <3>4. Restarts(a)
      BY <1>5, <2>1, <3>3, Zenon DEF Restarts
    <3> QED
      BY <1>2, <1>5, <3>4 DEF ProcessNack
  <2>2. CASE ~AllSent
    <3>1. events > 0
      BY <1>1, <1>5, <2>2, Zenon DEF NeverIdle, Promised
    <3>2. events' = events + 1 \/ events' = events
      BY <1>5, Zenon DEF ProcessNack
    <3> QED
      BY <1>2, <3>1, <3>2
  <2> QED
    BY <2>1, <2>2
<1>6. \/ \E a : ProcessNack(a)
      \/ highest' = highest /\ events' = events
  BY Zenon DEF ReceiveAnswer, ProcessAck
<1> QED
  BY <1>3, <1>4, <1>5, <1>6

LEMMA NeverIdlePreserved == IInv /\ InOrder /\ NeverIdle /\ [Next]_vars => NeverIdle'
<1> SUFFICES ASSUME IInv, InOrder, NeverIdle, [Next]_vars
             PROVE  NeverIdle'
  OBVIOUS
<1> IInv'
  BY InvariantPreserved
<1>1. events \in Nat /\ losses \in Nat /\ reorders \in Nat
  BY DEF IInv, TypeOK
<1>2. ASSUME UNCHANGED <<flowSize, protocol, started, paused, highest, events>>,
             Disturbed => Disturbed'
      PROVE  NeverIdle'
  BY <1>2, Zenon DEF NeverIdle, Promised, AllSent
<1>3. CASE StartFlow
  BY <1>1, <1>3 DEF StartFlow, NeverIdle
<1>4. CASE SpacingPasses
  BY <1>2, <1>4 DEF SpacingPasses, flowVars, envVars, Disturbed
<1>5. CASE Pause
  BY <1>5 DEF Pause, PauseHeard, Listening, NeverIdle, Promised, AllSent, Disturbed, flowVars
<1>6. CASE Resume
  <2>1. CASE Listening
    BY <1>1, <1>6, <2>1 DEF Resume, ResumeWakes, NeverIdle
  <2>2. CASE ~Listening
    BY <1>2, <1>6, <2>2 DEF Resume, Disturbed, flowVars
  <2> QED
    BY <2>1, <2>2
<1>7. CASE ReceiveData \/ DropData \/ DropAnswer
  <2>1. Disturbed => Disturbed'
    BY <1>1, <1>7 DEF ReceiveData, DropData, DropAnswer, Overtakes, Disturbed
  <2> QED
    BY <1>2, <1>7, <2>1 DEF ReceiveData, DropData, DropAnswer, flowVars, srcVars
<1>8. CASE UNCHANGED vars
  BY <1>2, <1>8 DEF vars, flowVars, srcVars, envVars, Disturbed
<1> QED
  BY <1>3, <1>4, <1>5, <1>6, <1>7, <1>8, PacingKeepsEvent, AnswerKeepsEvent DEF Next

\* A source that may send and has something to send has an event pending that
\* will make it: of RoCE always, of HPCC as long as nothing is lost or overtaken.
THEOREM GoBackNNeverIdle == Spec => []NeverIdle
<1>1. Init => NeverIdle
  BY DEF Init, NeverIdle
<1> QED
  BY <1>1, InOrderInit, InOrderPreserved, NeverIdlePreserved, GoBackNInvariance, PTL DEF Spec
-----------------------------------------------------------------------------
(* Nothing pending, nothing missing *)

\* The next event of the pacing sends a packet.
PacingSends == events > 0 /\ ~paused /\ ~AllSent /\ ~NothingToSend /\ WindowOpen

\* A flow that has started and is not done always has something ahead that moves
\* it on: a packet or an answer on its way, a PAUSE to be lifted, or an event of the
\* pacing that finds a packet to send and room for it.
NeverStuck ==
    Promised /\ started /\ ~done /\ ~tailLost =>
        data # <<>> \/ answers # <<>> \/ linkPaused \/ PacingSends

\* Once the last packet has been sent, it is on its way, or an answer is that
\* completes the flow or takes the source back.
LastIsAnswered(ds, as) ==
    \/ \E i \in DOMAIN ds : ds[i] = N
    \/ \E i \in DOMAIN as : as[i].nack \/ as[i].ackno = N
TailAnswered == highest = N /\ ~done /\ ~tailLost => LastIsAnswered(data, answers)

\* Undisturbed, the answers on their way end with what the sink has; when there are
\* none the source knows it.
AllAnswered ==
    ~Disturbed /\ ~done =>
        /\ answers = <<>> => lastAcked = cumAck
        /\ answers # <<>> => answers[Len(answers)].ackno = cumAck

\* A source stays paused only while its switch pauses it, unless it is done.
PauseLasts == paused => started /\ (done \/ linkPaused)

\* No NACK acknowledges the last packet, and an ACK that does completes the flow.
LastCompletes ==
    /\ \A i \in DOMAIN answers : answers[i].nack => answers[i].ackno # N
    /\ lastAcked = N => done

WaitInv == TailAnswered /\ AllAnswered /\ PauseLasts /\ LastCompletes

\* Removing a message keeps all others, and brings none.
LEMMA RemoveAtKeeps ==
    ASSUME NEW S, NEW s \in Seq(S), NEW i \in DOMAIN s
    PROVE  /\ \A j \in DOMAIN s : j # i => \E k \in DOMAIN RemoveAt(s, i) : RemoveAt(s, i)[k] = s[j]
           /\ \A k \in DOMAIN RemoveAt(s, i) : \E j \in DOMAIN s : RemoveAt(s, i)[k] = s[j]
<1> DEFINE n == Len(s)
           s1 == SubSeq(s, 1, i - 1)
           s2 == SubSeq(s, i + 1, n)
           r  == s1 \o s2
<1>1. i \in 1..n /\ n \in Nat /\ DOMAIN s = 1..n
  BY LenProperties
<1>2. /\ s1 \in Seq(S) /\ Len(s1) = i - 1 /\ \A k \in 1..(i - 1) : s1[k] = s[k]
      /\ s2 \in Seq(S) /\ Len(s2) = n - i /\ \A k \in 1..(n - i) : s2[k] = s[i + k]
  <2>1. s1 \in Seq(S) /\ Len(s1) = i - 1 /\ \A k \in 1..(i - 1) : s1[k] = s[k]
    BY <1>1, SMTT(30)
  <2>2. s2 \in Seq(S) /\ Len(s2) = n - i /\ \A k \in 1..(n - i) : s2[k] = s[i + k]
    BY <1>1, SMTT(30)
  <2> QED
    BY <2>1, <2>2
<1>3. RemoveAt(s, i) = r
  BY DEF RemoveAt
<1> HIDE DEF n, s1, s2
<1>4. /\ r \in Seq(S) /\ Len(r) = (i - 1) + (n - i) /\ DOMAIN r = 1..((i - 1) + (n - i))
      /\ \A k \in 1..((i - 1) + (n - i)) : r[k] = IF k <= i - 1 THEN s1[k] ELSE s2[k - (i - 1)]
  <2>1. Len(s1) = i - 1 /\ Len(s2) = n - i
    BY <1>2
  <2>2. /\ r \in Seq(S) /\ Len(r) = Len(s1) + Len(s2)
        /\ \A k \in 1..(Len(s1) + Len(s2)) : r[k] = IF k <= Len(s1) THEN s1[k] ELSE s2[k - Len(s1)]
    BY <1>2, ConcatProperties, ZenonT(60)
  <2> HIDE DEF r
  <2>3. DOMAIN r = 1..Len(r)
    BY <2>2, LenProperties
  <2> QED
    BY <2>1, <2>2, <2>3
<1> HIDE DEF r
<1>5. DOMAIN r = 1..(n - 1)
  BY <1>1, <1>4
<1>6. \A k \in 1..(i - 1) : k \in DOMAIN r /\ r[k] = s[k]
  BY <1>1, <1>2, <1>4, SMTT(60)
<1>7. \A k \in i..(n - 1) : k \in DOMAIN r /\ r[k] = s[k + 1]
  <2> SUFFICES ASSUME NEW k \in i..(n - 1)
               PROVE  k \in DOMAIN r /\ r[k] = s[k + 1]
    OBVIOUS
  <2>1. k \in DOMAIN r /\ r[k] = s2[k - (i - 1)]
    BY <1>1, <1>4
  <2>2. k - (i - 1) \in 1..(n - i) /\ i + (k - (i - 1)) = k + 1
    BY <1>1
  <2> QED
    BY <1>2, <2>1, <2>2
<1>8. \A j \in 1..n : j # i => \E k \in DOMAIN r : r[k] = s[j]
  <2> SUFFICES ASSUME NEW j \in 1..n, j # i
               PROVE  \E k \in DOMAIN r : r[k] = s[j]
    OBVIOUS
  <2>1. CASE j < i
    <3>1. j \in 1..(i - 1)
      BY <1>1, <2>1
    <3> QED
      BY <1>6, <3>1
  <2>2. CASE j > i
    <3>1. j - 1 \in i..(n - 1) /\ (j - 1) + 1 = j
      BY <1>1, <2>2
    <3>2. r[j - 1] = s[(j - 1) + 1] /\ j - 1 \in DOMAIN r
      BY <1>7, <3>1
    <3> QED
      BY <3>1, <3>2
  <2> QED
    BY <1>1, <2>1, <2>2
<1>9. \A k \in DOMAIN r : \E j \in 1..n : r[k] = s[j]
  <2> SUFFICES ASSUME NEW k \in 1..(n - 1)
               PROVE  \E j \in 1..n : r[k] = s[j]
    BY <1>5
  <2>1. k \in 1..(i - 1) \/ k \in i..(n - 1)
    BY <1>1
  <2>2. k \in 1..n /\ k + 1 \in 1..n
    BY <1>1
  <2> QED
    BY <1>6, <1>7, <2>1, <2>2
<1> QED
  BY <1>1, <1>3, <1>8, <1>9

\* The last packet is on its way once it is sent.
LEMMA DoNextEventWaits ==
    ASSUME IInv, WaitInv, DoNextEvent
    PROVE  WaitInv'
<1>1. UNCHANGED <<started, lastAcked, done, paused, cumAck, answers, envVars>>
  BY DEF DoNextEvent
<1>2. AllAnswered' /\ PauseLasts' /\ LastCompletes'
  BY <1>1 DEF WaitInv, AllAnswered, PauseLasts, LastCompletes, Disturbed, envVars
<1>3. TailAnswered'
  <2>1. CASE highest' = highest /\ data' = data
    BY <1>1, <2>1 DEF WaitInv, TailAnswered, LastIsAnswered, envVars
  <2>2. CASE highest' = highest + 1 /\ data' = Append(data, highest + 1)
    <3>1. data \in Seq(1..N) /\ highest \in 0..N
      BY DEF IInv, TypeOK
    <3>2. data \in Seq(Nat) /\ highest + 1 \in Nat
      BY <3>1, SeqMonotonic
    <3>3. /\ data' \in Seq(Nat) /\ Len(data') = Len(data) + 1
          /\ data'[Len(data) + 1] = highest + 1
      BY <2>2, <3>2, AppendProperties
    <3>4. DOMAIN data' = 1..Len(data') /\ Len(data) \in Nat
      BY <3>2, <3>3, LenProperties
    <3>5. Len(data) + 1 \in DOMAIN data'
      BY <3>3, <3>4
    <3> QED
      BY <2>2, <3>3, <3>5 DEF TailAnswered, LastIsAnswered
  <2> QED
    BY <2>1, <2>2, PacingOutcome
<1> QED
  BY <1>2, <1>3 DEF WaitInv

\* The answer that leaves completes the flow, takes the source back, or was none
\* that the last packet waits for.
LEMMA ReceiveAnswerWaits ==
    ASSUME IInv, WaitInv, ReceiveAnswer
    PROVE  WaitInv'
<1>1. /\ answers \in Seq(Known(cumAck)) /\ {cumAck, lastAcked, highest} \subseteq 0..N
      /\ lastAcked <= cumAck /\ flowSize \in FlowSizes
      /\ losses \in Nat /\ reorders \in Nat /\ done \in BOOLEAN
  BY DEF IInv, TypeOK, AnswersKnown
<1>2. PICK i \in Arrivals(answers) :
          /\ answers' = RemoveAt(answers, i) /\ Overtakes(i)
          /\ IF done THEN UNCHANGED <<highest, lastAcked, done, events, cwnd, flight>>
             ELSE IF answers[i].nack THEN ProcessNack(answers[i].ackno)
                  ELSE ProcessAck(answers[i].ackno)
  BY DEF ReceiveAnswer
<1>3. UNCHANGED <<started, paused, cumAck, data, linkPaused, losses, tailLost>>
  BY DEF ReceiveAnswer
<1>4. i \in DOMAIN answers
  BY <1>2 DEF Arrivals
<1> DEFINE a == answers[i]
<1>5. a \in Known(cumAck)
  BY <1>1, <1>4, RemoveAtLeaves
<1>6. /\ \A j \in DOMAIN answers : j # i => \E k \in DOMAIN answers' : answers'[k] = answers[j]
      /\ \A k \in DOMAIN answers' : \E j \in DOMAIN answers : answers'[k] = answers[j]
  BY <1>1, <1>2, <1>4, RemoveAtKeeps, SMTT(60)
<1>7. a.nack => a.ackno # N
  BY <1>4 DEF WaitInv, LastCompletes
<1> HIDE DEF a
<1>8. /\ done => UNCHANGED <<highest, lastAcked, done>>
      /\ ~done /\ a.nack => highest' = a.ackno /\ lastAcked' = a.ackno /\ done' = FALSE
      /\ ~done /\ ~a.nack => /\ highest' = highest
                             /\ lastAcked' = IF a.ackno > lastAcked THEN a.ackno ELSE lastAcked
                             /\ done' <=> a.ackno = N
  <2>1. CASE done
    BY <1>2, <2>1
  <2>2. CASE ~done /\ a.nack
    BY <1>1, <1>2, <2>2, Zenon DEF ProcessNack, a
  <2>3. CASE ~done /\ ~a.nack
    <3>1. ProcessAck(a.ackno)
      BY <1>2, <2>3 DEF a
    <3>2. a.ackno \in 0..N
      BY <1>1, <1>5 DEF Known
    <3>3. AckCompletes(a.ackno) <=> a.ackno = N
      BY <1>1, <3>2, FlowHasNPackets DEF AckCompletes
    <3> QED
      BY <2>3, <3>1, <3>3 DEF ProcessAck, AckCompletes
  <2> QED
    BY <2>1, <2>2, <2>3
<1>9. a.ackno \in 0..cumAck /\ a.nack \in BOOLEAN
  BY <1>5 DEF Known
<1>10. TailAnswered'
  <2> SUFFICES ASSUME highest' = N, ~done', ~tailLost'
               PROVE  LastIsAnswered(data', answers')
    BY DEF TailAnswered, LastIsAnswered
  <2>1. ~done /\ ~a.nack /\ highest = N /\ a.ackno # N
    <3>1. ~done
      BY <1>8, Zenon
    <3>2. ~a.nack
      BY <1>7, <1>8, <3>1, Zenon
    <3> QED
      BY <1>8, <3>1, <3>2, Zenon
  <2>2. LastIsAnswered(data, answers)
    BY <1>3, <2>1 DEF WaitInv, TailAnswered
  <2>3. CASE \E j \in DOMAIN data : data[j] = N
    BY <1>3, <2>3 DEF LastIsAnswered
  <2>4. CASE \E j \in DOMAIN answers : answers[j].nack \/ answers[j].ackno = N
    <3>1. PICK j \in DOMAIN answers : answers[j].nack \/ answers[j].ackno = N
      BY <2>4
    <3>2. j # i
      BY <2>1, <3>1 DEF a
    <3> QED
      BY <1>6, <3>1, <3>2 DEF LastIsAnswered
  <2> QED
    BY <2>2, <2>3, <2>4 DEF LastIsAnswered
<1>11. AllAnswered'
  <2> SUFFICES ASSUME ~Disturbed', ~done'
               PROVE  /\ answers' = <<>> => lastAcked' = cumAck
                      /\ answers' # <<>> => answers'[Len(answers')].ackno = cumAck
    BY <1>3 DEF AllAnswered
  <2>1. i = 1 /\ ~Disturbed /\ ~done
    BY <1>1, <1>2, <1>3, <1>8 DEF Arrivals, Overtakes, Disturbed
  <2>2. answers # <<>> /\ answers' = Tail(answers)
    <3>1. answers # <<>>
      BY <1>4
    <3> QED
      BY <1>1, <1>2, <1>4, <2>1, <3>1, RemoveAtLeaves
  <2>3. answers[Len(answers)].ackno = cumAck
    BY <2>1, <2>2 DEF WaitInv, AllAnswered
  <2>4. /\ answers' \in Seq(Known(cumAck)) /\ Len(answers') = Len(answers) - 1
        /\ \A j \in 1..Len(answers) - 1 : answers'[j] = answers[j + 1]
        /\ Len(answers) \in Nat
    BY <1>1, <2>2, HeadTailProperties, LenProperties
  <2>5. ASSUME answers' = <<>>
        PROVE  lastAcked' = cumAck
    <3>1. Len(answers) = 1
      BY <2>4, <2>5
    <3>2. a.ackno = cumAck
      BY <2>1, <2>3, <3>1 DEF a
    <3> QED
      BY <1>1, <1>8, <2>1, <3>2
  <2>6. ASSUME answers' # <<>>
        PROVE  answers'[Len(answers')].ackno = cumAck
    <3> DEFINE n == Len(answers)
    <3>1. Len(answers') # 0 /\ Len(answers') \in Nat
      BY <2>4, <2>6, EmptySeq, LenProperties
    <3>2. n \in Nat /\ Len(answers') = n - 1
      BY <2>4
    <3>3. \A j \in 1..n - 1 : answers'[j] = answers[j + 1]
      BY <2>4
    <3>4. answers[n].ackno = cumAck
      BY <2>3
    <3> HIDE DEF n
    <3>5. n - 1 \in 1..n - 1 /\ (n - 1) + 1 = n
      BY <3>1, <3>2
    <3> QED
      BY <3>2, <3>3, <3>4, <3>5
  <2> QED
    BY <2>5, <2>6
<1>12. PauseLasts'
  BY <1>3, <1>8 DEF WaitInv, PauseLasts
<1>13. LastCompletes'
  <2>1. \A k \in DOMAIN answers' : answers'[k].nack => answers'[k].ackno # N
    BY <1>6 DEF WaitInv, LastCompletes
  <2>2. lastAcked = N => done
    BY DEF WaitInv, LastCompletes
  <2>3. ASSUME lastAcked' = N
        PROVE  done'
    <3>1. CASE done
      BY <1>8, <3>1, Zenon
    <3>2. CASE ~done /\ a.nack
      BY <1>7, <1>8, <2>3, <3>2, Zenon
    <3>3. CASE ~done /\ ~a.nack
      BY <1>8, <2>2, <2>3, <3>3, Zenon
    <3> QED
      BY <3>1, <3>2, <3>3, Zenon
  <2> QED
    BY <2>1, <2>3 DEF LastCompletes
<1> QED
  BY <1>10, <1>11, <1>12, <1>13 DEF WaitInv

\* The sink answers the last packet with a NACK, or with all the flow.
LEMMA AnswerToLast ==
    ASSUME NEW p \in 1..N, cumAck \in 0..N
    PROVE  /\ Answer(p).nack => Answer(p).ackno # N
           /\ p = N => Answer(p).nack \/ Answer(p).ackno = N
<1>1. CASE p > cumAck + 1
  <2>1. Answer(p).ackno = cumAck
    BY <1>1 DEF Answer
  <2>2. Answer(p).nack
    BY <1>1, Zenon DEF Answer
  <2> QED
    BY <1>1, <2>1, <2>2
<1>2. CASE ~(p > cumAck + 1)
  <2>1. ~Answer(p).nack
    BY <1>2, Zenon DEF Answer
  <2>2. p = N => Answer(p).ackno = N
    BY <1>2 DEF Answer
  <2> QED
    BY <2>1, <2>2
<1> QED
  BY <1>1, <1>2

\* A packet that arrives leaves an answer behind; the last packet one that completes
\* the flow or takes the source back.
LEMMA ReceiveDataWaits ==
    ASSUME IInv, WaitInv, ReceiveData
    PROVE  WaitInv'
<1>1. /\ data \in Seq(1..N) /\ cumAck \in 0..N
      /\ answers \in Seq([nack : BOOLEAN, ackno : 0..N])
      /\ losses \in Nat /\ reorders \in Nat
  BY DEF IInv, TypeOK
<1>2. PICK i \in Arrivals(data) :
          /\ data' = RemoveAt(data, i) /\ Overtakes(i)
          /\ answers' = Append(answers, Answer(data[i]))
          /\ cumAck' = Answer(data[i]).ackno
  BY DEF ReceiveData
<1>3. UNCHANGED <<srcVars, linkPaused, losses, tailLost>>
  BY DEF ReceiveData
<1>4. i \in DOMAIN data /\ data[i] \in 1..N
  BY <1>1, <1>2, RemoveAtLeaves DEF Arrivals
<1>5. \A j \in DOMAIN data : j # i => \E k \in DOMAIN data' : data'[k] = data[j]
  BY <1>1, <1>2, <1>4, RemoveAtKeeps
<1> DEFINE a == Answer(data[i])
<1>6. a.ackno \in 0..N /\ a \in [nack : BOOLEAN, ackno : 0..N]
  <2>1. a.ackno \in cumAck..N /\ a \in Known(a.ackno)
    BY <1>1, <1>4, AnswerAdvances
  <2> HIDE DEF a
  <2> QED
    BY <1>1, <2>1 DEF Known
<1>7. /\ a.nack => a.ackno # N
      /\ data[i] = N => a.nack \/ a.ackno = N
  BY <1>1, <1>4, AnswerToLast
<1>8. cumAck' = a.ackno /\ answers' = Append(answers, a)
  BY <1>2
<1> HIDE DEF a
<1>9. /\ answers' \in Seq([nack : BOOLEAN, ackno : 0..N]) /\ answers' # <<>>
      /\ Len(answers') = Len(answers) + 1
      /\ \A j \in 1..Len(answers) : answers'[j] = answers[j]
      /\ answers'[Len(answers) + 1] = a
  <2> DEFINE A == [nack : BOOLEAN, ackno : 0..N]
  <2>1. answers \in Seq(A) /\ a \in A
    BY <1>1, <1>6
  <2> HIDE DEF A
  <2>2. /\ Append(answers, a) \in Seq(A) /\ Append(answers, a) # <<>>
        /\ Len(Append(answers, a)) = Len(answers) + 1
        /\ \A j \in 1..Len(answers) : Append(answers, a)[j] = answers[j]
        /\ Append(answers, a)[Len(answers) + 1] = a
    BY <2>1, AppendProperties
  <2> QED
    BY <1>8, <2>2 DEF A
<1>10. /\ DOMAIN answers' = 1..Len(answers') /\ DOMAIN answers = 1..Len(answers)
       /\ Len(answers) \in Nat
  BY <1>1, <1>9, LenProperties
<1>11. /\ \A j \in DOMAIN answers : j \in DOMAIN answers' /\ answers'[j] = answers[j]
       /\ Len(answers') \in DOMAIN answers' /\ answers'[Len(answers')] = a
       /\ \A k \in DOMAIN answers' : k \in DOMAIN answers \/ k = Len(answers')
  BY <1>9, <1>10
<1>12. TailAnswered'
  <2> SUFFICES ASSUME LastIsAnswered(data, answers)
               PROVE  LastIsAnswered(data', answers')
    BY <1>3 DEF WaitInv, TailAnswered, LastIsAnswered, srcVars
  <2>1. CASE \E j \in DOMAIN answers : answers[j].nack \/ answers[j].ackno = N
    BY <1>11, <2>1 DEF LastIsAnswered
  <2>2. CASE \E j \in DOMAIN data : data[j] = N
    <3>1. PICK j \in DOMAIN data : data[j] = N
      BY <2>2
    <3>2. CASE j = i
      BY <1>7, <1>11, <3>1, <3>2 DEF LastIsAnswered
    <3>3. CASE j # i
      BY <1>5, <3>1, <3>3 DEF LastIsAnswered
    <3> QED
      BY <3>2, <3>3
  <2> QED
    BY <2>1, <2>2 DEF LastIsAnswered
<1>13. AllAnswered' /\ PauseLasts'
  BY <1>3, <1>8, <1>9, <1>11 DEF WaitInv, AllAnswered, PauseLasts, srcVars
<1>14. LastCompletes'
  BY <1>3, <1>7, <1>11 DEF WaitInv, LastCompletes, srcVars
<1> QED
  BY <1>12, <1>13, <1>14 DEF WaitInv

\* A loss ends what is promised of the order, and that of the last packet or of an
\* answer what is promised of the end.
LEMMA DropWaits ==
    ASSUME IInv, WaitInv, DropData \/ DropAnswer
    PROVE  WaitInv'
<1>1. /\ UNCHANGED <<highest, lastAcked, done, started, paused, cumAck, linkPaused>>
      /\ losses' = losses + 1 /\ losses \in Nat /\ tailLost \in BOOLEAN
      /\ data \in Seq(1..N) /\ answers \in Seq(Known(cumAck))
  BY DEF DropData, DropAnswer, srcVars, IInv, TypeOK, AnswersKnown
<1>2. AllAnswered' /\ PauseLasts'
  BY <1>1 DEF WaitInv, AllAnswered, PauseLasts, Disturbed
<1>3. CASE DropAnswer
  <2>1. PICK i \in DOMAIN answers : answers' = RemoveAt(answers, i)
    BY <1>3 DEF DropAnswer
  <2>2. \A k \in DOMAIN answers' : \E j \in DOMAIN answers : answers'[k] = answers[j]
    BY <1>1, <2>1, RemoveAtKeeps
  <2>3. LastCompletes'
    BY <1>1, <2>2 DEF WaitInv, LastCompletes
  <2>4. TailAnswered'
    BY <1>3 DEF DropAnswer, TailAnswered
  <2> QED
    BY <1>2, <2>3, <2>4 DEF WaitInv
<1>4. CASE DropData
  <2>1. /\ answers' = answers
        /\ \E i \in DOMAIN data : /\ data' = RemoveAt(data, i)
                                  /\ tailLost' = (tailLost \/ data[i] = N)
    BY <1>4 DEF DropData
  <2>2. PICK i \in DOMAIN data : /\ data' = RemoveAt(data, i)
                                 /\ tailLost' = (tailLost \/ data[i] = N)
    BY <2>1
  <2>3. \A j \in DOMAIN data : j # i => \E k \in DOMAIN data' : data'[k] = data[j]
    BY <1>1, <2>2, RemoveAtKeeps
  <2>4. TailAnswered'
    <3>1. ~tailLost' => ~tailLost /\ data[i] # N
      BY <2>2
    <3> QED
      BY <1>1, <2>1, <2>3, <3>1 DEF WaitInv, TailAnswered, LastIsAnswered
  <2>5. LastCompletes'
    BY <1>1, <2>1 DEF WaitInv, LastCompletes
  <2> QED
    BY <1>2, <2>4, <2>5 DEF WaitInv
<1> QED
  BY <1>3, <1>4

LEMMA WaitInvPreserved == IInv /\ WaitInv /\ [Next]_vars => WaitInv'
<1> SUFFICES ASSUME IInv, WaitInv, [Next]_vars
             PROVE  WaitInv'
  OBVIOUS
<1>1. ASSUME UNCHANGED <<highest, lastAcked, done, cumAck, data, answers, losses, reorders,
                         tailLost>>,
             PauseLasts'
      PROVE  WaitInv'
  BY <1>1 DEF WaitInv, TailAnswered, LastIsAnswered, AllAnswered, LastCompletes, Disturbed
<1>2. CASE StartFlow
  BY <1>1, <1>2 DEF StartFlow, WaitInv, PauseLasts, envVars
<1>3. CASE SpacingPasses
  BY <1>1, <1>3 DEF SpacingPasses, WaitInv, PauseLasts, envVars
<1>4. CASE Pause
  BY <1>1, <1>4 DEF Pause, PauseHeard, Listening, WaitInv, PauseLasts
<1>5. CASE Resume
  <2>1. PauseLasts'
    BY <1>5 DEF Resume, Listening, WaitInv, PauseLasts
  <2> QED
    BY <1>1, <1>5, <2>1 DEF Resume
<1>6. CASE UNCHANGED vars
  BY <1>1, <1>6 DEF vars, srcVars, envVars, WaitInv, PauseLasts
<1> QED
  BY <1>2, <1>3, <1>4, <1>5, <1>6, DoNextEventWaits, ReceiveAnswerWaits, ReceiveDataWaits,
     DropWaits DEF Next

\* With nothing on its way and no pause the source has sent all that it was
\* allowed, knows all that the sink has, and its window is open.
LEMMA InvNeverStuck == IInv /\ InOrder /\ NeverIdle /\ WaitInv => NeverStuck
<1> SUFFICES ASSUME IInv, InOrder, NeverIdle, WaitInv,
                    Promised, started, ~done, ~tailLost,
                    data = <<>>, answers = <<>>, ~linkPaused
             PROVE  PacingSends
  BY Zenon DEF NeverStuck
<1>1. /\ {highest, lastAcked, cumAck} \subseteq 0..N /\ flowSize \in FlowSizes
      /\ cwnd \in Windows /\ events \in Nat
  BY DEF IInv, TypeOK
<1>2. ~paused
  BY DEF WaitInv, PauseLasts
<1>3. highest # N
  BY DEF WaitInv, TailAnswered, LastIsAnswered
<1>4. ~AllSent
  BY <1>1, <1>3, FlowHasNPackets DEF AllSent
<1>5. events > 0
  BY <1>2, <1>4 DEF NeverIdle
<1>6. ~NothingToSend
  <2>1. ~(lastAcked * Mss >= flowSize)
    BY <1>1, FlowHasNPackets DEF WaitInv, LastCompletes
  <2>2. ~(highest * Mss > flowSize)
    <3>1. flowSize \in Int /\ highest * Mss \in Int
      BY <1>1
    <3> QED
      BY <1>4, <3>1 DEF AllSent
  <2> QED
    BY <2>1, <2>2 DEF NothingToSend
<1>7. WindowOpen
  <2> SUFFICES ASSUME protocol = "hpcc"
               PROVE  cwnd >= flight + 1
    BY DEF WindowOpen
  <2>1. ~Disturbed
    BY DEF Promised
  <2>2. Len(data) = highest - cumAck /\ lastAcked = cumAck
    BY <2>1 DEF InOrder, WaitInv, AllAnswered
  <2>3. flight = 0
    BY <1>1, <2>2 DEF IInv, FlightExact
  <2> QED
    BY <1>1, <2>3
<1> QED
  BY <1>2, <1>4, <1>5, <1>6, <1>7 DEF PacingSends

\* A flow that has started and is not done never waits for nothing: RoCE whatever
\* is lost or overtaken, unless the last packet or an answer is lost, HPCC as long
\* as nothing is.
THEOREM GoBackNNeverStuck == Spec => []NeverStuck
<1>1. Init => WaitInv
  BY DEF Init, WaitInv, TailAnswered, AllAnswered, PauseLasts, LastCompletes
<1>2. Init => NeverIdle
  BY DEF Init, NeverIdle
<1> QED
  BY <1>1, <1>2, InOrderInit, InOrderPreserved, NeverIdlePreserved, WaitInvPreserved,
     InvNeverStuck, GoBackNInvariance, PTL DEF Spec

-----------------------------------------------------------------------------
(* The pacing ends *)

\* Nothing is paced before the flow starts.
StartsFirst == ~started /\ ~Disturbed => events = 0 /\ highest = 0

\* Undisturbed, a flow that is done has nothing more to pace: an event finds it
\* sent and is its last, and nothing schedules another.
EndsPacing ==
    done /\ ~Disturbed =>
        /\ done' /\ UNCHANGED highest
        /\ events' <= events
        /\ DoNextEvent => events' = events - 1

\* Overtaking and loss are remembered.
LEMMA DisturbedLasts == IInv /\ [Next]_vars /\ Disturbed => Disturbed'
<1> SUFFICES ASSUME IInv, [Next]_vars, Disturbed
             PROVE  Disturbed'
  OBVIOUS
<1>1. losses \in Nat /\ reorders \in Nat
  BY DEF IInv, TypeOK
<1>2. losses' \in {losses, losses + 1} /\ reorders' \in {reorders, reorders + 1}
  BY DEF Next, StartFlow, DoNextEvent, SpacingPasses, Pause, Resume, ReceiveAnswer, ReceiveData,
         DropData, DropAnswer, Overtakes, envVars, vars
<1> QED
  BY <1>1, <1>2 DEF Disturbed

LEMMA StartedLasts == [Next]_vars /\ started => started'
BY DEF Next, StartFlow, DoNextEvent, SpacingPasses, Pause, Resume, ReceiveAnswer, ReceiveData,
       DropData, DropAnswer, srcVars, vars

LEMMA StartsFirstPreserved == IInv /\ InOrder /\ StartsFirst /\ [Next]_vars => StartsFirst'
<1> SUFFICES ASSUME IInv, InOrder, StartsFirst, [Next]_vars, ~started, ~started', events = 0,
                    ~Disturbed'
             PROVE  UNCHANGED <<events, highest>>
  BY StartedLasts, DisturbedLasts DEF StartsFirst
<1>1. events = 0
  OBVIOUS
<1>2. CASE ReceiveAnswer
  BY <1>2, AnsweringInOrder
<1>3. ~StartFlow /\ ~DoNextEvent
  BY <1>1 DEF StartFlow, DoNextEvent
<1>4. CASE SpacingPasses \/ Pause \/ ReceiveData \/ DropData \/ DropAnswer
  BY <1>4 DEF SpacingPasses, Pause, ReceiveData, DropData, DropAnswer, srcVars
<1>5. CASE Resume
  BY <1>1, <1>5 DEF Resume, Listening
<1>6. CASE UNCHANGED vars
  BY <1>6 DEF vars, srcVars
<1> QED
  BY <1>2, <1>3, <1>4, <1>5, <1>6 DEF Next

\* Undisturbed, what is done has been sent to its end.
LEMMA DoneIsSent ==
    ASSUME IInv, InOrder, StartsFirst, done, ~Disturbed
    PROVE  started /\ AllSent
<1>1. highest \in 0..N /\ cumAck = N /\ N \in Nat \ {0} /\ flowSize \in FlowSizes
  BY GoBackNAssumption DEF IInv, TypeOK, AnswersKnown
<1>2. Len(data) = highest - cumAck /\ Len(data) \in Nat
  BY LenProperties DEF InOrder, IInv, TypeOK
<1>3. highest = N
  BY <1>1, <1>2
<1>4. AllSent
  BY <1>1, <1>3, FlowHasNPackets DEF AllSent
<1> QED
  BY <1>1, <1>3, <1>4 DEF StartsFirst

LEMMA StepEndsPacing == IInv /\ InOrder /\ StartsFirst /\ [Next]_vars => EndsPacing
<1> SUFFICES ASSUME IInv, InOrder, StartsFirst, [Next]_vars, done, ~Disturbed
             PROVE  /\ done' /\ UNCHANGED highest
                    /\ events' <= events
                    /\ DoNextEvent => events' = events - 1
  BY Zenon DEF EndsPacing
<1>1. started /\ AllSent /\ events \in Nat
  BY DoneIsSent DEF IInv, TypeOK
<1>2. ASSUME DoNextEvent
      PROVE  events' = events - 1 /\ UNCHANGED <<done, highest>>
  BY <1>1, <1>2 DEF DoNextEvent
<1>3. ASSUME ~DoNextEvent
      PROVE  UNCHANGED <<done, highest, events>>
  <2>1. CASE ReceiveAnswer
    BY <2>1, Zenon DEF ReceiveAnswer
  <2>2. ~StartFlow
    BY <1>1 DEF StartFlow
  <2>3. CASE SpacingPasses \/ Pause \/ ReceiveData \/ DropData \/ DropAnswer
    BY <2>3 DEF SpacingPasses, Pause, ReceiveData, DropData, DropAnswer, srcVars
  <2>4. CASE Resume
    BY <2>4 DEF Resume, Listening
  <2>5. CASE UNCHANGED vars
    BY <2>5 DEF vars, srcVars
  <2> QED
    BY <1>3, <2>1, <2>2, <2>3, <2>4, <2>5 DEF Next
<1>4. CASE DoNextEvent
  BY <1>1, <1>2, <1>4
<1>5. CASE ~DoNextEvent
  BY <1>1, <1>3, <1>5
<1> QED
  BY <1>4, <1>5

\* Once an undisturbed flow is done, no RESUME and no late answer schedules the
\* source again, and each event left is one fewer (the safety core of PacingStops).
THEOREM GoBackNPacingEnds == Spec => [][EndsPacing]_vars
<1>1. Init => StartsFirst
  BY DEF Init, StartsFirst
<1> QED
  BY <1>1, InOrderInit, InOrderPreserved, StartsFirstPreserved, StepEndsPacing,
     GoBackNInvariance, PTL DEF Spec
==================================================================================
