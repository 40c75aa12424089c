----------------------------- MODULE CompositeProofs -----------------------------
(* Proofs about CompositeQueue, for all sizes, weights, thresholds, drain times   *)
(* and numbers of packets. The fairness of the round is proved for every setting  *)
(* of the flags; the rest as long as no run uses _use_mixed, with which           *)
(* completeService may find nothing to send.                                      *)
EXTENDS CompositeQueue, FiniteSetTheorems, SequenceTheorems, TLAPS

USE SizeAssumption

PlainFlags == \A c \in Configs : ~c.mixed

-----------------------------------------------------------------------------
(* The inductive invariant *)

\* Of queues lo and hi, one that holds a packet is served (sv), if there is one.
Serving(sv, lo, hi) ==
    /\ sv = "none" => lo = <<>> /\ hi = <<>>
    /\ sv = "low" => lo # <<>>
    /\ sv = "high" => hi # <<>>

\* The identities of the packets of queue s, each of which occurs once.
Ids(s) == {s[i].id : i \in DOMAIN s}
Distinct(s) == \A i, j \in DOMAIN s : s[i].id = s[j].id => i = j
Counted(s) == Distinct(s) /\ Cardinality(Ids(s)) = Len(s)

\* Queues lo and hi, and the packets g that are gone, account for n arrivals.
Account(lo, hi, g, n) ==
    /\ Counted(lo) /\ Counted(hi)
    /\ Ids(lo) \cap Ids(hi) = {} /\ (Ids(lo) \cup Ids(hi)) \cap g = {}
    /\ (Ids(lo) \cup Ids(hi)) \cup g = 1..n

\* The wake-ups ev are the drain of the phantom queue, if it has begun (~first)
\* and is due in next, and the completion of the service sv.
Drain(first, next, t) == IF ~first /\ t = next THEN 1 ELSE 0
Pending(ev, sv, first, next) ==
    IF sv = "none" THEN \A t \in Times : ev[t] = Drain(first, next, t)
    ELSE \E due \in Times : \A t \in Times :
            ev[t] = Drain(first, next, t) + (IF t = due THEN 1 ELSE 0)

\* The drain begins with the first completion, so not before time has passed.
DrainBegins ==
    /\ ~firstTime => config.phantom /\ phantomNext \in 0..DrainTime
    /\ firstTime => phantomNext \in {-1, 0} /\ (phantomNext = 0 => events[0] = 0)

\* The round: where a streak of services of one class stands in it.
FairInv ==
    /\ crt \in 0..(RatioHigh + RatioLow - 1)
    /\ streak \in [of : {"none", "low", "high"}, n : Nat]
    /\ streak.of = "high" => crt < RatioHigh /\ streak.n <= crt + 1
    /\ streak.of = "low"  => crt >= RatioHigh /\ streak.n <= crt - RatioHigh + 1

IInv ==
    /\ TypeOK
    /\ FairInv
    /\ ~config.mixed
    /\ Serving(serv, low, high)
    /\ BytesExact
    /\ Account(low, high, gone, arrived)
    /\ Pending(events, serv, firstTime, phantomNext)
    /\ DrainBegins

-----------------------------------------------------------------------------
(* The round is fair                                                             *)

LEMMA RoundNext ==
    ASSUME crt \in 0..(RatioHigh + RatioLow - 1)
    PROVE  Round = IF crt + 1 = RatioHigh + RatioLow THEN 0 ELSE crt + 1
<1> DEFINE n == RatioHigh + RatioLow
<1>1. n \in Nat \ {0} /\ crt \in 0..(n - 1)
  OBVIOUS
<1> HIDE DEF n
<1>2. (crt + 1) % n = IF crt + 1 = n THEN 0 ELSE crt + 1
  BY <1>1
<1> QED
  BY <1>2 DEF Round, n

LEMMA BeginServiceFair ==
    ASSUME FairInv, NEW ev, NEW lo, NEW hi, BeginService(ev, lo, hi)
    PROVE  FairInv'
<1> DEFINE both  == lo # <<>> /\ hi # <<>>
           class == IF both THEN IF Round < RatioHigh THEN "high" ELSE "low"
                    ELSE IF hi # <<>> THEN "high" ELSE "low"
<1>1. /\ crt' = IF both THEN Round ELSE crt
      /\ streak' = IF ~both THEN [of |-> "none", n |-> 0]
                   ELSE [of |-> class,
                         n |-> IF streak.of = class THEN streak.n + 1 ELSE 1]
  BY DEF BeginService
<1>2. /\ crt \in 0..(RatioHigh + RatioLow - 1)
      /\ streak.of \in {"none", "low", "high"} /\ streak.n \in Nat
  BY DEF FairInv
<1>3. CASE ~both
  <2>1. crt' = crt /\ streak' = [of |-> "none", n |-> 0]
    BY <1>1, <1>3
  <2> QED
    BY <1>2, <2>1 DEF FairInv
<1>4. CASE both
  <2>1. Round = IF crt + 1 = RatioHigh + RatioLow THEN 0 ELSE crt + 1
    BY <1>2, RoundNext
  <2>2. CASE Round < RatioHigh
    <3>1. /\ crt' = Round
          /\ streak' = [of |-> "high", n |-> IF streak.of = "high" THEN streak.n + 1 ELSE 1]
      BY <1>1, <1>4, <2>2
    <3>2. streak.of = "high" => crt + 1 # RatioHigh + RatioLow /\ streak.n <= crt + 1
      BY <1>2 DEF FairInv
    <3> QED
      BY <1>2, <2>1, <2>2, <3>1, <3>2 DEF FairInv
  <2>3. CASE ~(Round < RatioHigh)
    <3>1. /\ crt' = Round
          /\ streak' = [of |-> "low", n |-> IF streak.of = "low" THEN streak.n + 1 ELSE 1]
      BY <1>1, <1>4, <2>3
    <3>2. crt + 1 # RatioHigh + RatioLow /\ Round = crt + 1
      BY <1>2, <2>1, <2>3
    <3>3. streak.of = "low" => crt >= RatioHigh /\ streak.n <= crt - RatioHigh + 1
      BY DEF FairInv
    <3> QED
      BY <1>2, <2>3, <3>1, <3>2, <3>3 DEF FairInv
  <2> QED
    BY <2>2, <2>3
<1> QED
  BY <1>3, <1>4

LEMMA EnqueuedFair ==
    ASSUME FairInv, NEW lo, NEW hi, Enqueued(lo, hi)
    PROVE  FairInv'
  BY BeginServiceFair DEF Enqueued, FairInv

LEMMA ServeOnFair ==
    ASSUME FairInv, NEW ev, NEW lo, NEW hi, NEW x, ServeOn(ev, lo, hi, x)
    PROVE  FairInv'
<1>1. \/ \E ev1 : BeginService(ev1, lo, hi)
      \/ streak' = [of |-> "none", n |-> 0] /\ crt' = crt
  BY Zenon DEF ServeOn
<1> QED
  BY <1>1, BeginServiceFair DEF FairInv

LEMMA FairPreserved == FairInv /\ [Next]_vars => FairInv'
<1> SUFFICES ASSUME FairInv, [Next]_vars
             PROVE  FairInv'
  OBVIOUS
<1>1. CASE UNCHANGED <<crt, streak>>
  BY <1>1 DEF FairInv
<1>2. CASE ReceivePacket
  <2>1. PICK p : Accept(p) \/ Refuse(p) \/ Trim(p) \/ AcceptHeader(p)
    BY <1>2, Zenon DEF ReceivePacket
  <2>2. ASSUME NEW q, EnqueueHeader(q)
        PROVE  FairInv'
    BY <1>1, <2>2, EnqueuedFair DEF EnqueueHeader, queues
  <2>3. CASE Accept(p)
    BY <2>3, EnqueuedFair DEF Accept
  <2>4. CASE Refuse(p)
    BY <1>1, <2>4 DEF Refuse, queues
  <2> QED
    BY <2>1, <2>2, <2>3, <2>4 DEF Trim, AcceptHeader
<1>3. CASE CompleteService
  BY <1>3, ServeOnFair, Zenon DEF CompleteService, CompleteLow, CompleteHigh
<1>4. CASE DecreasePhantom
  BY <1>1, <1>4 DEF DecreasePhantom, queues
<1>5. CASE Tick
  BY <1>1, <1>5 DEF Tick
<1>6. CASE UNCHANGED vars
  BY <1>1, <1>6 DEF vars
<1> QED
  BY <1>2, <1>3, <1>4, <1>5, <1>6 DEF Next

\* While both queues wait, headers are not served more than RatioHigh times in a
\* row nor data packets more than RatioLow times: neither class starves the
\* other, with any flags, whatever arrives.
THEOREM RoundIsFair == Spec => []FairShare
<1>1. Init => FairInv
  BY DEF Init, FairInv
<1>2. FairInv => FairShare
  BY DEF FairInv, FairShare
<1> QED
  BY <1>1, <1>2, FairPreserved, PTL DEF Spec

-----------------------------------------------------------------------------
(* The packets of a queue                                                        *)

LEMMA IdsNaturals ==
    ASSUME NEW s \in Seq(Packet)
    PROVE  Ids(s) \subseteq 1..MaxPackets /\ IsFiniteSet(Ids(s))
<1>1. \A i \in DOMAIN s : s[i] \in Packet
  BY ElementOfSeq, LenProperties
<1>2. Ids(s) \subseteq 1..MaxPackets
  BY <1>1 DEF Ids, Packet
<1>3. IsFiniteSet(1..MaxPackets)
  BY FS_Interval
<1> QED
  BY <1>2, <1>3, FS_Subset

LEMMA EmptyCounted == Ids(<<>>) = {} /\ Counted(<<>>)
<1>1. DOMAIN <<>> = {} /\ Len(<<>>) = 0
  OBVIOUS
<1>2. Ids(<<>>) = {} /\ Distinct(<<>>)
  BY <1>1 DEF Ids, Distinct
<1>3. Cardinality({}) = 0
  BY FS_EmptySet
<1> QED
  BY <1>1, <1>2, <1>3 DEF Counted

\* A packet not in queue s joins it.
LEMMA AppendCounted ==
    ASSUME NEW s \in Seq(Packet), NEW p \in Packet, Counted(s), p.id \notin Ids(s)
    PROVE  /\ Append(s, p) \in Seq(Packet) /\ Len(Append(s, p)) = Len(s) + 1
           /\ Append(s, p) # <<>>
           /\ Ids(Append(s, p)) = Ids(s) \cup {p.id} /\ Counted(Append(s, p))
<1> DEFINE t == Append(s, p)
           n == Len(s)
<1>1. /\ t \in Seq(Packet) /\ Len(t) = n + 1 /\ n \in Nat
      /\ DOMAIN s = 1..n /\ DOMAIN t = 1..(n + 1)
      /\ \A i \in 1..n : t[i] = s[i]
      /\ t[n + 1] = p
  BY LenProperties
<1>2. t # <<>>
  BY <1>1, EmptySeq
<1> HIDE DEF t, n
<1>3. Ids(t) = Ids(s) \cup {p.id}
  <2>1. ASSUME NEW i \in DOMAIN t
        PROVE  t[i].id \in Ids(s) \cup {p.id}
    <3>1. i \in 1..n \/ i = n + 1
      BY <1>1
    <3> QED
      BY <1>1, <3>1 DEF Ids
  <2>2. ASSUME NEW i \in DOMAIN s
        PROVE  s[i].id \in Ids(t)
    <3>1. i \in DOMAIN t /\ t[i] = s[i]
      BY <1>1
    <3> QED
      BY <3>1 DEF Ids
  <2>3. p.id \in Ids(t)
    <3>1. n + 1 \in DOMAIN t
      BY <1>1
    <3> QED
      BY <1>1, <3>1 DEF Ids
  <2> QED
    BY <2>1, <2>2, <2>3 DEF Ids
<1>4. Distinct(t)
  <2> SUFFICES ASSUME NEW i \in DOMAIN t, NEW j \in DOMAIN t, t[i].id = t[j].id
               PROVE  i = j
    BY DEF Distinct
  <2>1. (i \in 1..n \/ i = n + 1) /\ (j \in 1..n \/ j = n + 1)
    BY <1>1
  <2>2. \A k \in 1..n : t[k].id \in Ids(s) /\ t[k] = s[k]
    BY <1>1 DEF Ids
  <2>3. CASE i \in 1..n /\ j \in 1..n
    BY <1>1, <2>2, <2>3 DEF Counted, Distinct
  <2> QED
    BY <1>1, <2>1, <2>2, <2>3
<1>5. Cardinality(Ids(t)) = Len(t)
  <2>1. Cardinality(Ids(s) \cup {p.id}) = Cardinality(Ids(s)) + 1
    BY IdsNaturals, FS_AddElement
  <2> QED
    BY <1>1, <1>3, <2>1 DEF Counted, n
<1> QED
  BY <1>1, <1>2, <1>3, <1>4, <1>5 DEF Counted, t, n

\* The first packet of queue s leaves it.
LEMMA TailCounted ==
    ASSUME NEW s \in Seq(Packet), s # <<>>, Counted(s)
    PROVE  /\ Head(s) \in Packet /\ Tail(s) \in Seq(Packet)
           /\ Len(Tail(s)) = Len(s) - 1 /\ Len(s) \in Nat \ {0}
           /\ Head(s).id \in Ids(s)
           /\ Ids(Tail(s)) = Ids(s) \ {Head(s).id} /\ Counted(Tail(s))
<1> DEFINE t == Tail(s)
           n == Len(s)
           h == Head(s)
<1>1. /\ h \in Packet /\ t \in Seq(Packet) /\ Len(t) = n - 1 /\ n \in Nat \ {0}
      /\ DOMAIN s = 1..n /\ DOMAIN t = 1..(n - 1)
      /\ \A i \in 1..(n - 1) : t[i] = s[i + 1]
      /\ h = s[1]
  BY HeadTailProperties, LenProperties, EmptySeq
<1> HIDE DEF t, n, h
<1>2. 1 \in DOMAIN s /\ h.id \in Ids(s)
  BY <1>1 DEF Ids
<1>3. Distinct(t)
  <2> SUFFICES ASSUME NEW i \in DOMAIN t, NEW j \in DOMAIN t, t[i].id = t[j].id
               PROVE  i = j
    BY DEF Distinct
  <2>1. i + 1 \in DOMAIN s /\ j + 1 \in DOMAIN s /\ t[i] = s[i + 1] /\ t[j] = s[j + 1]
        /\ i \in Nat /\ j \in Nat
    BY <1>1
  <2>2. i + 1 = j + 1
    BY <2>1 DEF Counted, Distinct
  <2> QED
    BY <2>1, <2>2
<1>4. Ids(t) = Ids(s) \ {h.id}
  <2>1. ASSUME NEW i \in DOMAIN t
        PROVE  t[i].id \in Ids(s) \ {h.id}
    <3>1. i + 1 \in DOMAIN s /\ t[i] = s[i + 1] /\ i + 1 # 1
      BY <1>1
    <3>2. s[i + 1].id # s[1].id
      BY <1>2, <3>1 DEF Counted, Distinct
    <3> QED
      BY <1>1, <3>1, <3>2 DEF Ids
  <2>2. ASSUME NEW i \in DOMAIN s, i # 1
        PROVE  s[i].id \in Ids(t)
    <3>1. i - 1 \in DOMAIN t /\ t[i - 1] = s[i]
      BY <1>1, <2>2
    <3> QED
      BY <3>1 DEF Ids
  <2>3. Ids(s) \ {h.id} \subseteq Ids(t)
    <3> SUFFICES ASSUME NEW i \in DOMAIN s, s[i].id # h.id
                 PROVE  s[i].id \in Ids(t)
      BY DEF Ids
    <3>1. i # 1
      BY <1>1
    <3> QED
      BY <2>2, <3>1
  <2>4. Ids(t) \subseteq Ids(s) \ {h.id}
    BY <2>1 DEF Ids
  <2> QED
    BY <2>3, <2>4
<1>5. Cardinality(Ids(t)) = Len(t)
  <2>1. Cardinality(Ids(s) \ {h.id}) = Cardinality(Ids(s)) - 1
    BY <1>2, IdsNaturals, FS_RemoveElement
  <2> QED
    BY <1>1, <1>4, <2>1 DEF Counted, n
<1> QED
  BY <1>1, <1>2, <1>3, <1>4, <1>5 DEF Counted, t, n, h

\* Time passes: the packets of the low queue age.
Older(p) == [p EXCEPT !.age = IF @ < Budget THEN @ + 1 ELSE @]
Aged(s)  == [i \in DOMAIN s |-> Older(s[i])]

LEMMA AgedCounted ==
    ASSUME NEW s \in Seq(Packet), Counted(s)
    PROVE  /\ Aged(s) \in Seq(Packet) /\ Len(Aged(s)) = Len(s)
           /\ Ids(Aged(s)) = Ids(s) /\ Counted(Aged(s))
           /\ Aged(s) = <<>> <=> s = <<>>
<1> DEFINE t == Aged(s)
           n == Len(s)
<1>1. n \in Nat /\ DOMAIN s = 1..n /\ \A i \in 1..n : s[i] \in Packet
  BY LenProperties, ElementOfSeq
<1>2. ASSUME NEW p \in Packet
      PROVE  Older(p) \in Packet /\ Older(p).id = p.id
  <2>1. (IF p.age < Budget THEN p.age + 1 ELSE p.age) \in 0..Budget
    BY DEF Packet
  <2> QED
    BY <2>1 DEF Packet, Older
<1>3. t \in [1..n -> Packet] /\ \A i \in 1..n : t[i].id = s[i].id
  BY <1>1, <1>2 DEF Aged
<1> HIDE DEF t
<1>4. t \in Seq(Packet) /\ Len(t) = n /\ DOMAIN t = 1..n
  <2>1. t \in Seq(Packet)
    BY <1>1, <1>3, SeqDef
  <2>2. DOMAIN t = 1..n /\ DOMAIN t = 1..Len(t) /\ Len(t) \in Nat
    BY <1>3, <2>1, LenProperties
  <2> QED
    BY <1>1, <2>1, <2>2
<1>5. Ids(t) = Ids(s) /\ Distinct(t)
  <2> HIDE DEF n
  <2>1. Ids(t) = Ids(s)
    BY <1>1, <1>3, <1>4 DEF Ids
  <2>2. \A i, j \in 1..n : s[i].id = s[j].id => i = j
    BY <1>1 DEF Counted, Distinct
  <2>3. Distinct(t)
    BY <1>3, <1>4, <2>2 DEF Distinct
  <2> QED
    BY <2>1, <2>3
<1>6. t = <<>> <=> s = <<>>
  <2>1. /\ t # <<>> => Len(t) \in Nat \ {0}
        /\ s # <<>> => Len(s) \in Nat \ {0}
        /\ Len(<<>>) = 0
    BY <1>4, EmptySeq
  <2> QED
    BY <1>4, <2>1 DEF n
<1> QED
  BY <1>4, <1>5, <1>6 DEF Counted, t, n

-----------------------------------------------------------------------------
(* The wake-ups                                                                  *)

LEMMA Sizes ==
    ASSUME NEW p
    PROVE  Size(p) \in 1..PktSize /\ Size(p) \in Times
  BY DEF Size, Times

LEMMA WakeAdds ==
    ASSUME NEW ev \in [Times -> Nat], NEW t \in Times
    PROVE  /\ Wake(ev, t) \in [Times -> Nat]
           /\ \A u \in Times : Wake(ev, t)[u] = ev[u] + (IF u = t THEN 1 ELSE 0)
  BY DEF Wake

LEMMA BeginServicePending ==
    ASSUME NEW ev \in [Times -> Nat], NEW lo, NEW hi, lo # <<>> \/ hi # <<>>,
           NEW first, NEW next, \A t \in Times : ev[t] = Drain(first, next, t),
           BeginService(ev, lo, hi)
    PROVE  /\ serv' \in {"low", "high"} /\ Serving(serv', lo, hi)
           /\ events' \in [Times -> Nat] /\ events'[0] = ev[0]
           /\ Pending(events', serv', first, next)
<1> DEFINE both  == lo # <<>> /\ hi # <<>>
           class == IF both THEN IF Round < RatioHigh THEN "high" ELSE "low"
                    ELSE IF hi # <<>> THEN "high" ELSE "low"
           due   == Size(IF class = "high" THEN Head(hi) ELSE Head(lo))
<1>1. serv' = class /\ events' = Wake(ev, due)
  BY DEF BeginService
<1>2. /\ class \in {"low", "high"}
      /\ class = "low" => lo # <<>>
      /\ class = "high" => hi # <<>>
  OBVIOUS
<1>3. due \in 1..PktSize /\ due \in Times
  BY Sizes
<1> HIDE DEF class, due
<1>4. /\ events' \in [Times -> Nat]
      /\ \A u \in Times : events'[u] = ev[u] + (IF u = due THEN 1 ELSE 0)
  BY <1>1, <1>3, WakeAdds, SMTT(60)
<1>5. events'[0] = ev[0]
  <2>1. 0 \in Times /\ 0 # due /\ ev[0] \in Nat
    BY <1>3 DEF Times
  <2> QED
    BY <1>4, <2>1
<1>6. Pending(events', serv', first, next)
  BY <1>1, <1>2, <1>3, <1>4 DEF Pending
<1> QED
  BY <1>1, <1>2, <1>4, <1>5, <1>6 DEF Serving

\* A packet is in one of the queues lo and hi: a completion is pending.
LEMMA EnqueuedPending ==
    ASSUME IInv, NEW lo, NEW hi, lo # <<>> \/ hi # <<>>,
           low # <<>> => lo # <<>>, high # <<>> => hi # <<>>,
           Enqueued(lo, hi)
    PROVE  /\ serv' \in {"low", "high"} /\ Serving(serv', lo, hi)
           /\ events' \in [Times -> Nat] /\ events'[0] = events[0]
           /\ Pending(events', serv', firstTime, phantomNext)
<1>1. /\ events \in [Times -> Nat] /\ serv \in {"none", "low", "high"}
      /\ Pending(events, serv, firstTime, phantomNext) /\ Serving(serv, low, high)
  BY DEF IInv, TypeOK
<1>2. CASE serv = "none"
  <2>1. BeginService(events, lo, hi)
    BY <1>2 DEF Enqueued
  <2>2. \A t \in Times : events[t] = Drain(firstTime, phantomNext, t)
    BY <1>1, <1>2 DEF Pending
  <2> QED
    BY <1>1, <2>1, <2>2, BeginServicePending
<1>3. CASE serv # "none"
  <2>1. serv' = serv /\ events' = events
    BY <1>3 DEF Enqueued
  <2> QED
    BY <1>1, <1>3, <2>1 DEF Serving
<1> QED
  BY <1>2, <1>3

\* The wake-up that completes a service: the drain of the phantom queue is not
\* due, so what is left of the wake-ups is that drain alone.
LEMMA CompletionTaken ==
    ASSUME IInv, events[0] > 0, ~DrainDue, serv # "none"
    PROVE  /\ Woken \in [Times -> Nat]
           /\ \A t \in Times : Woken[t] = Drain(firstTime, phantomNext, t)
           /\ firstTime => phantomNext = -1
<1>1. /\ events \in [Times -> Nat] /\ firstTime \in BOOLEAN
      /\ phantomNext \in -1..DrainTime
      /\ Pending(events, serv, firstTime, phantomNext) /\ DrainBegins
  BY DEF IInv, TypeOK
<1>2. 0 \in Times
  BY DEF Times
<1>3. PICK due \in Times : \A t \in Times :
         events[t] = Drain(firstTime, phantomNext, t) + (IF t = due THEN 1 ELSE 0)
  BY <1>1 DEF Pending
<1>4. Drain(firstTime, phantomNext, 0) = 0
  BY <1>1 DEF DrainBegins, DrainDue, Drain
<1>5. due = 0
  BY <1>2, <1>3, <1>4
<1>6. \A t \in Times : Drain(firstTime, phantomNext, t) \in Nat
  BY DEF Drain
<1>7. /\ Woken \in [Times -> Nat]
      /\ \A t \in Times : Woken[t] = events[t] - (IF t = 0 THEN 1 ELSE 0)
  BY <1>1, <1>2 DEF Woken
<1>8. \A t \in Times : Woken[t] = Drain(firstTime, phantomNext, t)
  BY <1>3, <1>5, <1>6, <1>7
<1>9. firstTime => phantomNext = -1
  BY <1>1, <1>2 DEF DrainBegins
<1> QED
  BY <1>7, <1>8, <1>9

\* The rest of completeService, with queues lo and hi left.
LEMMA ServeOnPending ==
    ASSUME IInv, events[0] > 0, ~DrainDue, serv # "none", config' = config,
           NEW lo, NEW hi, NEW x \in 0..PhantomSize, ServeOn(Woken, lo, hi, x)
    PROVE  /\ serv' \in {"none", "low", "high"} /\ Serving(serv', lo, hi)
           /\ events' \in [Times -> Nat] /\ phantom' \in 0..PhantomSize
           /\ phantomNext' \in -1..DrainTime /\ firstTime' \in BOOLEAN
           /\ Pending(events', serv', firstTime', phantomNext')
           /\ DrainBegins'
<1> DEFINE start == config.phantom /\ firstTime
           ev1   == IF start THEN Wake(Woken, DrainTime) ELSE Woken
<1>1. /\ phantom' = IF start THEN Drained(x) ELSE x
      /\ phantomNext' = IF start THEN DrainTime ELSE phantomNext
      /\ firstTime' = (firstTime /\ ~start)
  BY DEF ServeOn
<1>2. \/ (lo # <<>> \/ hi # <<>>) /\ BeginService(ev1, lo, hi)
      \/ lo = <<>> /\ hi = <<>> /\ serv' = "none" /\ events' = ev1
  BY DEF ServeOn
<1>3. /\ Woken \in [Times -> Nat]
      /\ \A t \in Times : Woken[t] = Drain(firstTime, phantomNext, t)
      /\ firstTime => phantomNext = -1
  BY CompletionTaken
<1>4. /\ firstTime \in BOOLEAN /\ phantomNext \in -1..DrainTime
      /\ config.phantom \in BOOLEAN /\ DrainBegins
  BY DEF IInv, TypeOK, AllConfigs
<1>5. /\ phantom' \in 0..PhantomSize /\ phantomNext' \in -1..DrainTime
      /\ firstTime' \in BOOLEAN
  BY <1>1, <1>4 DEF Drained
<1>6. /\ ev1 \in [Times -> Nat]
      /\ \A t \in Times : ev1[t] = Drain(firstTime', phantomNext', t)
  <2>1. CASE start
    <3>1. DrainTime \in Times
      BY DEF Times
    <3>2. firstTime /\ ~firstTime' /\ phantomNext' = DrainTime
      BY <1>1, <2>1
    <3>3. \A t \in Times : Woken[t] = 0
      BY <1>3, <3>2 DEF Drain
    <3>4. ev1 = Wake(Woken, DrainTime)
      BY <2>1
    <3> QED
      BY <1>3, <3>1, <3>2, <3>3, <3>4, WakeAdds DEF Drain
  <2>2. CASE ~start
    <3>1. firstTime' = firstTime /\ phantomNext' = phantomNext /\ ev1 = Woken
      BY <1>1, <1>4, <2>2
    <3> QED
      BY <1>3, <3>1
  <2> QED
    BY <2>1, <2>2
<1>7. DrainBegins'
  <2>1. ~firstTime' => config.phantom /\ phantomNext' \in 0..DrainTime
    BY <1>1, <1>4 DEF DrainBegins
  <2>2. firstTime' => phantomNext' = -1
    BY <1>1, <1>3
  <2> QED
    BY <2>1, <2>2 DEF DrainBegins
<1> HIDE DEF ev1
<1>8. CASE (lo # <<>> \/ hi # <<>>) /\ BeginService(ev1, lo, hi)
  <2> DEFINE first == firstTime'
             next  == phantomNext'
  <2>1. \A t \in Times : ev1[t] = Drain(first, next, t)
    BY <1>6
  <2> HIDE DEF first, next
  <2>2. /\ serv' \in {"low", "high"} /\ Serving(serv', lo, hi)
        /\ events' \in [Times -> Nat]
        /\ Pending(events', serv', first, next)
    <3>1. ev1 \in [Times -> Nat] /\ BeginService(ev1, lo, hi)
      BY <1>6, <1>8
    <3>2. lo # <<>> \/ hi # <<>>
      BY <1>8
    <3>3. \A f, n : (\A t \in Times : ev1[t] = Drain(f, n, t)) =>
             /\ serv' \in {"low", "high"} /\ Serving(serv', lo, hi)
             /\ events' \in [Times -> Nat] /\ Pending(events', serv', f, n)
      BY <3>1, <3>2, BeginServicePending
    <3> QED
      BY <2>1, <3>3, Zenon
  <2>3. /\ serv' \in {"none", "low", "high"}
        /\ Pending(events', serv', firstTime', phantomNext')
    BY <2>2 DEF first, next
  <2> QED
    BY <1>5, <1>7, <2>2, <2>3
<1>9. CASE lo = <<>> /\ hi = <<>> /\ serv' = "none" /\ events' = ev1
  BY <1>5, <1>6, <1>7, <1>9 DEF Pending, Serving
<1> QED
  BY <1>2, <1>8, <1>9

-----------------------------------------------------------------------------
(* The accounts                                                                  *)

LEMMA ArrivalAccounted ==
    ASSUME NEW lo \in Seq(Packet), NEW hi \in Seq(Packet), NEW g, NEW n \in Nat,
           Account(lo, hi, g, n), NEW p \in Packet, p.id = n + 1
    PROVE  /\ Account(Append(lo, p), hi, g, n + 1)
           /\ Account(lo, Append(hi, p), g, n + 1)
           /\ Account(lo, hi, g \cup {p.id}, n + 1)
<1> DEFINE L == Ids(lo)
           H == Ids(hi)
<1>1. /\ L \cap H = {} /\ (L \cup H) \cap g = {} /\ (L \cup H) \cup g = 1..n
      /\ Counted(lo) /\ Counted(hi)
  BY DEF Account
<1>2. n + 1 \notin 1..n /\ 1..(n + 1) = 1..n \cup {n + 1}
  OBVIOUS
<1>3. p.id \notin L /\ p.id \notin H /\ p.id \notin g
  BY <1>1, <1>2
<1>4. Ids(Append(lo, p)) = L \cup {p.id} /\ Counted(Append(lo, p))
  BY <1>1, <1>3, AppendCounted
<1>5. Ids(Append(hi, p)) = H \cup {p.id} /\ Counted(Append(hi, p))
  BY <1>1, <1>3, AppendCounted
<1> HIDE DEF L, H
<1>6. Account(Append(lo, p), hi, g, n + 1)
  <2>1. ((L \cup {p.id}) \cup H) \cup g = 1..(n + 1)
    BY <1>1, <1>2
  <2> QED
    BY <1>1, <1>3, <1>4, <2>1 DEF Account, H
<1>7. Account(lo, Append(hi, p), g, n + 1)
  <2>1. (L \cup (H \cup {p.id})) \cup g = 1..(n + 1)
    BY <1>1, <1>2
  <2> QED
    BY <1>1, <1>3, <1>5, <2>1 DEF Account, L
<1>8. Account(lo, hi, g \cup {p.id}, n + 1)
  <2>1. (L \cup H) \cup (g \cup {p.id}) = 1..(n + 1)
    BY <1>1, <1>2
  <2> QED
    BY <1>1, <1>3, <2>1 DEF Account, L, H
<1> QED
  BY <1>6, <1>7, <1>8

LEMMA DepartureAccounted ==
    ASSUME NEW lo \in Seq(Packet), NEW hi \in Seq(Packet), NEW g, NEW n \in Nat,
           Account(lo, hi, g, n)
    PROVE  /\ lo # <<>> => Account(Tail(lo), hi, g \cup {Head(lo).id}, n)
           /\ hi # <<>> => Account(lo, Tail(hi), g \cup {Head(hi).id}, n)
<1> DEFINE L == Ids(lo)
           H == Ids(hi)
<1>1. /\ L \cap H = {} /\ (L \cup H) \cap g = {} /\ (L \cup H) \cup g = 1..n
      /\ Counted(lo) /\ Counted(hi)
  BY DEF Account
<1>2. ASSUME lo # <<>>
      PROVE  Account(Tail(lo), hi, g \cup {Head(lo).id}, n)
  <2>1. /\ Ids(Tail(lo)) = L \ {Head(lo).id} /\ Counted(Tail(lo))
        /\ Head(lo).id \in L
    BY <1>1, <1>2, TailCounted
  <2> HIDE DEF L, H
  <2> QED
    BY <1>1, <2>1 DEF Account, H
<1>3. ASSUME hi # <<>>
      PROVE  Account(lo, Tail(hi), g \cup {Head(hi).id}, n)
  <2>1. /\ Ids(Tail(hi)) = H \ {Head(hi).id} /\ Counted(Tail(hi))
        /\ Head(hi).id \in H
    BY <1>1, <1>3, TailCounted
  <2> HIDE DEF L, H
  <2> QED
    BY <1>1, <2>1 DEF Account, L
<1> QED
  BY <1>2, <1>3

LEMMA BytesOf ==
    ASSUME NEW n \in Nat
    PROVE  /\ PktSize * n \in Nat
           /\ PktSize * (n + 1) = PktSize * n + PktSize
           /\ n # 0 => PktSize * (n - 1) = PktSize * n - PktSize
  OBVIOUS

-----------------------------------------------------------------------------
(* The steps                                                                     *)

\* What a step leaves is the invariant, if the parts of it hold.
LEMMA Assemble ==
    ASSUME IInv, FairInv', config' = config,
           phantom' \in 0..PhantomSize, phantomNext' \in -1..DrainTime,
           firstTime' \in BOOLEAN, arrived' \in 0..MaxPackets,
           how' \in Fates \cup {"none"},
           low' \in Seq(Packet), high' \in Seq(Packet),
           BytesExact', qlow' <= MaxSize, qhigh' <= HeaderLimit,
           Account(low', high', gone', arrived'),
           serv' \in {"none", "low", "high"}, Serving(serv', low', high'),
           events' \in [Times -> Nat],
           Pending(events', serv', firstTime', phantomNext'), DrainBegins'
    PROVE  IInv'
<1>1. gone' \subseteq 1..arrived'
  BY DEF Account
<1>2. qlow' \in 0..MaxSize /\ qhigh' \in 0..HeaderLimit
  <2>1. Len(low') \in Nat /\ Len(high') \in Nat
    BY LenProperties
  <2>2. qlow' = PktSize * Len(low') /\ qhigh' = Len(high')
    BY DEF BytesExact
  <2> DEFINE n == Len(low')
  <2>3. n \in Nat /\ qlow' = PktSize * n
    BY <2>1, <2>2
  <2> HIDE DEF n
  <2>4. qlow' \in Nat
    BY <2>3, BytesOf
  <2> QED
    BY <2>1, <2>2, <2>4
<1>3. TypeOK'
  BY <1>1, <1>2 DEF IInv, TypeOK, FairInv
<1> QED
  BY <1>3 DEF IInv

LEMMA FillBounded ==
    ASSUME NEW x \in 0..PhantomSize, NEW n \in Nat
    PROVE  Fill(x, n) \in 0..PhantomSize
  BY DEF Fill

\* A packet arrives and is turned around, dropped or bounced.
LEMMA TurnedAway ==
    ASSUME IInv, FairInv', NEW p \in Packet, p.id = arrived + 1,
           arrived < MaxPackets, arrived' = arrived + 1,
           UNCHANGED <<config, phantomNext, firstTime>>,
           phantom' \in 0..PhantomSize,
           NEW f \in Fates, Leave({p.id}, f), UNCHANGED <<queues, events>>
    PROVE  IInv'
<1>1. /\ arrived \in 0..MaxPackets /\ low \in Seq(Packet) /\ high \in Seq(Packet)
      /\ Account(low, high, gone, arrived)
      /\ qlow \in 0..MaxSize /\ qhigh \in 0..HeaderLimit
      /\ phantomNext \in -1..DrainTime /\ firstTime \in BOOLEAN
      /\ events \in [Times -> Nat] /\ serv \in {"none", "low", "high"}
      /\ Serving(serv, low, high) /\ BytesExact /\ DrainBegins
      /\ Pending(events, serv, firstTime, phantomNext)
  BY DEF IInv, TypeOK
<1>2. /\ UNCHANGED <<serv, low, high, qlow, qhigh, events>>
      /\ gone' = gone \cup {p.id} /\ how' \in Fates
  BY DEF queues, Leave
<1>3. Account(low', high', gone', arrived')
  BY <1>1, <1>2, ArrivalAccounted, SMTT(60)
<1>4. BytesExact' /\ DrainBegins'
  BY <1>1, <1>2 DEF BytesExact, DrainBegins
<1>5. arrived' \in 0..MaxPackets /\ qlow' <= MaxSize /\ qhigh' <= HeaderLimit
  BY <1>1, <1>2
<1> QED
  BY <1>1, <1>2, <1>3, <1>4, <1>5, Assemble

\* A packet arrives and joins one of the queues.
LEMMA Joined ==
    ASSUME IInv, FairInv', NEW p \in Packet, p.id = arrived + 1,
           arrived < MaxPackets, arrived' = arrived + 1,
           UNCHANGED <<config, phantomNext, firstTime, gone, how>>,
           phantom' \in 0..PhantomSize,
           \/ /\ low' = Append(low, p) /\ high' = high
              /\ qlow' = qlow + PktSize /\ qhigh' = qhigh /\ qlow' <= MaxSize
           \/ /\ high' = Append(high, p) /\ low' = low
              /\ qhigh' = qhigh + 1 /\ qlow' = qlow /\ qhigh' <= HeaderLimit,
           Enqueued(low', high')
    PROVE  IInv'
<1>1. /\ arrived \in 0..MaxPackets /\ low \in Seq(Packet) /\ high \in Seq(Packet)
      /\ Account(low, high, gone, arrived) /\ Counted(low) /\ Counted(high)
      /\ qlow \in 0..MaxSize /\ qhigh \in 0..HeaderLimit
      /\ phantomNext \in -1..DrainTime /\ firstTime \in BOOLEAN
      /\ how \in Fates \cup {"none"} /\ BytesExact /\ DrainBegins
  BY DEF IInv, TypeOK, Account
<1>2. arrived \in Nat /\ p.id \notin Ids(low) /\ p.id \notin Ids(high)
  <2>1. Ids(low) \subseteq 1..arrived /\ Ids(high) \subseteq 1..arrived
    BY <1>1 DEF Account
  <2>2. arrived \in Nat /\ arrived + 1 \notin 1..arrived
    BY <1>1
  <2> QED
    BY <2>1, <2>2
<1>3. Account(low', high', gone', arrived')
  <2>1. /\ Account(Append(low, p), high, gone, arrived + 1)
        /\ Account(low, Append(high, p), gone, arrived + 1)
    BY <1>1, <1>2, ArrivalAccounted
  <2> QED
    BY <2>1, Zenon
<1>4. /\ low' \in Seq(Packet) /\ high' \in Seq(Packet)
      /\ Len(low') = Len(low) + (IF low' = low THEN 0 ELSE 1)
      /\ Len(high') = Len(high) + (IF high' = high THEN 0 ELSE 1)
      /\ low' # <<>> \/ high' # <<>>
      /\ low # <<>> => low' # <<>>
      /\ high # <<>> => high' # <<>>
  <2>1. /\ Append(low, p) \in Seq(Packet) /\ Len(Append(low, p)) = Len(low) + 1
        /\ Append(low, p) # <<>>
    BY <1>1, <1>2, AppendCounted
  <2>2. /\ Append(high, p) \in Seq(Packet) /\ Len(Append(high, p)) = Len(high) + 1
        /\ Append(high, p) # <<>>
    BY <1>1, <1>2, AppendCounted
  <2>3. Len(low) \in Nat /\ Len(high) \in Nat
    BY <1>1, LenProperties
  <2>4. Append(low, p) # low /\ Append(high, p) # high
    BY <2>1, <2>2, <2>3
  <2>5. CASE low' = Append(low, p) /\ high' = high
    BY <1>1, <2>1, <2>3, <2>4, <2>5, SMTT(60)
  <2>6. CASE high' = Append(high, p) /\ low' = low
    BY <1>1, <2>2, <2>3, <2>4, <2>6, SMTT(60)
  <2> QED
    BY <2>5, <2>6
<1>5. BytesExact' /\ qlow' <= MaxSize /\ qhigh' <= HeaderLimit
  <2>1. Len(low) \in Nat /\ Len(high) \in Nat
    BY <1>1, LenProperties
  <2> DEFINE n == Len(low)
  <2>2. n \in Nat /\ qlow = PktSize * n /\ qhigh = Len(high)
    BY <1>1, <2>1 DEF BytesExact
  <2>3. /\ low' # low => qlow' = qlow + PktSize /\ Len(low') = n + 1
        /\ low' = low => qlow' = qlow /\ Len(low') = n
    BY <1>1, <1>4, <2>1
  <2> HIDE DEF n
  <2>4. PktSize * (n + 1) = qlow + PktSize
    BY <2>2, BytesOf
  <2>5. qlow' = PktSize * Len(low')
    BY <2>2, <2>3, <2>4
  <2>6. qhigh' = Len(high')
    BY <1>1, <1>4, <2>1, <2>2
  <2> QED
    BY <1>1, <2>5, <2>6, SMTT(60) DEF BytesExact
<1>6. /\ serv' \in {"low", "high"} /\ Serving(serv', low', high')
      /\ events' \in [Times -> Nat] /\ events'[0] = events[0]
      /\ Pending(events', serv', firstTime, phantomNext)
  <2> DEFINE lo == low'
             hi == high'
  <2>1. /\ lo # <<>> \/ hi # <<>>
        /\ low # <<>> => lo # <<>>
        /\ high # <<>> => hi # <<>>
        /\ Enqueued(lo, hi)
    BY <1>4
  <2> HIDE DEF lo, hi
  <2>2. /\ serv' \in {"low", "high"} /\ Serving(serv', lo, hi)
        /\ events' \in [Times -> Nat] /\ events'[0] = events[0]
        /\ Pending(events', serv', firstTime, phantomNext)
    BY <2>1, EnqueuedPending
  <2> QED
    BY <2>2 DEF lo, hi
<1>7. DrainBegins'
  BY <1>1, <1>6 DEF DrainBegins
<1>8. arrived' \in 0..MaxPackets
  BY <1>1
<1> QED
  BY <1>1, <1>3, <1>4, <1>5, <1>6, <1>7, <1>8, Assemble

LEMMA ReceivePacketStep ==
    ASSUME IInv, FairInv', ReceivePacket
    PROVE  IInv'
<1>1. /\ arrived \in 0..MaxPackets /\ arrived < MaxPackets /\ arrived' = arrived + 1
      /\ UNCHANGED <<config, phantomNext, firstTime>> /\ phantom \in 0..PhantomSize
  BY DEF ReceivePacket, IInv, TypeOK
<1>2. PICK k \in Kinds :
         LET p == [id |-> arrived + 1, kind |-> k, age |-> 0]
         IN  Accept(p) \/ Refuse(p) \/ Trim(p) \/ AcceptHeader(p)
  BY DEF ReceivePacket
<1> DEFINE p == [id |-> arrived + 1, kind |-> k, age |-> 0]
           q == [p EXCEPT !.kind = "trim"]
<1>3. /\ p \in Packet /\ p.id = arrived + 1
      /\ q \in Packet /\ q.id = arrived + 1
  BY <1>1 DEF Packet, Kinds
<1>4. Accept(p) \/ Refuse(p) \/ Trim(p) \/ AcceptHeader(p)
  BY <1>2
<1> HIDE DEF p
<1>5. (IF config.series THEN phantom ELSE Fill(phantom, PktSize)) \in 0..PhantomSize
  BY <1>1, FillBounded
<1>6. CASE Accept(p)
  <2>1. /\ low' = Append(low, p) /\ high' = high /\ qlow' = qlow + PktSize /\ qhigh' = qhigh
        /\ qlow' <= MaxSize /\ UNCHANGED <<gone, how>> /\ Enqueued(low', high)
        /\ phantom' = IF config.series THEN phantom ELSE Fill(phantom, PktSize)
    BY <1>6 DEF Accept, left
  <2>2. Enqueued(low', high') /\ phantom' \in 0..PhantomSize
    BY <1>5, <2>1
  <2> QED
    BY <1>1, <1>3, <2>1, <2>2, Joined
<1>7. CASE Refuse(p)
  <2>1. PICK f \in {"turned", "dropped"} : Leave({p.id}, f)
    BY <1>7, Zenon DEF Refuse
  <2>2. /\ UNCHANGED <<queues, events>> /\ f \in Fates
        /\ phantom' = IF config.series THEN phantom ELSE Fill(phantom, PktSize)
    BY <1>7 DEF Refuse, Fates
  <2>3. phantom' \in 0..PhantomSize
    BY <1>5, <2>2
  <2> QED
    BY <1>1, <1>3, <2>1, <2>2, <2>3, TurnedAway
<1>8. ASSUME NEW r \in Packet, r.id = arrived + 1, EnqueueHeader(r),
             phantom' \in 0..PhantomSize
      PROVE  IInv'
  <2>1. CASE qhigh + 1 > HeaderLimit
    <3>1. PICK f \in {"bounced", "dropped"} : Leave({r.id}, f)
      BY <1>8, <2>1, Zenon DEF EnqueueHeader
    <3>2. UNCHANGED <<queues, events>> /\ f \in Fates
      BY <1>8, <2>1 DEF EnqueueHeader, Fates
    <3> QED
      BY <1>1, <1>8, <3>1, <3>2, TurnedAway
  <2>2. CASE ~(qhigh + 1 > HeaderLimit)
    <3>1. /\ high' = Append(high, r) /\ low' = low /\ qhigh' = qhigh + 1 /\ qlow' = qlow
          /\ UNCHANGED <<gone, how>> /\ Enqueued(low, high')
      BY <1>8, <2>2 DEF EnqueueHeader, left
    <3>2. Enqueued(low', high') /\ qhigh' <= HeaderLimit
      <4>1. qhigh \in Nat
        BY DEF IInv, TypeOK
      <4> QED
        BY <2>2, <3>1, <4>1
    <3> QED
      BY <1>1, <1>8, <3>1, <3>2, Joined
  <2> QED
    BY <2>1, <2>2
<1>9. CASE Trim(p)
  <2>1. /\ phantom' = IF config.series THEN phantom ELSE Fill(phantom, PktSize)
        /\ EnqueueHeader(q)
    BY <1>9 DEF Trim
  <2>2. phantom' \in 0..PhantomSize
    BY <1>5, <2>1
  <2> HIDE DEF q
  <2> QED
    BY <1>3, <1>8, <2>1, <2>2
<1>10. CASE AcceptHeader(p)
  <2>1. EnqueueHeader(p) /\ phantom' \in 0..PhantomSize
    BY <1>1, <1>10 DEF AcceptHeader
  <2> QED
    BY <1>3, <1>8, <2>1
<1> QED
  BY <1>4, <1>6, <1>7, <1>9, <1>10

\* The first packet of one of the queues leaves.
LEMMA Departed ==
    ASSUME IInv, FairInv', events[0] > 0, ~DrainDue, UNCHANGED <<config, arrived>>,
           NEW x \in 0..PhantomSize, how' \in Fates,
           \/ /\ low # <<>> /\ low' = Tail(low) /\ gone' = gone \cup {Head(low).id}
              /\ qlow' = qlow - PktSize /\ UNCHANGED <<high, qhigh>>
           \/ /\ high # <<>> /\ high' = Tail(high) /\ gone' = gone \cup {Head(high).id}
              /\ qhigh' = qhigh - 1 /\ UNCHANGED <<low, qlow>>,
           serv # "none", ServeOn(Woken, low', high', x)
    PROVE  IInv'
<1>1. /\ arrived \in 0..MaxPackets /\ low \in Seq(Packet) /\ high \in Seq(Packet)
      /\ Account(low, high, gone, arrived) /\ Counted(low) /\ Counted(high)
      /\ qlow \in 0..MaxSize /\ qhigh \in 0..HeaderLimit /\ BytesExact
      /\ arrived \in Nat
  BY SMTT(60) DEF IInv, TypeOK, Account
<1>2. /\ serv' \in {"none", "low", "high"} /\ Serving(serv', low', high')
      /\ events' \in [Times -> Nat] /\ phantom' \in 0..PhantomSize
      /\ phantomNext' \in -1..DrainTime /\ firstTime' \in BOOLEAN
      /\ Pending(events', serv', firstTime', phantomNext') /\ DrainBegins'
  <2> DEFINE lo == low'
             hi == high'
  <2>1. ServeOn(Woken, lo, hi, x) /\ config' = config
    OBVIOUS
  <2> HIDE DEF lo, hi
  <2>2. /\ serv' \in {"none", "low", "high"} /\ Serving(serv', lo, hi)
        /\ events' \in [Times -> Nat] /\ phantom' \in 0..PhantomSize
        /\ phantomNext' \in -1..DrainTime /\ firstTime' \in BOOLEAN
        /\ Pending(events', serv', firstTime', phantomNext') /\ DrainBegins'
    BY <2>1, ServeOnPending, SMTT(60)
  <2> QED
    BY <2>2 DEF lo, hi
<1>3. CASE /\ low # <<>> /\ low' = Tail(low) /\ gone' = gone \cup {Head(low).id}
           /\ qlow' = qlow - PktSize /\ UNCHANGED <<high, qhigh>>
  <2>1. Account(Tail(low), high, gone \cup {Head(low).id}, arrived)
    BY <1>1, <1>3, DepartureAccounted
  <2>2. Account(low', high', gone', arrived')
    BY <1>3, <2>1
  <2>3. Tail(low) \in Seq(Packet) /\ Len(Tail(low)) = Len(low) - 1 /\ Len(low) \in Nat \ {0}
    BY <1>1, <1>3, TailCounted, SMTT(60)
  <2> DEFINE n == Len(low)
  <2>4. n \in Nat /\ n # 0 /\ qlow = PktSize * n /\ Len(low') = n - 1
    BY <1>1, <1>3, <2>3 DEF BytesExact
  <2> HIDE DEF n
  <2>5. qlow' = PktSize * Len(low')
    BY <1>3, <2>4, BytesOf
  <2>6. BytesExact' /\ qlow' <= MaxSize /\ qhigh' <= HeaderLimit
    BY <1>1, <1>3, <2>5 DEF BytesExact
  <2> QED
    BY <1>1, <1>2, <1>3, <2>2, <2>3, <2>6, Assemble
<1>4. CASE /\ high # <<>> /\ high' = Tail(high) /\ gone' = gone \cup {Head(high).id}
           /\ qhigh' = qhigh - 1 /\ UNCHANGED <<low, qlow>>
  <2>1. Account(low, Tail(high), gone \cup {Head(high).id}, arrived)
    BY <1>1, <1>4, DepartureAccounted
  <2>2. Account(low', high', gone', arrived')
    BY <1>4, <2>1
  <2>3. Tail(high) \in Seq(Packet) /\ Len(Tail(high)) = Len(high) - 1
        /\ Len(high) \in Nat \ {0}
    BY <1>1, <1>4, TailCounted
  <2>4. BytesExact' /\ qlow' <= MaxSize /\ qhigh' <= HeaderLimit
    BY <1>1, <1>4, <2>3 DEF BytesExact
  <2> QED
    BY <1>1, <1>2, <1>4, <2>2, <2>3, <2>4, Assemble
<1> QED
  BY <1>3, <1>4

LEMMA CompleteServiceStep ==
    ASSUME IInv, FairInv', CompleteService
    PROVE  IInv'
<1>1. /\ events[0] > 0 /\ ~DrainDue /\ UNCHANGED <<config, arrived>>
      /\ CompleteLow \/ CompleteHigh
  BY DEF CompleteService
<1>2. /\ phantom \in 0..PhantomSize /\ ~config.mixed /\ qlow \in 0..MaxSize
      /\ low \in Seq(Packet)
  BY DEF IInv, TypeOK
<1>3. Fill(phantom, PktSize) \in 0..PhantomSize
  BY <1>2, FillBounded
<1>4. CASE CompleteLow
  <2> DEFINE x == IF config.series THEN Fill(phantom, PktSize) ELSE phantom
  <2>1. ToServe = low /\ Expired = {}
    BY <1>2 DEF ToServe, Expired
  <2>2. /\ serv = "low" /\ low # <<>> /\ low' = Tail(low) /\ UNCHANGED <<high, qhigh>>
        /\ qlow' = qlow - PktSize * (1 + Cardinality({}))
        /\ ServeOn(Woken, low', high, x)
    BY <1>4, <2>1 DEF CompleteLow
  <2>3. PICK m \in Marks(qlow', x) :
           Leave({Head(low).id} \cup {low[i].id : i \in {}}, IF m THEN "marked" ELSE "sent")
    BY <1>4, <2>1, Zenon DEF CompleteLow
  <2>4. gone' = gone \cup {Head(low).id} /\ how' \in Fates
    BY <2>3 DEF Leave, Fates
  <2>5. qlow' = qlow - PktSize
    <3>1. Cardinality({}) = 0
      BY FS_EmptySet
    <3> QED
      BY <2>2, <3>1
  <2>6. x \in 0..PhantomSize
    BY <1>2, <1>3
  <2> HIDE DEF x
  <2>7. ServeOn(Woken, low', high', x)
    BY <2>2
  <2> QED
    BY <1>1, <2>2, <2>4, <2>5, <2>6, <2>7, Departed
<1>5. CASE CompleteHigh
  <2> DEFINE x == IF config.series /\ Head(high).kind \in {"trim", "nack"}
                  THEN Fill(phantom, PktSize) ELSE phantom
  <2>1. /\ serv = "high" /\ high # <<>> /\ high' = Tail(high) /\ UNCHANGED <<low, qlow>>
        /\ qhigh' = qhigh - 1 /\ ServeOn(Woken, low, high', x)
    BY <1>5 DEF CompleteHigh
  <2>2. \E m : Leave({Head(high).id}, IF m THEN "marked" ELSE "sent")
    BY <1>5, Zenon DEF CompleteHigh
  <2>3. gone' = gone \cup {Head(high).id} /\ how' \in Fates
    BY <2>2 DEF Leave, Fates
  <2>4. x \in 0..PhantomSize
    BY <1>2, <1>3
  <2> HIDE DEF x
  <2>5. ServeOn(Woken, low', high', x)
    BY <2>1
  <2> QED
    BY <1>1, <2>1, <2>3, <2>4, <2>5, Departed
<1> QED
  BY <1>1, <1>4, <1>5

LEMMA DecreasePhantomStep ==
    ASSUME IInv, FairInv', DecreasePhantom
    PROVE  IInv'
<1>1. /\ arrived \in 0..MaxPackets /\ low \in Seq(Packet) /\ high \in Seq(Packet)
      /\ Account(low, high, gone, arrived) /\ phantom \in 0..PhantomSize
      /\ qlow \in 0..MaxSize /\ qhigh \in 0..HeaderLimit /\ how \in Fates \cup {"none"}
      /\ phantomNext \in -1..DrainTime /\ firstTime \in BOOLEAN
      /\ events \in [Times -> Nat] /\ serv \in {"none", "low", "high"}
      /\ Serving(serv, low, high) /\ BytesExact /\ DrainBegins
      /\ Pending(events, serv, firstTime, phantomNext)
  BY DEF IInv, TypeOK
<1>2. /\ events[0] > 0 /\ config.phantom /\ phantomNext = 0
      /\ phantom' = Drained(phantom) /\ phantomNext' = DrainTime
      /\ events' = Wake(Woken, DrainTime)
      /\ UNCHANGED <<config, serv, low, high, qlow, qhigh, firstTime, arrived, gone, how>>
  BY DEF DecreasePhantom, DrainDue, queues, left
<1>3. ~firstTime
  BY <1>1, <1>2 DEF DrainBegins
<1>4. 0 \in Times /\ DrainTime \in Times /\ DrainTime # 0
  BY DEF Times
<1>5. /\ Woken \in [Times -> Nat]
      /\ \A t \in Times : Woken[t] = events[t] - (IF t = 0 THEN 1 ELSE 0)
  BY <1>1, <1>2, <1>4, SMTT(60) DEF Woken
<1>6. /\ events' \in [Times -> Nat]
      /\ \A t \in Times : events'[t] = events[t] - Drain(firstTime, phantomNext, t)
                                                 + Drain(firstTime', phantomNext', t)
  <2>1. /\ events' \in [Times -> Nat]
        /\ \A t \in Times : events'[t] = Woken[t] + (IF t = DrainTime THEN 1 ELSE 0)
    BY <1>2, <1>4, <1>5, WakeAdds
  <2>2. \A t \in Times : /\ Drain(firstTime, phantomNext, t) = IF t = 0 THEN 1 ELSE 0
                         /\ Drain(firstTime', phantomNext', t) = IF t = DrainTime THEN 1 ELSE 0
    BY <1>2, <1>3 DEF Drain
  <2> QED
    BY <1>5, <2>1, <2>2
<1>7. Pending(events', serv', firstTime', phantomNext')
  <2>1. \A t \in Times : /\ Drain(firstTime, phantomNext, t) \in Nat
                         /\ Drain(firstTime', phantomNext', t) \in Nat
                         /\ events[t] \in Nat
    BY <1>1 DEF Drain
  <2>2. CASE serv = "none"
    <3>1. \A t \in Times : events[t] = Drain(firstTime, phantomNext, t)
      BY <1>1, <2>2 DEF Pending
    <3>2. \A t \in Times : events'[t] = Drain(firstTime', phantomNext', t)
      BY <1>6, <2>1, <3>1
    <3> QED
      BY <1>2, <2>2, <3>2 DEF Pending
  <2>3. CASE serv # "none"
    <3>1. PICK due \in Times : \A t \in Times :
            events[t] = Drain(firstTime, phantomNext, t) + (IF t = due THEN 1 ELSE 0)
      BY <1>1, <2>3 DEF Pending
    <3>2. \A t \in Times :
            events'[t] = Drain(firstTime', phantomNext', t) + (IF t = due THEN 1 ELSE 0)
      BY <1>6, <2>1, <3>1
    <3> QED
      BY <1>2, <2>3, <3>2 DEF Pending
  <2> QED
    BY <2>2, <2>3
<1>8. DrainBegins' /\ phantomNext' \in -1..DrainTime /\ phantom' \in 0..PhantomSize
  BY <1>1, <1>2, <1>3 DEF DrainBegins, Drained
<1>9. /\ Account(low', high', gone', arrived') /\ Serving(serv', low', high')
      /\ BytesExact'
  BY <1>1, <1>2 DEF BytesExact
<1>10. qlow' <= MaxSize /\ qhigh' <= HeaderLimit
  BY <1>1, <1>2
<1> QED
  BY <1>1, <1>2, <1>6, <1>7, <1>8, <1>9, <1>10, Assemble

LEMMA TickStep ==
    ASSUME IInv, FairInv', Tick
    PROVE  IInv'
<1>1. /\ arrived \in 0..MaxPackets /\ low \in Seq(Packet) /\ high \in Seq(Packet)
      /\ Account(low, high, gone, arrived) /\ Counted(low) /\ phantom \in 0..PhantomSize
      /\ qlow \in 0..MaxSize /\ qhigh \in 0..HeaderLimit /\ how \in Fates \cup {"none"}
      /\ phantomNext \in -1..DrainTime /\ firstTime \in BOOLEAN
      /\ events \in [Times -> Nat] /\ serv \in {"none", "low", "high"}
      /\ Serving(serv, low, high) /\ BytesExact /\ DrainBegins
      /\ Pending(events, serv, firstTime, phantomNext)
  BY DEF IInv, TypeOK, Account
<1>2. /\ events[0] = 0
      /\ events' = [t \in Times |-> IF t + 1 \in Times THEN events[t + 1] ELSE 0]
      /\ phantomNext' = IF phantomNext >= 0 THEN phantomNext - 1 ELSE -1
      /\ low' = Aged(low)
      /\ UNCHANGED <<config, serv, high, qlow, qhigh, phantom, firstTime, arrived,
                     gone, how>>
  BY DEF Tick, Aged, Older, left
<1>3. /\ low' \in Seq(Packet) /\ Len(low') = Len(low) /\ Ids(low') = Ids(low)
      /\ Counted(low') /\ (low' = <<>> <=> low = <<>>)
  BY <1>1, <1>2, AgedCounted
<1>4. Account(low', high', gone', arrived')
  BY <1>1, <1>2, <1>3 DEF Account
<1>5. BytesExact' /\ qlow' <= MaxSize /\ qhigh' <= HeaderLimit
  BY <1>1, <1>2, <1>3 DEF BytesExact
<1>6. Serving(serv', low', high')
  BY <1>1, <1>2, <1>3 DEF Serving
<1>7. 0 \in Times /\ PktSize + DrainTime \in Nat /\ Times = 0..(PktSize + DrainTime)
  BY DEF Times
<1>8. \A t \in Times : Drain(firstTime, phantomNext, t) \in Nat
  BY DEF Drain
<1>9. ~firstTime => phantomNext # 0
  <2> SUFFICES ASSUME ~firstTime, phantomNext = 0
               PROVE  FALSE
    OBVIOUS
  <2>1. Drain(firstTime, phantomNext, 0) = 1
    BY DEF Drain
  <2>2. CASE serv = "none"
    BY <1>1, <1>2, <1>7, <2>1, <2>2 DEF Pending
  <2>3. CASE serv # "none"
    <3>1. PICK due \in Times :
             events[0] = Drain(firstTime, phantomNext, 0) + (IF 0 = due THEN 1 ELSE 0)
      BY <1>1, <1>7, <2>3 DEF Pending
    <3> QED
      BY <1>2, <2>1, <3>1
  <2> QED
    BY <2>2, <2>3
<1>10. /\ ~firstTime => phantomNext \in 1..DrainTime /\ phantomNext' = phantomNext - 1
       /\ firstTime => phantomNext' = -1
  BY <1>1, <1>2, <1>9 DEF DrainBegins
<1>11. DrainBegins' /\ phantomNext' \in -1..DrainTime
  BY <1>1, <1>2, <1>10 DEF DrainBegins
\* What is due at a time is due one unit earlier, and nothing is beyond Times.
<1>12. \A t \in Times :
          Drain(firstTime', phantomNext', t)
            = IF t + 1 \in Times THEN Drain(firstTime, phantomNext, t + 1) ELSE 0
  BY <1>1, <1>2, <1>7, <1>10, SMTT(60) DEF Drain
<1>13. events' \in [Times -> Nat]
  BY <1>1, <1>2
<1>14. Pending(events', serv', firstTime', phantomNext')
  <2>1. CASE serv = "none"
    <3>1. \A t \in Times : events[t] = Drain(firstTime, phantomNext, t)
      BY <1>1, <2>1 DEF Pending
    <3>2. \A t \in Times : events'[t] = Drain(firstTime', phantomNext', t)
      BY <1>2, <1>12, <3>1
    <3> QED
      BY <1>2, <2>1, <3>2 DEF Pending
  <2>2. CASE serv # "none"
    <3>1. PICK due \in Times : \A t \in Times :
             events[t] = Drain(firstTime, phantomNext, t) + (IF t = due THEN 1 ELSE 0)
      BY <1>1, <2>2 DEF Pending
    <3>2. due # 0
      <4> SUFFICES ASSUME due = 0
                   PROVE  FALSE
        OBVIOUS
      <4>1. events[0] = Drain(firstTime, phantomNext, 0) + 1
        BY <1>7, <3>1
      <4> QED
        BY <1>2, <1>7, <1>8, <4>1
    <3>3. due - 1 \in Times
      BY <1>7, <3>2
    <3>4. \A t \in Times :
             events'[t] = Drain(firstTime', phantomNext', t)
                            + (IF t = due - 1 THEN 1 ELSE 0)
      <4> SUFFICES ASSUME NEW t \in Times
                   PROVE  events'[t] = Drain(firstTime', phantomNext', t)
                                         + (IF t = due - 1 THEN 1 ELSE 0)
        OBVIOUS
      <4>1. events'[t] = IF t + 1 \in Times THEN events[t + 1] ELSE 0
        BY <1>2
      <4>2. t = due - 1 <=> t + 1 = due
        BY <1>7
      <4>3. CASE t + 1 \in Times
        <5>1. events[t + 1] = Drain(firstTime, phantomNext, t + 1)
                                + (IF t + 1 = due THEN 1 ELSE 0)
          BY <3>1, <4>3
        <5>2. Drain(firstTime', phantomNext', t) = Drain(firstTime, phantomNext, t + 1)
          BY <1>12, <4>3
        <5> QED
          BY <4>1, <4>2, <4>3, <5>1, <5>2
      <4>4. CASE t + 1 \notin Times
        BY <1>12, <4>1, <4>2, <4>4
      <4> QED
        BY <4>3, <4>4
    <3> QED
      BY <1>2, <2>2, <3>3, <3>4 DEF Pending
  <2> QED
    BY <2>1, <2>2
<1> QED
  BY <1>1, <1>2, <1>3, <1>4, <1>5, <1>6, <1>11, <1>13, <1>14, Assemble

LEMMA InvariantPreserved == IInv /\ [Next]_vars => IInv'
<1> SUFFICES ASSUME IInv, [Next]_vars
             PROVE  IInv'
  OBVIOUS
<1>1. FairInv'
  BY FairPreserved DEF IInv
<1>2. CASE ReceivePacket
  BY <1>1, <1>2, ReceivePacketStep
<1>3. CASE CompleteService
  BY <1>1, <1>3, CompleteServiceStep
<1>4. CASE DecreasePhantom
  BY <1>1, <1>4, DecreasePhantomStep
<1>5. CASE Tick
  BY <1>1, <1>5, TickStep
<1>6. CASE UNCHANGED vars
  <2>1. /\ UNCHANGED <<config, events, serv, crt, low, high, qlow, qhigh, phantom>>
        /\ UNCHANGED <<phantomNext, firstTime, arrived, gone, how, streak>>
    BY <1>6 DEF vars
  <2>2. TypeOK' /\ BytesExact' /\ DrainBegins'
    BY <2>1 DEF IInv, TypeOK, BytesExact, DrainBegins
  <2>3. /\ Account(low', high', gone', arrived') /\ Serving(serv', low', high')
        /\ Pending(events', serv', firstTime', phantomNext')
    BY <2>1 DEF IInv
  <2> QED
    BY <1>1, <2>1, <2>2, <2>3 DEF IInv
<1> QED
  BY <1>2, <1>3, <1>4, <1>5, <1>6 DEF Next

LEMMA InvariantInitially == PlainFlags /\ Init => IInv
<1> SUFFICES ASSUME PlainFlags, Init
             PROVE  IInv
  OBVIOUS
<1>1. Counted(<<>>) /\ Ids(<<>>) = {} /\ Len(<<>>) = 0
  BY EmptyCounted
<1>2. Account(low, high, gone, arrived)
  BY <1>1 DEF Init, Account
<1>3. BytesExact
  BY <1>1 DEF Init, BytesExact
<1>4. FairInv
  BY DEF Init, FairInv
<1>5. Pending(events, serv, firstTime, phantomNext) /\ DrainBegins
  BY DEF Init, Pending, Drain, DrainBegins, Times
<1>6. Serving(serv, low, high)
  BY DEF Init, Serving
<1>7. TypeOK
  <2>1. low \in Seq(Packet) /\ high \in Seq(Packet)
    BY EmptySeq DEF Init
  <2>2. gone \subseteq 1..arrived /\ events \in [Times -> Nat]
    BY DEF Init
  <2> QED
    BY <1>4, <2>1, <2>2 DEF Init, TypeOK, FairInv
<1> QED
  BY <1>2, <1>3, <1>4, <1>5, <1>6, <1>7 DEF IInv, Init, PlainFlags

-----------------------------------------------------------------------------
(* The theorems                                                                  *)

\* The inductive invariant holds throughout every run without _use_mixed.
THEOREM CompositeInvariance ==
    ASSUME PlainFlags
    PROVE  Spec => []IInv
<1>1. Init => IInv
  BY InvariantInitially
<1> QED
  BY <1>1, InvariantPreserved, PTL DEF Spec

\* Every variable keeps its type: no queue exceeds its bytes, nor the phantom
\* queue its size, and the position in the round never leaves it.
THEOREM CompositeTypeCorrect ==
    ASSUME PlainFlags
    PROVE  Spec => []TypeOK
<1>1. IInv => TypeOK
  BY DEF IInv
<1> QED
  BY <1>1, CompositeInvariance, PTL

\* The assertions of completeService hold: a wake-up that is not taken for the
\* drain of the phantom queue finds a queue in service and a packet in it.
THEOREM CompletionFindsPacket ==
    ASSUME PlainFlags
    PROVE  Spec => []ServiceFindsPacket
<1>1. ASSUME IInv, events[0] > 0, ~DrainDue
      PROVE  \/ serv = "low" /\ ToServe # <<>>
             \/ serv = "high" /\ high # <<>>
  <2>1. /\ serv \in {"none", "low", "high"} /\ Serving(serv, low, high)
        /\ firstTime \in BOOLEAN /\ phantomNext \in -1..DrainTime
        /\ Pending(events, serv, firstTime, phantomNext) /\ DrainBegins
        /\ ToServe = low
    BY <1>1 DEF IInv, TypeOK, ToServe
  <2>2. serv # "none"
    <3> SUFFICES ASSUME serv = "none"
                 PROVE  FALSE
      OBVIOUS
    <3>1. 0 \in Times
      BY DEF Times
    <3>2. events[0] = Drain(firstTime, phantomNext, 0)
      BY <2>1, <3>1 DEF Pending
    <3>3. ~firstTime /\ phantomNext = 0
      BY <1>1, <3>2 DEF Drain
    <3> QED
      BY <1>1, <2>1, <3>3 DEF DrainBegins, DrainDue
  <2> QED
    BY <2>1, <2>2 DEF Serving
<1>2. IInv => ServiceFindsPacket
  BY <1>1 DEF ServiceFindsPacket
<1> QED
  BY <1>2, CompositeInvariance, PTL

\* Beside the drain of the phantom queue there is one completion pending while a
\* queue is served, and none while none is: telling the two wake-ups apart by the
\* time alone neither loses a completion nor makes one twice.
THEOREM OneCompletion ==
    ASSUME PlainFlags
    PROVE  Spec => []OneCompletionPending
<1>1. ASSUME IInv
      PROVE  OneCompletionPending
  <2> DEFINE drain(t)   == IF ~firstTime /\ t = phantomNext THEN 1 ELSE 0
             service(t) == events[t] - drain(t)
             now        == {t \in Times : service(t) = 1}
  <2>1. /\ serv \in {"none", "low", "high"} /\ Serving(serv, low, high)
        /\ Pending(events, serv, firstTime, phantomNext)
    BY <1>1 DEF IInv, TypeOK
  <2>2. \A t : drain(t) \in {0, 1} /\ drain(t) = Drain(firstTime, phantomNext, t)
    BY DEF Drain
  <2> HIDE DEF drain
  <2>3. (serv # "none") <=> (low # <<>> \/ high # <<>>)
    BY <2>1 DEF Serving
  <2>4. CASE serv = "none"
    <3>1. \A t \in Times : service(t) = 0
      BY <2>1, <2>2, <2>4 DEF Pending
    <3>2. now = {}
      BY <3>1
    <3>3. Cardinality(now) = 0
      BY <3>2, FS_EmptySet
    <3> QED
      BY <2>3, <2>4, <3>1, <3>3 DEF OneCompletionPending, drain
  <2>5. CASE serv # "none"
    <3>1. PICK due \in Times : \A t \in Times :
             events[t] = Drain(firstTime, phantomNext, t) + (IF t = due THEN 1 ELSE 0)
      BY <2>1, <2>5 DEF Pending
    <3>2. \A t \in Times : service(t) = IF t = due THEN 1 ELSE 0
      BY <2>2, <3>1
    <3>3. now = {due}
      BY <3>2
    <3>4. Cardinality(now) = 1
      BY <3>3, FS_Singleton
    <3> QED
      BY <2>3, <2>5, <3>2, <3>4 DEF OneCompletionPending, drain
  <2> QED
    BY <2>4, <2>5
<1> QED
  BY <1>1, CompositeInvariance, PTL

\* Every packet that came is queued once or gone once, and its bytes are counted
\* while it is queued, whatever was trimmed, turned around or dropped.
THEOREM AccountsStayExact ==
    ASSUME PlainFlags
    PROVE  Spec => []AccountsExact
<1>1. ASSUME IInv
      PROVE  AccountsExact
  <2>1. /\ Account(low, high, gone, arrived) /\ BytesExact
        /\ low \in Seq(Packet) /\ high \in Seq(Packet)
    BY <1>1 DEF IInv, TypeOK
  <2>2. Waiting = Ids(low) \cup Ids(high)
    BY DEF Waiting, Ids
  <2> DEFINE L == Ids(low)
             H == Ids(high)
  <2>3. /\ L \cap H = {} /\ (L \cup H) \cap gone = {} /\ (L \cup H) \cup gone = 1..arrived
        /\ Cardinality(L) = Len(low) /\ Cardinality(H) = Len(high)
        /\ IsFiniteSet(L) /\ IsFiniteSet(H)
        /\ Len(low) \in Nat /\ Len(high) \in Nat
    BY <2>1, IdsNaturals, LenProperties DEF Account, Counted
  <2> HIDE DEF L, H
  <2>4. Cardinality(L \cup H) = Len(low) + Len(high)
    <3>1. Cardinality(L \cup H) = Cardinality(L) + Cardinality(H) - Cardinality(L \cap H)
      BY <2>3, FS_Union
    <3>2. Cardinality(L \cap H) = 0
      BY <2>3, FS_EmptySet
    <3> QED
      BY <2>3, <3>1, <3>2
  <2>5. /\ Waiting \cap gone = {} /\ Waiting \cup gone = 1..arrived
        /\ Cardinality(Waiting) = Len(low) + Len(high)
    BY <2>2, <2>3, <2>4, Zenon DEF L, H
  <2> QED
    BY <2>1, <2>5 DEF AccountsExact, EveryPacketOnce
<1> QED
  BY <1>1, CompositeInvariance, PTL
================================================================================
