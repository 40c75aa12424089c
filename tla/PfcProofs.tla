-------------------------------- MODULE PfcProofs ---------------------------------
(* Proofs about Pfc, for every network of hosts, switches and links, every load,   *)
(* thresholds and delays, and whatever the queues drop.                            *)
EXTENDS Pfc, FiniteSetTheorems, FunctionTheorems, TLAPS

-----------------------------------------------------------------------------
(* The inductive invariant *)

Sends == {"READY", "PAUSED", "PAUSE_RECEIVED"}

\* The completions of a port come in the order they were asked for.
Sorted(u) == \A i, j \in DOMAIN u : i <= j => u[i] <= u[j]

\* Port x may have queue q, count z, state d, packet g in transmission, and
\* completions u. A host counts what it has queued and what it transmits, at least; an
\* output counts exactly what it has queued, has one completion pending while it
\* transmits and none otherwise, transmits only what it has, and no more once it is
\* paused.
PortOK(x, q, z, d, g, u) ==
    /\ q \in Seq(Packet) /\ z \in Nat /\ d \in Sends /\ u \in Seq(0..TxTime) /\ Sorted(u)
    /\ x \in Hosts => /\ g \in Packet \cup {NoPacket}
                      /\ z >= Mtu * Len(q) + (IF g = NoPacket THEN 0 ELSE Mtu)
    /\ x \in Outputs => /\ g \in {NoPacket, Busy}
                        /\ z = Mtu * Len(q)
                        /\ Len(u) = IF g = NoPacket THEN 0 ELSE 1
                        /\ g = Busy => q # <<>>
                        /\ d = "PAUSED" => u = <<>>

PortsOK(s) ==
    /\ s = [queue |-> s.queue, size |-> s.size, send |-> s.send, sending |-> s.sending,
            due |-> s.due]
    /\ s.queue = [x \in Ports |-> s.queue[x]] /\ s.size = [x \in Ports |-> s.size[x]]
    /\ s.send = [x \in Ports |-> s.send[x]] /\ s.sending = [x \in Ports |-> s.sending[x]]
    /\ s.due = [x \in Ports |-> s.due[x]]
    /\ \A x \in Ports : PortOK(x, s.queue[x], s.size[x], s.send[x], s.sending[x], s.due[x])

\* A pipe with delay d holds its packets in the order they came.
PipeOK(p, d) ==
    /\ p \in Seq([pkt : Packet, left : 0..d])
    /\ \A i, j \in DOMAIN p : i <= j => p[i].left <= p[j].left

PipesOK(p, d) == p = [x \in Links |-> p[x]] /\ \A x \in Links : PipeOK(p[x], d[x])

\* An output knows the input of each of its packets. (It also knows those of packets
\* that it has dropped.)
InputsKnown ==
    /\ vq \in [Outputs -> Seq(Links)]
    /\ \A o \in Outputs : Len(queue[o]) <= Len(vq[o])

\* The entries of input x in the lists v of the outputs.
Entries(v, x) ==
    {e \in Outputs \X Nat : e[2] \in 1..Len(v[e[1]]) /\ v[e[1]][e[2]] = x}

\* An input queue counts the packets in the pipe of its switch, and its entries in
\* the lists of the outputs.
BytesCounted ==
    /\ bytes \in [Links -> Nat]
    /\ \A x \in Links :
        /\ IsFiniteSet(Entries(vq, x))
        /\ bytes[x] = Mtu * (Len(cross[x]) + Cardinality(Entries(vq, x)))

\* The buffer of an output keeps a slot free.
SlotsOK ==
    /\ ring \in [Outputs -> [size : Nat, pop : {0, 1}, last : Packet \cup {NoPacket}]]
    /\ \A o \in Outputs : /\ Len(queue[o]) < ring[o].size
                          /\ ring[o].pop + Len(queue[o]) <= ring[o].size

IInv ==
    /\ sent \in [Hosts -> Nat] /\ \A h \in Hosts : sent[h] <= Len(Load[h])
    /\ PortsOK(State)
    /\ PipesOK(link, LinkDelay) /\ PipesOK(cross, SwitchDelay)
    /\ InputsKnown
    /\ BytesCounted
    /\ SlotsOK
    /\ recv \in [Links -> {"READY", "PAUSED"}]
    /\ PauseAgreed
    /\ arrived \subseteq Packet

-----------------------------------------------------------------------------
(* Sequences *)

\* A completion asked for last comes last.
LEMMA SortedAppend ==
    ASSUME NEW n \in Nat, NEW u \in Seq(0..n), Sorted(u)
    PROVE  Append(u, n) \in Seq(0..n) /\ Sorted(Append(u, n))
  BY SMTT(60) DEF Sorted

LEMMA SortedTail ==
    ASSUME NEW n \in Nat, NEW u \in Seq(0..n), Sorted(u), u # <<>>
    PROVE  Tail(u) \in Seq(0..n) /\ Sorted(Tail(u))
<1>1. \A i \in DOMAIN Tail(u) : Tail(u)[i] = u[i + 1] /\ i + 1 \in DOMAIN u
  OBVIOUS
<1> QED
  BY <1>1 DEF Sorted

\* When nothing is due, all that is to come is one tick nearer.
LEMMA SortedAged ==
    ASSUME NEW n \in Nat, NEW u \in Seq(0..n), Sorted(u), u # <<>> => Head(u) # 0
    PROVE  /\ [i \in DOMAIN u |-> u[i] - 1] \in Seq(0..n)
           /\ Len([i \in DOMAIN u |-> u[i] - 1]) = Len(u)
           /\ Sorted([i \in DOMAIN u |-> u[i] - 1])
<1> DEFINE k == Len(u)
           v == [i \in 1..k |-> u[i] - 1]
<1>1. k \in Nat /\ DOMAIN u = 1..k /\ \A i \in 1..k : u[i] \in 0..n
  OBVIOUS
<1>2. \A i \in 1..k : u[i] - 1 \in 0..n
  <2> TAKE i \in 1..k
  <2>1. 1 \in 1..k /\ 1 <= i /\ u[1] # 0
    BY <1>1
  <2>2. u[1] <= u[i]
    BY <1>1, <2>1 DEF Sorted
  <2> QED
    BY <1>1, <2>1, <2>2
<1> HIDE DEF k
<1>3. v \in Seq(0..n) /\ Len(v) = k /\ DOMAIN v = 1..k
  BY <1>1, <1>2
<1>4. Sorted(v)
  <2> SUFFICES ASSUME NEW i \in 1..k, NEW j \in 1..k, i <= j
               PROVE  v[i] <= v[j]
    BY <1>3 DEF Sorted
  <2>1. u[i] <= u[j]
    BY <1>1 DEF Sorted
  <2> QED
    BY <1>1, <2>1
<1> QED
  BY <1>1, <1>3, <1>4 DEF k

\* The same for the packets in a pipe.
LEMMA PipeAppend ==
    ASSUME NEW d \in Nat, NEW p, PipeOK(p, d), NEW k \in Packet
    PROVE  PipeOK(Append(p, [pkt |-> k, left |-> d]), d)
<1> DEFINE e == [pkt |-> k, left |-> d]
           n == Len(p)
           q == Append(p, e)
           Cell == [pkt : Packet, left : 0..d]
<1>1. e \in Cell /\ e.left = d
  OBVIOUS
<1>2. p \in Seq(Cell) /\ \A i, j \in DOMAIN p : i <= j => p[i].left <= p[j].left
  BY DEF PipeOK
<1>3. n \in Nat /\ DOMAIN p = 1..n /\ \A i \in 1..n : p[i] \in Cell
  <2> HIDE DEF Cell
  <2> QED
    BY <1>2
<1>4. \A i \in 1..n : p[i].left \in Nat /\ p[i].left <= d
  BY <1>3
<1> HIDE DEF e, Cell
<1>5. /\ q \in Seq(Cell) /\ DOMAIN q = 1..(n + 1) /\ q[n + 1] = e
      /\ \A i \in 1..n : q[i] = p[i]
  BY <1>1, <1>2
<1> HIDE DEF n, q
<1>6. \A i, j \in 1..(n + 1) : i <= j => q[i].left <= q[j].left
  <2> SUFFICES ASSUME NEW i \in 1..(n + 1), NEW j \in 1..(n + 1), i <= j
               PROVE  q[i].left <= q[j].left
    OBVIOUS
  <2>1. CASE j = n + 1 /\ i = n + 1
    BY <1>1, <1>5, <2>1
  <2>2. CASE j = n + 1 /\ i # n + 1
    <3>1. i \in 1..n
      BY <1>3, <2>2
    <3> QED
      BY <1>1, <1>4, <1>5, <2>2, <3>1
  <2>3. CASE j # n + 1
    <3>1. i \in 1..n /\ j \in 1..n
      BY <1>3, <2>3
    <3> QED
      BY <1>2, <1>3, <1>5, <3>1
  <2> QED
    BY <2>1, <2>2, <2>3
<1> QED
  BY <1>5, <1>6 DEF PipeOK, q, e, Cell

LEMMA PipeTail ==
    ASSUME NEW d \in Nat, NEW p, PipeOK(p, d), p # <<>>
    PROVE  PipeOK(Tail(p), d) /\ Head(p).pkt \in Packet /\ Len(Tail(p)) = Len(p) - 1
<1> DEFINE Cell == [pkt : Packet, left : 0..d]
<1>1. p \in Seq(Cell) /\ \A i, j \in DOMAIN p : i <= j => p[i].left <= p[j].left
  BY DEF PipeOK
<1>2. Head(p).pkt \in Packet
  <2>1. Head(p) \in Cell
    <3> HIDE DEF Cell
    <3> QED
      BY <1>1
  <2> QED
    BY <2>1
<1> HIDE DEF Cell
<1>3. /\ Tail(p) \in Seq(Cell) /\ Len(Tail(p)) = Len(p) - 1
      /\ \A i \in DOMAIN Tail(p) : Tail(p)[i] = p[i + 1] /\ i + 1 \in DOMAIN p /\ i \in Nat
  BY <1>1
<1>4. \A i, j \in DOMAIN Tail(p) : i <= j => Tail(p)[i].left <= Tail(p)[j].left
  <2> TAKE i, j \in DOMAIN Tail(p)
  <2>1. i <= j => i + 1 <= j + 1
    BY <1>3
  <2> QED
    BY <1>1, <1>3, <2>1
<1> QED
  BY <1>2, <1>3, <1>4 DEF PipeOK, Cell

LEMMA PipeAged ==
    ASSUME NEW d \in Nat, NEW p, PipeOK(p, d), p # <<>> => Head(p).left # 0
    PROVE  PipeOK(Aged(p), d) /\ Len(Aged(p)) = Len(p)
<1> DEFINE Cell == [pkt : Packet, left : 0..d]
           n == Len(p)
           q == [i \in 1..n |-> [pkt |-> p[i].pkt, left |-> p[i].left - 1]]
<1>1. p \in Seq(Cell) /\ \A i, j \in DOMAIN p : i <= j => p[i].left <= p[j].left
  BY DEF PipeOK
<1>2. n \in Nat /\ DOMAIN p = 1..n /\ \A i \in 1..n : p[i] \in Cell
  <2> HIDE DEF Cell
  <2> QED
    BY <1>1
<1>3. \A i \in 1..n : p[i].pkt \in Packet /\ p[i].left \in 0..d
  BY <1>2
<1>4. \A i \in 1..n : p[i].left - 1 \in 0..d
  <2> TAKE i \in 1..n
  <2>1. 1 \in 1..n /\ 1 <= i
    BY <1>2
  <2>2. p[1].left # 0
    BY <1>1, <2>1
  <2>3. p[1].left <= p[i].left
    BY <1>1, <1>2, <2>1
  <2> QED
    BY <1>3, <2>1, <2>2, <2>3
<1>5. Aged(p) = q
  <2>1. \A i \in 1..n : [p[i] EXCEPT !.left = @ - 1]
                          = [pkt |-> p[i].pkt, left |-> p[i].left - 1]
    BY <1>2
  <2> QED
    BY <1>2, <2>1 DEF Aged
<1> HIDE DEF n
<1>6. \A i \in 1..n : /\ q[i].left = p[i].left - 1
                      /\ [pkt |-> p[i].pkt, left |-> p[i].left - 1] \in Cell
  BY <1>3, <1>4
<1>7. q \in Seq(Cell) /\ DOMAIN q = 1..n /\ Len(q) = n
  <2> HIDE DEF Cell
  <2> QED
    BY <1>2, <1>6
<1>8. \A i, j \in 1..n : i <= j => q[i].left <= q[j].left
  <2> SUFFICES ASSUME NEW i \in 1..n, NEW j \in 1..n, i <= j
               PROVE  q[i].left <= q[j].left
    OBVIOUS
  <2>1. p[i].left <= p[j].left
    BY <1>1, <1>2
  <2> QED
    BY <1>3, <1>6, <2>1, SMTT(60)
<1> QED
  BY <1>5, <1>7, <1>8 DEF PipeOK, n

\* A set of natural numbers that is not empty has a least element.
LEMMA LeastNatural ==
    ASSUME NEW S \in SUBSET Nat, S # {}
    PROVE  \E m \in S : \A k \in S : m <= k
<1> DEFINE R == StrictSubsetOrdering(Nat)
           T == {1..n : n \in S}
<1>1. IsWellFoundedOn(R, FiniteSubsetsOf(Nat))
  BY FS_StrictSubsetOrderingWellFounded
<1>2. T \subseteq FiniteSubsetsOf(Nat) /\ T # {}
  <2>1. \A n \in Nat : IsFiniteSet(1..n) /\ 1..n \subseteq Nat
    BY FS_Interval
  <2> QED
    BY <2>1 DEF FiniteSubsetsOf
<1>3. PICK t \in T : \A u \in T : ~(<<u, t>> \in R)
  <2> HIDE DEF R, T
  <2> QED
    BY <1>1, <1>2, WFMin
<1>4. PICK m \in S : t = 1..m
  OBVIOUS
<1>5. ASSUME NEW k \in S, k < m
      PROVE  FALSE
  <2>1. 1..k \subseteq 1..m /\ m \in 1..m /\ m \notin 1..k
    BY <1>5
  <2>2. <<1..k, 1..m>> \in R
    BY <2>1 DEF StrictSubsetOrdering
  <2> QED
    BY <1>3, <1>4, <2>2
<1> QED
  BY <1>5

\* f[n] is what completeService keeps of the first n packets of output o: each packet
\* in turn, or, without a budget that outlasts the wait, perhaps not.
Builds(o, f) ==
    /\ Kept(o) = f[Len(queue[o])] /\ f[0] = <<>>
    /\ \A n \in 0..Len(queue[o]) : f[n] \in Seq(Packet) /\ Len(f[n]) <= n
    /\ \A n \in 1..Len(queue[o]) :
          \/ f[n] = Append(f[n - 1], queue[o][n])
          \/ f[n] = f[n - 1] /\ queue[o][n].src \notin Budgeted

LEMMA KeptBuilt ==
    ASSUME NEW o, queue[o] \in Seq(Packet)
    PROVE  \E f : Builds(o, f)
<1> DEFINE L == Len(queue[o])
           More(before, n) ==
               IF queue[o][n].src \in Budgeted \/ Slot(o, Len(before)).src \in Exempt
               THEN Append(before, queue[o][n]) ELSE before
           Val(f, n) == IF n = 0 THEN <<>> ELSE More(f[n - 1], n)
           kept == CHOOSE f : f = [n \in 0..L |-> Val(f, n)]
<1>1. Kept(o) = kept[L]
  BY DEF Kept
<1>2. L \in Nat /\ \A n \in 1..L : queue[o][n] \in Packet
  OBVIOUS
<1>3. \A n \in 1..L, b \in Seq(Packet) :
        More(b, n) \in Seq(Packet) /\ Len(More(b, n)) <= Len(b) + 1
  <2> SUFFICES ASSUME NEW n \in 1..L, NEW b \in Seq(Packet)
               PROVE  More(b, n) \in Seq(Packet) /\ Len(More(b, n)) <= Len(b) + 1
    OBVIOUS
  <2> DEFINE p == queue[o][n]
  <2>1. p \in Packet
    BY <1>2
  <2> HIDE DEF p
  <2>2. Append(b, p) \in Seq(Packet) /\ Len(Append(b, p)) = Len(b) + 1 /\ Len(b) \in Nat
    BY <2>1
  <2>3. More(b, n) = Append(b, p) \/ More(b, n) = b
    BY DEF p
  <2> HIDE DEF More
  <2> QED
    BY <2>2, <2>3, SMTT(60)
<1> HIDE DEF L, More
\* The recursion defines a function.
<1>4. \E f : f = [n \in 0..L |-> Val(f, n)]
  <2> DEFINE Good(g, m) == /\ g \in [0..m -> Seq(Packet)]
                           /\ \A n \in 0..m : g[n] = Val(g, n)
             bad == {m \in 0..L : ~\E g : Good(g, m)}
  <2>1. ASSUME bad # {}
        PROVE  FALSE
    <3>1. PICK m \in bad : \A k \in bad : m <= k
      <4>1. bad \in SUBSET Nat
        BY <1>2
      <4> HIDE DEF bad
      <4> QED
        BY <2>1, <4>1, LeastNatural
    <3>2. m \in 0..L /\ ~\E g : Good(g, m)
      OBVIOUS
    <3>3. CASE m = 0
      <4> DEFINE g == [n \in 0..0 |-> <<>>]
      <4>1. Good(g, m)
        BY <3>3
      <4> QED
        BY <3>2, <4>1
    <3>4. CASE m # 0
      <4>1. m - 1 \in 0..L /\ m - 1 \notin bad /\ m \in 1..L
        <5>1. m - 1 \in 0..L /\ ~(m <= m - 1) /\ m \in 1..L
          BY <1>2, <3>2, <3>4
        <5> HIDE DEF bad
        <5> QED
          BY <3>1, <5>1
      <4>2. PICK g : Good(g, m - 1)
        BY <4>1
      <4> DEFINE v == More(g[m - 1], m)
                 h == [n \in 0..m |-> IF n = m THEN v ELSE g[n]]
      <4>3. v \in Seq(Packet)
        <5>1. g[m - 1] \in Seq(Packet)
          BY <3>2, <4>1, <4>2
        <5> QED
          BY <1>3, <4>1, <5>1
      <4>4. h \in [0..m -> Seq(Packet)]
        BY <1>2, <3>2, <4>2, <4>3
      <4>5. ASSUME NEW n \in 0..m
            PROVE  h[n] = Val(h, n)
        <5>1. CASE n = 0
          BY <3>2, <3>4, <4>2, <5>1
        <5>2. CASE n # 0
          <6>1. n - 1 \in 0..m /\ n - 1 # m /\ n - 1 \in 0..(m - 1)
            BY <3>2, <5>2
          <6>2. h[n - 1] = g[n - 1]
            BY <6>1
          <6>3. Val(h, n) = More(g[n - 1], n)
            BY <5>2, <6>2
          <6>4. CASE n = m
            BY <6>3, <6>4
          <6>5. CASE n # m
            <7>1. n \in 0..(m - 1)
              BY <3>2, <6>5
            <7>2. h[n] = g[n] /\ g[n] = More(g[n - 1], n)
              BY <4>2, <5>2, <6>5, <7>1
            <7> QED
              BY <6>3, <7>2
          <6> QED
            BY <6>4, <6>5
        <5> QED
          BY <5>1, <5>2
      <4>6. Good(h, m)
        BY <4>4, <4>5
      <4> QED
        BY <3>2, <4>6
    <3> QED
      BY <3>3, <3>4
  <2>2. PICK g : Good(g, L)
    <3>1. L \in 0..L
      BY <1>2
    <3> HIDE DEF Good
    <3>2. L \notin bad
      <4> HIDE DEF bad
      <4> QED
        BY <2>1
    <3> QED
      BY <3>1, <3>2
  <2>3. g = [n \in 0..L |-> Val(g, n)]
    BY <2>2
  <2> QED
    BY <2>3
<1>5. kept = [n \in 0..L |-> Val(kept, n)]
  BY <1>4
<1> HIDE DEF kept
<1>6. \A n \in 0..L : kept[n] \in Seq(Packet) /\ Len(kept[n]) <= n
  <2> DEFINE bad == {n \in 0..L : ~(kept[n] \in Seq(Packet) /\ Len(kept[n]) <= n)}
  <2> SUFFICES ASSUME bad # {}
               PROVE  FALSE
    OBVIOUS
  <2>1. PICK m \in bad : \A k \in bad : m <= k
    <3>1. bad \in SUBSET Nat
      BY <1>2
    <3> HIDE DEF bad
    <3> QED
      BY <3>1, LeastNatural
  <2>2. CASE m = 0
    <3>1. 0 \in 0..L
      BY <1>2
    <3>2. kept[0] = <<>>
      BY <1>5, <3>1
    <3>3. kept[0] \in Seq(Packet) /\ Len(kept[0]) <= 0
      BY <3>2
    <3> QED
      BY <2>2, <3>3
  <2>3. CASE m # 0
    <3>1. m - 1 \in 0..L /\ ~(m <= m - 1) /\ m \in 1..L /\ m \in 0..L
      BY <1>2, <2>3
    <3>2. kept[m - 1] \in Seq(Packet) /\ Len(kept[m - 1]) <= m - 1
      BY <2>1, <3>1
    <3>3. kept[m] = More(kept[m - 1], m)
      BY <1>5, <2>3, <3>1
    <3>4. kept[m] \in Seq(Packet) /\ Len(kept[m]) <= m
      BY <1>3, <3>1, <3>2, <3>3
    <3> QED
      BY <3>4
  <2> QED
    BY <2>2, <2>3
<1>7. ASSUME NEW n \in 1..L
      PROVE  \/ kept[n] = Append(kept[n - 1], queue[o][n])
             \/ kept[n] = kept[n - 1] /\ queue[o][n].src \notin Budgeted
  <2>1. n \in 0..L /\ n # 0
    BY <1>2
  <2>2. kept[n] = More(kept[n - 1], n)
    BY <1>5, <2>1
  <2> QED
    BY <2>2 DEF More
<1>8. kept[0] = <<>>
  BY <1>2, <1>5
<1>9. Builds(o, kept)
  BY <1>1, <1>6, <1>7, <1>8 DEF L, Builds
<1> QED
  BY <1>9

\* What completeService keeps are packets of the queue, and no more than there were.
LEMMA KeptFits ==
    ASSUME NEW o, queue[o] \in Seq(Packet)
    PROVE  Kept(o) \in Seq(Packet) /\ Len(Kept(o)) <= Len(queue[o])
<1> DEFINE L == Len(queue[o])
<1>1. PICK f : Builds(o, f)
  BY KeptBuilt
<1>2. L \in Nat /\ L \in 0..L
  OBVIOUS
<1> HIDE DEF L
<1> QED
  BY <1>1, <1>2 DEF Builds, L

-----------------------------------------------------------------------------
(* The ports *)

\* State t differs from state s at most in what port x has.
Changed(s, t, x, q, z, d, g, u) ==
    /\ t = [queue |-> t.queue, size |-> t.size, send |-> t.send, sending |-> t.sending,
            due |-> t.due]
    /\ t.queue = [y \in Ports |-> IF y = x THEN q ELSE s.queue[y]]
    /\ t.size = [y \in Ports |-> IF y = x THEN z ELSE s.size[y]]
    /\ t.send = [y \in Ports |-> IF y = x THEN d ELSE s.send[y]]
    /\ t.sending = [y \in Ports |-> IF y = x THEN g ELSE s.sending[y]]
    /\ t.due = [y \in Ports |-> IF y = x THEN u ELSE s.due[y]]

\* Replacing one value of a function of the ports, or none.
LEMMA OneField ==
    ASSUME NEW f, f = [y \in Ports |-> f[y]], NEW x \in Ports, NEW v
    PROVE  /\ [f EXCEPT ![x] = v] = [y \in Ports |-> IF y = x THEN v ELSE f[y]]
           /\ f = [y \in Ports |-> IF y = x THEN f[x] ELSE f[y]]
  OBVIOUS

\* A state built from the values of its port x.
LEMMA Changing ==
    ASSUME NEW s, PortsOK(s), NEW x \in Ports, NEW q, NEW z, NEW d, NEW g, NEW u, NEW t,
           t = [queue   |-> [s.queue EXCEPT ![x] = q],
                size    |-> [s.size EXCEPT ![x] = z],
                send    |-> [s.send EXCEPT ![x] = d],
                sending |-> [s.sending EXCEPT ![x] = g],
                due     |-> [s.due EXCEPT ![x] = u]]
    PROVE  Changed(s, t, x, q, z, d, g, u)
<1> DEFINE tq == [s.queue EXCEPT ![x] = q]
           tz == [s.size EXCEPT ![x] = z]
           td == [s.send EXCEPT ![x] = d]
           tg == [s.sending EXCEPT ![x] = g]
           tu == [s.due EXCEPT ![x] = u]
<1>1. /\ s.queue = [y \in Ports |-> s.queue[y]] /\ s.size = [y \in Ports |-> s.size[y]]
      /\ s.send = [y \in Ports |-> s.send[y]] /\ s.sending = [y \in Ports |-> s.sending[y]]
      /\ s.due = [y \in Ports |-> s.due[y]]
  BY DEF PortsOK
<1>2. /\ tq = [y \in Ports |-> IF y = x THEN q ELSE s.queue[y]]
      /\ tz = [y \in Ports |-> IF y = x THEN z ELSE s.size[y]]
      /\ td = [y \in Ports |-> IF y = x THEN d ELSE s.send[y]]
      /\ tg = [y \in Ports |-> IF y = x THEN g ELSE s.sending[y]]
      /\ tu = [y \in Ports |-> IF y = x THEN u ELSE s.due[y]]
  <2>1. tq = [y \in Ports |-> IF y = x THEN q ELSE s.queue[y]]
    BY <1>1, OneField
  <2>2. tz = [y \in Ports |-> IF y = x THEN z ELSE s.size[y]]
    BY <1>1, OneField
  <2>3. td = [y \in Ports |-> IF y = x THEN d ELSE s.send[y]]
    BY <1>1, OneField
  <2>4. tg = [y \in Ports |-> IF y = x THEN g ELSE s.sending[y]]
    BY <1>1, OneField
  <2>5. tu = [y \in Ports |-> IF y = x THEN u ELSE s.due[y]]
    BY <1>1, OneField
  <2> QED
    BY <2>1, <2>2, <2>3, <2>4, <2>5
<1>3. t = [queue |-> tq, size |-> tz, send |-> td, sending |-> tg, due |-> tu]
  OBVIOUS
<1> HIDE DEF tq, tz, td, tg, tu
<1>4. /\ t.queue = tq /\ t.size = tz /\ t.send = td /\ t.sending = tg /\ t.due = tu
      /\ t = [queue |-> t.queue, size |-> t.size, send |-> t.send,
              sending |-> t.sending, due |-> t.due]
  BY <1>3, SMTT(60)
<1> QED
  BY <1>2, <1>4 DEF Changed

\* If what port x has then is right, so is the state.
LEMMA ChangedOK ==
    ASSUME NEW s, PortsOK(s), NEW x \in Ports, NEW q, NEW z, NEW d, NEW g, NEW u, NEW t,
           Changed(s, t, x, q, z, d, g, u), PortOK(x, q, z, d, g, u)
    PROVE  PortsOK(t)
<1>1. /\ t.queue = [y \in Ports |-> t.queue[y]] /\ t.size = [y \in Ports |-> t.size[y]]
      /\ t.send = [y \in Ports |-> t.send[y]] /\ t.sending = [y \in Ports |-> t.sending[y]]
      /\ t.due = [y \in Ports |-> t.due[y]]
  BY DEF Changed
<1>2. ASSUME NEW y \in Ports
      PROVE  PortOK(y, t.queue[y], t.size[y], t.send[y], t.sending[y], t.due[y])
  <2>1. CASE y = x
    <3>1. /\ t.queue[y] = q /\ t.size[y] = z /\ t.send[y] = d /\ t.sending[y] = g
          /\ t.due[y] = u
      BY <2>1 DEF Changed
    <3> QED
      BY <2>1, <3>1
  <2>2. CASE y # x
    <3>1. /\ t.queue[y] = s.queue[y] /\ t.size[y] = s.size[y] /\ t.send[y] = s.send[y]
          /\ t.sending[y] = s.sending[y] /\ t.due[y] = s.due[y]
      BY <2>2 DEF Changed
    <3>2. PortOK(y, s.queue[y], s.size[y], s.send[y], s.sending[y], s.due[y])
      BY DEF PortsOK
    <3> QED
      BY <3>1, <3>2
  <2> QED
    BY <2>1, <2>2
<1> QED
  BY <1>1, <1>2 DEF PortsOK, Changed

\* What a state has at its ports after a change.
LEMMA ChangedValues ==
    ASSUME NEW s, NEW x \in Ports, NEW q, NEW z, NEW d, NEW g, NEW u, NEW t,
           Changed(s, t, x, q, z, d, g, u)
    PROVE  /\ t.queue[x] = q /\ t.size[x] = z /\ t.send[x] = d /\ t.sending[x] = g
           /\ t.due[x] = u
           /\ \A y \in Ports \ {x} : t.queue[y] = s.queue[y] /\ t.send[y] = s.send[y]
  BY DEF Changed

\* beginService, of each of the fields.
BegunQueue(s, x) ==
    IF x \in Outputs \/ s.queue[x] = <<>> THEN s.queue[x] ELSE Tail(s.queue[x])
BegunSending(s, x) ==
    IF x \in Outputs THEN Busy
    ELSE IF s.queue[x] = <<>> THEN NoPacket ELSE Head(s.queue[x])

LEMMA BeginChanges ==
    ASSUME NEW s, PortsOK(s), NEW x \in Ports
    PROVE  Changed(s, BeginService(s, x), x, BegunQueue(s, x), s.size[x], s.send[x],
                   BegunSending(s, x), Append(s.due[x], TxTime))
<1> DEFINE b == BeginService(s, x)
           u == Append(s.due[x], TxTime)
           du == [s.due EXCEPT ![x] = u]
           timed == [s EXCEPT !.due[x] = Append(@, TxTime)]
<1>1. /\ s = [queue |-> s.queue, size |-> s.size, send |-> s.send, sending |-> s.sending,
              due |-> s.due]
      /\ s.queue = [s.queue EXCEPT ![x] = s.queue[x]]
      /\ s.size = [s.size EXCEPT ![x] = s.size[x]]
      /\ s.send = [s.send EXCEPT ![x] = s.send[x]]
  BY DEF PortsOK
<1>2. timed = [queue |-> s.queue, size |-> s.size, send |-> s.send,
               sending |-> s.sending, due |-> du]
  BY <1>1, SMTT(60)
<1>3. b = IF x \in Outputs THEN [timed EXCEPT !.sending[x] = Busy]
          ELSE IF s.queue[x] = <<>> THEN [timed EXCEPT !.sending[x] = NoPacket]
          ELSE [timed EXCEPT !.sending[x] = Head(s.queue[x]), !.queue[x] = Tail(@)]
  BY DEF BeginService
<1> HIDE DEF b, timed, du
<1>4. b = [queue   |-> [s.queue EXCEPT ![x] = BegunQueue(s, x)],
           size    |-> s.size, send |-> s.send,
           sending |-> [s.sending EXCEPT ![x] = BegunSending(s, x)],
           due     |-> du]
  <2>1. CASE x \in Outputs
    BY <1>1, <1>2, <1>3, <2>1 DEF BegunQueue, BegunSending
  <2>2. CASE x \notin Outputs /\ s.queue[x] = <<>>
    BY <1>1, <1>2, <1>3, <2>2 DEF BegunQueue, BegunSending
  <2>3. CASE x \notin Outputs /\ s.queue[x] # <<>>
    BY <1>2, <1>3, <2>3 DEF BegunQueue, BegunSending
  <2> QED
    BY <2>1, <2>2, <2>3
<1>5. b = [queue   |-> [s.queue EXCEPT ![x] = BegunQueue(s, x)],
           size    |-> [s.size EXCEPT ![x] = s.size[x]],
           send    |-> [s.send EXCEPT ![x] = s.send[x]],
           sending |-> [s.sending EXCEPT ![x] = BegunSending(s, x)],
           due     |-> [s.due EXCEPT ![x] = u]]
  BY <1>1, <1>4 DEF du
<1>6. Changed(s, b, x, BegunQueue(s, x), s.size[x], s.send[x], BegunSending(s, x), u)
  <2> HIDE DEF u
  <2> QED
    BY <1>5, Changing
<1> QED
  BY <1>6 DEF b

\* The types of what a port has.
LEMMA PortTypes ==
    ASSUME NEW s, PortsOK(s), NEW x \in Ports
    PROVE  /\ s.queue[x] \in Seq(Packet) /\ s.size[x] \in Nat /\ s.send[x] \in Sends
           /\ s.due[x] \in Seq(0..TxTime) /\ Sorted(s.due[x])
           /\ PortOK(x, s.queue[x], s.size[x], s.send[x], s.sending[x], s.due[x])
  BY DEF PortsOK, PortOK

\* Queues and pauses of the outputs are as they were, and so is every pause.
Untouched(s, t) ==
    /\ \A o \in Outputs : t.queue[o] = s.queue[o]
    /\ \A y \in Ports : t.send[y] = s.send[y]

\* beginService keeps the ports right, if an output has a packet, transmits none and
\* is not paused.
LEMMA BeginOK ==
    ASSUME NEW s, PortsOK(s), NEW x \in Ports,
           x \in Outputs => /\ s.sending[x] = NoPacket /\ s.queue[x] # <<>>
                            /\ s.send[x] = "READY"
    PROVE  PortsOK(BeginService(s, x)) /\ Untouched(s, BeginService(s, x))
<1> DEFINE q == s.queue[x]
           z == s.size[x]
           d == s.send[x]
           g == s.sending[x]
           u == s.due[x]
           q2 == BegunQueue(s, x)
           g2 == BegunSending(s, x)
           u2 == Append(u, TxTime)
           t == BeginService(s, x)
<1>1. /\ q \in Seq(Packet) /\ z \in Nat /\ d \in Sends /\ u \in Seq(0..TxTime) /\ Sorted(u)
      /\ PortOK(x, q, z, d, g, u)
  BY PortTypes
<1>2. Changed(s, t, x, q2, z, d, g2, u2)
  BY BeginChanges
<1>3. x \in Outputs => g = NoPacket /\ q # <<>> /\ d = "READY"
  OBVIOUS
<1>4. /\ q2 = IF x \in Outputs \/ q = <<>> THEN q ELSE Tail(q)
      /\ g2 = IF x \in Outputs THEN Busy ELSE IF q = <<>> THEN NoPacket ELSE Head(q)
  BY DEF BegunQueue, BegunSending
<1>5. TxTime \in Nat /\ Mtu \in Nat /\ Hosts \cap Outputs = {} /\ NoPacket # Busy
  BY PfcAssumption
<1> HIDE DEF q, z, d, g, u, q2, g2, t
<1>6. u2 \in Seq(0..TxTime) /\ Sorted(u2) /\ Len(u2) = Len(u) + 1
  <2>1. Append(u, TxTime) \in Seq(0..TxTime) /\ Sorted(Append(u, TxTime))
    BY <1>1, <1>5, SortedAppend
  <2> QED
    BY <1>1, <2>1
<1>7. q2 \in Seq(Packet)
  BY <1>1, <1>4
<1> HIDE DEF u2
<1>8. ASSUME x \in Hosts
      PROVE  /\ g2 \in Packet \cup {NoPacket}
             /\ z >= Mtu * Len(q2) + (IF g2 = NoPacket THEN 0 ELSE Mtu)
  <2>1. x \notin Outputs
    BY <1>5, <1>8
  <2>2. z >= Mtu * Len(q)
    <3>1. z >= Mtu * Len(q) + (IF g = NoPacket THEN 0 ELSE Mtu)
      BY <1>1, <1>8 DEF PortOK
    <3>2. Mtu * Len(q) \in Nat
      BY <1>1, <1>5
    <3> QED
      BY <1>1, <1>5, <3>1, <3>2
  <2>3. CASE q = <<>>
    BY <1>1, <1>4, <1>5, <2>1, <2>2, <2>3
  <2>4. CASE q # <<>>
    <3>1. g2 = Head(q) /\ g2 \in Packet /\ q2 = Tail(q) /\ Len(q2) = Len(q) - 1 /\ Len(q) \in Nat
      BY <1>1, <1>4, <2>1, <2>4
    <3>2. Mtu * (Len(q) - 1) = Mtu * Len(q) - Mtu
      <4>1. \A m, n \in Int : m * (n - 1) = m * n - m
        OBVIOUS
      <4> QED
        BY <1>5, <3>1, <4>1
    <3>3. Mtu * Len(q) \in Nat
      BY <1>5, <3>1
    <3> DEFINE m == Mtu * Len(q)
               k == Mtu * Len(q2)
    <3>4. k = m - Mtu /\ z >= m /\ m \in Nat /\ g2 \in Packet
      BY <2>2, <3>1, <3>2, <3>3
    <3> HIDE DEF m, k
    <3>5. z >= k + (IF g2 = NoPacket THEN 0 ELSE Mtu)
      BY <1>1, <1>5, <3>4
    <3> QED
      BY <3>4, <3>5 DEF k
  <2> QED
    BY <2>3, <2>4
<1>9. ASSUME x \in Outputs
      PROVE  /\ g2 \in {NoPacket, Busy} /\ z = Mtu * Len(q2)
             /\ Len(u2) = IF g2 = NoPacket THEN 0 ELSE 1
             /\ g2 = Busy => q2 # <<>>
             /\ d = "PAUSED" => u2 = <<>>
  <2>1. Len(u) = 0 /\ z = Mtu * Len(q)
    BY <1>1, <1>3, <1>9 DEF PortOK
  <2> QED
    BY <1>3, <1>4, <1>5, <1>6, <1>9, <2>1
<1>10. PortOK(x, q2, z, d, g2, u2)
  BY <1>1, <1>6, <1>7, <1>8, <1>9 DEF PortOK
<1>11. PortsOK(t)
  BY <1>2, <1>10, ChangedOK
<1>12. Untouched(s, t)
  <2>1. /\ t.queue[x] = q2 /\ t.send[x] = d
        /\ \A y \in Ports \ {x} : t.queue[y] = s.queue[y] /\ t.send[y] = s.send[y]
    BY <1>2, ChangedValues
  <2>2. d = s.send[x] /\ q = s.queue[x]
    BY DEF d, q
  <2>3. Outputs \subseteq Ports
    BY DEF Ports
  <2> QED
    BY <1>4, <2>1, <2>2, <2>3 DEF Untouched
<1> QED
  BY <1>11, <1>12 DEF t

\* A pause of port x that is set or lifted.
LEMMA SendChanges ==
    ASSUME NEW s, PortsOK(s), NEW x \in Ports, NEW d \in Sends,
           x \in Outputs /\ d = "PAUSED" => s.due[x] = <<>>
    PROVE  LET t == [s EXCEPT !.send[x] = d]
           IN  /\ PortsOK(t) /\ t.send[x] = d
               /\ t.queue = s.queue /\ t.sending = s.sending /\ t.size = s.size
               /\ t.due = s.due
               /\ \A y \in Ports \ {x} : t.send[y] = s.send[y]
<1> DEFINE t == [s EXCEPT !.send[x] = d]
<1>1. /\ s = [queue |-> s.queue, size |-> s.size, send |-> s.send, sending |-> s.sending,
              due |-> s.due]
      /\ s.queue = [s.queue EXCEPT ![x] = s.queue[x]]
      /\ s.size = [s.size EXCEPT ![x] = s.size[x]]
      /\ s.sending = [s.sending EXCEPT ![x] = s.sending[x]]
      /\ s.due = [s.due EXCEPT ![x] = s.due[x]]
  BY DEF PortsOK
<1>2. t = [queue |-> s.queue, size |-> s.size, send |-> [s.send EXCEPT ![x] = d],
           sending |-> s.sending, due |-> s.due]
  BY <1>1
<1> HIDE DEF t
<1>3. t = [queue   |-> [s.queue EXCEPT ![x] = s.queue[x]],
           size    |-> [s.size EXCEPT ![x] = s.size[x]],
           send    |-> [s.send EXCEPT ![x] = d],
           sending |-> [s.sending EXCEPT ![x] = s.sending[x]],
           due     |-> [s.due EXCEPT ![x] = s.due[x]]]
  BY <1>1, <1>2
<1>4. Changed(s, t, x, s.queue[x], s.size[x], d, s.sending[x], s.due[x])
  BY <1>3, Changing
<1>5. PortOK(x, s.queue[x], s.size[x], d, s.sending[x], s.due[x])
  <2>1. PortOK(x, s.queue[x], s.size[x], s.send[x], s.sending[x], s.due[x])
    BY PortTypes
  <2> QED
    BY <2>1 DEF PortOK
<1>6. PortsOK(t)
  BY <1>4, <1>5, ChangedOK
<1>7. t.send[x] = d /\ \A y \in Ports \ {x} : t.send[y] = s.send[y]
  BY <1>4, ChangedValues
<1>8. /\ t.queue = s.queue /\ t.sending = s.sending /\ t.size = s.size /\ t.due = s.due
  BY <1>2
<1> QED
  BY <1>6, <1>7, <1>8 DEF t

\* A PAUSE: the port is no longer ready, and the others are as they were.
LEMMA ReceivePauseOK ==
    ASSUME NEW s, PortsOK(s), NEW x \in Ports
    PROVE  LET t == ReceivePause(s, x)
           IN  /\ PortsOK(t) /\ t.send[x] # "READY"
               /\ t.queue = s.queue
               /\ \A y \in Ports \ {x} : t.send[y] = s.send[y]
<1> DEFINE busy == IF x \in Hosts THEN s.size[x] > 0 ELSE s.sending[x] = Busy
           d == IF busy THEN "PAUSE_RECEIVED" ELSE "PAUSED"
           t == [s EXCEPT !.send[x] = d]
<1>1. ReceivePause(s, x) = t
  BY DEF ReceivePause
<1>2. d \in Sends /\ d # "READY"
  BY DEF Sends
<1>3. x \in Outputs /\ d = "PAUSED" => s.due[x] = <<>>
  <2> SUFFICES ASSUME x \in Outputs, d = "PAUSED"
               PROVE  s.due[x] = <<>>
    OBVIOUS
  <2>1. x \notin Hosts
    BY PfcAssumption
  <2>2. s.sending[x] # Busy
    BY <2>1
  <2> HIDE DEF d
  <2>3. /\ s.due[x] \in Seq(0..TxTime)
        /\ PortOK(x, s.queue[x], s.size[x], s.send[x], s.sending[x], s.due[x])
    BY PortTypes
  <2>4. Len(s.due[x]) = 0
    BY <2>2, <2>3 DEF PortOK
  <2> QED
    BY <2>3, <2>4
<1> HIDE DEF d
<1>4. /\ PortsOK(t) /\ t.send[x] = d
      /\ t.queue = s.queue /\ t.sending = s.sending /\ t.size = s.size
      /\ \A y \in Ports \ {x} : t.send[y] = s.send[y]
  <2> HIDE DEF t
  <2> QED
    BY <1>2, <1>3, SendChanges DEF t
<1> HIDE DEF t
<1> QED
  BY <1>1, <1>2, <1>4

\* A RESUME: the port is ready, and the others are as they were.
LEMMA ReceiveResumeOK ==
    ASSUME NEW s, PortsOK(s), NEW x \in Ports
    PROVE  LET t == ReceiveResume(s, x)
           IN  /\ PortsOK(t) /\ t.send[x] = "READY"
               /\ \A o \in Outputs : t.queue[o] = s.queue[o]
               /\ \A y \in Ports \ {x} : t.send[y] = s.send[y]
<1> DEFINE d == "READY"
           ready == [s EXCEPT !.send[x] = d]
           begins == IF x \in Hosts THEN s.size[x] > 0
                     ELSE s.queue[x] # <<>> /\ s.sending[x] = NoPacket
           t == ReceiveResume(s, x)
<1>1. t = IF begins THEN BeginService(ready, x) ELSE ready
  BY DEF ReceiveResume
<1>2. d \in Sends /\ d # "PAUSED" /\ d = "READY"
  BY DEF Sends
<1> HIDE DEF d
<1>3. /\ PortsOK(ready) /\ ready.send[x] = d
      /\ ready.queue = s.queue /\ ready.sending = s.sending
      /\ \A y \in Ports \ {x} : ready.send[y] = s.send[y]
  BY <1>2, SendChanges
<1> HIDE DEF ready, t
<1>4. CASE begins
  <2>1. x \in Outputs => /\ ready.sending[x] = NoPacket /\ ready.queue[x] # <<>>
                         /\ ready.send[x] = "READY"
    BY <1>2, <1>3, <1>4, PfcAssumption
  <2>2. PortsOK(BeginService(ready, x)) /\ Untouched(ready, BeginService(ready, x))
    BY <1>3, <2>1, BeginOK
  <2>3. t = BeginService(ready, x)
    BY <1>1, <1>4
  <2> QED
    BY <1>2, <1>3, <2>2, <2>3 DEF Untouched, t
<1>5. CASE ~begins
  BY <1>1, <1>2, <1>3, <1>5 DEF t
<1> QED
  BY <1>4, <1>5

\* A PAUSE that waited takes effect.
Heard(s, x) == IF s.send[x] = "PAUSE_RECEIVED" THEN [s EXCEPT !.send[x] = "PAUSED"] ELSE s

LEMMA HeardOK ==
    ASSUME NEW s, PortsOK(s), NEW x \in Ports,
           x \in Outputs => s.sending[x] = NoPacket
    PROVE  LET t == Heard(s, x)
           IN  /\ PortsOK(t) /\ t.queue = s.queue /\ t.sending = s.sending
               /\ t.due = s.due
               /\ \A y \in Ports : t.send[y] = "READY" <=> s.send[y] = "READY"
<1> DEFINE d == "PAUSED"
           t == Heard(s, x)
<1>1. CASE s.send[x] = "PAUSE_RECEIVED"
  <2>1. t = [s EXCEPT !.send[x] = d] /\ d # "READY" /\ d \in Sends
    BY <1>1 DEF Sends, Heard
  <2>2. x \in Outputs => s.due[x] = <<>>
    <3> SUFFICES ASSUME x \in Outputs
                 PROVE  s.due[x] = <<>>
      OBVIOUS
    <3>1. /\ s.due[x] \in Seq(0..TxTime)
          /\ PortOK(x, s.queue[x], s.size[x], s.send[x], s.sending[x], s.due[x])
      BY PortTypes
    <3>2. Len(s.due[x]) = 0
      BY <3>1 DEF PortOK
    <3> QED
      BY <3>1, <3>2
  <2> HIDE DEF d, t
  <2>3. /\ PortsOK(t) /\ t.send[x] = d
        /\ t.queue = s.queue /\ t.sending = s.sending /\ t.due = s.due
        /\ \A y \in Ports \ {x} : t.send[y] = s.send[y]
    BY <2>1, <2>2, SendChanges
  <2>4. \A y \in Ports : t.send[y] = "READY" <=> s.send[y] = "READY"
    BY <1>1, <2>1, <2>3
  <2> QED
    BY <2>3, <2>4 DEF t
<1>2. CASE s.send[x] # "PAUSE_RECEIVED"
  BY <1>2 DEF Heard
<1> QED
  BY <1>1, <1>2

\* The end of completeService: no port becomes ready or stops being it.
LEMMA ServeOnOK ==
    ASSUME NEW s, PortsOK(s), NEW x \in Ports,
           x \in Outputs => s.sending[x] = NoPacket
    PROVE  LET t == ServeOn(s, x)
           IN  /\ PortsOK(t)
               /\ \A o \in Outputs : t.queue[o] = s.queue[o]
               /\ \A y \in Ports : t.send[y] = "READY" <=> s.send[y] = "READY"
<1> DEFINE heard == Heard(s, x)
           more == IF x \in Hosts THEN s.size[x] > 0 ELSE s.queue[x] # <<>>
           t == ServeOn(s, x)
<1>1. t = IF more /\ heard.send[x] = "READY" THEN BeginService(heard, x) ELSE heard
  BY DEF ServeOn, Heard
<1>2. /\ PortsOK(heard) /\ heard.queue = s.queue /\ heard.sending = s.sending
      /\ \A y \in Ports : heard.send[y] = "READY" <=> s.send[y] = "READY"
  BY HeardOK
<1> HIDE DEF heard, t
<1>3. CASE more /\ heard.send[x] = "READY"
  <2>1. x \in Outputs => /\ heard.sending[x] = NoPacket /\ heard.queue[x] # <<>>
                         /\ heard.send[x] = "READY"
    BY <1>2, <1>3, PfcAssumption
  <2>2. PortsOK(BeginService(heard, x)) /\ Untouched(heard, BeginService(heard, x))
    BY <1>2, <2>1, BeginOK
  <2>3. t = BeginService(heard, x)
    BY <1>1, <1>3
  <2> QED
    BY <1>2, <2>2, <2>3 DEF Untouched, t
<1>4. CASE ~(more /\ heard.send[x] = "READY")
  <2>1. t = heard
    BY <1>1, <1>4
  <2> QED
    BY <1>2, <2>1 DEF t
<1> QED
  BY <1>3, <1>4

-----------------------------------------------------------------------------
(* The entries of the inputs *)

\* The lists v, after a packet that came through input x was queued at output o; after
\* one left output o.
Entered(v, o, x) == [v EXCEPT ![o] = Append(@, x)]
Departed(v, o) == [v EXCEPT ![o] = Tail(@)]

\* A packet that is queued adds an entry for the input it came through.
LEMMA EntriesAppend ==
    ASSUME NEW v \in [Outputs -> Seq(Links)], NEW o \in Outputs, NEW x \in Links,
           NEW w, w = Entered(v, o, x),
           NEW y \in Links, IsFiniteSet(Entries(v, y))
    PROVE  /\ IsFiniteSet(Entries(w, y))
           /\ Cardinality(Entries(w, y))
                = Cardinality(Entries(v, y)) + (IF y = x THEN 1 ELSE 0)
<1> DEFINE n == Len(v[o])
           e == <<o, n + 1>>
<1>1. /\ w \in [Outputs -> Seq(Links)] /\ n \in Nat
      /\ Len(w[o]) = n + 1 /\ w[o][n + 1] = x
      /\ \A i \in 1..n : w[o][i] = v[o][i]
      /\ \A p \in Outputs : p # o => w[p] = v[p]
  BY DEF Entered
<1>2. e \notin Entries(v, y)
  BY <1>1 DEF Entries
<1>3. ASSUME NEW a \in Outputs, NEW i \in Nat
      PROVE  <<a, i>> \in Entries(w, y)
               <=> <<a, i>> \in Entries(v, y) \/ (y = x /\ <<a, i>> = e)
  <2>1. <<a, i>> \in Entries(w, y) <=> i \in 1..Len(w[a]) /\ w[a][i] = y
    BY DEF Entries
  <2>2. <<a, i>> \in Entries(v, y) <=> i \in 1..Len(v[a]) /\ v[a][i] = y
    BY DEF Entries
  <2>3. CASE a # o
    BY <1>1, <2>1, <2>2, <2>3
  <2>4. CASE a = o /\ i # n + 1
    <3>1. i \in 1..(n + 1) <=> i \in 1..n
      BY <1>1, <2>4
    <3> QED
      BY <1>1, <2>1, <2>2, <2>4, <3>1
  <2>5. CASE a = o /\ i = n + 1
    <3>1. ~(i \in 1..n) /\ i \in 1..(n + 1)
      BY <1>1, <2>5
    <3> QED
      BY <1>1, <2>1, <2>2, <2>5, <3>1
  <2> QED
    BY <2>3, <2>4, <2>5
<1>4. e \in Outputs \X Nat
  BY <1>1
<1>5. Entries(w, y) = IF y = x THEN Entries(v, y) \cup {e} ELSE Entries(v, y)
  <2>1. Entries(w, y) \subseteq Outputs \X Nat /\ Entries(v, y) \subseteq Outputs \X Nat
    BY DEF Entries
  <2> HIDE DEF e
  <2>2. ASSUME NEW d \in Outputs \X Nat
        PROVE  d \in Entries(w, y) <=> d \in Entries(v, y) \/ (y = x /\ d = e)
    <3>1. PICK a \in Outputs, i \in Nat : d = <<a, i>>
      OBVIOUS
    <3> QED
      BY <1>3, <3>1
  <2> QED
    BY <1>4, <2>1, <2>2
<1> HIDE DEF e
<1>6. CASE y = x
  <2>1. /\ IsFiniteSet(Entries(v, y) \cup {e})
        /\ Cardinality(Entries(v, y) \cup {e}) = Cardinality(Entries(v, y)) + 1
    BY <1>2, FS_AddElement
  <2> QED
    BY <1>5, <1>6, <2>1
<1>7. CASE y # x
  <2>1. Cardinality(Entries(v, y)) \in Nat
    BY FS_CardinalityType
  <2> QED
    BY <1>5, <1>7, <2>1
<1> QED
  BY <1>6, <1>7

\* A packet that leaves takes the oldest entry with it; those behind move up.
LEMMA EntriesTail ==
    ASSUME NEW v \in [Outputs -> Seq(Links)], NEW o \in Outputs, v[o] # <<>>,
           NEW w, w = Departed(v, o),
           NEW y \in Links, IsFiniteSet(Entries(v, y))
    PROVE  /\ IsFiniteSet(Entries(w, y))
           /\ Cardinality(Entries(w, y)) \in Nat
           /\ Cardinality(Entries(v, y))
                = Cardinality(Entries(w, y)) + (IF y = Head(v[o]) THEN 1 ELSE 0)
<1> DEFINE n == Len(v[o])
           e == <<o, 1>>
           S == Entries(w, y)
           T == Entries(v, y) \ {e}
           f == [d \in S |-> IF d[1] = o THEN <<o, d[2] + 1>> ELSE d]
<1>1. /\ w \in [Outputs -> Seq(Links)] /\ n \in Nat /\ n >= 1
      /\ Len(w[o]) = n - 1
      /\ \A i \in 1..(n - 1) : w[o][i] = v[o][i + 1]
      /\ \A p \in Outputs : p # o => w[p] = v[p]
      /\ v[o][1] = Head(v[o])
  BY DEF Departed
<1>2. \A a \in Outputs, i \in Nat :
        /\ <<a, i>> \in S <=> i \in 1..Len(w[a]) /\ w[a][i] = y
        /\ <<a, i>> \in Entries(v, y) <=> i \in 1..Len(v[a]) /\ v[a][i] = y
  BY DEF Entries
<1>3. S \subseteq Outputs \X Nat /\ T \subseteq Outputs \X Nat
  BY DEF Entries
<1>4. ASSUME NEW a \in Outputs, NEW i \in Nat, <<a, i>> \in S
      PROVE  IF a = o THEN <<o, i + 1>> \in T ELSE <<a, i>> \in T
  <2>1. CASE a = o
    <3>1. i \in 1..(n - 1) /\ w[o][i] = y
      BY <1>1, <1>2, <1>4, <2>1
    <3>2. i + 1 \in 1..n /\ v[o][i + 1] = y /\ i + 1 # 1 /\ i + 1 \in Nat
      BY <1>1, <3>1
    <3>3. <<o, i + 1>> \in Entries(v, y) /\ <<o, i + 1>> # e
      BY <1>2, <3>2
    <3> QED
      BY <2>1, <3>3
  <2>2. CASE a # o
    <3>1. <<a, i>> \in Entries(v, y)
      BY <1>1, <1>2, <1>4, <2>2
    <3> QED
      BY <2>2, <3>1
  <2> QED
    BY <2>1, <2>2
<1>5. f \in [S -> T]
  <2> SUFFICES ASSUME NEW d \in S
               PROVE  (IF d[1] = o THEN <<o, d[2] + 1>> ELSE d) \in T
    OBVIOUS
  <2>1. d \in Outputs \X Nat
    BY <1>3
  <2>2. PICK a \in Outputs, i \in Nat : d = <<a, i>>
    BY <2>1
  <2> HIDE DEF S, T
  <2> QED
    BY <1>4, <2>2
<1>6. \A c, d \in S : f[c] = f[d] => c = d
  <2> SUFFICES ASSUME NEW c \in S, NEW d \in S, f[c] = f[d]
               PROVE  c = d
    OBVIOUS
  <2>1. PICK a \in Outputs, i \in Nat : c = <<a, i>>
    <3> HIDE DEF S, f
    <3>1. c \in Outputs \X Nat
      BY <1>3
    <3> QED
      BY <3>1
  <2>2. PICK b \in Outputs, j \in Nat : d = <<b, j>>
    <3> HIDE DEF S, f
    <3>1. d \in Outputs \X Nat
      BY <1>3
    <3> QED
      BY <3>1
  <2>3. f[c] = (IF a = o THEN <<o, i + 1>> ELSE <<a, i>>)
    <3> HIDE DEF S
    <3> QED
      BY <2>1
  <2>4. f[d] = (IF b = o THEN <<o, j + 1>> ELSE <<b, j>>)
    <3> HIDE DEF S
    <3> QED
      BY <2>2
  <2> QED
    BY <2>1, <2>2, <2>3, <2>4
<1>7. \A t \in T : \E d \in S : f[d] = t
  <2> SUFFICES ASSUME NEW t \in T
               PROVE  \E d \in S : f[d] = t
    OBVIOUS
  <2>1. PICK a \in Outputs, i \in Nat : t = <<a, i>>
    BY <1>3
  <2>2. i \in 1..Len(v[a]) /\ v[a][i] = y
    BY <1>2, <2>1
  <2>3. CASE a = o
    <3>1. i # 1
      BY <2>1, <2>3
    <3>2. i - 1 \in 1..(n - 1) /\ i - 1 \in Nat /\ (i - 1) + 1 = i
      BY <1>1, <2>2, <2>3, <3>1
    <3>3. <<o, i - 1>> \in S
      BY <1>1, <1>2, <2>2, <2>3, <3>2
    <3>4. f[<<o, i - 1>>] = <<o, i>>
      <4> HIDE DEF S
      <4> QED
        BY <3>2, <3>3
    <3> QED
      BY <2>1, <2>3, <3>3, <3>4
  <2>4. CASE a # o
    <3>1. <<a, i>> \in S
      BY <1>1, <1>2, <2>2, <2>4
    <3>2. f[<<a, i>>] = <<a, i>>
      <4> HIDE DEF S
      <4> QED
        BY <2>4, <3>1
    <3> QED
      BY <2>1, <3>1, <3>2
  <2> QED
    BY <2>3, <2>4
<1>8. e \in Entries(v, y) <=> y = Head(v[o])
  BY <1>1, <1>2
<1> HIDE DEF S, e, f
<1>9. ExistsBijection(T, S)
  <2> HIDE DEF T
  <2>1. f \in Bijection(S, T)
    <3>1. f \in Injection(S, T)
      BY <1>5, <1>6, Fun_IsInj
    <3>2. f \in Surjection(S, T)
      BY <1>5, <1>7, Fun_IsSurj
    <3> QED
      BY <3>1, <3>2 DEF Bijection
  <2>2. ExistsBijection(S, T)
    BY <2>1, Fun_ExistsBij, Zenon
  <2> QED
    BY <2>2, Fun_ExistsBijSymmetric
<1>10. /\ IsFiniteSet(T)
       /\ Cardinality(T) = IF e \in Entries(v, y) THEN Cardinality(Entries(v, y)) - 1
                           ELSE Cardinality(Entries(v, y))
  BY FS_RemoveElement
<1> HIDE DEF T
<1>11. IsFiniteSet(S) /\ Cardinality(S) = Cardinality(T)
  BY <1>9, <1>10, FS_Bijection
<1>12. Cardinality(Entries(v, y)) \in Nat /\ Cardinality(S) \in Nat
  BY <1>11, FS_CardinalityType
<1> QED
  BY <1>8, <1>10, <1>11, <1>12 DEF S

-----------------------------------------------------------------------------
(* What the actions have in common *)

\* State s, if port x has queue q, count z, packet g in transmission and completions u.
Put(s, x, q, z, g, u) ==
    [queue   |-> [s.queue EXCEPT ![x] = q],
     size    |-> [s.size EXCEPT ![x] = z],
     send    |-> s.send,
     sending |-> [s.sending EXCEPT ![x] = g],
     due     |-> [s.due EXCEPT ![x] = u]]

\* A state that differs in what port x has, but not in its pause.
LEMMA SetOK ==
    ASSUME NEW s, PortsOK(s), NEW x \in Ports, NEW q, NEW z, NEW g, NEW u,
           PortOK(x, q, z, s.send[x], g, u), NEW t, t = Put(s, x, q, z, g, u)
    PROVE  /\ PortsOK(t)
           /\ t.queue[x] = q /\ t.size[x] = z /\ t.sending[x] = g /\ t.due[x] = u
           /\ t.send = s.send
           /\ \A y \in Ports \ {x} : t.queue[y] = s.queue[y]
<1>1. s.send = [s.send EXCEPT ![x] = s.send[x]]
  BY DEF PortsOK
<1> DEFINE d == s.send[x]
<1>2. t = [queue   |-> [s.queue EXCEPT ![x] = q],
           size    |-> [s.size EXCEPT ![x] = z],
           send    |-> [s.send EXCEPT ![x] = d],
           sending |-> [s.sending EXCEPT ![x] = g],
           due     |-> [s.due EXCEPT ![x] = u]]
  BY <1>1 DEF Put
<1>3. t.send = s.send
  BY DEF Put
<1>4. PortOK(x, q, z, d, g, u)
  OBVIOUS
<1> HIDE DEF d
<1>5. Changed(s, t, x, q, z, d, g, u)
  BY <1>2, Changing
<1>6. PortsOK(t)
  BY <1>4, <1>5, ChangedOK
<1>7. /\ t.queue[x] = q /\ t.size[x] = z /\ t.send[x] = d /\ t.sending[x] = g
      /\ t.due[x] = u
      /\ \A y \in Ports \ {x} : t.queue[y] = s.queue[y] /\ t.send[y] = s.send[y]
  BY <1>5 DEF Changed
<1> QED
  BY <1>3, <1>6, <1>7

\* The fields that stay as they are.
LEMMA Kind ==
    ASSUME NEW s, PortsOK(s), NEW x \in Ports
    PROVE  /\ s = [queue |-> s.queue, size |-> s.size, send |-> s.send,
                   sending |-> s.sending, due |-> s.due]
           /\ s.queue = [s.queue EXCEPT ![x] = s.queue[x]]
           /\ s.size = [s.size EXCEPT ![x] = s.size[x]]
           /\ s.sending = [s.sending EXCEPT ![x] = s.sending[x]]
           /\ s.due = [s.due EXCEPT ![x] = s.due[x]]
  BY DEF PortsOK

\* State s, if port x has queue q and count z.
Held(s, x, q, z) == [s EXCEPT !.queue[x] = q, !.size[x] = z]

LEMMA HeldFields ==
    ASSUME NEW s, PortsOK(s), NEW x \in Ports, NEW q, NEW z
    PROVE  Held(s, x, q, z) = Put(s, x, q, z, s.sending[x], s.due[x])
<1> DEFINE qs == [s.queue EXCEPT ![x] = q]
           zs == [s.size EXCEPT ![x] = z]
           w  == [s EXCEPT !.queue[x] = q]
           t  == Held(s, x, q, z)
<1>1. /\ s = [queue |-> s.queue, size |-> s.size, send |-> s.send,
              sending |-> s.sending, due |-> s.due]
      /\ s.sending = [s.sending EXCEPT ![x] = s.sending[x]]
      /\ s.due = [s.due EXCEPT ![x] = s.due[x]]
  BY Kind
<1>2. w = [queue |-> qs, size |-> s.size, send |-> s.send, sending |-> s.sending,
           due |-> s.due]
  BY <1>1
<1>3. t = [w EXCEPT !.size[x] = z]
  BY Zenon DEF Held
<1> HIDE DEF w, qs, t
<1>4. t = [queue |-> qs, size |-> zs, send |-> s.send, sending |-> s.sending,
           due |-> s.due]
  BY <1>2, <1>3
<1> QED
  BY <1>1, <1>4, Zenon DEF Put, qs, t

\* State s, if port x has completions u; if it has count z and packet g in transmission;
\* if it has all of this.
Woken(s, x, u) == [s EXCEPT !.due[x] = u]
Spent(s, x, z, g) == [s EXCEPT !.size[x] = z, !.sending[x] = g]
Swept(s, x, q, z, g, u) ==
    [s EXCEPT !.due[x] = u, !.sending[x] = g, !.queue[x] = q, !.size[x] = z]

LEMMA WokenFields ==
    ASSUME NEW s, PortsOK(s), NEW x \in Ports, NEW u
    PROVE  Woken(s, x, u) = Put(s, x, s.queue[x], s.size[x], s.sending[x], u)
<1> DEFINE t  == Woken(s, x, u)
           us == [s.due EXCEPT ![x] = u]
<1>1. /\ s = [queue |-> s.queue, size |-> s.size, send |-> s.send,
              sending |-> s.sending, due |-> s.due]
      /\ s.queue = [s.queue EXCEPT ![x] = s.queue[x]]
      /\ s.size = [s.size EXCEPT ![x] = s.size[x]]
      /\ s.sending = [s.sending EXCEPT ![x] = s.sending[x]]
  BY Kind, ZenonT(60)
<1>2. t = [queue |-> s.queue, size |-> s.size, send |-> s.send, sending |-> s.sending,
           due |-> us]
  BY <1>1 DEF Woken
<1> HIDE DEF t
<1> QED
  BY <1>1, <1>2, Zenon DEF Put, t

LEMMA SpentFields ==
    ASSUME NEW s, PortsOK(s), NEW x \in Ports, NEW z, NEW g
    PROVE  Spent(s, x, z, g) = Put(s, x, s.queue[x], z, g, s.due[x])
<1> DEFINE zs == [s.size EXCEPT ![x] = z]
           gs == [s.sending EXCEPT ![x] = g]
           w  == [s EXCEPT !.size[x] = z]
           t  == Spent(s, x, z, g)
<1>1. /\ s = [queue |-> s.queue, size |-> s.size, send |-> s.send,
              sending |-> s.sending, due |-> s.due]
      /\ s.queue = [s.queue EXCEPT ![x] = s.queue[x]]
      /\ s.due = [s.due EXCEPT ![x] = s.due[x]]
  BY Kind, ZenonT(60)
<1>2. w = [queue |-> s.queue, size |-> zs, send |-> s.send, sending |-> s.sending,
           due |-> s.due]
  BY <1>1
<1>3. t = [w EXCEPT !.sending[x] = g]
  BY Zenon DEF Spent
<1> HIDE DEF w, zs, t
<1>4. t = [queue |-> s.queue, size |-> zs, send |-> s.send, sending |-> gs,
           due |-> s.due]
  BY <1>2, <1>3
<1> QED
  BY <1>1, <1>4, Zenon DEF Put, zs, t

LEMMA SweptFields ==
    ASSUME NEW s, PortsOK(s), NEW x \in Ports, NEW q, NEW z, NEW g, NEW u
    PROVE  Swept(s, x, q, z, g, u) = Put(s, x, q, z, g, u)
<1> DEFINE us == [s.due EXCEPT ![x] = u]
           gs == [s.sending EXCEPT ![x] = g]
           qs == [s.queue EXCEPT ![x] = q]
           zs == [s.size EXCEPT ![x] = z]
           a  == [s EXCEPT !.due[x] = u]
           b  == [a EXCEPT !.sending[x] = g]
           c  == [b EXCEPT !.queue[x] = q]
           t  == Swept(s, x, q, z, g, u)
<1>1. s = [queue |-> s.queue, size |-> s.size, send |-> s.send,
           sending |-> s.sending, due |-> s.due]
  BY Kind
<1>2. a = [queue |-> s.queue, size |-> s.size, send |-> s.send, sending |-> s.sending,
           due |-> us]
  BY <1>1
<1>3. t = [c EXCEPT !.size[x] = z]
  BY Zenon DEF Swept
<1> HIDE DEF a, us
<1>4. b = [queue |-> s.queue, size |-> s.size, send |-> s.send, sending |-> gs,
           due |-> us]
  BY <1>2
<1> HIDE DEF b, gs
<1>5. c = [queue |-> qs, size |-> s.size, send |-> s.send, sending |-> gs, due |-> us]
  BY <1>4
<1> HIDE DEF c, qs, t
<1>6. t = [queue |-> qs, size |-> zs, send |-> s.send, sending |-> gs, due |-> us]
  BY <1>3, <1>5
<1> QED
  BY <1>6, Zenon DEF Put, us, gs, qs, t

\* n packets are queued at port x, and counted.
LEMMA HeldOK ==
    ASSUME NEW s, PortsOK(s), NEW x \in Ports, NEW q \in Seq(Packet), NEW n \in Nat,
           Len(q) = Len(s.queue[x]) + n, NEW z, z = s.size[x] + Mtu * n
    PROVE  LET t == Held(s, x, q, z) IN
           /\ PortsOK(t)
           /\ t.queue[x] = q /\ t.size[x] = z /\ t.sending[x] = s.sending[x]
           /\ t.send = s.send
           /\ \A y \in Ports \ {x} : t.queue[y] = s.queue[y]
<1> DEFINE p == s.queue[x]
           c == s.size[x]
           g == s.sending[x]
           u == s.due[x]
           d == s.send[x]
           t == Held(s, x, q, z)
<1>3. t = Put(s, x, q, z, g, u)
  BY HeldFields, Zenon
<1>4. PortOK(x, p, c, d, g, u) /\ p \in Seq(Packet) /\ c \in Nat
  BY PortTypes
<1>5. PortOK(x, q, z, d, g, u)
  <2> DEFINE m == Mtu * Len(p)
             k == Mtu * n
             l == Mtu * Len(q)
  <2>1. Mtu \in Nat /\ Len(p) \in Nat /\ Len(q) = Len(p) + n /\ z = c + k
    BY <1>4, PfcAssumption
  <2>2. l = m + k /\ m \in Nat /\ k \in Nat
    <3>1. \A a, b, e \in Int : a * (b + e) = a * b + a * e
      OBVIOUS
    <3>2. m \in Nat /\ k \in Nat
      BY <2>1
    <3> DEFINE lp == Len(p)
               lq == Len(q)
    <3>3. lp \in Int /\ Mtu \in Int /\ n \in Int /\ lq = lp + n
      BY <2>1
    <3> HIDE DEF lp, lq
    <3>4. Mtu * lq = Mtu * lp + Mtu * n
      BY <3>1, <3>3
    <3> QED
      BY <3>2, <3>4 DEF lp, lq
  <2> HIDE DEF m, k, p, c
  <2>3. z \in Nat
    BY <1>4, <2>1, <2>2
  <2>4. x \in Hosts => z >= l + (IF g = NoPacket THEN 0 ELSE Mtu)
    <3> SUFFICES ASSUME x \in Hosts
                 PROVE  z >= l + (IF g = NoPacket THEN 0 ELSE Mtu)
      OBVIOUS
    <3>1. c >= m + (IF g = NoPacket THEN 0 ELSE Mtu)
      BY <1>4 DEF PortOK, m
    <3> HIDE DEF l
    <3> QED
      BY <1>4, <2>1, <2>2, <3>1
  <2>5. x \in Outputs => z = l
    BY <1>4, <2>1, <2>2 DEF PortOK, m
  <2>6. p # <<>> => q # <<>>
    BY <1>4, <2>1
  <2> QED
    BY <1>4, <2>3, <2>4, <2>5, <2>6 DEF PortOK
<1>6. PortOK(x, q, z, s.send[x], g, u)
  BY <1>5
<1> HIDE DEF g, u, t, p, c, d
<1>7. /\ PortsOK(t)
      /\ t.queue[x] = q /\ t.size[x] = z /\ t.sending[x] = g /\ t.due[x] = u
      /\ t.send = s.send
      /\ \A y \in Ports \ {x} : t.queue[y] = s.queue[y]
  BY <1>3, <1>6, SetOK
<1> QED
  BY <1>7 DEF g, t

\* The state of the ports after a step.
LEMMA Becoming ==
    ASSUME NEW t, PortsOK(t), Become(t)
    PROVE  State' = t /\ PortsOK(State)'
<1>1. State' = [queue |-> t.queue, size |-> t.size, send |-> t.send,
                sending |-> t.sending, due |-> t.due]
  BY DEF State, Become
<1>2. t = [queue |-> t.queue, size |-> t.size, send |-> t.send,
           sending |-> t.sending, due |-> t.due]
  BY DEF PortsOK
<1>3. State' = t
  BY <1>1, <1>2, Zenon
<1> QED
  BY <1>3

\* The outputs keep their packets and their lists of inputs.
OutputsStay == vq' = vq /\ \A o \in Outputs : queue'[o] = queue[o]

\* A step of the ports after which the outputs have the same packets and the same ports
\* are ready, and that leaves the switches alone.
LEMMA QuietStep ==
    ASSUME IInv, NEW t, PortsOK(t), Become(t),
           \A o \in Outputs : t.queue[o] = queue[o],
           \A y \in Ports : t.send[y] = "READY" <=> send[y] = "READY",
           UNCHANGED <<vq, ring, cross, bytes, recv>>
    PROVE  /\ PortsOK(State)' /\ InputsKnown' /\ BytesCounted' /\ SlotsOK' /\ PauseAgreed'
           /\ (recv \in [Links -> {"READY", "PAUSED"}])' /\ PipesOK(cross, SwitchDelay)'
<1>1. PortsOK(State)'
  BY Becoming
<1>2. \A o \in Outputs : queue'[o] = queue[o]
  BY DEF Become
<1>3. InputsKnown'
  BY <1>2 DEF IInv, InputsKnown
<1>4. BytesCounted'
  BY DEF IInv, BytesCounted, Entries
<1>5. SlotsOK'
  BY <1>2 DEF IInv, SlotsOK
<1>6. PauseAgreed'
  BY DEF IInv, PauseAgreed, Become, Links, Ports
<1>7. PipesOK(cross, SwitchDelay)'
  BY DEF IInv, PipesOK
<1> QED
  BY <1>1, <1>3, <1>4, <1>5, <1>6, <1>7 DEF IInv

\* A packet that a port has transmitted is in the pipe of its link, or has arrived.
LEMMA TransmitOK ==
    ASSUME PipesOK(link, LinkDelay), arrived \subseteq Packet,
           NEW x \in Ports, NEW p \in Packet, Transmit(x, p)
    PROVE  PipesOK(link, LinkDelay)' /\ (arrived \subseteq Packet)'
<1>1. CASE x \in Exits
  BY <1>1 DEF Transmit, PipesOK
<1>2. CASE x \notin Exits
  <2> DEFINE d == LinkDelay[x]
             l == Append(link[x], [pkt |-> p, left |-> d])
  <2>1. x \in Links /\ d \in Nat
    BY <1>2, PfcAssumption DEF Links, Ports
  <2>2. link' = [link EXCEPT ![x] = l] /\ arrived' = arrived
    BY <1>2 DEF Transmit
  <2>3. link = [y \in Links |-> link[y]] /\ \A y \in Links : PipeOK(link[y], LinkDelay[y])
    BY DEF PipesOK
  <2>4. PipeOK(l, LinkDelay[x])
    <3>1. PipeOK(link[x], d)
      BY <2>1, <2>3
    <3> HIDE DEF d
    <3>2. PipeOK(l, d)
      BY <2>1, <3>1, PipeAppend
    <3> QED
      BY <3>2 DEF d
  <2> HIDE DEF l
  <2>5. PipesOK(link', LinkDelay)
    BY <2>1, <2>2, <2>3, <2>4 DEF PipesOK
  <2> QED
    BY <2>2, <2>5
<1> QED
  BY <1>1, <1>2

\* The number of packets in the bursts of a host.
InBursts(h, k) == UNION {{b} \X DOMAIN Load[h][b] : b \in 1..k}

LEMMA PacketsInType ==
    ASSUME NEW h \in Hosts, NEW k \in Nat, k <= Len(Load[h])
    PROVE  /\ PacketsIn(h, k) \in Nat
           /\ IsFiniteSet(InBursts(h, k)) /\ PacketsIn(h, k) = Cardinality(InBursts(h, k))
<1> DEFINE n == Len(Load[h])
<1>1. /\ Load[h] \in Seq(Seq(Exits)) /\ n \in Nat /\ 1..k \subseteq 1..n
      /\ \A b \in 1..n : Load[h][b] \in Seq(Exits)
  BY PfcAssumption
<1> DEFINE C == {{b} \X DOMAIN Load[h][b] : b \in 1..k}
           Numbered == [b \in 1..k |-> {b} \X DOMAIN Load[h][b]]
<1>2. \A b \in 1..k : IsFiniteSet({b} \X DOMAIN Load[h][b])
  <2> TAKE b \in 1..k
  <2>1. PICK m \in Nat : DOMAIN Load[h][b] = 1..m
    <3>1. Load[h][b] \in Seq(Exits)
      BY <1>1
    <3> QED
      BY <3>1
  <2>2. IsFiniteSet({b}) /\ IsFiniteSet(1..m)
    <3>1. 1 \in Int /\ m \in Int
      BY <2>1
    <3>2. IsFiniteSet(1..m)
      BY <3>1, FS_Interval, Zenon
    <3>3. IsFiniteSet({b})
      BY FS_Singleton, Zenon
    <3> QED
      BY <3>2, <3>3
  <2> QED
    BY <2>1, <2>2, FS_Product
<1>3. IsFiniteSet(C)
  <2>1. IsFiniteSet(1..k)
    BY FS_Interval
  <2>2. Numbered \in Surjection(1..k, C)
    <3>1. Numbered \in [1..k -> C] /\ \A c \in C : \E b \in 1..k : Numbered[b] = c
      OBVIOUS
    <3> HIDE DEF Numbered, C
    <3> QED
      BY <3>1, Fun_IsSurj
  <2> HIDE DEF Numbered, C
  <2> QED
    BY <2>1, <2>2, FS_Surjection
<1>4. \A c \in C : IsFiniteSet(c)
  BY <1>2
<1>5. IsFiniteSet(UNION C)
  <2> HIDE DEF C
  <2> QED
    BY <1>3, <1>4, FS_UNION
<1> QED
  BY <1>5, FS_CardinalityType DEF PacketsIn, InBursts

LEMMA BurstType ==
    ASSUME NEW h \in Hosts, NEW k \in 1..Len(Load[h])
    PROVE  /\ Burst(h, k) \in Seq(Packet)
           /\ Len(Burst(h, k)) = Len(Load[h][k]) /\ Len(Load[h][k]) \in Nat
           /\ PacketsIn(h, k - 1) \in Nat
           /\ \A i \in 1..Len(Load[h][k]) :
                 Burst(h, k)[i] = [src |-> h, seq |-> PacketsIn(h, k - 1) + i,
                                   exit |-> Load[h][k][i]]
<1> DEFINE exits == Load[h][k]
           before == PacketsIn(h, k - 1)
           n == Len(exits)
<1>1. exits \in Seq(Exits)
  <2>1. Load[h] \in Seq(Seq(Exits))
    BY PfcAssumption
  <2> QED
    BY <2>1
<1>2. before \in Nat
  <2>1. k - 1 \in Nat /\ k - 1 <= Len(Load[h])
    <3>1. Len(Load[h]) \in Nat
      BY PfcAssumption
    <3> QED
      BY <3>1
  <2> QED
    BY <2>1, PacketsInType, Zenon
<1>3. Burst(h, k) = [i \in DOMAIN exits |->
                        [src |-> h, seq |-> before + i, exit |-> exits[i]]]
  BY DEF Burst
<1> HIDE DEF exits, before
<1>4. DOMAIN exits = 1..n /\ n \in Nat /\ \A i \in 1..n : exits[i] \in Exits
  BY <1>1
<1> HIDE DEF n
<1>5. \A i \in 1..n : [src |-> h, seq |-> before + i, exit |-> exits[i]] \in Packet
  BY <1>2, <1>4 DEF Packet
<1>6. /\ Burst(h, k) \in Seq(Packet) /\ Len(Burst(h, k)) = n
      /\ \A i \in 1..n : Burst(h, k)[i] = [src |-> h, seq |-> before + i, exit |-> exits[i]]
  <2> HIDE DEF Packet
  <2> QED
    BY <1>3, <1>4, <1>5
<1> QED
  BY <1>2, <1>4, <1>6 DEF exits, before, n

-----------------------------------------------------------------------------
(* The actions *)

LEMMA HostSendsIInv ==
    ASSUME IInv, NEW h \in Hosts, HostSends(h)
    PROVE  IInv' /\ OutputsStay
<1> DEFINE burst == Burst(h, sent[h] + 1)
           q == queue[h] \o burst
           n == Len(burst)
           z == size[h] + Mtu * n
           held == Held(State, h, q, z)
           t == IF size[h] = 0 /\ send[h] = "READY" THEN BeginService(held, h) ELSE held
<1>1. /\ sent \in [Hosts -> Nat] /\ sent[h] \in Nat /\ sent[h] + 1 <= Len(Load[h])
      /\ \A g \in Hosts : sent[g] <= Len(Load[g])
      /\ h \in Ports /\ h \notin Outputs /\ PortsOK(State)
  BY PfcAssumption, SMTT(60) DEF IInv, HostSends, Ports
<1>2. sent' = [sent EXCEPT ![h] = @ + 1]
  BY DEF HostSends
<1>5. burst \in Seq(Packet)
  <2>1. sent[h] + 1 \in 1..Len(Load[h])
    BY <1>1, PfcAssumption
  <2> QED
    BY <2>1, BurstType, Zenon
<1>6. Become(t)
  BY DEF HostSends, Held, State
<1> HIDE DEF burst
<1>7. State.queue = queue /\ State.size = size /\ State.send = send
  BY DEF State
<1>8. queue[h] \in Seq(Packet)
  BY <1>1, <1>7, PortTypes
<1>9. q \in Seq(Packet) /\ n \in Nat /\ Len(q) = Len(State.queue[h]) + n
      /\ z = State.size[h] + Mtu * n
  BY <1>5, <1>7, <1>8
<1> HIDE DEF q, n, z
<1>10. /\ PortsOK(held) /\ held.send = State.send
       /\ \A y \in Ports \ {h} : held.queue[y] = State.queue[y]
  BY <1>1, <1>9, HeldOK
<1> HIDE DEF held
<1>11. /\ PortsOK(t)
       /\ \A o \in Outputs : t.queue[o] = held.queue[o]
       /\ \A y \in Ports : t.send[y] = held.send[y]
  <2>1. PortsOK(BeginService(held, h)) /\ Untouched(held, BeginService(held, h))
    BY <1>1, <1>10, BeginOK
  <2> QED
    BY <1>10, <2>1 DEF Untouched
<1> HIDE DEF t
<1>12. /\ \A o \in Outputs : t.queue[o] = queue[o]
       /\ \A y \in Ports : t.send[y] = "READY" <=> send[y] = "READY"
  BY <1>1, <1>7, <1>10, <1>11 DEF Ports
<1>13. UNCHANGED <<vq, ring, link, cross, bytes, recv, arrived>>
  BY DEF HostSends, pipeVars, inputVars
<1>14. /\ PortsOK(State)' /\ InputsKnown' /\ BytesCounted' /\ SlotsOK' /\ PauseAgreed'
       /\ (recv \in [Links -> {"READY", "PAUSED"}])' /\ PipesOK(cross, SwitchDelay)'
  BY <1>6, <1>11, <1>12, <1>13, QuietStep
<1>15. (sent \in [Hosts -> Nat] /\ \A g \in Hosts : sent[g] <= Len(Load[g]))'
  BY <1>1, <1>2
<1>16. PipesOK(link, LinkDelay)' /\ (arrived \subseteq Packet)'
  BY <1>13 DEF IInv, PipesOK
<1>17. OutputsStay
  BY <1>6, <1>12, <1>13 DEF Become, OutputsStay
<1> QED
  BY <1>14, <1>15, <1>16, <1>17 DEF IInv

LEMMA HostCompletesIInv ==
    ASSUME IInv, NEW h \in Hosts, HostCompletes(h)
    PROVE  IInv' /\ OutputsStay
<1> DEFINE u == Tail(due[h])
           woken == Woken(State, h, u)
           z == woken.size[h] - Mtu
           spent == Spent(woken, h, z, NoPacket)
<1>1. /\ h \in Ports /\ h \notin Outputs /\ PortsOK(State)
      /\ due[h] # <<>>
      /\ UNCHANGED <<sent, vq, ring, cross, bytes, recv>>
  BY PfcAssumption DEF IInv, HostCompletes, Ports, inputVars
<1>2. /\ State.queue = queue /\ State.size = size /\ State.send = send
      /\ State.sending = sending /\ State.due = due
  BY DEF State
<1>3. /\ PortOK(h, queue[h], size[h], send[h], sending[h], due[h])
      /\ queue[h] \in Seq(Packet) /\ size[h] \in Nat /\ due[h] \in Seq(0..TxTime)
      /\ Sorted(due[h])
  BY <1>1, <1>2, PortTypes
<1>4. u \in Seq(0..TxTime) /\ Sorted(u)
  BY <1>1, <1>3, SortedTail, PfcAssumption
<1> HIDE DEF u
<1>5. woken = Put(State, h, queue[h], size[h], sending[h], u)
  <2>1. woken = Put(State, h, State.queue[h], State.size[h], State.sending[h], u)
    BY <1>1, WokenFields
  <2> QED
    BY <1>2, <2>1
<1> HIDE DEF woken
<1>6. /\ PortsOK(woken) /\ woken.queue[h] = queue[h] /\ woken.size[h] = size[h]
      /\ woken.sending[h] = sending[h] /\ woken.due[h] = u /\ woken.send = send
      /\ \A y \in Ports \ {h} : woken.queue[y] = queue[y]
  <2>1. PortOK(h, queue[h], size[h], State.send[h], sending[h], u)
    BY <1>1, <1>2, <1>3, <1>4 DEF PortOK
  <2> QED
    BY <1>1, <1>2, <1>5, <2>1, SetOK
<1>7. \A t : PortsOK(t) /\ Become(t)
             /\ (\A o \in Outputs : t.queue[o] = queue[o])
             /\ (\A y \in Ports : t.send[y] = "READY" <=> send[y] = "READY")
             /\ PipesOK(link, LinkDelay)' /\ (arrived \subseteq Packet)'
               => IInv' /\ OutputsStay
  <2> SUFFICES ASSUME NEW t, PortsOK(t), Become(t),
                      \A o \in Outputs : t.queue[o] = queue[o],
                      \A y \in Ports : t.send[y] = "READY" <=> send[y] = "READY",
                      PipesOK(link, LinkDelay)', (arrived \subseteq Packet)'
               PROVE  IInv' /\ OutputsStay
    OBVIOUS
  <2>1. /\ PortsOK(State)' /\ InputsKnown' /\ BytesCounted' /\ SlotsOK' /\ PauseAgreed'
        /\ (recv \in [Links -> {"READY", "PAUSED"}])' /\ PipesOK(cross, SwitchDelay)'
    BY <1>1, QuietStep
  <2>2. (sent \in [Hosts -> Nat] /\ \A g \in Hosts : sent[g] <= Len(Load[g]))'
    BY <1>1 DEF IInv
  <2>3. OutputsStay
    BY <1>1 DEF Become, OutputsStay
  <2> QED
    BY <2>1, <2>2, <2>3 DEF IInv
<1>8. \A s : PortsOK(s) /\ Become(ServeOn(s, h)) /\ s.send = send
             /\ (\A o \in Outputs : s.queue[o] = queue[o])
             /\ PipesOK(link, LinkDelay)' /\ (arrived \subseteq Packet)'
               => IInv' /\ OutputsStay
  <2> SUFFICES ASSUME NEW s, PortsOK(s), Become(ServeOn(s, h)), s.send = send,
                      \A o \in Outputs : s.queue[o] = queue[o],
                      PipesOK(link, LinkDelay)', (arrived \subseteq Packet)'
               PROVE  IInv' /\ OutputsStay
    OBVIOUS
  <2> DEFINE t == ServeOn(s, h)
  <2>1. /\ PortsOK(t)
        /\ \A o \in Outputs : t.queue[o] = s.queue[o]
        /\ \A y \in Ports : t.send[y] = "READY" <=> s.send[y] = "READY"
    BY <1>1, ServeOnOK
  <2>2. Become(t)
    OBVIOUS
  <2> HIDE DEF t
  <2> QED
    BY <1>7, <2>1, <2>2
<1>9. \A o \in Outputs : woken.queue[o] = queue[o]
  BY <1>1, <1>6 DEF Ports
<1>10. CASE send[h] = "PAUSED"
  <2>1. Become(woken) /\ UNCHANGED <<link, arrived>>
    BY <1>10 DEF HostCompletes, Woken, State, woken, u
  <2>2. PipesOK(link, LinkDelay)' /\ (arrived \subseteq Packet)'
    BY <2>1 DEF IInv, PipesOK
  <2> QED
    BY <1>6, <1>7, <1>9, <2>1, <2>2
<1>11. CASE send[h] # "PAUSED" /\ sending[h] = NoPacket
  <2>1. Become(ServeOn(woken, h)) /\ UNCHANGED <<link, arrived>>
    BY <1>11 DEF HostCompletes, Woken, State, woken, u
  <2>2. PipesOK(link, LinkDelay)' /\ (arrived \subseteq Packet)'
    BY <2>1 DEF IInv, PipesOK
  <2> QED
    BY <1>6, <1>8, <1>9, <2>1, <2>2
<1>12. CASE send[h] # "PAUSED" /\ sending[h] # NoPacket
  <2>1. Become(ServeOn(spent, h)) /\ Transmit(h, sending[h])
    BY <1>12 DEF HostCompletes, Woken, Spent, State, woken, u
  <2>2. PortOK(h, queue[h], z, send[h], NoPacket, u) /\ sending[h] \in Packet
    <3> DEFINE m == Mtu * Len(queue[h])
    <3>1. sending[h] \in Packet /\ size[h] >= m + Mtu
      BY <1>3, <1>12 DEF PortOK
    <3>2. m \in Nat /\ Mtu \in Nat /\ z = size[h] - Mtu
      BY <1>3, <1>6, PfcAssumption
    <3> HIDE DEF m, z
    <3>3. z \in Nat /\ z >= m
      BY <1>3, <3>1, <3>2
    <3>4. PortOK(h, queue[h], z, send[h], NoPacket, u)
      <4>1. z >= m + 0
        BY <3>2, <3>3
      <4> QED
        BY <1>1, <1>3, <1>4, <3>3, <4>1 DEF PortOK, m
    <3> QED
      BY <3>1, <3>4
  <2> HIDE DEF z
  <2>3. spent = Put(woken, h, queue[h], z, NoPacket, u)
    <3>1. spent = Put(woken, h, woken.queue[h], z, NoPacket, woken.due[h])
      BY <1>1, <1>6, SpentFields
    <3> QED
      BY <1>6, <3>1
  <2> HIDE DEF spent
  <2>4. /\ PortsOK(spent) /\ spent.queue[h] = queue[h] /\ spent.send = send
        /\ \A y \in Ports \ {h} : spent.queue[y] = woken.queue[y]
    <3>1. PortOK(h, queue[h], z, woken.send[h], NoPacket, u)
      BY <1>6, <2>2
    <3>2. /\ PortsOK(spent) /\ spent.queue[h] = queue[h] /\ spent.send = woken.send
          /\ \A y \in Ports \ {h} : spent.queue[y] = woken.queue[y]
      BY <1>1, <1>6, <2>3, <3>1, SetOK
    <3> QED
      BY <1>6, <3>2
  <2>5. \A o \in Outputs : spent.queue[o] = queue[o]
    BY <1>1, <1>9, <2>4 DEF Ports
  <2>6. PipesOK(link, LinkDelay)' /\ (arrived \subseteq Packet)'
    <3>1. PipesOK(link, LinkDelay) /\ arrived \subseteq Packet
      BY DEF IInv
    <3> QED
      BY <1>1, <2>1, <2>2, <3>1, TransmitOK
  <2> QED
    BY <1>8, <2>1, <2>4, <2>5, <2>6
<1> QED
  BY <1>10, <1>11, <1>12

LEMMA ReachesInputIInv ==
    ASSUME IInv, NEW x \in Links, ReachesInput(x)
    PROVE  IInv' /\ OutputsStay
<1> DEFINE p == Head(link[x]).pkt
           left == Tail(link[x])
           more == Append(cross[x], [pkt |-> p, left |-> SwitchDelay[x]])
<1>1. /\ PortsOK(State) /\ PipesOK(link, LinkDelay) /\ PipesOK(cross, SwitchDelay)
      /\ BytesCounted /\ PauseAgreed
      /\ recv \in [Links -> {"READY", "PAUSED"}]
      /\ x \in Ports
  BY DEF IInv, Links, Ports
<1>2. /\ link[x] # <<>> /\ link' = [link EXCEPT ![x] = left]
      /\ cross' = [cross EXCEPT ![x] = more] /\ bytes' = [bytes EXCEPT ![x] = @ + Mtu]
      /\ IF bytes[x] + Mtu > High /\ recv[x] # "PAUSED"
         THEN recv' = [recv EXCEPT ![x] = "PAUSED"] /\ Become(ReceivePause(State, x))
         ELSE UNCHANGED <<recv, queue, size, send, sending, due>>
      /\ UNCHANGED <<sent, vq, ring, arrived>>
  BY DEF ReachesInput
<1>3. /\ LinkDelay[x] \in Nat /\ SwitchDelay[x] \in Nat
      /\ Mtu \in Nat /\ High \in Nat /\ Low \in Nat /\ High > Low
  BY PfcAssumption
<1>4. /\ PipeOK(link[x], LinkDelay[x]) /\ PipeOK(cross[x], SwitchDelay[x])
      /\ link = [y \in Links |-> link[y]] /\ cross = [y \in Links |-> cross[y]]
  BY <1>1 DEF PipesOK
<1>5. PipeOK(left, LinkDelay[x]) /\ p \in Packet
  BY <1>2, <1>3, <1>4, PipeTail
<1>6. PipeOK(more, SwitchDelay[x]) /\ Len(more) = Len(cross[x]) + 1
  <2>1. PipeOK(more, SwitchDelay[x])
    BY <1>3, <1>4, <1>5, PipeAppend
  <2>2. \E S : cross[x] \in Seq(S)
    BY <1>4 DEF PipeOK
  <2> QED
    BY <2>1, <2>2
<1> HIDE DEF left, more
<1>7. PipesOK(link, LinkDelay)' /\ PipesOK(cross, SwitchDelay)'
  <2>1. PipesOK(link', LinkDelay)
    BY <1>1, <1>2, <1>4, <1>5 DEF PipesOK
  <2>2. PipesOK(cross', SwitchDelay)
    BY <1>1, <1>2, <1>4, <1>6 DEF PipesOK
  <2> QED
    BY <2>1, <2>2
<1>8. BytesCounted'
  <2>1. bytes \in [Links -> Nat] /\ bytes[x] \in Nat
    BY <1>1 DEF BytesCounted
  <2>2. bytes' \in [Links -> Nat]
    BY <1>2, <1>3, <2>1
  <2> SUFFICES ASSUME NEW y \in Links
               PROVE  /\ IsFiniteSet(Entries(vq', y))
                      /\ bytes'[y] = Mtu * (Len(cross'[y]) + Cardinality(Entries(vq', y)))
    BY <2>2 DEF BytesCounted
  <2> DEFINE c == Cardinality(Entries(vq, y))
             l == Len(cross[y])
  <2>3. IsFiniteSet(Entries(vq, y)) /\ bytes[y] = Mtu * (l + c)
    BY <1>1 DEF BytesCounted
  <2>4. c \in Nat /\ l \in Nat
    <3>1. PipeOK(cross[y], SwitchDelay[y])
      BY <1>1 DEF PipesOK
    <3>2. \E S : cross[y] \in Seq(S)
      BY <3>1 DEF PipeOK
    <3> QED
      BY <2>3, <3>2, FS_CardinalityType
  <2>5. vq' = vq
    BY <1>2
  <2>6. CASE y = x
    <3>1. Len(cross'[y]) = l + 1 /\ bytes'[y] = bytes[y] + Mtu
      BY <1>2, <1>4, <1>6, <2>1, <2>6
    <3> HIDE DEF l, c
    <3>2. \A m, n, e \in Int : m * (n + 1 + e) = m * (n + e) + m
      OBVIOUS
    <3>3. Mtu * (l + 1 + c) = Mtu * (l + c) + Mtu
      BY <1>3, <2>4, <3>2
    <3> QED
      BY <2>3, <2>5, <3>1, <3>3 DEF c
  <2>7. CASE y # x
    <3>1. cross'[y] = cross[y] /\ bytes'[y] = bytes[y]
      BY <1>2, <1>4, <2>1, <2>7
    <3> QED
      BY <2>3, <2>5, <3>1
  <2> QED
    BY <2>6, <2>7
<1>9. State.queue = queue /\ State.send = send
  BY DEF State
<1>10. /\ PortsOK(State)' /\ queue' = queue
       /\ (recv \in [Links -> {"READY", "PAUSED"}])' /\ PauseAgreed'
  <2>1. /\ bytes \in [Links -> Nat]
        /\ \A y \in Links : /\ recv[y] = "PAUSED" <=> send[y] # "READY"
                            /\ recv[y] = "PAUSED" => bytes[y] >= Low
    BY <1>1 DEF BytesCounted, PauseAgreed
  <2>2. \A y \in Links : bytes'[y] = IF y = x THEN bytes[y] + Mtu ELSE bytes[y]
    BY <1>2, <2>1
  <2>3. \A y \in Links : bytes'[y] >= bytes[y]
    BY <1>3, <2>1, <2>2
  <2>4. CASE bytes[x] + Mtu > High /\ recv[x] # "PAUSED"
    <3> DEFINE t == ReceivePause(State, x)
    <3>1. /\ PortsOK(t) /\ t.send[x] # "READY" /\ t.queue = queue
          /\ \A y \in Ports \ {x} : t.send[y] = send[y]
      BY <1>1, <1>9, ReceivePauseOK
    <3>2. recv' = [recv EXCEPT ![x] = "PAUSED"] /\ Become(t)
      BY <1>2, <2>4
    <3> HIDE DEF t
    <3>3. PortsOK(State)'
      BY <3>1, <3>2, Becoming
    <3>4. queue' = queue /\ send' = t.send
      BY <3>1, <3>2 DEF Become
    <3>5. bytes'[x] >= Low
      BY <1>3, <2>1, <2>2, <2>4
    <3>6. PauseAgreed'
      <4> SUFFICES ASSUME NEW y \in Links
                   PROVE  /\ recv'[y] = "PAUSED" <=> send'[y] # "READY"
                          /\ recv'[y] = "PAUSED" => bytes'[y] >= Low
        BY DEF PauseAgreed
      <4>1. CASE y = x
        BY <1>1, <3>1, <3>2, <3>4, <3>5, <4>1
      <4>2. CASE y # x
        <5>1. recv'[y] = recv[y] /\ send'[y] = send[y] /\ bytes'[y] = bytes[y]
          BY <1>1, <2>2, <3>1, <3>2, <3>4, <4>2 DEF Links, Ports
        <5> QED
          BY <2>1, <5>1
      <4> QED
        BY <4>1, <4>2
    <3> QED
      BY <1>1, <3>2, <3>3, <3>4, <3>6
  <2>5. CASE ~(bytes[x] + Mtu > High /\ recv[x] # "PAUSED")
    <3>1. UNCHANGED <<recv, queue, size, send, sending, due>>
      BY <1>2, <2>5
    <3>2. PortsOK(State)'
      BY <1>1, <3>1 DEF State
    <3>3. PauseAgreed'
      <4> SUFFICES ASSUME NEW y \in Links
                   PROVE  /\ recv'[y] = "PAUSED" <=> send'[y] # "READY"
                          /\ recv'[y] = "PAUSED" => bytes'[y] >= Low
        BY DEF PauseAgreed
      <4>1. bytes[y] \in Nat /\ bytes'[y] >= bytes[y] /\ bytes'[y] \in Int
        BY <1>3, <2>1, <2>2, <2>3
      <4> QED
        BY <1>3, <2>1, <3>1, <4>1
    <3> QED
      BY <1>1, <3>1, <3>2, <3>3
  <2> QED
    BY <2>4, <2>5
<1>11. InputsKnown'
  BY <1>2, <1>10 DEF IInv, InputsKnown
<1>12. SlotsOK'
  BY <1>2, <1>10 DEF IInv, SlotsOK
<1>13. (/\ sent \in [Hosts -> Nat] /\ \A g \in Hosts : sent[g] <= Len(Load[g])
        /\ arrived \subseteq Packet)'
  BY <1>2 DEF IInv
<1>14. OutputsStay
  BY <1>2, <1>10 DEF OutputsStay
<1> QED
  BY <1>7, <1>8, <1>10, <1>11, <1>12, <1>13, <1>14 DEF IInv

LEMMA ReachesOutputIInv ==
    ASSUME IInv, NEW x \in Links, ReachesOutput(x)
    PROVE  IInv'
<1> DEFINE p == Head(cross[x]).pkt
           left == Tail(cross[x])
           o == Forward[x][p.exit]
           q == Append(queue[o], p)
           z == size[o] + Mtu
           held == Held(State, o, q, z)
           t == IF queue[o] = <<>> /\ send[o] = "READY" THEN BeginService(held, o) ELSE held
<1>1. /\ PortsOK(State) /\ PipesOK(link, LinkDelay) /\ PipesOK(cross, SwitchDelay)
      /\ BytesCounted /\ PauseAgreed /\ InputsKnown /\ SlotsOK
  BY SMTT(60) DEF IInv
<1>2. /\ cross[x] # <<>> /\ cross' = [cross EXCEPT ![x] = left]
      /\ vq' = [vq EXCEPT ![o] = Append(@, x)]
      /\ ring' = [ring EXCEPT ![o] = Pushed(@, Len(queue[o]))]
      /\ Become(t)
      /\ UNCHANGED <<sent, link, bytes, recv, arrived>>
  BY ZenonT(60) DEF ReachesOutput, Held, State, inputVars
<1>3. /\ PipeOK(cross[x], SwitchDelay[x]) /\ cross = [y \in Links |-> cross[y]]
      /\ SwitchDelay[x] \in Nat
  BY <1>1, PfcAssumption, SMTT(60) DEF PipesOK
<1>4. PipeOK(left, SwitchDelay[x]) /\ p \in Packet /\ Len(left) = Len(cross[x]) - 1
  BY <1>2, <1>3, PipeTail
<1> HIDE DEF p, left
<1>5. o \in Outputs /\ o \in Ports /\ o \notin Hosts
  <2>1. p.exit \in Exits
    BY <1>4 DEF Packet
  <2> QED
    BY <2>1, PfcAssumption DEF Ports
<1> HIDE DEF o
<1>6. /\ State.queue = queue /\ State.size = size /\ State.send = send
      /\ State.sending = sending /\ State.due = due
  BY DEF State
<1>7. /\ PortOK(o, queue[o], size[o], send[o], sending[o], due[o])
      /\ queue[o] \in Seq(Packet) /\ size[o] \in Nat
  BY <1>1, <1>5, <1>6, PortTypes
<1>8. /\ q \in Seq(Packet) /\ Len(q) = Len(State.queue[o]) + 1 /\ q # <<>>
      /\ z = State.size[o] + Mtu * 1
  <2>1. Len(State.queue[o]) = Len(queue[o]) /\ State.size[o] = size[o]
    BY <1>6
  <2>2. q \in Seq(Packet) /\ Len(q) = Len(queue[o]) + 1 /\ q # <<>>
    BY <1>4, <1>7
  <2>3. Mtu * 1 = Mtu
    BY PfcAssumption
  <2> QED
    BY <2>1, <2>2, <2>3
<1> HIDE DEF q, z
<1>9. /\ PortsOK(held) /\ held.queue[o] = q /\ held.sending[o] = sending[o]
      /\ held.send = send
      /\ \A y \in Ports \ {o} : held.queue[y] = queue[y]
  BY <1>1, <1>5, <1>6, <1>8, HeldOK, SMTT(60)
<1> HIDE DEF held
<1>10. /\ PortsOK(t)
       /\ \A r \in Outputs : t.queue[r] = held.queue[r]
       /\ \A y \in Ports : t.send[y] = held.send[y]
  <2>1. CASE queue[o] = <<>> /\ send[o] = "READY"
    <3>1. sending[o] = NoPacket
      BY <1>5, <1>7, <2>1 DEF PortOK
    <3>2. PortsOK(BeginService(held, o)) /\ Untouched(held, BeginService(held, o))
      BY <1>5, <1>8, <1>9, <2>1, <3>1, BeginOK
    <3> QED
      BY <2>1, <3>2 DEF Untouched
  <2>2. CASE ~(queue[o] = <<>> /\ send[o] = "READY")
    BY <1>9, <2>2
  <2> QED
    BY <2>1, <2>2
<1> HIDE DEF t
<1>11. /\ PortsOK(State)'
       /\ \A y \in Ports : send'[y] = send[y]
       /\ Len(queue'[o]) = Len(queue[o]) + 1
       /\ \A r \in Outputs \ {o} : queue'[r] = queue[r]
  <2>1. PortsOK(State)'
    BY <1>2, <1>10, Becoming
  <2>2. queue' = t.queue /\ send' = t.send
    BY <1>2 DEF Become
  <2>3. queue'[o] = q /\ \A r \in Outputs \ {o} : queue'[r] = queue[r]
    BY <1>5, <1>9, <1>10, <2>2 DEF Ports
  <2> QED
    BY <1>6, <1>8, <1>9, <1>10, <2>1, <2>2, <2>3
<1>12. PipesOK(link, LinkDelay)' /\ PipesOK(cross, SwitchDelay)'
  <2>1. PipesOK(cross', SwitchDelay)
    BY <1>1, <1>2, <1>3, <1>4 DEF PipesOK
  <2> QED
    BY <1>1, <1>2, <2>1 DEF PipesOK
<1>13. InputsKnown'
  <2>1. vq \in [Outputs -> Seq(Links)] /\ \A r \in Outputs : Len(queue[r]) <= Len(vq[r])
    BY <1>1 DEF InputsKnown
  <2>2. vq' \in [Outputs -> Seq(Links)] /\ Len(vq'[o]) = Len(vq[o]) + 1
        /\ Len(vq[o]) \in Nat /\ \A r \in Outputs \ {o} : vq'[r] = vq[r]
    BY <1>2, <1>5, <2>1
  <2>3. ASSUME NEW r \in Outputs
        PROVE  Len(queue'[r]) <= Len(vq'[r])
    <3>1. CASE r = o
      BY <1>7, <1>11, <2>1, <2>2, <3>1
    <3>2. CASE r # o
      BY <1>11, <2>1, <2>2, <3>2
    <3> QED
      BY <3>1, <3>2
  <2> QED
    BY <2>2, <2>3 DEF InputsKnown
<1>14. BytesCounted'
  <2>1. bytes' = bytes /\ bytes \in [Links -> Nat] /\ vq \in [Outputs -> Seq(Links)]
    BY <1>1, <1>2 DEF BytesCounted, InputsKnown
  <2> SUFFICES ASSUME NEW y \in Links
               PROVE  /\ IsFiniteSet(Entries(vq', y))
                      /\ bytes'[y] = Mtu * (Len(cross'[y]) + Cardinality(Entries(vq', y)))
    BY <2>1 DEF BytesCounted
  <2> DEFINE c == Cardinality(Entries(vq, y))
             l == Len(cross[y])
             k == Cardinality(Entries(vq', y))
             m == Len(cross'[y])
  <2>2. IsFiniteSet(Entries(vq, y)) /\ bytes[y] = Mtu * (l + c)
    BY <1>1 DEF BytesCounted
  <2>3. c \in Nat /\ l \in Nat
    <3>1. PipeOK(cross[y], SwitchDelay[y])
      BY <1>1 DEF PipesOK
    <3>2. \E S : cross[y] \in Seq(S)
      BY <3>1 DEF PipeOK
    <3> QED
      BY <2>2, <3>2, FS_CardinalityType
  <2>4. IsFiniteSet(Entries(vq', y)) /\ k = c + (IF y = x THEN 1 ELSE 0)
    <3> DEFINE v == vq
               w == vq'
    <3>1. w = Entered(v, o, x) /\ v \in [Outputs -> Seq(Links)]
      BY <1>2, <2>1 DEF Entered
    <3>2. IsFiniteSet(Entries(v, y))
      BY <2>2
    <3> HIDE DEF v, w
    <3>3. /\ IsFiniteSet(Entries(w, y))
          /\ Cardinality(Entries(w, y))
               = Cardinality(Entries(v, y)) + (IF y = x THEN 1 ELSE 0)
      BY <1>5, <3>1, <3>2, EntriesAppend
    <3> QED
      BY <3>3 DEF v, w
  <2>5. m = l - (IF y = x THEN 1 ELSE 0)
    <3>1. CASE y = x
      BY <1>2, <1>3, <1>4, <2>3, <3>1
    <3>2. CASE y # x
      BY <1>2, <1>3, <2>3, <3>2
    <3> QED
      BY <3>1, <3>2
  <2> HIDE DEF c, l, k, m
  <2>6. m + k = l + c
    BY <2>3, <2>4, <2>5
  <2> QED
    BY <2>1, <2>2, <2>4, <2>6 DEF k, m
<1>15. SlotsOK'
  <2> DEFINE Rec == [size : Nat, pop : {0, 1}, last : Packet \cup {NoPacket}]
             new == Pushed(ring[o], Len(queue[o]))
             sz == ring[o].size
             pp == ring[o].pop
             n  == Len(queue[o])
  <2>1. /\ ring \in [Outputs -> Rec]
        /\ \A r \in Outputs : /\ Len(queue[r]) < ring[r].size
                              /\ ring[r].pop + Len(queue[r]) <= ring[r].size
    BY <1>1 DEF SlotsOK
  <2>2. ring[o] \in Rec
    BY <1>5, <2>1
  <2>3. sz \in Nat /\ pp \in {0, 1} /\ n \in Nat /\ n < sz /\ pp + n <= sz
    BY <1>5, <1>7, <2>1, <2>2
  <2>4. /\ new \in Rec /\ new.pop = pp
        /\ new.size = IF n + 1 = sz THEN 2 * sz ELSE sz
    BY <2>2, <2>3 DEF Pushed
  <2> HIDE DEF new, sz, pp, n
  <2>5. n + 1 < new.size /\ pp + (n + 1) <= new.size
    <3> DEFINE ns == new.size
    <3>1. ns = IF n + 1 = sz THEN 2 * sz ELSE sz
      BY <2>4
    <3> HIDE DEF ns
    <3>2. n + 1 < ns /\ pp + (n + 1) <= ns
      BY <2>3, <3>1
    <3> QED
      BY <3>2 DEF ns
  <2>6. /\ ring' \in [Outputs -> Rec] /\ ring'[o] = new
        /\ \A r \in Outputs \ {o} : ring'[r] = ring[r]
    <3>1. ring' = [ring EXCEPT ![o] = new]
      BY <1>2 DEF new
    <3> HIDE DEF Rec
    <3> QED
      BY <1>5, <2>1, <2>4, <3>1
  <2>7. ASSUME NEW r \in Outputs
        PROVE  /\ Len(queue'[r]) < ring'[r].size
               /\ ring'[r].pop + Len(queue'[r]) <= ring'[r].size
    <3>1. CASE r = o
      BY <1>11, <2>4, <2>5, <2>6, <3>1 DEF n
    <3>2. CASE r # o
      BY <1>11, <2>1, <2>6, <3>2
    <3> QED
      BY <3>1, <3>2
  <2> QED
    BY <2>6, <2>7 DEF SlotsOK
<1>16. PauseAgreed'
  BY <1>1, <1>2, <1>11 DEF PauseAgreed, Links, Ports
<1>17. (/\ sent \in [Hosts -> Nat] /\ \A h \in Hosts : sent[h] <= Len(Load[h])
        /\ recv \in [Links -> {"READY", "PAUSED"}] /\ arrived \subseteq Packet)'
  BY <1>2 DEF IInv
<1> QED
  BY <1>11, <1>12, <1>13, <1>14, <1>15, <1>16, <1>17 DEF IInv

\* What completeService of an output leaves in its ring.
LEMMA SlotsAfter ==
    ASSUME SlotsOK, NEW o \in Outputs, NEW i \in {0, 1}, NEW p \in Packet \cup {NoPacket},
           ring' = [ring EXCEPT ![o].pop = i, ![o].last = p],
           queue'[o] \in Seq(Packet), queue[o] \in Seq(Packet),
           i + Len(queue'[o]) <= Len(queue[o]),
           \A r \in Outputs \ {o} : queue'[r] = queue[r]
    PROVE  SlotsOK'
<1> DEFINE Rec == [size : Nat, pop : {0, 1}, last : Packet \cup {NoPacket}]
           new == [size |-> ring[o].size, pop |-> i, last |-> p]
           sz == ring[o].size
           n  == Len(queue[o])
           m  == Len(queue'[o])
<1>1. /\ ring \in [Outputs -> Rec]
      /\ \A r \in Outputs : /\ Len(queue[r]) < ring[r].size
                            /\ ring[r].pop + Len(queue[r]) <= ring[r].size
  BY DEF SlotsOK
<1>2. ring[o] \in Rec
  BY <1>1
<1>3. sz \in Nat /\ n \in Nat /\ m \in Nat /\ n < sz /\ i + m <= n
  BY <1>1, <1>2
<1>4. new \in Rec /\ new.pop = i /\ new.size = sz
  BY <1>2
<1>5. ring' = [ring EXCEPT ![o] = new]
  <2> DEFINE half == [size |-> ring[o].size, pop |-> i, last |-> ring[o].last]
             a == [ring EXCEPT ![o].pop = i]
  <2>1. ring' = [a EXCEPT ![o].last = p]
    BY Zenon
  <2>2. a = [ring EXCEPT ![o] = half]
    <3>1. [ring[o] EXCEPT !.pop = i] = half
      BY <1>2
    <3> HIDE DEF half
    <3> QED
      BY <3>1
  <2> HIDE DEF a
  <2>3. [half EXCEPT !.last = p] = new
    OBVIOUS
  <2> HIDE DEF half, new
  <2>4. a[o] = half /\ DOMAIN a = Outputs /\ \A r \in Outputs \ {o} : a[r] = ring[r]
    BY <1>1, <2>2
  <2>5. ring' = [a EXCEPT ![o] = new]
    <3>1. ring' = [a EXCEPT ![o] = [half EXCEPT !.last = p]]
      BY <2>1, <2>4
    <3> QED
      BY <2>3, <3>1
  <2> QED
    BY <1>1, <2>2, <2>4, <2>5
<1> HIDE DEF new, sz, n, m, Rec
<1>6. ring' \in [Outputs -> Rec] /\ ring'[o] = new /\ \A r \in Outputs \ {o} : ring'[r] = ring[r]
  BY <1>1, <1>4, <1>5, ZenonT(60)
<1>7. m < sz /\ i + m <= sz
  BY <1>3
<1>8. ASSUME NEW r \in Outputs
      PROVE  /\ Len(queue'[r]) < ring'[r].size
             /\ ring'[r].pop + Len(queue'[r]) <= ring'[r].size
  <2>1. CASE r = o
    BY <1>4, <1>6, <1>7, <2>1 DEF m
  <2>2. CASE r # o
    BY <1>1, <1>6, <2>2
  <2> QED
    BY <2>1, <2>2
<1> QED
  BY <1>6, <1>8 DEF SlotsOK, Rec

\* A packet leaves output o for good: the input it is credited to counts it no more, and
\* may have its link resume.
LEMMA DepartureOK ==
    ASSUME IInv, NEW o \in Outputs, vq[o] # <<>>, NEW s, PortsOK(s),
           \A y \in Ports : s.send[y] = "READY" <=> send[y] = "READY",
           CompletedService(Credited(o), s), vq' = [vq EXCEPT ![o] = Tail(@)],
           UNCHANGED cross
    PROVE  /\ BytesCounted' /\ PauseAgreed' /\ PortsOK(State)'
           /\ (recv \in [Links -> {"READY", "PAUSED"}])'
           /\ \A r \in Outputs : queue'[r] = s.queue[r]
<1> DEFINE c == Credited(o)
<1>1. /\ PipesOK(cross, SwitchDelay) /\ BytesCounted /\ PauseAgreed
      /\ recv \in [Links -> {"READY", "PAUSED"}]
      /\ vq \in [Outputs -> Seq(Links)]
  BY DEF IInv, InputsKnown
<1>2. c \in Links /\ c \in Ports
  BY <1>1 DEF Credited, Links, Ports
<1>3. /\ bytes' = [bytes EXCEPT ![c] = @ - Mtu]
      /\ IF bytes[c] - Mtu < Low /\ recv[c] = "PAUSED"
         THEN recv' = [recv EXCEPT ![c] = "READY"] /\ Become(ReceiveResume(s, c))
         ELSE UNCHANGED recv /\ Become(s)
  BY DEF CompletedService
<1>4. Mtu \in Nat \ {0} /\ Low \in Nat
  BY PfcAssumption
<1>5. /\ bytes \in [Links -> Nat]
      /\ \A y \in Links : /\ IsFiniteSet(Entries(vq, y))
                          /\ bytes[y] = Mtu * (Len(cross[y]) + Cardinality(Entries(vq, y)))
  BY <1>1 DEF BytesCounted
<1>6. ASSUME NEW y \in Links
      PROVE  /\ IsFiniteSet(Entries(vq', y)) /\ Cardinality(Entries(vq', y)) \in Nat
             /\ Cardinality(Entries(vq, y))
                  = Cardinality(Entries(vq', y)) + (IF y = c THEN 1 ELSE 0)
  <2> DEFINE v == vq
             w == vq'
  <2>1. /\ w = Departed(v, o) /\ v \in [Outputs -> Seq(Links)] /\ v[o] # <<>>
        /\ IsFiniteSet(Entries(v, y))
    BY <1>1, <1>5 DEF Departed
  <2>2. c = Head(v[o])
    BY DEF Credited
  <2> HIDE DEF v, w, c
  <2>3. /\ IsFiniteSet(Entries(w, y))
        /\ Cardinality(Entries(w, y)) \in Nat
        /\ Cardinality(Entries(v, y))
             = Cardinality(Entries(w, y)) + (IF y = Head(v[o]) THEN 1 ELSE 0)
    BY <2>1, EntriesTail
  <2> QED
    BY <2>2, <2>3 DEF v, w
<1> HIDE DEF c
<1>7. ASSUME NEW y \in Links
      PROVE  /\ bytes'[y] = IF y = c THEN bytes[y] - Mtu ELSE bytes[y]
             /\ bytes'[y] = Mtu * (Len(cross[y]) + Cardinality(Entries(vq', y)))
             /\ bytes'[y] \in Nat
  <2> DEFINE l == Len(cross[y])
             e == Cardinality(Entries(vq, y))
             k == Cardinality(Entries(vq', y))
  <2>1. bytes'[y] = IF y = c THEN bytes[y] - Mtu ELSE bytes[y]
    BY <1>2, <1>3, <1>5
  <2>2. l \in Nat
    <3>1. PipeOK(cross[y], SwitchDelay[y])
      BY <1>1 DEF PipesOK
    <3>2. \E S : cross[y] \in Seq(S)
      BY <3>1 DEF PipeOK
    <3> QED
      BY <3>2
  <2>3. k \in Nat /\ e = k + (IF y = c THEN 1 ELSE 0) /\ bytes[y] = Mtu * (l + e)
    BY <1>5, <1>6
  <2> HIDE DEF l, e, k
  <2>4. bytes'[y] = Mtu * (l + k)
    <3>1. CASE y = c
      <4>1. \A m, a, b \in Int : m * (a + (b + 1)) - m = m * (a + b)
        OBVIOUS
      <4>2. Mtu * (l + (k + 1)) - Mtu = Mtu * (l + k)
        BY <1>4, <2>2, <2>3, <4>1
      <4> QED
        BY <2>1, <2>3, <3>1, <4>2
    <3>2. CASE y # c
      BY <2>1, <2>2, <2>3, <3>2
    <3> QED
      BY <3>1, <3>2
  <2>5. Mtu * (l + k) \in Nat
    BY <1>4, <2>2, <2>3
  <2> QED
    BY <2>1, <2>4, <2>5 DEF l, k
<1>8. BytesCounted'
  <2>1. bytes' \in [Links -> Nat]
    BY <1>3, <1>5, <1>7
  <2> QED
    BY <1>6, <1>7, <2>1 DEF BytesCounted
<1>9. \A y \in Links : /\ recv[y] = "PAUSED" <=> send[y] # "READY"
                       /\ recv[y] = "PAUSED" => bytes[y] >= Low
                       /\ bytes[y] \in Nat /\ y \in Ports
  BY <1>1, <1>5 DEF PauseAgreed, Links, Ports
<1>10. CASE bytes[c] - Mtu < Low /\ recv[c] = "PAUSED"
  <2> DEFINE t == ReceiveResume(s, c)
  <2>1. /\ PortsOK(t) /\ t.send[c] = "READY"
        /\ \A r \in Outputs : t.queue[r] = s.queue[r]
        /\ \A y \in Ports \ {c} : t.send[y] = s.send[y]
    BY <1>2, ReceiveResumeOK
  <2>2. recv' = [recv EXCEPT ![c] = "READY"] /\ Become(t)
    BY <1>3, <1>10
  <2> HIDE DEF t
  <2>3. PortsOK(State)'
    BY <2>1, <2>2, Becoming
  <2>4. queue' = t.queue /\ send' = t.send
    BY <2>2 DEF Become
  <2>5. PauseAgreed'
    <3> SUFFICES ASSUME NEW y \in Links
                 PROVE  /\ recv'[y] = "PAUSED" <=> send'[y] # "READY"
                        /\ recv'[y] = "PAUSED" => bytes'[y] >= Low
      BY DEF PauseAgreed
    <3>1. CASE y = c
      BY <1>1, <2>1, <2>2, <2>4, <3>1
    <3>2. CASE y # c
      <4>1. /\ recv'[y] = recv[y] /\ bytes'[y] = bytes[y]
            /\ send'[y] = "READY" <=> send[y] = "READY"
        BY <1>1, <1>7, <1>9, <2>1, <2>2, <2>4, <3>2
      <4> QED
        BY <1>9, <4>1
    <3> QED
      BY <3>1, <3>2
  <2>6. (recv \in [Links -> {"READY", "PAUSED"}])'
    BY <1>1, <2>2
  <2> QED
    BY <1>8, <2>1, <2>3, <2>4, <2>5, <2>6
<1>11. CASE ~(bytes[c] - Mtu < Low /\ recv[c] = "PAUSED")
  <2>1. UNCHANGED recv /\ Become(s)
    BY <1>3, <1>11
  <2>2. PortsOK(State)'
    BY <2>1, Becoming
  <2>3. queue' = s.queue /\ send' = s.send
    BY <2>1 DEF Become
  <2>4. PauseAgreed'
    <3> SUFFICES ASSUME NEW y \in Links
                 PROVE  /\ recv'[y] = "PAUSED" <=> send'[y] # "READY"
                        /\ recv'[y] = "PAUSED" => bytes'[y] >= Low
      BY DEF PauseAgreed
    <3>1. recv'[y] = recv[y] /\ (send'[y] = "READY" <=> send[y] = "READY")
      BY <1>9, <2>1, <2>3
    <3>2. recv[y] = "PAUSED" => bytes'[y] >= Low
      BY <1>2, <1>4, <1>7, <1>9, <1>11, SMTT(60)
    <3> QED
      BY <1>9, <3>1, <3>2
  <2> QED
    BY <1>1, <1>8, <2>1, <2>2, <2>3, <2>4
<1> QED
  BY <1>10, <1>11

\* An output that transmits nothing may have any queue and any pause.
LEMMA IdleOutputOK ==
    ASSUME NEW o \in Outputs, NEW q \in Seq(Packet), NEW d \in Sends, NEW z,
           z = Mtu * Len(q), NEW u, u = <<>>
    PROVE  PortOK(o, q, z, d, NoPacket, u)
<1>1. o \notin Hosts /\ NoPacket # Busy
  BY PfcAssumption
<1>2. Mtu \in Nat /\ Len(q) \in Nat
  BY PfcAssumption
<1>3. z \in Nat
  BY <1>2
<1>4. u \in Seq(0..TxTime) /\ Sorted(u) /\ Len(u) = 0
  BY DEF Sorted
<1> HIDE DEF Sorted
<1> QED
  BY <1>1, <1>3, <1>4 DEF PortOK

LEMMA OutputCompletesIInv ==
    ASSUME IInv, NEW o \in Outputs, OutputCompletes(o)
    PROVE  IInv'
<1> DEFINE kept == Kept(o)
           u == Tail(due[o])
           k == Mtu * Len(kept)
           rest == Tail(kept)
           swept == Swept(State, o, kept, k, NoPacket, u)
           z == swept.size[o] - Mtu
           left == Held(swept, o, rest, z)
<1>1. /\ PortsOK(State) /\ PipesOK(link, LinkDelay) /\ PipesOK(cross, SwitchDelay)
      /\ BytesCounted /\ PauseAgreed /\ InputsKnown /\ SlotsOK /\ arrived \subseteq Packet
      /\ o \in Ports
  BY DEF IInv, Ports
<1>2. /\ due[o] # <<>>
      /\ IF kept = <<>>
         THEN /\ Become(swept)
              /\ ring' = [ring EXCEPT ![o].pop = 0, ![o].last = NoPacket]
              /\ UNCHANGED <<vq, bytes, recv, link, arrived>>
         ELSE /\ CompletedService(Credited(o), ServeOn(left, o))
              /\ vq' = [vq EXCEPT ![o] = Tail(@)]
              /\ ring' = [ring EXCEPT ![o].pop = 1, ![o].last = Head(kept)]
              /\ Transmit(o, Head(kept))
      /\ UNCHANGED <<sent, cross>>
  BY DEF OutputCompletes, Swept, Held, State, inputVars
<1>3. State.queue = queue /\ State.size = size /\ State.send = send /\ State.due = due
      /\ State.sending = sending
  BY DEF State
<1>4. /\ PortOK(o, queue[o], size[o], send[o], sending[o], due[o])
      /\ queue[o] \in Seq(Packet) /\ size[o] \in Nat /\ send[o] \in Sends
      /\ due[o] \in Seq(0..TxTime) /\ Sorted(due[o])
  BY <1>1, <1>3, PortTypes
<1>5. kept \in Seq(Packet) /\ Len(kept) <= Len(queue[o])
  BY <1>4, KeptFits
<1>6. u \in Seq(0..TxTime) /\ Sorted(u) /\ Len(u) = 0
  <2>1. u \in Seq(0..TxTime) /\ Sorted(u)
    BY <1>2, <1>4, SortedTail, PfcAssumption
  <2>2. due[o] # <<>> /\ due[o] \in Seq(0..TxTime)
    BY <1>2, <1>4
  <2>3. Len(due[o]) = IF sending[o] = NoPacket THEN 0 ELSE 1
    BY <1>4 DEF PortOK
  <2>4. Len(u) = Len(due[o]) - 1 /\ Len(due[o]) # 0
    BY <2>2
  <2>5. Len(due[o]) = 1
    BY <2>3, <2>4
  <2>6. Len(u) = 0
    BY <2>4, <2>5
  <2> QED
    BY <2>1, <2>6
<1> HIDE DEF kept, u
<1>7. PortOK(o, kept, k, send[o], NoPacket, u)
  <2>1. u = <<>>
    BY <1>6
  <2>2. k = Mtu * Len(kept)
    OBVIOUS
  <2> HIDE DEF k
  <2> QED
    BY <1>4, <1>5, <2>1, <2>2, IdleOutputOK
<1> HIDE DEF k
<1>8. /\ PortsOK(swept) /\ swept.queue[o] = kept /\ swept.size[o] = k
      /\ swept.sending[o] = NoPacket /\ swept.due[o] = u /\ swept.send = send
      /\ \A y \in Ports \ {o} : swept.queue[y] = queue[y]
  <2>1. swept = Put(State, o, kept, k, NoPacket, u)
    BY <1>1, SweptFields
  <2>2. PortOK(o, kept, k, State.send[o], NoPacket, u)
    BY <1>3, <1>7
  <2> HIDE DEF swept
  <2> QED
    BY <1>1, <1>3, <2>1, <2>2, SetOK
<1> HIDE DEF swept
<1>9. InputsKnown /\ vq \in [Outputs -> Seq(Links)]
      /\ \A r \in Outputs : Len(queue[r]) <= Len(vq[r])
  BY <1>1 DEF InputsKnown
<1>10. CASE kept = <<>>
  <2>1. /\ Become(swept) /\ ring' = [ring EXCEPT ![o].pop = 0, ![o].last = NoPacket]
        /\ UNCHANGED <<vq, bytes, recv, link, arrived, sent, cross>>
    BY <1>2, <1>10
  <2>2. PortsOK(State)' /\ queue' = swept.queue /\ send' = swept.send
    BY <1>8, <2>1, Becoming DEF Become
  <2>3. queue'[o] = <<>> /\ \A r \in Outputs \ {o} : queue'[r] = queue[r]
    BY <1>8, <1>10, <2>2 DEF Ports
  <2>4. SlotsOK'
    <3>1. queue'[o] \in Seq(Packet) /\ 0 + Len(queue'[o]) <= Len(queue[o])
      BY <1>4, <2>3
    <3> QED
      BY <1>1, <1>4, <2>1, <2>3, <3>1, SlotsAfter
  <2>5. InputsKnown'
    <3>1. ASSUME NEW r \in Outputs
          PROVE  Len(queue'[r]) <= Len(vq[r])
      <4>1. Len(vq[r]) \in Nat
        BY <1>9
      <4> QED
        BY <1>9, <2>3, <4>1
    <3> QED
      BY <1>9, <2>1, <3>1 DEF InputsKnown
  <2>6. BytesCounted'
    BY <1>1, <2>1 DEF BytesCounted, Entries
  <2>7. PauseAgreed'
    BY <1>1, <1>8, <2>1, <2>2 DEF PauseAgreed
  <2>8. (/\ sent \in [Hosts -> Nat] /\ \A h \in Hosts : sent[h] <= Len(Load[h])
         /\ PipesOK(link, LinkDelay) /\ PipesOK(cross, SwitchDelay)
         /\ recv \in [Links -> {"READY", "PAUSED"}] /\ arrived \subseteq Packet)'
    BY <2>1 DEF IInv, PipesOK
  <2> QED
    BY <2>2, <2>4, <2>5, <2>6, <2>7, <2>8 DEF IInv
<1>11. CASE kept # <<>>
  <2> DEFINE t == ServeOn(left, o)
  <2>1. /\ CompletedService(Credited(o), t)
        /\ vq' = [vq EXCEPT ![o] = Tail(@)]
        /\ ring' = [ring EXCEPT ![o].pop = 1, ![o].last = Head(kept)]
        /\ Transmit(o, Head(kept)) /\ UNCHANGED <<sent, cross>>
    BY <1>2, <1>11
  <2>2. /\ rest \in Seq(Packet) /\ Len(rest) = Len(kept) - 1 /\ Head(kept) \in Packet
        /\ Len(kept) \in Nat
    BY <1>5, <1>11
  <2>3. PortOK(o, rest, z, send[o], NoPacket, u)
    <3> DEFINE n == Len(kept)
               m == Len(rest)
    <3>1. z = Mtu * n - Mtu
      BY <1>8 DEF k
    <3>2. \A a, b \in Int : a * b - a = a * (b - 1)
      OBVIOUS
    <3>3. m = n - 1 /\ n \in Nat /\ m \in Nat /\ Mtu \in Nat
      BY <2>2, PfcAssumption
    <3> HIDE DEF n, m
    <3>4. z = Mtu * m
      BY <3>1, <3>2, <3>3
    <3>5. u = <<>>
      BY <1>6
    <3> HIDE DEF z, rest
    <3>6. z = Mtu * Len(rest)
      BY <3>4 DEF m
    <3> QED
      BY <1>4, <2>2, <3>5, <3>6, IdleOutputOK
  <2> HIDE DEF z, rest
  <2>4. /\ PortsOK(left) /\ left.queue[o] = rest /\ left.sending[o] = NoPacket
        /\ left.send = send
        /\ \A y \in Ports \ {o} : left.queue[y] = swept.queue[y]
    <3>1. left = Put(swept, o, rest, z, swept.sending[o], swept.due[o])
      BY <1>1, <1>8, HeldFields
    <3>2. left = Put(swept, o, rest, z, NoPacket, u)
      BY <1>8, <3>1
    <3>3. PortOK(o, rest, z, swept.send[o], NoPacket, u)
      BY <1>8, <2>3
    <3> HIDE DEF left
    <3>4. /\ PortsOK(left) /\ left.queue[o] = rest /\ left.sending[o] = NoPacket
          /\ left.send = swept.send
          /\ \A y \in Ports \ {o} : left.queue[y] = swept.queue[y]
      BY <1>1, <1>8, <3>2, <3>3, SetOK
    <3> QED
      BY <1>8, <3>4
  <2> HIDE DEF left
  <2>5. /\ PortsOK(t)
        /\ \A r \in Outputs : t.queue[r] = left.queue[r]
        /\ \A y \in Ports : t.send[y] = "READY" <=> send[y] = "READY"
    BY <1>1, <2>4, ServeOnOK
  <2> HIDE DEF t
  <2>6. vq[o] # <<>>
    <3>1. vq[o] \in Seq(Links) /\ Len(queue[o]) <= Len(vq[o]) /\ Len(kept) # 0
      BY <1>5, <1>9, <1>11
    <3> QED
      BY <1>4, <1>5, <2>2, <3>1
  <2>7. /\ BytesCounted' /\ PauseAgreed' /\ PortsOK(State)'
        /\ (recv \in [Links -> {"READY", "PAUSED"}])'
        /\ \A r \in Outputs : queue'[r] = t.queue[r]
    BY <2>1, <2>5, <2>6, DepartureOK
  <2>8. queue'[o] = rest /\ \A r \in Outputs \ {o} : queue'[r] = queue[r]
    BY <1>8, <2>4, <2>5, <2>7 DEF Ports
  <2>9. SlotsOK'
    <3>1. queue'[o] \in Seq(Packet) /\ 1 + Len(queue'[o]) <= Len(queue[o])
      BY <1>4, <1>5, <2>2, <2>8
    <3> QED
      BY <1>1, <1>4, <2>1, <2>2, <2>8, <3>1, SlotsAfter
  <2>10. InputsKnown'
    <3>1. /\ vq' \in [Outputs -> Seq(Links)] /\ Len(vq'[o]) = Len(vq[o]) - 1
          /\ Len(vq[o]) \in Nat
          /\ \A r \in Outputs \ {o} : vq'[r] = vq[r]
      BY <1>9, <2>1, <2>6
    <3>2. ASSUME NEW r \in Outputs
          PROVE  Len(queue'[r]) <= Len(vq'[r])
      <4>1. CASE r = o
        BY <1>4, <1>5, <1>9, <2>2, <2>8, <3>1, <4>1
      <4>2. CASE r # o
        BY <1>9, <2>8, <3>1, <4>2
      <4> QED
        BY <4>1, <4>2
    <3> QED
      BY <3>1, <3>2 DEF InputsKnown
  <2>11. PipesOK(link, LinkDelay)' /\ (arrived \subseteq Packet)'
    BY <1>1, <2>1, <2>2, TransmitOK
  <2>12. (/\ sent \in [Hosts -> Nat] /\ \A h \in Hosts : sent[h] <= Len(Load[h])
          /\ PipesOK(cross, SwitchDelay))'
    BY <2>1 DEF IInv, PipesOK
  <2> QED
    BY <2>7, <2>9, <2>10, <2>11, <2>12 DEF IInv
<1> QED
  BY <1>10, <1>11

LEMMA TickIInv ==
    ASSUME IInv, Tick
    PROVE  IInv'
<1>1. /\ PortsOK(State) /\ PipesOK(link, LinkDelay) /\ PipesOK(cross, SwitchDelay)
      /\ BytesCounted
  BY DEF IInv
<1>2. /\ due' = [x \in Ports |-> [i \in DOMAIN due[x] |-> due[x][i] - 1]]
      /\ link' = [x \in Links |-> Aged(link[x])]
      /\ cross' = [x \in Links |-> Aged(cross[x])]
      /\ UNCHANGED <<sent, queue, size, send, sending, vq, ring, bytes, recv, arrived>>
  BY DEF Tick, inputVars
<1>3. /\ \A x \in Ports : due[x] # <<>> => Head(due[x]) # 0
      /\ \A x \in Links : /\ link[x] # <<>> => Head(link[x]).left # 0
                          /\ cross[x] # <<>> => Head(cross[x]).left # 0
  BY DEF Tick, DueNow
<1>4. /\ State.queue = queue /\ State.size = size /\ State.send = send
      /\ State.sending = sending /\ State.due = due
  BY DEF State
<1>5. PortsOK(State)'
  <2> DEFINE aged(x) == [i \in DOMAIN due[x] |-> due[x][i] - 1]
             t == [queue |-> queue, size |-> size, send |-> send, sending |-> sending,
                   due |-> [x \in Ports |-> aged(x)]]
  <2>1. ASSUME NEW x \in Ports
        PROVE  PortOK(x, queue[x], size[x], send[x], sending[x], aged(x))
    <3> DEFINE u == due[x]
               v == aged(x)
    <3>1. PortOK(x, queue[x], size[x], send[x], sending[x], u) /\ u \in Seq(0..TxTime)
          /\ Sorted(u)
      BY <1>1, <1>4, PortTypes
    <3>2. u # <<>> => Head(u) # 0
      BY <1>3
    <3>3. v = [i \in DOMAIN u |-> u[i] - 1]
      OBVIOUS
    <3> HIDE DEF u, v
    <3>4. v \in Seq(0..TxTime) /\ Len(v) = Len(u) /\ Sorted(v)
      BY <3>1, <3>2, <3>3, SortedAged, PfcAssumption
    <3>5. u = <<>> => v = <<>>
      BY <3>1, <3>4
    <3>6. PortOK(x, queue[x], size[x], send[x], sending[x], v)
      BY <3>1, <3>4, <3>5 DEF PortOK
    <3> QED
      BY <3>6 DEF v
  <2>2. /\ t.queue = queue /\ t.size = size /\ t.send = send /\ t.sending = sending
        /\ t.due = [x \in Ports |-> aged(x)]
    OBVIOUS
  <2>3. State' = t
    BY <1>2 DEF State
  <2>4. /\ queue = [x \in Ports |-> queue[x]] /\ size = [x \in Ports |-> size[x]]
        /\ send = [x \in Ports |-> send[x]] /\ sending = [x \in Ports |-> sending[x]]
    BY <1>1, <1>4 DEF PortsOK
  <2>5. t = [queue |-> t.queue, size |-> t.size, send |-> t.send, sending |-> t.sending,
             due |-> t.due]
    OBVIOUS
  <2>6. t.due = [x \in Ports |-> t.due[x]] /\ \A x \in Ports : t.due[x] = aged(x)
    OBVIOUS
  <2> HIDE DEF t, aged
  <2>7. PortsOK(t)
    BY <2>1, <2>2, <2>4, <2>5, <2>6 DEF PortsOK
  <2> QED
    BY <2>3, <2>7
<1>6. ASSUME NEW x \in Links
      PROVE  /\ PipeOK(Aged(link[x]), LinkDelay[x])
             /\ PipeOK(Aged(cross[x]), SwitchDelay[x])
             /\ Len(Aged(cross[x])) = Len(cross[x])
  <2>1. LinkDelay[x] \in Nat /\ SwitchDelay[x] \in Nat
    BY PfcAssumption
  <2>2. PipeOK(link[x], LinkDelay[x]) /\ PipeOK(cross[x], SwitchDelay[x])
    BY <1>1 DEF PipesOK
  <2>3. PipeOK(Aged(link[x]), LinkDelay[x])
    BY <1>3, <2>1, <2>2, PipeAged
  <2>4. PipeOK(Aged(cross[x]), SwitchDelay[x]) /\ Len(Aged(cross[x])) = Len(cross[x])
    BY <1>3, <2>1, <2>2, PipeAged
  <2> QED
    BY <2>3, <2>4
<1>7. PipesOK(link, LinkDelay)' /\ PipesOK(cross, SwitchDelay)'
  <2>1. PipesOK(link', LinkDelay)
    BY <1>2, <1>6 DEF PipesOK
  <2>2. PipesOK(cross', SwitchDelay)
    BY <1>2, <1>6 DEF PipesOK
  <2> QED
    BY <2>1, <2>2
<1>8. BytesCounted'
  <2>1. \A x \in Links : Len(cross'[x]) = Len(cross[x])
    BY <1>2, <1>6
  <2>2. /\ bytes \in [Links -> Nat]
        /\ \A x \in Links :
             /\ IsFiniteSet(Entries(vq, x))
             /\ bytes[x] = Mtu * (Len(cross[x]) + Cardinality(Entries(vq, x)))
    BY <1>1 DEF BytesCounted
  <2>3. \A x \in Links : Entries(vq', x) = Entries(vq, x)
    BY <1>2
  <2> QED
    BY <1>2, <2>1, <2>2, <2>3 DEF BytesCounted
<1>9. (/\ sent \in [Hosts -> Nat] /\ \A h \in Hosts : sent[h] <= Len(Load[h])
       /\ InputsKnown /\ SlotsOK
       /\ recv \in [Links -> {"READY", "PAUSED"}] /\ PauseAgreed /\ arrived \subseteq Packet)'
  BY <1>2 DEF IInv, InputsKnown, SlotsOK, PauseAgreed
<1> QED
  BY <1>5, <1>7, <1>8, <1>9 DEF IInv

LEMMA StutterIInv ==
    ASSUME IInv, UNCHANGED vars
    PROVE  IInv'
<1>1. UNCHANGED <<sent, queue, size, send, sending, due, vq, ring, link, cross, bytes, recv,
                  arrived>>
  BY DEF vars, portVars, pipeVars, inputVars
<1>2. State' = State
  BY <1>1 DEF State
<1>3. PortsOK(State)'
  BY <1>2 DEF IInv
<1>4. PipesOK(link, LinkDelay)' /\ PipesOK(cross, SwitchDelay)'
  BY <1>1 DEF IInv, PipesOK
<1>5. BytesCounted'
  BY <1>1 DEF IInv, BytesCounted, Entries
<1>6. InputsKnown' /\ SlotsOK' /\ PauseAgreed'
  BY <1>1 DEF IInv, InputsKnown, SlotsOK, PauseAgreed
<1> QED
  BY <1>1, <1>3, <1>4, <1>5, <1>6 DEF IInv

LEMMA InitIInv ==
    ASSUME Init
    PROVE  IInv
<1>1. /\ Mtu \in Nat /\ TxTime \in Nat /\ InitSize \in Nat /\ InitSize > 1
      /\ NoPacket # Busy /\ Low \in Nat /\ Load \in [Hosts -> Seq(Seq(Exits))]
      /\ LinkDelay \in [Links -> Nat] /\ SwitchDelay \in [Links -> Nat]
  BY PfcAssumption
<1>2. PortsOK(State)
  <2>1. ASSUME NEW x \in Ports
        PROVE  PortOK(x, <<>>, 0, "READY", NoPacket, <<>>)
    <3>1. <<>> \in Seq(Packet) /\ <<>> \in Seq(0..TxTime) /\ Sorted(<<>>)
          /\ Mtu * Len(<<>>) = 0 /\ "READY" \in Sends /\ Len(<<>>) = 0
      BY <1>1 DEF Sorted, Sends
    <3>2. NoPacket \in Packet \cup {NoPacket} /\ NoPacket \in {NoPacket, Busy}
      OBVIOUS
    <3>3. 0 \in Nat /\ 0 >= 0 + 0
      OBVIOUS
    <3> HIDE DEF Packet
    <3> QED
      BY <1>1, <3>1, <3>2, <3>3 DEF PortOK
  <2>2. /\ State.queue = [x \in Ports |-> <<>>] /\ State.size = [x \in Ports |-> 0]
        /\ State.send = [x \in Ports |-> "READY"]
        /\ State.sending = [x \in Ports |-> NoPacket] /\ State.due = [x \in Ports |-> <<>>]
        /\ State = [queue |-> State.queue, size |-> State.size, send |-> State.send,
                    sending |-> State.sending, due |-> State.due]
    BY DEF Init, State
  <2> QED
    BY <2>1, <2>2 DEF PortsOK
<1>3. PipesOK(link, LinkDelay) /\ PipesOK(cross, SwitchDelay)
  <2>1. \A d \in Nat : PipeOK(<<>>, d)
    BY DEF PipeOK
  <2> QED
    BY <1>1, <2>1 DEF Init, PipesOK
<1>4. InputsKnown
  BY DEF Init, InputsKnown, Ports
<1>5. BytesCounted
  <2>1. ASSUME NEW x \in Links
        PROVE  /\ bytes[x] = 0 /\ Len(cross[x]) = 0
               /\ IsFiniteSet(Entries(vq, x)) /\ Cardinality(Entries(vq, x)) = 0
    <3>1. \A o \in Outputs : Len(vq[o]) = 0
      BY DEF Init
    <3>2. Entries(vq, x) = {}
      BY <3>1 DEF Entries
    <3>3. bytes[x] = 0 /\ Len(cross[x]) = 0
      BY DEF Init
    <3> QED
      BY <3>2, <3>3, FS_EmptySet
  <2>2. bytes \in [Links -> Nat]
    BY DEF Init
  <2>3. Mtu * (0 + 0) = 0
    BY <1>1
  <2> QED
    BY <2>1, <2>2, <2>3 DEF BytesCounted
<1>6. SlotsOK
  <2>1. \A o \in Outputs : Len(queue[o]) = 0 /\ ring[o] = [size |-> InitSize, pop |-> 0,
                                                             last |-> NoPacket]
    BY DEF Init, Ports
  <2>2. ring \in [Outputs -> [size : Nat, pop : {0, 1}, last : Packet \cup {NoPacket}]]
    BY <1>1 DEF Init
  <2> QED
    BY <1>1, <2>1, <2>2 DEF SlotsOK
<1>7. PauseAgreed /\ recv \in [Links -> {"READY", "PAUSED"}]
  BY DEF Init, PauseAgreed, Links, Ports
<1>8. sent \in [Hosts -> Nat] /\ (\A h \in Hosts : sent[h] <= Len(Load[h]))
      /\ arrived \subseteq Packet
  <2>1. \A h \in Hosts : Len(Load[h]) \in Nat
    BY <1>1
  <2> QED
    BY <2>1 DEF Init
<1> QED
  BY <1>2, <1>3, <1>4, <1>5, <1>6, <1>7, <1>8 DEF IInv

\* Every action keeps the invariant.
LEMMA NextIInv ==
    ASSUME IInv, [Next]_vars
    PROVE  IInv'
<1>1. CASE \E h \in Hosts : HostSends(h)
  BY <1>1, HostSendsIInv
<1>2. CASE \E h \in Hosts : HostCompletes(h)
  BY <1>2, HostCompletesIInv
<1>3. CASE \E x \in Links : ReachesInput(x) \/ ReachesOutput(x)
  BY <1>3, ReachesInputIInv, ReachesOutputIInv
<1>4. CASE \E o \in Outputs : OutputCompletes(o)
  BY <1>4, OutputCompletesIInv
<1>5. CASE Tick
  BY <1>5, TickIInv
<1>6. CASE UNCHANGED vars
  BY <1>6, StutterIInv
<1> QED
  BY <1>1, <1>2, <1>3, <1>4, <1>5, <1>6 DEF Next, Happens

-----------------------------------------------------------------------------
(* What holds of every network *)

\* The inductive invariant is an invariant.
THEOREM PfcInvariance == Spec => []IInv
<1>1. Init => IInv
  BY InitIInv
<1>2. IInv /\ [Next]_vars => IInv'
  BY NextIInv
<1> QED
  BY <1>1, <1>2, PTL DEF Spec

\* Every variable has its type, and completeService of an output reads slots of its
\* buffer that hold a packet, without going around.
THEOREM PfcTypeCorrect == Spec => []TypeOK
<1>1. IInv => TypeOK
  <2> SUFFICES ASSUME IInv
               PROVE  TypeOK
    OBVIOUS
  <2>1. /\ State.queue = queue /\ State.size = size /\ State.send = send
        /\ State.sending = sending /\ State.due = due
    BY DEF State
  <2>2. /\ queue = [x \in Ports |-> queue[x]] /\ size = [x \in Ports |-> size[x]]
        /\ send = [x \in Ports |-> send[x]] /\ due = [x \in Ports |-> due[x]]
    BY <2>1 DEF IInv, PortsOK
  <2>3. \A x \in Ports :
          /\ queue[x] \in Seq(Packet) /\ size[x] \in Nat /\ due[x] \in Seq(0..TxTime)
          /\ send[x] \in Sends
          /\ x \in Hosts => sending[x] \in Packet \cup {NoPacket}
          /\ x \in Outputs => sending[x] \in {NoPacket, Busy}
    <3> SUFFICES ASSUME NEW x \in Ports
                 PROVE  PortOK(x, queue[x], size[x], send[x], sending[x], due[x])
      BY DEF PortOK
    <3> QED
      BY <2>1 DEF IInv, PortsOK
  <2>4. /\ queue \in [Ports -> Seq(Packet)] /\ size \in [Ports -> Nat]
        /\ due \in [Ports -> Seq(0..TxTime)]
        /\ send \in [Ports -> {"READY", "PAUSED", "PAUSE_RECEIVED"}]
    <3>1. \A x \in Ports : /\ queue[x] \in Seq(Packet) /\ size[x] \in Nat
                           /\ due[x] \in Seq(0..TxTime)
                           /\ send[x] \in {"READY", "PAUSED", "PAUSE_RECEIVED"}
      BY <2>3 DEF Sends
    <3> QED
      BY <2>2, <3>1
  <2>5. /\ \A h \in Hosts : sending[h] \in Packet \cup {NoPacket}
        /\ \A o \in Outputs : sending[o] \in {NoPacket, Busy}
    BY <2>3 DEF Ports
  <2>6. \A h \in Hosts : sent[h] \in 0..Len(Load[h])
    <3>1. sent \in [Hosts -> Nat] /\ \A h \in Hosts : sent[h] <= Len(Load[h])
      BY DEF IInv
    <3>2. \A h \in Hosts : Len(Load[h]) \in Nat
      BY PfcAssumption
    <3> QED
      BY <3>1, <3>2
  <2>7. \A x \in Links : \A i \in DOMAIN link[x] : link[x][i].left \in 0..LinkDelay[x]
    <3> SUFFICES ASSUME NEW x \in Links, NEW i \in DOMAIN link[x]
                 PROVE  link[x][i].left \in 0..LinkDelay[x]
      OBVIOUS
    <3> DEFINE Cell == [pkt : Packet, left : 0..LinkDelay[x]]
    <3>1. link[x] \in Seq(Cell)
      BY DEF IInv, PipesOK, PipeOK
    <3>2. link[x][i] \in Cell
      <4> HIDE DEF Cell
      <4> QED
        BY <3>1
    <3> QED
      BY <3>2
  <2>8. \A x \in Links : \A i \in DOMAIN cross[x] : cross[x][i].left \in 0..SwitchDelay[x]
    <3> SUFFICES ASSUME NEW x \in Links, NEW i \in DOMAIN cross[x]
                 PROVE  cross[x][i].left \in 0..SwitchDelay[x]
      OBVIOUS
    <3> DEFINE Cell == [pkt : Packet, left : 0..SwitchDelay[x]]
    <3>1. cross[x] \in Seq(Cell)
      BY DEF IInv, PipesOK, PipeOK
    <3>2. cross[x][i] \in Cell
      <4> HIDE DEF Cell
      <4> QED
        BY <3>1
    <3> QED
      BY <3>2
  <2>9. /\ vq \in [Outputs -> Seq(Links)] /\ bytes \in [Links -> Nat]
        /\ recv \in [Links -> {"READY", "PAUSED"}] /\ arrived \subseteq Packet
    BY DEF IInv, InputsKnown, BytesCounted
  <2>10. \A o \in Outputs : ring[o].pop \in {0, 1}
                            /\ ring[o].pop + Len(queue[o]) <= ring[o].size
    <3>1. /\ ring \in [Outputs -> [size : Nat, pop : {0, 1}, last : Packet \cup {NoPacket}]]
          /\ \A o \in Outputs : ring[o].pop + Len(queue[o]) <= ring[o].size
      BY DEF IInv, SlotsOK
    <3>2. \A o \in Outputs : ring[o].pop \in {0, 1}
      BY <3>1
    <3> QED
      BY <3>1, <3>2
  <2> QED
    BY <2>4, <2>5, <2>6, <2>7, <2>8, <2>9, <2>10 DEF TypeOK
<1> QED
  BY <1>1, PfcInvariance, PTL

\* A port is paused while, and only while, the input queue at the end of its link says
\* so, and an input says so only while enough is in its switch for a departure to lift
\* the pause: no PAUSE or RESUME is forgotten, doubled or left without one that ends it,
\* whenever they come and whatever is transmitted or dropped meanwhile.
THEOREM PausesAgree == Spec => []PauseAgreed
<1>1. IInv => PauseAgreed
  BY DEF IInv
<1> QED
  BY <1>1, PfcInvariance, PTL

\* The bytes an input queue counts are those of the packets in the pipe of its switch
\* and of its entries in the lists of the outputs: however the inputs share the outputs,
\* every departure takes its packet off the count of the input it is credited to, and
\* no count falls below 0. (An entry whose packet was dropped is counted until the end.)
THEOREM BytesMatchEntries == Spec => []BytesCounted
<1>1. IInv => BytesCounted
  BY DEF IInv
<1> QED
  BY <1>1, PfcInvariance, PTL

\* An output transmits one packet at a time: it has one completion pending while it
\* transmits and none otherwise, transmits only while it has a packet, and no more once
\* it is paused. (Hosts do not keep to this: a RESUME during a transmission starts
\* another.)
OutputsServeOne ==
    \A o \in Outputs : /\ Len(due[o]) = IF sending[o] = NoPacket THEN 0 ELSE 1
                       /\ sending[o] = Busy => queue[o] # <<>>
                       /\ send[o] = "PAUSED" => due[o] = <<>>

THEOREM OutputsServeOneAtATime == Spec => []OutputsServeOne
<1>1. IInv => OutputsServeOne
  <2> SUFFICES ASSUME IInv, NEW o \in Outputs
               PROVE  /\ Len(due[o]) = IF sending[o] = NoPacket THEN 0 ELSE 1
                      /\ sending[o] = Busy => queue[o] # <<>>
                      /\ send[o] = "PAUSED" => due[o] = <<>>
    BY DEF OutputsServeOne
  <2>1. PortOK(o, queue[o], size[o], send[o], sending[o], due[o])
    BY DEF IInv, PortsOK, State, Ports
  <2> QED
    BY <2>1 DEF PortOK
<1> QED
  BY <1>1, PfcInvariance, PTL


-----------------------------------------------------------------------------
(* Headroom *)

\* What an input queue may count at most, if the pipe of its link has delay d.
Most(d) == High + Mtu * (2 + d \div TxTime)

\* A port takes TxTime for each packet: so far apart the packets in a pipe are.
Spaced(l) == \A i, j \in DOMAIN l : i <= j => l[i].left + (j - i) * TxTime <= l[j].left

\* The pipe of a link holds l, its port has completions u, and the input queue at its
\* end counts b and says r. One that has not paused its port counts no more than the
\* threshold; one that has leaves room for what is in the pipe and in transmission.
Room(l, u, b, r, d) ==
    /\ Spaced(l)
    /\ l # <<>> /\ u # <<>> => l[Len(l)].left + TxTime <= d + Head(u)
    /\ r = "READY" => b <= High
    /\ r = "PAUSED" => b + Mtu * (Len(l) + Len(u)) <= Most(d)

RoomAt(x) == Room(link[x], due[x], bytes[x], recv[x], LinkDelay[x])

\* Multiples of a natural number that fit in another.
LEMMA Quotient ==
    ASSUME NEW a \in Nat, NEW d \in Nat, NEW t \in Nat \ {0}, a * t <= d
    PROVE  d \div t \in Nat /\ a <= d \div t
<1> DEFINE q == d \div t
           r == d % t
<1>1. q \in Int /\ r \in 0..(t - 1) /\ d = t * q + r
  OBVIOUS
<1> HIDE DEF q, r
<1>2. \A e, f, g \in Int : e * (f + g) = e * f + e * g
  OBVIOUS
<1>3. q >= 0
  <2> SUFFICES ASSUME q <= -1
               PROVE  FALSE
    BY <1>1
  <2>1. t * q <= t * (-1)
    BY <1>1
  <2> QED
    BY <1>1, <2>1
<1>4. a <= q
  <2> SUFFICES ASSUME q + 1 <= a
               PROVE  FALSE
    BY <1>1
  <2>1. t * (q + 1) <= t * a
    BY <1>1
  <2>2. t * (q + 1) = t * q + t
    BY <1>1, <1>2
  <2>3. t * a = a * t
    OBVIOUS
  <2> QED
    BY <1>1, <2>1, <2>2, <2>3
<1> QED
  BY <1>1, <1>3, <1>4 DEF q

\* The most is natural, and leaves two packets beyond the threshold at least.
LEMMA MostType ==
    ASSUME NEW d \in Nat
    PROVE  /\ Most(d) \in Nat /\ d \div TxTime \in Nat /\ High + Mtu <= Most(d)
           /\ \A k \in Nat : k * TxTime <= d => High + Mtu + Mtu * (k + 1) <= Most(d)
<1> DEFINE q == d \div TxTime
<1>1. /\ TxTime \in Nat \ {0} /\ Mtu \in Nat /\ High \in Nat
  BY PfcAssumption
<1>2. q \in Nat /\ \A k \in Nat : k * TxTime <= d => k <= q
  <2>1. 0 * TxTime <= d
    BY <1>1
  <2> QED
    BY <1>1, <2>1, Quotient
<1>3. Most(d) = High + Mtu * (2 + q)
  BY DEF Most
<1> HIDE DEF q
<1>4. \A e, f, g \in Int : e * (f + g) = e * f + e * g
  OBVIOUS
<1>5. ASSUME NEW k \in Nat, k <= q
      PROVE  /\ Mtu * (k + 1) \in Nat /\ Mtu * (2 + q) \in Nat
             /\ Mtu + Mtu * (k + 1) <= Mtu * (2 + q)
  <2> DEFINE m == q - k
  <2>1. m \in Nat /\ 2 + q = (1 + m) + (k + 1) /\ 1 + m \in Nat /\ k + 1 \in Nat
    BY <1>2, <1>5
  <2> HIDE DEF m
  <2>2. Mtu * (2 + q) = Mtu * (1 + m) + Mtu * (k + 1)
    BY <1>1, <1>4, <2>1
  <2>3. Mtu * (1 + m) = Mtu * 1 + Mtu * m
    BY <1>1, <1>4, <2>1
  <2>4. Mtu * m \in Nat /\ Mtu * (k + 1) \in Nat /\ Mtu * 1 = Mtu
    BY <1>1, <2>1
  <2> QED
    BY <1>1, <2>2, <2>3, <2>4
<1>6. /\ Mtu * (0 + 1) \in Nat /\ Mtu * (2 + q) \in Nat
      /\ Mtu + Mtu * (0 + 1) <= Mtu * (2 + q)
  <2>1. 0 \in Nat /\ 0 <= q
    BY <1>2
  <2> QED
    BY <1>5, <2>1
<1> QED
  BY <1>1, <1>2, <1>3, <1>5, <1>6 DEF q

\* The types of what Room is about.
RoomTypes(l, u, b, r, d) ==
    /\ d \in Nat /\ PipeOK(l, d) /\ u \in Seq(0..TxTime) /\ b \in Nat
    /\ r \in {"READY", "PAUSED"}

LEMMA PipeTypes ==
    ASSUME NEW d \in Nat, NEW l, PipeOK(l, d)
    PROVE  /\ l \in Seq([pkt : Packet, left : 0..d]) /\ Len(l) \in Nat
           /\ DOMAIN l = 1..Len(l) /\ \A i \in 1..Len(l) : l[i].left \in 0..d
<1> DEFINE Cell == [pkt : Packet, left : 0..d]
<1>1. l \in Seq(Cell)
  BY DEF PipeOK
<1>2. \A e \in Cell : e.left \in 0..d
  OBVIOUS
<1> HIDE DEF Cell
<1>3. Len(l) \in Nat /\ DOMAIN l = 1..Len(l) /\ \A i \in 1..Len(l) : l[i] \in Cell
  BY <1>1
<1> QED
  BY <1>1, <1>2, <1>3 DEF Cell

\* A departure, a completion and a transmission that begins, of a port that may.
LEMMA RoomKept ==
    ASSUME NEW d, NEW l, NEW u, NEW b, NEW r, RoomTypes(l, u, b, r, d), Len(u) <= 1,
           NEW v, NEW c, NEW s, RoomTypes(l, v, c, s, d),
           v = u \/ v = <<>> \/ (s = "READY" /\ v = <<TxTime>>),
           c <= b, s = r \/ (s = "READY" /\ c <= High),
           Room(l, u, b, r, d)
    PROVE  Room(l, v, c, s, d)
<1>1. /\ TxTime \in Nat /\ Mtu \in Nat /\ High \in Nat
  BY PfcAssumption
<1>2. /\ d \in Nat /\ Len(l) \in Nat /\ \A i \in 1..Len(l) : l[i].left \in 0..d
      /\ DOMAIN l = 1..Len(l) /\ \E S : l \in Seq(S)
  BY PipeTypes DEF RoomTypes
<1>3. Spaced(l)
  BY DEF Room
<1>4. ASSUME l # <<>>, v # <<>>
      PROVE  l[Len(l)].left + TxTime <= d + Head(v)
  <2>1. CASE v = u
    BY <1>4, <2>1 DEF Room
  <2>2. CASE v # u
    <3>1. Head(v) = TxTime
      BY <1>1, <1>4, <2>2
    <3>2. l[Len(l)].left <= d /\ l[Len(l)].left \in Nat
      <4>1. Len(l) \in 1..Len(l)
        BY <1>2, <1>4
      <4> QED
        BY <1>2, <4>1
    <3> QED
      BY <1>1, <1>2, <3>1, <3>2
  <2> QED
    BY <2>1, <2>2
<1>5. s = "READY" => c <= High
  BY <1>1 DEF Room, RoomTypes
<1>6. ASSUME s = "PAUSED"
      PROVE  c + Mtu * (Len(l) + Len(v)) <= Most(d)
  <2> DEFINE n == Len(l) + Len(u)
             m == Len(l) + Len(v)
  <2>1. r = "PAUSED" /\ (v = u \/ v = <<>>)
    BY <1>6
  <2>2. n \in Nat /\ m \in Nat /\ m <= n /\ b \in Nat /\ c \in Nat /\ Most(d) \in Nat
    <3>1. Most(d) \in Nat
      BY <1>2, MostType
    <3>2. Len(u) \in Nat /\ Len(v) \in Nat /\ Len(v) <= Len(u)
      BY <2>1 DEF RoomTypes
    <3> QED
      BY <1>2, <3>1, <3>2 DEF RoomTypes
  <2>3. b + Mtu * n <= Most(d)
    BY <2>1 DEF Room
  <2> HIDE DEF n, m
  <2>4. Mtu * m <= Mtu * n /\ Mtu * m \in Nat /\ Mtu * n \in Nat
    BY <1>1, <2>2
  <2>5. c + Mtu * m <= Most(d)
    BY <2>2, <2>3, <2>4
  <2> QED
    BY <2>5 DEF m
<1> QED
  BY <1>3, <1>4, <1>5, <1>6 DEF Room

\* A packet that has been transmitted enters the pipe.
LEMMA RoomAppend ==
    ASSUME NEW d, NEW l, NEW u, NEW b, NEW r, RoomTypes(l, u, b, r, d),
           Len(u) = 1, Head(u) = 0, Room(l, u, b, r, d), NEW p \in Packet
    PROVE  Room(Append(l, [pkt |-> p, left |-> d]), <<>>, b, r, d)
<1> DEFINE e == [pkt |-> p, left |-> d]
           m == Append(l, e)
           n == Len(l)
<1>1. /\ TxTime \in Nat /\ Mtu \in Nat
  BY PfcAssumption
<1>2. /\ d \in Nat /\ n \in Nat /\ \A i \in 1..n : l[i].left \in 0..d
      /\ DOMAIN l = 1..n /\ \E S : l \in Seq(S)
  BY PipeTypes DEF RoomTypes
<1>3. /\ DOMAIN m = 1..(n + 1) /\ Len(m) = n + 1 /\ m[n + 1].left = d
      /\ \A i \in 1..n : m[i] = l[i]
  BY <1>2
<1>4. n # 0 => l[n].left + TxTime <= d
  <2> SUFFICES ASSUME n # 0
               PROVE  l[n].left + TxTime <= d
    OBVIOUS
  <2>1. l # <<>> /\ u # <<>>
    <3>1. Len(<<>>) = 0
      OBVIOUS
    <3> QED
      BY <3>1
  <2>2. l[n].left + TxTime <= d + 0
    BY <2>1 DEF Room
  <2> QED
    BY <1>2, <2>2
<1> HIDE DEF e, m, n
<1>5. Spaced(m)
  <2> SUFFICES ASSUME NEW i \in 1..(n + 1), NEW j \in 1..(n + 1), i <= j
               PROVE  m[i].left + (j - i) * TxTime <= m[j].left
    BY <1>3 DEF Spaced
  <2>1. CASE j \in 1..n
    <3>1. i \in 1..n
      BY <1>2, <2>1
    <3>2. l[i].left + (j - i) * TxTime <= l[j].left
      BY <1>2, <2>1, <3>1 DEF Room, Spaced
    <3> QED
      BY <1>3, <2>1, <3>1, <3>2
  <2>2. CASE j = n + 1 /\ i = n + 1
    <3>1. (j - i) * TxTime = 0
      BY <1>1, <1>2, <2>2
    <3> QED
      BY <1>2, <1>3, <2>2, <3>1
  <2>3. CASE j = n + 1 /\ i # n + 1
    <3>1. i \in 1..n /\ n \in 1..n /\ i <= n
      BY <1>2, <2>3
    <3>2. l[i].left + (n - i) * TxTime <= l[n].left
      BY <1>2, <3>1 DEF Room, Spaced
    <3> DEFINE k == n - i
               s == k * TxTime
    <3>3. k \in Nat /\ j - i = k + 1
      <4>1. n \in Int /\ i \in Int /\ i <= n /\ j = n + 1
        BY <2>3, <3>1
      <4> QED
        BY <4>1
    <3> HIDE DEF k
    <3>4. (k + 1) * TxTime = s + TxTime /\ s \in Nat
      BY <1>1, <3>3
    <3>5. l[i].left + s <= l[n].left
      BY <3>2 DEF k
    <3> HIDE DEF s
    <3>6. l[i].left \in Nat /\ l[n].left \in Nat /\ l[n].left + TxTime <= d
      BY <1>2, <1>4, <3>1
    <3>7. l[i].left + (s + TxTime) <= d
      BY <1>1, <1>2, <3>4, <3>5, <3>6, SMTT(60)
    <3> QED
      BY <1>3, <2>3, <3>1, <3>3, <3>4, <3>7
  <2> QED
    BY <1>2, <2>1, <2>2, <2>3
<1>6. Len(m) + Len(<<>>) = Len(l) + Len(u)
  BY <1>2, <1>3 DEF n
<1> QED
  BY <1>5, <1>6 DEF Room, m, e

\* A packet leaves the pipe and is counted by the input queue, which may pause its port.
LEMMA RoomTail ==
    ASSUME NEW d, NEW l, NEW u, NEW b, NEW r, RoomTypes(l, u, b, r, d), Len(u) <= 1,
           l # <<>>, Head(l).left = 0, Room(l, u, b, r, d), NEW s,
           s = IF b + Mtu > High /\ r # "PAUSED" THEN "PAUSED" ELSE r
    PROVE  Room(Tail(l), u, b + Mtu, s, d)
<1> DEFINE m == Tail(l)
           n == Len(l)
           k == n - 1
<1>1. TxTime \in Nat /\ Mtu \in Nat /\ High \in Nat
  BY PfcAssumption
<1>2. /\ d \in Nat /\ n \in Nat /\ \A i \in 1..n : l[i].left \in 0..d
      /\ DOMAIN l = 1..n /\ \E S : l \in Seq(S)
  BY PipeTypes DEF RoomTypes
<1>3. /\ DOMAIN m = 1..k /\ Len(m) = k /\ \A i \in 1..k : m[i] = l[i + 1]
      /\ k \in Nat /\ n = k + 1 /\ l[1].left = 0 /\ 1 \in 1..n /\ n \in 1..n
  BY <1>2
<1> HIDE DEF m, n, k
<1>4. \A i, j \in 1..n : i <= j => l[i].left + (j - i) * TxTime <= l[j].left
  BY <1>2 DEF Room, Spaced
<1>5. Spaced(m)
  <2> SUFFICES ASSUME NEW i \in 1..k, NEW j \in 1..k, i <= j
               PROVE  m[i].left + (j - i) * TxTime <= m[j].left
    BY <1>3 DEF Spaced
  <2>1. i + 1 \in 1..n /\ j + 1 \in 1..n /\ i + 1 <= j + 1 /\ (j + 1) - (i + 1) = j - i
    BY <1>3
  <2>2. l[i + 1].left + ((j + 1) - (i + 1)) * TxTime <= l[j + 1].left
    BY <1>4, <2>1
  <2> QED
    BY <1>3, <2>1, <2>2
<1>6. ASSUME m # <<>>, u # <<>>
      PROVE  m[Len(m)].left + TxTime <= d + Head(u)
  <2>1. k \in 1..k
    BY <1>2, <1>3, <1>6 DEF m
  <2>2. l[n].left + TxTime <= d + Head(u)
    BY <1>6 DEF Room, n
  <2> QED
    BY <1>3, <2>1, <2>2
<1>7. Len(u) \in Nat /\ b \in Nat /\ r \in {"READY", "PAUSED"} /\ u \in Seq(0..TxTime)
  BY DEF RoomTypes
<1>8. s = "READY" => b + Mtu <= High
  BY <1>1, <1>7
<1> DEFINE w == k + Len(u)
<1>9. w \in Nat /\ n + Len(u) = w + 1
  BY <1>3, <1>7
<1>10. Most(d) \in Nat
  BY <1>2, MostType
<1>11. ASSUME s = "PAUSED"
       PROVE  (b + Mtu) + Mtu * w <= Most(d)
  <2> DEFINE z == Mtu * w
  <2> HIDE DEF w
  <2>1. z \in Nat /\ Mtu * (w + 1) = z + Mtu
    BY <1>1, <1>9
  <2>2. CASE r = "PAUSED"
    <3>1. b + Mtu * (w + 1) <= Most(d)
      BY <1>9, <2>2 DEF Room, n
    <3> HIDE DEF z
    <3> QED
      BY <1>1, <1>7, <1>10, <2>1, <3>1 DEF z
  <2>3. CASE r # "PAUSED"
    <3>1. b <= High
      BY <1>7, <2>3 DEF Room
    <3>2. k * TxTime <= d
      <4>1. l[1].left + (n - 1) * TxTime <= l[n].left
        BY <1>3, <1>4
      <4>2. n - 1 = k /\ l[1].left = 0 /\ l[n].left \in 0..d
        BY <1>2, <1>3
      <4>3. k * TxTime \in Int
        BY <1>1, <1>3
      <4> QED
        BY <1>2, <4>1, <4>2, <4>3
    <3>3. High + Mtu + Mtu * (k + 1) <= Most(d)
      BY <1>2, <1>3, <3>2, MostType
    <3>4. w <= k + 1
      BY <1>3, <1>7 DEF w
    <3>5. z <= Mtu * (k + 1) /\ Mtu * (k + 1) \in Nat
      BY <1>1, <1>3, <1>9, <3>4
    <3> HIDE DEF z
    <3> QED
      BY <1>1, <1>7, <1>10, <2>1, <3>1, <3>3, <3>5 DEF z
  <2> QED
    BY <2>2, <2>3
<1> QED
  BY <1>3, <1>5, <1>6, <1>8, <1>11 DEF Room, m, w

\* Time passes.
LEMMA RoomAged ==
    ASSUME NEW d, NEW l, NEW u, NEW b, NEW r, RoomTypes(l, u, b, r, d),
           Room(l, u, b, r, d), NEW v, v = [i \in DOMAIN u |-> u[i] - 1]
    PROVE  Room(Aged(l), v, b, r, d)
<1> DEFINE m == Aged(l)
           n == Len(l)
<1>1. TxTime \in Nat
  BY PfcAssumption
<1>2. /\ d \in Nat /\ n \in Nat /\ \A i \in 1..n : l[i].left \in 0..d
      /\ DOMAIN l = 1..n /\ l \in Seq([pkt : Packet, left : 0..d])
  BY PipeTypes DEF RoomTypes
<1>3. /\ DOMAIN m = 1..n /\ \A i \in 1..n : m[i].left = l[i].left - 1
  <2> DEFINE Cell == [pkt : Packet, left : 0..d]
  <2>1. \A i \in 1..n : l[i] \in Cell
    <3>1. l \in Seq(Cell)
      BY <1>2
    <3> HIDE DEF Cell
    <3> QED
      BY <1>2, <3>1
  <2>2. \A c \in Cell : [c EXCEPT !.left = @ - 1].left = c.left - 1
    OBVIOUS
  <2> HIDE DEF Cell
  <2>3. m = [i \in 1..n |-> [l[i] EXCEPT !.left = @ - 1]]
    BY <1>2 DEF Aged
  <2> QED
    BY <2>1, <2>2, <2>3
<1>4. Len(m) = n
  BY <1>2 DEF Aged
<1> HIDE DEF m, n
<1>5. Spaced(m)
  <2> SUFFICES ASSUME NEW i \in 1..n, NEW j \in 1..n, i <= j
               PROVE  m[i].left + (j - i) * TxTime <= m[j].left
    BY <1>3 DEF Spaced
  <2>1. l[i].left + (j - i) * TxTime <= l[j].left
    BY <1>2 DEF Room, Spaced
  <2>2. (j - i) * TxTime \in Int /\ l[i].left \in Int /\ l[j].left \in Int
    BY <1>1, <1>2
  <2> QED
    BY <1>3, <2>1, <2>2, SMTT(60)
<1>6. u \in Seq(0..TxTime)
  BY DEF RoomTypes
<1>7. Len(v) = Len(u) /\ (v # <<>> => u # <<>> /\ Head(v) = Head(u) - 1 /\ Head(u) \in Int)
  <2> DEFINE t == Len(u)
  <2>1. t \in Nat /\ DOMAIN u = 1..t /\ \A i \in 1..t : u[i] \in Int
    BY <1>1, <1>6
  <2>2. (u = <<>> <=> t = 0) /\ Head(u) = u[1]
    BY <1>6
  <2> HIDE DEF t
  <2>3. v = [i \in 1..t |-> u[i] - 1]
    BY <2>1
  <2>4. v \in Seq(Int)
    BY <2>1, <2>3
  <2>5. Len(v) = t /\ (v # <<>> <=> t # 0) /\ (t # 0 => Head(v) = u[1] - 1)
    <3>1. Len(v) = t
      BY <2>1, <2>3
    <3>2. v # <<>> <=> t # 0
      BY <2>4, <3>1
    <3>3. ASSUME t # 0
          PROVE  Head(v) = u[1] - 1
      <4>1. Head(v) = v[1] /\ 1 \in 1..t
        BY <2>1, <2>4, <3>2, <3>3
      <4> QED
        BY <2>3, <4>1
    <3> QED
      BY <3>1, <3>2, <3>3
  <2> QED
    BY <2>1, <2>2, <2>5 DEF t
<1>8. ASSUME m # <<>>, v # <<>>
      PROVE  m[Len(m)].left + TxTime <= d + Head(v)
  <2>1. n # 0 /\ l # <<>>
    BY <1>2, <1>3, <1>4, <1>8 DEF m, n, Aged
  <2>2. n \in 1..n
    BY <1>2, <2>1
  <2>3. l[n].left + TxTime <= d + Head(u)
    BY <1>7, <1>8, <2>1 DEF Room, n
  <2> QED
    BY <1>1, <1>2, <1>3, <1>4, <1>7, <1>8, <2>2, <2>3, SMTT(60)
<1> QED
  BY <1>4, <1>5, <1>7, <1>8 DEF Room, m, n

\* A state of the ports, as far as completions and pauses go.
Fields(s) ==
    /\ s = [queue |-> s.queue, size |-> s.size, send |-> s.send, sending |-> s.sending,
            due |-> s.due]
    /\ s.send = [x \in Ports |-> s.send[x]]
    /\ s.due \in [Ports -> Seq(0..TxTime)]

\* From state s to state t, a port that begins a transmission is ready afterwards.
Begun(u) == \E v \in Seq(0..TxTime) : u = Append(v, TxTime)
BegunReady(s, t) ==
    \A y \in Ports : t.due[y] = s.due[y] \/ (t.send[y] = "READY" /\ Begun(t.due[y]))

LEMMA StateFields ==
    ASSUME IInv
    PROVE  Fields(State) /\ State.due = due /\ State.send = send
<1>1. State.due = due /\ State.send = send
  BY DEF State
<1>2. PortsOK(State)
  BY DEF IInv
<1>3. \A x \in Ports : State.due[x] \in Seq(0..TxTime)
  BY <1>2, PortTypes
<1> QED
  BY <1>1, <1>2, <1>3 DEF PortsOK, Fields

LEMMA BeginFields ==
    ASSUME NEW s, Fields(s), NEW x \in Ports
    PROVE  LET t == BeginService(s, x)
           IN  /\ Fields(t) /\ t.send = s.send
               /\ t.due = [s.due EXCEPT ![x] = Append(@, TxTime)]
<1> DEFINE b == BeginService(s, x)
           du == [s.due EXCEPT ![x] = Append(@, TxTime)]
           timed == [s EXCEPT !.due[x] = Append(@, TxTime)]
<1>1. /\ s = [queue |-> s.queue, size |-> s.size, send |-> s.send, sending |-> s.sending,
              due |-> s.due]
      /\ s.send = [y \in Ports |-> s.send[y]]
  BY DEF Fields
<1>2. timed = [queue |-> s.queue, size |-> s.size, send |-> s.send,
               sending |-> s.sending, due |-> du]
  BY <1>1
<1>3. du \in [Ports -> Seq(0..TxTime)]
  <2>1. TxTime \in 0..TxTime
    BY PfcAssumption
  <2>2. s.due \in [Ports -> Seq(0..TxTime)] /\ s.due[x] \in Seq(0..TxTime)
    BY DEF Fields
  <2>3. Append(s.due[x], TxTime) \in Seq(0..TxTime)
    BY <2>1, <2>2
  <2> QED
    BY <2>2, <2>3
<1>4. b = IF x \in Outputs THEN [timed EXCEPT !.sending[x] = Busy]
          ELSE IF s.queue[x] = <<>> THEN [timed EXCEPT !.sending[x] = NoPacket]
          ELSE [timed EXCEPT !.sending[x] = Head(s.queue[x]), !.queue[x] = Tail(@)]
  BY DEF BeginService
<1> HIDE DEF b, timed, du
<1>5. \E q, g : b = [queue |-> q, size |-> s.size, send |-> s.send, sending |-> g,
                     due |-> du]
  <2>1. CASE x \in Outputs
    <3>1. b = [queue |-> s.queue, size |-> s.size, send |-> s.send,
               sending |-> [s.sending EXCEPT ![x] = Busy], due |-> du]
      BY <1>2, <1>4, <2>1
    <3> QED
      BY <3>1
  <2>2. CASE x \notin Outputs /\ s.queue[x] = <<>>
    <3>1. b = [queue |-> s.queue, size |-> s.size, send |-> s.send,
               sending |-> [s.sending EXCEPT ![x] = NoPacket], due |-> du]
      BY <1>2, <1>4, <2>2
    <3> QED
      BY <3>1
  <2>3. CASE x \notin Outputs /\ s.queue[x] # <<>>
    <3>1. b = [queue |-> [s.queue EXCEPT ![x] = Tail(@)], size |-> s.size, send |-> s.send,
               sending |-> [s.sending EXCEPT ![x] = Head(s.queue[x])], due |-> du]
      BY <1>2, <1>4, <2>3
    <3> QED
      BY <3>1
  <2> QED
    BY <2>1, <2>2, <2>3
<1>6. PICK q, g : b = [queue |-> q, size |-> s.size, send |-> s.send, sending |-> g,
                       due |-> du]
  BY <1>5
<1>7. /\ b = [queue |-> b.queue, size |-> b.size, send |-> b.send, sending |-> b.sending,
              due |-> b.due]
      /\ b.send = s.send /\ b.due = du
  BY <1>6
<1>8. Fields(b)
  BY <1>1, <1>3, <1>7 DEF Fields
<1> QED
  BY <1>7, <1>8 DEF b, du

\* A port that is ready begins.
LEMMA BeginReady ==
    ASSUME NEW s, Fields(s), NEW x \in Ports, s.send[x] = "READY"
    PROVE  Fields(BeginService(s, x)) /\ BegunReady(s, BeginService(s, x))
           /\ BeginService(s, x).send = s.send
<1> DEFINE t == BeginService(s, x)
<1>1. Fields(t) /\ t.send = s.send /\ t.due = [s.due EXCEPT ![x] = Append(@, TxTime)]
  BY BeginFields
<1>2. s.due \in [Ports -> Seq(0..TxTime)]
  BY DEF Fields
<1> HIDE DEF t
<1>3. ASSUME NEW y \in Ports
      PROVE  t.due[y] = s.due[y] \/ (t.send[y] = "READY" /\ Begun(t.due[y]))
  BY <1>1, <1>2 DEF Begun
<1> QED
  BY <1>1, <1>3 DEF t, BegunReady

\* A pause set or lifted.
LEMMA SendFields ==
    ASSUME NEW s, Fields(s), NEW x \in Ports, NEW d
    PROVE  LET t == [s EXCEPT !.send[x] = d]
           IN  /\ Fields(t) /\ t.due = s.due /\ t.send[x] = d
               /\ \A y \in Ports \ {x} : t.send[y] = s.send[y]
<1> DEFINE t == [s EXCEPT !.send[x] = d]
           sd == [s.send EXCEPT ![x] = d]
<1>1. /\ s = [queue |-> s.queue, size |-> s.size, send |-> s.send, sending |-> s.sending,
              due |-> s.due]
      /\ s.send = [y \in Ports |-> s.send[y]] /\ s.due \in [Ports -> Seq(0..TxTime)]
  BY DEF Fields
<1>2. t = [queue |-> s.queue, size |-> s.size, send |-> sd, sending |-> s.sending,
           due |-> s.due]
  <2>1. s = [queue |-> s.queue, size |-> s.size, send |-> s.send, sending |-> s.sending,
             due |-> s.due]
    BY <1>1
  <2> QED
    BY <2>1
<1>3. /\ sd = [y \in Ports |-> sd[y]] /\ sd[x] = d
      /\ \A y \in Ports \ {x} : sd[y] = s.send[y]
  BY <1>1
<1> HIDE DEF t, sd
<1>4. /\ t = [queue |-> t.queue, size |-> t.size, send |-> t.send, sending |-> t.sending,
              due |-> t.due]
      /\ t.send = sd /\ t.due = s.due
  BY <1>2
<1> QED
  BY <1>1, <1>3, <1>4 DEF Fields, t

LEMMA ReceivePauseDue ==
    ASSUME NEW s, Fields(s), NEW x \in Ports
    PROVE  ReceivePause(s, x).due = s.due
<1> DEFINE busy == IF x \in Hosts THEN s.size[x] > 0 ELSE s.sending[x] = Busy
           d == IF busy THEN "PAUSE_RECEIVED" ELSE "PAUSED"
<1>1. ReceivePause(s, x) = [s EXCEPT !.send[x] = d]
  BY DEF ReceivePause
<1> HIDE DEF d
<1>2. [s EXCEPT !.send[x] = d].due = s.due
  BY SendFields
<1> QED
  BY <1>1, <1>2

\* A RESUME: no port stops being ready.
LEMMA ReceiveResumeDue ==
    ASSUME NEW s, Fields(s), NEW x \in Ports
    PROVE  LET t == ReceiveResume(s, x)
           IN  /\ BegunReady(s, t)
               /\ \A y \in Ports : s.send[y] = "READY" => t.send[y] = "READY"
<1> DEFINE d == "READY"
           ready == [s EXCEPT !.send[x] = d]
           begins == IF x \in Hosts THEN s.size[x] > 0
                     ELSE s.queue[x] # <<>> /\ s.sending[x] = NoPacket
           t == ReceiveResume(s, x)
<1>1. t = IF begins THEN BeginService(ready, x) ELSE ready
  BY DEF ReceiveResume
<1>2. d = "READY"
  OBVIOUS
<1> HIDE DEF d
<1>3. /\ Fields(ready) /\ ready.due = s.due /\ ready.send[x] = d
      /\ \A y \in Ports \ {x} : ready.send[y] = s.send[y]
  BY SendFields
<1> HIDE DEF ready, begins
<1>4. /\ BegunReady(ready, BeginService(ready, x))
      /\ BeginService(ready, x).send = ready.send
  BY <1>2, <1>3, BeginReady
<1>5. BegunReady(ready, ready)
  BY DEF BegunReady
<1>6. BegunReady(ready, t) /\ t.send = ready.send
  BY <1>1, <1>4, <1>5
<1> HIDE DEF t
<1>7. BegunReady(s, t)
  BY <1>3, <1>6 DEF BegunReady
<1>8. \A y \in Ports : s.send[y] = "READY" => t.send[y] = "READY"
  BY <1>2, <1>3, <1>6
<1> QED
  BY <1>7, <1>8 DEF t

\* The end of completeService: only a port that is ready begins.
LEMMA ServeOnDue ==
    ASSUME NEW s, Fields(s), NEW x \in Ports
    PROVE  Fields(ServeOn(s, x)) /\ BegunReady(s, ServeOn(s, x))
<1> DEFINE d == "PAUSED"
           heard == IF s.send[x] = "PAUSE_RECEIVED" THEN [s EXCEPT !.send[x] = d] ELSE s
           more == IF x \in Hosts THEN s.size[x] > 0 ELSE s.queue[x] # <<>>
           t == ServeOn(s, x)
<1>1. t = IF more /\ heard.send[x] = "READY" THEN BeginService(heard, x) ELSE heard
  BY DEF ServeOn
<1> HIDE DEF d, more
<1>2. Fields(heard) /\ heard.due = s.due
  <2>1. Fields([s EXCEPT !.send[x] = d]) /\ [s EXCEPT !.send[x] = d].due = s.due
    BY SendFields
  <2> QED
    BY <2>1
<1> HIDE DEF heard
<1>3. heard.send[x] = "READY" =>
        Fields(BeginService(heard, x)) /\ BegunReady(heard, BeginService(heard, x))
  BY <1>2, BeginReady
<1>4. BegunReady(heard, heard)
  BY DEF BegunReady
<1>5. Fields(t) /\ BegunReady(heard, t)
  BY <1>1, <1>2, <1>3, <1>4
<1> HIDE DEF t
<1>6. BegunReady(s, t)
  BY <1>2, <1>5 DEF BegunReady
<1> QED
  BY <1>5, <1>6 DEF t

\* Other fields replaced, and completions.
LEMMA HeldDue ==
    ASSUME NEW s, Fields(s), NEW x \in Ports, NEW q, NEW z
    PROVE  LET t == Held(s, x, q, z) IN Fields(t) /\ t.due = s.due /\ t.send = s.send
<1> DEFINE qs == [s.queue EXCEPT ![x] = q]
           zs == [s.size EXCEPT ![x] = z]
           w  == [s EXCEPT !.queue[x] = q]
           t  == Held(s, x, q, z)
<1>1. s = [queue |-> s.queue, size |-> s.size, send |-> s.send,
           sending |-> s.sending, due |-> s.due]
  BY DEF Fields
<1>2. w = [queue |-> qs, size |-> s.size, send |-> s.send, sending |-> s.sending,
           due |-> s.due]
  BY <1>1
<1>3. t = [w EXCEPT !.size[x] = z]
  BY Zenon DEF Held
<1> HIDE DEF w, qs, t
<1>4. t = [queue |-> qs, size |-> zs, send |-> s.send, sending |-> s.sending,
           due |-> s.due]
  BY <1>2, <1>3
<1> HIDE DEF zs
<1>5. /\ t = [queue |-> t.queue, size |-> t.size, send |-> t.send,
              sending |-> t.sending, due |-> t.due]
      /\ t.send = s.send /\ t.due = s.due
  BY <1>4
<1> QED
  BY <1>5 DEF Fields, t

LEMMA WokenDue ==
    ASSUME NEW s, Fields(s), NEW x \in Ports, NEW u \in Seq(0..TxTime)
    PROVE  LET t == Woken(s, x, u)
           IN  Fields(t) /\ t.due = [s.due EXCEPT ![x] = u] /\ t.send = s.send
<1> DEFINE t  == Woken(s, x, u)
           us == [s.due EXCEPT ![x] = u]
<1>1. /\ s = [queue |-> s.queue, size |-> s.size, send |-> s.send,
              sending |-> s.sending, due |-> s.due]
      /\ s.due \in [Ports -> Seq(0..TxTime)]
  BY DEF Fields
<1>2. t = [queue |-> s.queue, size |-> s.size, send |-> s.send, sending |-> s.sending,
           due |-> us]
  <2>1. s = [queue |-> s.queue, size |-> s.size, send |-> s.send,
             sending |-> s.sending, due |-> s.due]
    BY <1>1
  <2> QED
    BY <2>1 DEF Woken
<1>3. us \in [Ports -> Seq(0..TxTime)]
  BY <1>1
<1> HIDE DEF t, us
<1>4. /\ t = [queue |-> t.queue, size |-> t.size, send |-> t.send,
              sending |-> t.sending, due |-> t.due]
      /\ t.send = s.send /\ t.due = us
  BY <1>2
<1> QED
  BY <1>3, <1>4 DEF Fields, t, us

LEMMA SpentDue ==
    ASSUME NEW s, Fields(s), NEW x \in Ports, NEW z, NEW g
    PROVE  LET t == Spent(s, x, z, g) IN Fields(t) /\ t.due = s.due /\ t.send = s.send
<1> DEFINE zs == [s.size EXCEPT ![x] = z]
           gs == [s.sending EXCEPT ![x] = g]
           w  == [s EXCEPT !.size[x] = z]
           t  == Spent(s, x, z, g)
<1>1. s = [queue |-> s.queue, size |-> s.size, send |-> s.send,
           sending |-> s.sending, due |-> s.due]
  BY DEF Fields
<1>2. w = [queue |-> s.queue, size |-> zs, send |-> s.send, sending |-> s.sending,
           due |-> s.due]
  BY <1>1
<1>3. t = [w EXCEPT !.sending[x] = g]
  BY Zenon DEF Spent
<1> HIDE DEF w, zs, t
<1>4. t = [queue |-> s.queue, size |-> zs, send |-> s.send, sending |-> gs,
           due |-> s.due]
  BY <1>2, <1>3
<1> HIDE DEF gs
<1>5. /\ t = [queue |-> t.queue, size |-> t.size, send |-> t.send,
              sending |-> t.sending, due |-> t.due]
      /\ t.send = s.send /\ t.due = s.due
  BY <1>4
<1> QED
  BY <1>5 DEF Fields, t

LEMMA SweptDue ==
    ASSUME NEW s, Fields(s), NEW x \in Ports, NEW q, NEW z, NEW g,
           NEW u \in Seq(0..TxTime)
    PROVE  LET t == Swept(s, x, q, z, g, u)
           IN  Fields(t) /\ t.due = [s.due EXCEPT ![x] = u] /\ t.send = s.send
<1> DEFINE a == Woken(s, x, u)
           b == [a EXCEPT !.sending[x] = g]
           t == Swept(s, x, q, z, g, u)
<1>1. Fields(a) /\ a.due = [s.due EXCEPT ![x] = u] /\ a.send = s.send
  BY WokenDue
<1>2. t = Held(b, x, q, z)
  BY Zenon DEF Swept, Held, Woken
<1> HIDE DEF a, t
<1>3. a = [queue |-> a.queue, size |-> a.size, send |-> a.send, sending |-> a.sending,
           due |-> a.due]
  BY <1>1 DEF Fields
<1> DEFINE gs == [a.sending EXCEPT ![x] = g]
<1>4. b = [queue |-> a.queue, size |-> a.size, send |-> a.send, sending |-> gs,
           due |-> a.due]
  BY <1>3
<1> HIDE DEF b, gs
<1>5. /\ b = [queue |-> b.queue, size |-> b.size, send |-> b.send, sending |-> b.sending,
              due |-> b.due]
      /\ b.send = a.send /\ b.due = a.due
  BY <1>4
<1>6. Fields(b)
  BY <1>1, <1>5 DEF Fields
<1>7. LET h == Held(b, x, q, z) IN Fields(h) /\ h.due = b.due /\ h.send = b.send
  BY <1>6, HeldDue
<1> QED
  BY <1>1, <1>2, <1>5, <1>7 DEF t

LEMMA OneAtMost ==
    ASSUME NEW S, NEW u \in Seq(S), Len(u) <= 1, u # <<>>
    PROVE  Len(u) = 1 /\ Tail(u) = <<>>
<1>1. Len(u) \in Nat /\ Len(u) # 0
  OBVIOUS
<1>2. Len(u) = 1
  BY <1>1
<1>3. Tail(u) \in Seq(S) /\ Len(Tail(u)) = 0
  BY <1>2
<1>4. \A y \in Seq(S) : Len(y) = 0 => y = <<>>
  OBVIOUS
<1> QED
  BY <1>2, <1>3, <1>4

LEMMA RoomTypesOK ==
    ASSUME IInv, NEW x \in Links
    PROVE  /\ RoomTypes(link[x], due[x], bytes[x], recv[x], LinkDelay[x])
           /\ x \in Ports /\ due \in [Ports -> Seq(0..TxTime)] /\ bytes \in [Links -> Nat]
           /\ recv[x] = "PAUSED" <=> send[x] # "READY"
<1>1. x \in Ports /\ LinkDelay[x] \in Nat
  BY PfcAssumption DEF Links, Ports
<1>2. due \in [Ports -> Seq(0..TxTime)]
  BY StateFields DEF Fields
<1>3. PipeOK(link[x], LinkDelay[x])
  BY DEF IInv, PipesOK
<1>4. bytes \in [Links -> Nat] /\ recv[x] \in {"READY", "PAUSED"}
  BY DEF IInv, BytesCounted
<1>5. recv[x] = "PAUSED" <=> send[x] # "READY"
  BY DEF IInv, PauseAgreed
<1> QED
  BY <1>1, <1>2, <1>3, <1>4, <1>5 DEF RoomTypes

\* What a step may do to a link and its ends, but for an arrival at the input queue and
\* the passing of time: the port has the completions w, of which one may have ended and
\* put a packet in the pipe, or begins a transmission; a departure may lift the pause.
RoomStep(x, w) ==
    /\ bytes'[x] <= bytes[x]
    /\ recv'[x] = recv[x] \/ (recv'[x] = "READY" /\ bytes'[x] <= High)
    /\ \/ w = due[x] /\ link'[x] = link[x]
       \/ /\ w = Tail(due[x]) /\ due[x] # <<>> /\ Head(due[x]) = 0
          /\ \/ link'[x] = link[x]
             \/ \E p \in Packet :
                    link'[x] = Append(link[x], [pkt |-> p, left |-> LinkDelay[x]])
    /\ due'[x] = w \/ (send'[x] = "READY" /\ Begun(due'[x]))

LEMMA RoomPass ==
    ASSUME IInv, IInv', NEW x \in Links, RoomAt(x), Len(due[x]) <= 1, Len(due[x])' <= 1,
           NEW w, RoomStep(x, w)
    PROVE  RoomAt(x)'
<1> DEFINE d == LinkDelay[x]
           l == link[x]
           u == due[x]
           b == bytes[x]
           r == recv[x]
           m == link'[x]
           v == due'[x]
           c == bytes'[x]
           s == recv'[x]
<1>1. RoomTypes(l, u, b, r, d)
  BY RoomTypesOK
<1>2. RoomTypes(m, v, c, s, d) /\ (s = "PAUSED" <=> send'[x] # "READY")
  <2>1. x \in Ports /\ d \in Nat
    BY PfcAssumption DEF Links, Ports
  <2>2. v \in Seq(0..TxTime)
    <3>1. PortsOK(State)' /\ State'.due = due'
      BY DEF IInv, State
    <3>2. PortOK(x, State'.queue[x], State'.size[x], State'.send[x], State'.sending[x],
                 State'.due[x])
      BY <2>1, <3>1 DEF PortsOK
    <3> QED
      BY <3>1, <3>2 DEF PortOK
  <2>3. PipeOK(m, d)
    BY DEF IInv, PipesOK
  <2>4. c \in Nat /\ s \in {"READY", "PAUSED"}
    BY DEF IInv, BytesCounted
  <2>5. s = "PAUSED" <=> send'[x] # "READY"
    BY DEF IInv, PauseAgreed
  <2> QED
    BY <2>1, <2>2, <2>3, <2>4, <2>5 DEF RoomTypes
<1>3. u \in Seq(0..TxTime) /\ v \in Seq(0..TxTime) /\ Len(u) <= 1 /\ Len(v) <= 1
  BY <1>1, <1>2 DEF RoomTypes
<1>4. v = w \/ (s = "READY" /\ v = <<TxTime>>)
  <2> SUFFICES ASSUME v # w
               PROVE  s = "READY" /\ v = <<TxTime>>
    OBVIOUS
  <2>1. s = "READY" /\ Begun(v)
    BY <1>2 DEF RoomStep, RoomTypes
  <2>2. PICK y \in Seq(0..TxTime) : v = Append(y, TxTime)
    BY <2>1 DEF Begun
  <2>3. Len(v) = Len(y) + 1 /\ Len(y) \in Nat
    BY <2>2
  <2>4. y = <<>>
    BY <1>3, <2>2, <2>3
  <2> QED
    BY <2>1, <2>2, <2>4
<1>5. w = u \/ w = <<>>
  <2>1. w = u \/ (w = Tail(u) /\ u # <<>>)
    BY DEF RoomStep
  <2>2. u # <<>> => Tail(u) = <<>>
    BY <1>3
  <2> QED
    BY <2>1, <2>2
<1>6. c <= b /\ (s = r \/ (s = "READY" /\ c <= High))
  BY DEF RoomStep
<1>7. Room(l, u, b, r, d)
  BY DEF RoomAt
<1>8. CASE m = l
  <2>1. RoomTypes(l, v, c, s, d)
    BY <1>2, <1>8
  <2>2. v = u \/ v = <<>> \/ (s = "READY" /\ v = <<TxTime>>)
    BY <1>4, <1>5
  <2> HIDE DEF d, l, u, b, r, m, v, c, s
  <2>3. Room(l, v, c, s, d)
    BY <1>1, <1>3, <1>6, <1>7, <2>1, <2>2, RoomKept
  <2>4. Room(m, v, c, s, d)
    BY <1>8, <2>3
  <2> QED
    BY <2>4 DEF RoomAt, d, m, v, c, s
<1>9. CASE m # l
  <2>1. PICK p \in Packet : m = Append(l, [pkt |-> p, left |-> d])
    BY <1>9 DEF RoomStep
  <2>2. w = Tail(u) /\ u # <<>> /\ Head(u) = 0
    BY <1>9 DEF RoomStep
  <2>3. Len(u) = 1 /\ w = <<>>
    <3> HIDE DEF u
    <3> QED
      BY <1>3, <2>2, OneAtMost
  <2> HIDE DEF d, l, u, b, r, m, v, c, s
  <2>4. Room(m, <<>>, b, r, d)
    BY <1>1, <1>7, <2>1, <2>2, <2>3, RoomAppend
  <2>5. RoomTypes(m, <<>>, b, r, d)
    BY <1>1, <1>2 DEF RoomTypes
  <2>6. v = <<>> \/ (s = "READY" /\ v = <<TxTime>>)
    BY <1>4, <2>3
  <2> DEFINE e == <<>>
  <2>7. Len(e) <= 1
    OBVIOUS
  <2> HIDE DEF e
  <2>8. Room(m, v, c, s, d)
    BY <1>2, <1>6, <2>4, <2>5, <2>6, <2>7, RoomKept DEF e
  <2> QED
    BY <2>8 DEF RoomAt, d, m, v, c, s
<1> QED
  BY <1>8, <1>9

LEMMA HostSendsRoom ==
    ASSUME IInv, IInv', NEW h \in Hosts, HostSends(h), NEW x \in Links, RoomAt(x),
           Len(due[x]) <= 1, Len(due[x])' <= 1
    PROVE  RoomAt(x)'
<1> DEFINE burst == Burst(h, sent[h] + 1)
           q == queue[h] \o burst
           z == size[h] + Mtu * Len(burst)
           held == Held(State, h, q, z)
           t == IF size[h] = 0 /\ send[h] = "READY" THEN BeginService(held, h) ELSE held
<1>1. Become(t) /\ UNCHANGED <<link, bytes, recv>>
  BY DEF HostSends, Held, State, pipeVars, inputVars
<1>2. h \in Ports
  BY DEF Ports
<1> HIDE DEF q, z
<1>3. Fields(State) /\ State.due = due /\ State.send = send
  BY StateFields
<1>4. Fields(held) /\ held.due = due /\ held.send = send
  BY <1>2, <1>3, HeldDue
<1> HIDE DEF held
<1>5. send[h] = "READY" => BegunReady(held, BeginService(held, h))
  BY <1>2, <1>4, BeginReady
<1>6. BegunReady(held, held)
  BY DEF BegunReady
<1>7. BegunReady(held, t)
  BY <1>5, <1>6
<1> HIDE DEF t
<1>8. x \in Ports /\ bytes[x] \in Nat
  BY RoomTypesOK
<1>9. due'[x] = due[x] \/ (send'[x] = "READY" /\ Begun(due'[x]))
  BY <1>1, <1>4, <1>7, <1>8 DEF BegunReady, Become
<1>10. RoomStep(x, due[x])
  BY <1>1, <1>8, <1>9 DEF RoomStep
<1> QED
  BY <1>10, RoomPass

LEMMA ReachesOutputRoom ==
    ASSUME IInv, IInv', NEW y \in Links, ReachesOutput(y), NEW x \in Links, RoomAt(x),
           Len(due[x]) <= 1, Len(due[x])' <= 1
    PROVE  RoomAt(x)'
<1> DEFINE p == Head(cross[y]).pkt
           o == Forward[y][p.exit]
           q == Append(queue[o], p)
           z == size[o] + Mtu
           held == Held(State, o, q, z)
           t == IF queue[o] = <<>> /\ send[o] = "READY" THEN BeginService(held, o) ELSE held
<1>1. Become(t) /\ UNCHANGED <<link, bytes, recv>> /\ cross[y] # <<>>
  BY DEF ReachesOutput, Held, State, inputVars
<1>2. o \in Ports
  <2>1. PipeOK(cross[y], SwitchDelay[y]) /\ SwitchDelay[y] \in Nat
    BY PfcAssumption, SMTT(60) DEF IInv, PipesOK
  <2>2. p \in Packet
    BY <1>1, <2>1, PipeTail
  <2>3. p.exit \in Exits
    BY <2>2 DEF Packet
  <2> QED
    BY <2>3, PfcAssumption DEF Ports
<1> HIDE DEF q, z, o
<1>3. Fields(State) /\ State.due = due /\ State.send = send
  BY StateFields
<1>4. Fields(held) /\ held.due = due /\ held.send = send
  BY <1>2, <1>3, HeldDue
<1> HIDE DEF held
<1>5. send[o] = "READY" => BegunReady(held, BeginService(held, o))
  BY <1>2, <1>4, BeginReady
<1>6. BegunReady(held, held)
  BY DEF BegunReady
<1>7. BegunReady(held, t)
  BY <1>5, <1>6
<1> HIDE DEF t
<1>8. x \in Ports /\ bytes[x] \in Nat
  BY RoomTypesOK
<1>9. due'[x] = due[x] \/ (send'[x] = "READY" /\ Begun(due'[x]))
  BY <1>1, <1>4, <1>7, <1>8 DEF BegunReady, Become
<1>10. RoomStep(x, due[x])
  BY <1>1, <1>8, <1>9 DEF RoomStep
<1> QED
  BY <1>10, RoomPass, SMTT(60)

LEMMA HostCompletesRoom ==
    ASSUME IInv, IInv', NEW h \in Hosts, HostCompletes(h), NEW x \in Links, RoomAt(x),
           Len(due[x]) <= 1, Len(due[x])' <= 1
    PROVE  RoomAt(x)'
<1> DEFINE u == Tail(due[h])
           woken == Woken(State, h, u)
           z == woken.size[h] - Mtu
           spent == Spent(woken, h, z, NoPacket)
           w == IF x = h THEN u ELSE due[x]
           Passed == \/ link' = link
                     \/ \E p \in Packet : Transmit(h, p)
<1>1. /\ h \in Ports /\ due[h] # <<>> /\ Head(due[h]) = 0 /\ UNCHANGED <<bytes, recv>>
  BY DEF HostCompletes, Ports, inputVars
<1>2. Fields(State) /\ State.due = due /\ State.send = send
  BY StateFields
<1>3. u \in Seq(0..TxTime)
  BY <1>1, <1>2 DEF Fields
<1>4. /\ x \in Ports /\ bytes[x] \in Nat /\ due \in [Ports -> Seq(0..TxTime)]
  BY RoomTypesOK
<1>5. \/ Become(woken) /\ link' = link
      \/ Become(ServeOn(woken, h)) /\ link' = link
      \/ Become(ServeOn(spent, h)) /\ \E p \in Packet : Transmit(h, p)
  <2>1. CASE send[h] = "PAUSED"
    BY <2>1 DEF HostCompletes, Woken, State
  <2>2. CASE send[h] # "PAUSED" /\ sending[h] = NoPacket
    BY <2>2 DEF HostCompletes, Woken, State
  <2>3. CASE send[h] # "PAUSED" /\ sending[h] # NoPacket
    <3>1. Become(ServeOn(spent, h)) /\ Transmit(h, sending[h])
      BY <2>3 DEF HostCompletes, Woken, Spent, State
    <3>2. sending[h] \in Packet
      <4>1. PortsOK(State) /\ State.sending = sending
        BY DEF IInv, State
      <4>2. PortOK(h, State.queue[h], State.size[h], State.send[h], State.sending[h],
                   State.due[h])
        BY <1>1, <4>1 DEF PortsOK
      <4> QED
        BY <2>3, <4>1, <4>2 DEF PortOK
    <3> QED
      BY <3>1, <3>2
  <2> QED
    BY <2>1, <2>2, <2>3
<1> HIDE DEF u
<1>6. Fields(woken) /\ woken.due = [due EXCEPT ![h] = u]
  BY <1>1, <1>2, <1>3, WokenDue
<1> HIDE DEF woken, z
<1>7. Fields(spent) /\ spent.due = woken.due
  BY <1>1, <1>6, SpentDue
<1> HIDE DEF spent
<1>8. /\ BegunReady(woken, ServeOn(woken, h)) /\ BegunReady(spent, ServeOn(spent, h))
      /\ BegunReady(woken, woken)
  BY <1>1, <1>6, <1>7, ServeOnDue DEF BegunReady
<1>9. w = woken.due[x]
  BY <1>1, <1>4, <1>6
<1>10. due'[x] = w \/ (send'[x] = "READY" /\ Begun(due'[x]))
  BY <1>4, <1>5, <1>7, <1>8, <1>9 DEF BegunReady, Become
<1>11. \/ link'[x] = link[x]
       \/ /\ x = h
          /\ \E p \in Packet :
                 link'[x] = Append(link[x], [pkt |-> p, left |-> LinkDelay[x]])
  <2>1. CASE \E p \in Packet : Transmit(h, p)
    <3>1. PICK p \in Packet : Transmit(h, p)
      BY <2>1
    <3>2. link = [y \in Links |-> link[y]]
      BY DEF IInv, PipesOK
    <3>3. \/ link' = link
          \/ link' = [link EXCEPT ![h] = Append(@, [pkt |-> p, left |-> LinkDelay[h]])]
      BY <3>1 DEF Transmit
    <3> QED
      BY <3>2, <3>3
  <2> QED
    BY <1>5, <2>1
<1>12. RoomStep(x, w)
  <2>1. CASE x = h
    BY <1>1, <1>4, <1>10, <1>11, <2>1 DEF RoomStep, u
  <2>2. CASE x # h
    BY <1>1, <1>4, <1>10, <1>11, <2>2 DEF RoomStep
  <2> QED
    BY <2>1, <2>2
<1> HIDE DEF w
<1> QED
  BY <1>12, RoomPass

LEMMA OutputCompletesRoom ==
    ASSUME IInv, IInv', NEW o \in Outputs, OutputCompletes(o), NEW x \in Links, RoomAt(x),
           Len(due[x]) <= 1, Len(due[x])' <= 1
    PROVE  RoomAt(x)'
<1> DEFINE kept == Kept(o)
           u == Tail(due[o])
           k == Mtu * Len(kept)
           rest == Tail(kept)
           swept == Swept(State, o, kept, k, NoPacket, u)
           z == swept.size[o] - Mtu
           left == Held(swept, o, rest, z)
           served == ServeOn(left, o)
           c == Credited(o)
           w == IF x = o THEN u ELSE due[x]
<1>1. /\ o \in Ports /\ due[o] # <<>> /\ Head(due[o]) = 0
      /\ IF kept = <<>>
         THEN Become(swept) /\ UNCHANGED <<bytes, recv, link>>
         ELSE CompletedService(c, served) /\ Transmit(o, Head(kept))
  BY DEF OutputCompletes, Swept, Held, State, inputVars, Ports
<1>2. Fields(State) /\ State.due = due /\ State.send = send
  BY StateFields
<1>3. u \in Seq(0..TxTime)
  BY <1>1, <1>2 DEF Fields
<1>4. /\ x \in Ports /\ bytes \in [Links -> Nat] /\ due \in [Ports -> Seq(0..TxTime)]
  BY RoomTypesOK
<1>5. kept \in Seq(Packet) /\ Len(kept) <= Len(queue[o]) /\ queue[o] \in Seq(Packet)
  <2>1. queue[o] \in Seq(Packet)
    <3>1. PortsOK(State) /\ State.queue = queue
      BY DEF IInv, State
    <3> QED
      BY <1>1, <3>1, PortTypes
  <2> QED
    BY <2>1, KeptFits
<1>6. kept # <<>> => c \in Links /\ Head(kept) \in Packet
  <2> SUFFICES ASSUME kept # <<>>
               PROVE  c \in Links /\ Head(kept) \in Packet
    OBVIOUS
  <2>1. vq[o] \in Seq(Links) /\ Len(queue[o]) <= Len(vq[o])
    BY DEF IInv, InputsKnown
  <2> HIDE DEF kept
  <2>2. Len(kept) \in Nat /\ Len(kept) # 0 /\ Head(kept) \in Packet
    BY <1>5
  <2>3. Len(vq[o]) \in Nat /\ Len(vq[o]) # 0
    BY <1>5, <2>1, <2>2
  <2> QED
    BY <2>1, <2>2, <2>3 DEF Credited
<1> HIDE DEF u, kept, k
<1>7. Fields(swept) /\ swept.due = [due EXCEPT ![o] = u]
  BY <1>1, <1>2, <1>3, SweptDue
<1> HIDE DEF swept, z, rest
<1>8. Fields(left) /\ left.due = swept.due
  BY <1>1, <1>7, HeldDue
<1> HIDE DEF left
<1>9. Fields(served) /\ BegunReady(left, served)
  BY <1>1, <1>8, ServeOnDue
<1> HIDE DEF served, c
<1>10. w = swept.due[x] /\ w = left.due[x]
  BY <1>1, <1>4, <1>7, <1>8
<1>11. CASE kept = <<>>
  <2>1. due'[x] = w /\ UNCHANGED <<bytes, recv, link>>
    BY <1>1, <1>10, <1>11 DEF Become
  <2>2. RoomStep(x, w)
    <3>1. CASE x = o
      BY <1>1, <1>4, <2>1, <3>1 DEF RoomStep, u
    <3>2. CASE x # o
      BY <1>1, <1>4, <2>1, <3>2 DEF RoomStep
    <3> QED
      BY <3>1, <3>2
  <2> HIDE DEF w
  <2> QED
    BY <2>2, RoomPass
<1>12. CASE kept # <<>>
  <2>1. CompletedService(c, served) /\ Transmit(o, Head(kept))
        /\ c \in Ports /\ c \in Links /\ Head(kept) \in Packet
    BY <1>1, <1>6, <1>12 DEF Links, Ports
  <2> DEFINE t == ReceiveResume(served, c)
  <2>2. /\ BegunReady(served, t)
        /\ \A y \in Ports : served.send[y] = "READY" => t.send[y] = "READY"
    BY <1>9, <2>1, ReceiveResumeDue
  <2>3. Become(t) \/ Become(served)
    BY <2>1 DEF CompletedService
  <2> HIDE DEF t
  <2>4. due'[x] = w \/ (send'[x] = "READY" /\ Begun(due'[x]))
    <3>1. served.due[x] = w \/ (served.send[x] = "READY" /\ Begun(served.due[x]))
      BY <1>4, <1>9, <1>10 DEF BegunReady
    <3>2. \/ t.due[x] = served.due[x]
          \/ t.send[x] = "READY" /\ Begun(t.due[x])
      BY <1>4, <2>2 DEF BegunReady
    <3>3. t.due[x] = w \/ (t.send[x] = "READY" /\ Begun(t.due[x]))
      BY <1>4, <2>2, <3>1, <3>2
    <3> QED
      BY <2>3, <3>1, <3>3 DEF Become
  <2>5. bytes'[x] <= bytes[x] /\ (recv'[x] = recv[x] \/ (recv'[x] = "READY" /\ bytes'[x] <= High))
    <3>1. Mtu \in Nat /\ High \in Nat /\ Low \in Nat /\ Low < High
      BY PfcAssumption
    <3>2. bytes' = [bytes EXCEPT ![c] = @ - Mtu]
      BY <2>1 DEF CompletedService
    <3>3. bytes[x] \in Nat /\ bytes'[x] = (IF x = c THEN bytes[x] - Mtu ELSE bytes[x])
      BY <1>4, <3>2
    <3>4. recv \in [Links -> {"READY", "PAUSED"}]
      BY DEF IInv
    <3>5. \/ recv' = recv
          \/ bytes[c] - Mtu < Low /\ recv' = [recv EXCEPT ![c] = "READY"]
      BY <2>1 DEF CompletedService
    <3>6. bytes'[x] <= bytes[x]
      BY <3>1, <3>3
    <3>7. recv'[x] = recv[x] \/ (x = c /\ recv'[x] = "READY" /\ bytes[x] - Mtu < Low)
      BY <3>4, <3>5
    <3> QED
      BY <3>1, <3>3, <3>6, <3>7
  <2>6. \/ link'[x] = link[x]
        \/ /\ x = o
           /\ \E p \in Packet :
                  link'[x] = Append(link[x], [pkt |-> p, left |-> LinkDelay[x]])
    <3>1. link = [y \in Links |-> link[y]]
      BY DEF IInv, PipesOK
    <3>2. \/ link' = link
          \/ link' = [link EXCEPT ![o] = Append(@, [pkt  |-> Head(kept),
                                                    left |-> LinkDelay[o]])]
      BY <2>1 DEF Transmit
    <3> QED
      BY <2>1, <3>1, <3>2
  <2>7. RoomStep(x, w)
    <3>1. CASE x = o
      BY <1>1, <2>4, <2>5, <2>6, <3>1 DEF RoomStep, u
    <3>2. CASE x # o
      BY <2>4, <2>5, <2>6, <3>2 DEF RoomStep
    <3> QED
      BY <3>1, <3>2
  <2> HIDE DEF w
  <2> QED
    BY <2>7, RoomPass
<1> QED
  BY <1>11, <1>12

LEMMA ReachesInputRoom ==
    ASSUME IInv, NEW y \in Links, ReachesInput(y), NEW x \in Links, RoomAt(x),
           Len(due[x]) <= 1
    PROVE  RoomAt(x)'
<1>1. /\ link[y] # <<>> /\ Head(link[y]).left = 0
      /\ link' = [link EXCEPT ![y] = Tail(@)]
      /\ bytes' = [bytes EXCEPT ![y] = @ + Mtu]
      /\ IF bytes[y] + Mtu > High /\ recv[y] # "PAUSED"
         THEN recv' = [recv EXCEPT ![y] = "PAUSED"] /\ Become(ReceivePause(State, y))
         ELSE UNCHANGED <<recv, due>>
  BY DEF ReachesInput
<1>2. y \in Ports
  BY DEF Links, Ports
<1>3. Fields(State) /\ State.due = due
  BY StateFields
<1>4. due' = due
  <2>1. ReceivePause(State, y).due = due
    BY <1>2, <1>3, ReceivePauseDue
  <2> QED
    BY <1>1, <2>1 DEF Become
<1>5. /\ link = [e \in Links |-> link[e]] /\ bytes \in [Links -> Nat]
      /\ recv \in [Links -> {"READY", "PAUSED"}]
  BY DEF IInv, PipesOK, BytesCounted
<1>6. CASE x = y
  <2> DEFINE d == LinkDelay[x]
             l == link[x]
             u == due[x]
             b == bytes[x]
             r == recv[x]
             s == IF b + Mtu > High /\ r # "PAUSED" THEN "PAUSED" ELSE r
  <2>1. link'[x] = Tail(l) /\ due'[x] = u /\ bytes'[x] = b + Mtu /\ recv'[x] = s
    BY <1>1, <1>4, <1>5, <1>6
  <2>2. RoomTypes(l, u, b, r, d) /\ Room(l, u, b, r, d)
    BY RoomTypesOK DEF RoomAt
  <2>3. l # <<>> /\ Head(l).left = 0 /\ Len(u) <= 1
    BY <1>1, <1>6
  <2>4. s = IF b + Mtu > High /\ r # "PAUSED" THEN "PAUSED" ELSE r
    OBVIOUS
  <2> HIDE DEF d, l, u, b, r, s
  <2>5. Room(Tail(l), u, b + Mtu, s, d)
    BY <2>2, <2>3, <2>4, RoomTail
  <2> QED
    BY <2>1, <2>5 DEF RoomAt, d
<1>7. CASE x # y
  <2>1. link'[x] = link[x] /\ due'[x] = due[x] /\ bytes'[x] = bytes[x] /\ recv'[x] = recv[x]
    BY <1>1, <1>4, <1>5, <1>7
  <2> QED
    BY <2>1 DEF RoomAt
<1> QED
  BY <1>6, <1>7

LEMMA TickRoom ==
    ASSUME IInv, Tick, NEW x \in Links, RoomAt(x)
    PROVE  RoomAt(x)'
<1> DEFINE d == LinkDelay[x]
           l == link[x]
           u == due[x]
           b == bytes[x]
           r == recv[x]
           v == [i \in DOMAIN u |-> u[i] - 1]
<1>1. x \in Ports /\ RoomTypes(l, u, b, r, d) /\ Room(l, u, b, r, d)
  BY RoomTypesOK DEF RoomAt
<1>2. link'[x] = Aged(l) /\ due'[x] = v /\ bytes'[x] = b /\ recv'[x] = r
  BY <1>1 DEF Tick, inputVars
<1>3. v = [i \in DOMAIN u |-> u[i] - 1]
  OBVIOUS
<1> HIDE DEF d, l, u, b, r, v
<1>4. Room(Aged(l), v, b, r, d)
  BY <1>1, <1>3, RoomAged
<1> QED
  BY <1>2, <1>4 DEF RoomAt, d

\* A link whose port has one completion pending at most keeps its room.
LEMMA NextRoom ==
    ASSUME IInv, IInv', [Next]_vars, NEW x \in Links, RoomAt(x),
           Len(due[x]) <= 1, Len(due[x])' <= 1
    PROVE  RoomAt(x)'
<1>1. CASE \E h \in Hosts : HostSends(h)
  BY <1>1, HostSendsRoom
<1>2. CASE \E h \in Hosts : HostCompletes(h)
  BY <1>2, HostCompletesRoom
<1>3. CASE \E y \in Links : ReachesInput(y)
  BY <1>3, ReachesInputRoom
<1>4. CASE \E y \in Links : ReachesOutput(y)
  BY <1>4, ReachesOutputRoom
<1>5. CASE \E o \in Outputs : OutputCompletes(o)
  BY <1>5, OutputCompletesRoom
<1>6. CASE Tick
  BY <1>6, TickRoom
<1>7. CASE UNCHANGED vars
  BY <1>7 DEF RoomAt, vars, portVars, pipeVars, inputVars
<1> QED
  BY <1>1, <1>2, <1>3, <1>4, <1>5, <1>6, <1>7 DEF Next, Happens

LEMMA InitRoom ==
    ASSUME Init, NEW x \in Links
    PROVE  RoomAt(x)
<1>1. link[x] = <<>> /\ bytes[x] = 0 /\ recv[x] = "READY"
  BY DEF Init
<1>2. Spaced(<<>>)
  BY DEF Spaced
<1>3. 0 <= High
  BY PfcAssumption
<1> DEFINE l == <<>>
<1>4. link[x] = l /\ l = <<>> /\ Spaced(l)
  BY <1>1, <1>2
<1> HIDE DEF l
<1> QED
  BY <1>1, <1>3, <1>4 DEF RoomAt, Room

LEMMA RoomBounds ==
    ASSUME IInv, NEW x \in Links, RoomAt(x)
    PROVE  bytes[x] <= Most(LinkDelay[x])
<1> DEFINE d == LinkDelay[x]
           inPipe == Len(link[x])
           busy == Len(due[x])
           n == inPipe + busy
<1>1. RoomTypes(link[x], due[x], bytes[x], recv[x], d) /\ d \in Nat
  BY RoomTypesOK DEF RoomTypes
<1>2. Most(d) \in Nat /\ High + Mtu <= Most(d) /\ High \in Nat /\ Mtu \in Nat
  BY <1>1, MostType, PfcAssumption
<1>3. bytes[x] \in Nat /\ n \in Nat
  <2>1. bytes[x] \in Nat /\ due[x] \in Seq(0..TxTime) /\ PipeOK(link[x], d)
    BY <1>1 DEF RoomTypes
  <2>2. inPipe \in Nat
    <3> HIDE DEF d
    <3> QED
      BY <1>1, <2>1, PipeTypes
  <2>3. busy \in Nat
    <3>1. \A S : \A u \in Seq(S) : Len(u) \in Nat
      OBVIOUS
    <3> QED
      BY <2>1, <3>1, Zenon
  <2> HIDE DEF inPipe, busy
  <2>4. n \in Nat
    BY <2>2, <2>3
  <2> QED
    BY <2>1, <2>4
<1>4. CASE recv[x] = "READY"
  BY <1>2, <1>3, <1>4 DEF RoomAt, Room
<1>5. CASE recv[x] = "PAUSED"
  <2>1. bytes[x] + Mtu * n <= Most(d)
    BY <1>5 DEF RoomAt, Room
  <2> HIDE DEF n
  <2>2. Mtu * n \in Nat
    BY <1>2, <1>3
  <2> QED
    BY <1>2, <1>3, <2>1, <2>2
<1> QED
  BY <1>1, <1>4, <1>5 DEF RoomTypes

\* After a PAUSE the input queue behind an output receives at most what is in the pipe
\* of its link and the packet in transmission: whatever the load, the thresholds and
\* the delays, a buffer of that much and a packet beyond _high_threshold never
\* overflows.
OutputHeadroomSuffices ==
    \A x \in Outputs \ Exits : bytes[x] <= High + Mtu * (2 + LinkDelay[x] \div TxTime)

THEOREM SwitchHeadroom == Spec => []OutputHeadroomSuffices
<1> DEFINE Rooms == \A x \in Outputs \ Exits : RoomAt(x)
<1>1. ASSUME IInv, NEW x \in Outputs \ Exits
      PROVE  x \in Links /\ Len(due[x]) <= 1
  <2>1. PortOK(x, queue[x], size[x], send[x], sending[x], due[x])
    BY <1>1 DEF IInv, PortsOK, State, Ports
  <2>2. Len(due[x]) = IF sending[x] = NoPacket THEN 0 ELSE 1
    BY <1>1, <2>1 DEF PortOK
  <2> QED
    BY <2>2 DEF Links
<1>2. ASSUME IInv', NEW x \in Outputs \ Exits
      PROVE  Len(due[x])' <= 1
  <2>1. PortOK(x, queue[x], size[x], send[x], sending[x], due[x])'
    BY <1>2 DEF IInv, PortsOK, State, Ports
  <2>2. Len(due'[x]) = IF sending'[x] = NoPacket THEN 0 ELSE 1
    BY <1>2, <2>1 DEF PortOK
  <2> QED
    BY <2>2
<1>3. Init => Rooms
  BY InitRoom DEF Links
<1>4. IInv /\ IInv' /\ Rooms /\ [Next]_vars => Rooms'
  BY <1>1, <1>2, NextRoom
<1>5. IInv /\ Rooms => OutputHeadroomSuffices
  BY <1>1, RoomBounds DEF OutputHeadroomSuffices, Most
<1> HIDE DEF Rooms
<1> QED
  BY <1>3, <1>4, <1>5, PfcInvariance, PTL DEF Spec

\* The same of every input queue, behind a host too, in the behaviours in which no host
\* transmits twice at a time. (The packets of a host that does follow one another faster
\* than it can serve them, and the headroom is reckoned from that.)
THEOREM HeadroomUnlessDoubled == Spec /\ []OneServiceAtATime => []HeadroomSuffices
<1> DEFINE Rooms == \A x \in Links : RoomAt(x)
<1>1. OneServiceAtATime => \A x \in Links : Len(due[x]) <= 1
  <2> SUFFICES ASSUME OneServiceAtATime, NEW x \in Links
               PROVE  Len(due[x]) <= 1
    OBVIOUS
  <2>1. Len(due[x]) = IF sending[x] = NoPacket THEN 0 ELSE 1
    BY DEF OneServiceAtATime, Links, Ports
  <2> QED
    BY <2>1
<1>2. OneServiceAtATime' => \A x \in Links : Len(due[x])' <= 1
  <2> SUFFICES ASSUME OneServiceAtATime', NEW x \in Links
               PROVE  Len(due[x])' <= 1
    OBVIOUS
  <2>1. Len(due'[x]) = IF sending'[x] = NoPacket THEN 0 ELSE 1
    BY DEF OneServiceAtATime, Links, Ports
  <2> QED
    BY <2>1
<1>3. Init => Rooms
  BY InitRoom
<1>4. /\ IInv /\ IInv' /\ OneServiceAtATime /\ OneServiceAtATime' /\ Rooms /\ [Next]_vars
      => Rooms'
  BY <1>1, <1>2, NextRoom
<1>5. IInv /\ Rooms => HeadroomSuffices
  BY RoomBounds DEF HeadroomSuffices, Most
<1> HIDE DEF Rooms
<1> QED
  BY <1>3, <1>4, <1>5, PfcInvariance, PTL DEF Spec
==================================================================================
