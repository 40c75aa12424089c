------------------------------- MODULE PipeProofs --------------------------------
(* Proofs about Pipe, for every delay, initial size of the ring, and numbers of   *)
(* packets and of instants, whether or not the next hop hands packets back.       *)
EXTENDS Pipe, TLAPS

USE PipeAssumption

-----------------------------------------------------------------------------
(* The ring buffer *)

Entry == [time : Times, pkt : 0..MaxPackets]

\* The cell of the i-th packet in flight, in a ring of sz cells from which pop
\* is next to leave.
Cell(pop, i, sz) == IF pop + i - 1 < sz THEN pop + i - 1 ELSE pop + i - 1 - sz

\* The i-th packet in flight in ring r.
At(r, i) == r.vec[Cell(r.pop, i, r.sz)]

\* Ring r has its types, keeps a cell free, and inserts behind the last of its packets.
RingOK(r) ==
    /\ r = [ev |-> r.ev, vec |-> r.vec, ins |-> r.ins, pop |-> r.pop,
            cnt |-> r.cnt, sz |-> r.sz]
    /\ r.ev \in [Times -> Nat]
    /\ r.sz \in Nat /\ r.sz >= 2
    /\ r.vec \in [0..(r.sz - 1) -> Entry]
    /\ r.pop \in 0..(r.sz - 1) /\ r.cnt \in 0..(r.sz - 1)
    /\ r.ins = Cell(r.pop, r.cnt + 1, r.sz)

\* Arithmetic modulo the size of the ring.
LEMMA Modulo ==
    ASSUME NEW n \in Nat \ {0}
    PROVE  /\ \A i \in 0..(n - 1) : (i + 1) % n = IF i + 1 = n THEN 0 ELSE i + 1
           /\ \A i \in 0..(2 * n - 1) : i % n = IF i < n THEN i ELSE i - n
<1>1. ASSUME NEW i \in 0..(n - 1)
      PROVE  (i + 1) % n = IF i + 1 = n THEN 0 ELSE i + 1
  OBVIOUS
<1>2. ASSUME NEW i \in 0..(2 * n - 1)
      PROVE  i % n = IF i < n THEN i ELSE i - n
  OBVIOUS
<1> QED
  BY <1>1, <1>2

\* What receivePacket makes of each field of the ring.
LEMMA ReceiveFields ==
    ASSUME NEW r, RingOK(r), NEW k
    PROVE  LET full  == r.cnt + 1 = r.sz
               wraps == r.ins < r.pop
               sz    == IF full THEN 2 * r.sz ELSE r.sz
               ins   == IF full /\ wraps THEN r.ins + r.sz ELSE r.ins
               vec   == IF full
                        THEN [i \in 0..(2 * r.sz - 1) |->
                                IF i < r.sz THEN r.vec[i]
                                ELSE IF wraps /\ i - r.sz < r.ins THEN r.vec[i - r.sz]
                                ELSE NoEntry]
                        ELSE r.vec
           IN  Receive(r, k) =
                 [ev  |-> IF r.cnt = 0 THEN [r.ev EXCEPT ![now + Delay] = @ + 1] ELSE r.ev,
                  vec |-> [vec EXCEPT ![ins] = [time |-> now + Delay, pkt |-> k]],
                  ins |-> (ins + 1) % sz, pop |-> r.pop, cnt |-> r.cnt + 1, sz |-> sz]
<1> DEFINE ev1     == IF r.cnt = 0 THEN [r.ev EXCEPT ![now + Delay] = @ + 1] ELSE r.ev
           woken   == IF r.cnt = 0 THEN Schedule(r, now + Delay) ELSE r
           counted == [woken EXCEPT !.cnt = @ + 1]
           grown   == IF counted.cnt = counted.sz THEN Grow(counted) ELSE counted
<1>1. r = [ev |-> r.ev, vec |-> r.vec, ins |-> r.ins, pop |-> r.pop,
           cnt |-> r.cnt, sz |-> r.sz]
  BY DEF RingOK
<1>2. woken = [ev |-> ev1, vec |-> r.vec, ins |-> r.ins, pop |-> r.pop,
               cnt |-> r.cnt, sz |-> r.sz]
  BY <1>1 DEF Schedule
<1> HIDE DEF woken, ev1
<1>3. counted = [ev |-> ev1, vec |-> r.vec, ins |-> r.ins, pop |-> r.pop,
                 cnt |-> r.cnt + 1, sz |-> r.sz]
  BY <1>2
<1> HIDE DEF counted
<1> DEFINE full  == r.cnt + 1 = r.sz
           wraps == r.ins < r.pop
           sz    == IF full THEN 2 * r.sz ELSE r.sz
           ins   == IF full /\ wraps THEN r.ins + r.sz ELSE r.ins
           gv    == [i \in 0..(2 * r.sz - 1) |->
                       IF i < r.sz THEN r.vec[i]
                       ELSE IF wraps /\ i - r.sz < r.ins THEN r.vec[i - r.sz]
                       ELSE NoEntry]
           vec   == IF full THEN gv ELSE r.vec
<1>4. grown = [ev |-> ev1, vec |-> vec, ins |-> ins, pop |-> r.pop,
               cnt |-> r.cnt + 1, sz |-> sz]
  <2>1. CASE full
    <3>1. grown = Grow(counted)
      BY <1>3, <2>1
    <3>2. Grow(counted) = [ev |-> ev1, vec |-> gv, ins |-> ins, pop |-> r.pop,
                           cnt |-> r.cnt + 1, sz |-> 2 * r.sz]
      <4>1. /\ counted.ins = r.ins /\ counted.pop = r.pop /\ counted.sz = r.sz
            /\ counted.vec = r.vec
        BY <1>3
      <4>2. Grow(counted) = [counted EXCEPT !.vec = gv, !.ins = ins, !.sz = 2 * r.sz]
        BY <2>1, <4>1 DEF Grow
      <4> DEFINE two   == 2 * r.sz
                 moved == [counted EXCEPT !.vec = gv]
                 put   == [moved EXCEPT !.ins = ins]
      <4>3. Grow(counted) = [counted EXCEPT !.vec = gv, !.ins = ins, !.sz = two]
        BY <4>2
      <4> HIDE DEF gv, ins, two
      <4>4. moved = [ev |-> ev1, vec |-> gv, ins |-> r.ins, pop |-> r.pop,
                     cnt |-> r.cnt + 1, sz |-> r.sz]
        BY <1>3
      <4>5. [counted EXCEPT !.vec = gv, !.ins = ins, !.sz = two] = [put EXCEPT !.sz = two]
        BY Zenon
      <4> HIDE DEF moved
      <4>6. put = [ev |-> ev1, vec |-> gv, ins |-> ins, pop |-> r.pop,
                   cnt |-> r.cnt + 1, sz |-> r.sz]
        BY <4>4
      <4> HIDE DEF put
      <4> QED
        BY <4>3, <4>5, <4>6 DEF two
    <3> QED
      BY <2>1, <3>1, <3>2
  <2>2. CASE ~full
    BY <1>3, <2>2
  <2> QED
    BY <2>1, <2>2
<1>5. Receive(r, k) = [grown EXCEPT !.vec[grown.ins] = [time |-> now + Delay, pkt |-> k],
                                    !.ins = (grown.ins + 1) % grown.sz]
  BY DEF Receive, woken, counted
<1> HIDE DEF grown, vec, ins, sz
<1>6. Receive(r, k) = [ev |-> ev1, vec |-> [vec EXCEPT ![ins] = [time |-> now + Delay, pkt |-> k]],
                       ins |-> (ins + 1) % sz, pop |-> r.pop, cnt |-> r.cnt + 1, sz |-> sz]
  BY <1>4, <1>5
<1> QED
  BY <1>6 DEF ev1, vec, ins, sz

\* The cells of a ring: where they are, that they differ, and the next one.
LEMMA Cells ==
    ASSUME NEW sz \in Nat, sz >= 2, NEW pop \in 0..(sz - 1), NEW n \in 1..sz
    PROVE  /\ Cell(pop, n, sz) \in 0..(sz - 1)
           /\ \A i \in 1..(n - 1) : Cell(pop, i, sz) # Cell(pop, n, sz)
           /\ n < sz => (Cell(pop, n, sz) + 1) % sz = Cell(pop, n + 1, sz)
           /\ (pop + n - 1) % sz = Cell(pop, n, sz)
<1>1. Cell(pop, n, sz) \in 0..(sz - 1)
  BY DEF Cell
<1>2. \A i \in 1..(n - 1) : Cell(pop, i, sz) # Cell(pop, n, sz)
  BY DEF Cell
<1>0. sz \in Nat \ {0}
  OBVIOUS
<1>3. \A i \in 0..(sz - 1) : (i + 1) % sz = IF i + 1 = sz THEN 0 ELSE i + 1
  BY <1>0, Modulo
<1>4. n < sz => (Cell(pop, n, sz) + 1) % sz = Cell(pop, n + 1, sz)
  <2>1. (Cell(pop, n, sz) + 1) % sz
          = IF Cell(pop, n, sz) + 1 = sz THEN 0 ELSE Cell(pop, n, sz) + 1
    BY <1>1, <1>3
  <2> QED
    BY <2>1 DEF Cell
<1>5. (pop + n - 1) % sz = Cell(pop, n, sz)
  <2>1. pop + n - 1 \in 0..(2 * sz - 1)
    OBVIOUS
  <2>2. \A i \in 0..(2 * sz - 1) : i % sz = IF i < sz THEN i ELSE i - sz
    BY <1>0, Modulo
  <2> QED
    BY <2>1, <2>2 DEF Cell
<1> QED
  BY <1>1, <1>2, <1>4, <1>5

\* A ring with one free cell goes on inserting behind its last packet when it has
\* doubled.
LEMMA FullCells ==
    ASSUME NEW sz \in Nat, sz >= 2, NEW pop \in 0..(sz - 1),
           NEW ins, ins = Cell(pop, sz, sz)
    PROVE  (IF ins < pop THEN ins + sz ELSE ins) = Cell(pop, sz, 2 * sz)
  BY DEF Cell

\* When the oldest packet has left, the others are one place further.
LEMMA PoppedCells ==
    ASSUME NEW sz \in Nat, sz >= 2, NEW pop \in 0..(sz - 1)
    PROVE  \A i \in 1..(sz - 1) :
              Cell(IF pop + 1 = sz THEN 0 ELSE pop + 1, i, sz) = Cell(pop, i + 1, sz)
  BY DEF Cell

\* Ring q is ring r with packet k behind those in flight, which are where they were
\* in the order; if there were none the pipe has itself woken when k is due.
Received(r, k, q) ==
    /\ RingOK(q)
    /\ q.cnt = r.cnt + 1
    /\ q.ev = IF r.cnt = 0 THEN [r.ev EXCEPT ![now + Delay] = @ + 1] ELSE r.ev
    /\ \A i \in 1..r.cnt : At(q, i) = At(r, i)
    /\ At(q, r.cnt + 1) = [time |-> now + Delay, pkt |-> k]

\* That is what receivePacket does, whether or not the ring has to grow.
LEMMA ReceiveRing ==
    ASSUME NEW r, RingOK(r), NEW k \in 1..MaxPackets, now \in 0..MaxTime,
           NEW q, q = Receive(r, k)
    PROVE  Received(r, k, q)
<1> DEFINE full  == r.cnt + 1 = r.sz
           wraps == r.ins < r.pop
           sz    == IF full THEN 2 * r.sz ELSE r.sz
           ins   == IF full /\ wraps THEN r.ins + r.sz ELSE r.ins
           vec   == IF full
                    THEN [i \in 0..(2 * r.sz - 1) |->
                            IF i < r.sz THEN r.vec[i]
                            ELSE IF wraps /\ i - r.sz < r.ins THEN r.vec[i - r.sz]
                            ELSE NoEntry]
                    ELSE r.vec
           ev    == IF r.cnt = 0 THEN [r.ev EXCEPT ![now + Delay] = @ + 1] ELSE r.ev
           e     == [time |-> now + Delay, pkt |-> k]
           put   == [vec EXCEPT ![ins] = e]
<1>1. /\ r.ev \in [Times -> Nat] /\ r.sz \in Nat /\ r.sz >= 2
      /\ r.vec \in [0..(r.sz - 1) -> Entry]
      /\ r.pop \in 0..(r.sz - 1) /\ r.cnt \in 0..(r.sz - 1)
      /\ r.ins = Cell(r.pop, r.cnt + 1, r.sz)
  BY DEF RingOK
<1>2. q = [ev |-> ev, vec |-> put, ins |-> (ins + 1) % sz, pop |-> r.pop,
           cnt |-> r.cnt + 1, sz |-> sz]
  BY ReceiveFields, Zenon
<1>3. e \in Entry /\ NoEntry \in Entry /\ now + Delay \in Times
  BY DEF Entry, NoEntry, Times
<1>4. ev \in [Times -> Nat]
  BY <1>1, <1>3, SMTT(60)
<1>5. /\ sz \in Nat /\ sz >= 2 /\ r.pop \in 0..(sz - 1)
      /\ r.cnt + 1 < sz
      /\ r.cnt + 1 \in 1..sz
  <2>1. /\ r.sz \in Nat /\ r.sz >= 2
        /\ r.pop \in 0..(r.sz - 1) /\ r.cnt \in 0..(r.sz - 1)
    BY <1>1
  <2>2. CASE full
    <3>1. sz = 2 * r.sz /\ r.cnt + 1 = r.sz
      BY <2>2
    <3> HIDE DEF sz, full
    <3> QED
      BY <2>1, <3>1
  <2>3. CASE ~full
    <3>1. sz = r.sz /\ r.cnt + 1 # r.sz
      BY <2>3
    <3> HIDE DEF sz, full
    <3> QED
      BY <2>1, <3>1
  <2> QED
    BY <2>2, <2>3
<1>20. full => r.ins = Cell(r.pop, r.sz, r.sz)
  BY <1>1
<1>6. ins = Cell(r.pop, r.cnt + 1, sz)
  <2>1. CASE full
    <3>1. (IF r.ins < r.pop THEN r.ins + r.sz ELSE r.ins) = Cell(r.pop, r.sz, 2 * r.sz)
      BY <1>1, <1>20, <2>1, FullCells, ZenonT(60)
    <3> QED
      BY <2>1, <3>1
  <2>2. CASE ~full
    BY <1>1, <2>2
  <2> QED
    BY <2>1, <2>2
<1>7. vec \in [0..(sz - 1) -> Entry]
  <2>1. CASE full
    <3>1. \A i \in 0..(2 * r.sz - 1) : i < r.sz => i \in 0..(r.sz - 1)
      BY <1>1
    <3>2. \A i \in 0..(2 * r.sz - 1) :
            ~(i < r.sz) => i - r.sz \in 0..(r.sz - 1)
      BY <1>1, SMTT(60)
    <3>3. sz = 2 * r.sz
      BY <2>1
    <3> QED
      BY <1>1, <1>3, <2>1, <3>1, <3>2, <3>3
  <2>2. CASE ~full
    BY <1>1, <2>2
  <2> QED
    BY <2>1, <2>2
<1>8. \A i \in 1..r.cnt : vec[Cell(r.pop, i, sz)] = At(r, i)
  <2> SUFFICES ASSUME NEW i \in 1..r.cnt
               PROVE  vec[Cell(r.pop, i, sz)] = At(r, i)
    OBVIOUS
  <2>1. CASE ~full
    BY <2>1 DEF At
  <2>2. CASE full
    <3> DEFINE z == r.sz
               p == r.pop
               g == r.ins
               n == p + i - 1
    <3>1. /\ z \in Nat /\ z >= 2 /\ p \in 0..(z - 1) /\ g = Cell(p, z, z)
          /\ i \in 1..z /\ i \in 1..(z - 1) /\ sz = 2 * z /\ n = p + i - 1
      BY <1>1, <1>20, <2>2
    <3>2. vec = [j \in 0..(2 * z - 1) |->
                   IF j < z THEN r.vec[j]
                   ELSE IF g < p /\ j - z < g THEN r.vec[j - z] ELSE NoEntry]
      BY <2>2
    <3>3. At(r, i) = r.vec[Cell(p, i, z)]
      BY DEF At
    <3>4. Cell(r.pop, i, sz) = Cell(p, i, 2 * z)
      BY <3>1
    <3> HIDE DEF z, p, g, n, vec, sz
    <3>5. /\ Cell(p, i, 2 * z) = n /\ n \in 0..(2 * z - 1)
          /\ n < z => Cell(p, i, z) = n
          /\ ~(n < z) => g < p /\ n - z < g /\ Cell(p, i, z) = n - z
      BY <3>1 DEF Cell
    <3>6. vec[n] = IF n < z THEN r.vec[n]
                   ELSE IF g < p /\ n - z < g THEN r.vec[n - z] ELSE NoEntry
      BY <3>2, <3>5
    <3> QED
      BY <3>3, <3>4, <3>5, <3>6
  <2> QED
    BY <2>1, <2>2
<1>9. /\ q.ev = ev /\ q.vec = put /\ q.ins = (ins + 1) % sz /\ q.pop = r.pop
      /\ q.cnt = r.cnt + 1 /\ q.sz = sz
  BY <1>2
<1>10. q = [ev |-> q.ev, vec |-> q.vec, ins |-> q.ins, pop |-> q.pop,
            cnt |-> q.cnt, sz |-> q.sz]
  BY <1>2
<1> HIDE DEF ev, put, vec, ins, sz, e
<1>11. /\ ins \in 0..(sz - 1)
       /\ \A i \in 1..r.cnt : Cell(r.pop, i, sz) # ins
       /\ (ins + 1) % sz = Cell(r.pop, r.cnt + 1 + 1, sz)
  <2> DEFINE n == r.cnt + 1
  <2>1. n - 1 = r.cnt /\ n \in 1..sz /\ n < sz
    BY <1>1, <1>5, SMTT(60)
  <2> HIDE DEF n
  <2>2. /\ Cell(r.pop, n, sz) \in 0..(sz - 1)
        /\ \A i \in 1..(n - 1) : Cell(r.pop, i, sz) # Cell(r.pop, n, sz)
        /\ (Cell(r.pop, n, sz) + 1) % sz = Cell(r.pop, n + 1, sz)
    BY <1>5, <2>1, Cells, ZenonT(60)
  <2> QED
    BY <1>6, <2>1, <2>2 DEF n
<1>12. put \in [0..(sz - 1) -> Entry]
  BY <1>3, <1>7 DEF put
<1>13. \A i \in 1..r.cnt : At(q, i) = At(r, i)
  <2> TAKE i \in 1..r.cnt
  <2>1. put[Cell(r.pop, i, sz)] = vec[Cell(r.pop, i, sz)]
    BY <1>7, <1>11 DEF put
  <2> QED
    BY <1>8, <1>9, <2>1 DEF At
<1>14. At(q, r.cnt + 1) = e
  <2>1. put[ins] = e
    BY <1>7, <1>11 DEF put
  <2> QED
    BY <1>6, <1>9, <2>1 DEF At
<1>15. RingOK(q)
  <2>1. q.ins = Cell(q.pop, q.cnt + 1, q.sz)
    BY <1>9, <1>11
  <2>2. q.cnt \in 0..(q.sz - 1) /\ q.pop \in 0..(q.sz - 1) /\ q.sz \in Nat /\ q.sz >= 2
    BY <1>1, <1>5, <1>9, SMTT(60)
  <2> QED
    BY <1>4, <1>9, <1>10, <1>12, <2>1, <2>2 DEF RingOK
<1> QED
  BY <1>9, <1>13, <1>14, <1>15 DEF ev, e, Received

\* doNextEvent before sendOn: the ring without its oldest packet, and the ring
\* without the wake-up that came.
Popped(r) == [r EXCEPT !.pop = (@ + 1) % r.sz, !.cnt = @ - 1]
WokenUp(r) == [r EXCEPT !.ev[now] = @ - 1]

\* The oldest packet leaves and the others move up.
LEMMA PopRing ==
    ASSUME NEW r, RingOK(r), r.cnt > 0,
           NEW q, q = Popped(r)
    PROVE  /\ RingOK(q)
           /\ q.cnt = r.cnt - 1 /\ q.ev = r.ev
           /\ \A i \in 1..q.cnt : At(q, i) = At(r, i + 1)
<1> DEFINE pop == IF r.pop + 1 = r.sz THEN 0 ELSE r.pop + 1
<1>1. /\ r.sz \in Nat /\ r.sz >= 2
      /\ r.pop \in 0..(r.sz - 1) /\ r.cnt \in 0..(r.sz - 1)
      /\ r.ins = Cell(r.pop, r.cnt + 1, r.sz)
      /\ r.ev \in [Times -> Nat] /\ r.vec \in [0..(r.sz - 1) -> Entry]
  BY DEF RingOK
<1>2. (r.pop + 1) % r.sz = pop
  BY <1>1, Modulo, SMTT(60)
<1>3. q = [ev |-> r.ev, vec |-> r.vec, ins |-> r.ins, pop |-> pop,
           cnt |-> r.cnt - 1, sz |-> r.sz]
  BY <1>2 DEF RingOK, Popped
<1>4. /\ q.ev = r.ev /\ q.vec = r.vec /\ q.ins = r.ins /\ q.pop = pop
      /\ q.cnt = r.cnt - 1 /\ q.sz = r.sz
      /\ q = [ev |-> q.ev, vec |-> q.vec, ins |-> q.ins, pop |-> q.pop,
              cnt |-> q.cnt, sz |-> q.sz]
  BY <1>3
<1>5. pop \in 0..(r.sz - 1) /\ r.cnt - 1 \in 0..(r.sz - 1)
  BY <1>1, SMTT(60)
<1>6. \A i \in 1..r.cnt : Cell(pop, i, r.sz) = Cell(r.pop, i + 1, r.sz)
  <2>1. \A i \in 1..r.cnt : i \in 1..(r.sz - 1)
    BY <1>1
  <2>2. r.sz \in Nat /\ r.sz >= 2 /\ r.pop \in 0..(r.sz - 1)
    BY <1>1
  <2>3. \A i \in 1..(r.sz - 1) : Cell(pop, i, r.sz) = Cell(r.pop, i + 1, r.sz)
    BY <2>2, PoppedCells, Zenon
  <2> QED
    BY <2>1, <2>3
<1>7. q.ins = Cell(q.pop, q.cnt + 1, q.sz)
  <2>1. q.cnt + 1 = r.cnt /\ r.cnt \in 1..r.cnt
    BY <1>1, <1>4, SMTT(60)
  <2> QED
    BY <1>1, <1>4, <1>6, <2>1
<1>8. RingOK(q)
  BY <1>1, <1>4, <1>5, <1>7 DEF RingOK
<1>9. \A i \in 1..q.cnt : At(q, i) = At(r, i + 1)
  <2> TAKE i \in 1..q.cnt
  <2>1. i \in 1..r.cnt
    BY <1>1, <1>4
  <2> QED
    BY <1>4, <1>6, <2>1 DEF At
<1> QED
  BY <1>4, <1>8, <1>9

\* A wake-up comes: the ring stays as it is.
LEMMA WakeRing ==
    ASSUME NEW r, RingOK(r), now \in Times, r.ev[now] > 0,
           NEW q, q = WokenUp(r)
    PROVE  /\ RingOK(q)
           /\ q.cnt = r.cnt /\ q.ev = [r.ev EXCEPT ![now] = @ - 1]
           /\ q.pop = r.pop /\ q.sz = r.sz
           /\ \A i \in 1..r.cnt : At(q, i) = At(r, i)
<1> DEFINE ev == [r.ev EXCEPT ![now] = @ - 1]
<1>1. r.ev \in [Times -> Nat]
  BY DEF RingOK
<1>2. ev \in [Times -> Nat]
  BY <1>1
<1>3. q = [ev |-> ev, vec |-> r.vec, ins |-> r.ins, pop |-> r.pop,
           cnt |-> r.cnt, sz |-> r.sz]
  BY DEF RingOK, WokenUp
<1> HIDE DEF ev
<1>4. /\ q.ev = ev /\ q.vec = r.vec /\ q.ins = r.ins /\ q.pop = r.pop
      /\ q.cnt = r.cnt /\ q.sz = r.sz
      /\ q = [ev |-> q.ev, vec |-> q.vec, ins |-> q.ins, pop |-> q.pop,
              cnt |-> q.cnt, sz |-> q.sz]
  BY <1>3
<1> QED
  BY <1>2, <1>4 DEF RingOK, At, ev

\* The pipe has itself woken when the oldest packet in flight is due: the ring
\* stays as it is.
LEMMA RearmRing ==
    ASSUME NEW r, RingOK(r), NEW q, q = Rearm(r)
    PROVE  /\ RingOK(q)
           /\ q.cnt = r.cnt
           /\ q.ev = IF r.cnt > 0 THEN [r.ev EXCEPT ![At(r, 1).time] = @ + 1] ELSE r.ev
           /\ \A i \in 1..r.cnt : At(q, i) = At(r, i)
<1> DEFINE ev == IF r.cnt > 0 THEN [r.ev EXCEPT ![At(r, 1).time] = @ + 1] ELSE r.ev
<1>1. /\ r.ev \in [Times -> Nat] /\ r.vec \in [0..(r.sz - 1) -> Entry]
      /\ r.pop \in 0..(r.sz - 1) /\ r.sz \in Nat
  BY DEF RingOK
<1>2. r.vec[r.pop] = At(r, 1) /\ r.vec[r.pop].time \in Times
  BY <1>1, SMTT(60) DEF At, Cell, Entry
<1>3. ev \in [Times -> Nat]
  BY <1>1, <1>2
<1>4. q = [ev |-> ev, vec |-> r.vec, ins |-> r.ins, pop |-> r.pop,
           cnt |-> r.cnt, sz |-> r.sz]
  BY <1>2 DEF RingOK, Rearm, Schedule
<1> HIDE DEF ev
<1>5. /\ q.ev = ev /\ q.vec = r.vec /\ q.ins = r.ins /\ q.pop = r.pop
      /\ q.cnt = r.cnt /\ q.sz = r.sz
      /\ q = [ev |-> q.ev, vec |-> q.vec, ins |-> q.ins, pop |-> q.pop,
              cnt |-> q.cnt, sz |-> q.sz]
  BY <1>4
<1> QED
  BY <1>3, <1>5 DEF RingOK, At, ev

-----------------------------------------------------------------------------
(* The inductive invariant *)

\* The packets in flight in ring r are those that entered after the first n, in
\* order, and none of them is due before the one that entered before it, or more
\* than _delay from now.
InOrder(r, n) ==
    /\ \A i \in 1..r.cnt : At(r, i).pkt = n + i /\ At(r, i).time <= now + Delay
    /\ \A i, j \in 1..r.cnt : i <= j => At(r, i).time <= At(r, j).time

\* The packets in flight and those that left are those that entered.
AllThere ==
    /\ entered = count + Len(out)
    /\ \A i \in DOMAIN out : out[i].pkt = i

\* The wake-ups of ring r: one, for the oldest of its packets, if it has any.
Woken(r) ==
    \A t \in Times :
        r.ev[t] = IF r.cnt > 0 /\ t = At(r, 1).time THEN 1 ELSE 0

\* The oldest packet has not been overlooked.
NotLate(r) == r.cnt > 0 => now <= At(r, 1).time

IInv ==
    /\ TypeOK
    /\ RingOK(Ring)
    /\ InOrder(Ring, Len(out))
    /\ AllThere
    /\ ~reentrant => Woken(Ring) /\ NotLate(Ring)

\* A step that makes the ring q.
LEMMA Becoming ==
    ASSUME NEW q, RingOK(q), Become(q)
    PROVE  Ring' = q
<1>1. q = [ev |-> q.ev, vec |-> q.vec, ins |-> q.ins, pop |-> q.pop,
           cnt |-> q.cnt, sz |-> q.sz]
  BY DEF RingOK
<1>2. Ring' = [ev |-> q.ev, vec |-> q.vec, ins |-> q.ins, pop |-> q.pop,
               cnt |-> q.cnt, sz |-> q.sz]
  BY DEF Ring, Become
<1> QED
  BY <1>1, <1>2, Zenon

\* The types of a ring that is right.
LEMMA RingTypes ==
    RingOK(Ring) =>
        /\ events \in [Times -> Nat]
        /\ inflight \in [0..(size - 1) -> [time : Times, pkt : 0..MaxPackets]]
        /\ nextInsert \in 0..(size - 1) /\ nextPop \in 0..(size - 1)
        /\ count \in 0..(size - 1) /\ size \in Nat
<1> HAVE RingOK(Ring)
<1>1. /\ Ring.ev = events /\ Ring.vec = inflight /\ Ring.ins = nextInsert
      /\ Ring.pop = nextPop /\ Ring.cnt = count /\ Ring.sz = size
  BY DEF Ring
<1>2. /\ size \in Nat /\ size >= 2 /\ nextPop \in 0..(size - 1)
      /\ count \in 0..(size - 1) /\ nextInsert = Cell(nextPop, count + 1, size)
  BY <1>1 DEF RingOK
<1>3. nextInsert \in 0..(size - 1)
  BY <1>2 DEF Cell
<1> QED
  BY <1>1, <1>2, <1>3 DEF RingOK, Entry

\* A packet that is received keeps the order and the wake-ups right.
LEMMA ReceiveKeeps ==
    ASSUME NEW r, RingOK(r), NEW n \in Nat, InOrder(r, n), now \in 0..MaxTime,
           NEW k \in 1..MaxPackets, k = n + r.cnt + 1,
           NEW q, q = Receive(r, k)
    PROVE  /\ RingOK(q) /\ q.cnt = r.cnt + 1
           /\ InOrder(q, n)
           /\ Woken(r) /\ NotLate(r) => Woken(q) /\ NotLate(q)
<1> DEFINE c == r.cnt
<1>1. /\ RingOK(q) /\ q.cnt = c + 1
      /\ q.ev = IF c = 0 THEN [r.ev EXCEPT ![now + Delay] = @ + 1] ELSE r.ev
      /\ \A i \in 1..c : At(q, i) = At(r, i)
      /\ At(q, c + 1) = [time |-> now + Delay, pkt |-> k]
  <2>1. Received(r, k, q)
    BY ReceiveRing, Zenon
  <2> QED
    BY <2>1 DEF Received
<1>2. c \in Nat /\ r.ev \in [Times -> Nat] /\ now + Delay \in Times
  <2>1. r.sz \in Nat /\ r.cnt \in 0..(r.sz - 1) /\ r.ev \in [Times -> Nat]
    BY DEF RingOK
  <2>2. c \in Nat
    BY <2>1
  <2>3. now + Delay \in Times
    <3>1. MaxTime \in Nat /\ Delay \in Nat /\ now \in 0..MaxTime
      BY PipeAssumption
    <3> QED
      BY ONLY <3>1 DEF Times
  <2> QED
    BY <2>1, <2>2, <2>3
<1>3. \A i \in 1..c : At(r, i).pkt = n + i /\ At(r, i).time <= now + Delay
  BY DEF InOrder
<1>4. \A i, j \in 1..c : i <= j => At(r, i).time <= At(r, j).time
  BY DEF InOrder
<1>5. k = n + (c + 1)
  BY <1>2
<1>6. Woken(r) => \A t \in Times : r.ev[t] = IF c > 0 /\ t = At(r, 1).time THEN 1 ELSE 0
  BY DEF Woken
<1>7. NotLate(r) => (c > 0 => now <= At(r, 1).time)
  BY DEF NotLate
<1> HIDE DEF c
<1>8. \A i \in 1..(c + 1) : i \in 1..c \/ i = c + 1
  BY <1>2
<1>9. At(q, c + 1).time = now + Delay /\ At(q, c + 1).pkt = n + (c + 1)
  BY <1>1, <1>5
<1>10. \A i \in 1..(c + 1) : At(q, i).pkt = n + i /\ At(q, i).time <= now + Delay
  <2> TAKE i \in 1..(c + 1)
  <2>1. CASE i \in 1..c
    BY <1>1, <1>3, <2>1
  <2>2. CASE i = c + 1
    BY <1>9, <2>2
  <2> QED
    BY <1>8, <2>1, <2>2
<1>11. \A i, j \in 1..(c + 1) : i <= j => At(q, i).time <= At(q, j).time
  <2> SUFFICES ASSUME NEW i \in 1..(c + 1), NEW j \in 1..(c + 1), i <= j
               PROVE  At(q, i).time <= At(q, j).time
    OBVIOUS
  <2>1. CASE j \in 1..c
    <3>1. i \in 1..c
      BY <1>2, <2>1
    <3> QED
      BY <1>1, <1>4, <2>1, <3>1
  <2>2. CASE j = c + 1
    BY <1>9, <1>10, <2>2
  <2> QED
    BY <1>8, <2>1, <2>2
<1>12. InOrder(q, n)
  BY <1>1, <1>10, <1>11 DEF InOrder
<1>13. ASSUME Woken(r), NotLate(r)
       PROVE  Woken(q) /\ NotLate(q)
  <2>1. CASE c = 0
    <3>1. At(q, 1).time = now + Delay /\ q.cnt > 0
      BY <1>1, <1>9, <2>1
    <3>2. \A t \in Times : r.ev[t] = 0
      BY <1>6, <1>13, <2>1
    <3>3. \A t \in Times : q.ev[t] = IF t = now + Delay THEN 1 ELSE 0
      BY <1>1, <1>2, <2>1, <3>2
    <3> QED
      BY <3>1, <3>3 DEF Woken, NotLate
  <2>2. CASE c # 0
    <3>1. At(q, 1) = At(r, 1) /\ q.cnt > 0 /\ c > 0
      BY <1>1, <1>2, <2>2
    <3>2. q.ev = r.ev
      BY <1>1, <2>2
    <3> QED
      BY <1>6, <1>7, <1>13, <3>1, <3>2 DEF Woken, NotLate
  <2> QED
    BY <2>1, <2>2
<1> QED
  BY <1>1, <1>12, <1>13 DEF c

\* What doNextEvent does before and after sendOn keeps the order.
LEMMA WakeKeeps ==
    ASSUME NEW r, RingOK(r), NEW n \in Nat, InOrder(r, n), now \in Times,
           r.ev[now] > 0
    PROVE  /\ RingOK(WokenUp(r)) /\ InOrder(WokenUp(r), n)
           /\ WokenUp(r).cnt = r.cnt /\ WokenUp(r).sz = r.sz
           /\ WokenUp(r).ev = [r.ev EXCEPT ![now] = @ - 1]
           /\ \A i \in 1..r.cnt : At(WokenUp(r), i) = At(r, i)
<1> DEFINE q == WokenUp(r)
<1>1. q = WokenUp(r)
  OBVIOUS
<1> HIDE DEF q
<1>2. /\ RingOK(q) /\ q.cnt = r.cnt /\ q.ev = [r.ev EXCEPT ![now] = @ - 1]
      /\ q.sz = r.sz
      /\ \A i \in 1..r.cnt : At(q, i) = At(r, i)
  BY <1>1, WakeRing
<1>3. InOrder(q, n)
  BY <1>2 DEF InOrder
<1> QED
  BY <1>1, <1>2, <1>3

LEMMA PopKeeps ==
    ASSUME NEW r, RingOK(r), NEW n \in Nat, InOrder(r, n), r.cnt > 0
    PROVE  /\ RingOK(Popped(r)) /\ InOrder(Popped(r), n + 1)
           /\ Popped(r).cnt = r.cnt - 1 /\ Popped(r).ev = r.ev
           /\ \A i \in 1..(r.cnt - 1) : At(Popped(r), i) = At(r, i + 1)
<1> DEFINE q == Popped(r)
           c == r.cnt
<1>1. q = Popped(r) /\ c \in Nat
  BY DEF RingOK
<1>2. /\ RingOK(q) /\ q.cnt = c - 1 /\ q.ev = r.ev
      /\ \A i \in 1..q.cnt : At(q, i) = At(r, i + 1)
  BY <1>1, PopRing
<1>3. \A i \in 1..c : At(r, i).pkt = n + i /\ At(r, i).time <= now + Delay
  BY DEF InOrder
<1>4. \A i, j \in 1..c : i <= j => At(r, i).time <= At(r, j).time
  BY DEF InOrder
<1> HIDE DEF q, c
<1>5. \A i \in 1..(c - 1) : At(q, i) = At(r, i + 1) /\ i + 1 \in 1..c
  BY <1>1, <1>2
<1>6. \A i \in 1..(c - 1) : At(q, i).pkt = n + 1 + i /\ At(q, i).time <= now + Delay
  <2> TAKE i \in 1..(c - 1)
  <2>1. At(r, i + 1).pkt = n + (i + 1) /\ At(r, i + 1).time <= now + Delay
    BY <1>3, <1>5
  <2> QED
    BY <1>5, <2>1
<1>7. \A i, j \in 1..(c - 1) : i <= j => At(q, i).time <= At(q, j).time
  <2> TAKE i, j \in 1..(c - 1)
  <2>1. i <= j => i + 1 <= j + 1
    BY <1>1
  <2> QED
    BY <1>4, <1>5, <2>1
<1>8. InOrder(q, n + 1)
  BY <1>2, <1>6, <1>7 DEF InOrder
<1> QED
  BY <1>1, <1>2, <1>5, <1>8 DEF c

LEMMA RearmKeeps ==
    ASSUME NEW r, RingOK(r), NEW n \in Nat, InOrder(r, n)
    PROVE  /\ RingOK(Rearm(r)) /\ InOrder(Rearm(r), n) /\ Rearm(r).cnt = r.cnt
           /\ Rearm(r).ev = IF r.cnt > 0
                            THEN [r.ev EXCEPT ![At(r, 1).time] = @ + 1] ELSE r.ev
           /\ \A i \in 1..r.cnt : At(Rearm(r), i) = At(r, i)
<1> DEFINE q == Rearm(r)
<1>1. q = Rearm(r)
  OBVIOUS
<1> HIDE DEF q
<1>2. /\ RingOK(q) /\ q.cnt = r.cnt
      /\ q.ev = IF r.cnt > 0 THEN [r.ev EXCEPT ![At(r, 1).time] = @ + 1] ELSE r.ev
      /\ \A i \in 1..r.cnt : At(q, i) = At(r, i)
  BY <1>1, RearmRing
<1>3. InOrder(q, n)
  BY <1>2 DEF InOrder
<1> QED
  BY <1>1, <1>2, <1>3

-----------------------------------------------------------------------------
(* The steps *)

\* What a step has to establish of the ring it leaves behind.
LEMMA RingStep ==
    ASSUME NEW q, RingOK(q), Become(q), UNCHANGED <<reentrant, now>>,
           NEW n \in Nat, InOrder(q, n),
           ~reentrant => Woken(q) /\ NotLate(q),
           reentrant \in Reentrant, now \in 0..MaxTime,
           entered' \in 0..MaxPackets,
           out' \in Seq([pkt : 1..MaxPackets, due : Times, at : Times]),
           Len(out') = n, entered' = q.cnt + n, \A i \in DOMAIN out' : out'[i].pkt = i
    PROVE  IInv'
<1>1. Ring' = q
  BY Becoming
<1>2. RingOK(Ring)'
  BY <1>1 DEF RingOK, At, Cell, Entry, Times
<1>3. InOrder(Ring, Len(out))'
  BY <1>1, ZenonT(60) DEF InOrder, At, Cell
<1>4. (~reentrant => Woken(Ring) /\ NotLate(Ring))'
  BY <1>1 DEF Woken, NotLate, At, Cell, Times
<1>5. AllThere'
  BY DEF AllThere, Become
<1>6. TypeOK'
  <2>1. (/\ events \in [Times -> Nat]
         /\ inflight \in [0..(size - 1) -> [time : Times, pkt : 0..MaxPackets]]
         /\ nextInsert \in 0..(size - 1) /\ nextPop \in 0..(size - 1)
         /\ count \in 0..(size - 1) /\ size \in Nat)'
    BY <1>2, RingTypes, PTL
  <2> QED
    BY <2>1 DEF TypeOK
<1> QED
  BY <1>2, <1>3, <1>4, <1>5, <1>6 DEF IInv

LEMMA InitIInv == Init => IInv
<1> SUFFICES ASSUME Init
             PROVE  IInv
  OBVIOUS
<1> USE DEF Init
<1>1. /\ events \in [Times -> Nat]
      /\ inflight \in [0..(size - 1) -> Entry]
      /\ size \in Nat /\ size >= 2
  BY DEF Times, Entry, NoEntry
<1>2. RingOK(Ring)
  BY <1>1 DEF RingOK, Ring, Cell
<1>3. TypeOK
  BY <1>2, RingTypes DEF TypeOK
<1>4. InOrder(Ring, Len(out)) /\ Woken(Ring) /\ NotLate(Ring) /\ AllThere
  BY DEF InOrder, Ring, Woken, NotLate, AllThere
<1> QED
  BY <1>2, <1>3, <1>4 DEF IInv

LEMMA ReceivePacketIInv == IInv /\ ReceivePacket => IInv'
<1> SUFFICES ASSUME IInv, ReceivePacket
             PROVE  IInv'
  OBVIOUS
<1> DEFINE n == Len(out)
           k == entered + 1
           q == Receive(Ring, k)
<1>1. /\ RingOK(Ring) /\ InOrder(Ring, n) /\ now \in 0..MaxTime /\ n \in Nat
      /\ reentrant \in Reentrant /\ entered \in 0..MaxPackets
      /\ out \in Seq([pkt : 1..MaxPackets, due : Times, at : Times])
      /\ ~reentrant => Woken(Ring) /\ NotLate(Ring)
      /\ entered = Ring.cnt + n /\ \A i \in DOMAIN out : out[i].pkt = i
  BY DEF IInv, TypeOK, AllThere, Ring
<1>2. k \in 1..MaxPackets /\ Ring.cnt \in Nat /\ k = n + Ring.cnt + 1
  BY <1>1, SMTT(60) DEF ReceivePacket, MayEnter, RingOK
<1>3. Become(q) /\ entered' = k /\ UNCHANGED <<reentrant, now, out>>
  BY DEF ReceivePacket
<1> HIDE DEF n
<1>4. /\ RingOK(q) /\ q.cnt = Ring.cnt + 1 /\ InOrder(q, n)
      /\ Woken(Ring) /\ NotLate(Ring) => Woken(q) /\ NotLate(q)
  <2> HIDE DEF k
  <2> QED
    BY <1>1, <1>2, ReceiveKeeps, SMTT(60)
<1> HIDE DEF q
<1>5. entered' = q.cnt + n /\ entered' \in 0..MaxPackets
  BY <1>1, <1>2, <1>3, <1>4, SMTT(60)
<1> QED
  BY <1>1, <1>3, <1>4, <1>5, RingStep DEF n

\* What is in flight are packets with the times they are due.
LEMMA InFlightTypes ==
    ASSUME NEW r, RingOK(r), NEW i \in 1..r.cnt
    PROVE  At(r, i) \in Entry
<1> DEFINE sz  == r.sz
           pop == r.pop
<1>1. /\ sz \in Nat /\ sz >= 2 /\ pop \in 0..(sz - 1) /\ i \in 1..sz
      /\ r.vec \in [0..(sz - 1) -> Entry] /\ At(r, i) = r.vec[Cell(pop, i, sz)]
  BY SMTT(60) DEF RingOK, At
<1> HIDE DEF sz, pop
<1>2. Cell(pop, i, sz) \in 0..(sz - 1)
  BY <1>1, Cells
<1> QED
  BY <1>1, <1>2

\* The packets in flight in ring r, in order: what InFlight shows of the pipe's.
Flight(r) == [i \in 1..r.cnt |-> At(r, i)]

LEMMA FlightOfRing == RingOK(Ring) => InFlight = Flight(Ring)
<1> HAVE RingOK(Ring)
<1>1. /\ Ring.vec = inflight /\ Ring.pop = nextPop /\ Ring.cnt = count /\ Ring.sz = size
  BY DEF Ring
<1>2. size \in Nat /\ size >= 2 /\ nextPop \in 0..(size - 1) /\ count \in 0..(size - 1)
  BY <1>1 DEF RingOK
<1>3. \A i \in 1..count : (nextPop + i - 1) % size = Cell(nextPop, i, size)
  BY <1>2, Cells
<1> QED
  BY <1>1, <1>3 DEF InFlight, Flight, At

\* The wake-up that comes without anything handed back is the one of the oldest
\* packet, and the next one is asked for if a packet is left.
LEMMA NextWakeUp ==
    ASSUME NEW r, RingOK(r), NEW n \in Nat, InOrder(r, n), now \in Times,
           r.ev[now] > 0, Woken(r), NotLate(r)
    PROVE  /\ r.cnt > 0 /\ At(r, 1).time = now
           /\ Woken(Rearm(Popped(WokenUp(r)))) /\ NotLate(Rearm(Popped(WokenUp(r))))
<1> DEFINE w == WokenUp(r)
           p == Popped(w)
           q == Rearm(p)
<1>1. r.cnt > 0 /\ At(r, 1).time = now
  BY DEF Woken
<1>2. /\ RingOK(w) /\ InOrder(w, n) /\ w.cnt = r.cnt
      /\ w.ev = [r.ev EXCEPT ![now] = @ - 1]
      /\ \A i \in 1..r.cnt : At(w, i) = At(r, i)
  BY WakeKeeps
<1> HIDE DEF w
<1>3. /\ RingOK(p) /\ InOrder(p, n + 1) /\ p.cnt = w.cnt - 1 /\ p.ev = w.ev
      /\ \A i \in 1..(w.cnt - 1) : At(p, i) = At(w, i + 1)
  BY <1>1, <1>2, PopKeeps
<1> HIDE DEF p
<1>4. /\ RingOK(q) /\ q.cnt = p.cnt
      /\ q.ev = IF p.cnt > 0 THEN [p.ev EXCEPT ![At(p, 1).time] = @ + 1] ELSE p.ev
      /\ \A i \in 1..p.cnt : At(q, i) = At(p, i)
  BY <1>3, RearmKeeps, n + 1 \in Nat
<1> HIDE DEF q
<1>5. r.cnt \in Nat /\ r.ev \in [Times -> Nat]
  BY DEF RingOK
<1>6. \A t \in Times : w.ev[t] = 0
  BY <1>1, <1>2, <1>5 DEF Woken
<1>7. Woken(q) /\ NotLate(q)
  <2>1. CASE p.cnt > 0
    <3>1. /\ 1 \in 1..p.cnt /\ 1 \in 1..(w.cnt - 1) /\ 2 \in 1..w.cnt
          /\ 1 \in 1..r.cnt /\ 2 \in 1..r.cnt
      BY <1>1, <1>2, <1>3, <1>5, <2>1
    <3>2. At(p, 1) = At(r, 2) /\ At(q, 1) = At(r, 2)
      BY <1>2, <1>3, <1>4, <3>1
    <3>3. At(r, 2).time >= now /\ now \in Nat
      <4>1. At(r, 1).time <= At(r, 2).time
        BY <3>1 DEF InOrder
      <4>2. At(r, 1).time \in Nat /\ At(r, 2).time \in Nat
        BY <3>1, InFlightTypes DEF Entry, Times
      <4> QED
        BY <1>1, <4>1, <4>2
    <3>4. At(r, 2).time \in Times
      BY <3>1, InFlightTypes DEF Entry
    <3>5. q.ev = [w.ev EXCEPT ![At(r, 2).time] = @ + 1]
      BY <1>3, <1>4, <2>1, <3>2
    <3>6. w.ev \in [Times -> Nat]
      BY <1>2 DEF RingOK
    <3> DEFINE u  == At(r, 2).time
               ev == w.ev
    <3>7. /\ At(q, 1).time = u /\ u \in Times /\ u >= now /\ ev \in [Times -> Nat]
          /\ q.ev = [ev EXCEPT ![u] = @ + 1] /\ \A t \in Times : ev[t] = 0
      BY <1>6, <3>2, <3>3, <3>4, <3>5, <3>6
    <3> HIDE DEF u, ev
    <3>8. \A t \in Times : q.ev[t] = IF t = u THEN 1 ELSE 0
      BY <3>7
    <3>9. Woken(q)
      BY <1>4, <2>1, <3>7, <3>8 DEF Woken
    <3>10. NotLate(q)
      BY <1>4, <2>1, <3>3, <3>7 DEF NotLate
    <3> QED
      BY <3>9, <3>10
  <2>2. CASE ~(p.cnt > 0)
    BY <1>3, <1>4, <1>6, <2>2 DEF Woken, NotLate
  <2> QED
    BY <2>1, <2>2
<1> QED
  BY <1>1, <1>7 DEF q, p, w

LEMMA DoNextEventIInv == IInv /\ DoNextEvent => IInv'
<1> SUFFICES ASSUME IInv, DoNextEvent
             PROVE  IInv'
  OBVIOUS
<1> DEFINE n == Len(out)
           r == Ring
           w == WokenUp(r)
           p == Popped(w)
           k == entered + 1
           gone == [pkt |-> inflight[nextPop].pkt, due |-> inflight[nextPop].time,
                    at |-> now]
           Outs == [pkt : 1..MaxPackets, due : Times, at : Times]
<1>1. /\ RingOK(r) /\ InOrder(r, n) /\ now \in 0..MaxTime /\ n \in Nat
      /\ reentrant \in Reentrant /\ entered \in 0..MaxPackets
      /\ out \in Seq(Outs)
      /\ ~reentrant => Woken(r) /\ NotLate(r)
      /\ entered = r.cnt + n /\ \A i \in DOMAIN out : out[i].pkt = i
  BY DEF IInv, TypeOK, AllThere, Ring
<1>2. /\ r.cnt = count /\ r.sz = size /\ r.ev = events /\ r.vec = inflight
      /\ r.pop = nextPop
  BY DEF Ring
<1>3. r.cnt \in Nat /\ now \in Times
  BY <1>1, SMTT(60) DEF RingOK, Times
<1>4. r.ev[now] > 0 /\ UNCHANGED <<reentrant, now>>
  BY <1>2 DEF DoNextEvent
<1>5. /\ RingOK(w) /\ InOrder(w, n) /\ w.cnt = r.cnt /\ w.sz = r.sz
      /\ w.ev = [r.ev EXCEPT ![now] = @ - 1]
  <2> HIDE DEF r, n
  <2> QED
    BY <1>1, <1>3, <1>4, WakeKeeps
<1>6. CASE count = 0
  <2>1. Become(w) /\ UNCHANGED <<entered, out>>
    BY <1>6 DEF DoNextEvent, WokenUp
  <2>2. reentrant
    BY <1>1, <1>2, <1>3, <1>4, <1>6 DEF Woken
  <2>3. entered' = w.cnt + n /\ entered' \in 0..MaxPackets
    BY <1>1, <1>5, <2>1
  <2>4. Len(out') = n /\ out' \in Seq(Outs) /\ \A i \in DOMAIN out' : out'[i].pkt = i
    BY <1>1, <2>1
  <2> HIDE DEF w, n
  <2> QED
    BY <1>1, <1>4, <1>5, <2>1, <2>2, <2>3, <2>4, RingStep
<1>7. CASE count # 0
  <2>1. /\ out' = Append(out, gone)
        /\ \/ Become(Rearm(p)) /\ UNCHANGED entered
           \/ /\ reentrant /\ MayEnter
              /\ Become(Rearm(Receive(p, k)))
              /\ entered' = k
    <3>1. p = [[Ring EXCEPT !.ev[now] = @ - 1] EXCEPT !.pop = (@ + 1) % size, !.cnt = @ - 1]
      BY <1>2, <1>5 DEF Popped, WokenUp
    <3> HIDE DEF p
    <3> QED
      BY <1>7, <3>1 DEF DoNextEvent
  <2>2. w.cnt > 0 /\ r.cnt > 0
    BY <1>2, <1>3, <1>5, <1>7
  <2>3. /\ RingOK(p) /\ InOrder(p, n + 1) /\ p.cnt = r.cnt - 1
    <3> HIDE DEF w, n
    <3> QED
      BY <1>1, <1>5, <2>2, PopKeeps
  <2>4. gone \in Outs /\ gone.pkt = n + 1
    <3>1. At(r, 1) = inflight[nextPop]
      <4>1. nextPop \in 0..(size - 1) /\ size \in Nat
        BY DEF IInv, TypeOK
      <4>2. Cell(nextPop, 1, size) = nextPop
        BY <4>1 DEF Cell
      <4> QED
        BY <1>2, <4>2 DEF At
    <3>2. 1 \in 1..r.cnt
      BY <1>3, <2>2
    <3>3. At(r, 1) \in Entry /\ At(r, 1).pkt = n + 1
      <4> HIDE DEF r, n
      <4> QED
        BY <1>1, <3>2, InFlightTypes DEF InOrder
    <3>4. n + 1 \in 1..MaxPackets
      BY <1>1, <1>3, <2>2, SMTT(60)
    <3> QED
      BY <1>3, <3>1, <3>3, <3>4 DEF Entry
  <2>5. /\ Len(out') = n + 1 /\ out' \in Seq(Outs)
        /\ \A i \in DOMAIN out' : out'[i].pkt = i
    <3> HIDE DEF gone, Outs
    <3>1. /\ Len(out') = n + 1 /\ out' \in Seq(Outs) /\ DOMAIN out' = 1..(n + 1)
          /\ out'[n + 1] = gone /\ \A i \in 1..n : out'[i] = out[i]
          /\ DOMAIN out = 1..n
      BY <1>1, <2>1, <2>4
    <3>2. \A i \in 1..(n + 1) : i \in 1..n \/ i = n + 1
      BY <1>1
    <3> HIDE DEF n
    <3> QED
      BY <1>1, <2>4, <3>1, <3>2
  <2>6. CASE Become(Rearm(p)) /\ UNCHANGED entered
    <3> DEFINE q == Rearm(p)
    <3>1. RingOK(q) /\ InOrder(q, n + 1) /\ q.cnt = p.cnt
      <4> HIDE DEF p, n
      <4> QED
        BY <1>1, <2>3, RearmKeeps, n + 1 \in Nat
    <3>2. ~reentrant => Woken(q) /\ NotLate(q)
      <4> HIDE DEF r, n
      <4> QED
        BY <1>1, <1>3, <1>4, NextWakeUp
    <3>3. Become(q)
      BY <2>6
    <3> HIDE DEF q
    <3>4. entered' = q.cnt + (n + 1) /\ entered' \in 0..MaxPackets /\ n + 1 \in Nat
      BY <1>1, <1>3, <2>3, <2>6, <3>1, SMTT(60)
    <3> HIDE DEF n, r, p, w
    <3> QED
      BY <1>1, <1>4, <2>5, <3>1, <3>2, <3>3, <3>4, RingStep
  <2>7. CASE /\ reentrant /\ MayEnter
             /\ Become(Rearm(Receive(p, k)))
             /\ entered' = k
    <3> DEFINE m == Receive(p, k)
               q == Rearm(m)
    <3>1. k \in 1..MaxPackets /\ k = (n + 1) + p.cnt + 1 /\ n + 1 \in Nat
      BY <1>1, <1>3, <2>3, <2>7, SMTT(60) DEF MayEnter
    <3>2. RingOK(m) /\ m.cnt = p.cnt + 1 /\ InOrder(m, n + 1)
      <4> HIDE DEF p, n, k
      <4> QED
        BY <1>1, <2>3, <3>1, ReceiveKeeps
    <3>3. RingOK(q) /\ InOrder(q, n + 1) /\ q.cnt = m.cnt
      <4> HIDE DEF m, n
      <4> QED
        BY <1>1, <3>1, <3>2, RearmKeeps
    <3>4. Become(q)
      BY <2>7
    <3> HIDE DEF q, m
    <3>5. entered' = q.cnt + (n + 1) /\ entered' \in 0..MaxPackets
      BY <1>1, <1>3, <2>3, <2>7, <3>1, <3>2, <3>3, SMTT(60)
    <3> HIDE DEF n, r, p, w, k
    <3> QED
      BY <1>1, <1>4, <2>5, <2>7, <3>1, <3>3, <3>4, <3>5, RingStep
  <2> QED
    BY <2>1, <2>6, <2>7
<1> QED
  BY <1>6, <1>7

LEMMA TickIInv == IInv /\ Tick => IInv'
<1> SUFFICES ASSUME IInv, Tick
             PROVE  IInv'
  OBVIOUS
<1>1. /\ now' = now + 1 /\ now \in 0..MaxTime /\ now' \in 0..MaxTime /\ events[now] = 0
      /\ UNCHANGED <<reentrant, events, inflight, nextInsert, nextPop, count, size,
                     entered, out>>
  BY DEF IInv, TypeOK, Tick
<1>2. RingOK(Ring) /\ InOrder(Ring, Len(out)) /\ (~reentrant => Woken(Ring) /\ NotLate(Ring))
  BY DEF IInv
<1>3. Ring' = Ring /\ Ring.ev = events
  BY <1>1 DEF Ring
<1> DEFINE r == Ring
<1>4. r.cnt \in Nat /\ \A i \in 1..r.cnt : At(r, i).time \in Nat
  <2>1. r.cnt \in Nat
    BY <1>2 DEF RingOK
  <2> HIDE DEF r
  <2> QED
    BY <1>2, <2>1, InFlightTypes DEF Entry, Times, r
<1>5. RingOK(Ring)'
  BY <1>2, <1>3 DEF RingOK, At, Cell, Entry, Times
<1>6. InOrder(Ring, Len(out))'
  <2>1. \A i \in 1..r.cnt : At(r, i).time <= now' + Delay
    BY <1>1, <1>2, <1>4 DEF InOrder
  <2> HIDE DEF r
  <2> QED
    BY <1>1, <1>2, <1>3, <2>1 DEF InOrder, At, Cell, r
<1>7. (~reentrant => Woken(Ring) /\ NotLate(Ring))'
  <2> SUFFICES ASSUME ~reentrant
               PROVE  (Woken(Ring) /\ NotLate(Ring))'
    BY <1>1
  <2>1. Woken(Ring)'
    BY <1>2, <1>3 DEF Woken, At, Cell, Times
  <2>2. r.cnt > 0 => now' <= At(r, 1).time
    <3> SUFFICES ASSUME r.cnt > 0
                 PROVE  now' <= At(r, 1).time
      OBVIOUS
    <3>1. now <= At(r, 1).time /\ At(r, 1).time \in Nat
      BY <1>2, <1>4 DEF NotLate
    <3>2. now # At(r, 1).time
      BY <1>1, <1>2, <1>3 DEF Woken, Times
    <3> QED
      BY <1>1, <3>1, <3>2
  <2>3. NotLate(Ring)'
    BY <1>3, <2>2 DEF NotLate, At, Cell
  <2> QED
    BY <2>1, <2>3
<1>8. AllThere' /\ TypeOK'
  BY <1>1 DEF IInv, AllThere, TypeOK, Times
<1> QED
  BY <1>5, <1>6, <1>7, <1>8 DEF IInv

LEMMA StutterIInv == IInv /\ UNCHANGED vars => IInv'
<1> SUFFICES ASSUME IInv, UNCHANGED vars
             PROVE  IInv'
  OBVIOUS
<1> USE DEF vars
<1>1. Ring' = Ring
  BY DEF Ring
<1>2. RingOK(Ring) /\ InOrder(Ring, Len(out)) /\ (~reentrant => Woken(Ring) /\ NotLate(Ring))
  BY DEF IInv
<1>3. RingOK(Ring)' /\ InOrder(Ring, Len(out))'
  BY <1>1, <1>2, ZenonT(60) DEF RingOK, At, Cell, Entry, Times, InOrder
<1>4. (~reentrant => Woken(Ring) /\ NotLate(Ring))'
  BY <1>1, <1>2 DEF Woken, NotLate, At, Cell, Times
<1>5. AllThere' /\ TypeOK'
  BY DEF IInv, AllThere, TypeOK, Times
<1> QED
  BY <1>3, <1>4, <1>5 DEF IInv

\* The inductive invariant holds of every behaviour of the pipe.
THEOREM PipeInvariance == Spec => []IInv
<1>1. IInv /\ [Next]_vars => IInv'
  BY ReceivePacketIInv, DoNextEventIInv, TickIInv, StutterIInv DEF Next
<1> QED
  BY InitIInv, <1>1, PTL DEF Spec

\* Every variable keeps its type: the ring keeps a cell free, and a wake-up is never
\* taken from a time that has none (Pipe::receivePacket and doNextEvent).
THEOREM PipeTypeCorrect == Spec => []TypeOK
<1>1. IInv => TypeOK
  BY DEF IInv
<1> QED
  BY PipeInvariance, <1>1, PTL

\* A pipe to whose next hop nothing comes back has exactly one wake-up pending, when
\* the oldest packet in flight is due, and none when it is empty (_count == 0 in
\* Pipe::receivePacket and the end of doNextEvent).
THEOREM OneWakeupAtATime == Spec => []OneWakeup
<1>1. IInv => OneWakeup
  <2> SUFFICES ASSUME IInv, ~reentrant
               PROVE  /\ \A t \in Times : events[t] <= 1
                      /\ Pending = IF count = 0 THEN {} ELSE {inflight[nextPop].time}
    BY DEF OneWakeup
  <2>1. /\ RingOK(Ring) /\ Woken(Ring) /\ nextPop \in 0..(size - 1) /\ size \in Nat
        /\ count \in Nat
    BY DEF IInv, TypeOK
  <2>2. Ring.ev = events /\ Ring.cnt = count
    BY DEF Ring
  <2>3. At(Ring, 1) = inflight[nextPop]
    <3>1. Cell(nextPop, 1, size) = nextPop
      BY <2>1 DEF Cell
    <3> QED
      BY <3>1 DEF At, Ring
  <2>4. \A t \in Times :
          events[t] = IF count > 0 /\ t = inflight[nextPop].time THEN 1 ELSE 0
    BY <2>1, <2>2, <2>3 DEF Woken
  <2>5. count > 0 => inflight[nextPop].time \in Times
    BY <2>1, <2>2, <2>3, InFlightTypes DEF Entry
  <2> QED
    BY <2>1, <2>4, <2>5 DEF Pending
<1> QED
  BY PipeInvariance, <1>1, PTL

\* Whatever the next hop hands back, and however often the ring has grown and wrapped,
\* packets leave in the order they came, and those that have not left are in flight,
\* in that order: none is lost, repeated or overtaken.
THEOREM NothingLostOrReordered ==
    Spec => [](/\ \A i \in DOMAIN out : out[i].pkt = i
               /\ \A i \in 1..count : InFlight[i].pkt = Len(out) + i
               /\ entered = count + Len(out))
<1>1. IInv => /\ \A i \in DOMAIN out : out[i].pkt = i
              /\ \A i \in 1..count : InFlight[i].pkt = Len(out) + i
              /\ entered = count + Len(out)
  <2> HAVE IInv
  <2>1. \A i \in 1..count : InFlight[i] = At(Ring, i)
    BY FlightOfRing DEF IInv, Flight, Ring
  <2>2. \A i \in 1..count : At(Ring, i).pkt = Len(out) + i
    BY DEF IInv, InOrder, Ring
  <2> QED
    BY <2>1, <2>2 DEF IInv, AllThere
<1> QED
  BY PipeInvariance, <1>1, PTL

-----------------------------------------------------------------------------
(* The delay line *)

\* What left, as the delay line has it.
Left == [i \in DOMAIN out |-> [pkt |-> out[i].pkt, at |-> out[i].at]]

\* A packet received comes last in the sequence of those in flight.
LEMMA FlightReceived ==
    ASSUME NEW r, RingOK(r), NEW k, NEW q, Received(r, k, q)
    PROVE  Flight(q) = Append(Flight(r), [pkt |-> k, time |-> now + Delay])
<1> DEFINE c == r.cnt
           e == [pkt |-> k, time |-> now + Delay]
           f == Flight(r)
           g == Flight(q)
<1>1. c \in Nat
  BY DEF RingOK
<1>2. /\ q.cnt = c + 1 /\ At(q, c + 1) = e
      /\ \A i \in 1..c : At(q, i) = At(r, i)
  BY DEF Received
<1>3. f = [i \in 1..c |-> At(r, i)] /\ g = [i \in 1..(c + 1) |-> At(q, i)]
  BY <1>2 DEF Flight
<1> HIDE DEF c, e, f, g
<1>4. Append(f, e) = [i \in 1..(c + 1) |-> IF i <= c THEN f[i] ELSE e]
  BY <1>1, <1>3
<1>5. \A i \in 1..(c + 1) : At(q, i) = IF i <= c THEN f[i] ELSE e
  BY <1>1, <1>2, <1>3
<1>6. g = Append(f, e)
  BY <1>3, <1>4, <1>5
<1> QED
  BY <1>6 DEF f, g, e

\* The initial state is the delay line's.
LEMMA InitRefines == Init => Line!Init
<1> SUFFICES ASSUME Init
             PROVE  Line!Init
  OBVIOUS
<1>1. InFlight = <<>>
  BY DEF Init, InFlight
<1>2. Left = <<>>
  BY DEF Init, Left
<1> QED
  BY <1>1, <1>2 DEF Init, Line!Init, Left

LEMMA FlightOfIInv == IInv => InFlight = Flight(Ring)
  BY FlightOfRing DEF IInv

\* receivePacket is Enter.
LEMMA ReceivePacketRefines == IInv /\ IInv' /\ ReceivePacket => Line!Next
<1> SUFFICES ASSUME IInv, IInv', ReceivePacket
             PROVE  Line!Next
  OBVIOUS
<1> DEFINE k == entered + 1
           q == Receive(Ring, k)
           n == Len(out)
<1>1. /\ RingOK(Ring) /\ now \in 0..MaxTime /\ n \in Nat /\ entered \in 0..MaxPackets
      /\ entered = count + n /\ count \in Nat /\ Ring.cnt = count
      /\ out \in Seq([pkt : 1..MaxPackets, due : Times, at : Times])
  BY DEF IInv, TypeOK, AllThere, Ring
<1>2. k \in 1..MaxPackets /\ Become(q) /\ UNCHANGED <<now, out>>
  BY <1>1 DEF ReceivePacket, MayEnter
<1>3. Received(Ring, k, q)
  <2> HIDE DEF k
  <2> QED
    BY <1>1, <1>2, ReceiveRing
<1>4. Flight(q) = Append(Flight(Ring), [pkt |-> k, time |-> now + Delay])
  <2> HIDE DEF k, q
  <2> QED
    BY <1>1, <1>3, FlightReceived
<1>5. RingOK(q)
  BY <1>3 DEF Received
<1>6. InFlight = Flight(Ring) /\ InFlight' = Flight(q)
  <2> HIDE DEF q
  <2>1. Ring' = q
    BY <1>2, <1>5, Becoming
  <2>2. InFlight' = Flight(Ring')
    <3>1. (InFlight = Flight(Ring))'
      BY FlightOfIInv, PTL
    <3> QED
      BY <3>1 DEF Flight, At, Cell
  <2> QED
    BY <1>1, <2>1, <2>2, FlightOfRing
<1>7. Len(InFlight) = count
  BY <1>1 DEF InFlight
<1>8. Len(Left) = n
  BY <1>1 DEF Left
<1>9. Left' = Left
  BY <1>2 DEF Left
<1>10. k = Len(InFlight) + Len(Left) + 1
  BY <1>1, <1>7, <1>8
<1>11. InFlight' = Append(InFlight, [pkt |-> k, time |-> now + Delay])
  BY <1>4, <1>6
<1> HIDE DEF k
<1>12. Line!Enter(k)
  BY <1>2, <1>9, <1>10, <1>11 DEF Line!Enter, Left
<1> QED
  BY <1>2, <1>12 DEF Line!Next

\* The oldest packet that leaves is the first of the sequence of those in flight.
LEMMA FlightLeft ==
    ASSUME NEW r, RingOK(r), NEW n \in Nat, InOrder(r, n), now \in Times,
           r.ev[now] > 0, Woken(r), NotLate(r)
    PROVE  LET q == Rearm(Popped(WokenUp(r)))
           IN  RingOK(q) /\ Flight(r) # <<>> /\ Head(Flight(r)) = At(r, 1)
               /\ Head(Flight(r)).time = now /\ Flight(q) = Tail(Flight(r))
<1> DEFINE w == WokenUp(r)
           p == Popped(w)
           q == Rearm(p)
           c == r.cnt
           f == Flight(r)
           g == Flight(q)
<1>1. c > 0 /\ At(r, 1).time = now
  BY NextWakeUp
<1>2. /\ RingOK(w) /\ InOrder(w, n) /\ w.cnt = c
      /\ \A i \in 1..c : At(w, i) = At(r, i)
  BY WakeKeeps
<1> HIDE DEF w
<1>3. /\ RingOK(p) /\ InOrder(p, n + 1) /\ p.cnt = w.cnt - 1
      /\ \A i \in 1..(w.cnt - 1) : At(p, i) = At(w, i + 1)
  BY <1>1, <1>2, PopKeeps
<1> HIDE DEF p
<1>4. /\ RingOK(q) /\ q.cnt = p.cnt
      /\ \A i \in 1..p.cnt : At(q, i) = At(p, i)
  BY <1>3, RearmKeeps, n + 1 \in Nat
<1>5. c \in Nat
  BY DEF RingOK
<1> HIDE DEF q
<1>6. f = [i \in 1..c |-> At(r, i)] /\ g = [i \in 1..(c - 1) |-> At(q, i)]
  BY <1>2, <1>3, <1>4 DEF Flight
<1> HIDE DEF c, f, g
<1>7. \A i \in 1..(c - 1) : At(q, i) = At(r, i + 1)
  <2> TAKE i \in 1..(c - 1)
  <2>1. i + 1 \in 1..c
    BY <1>5
  <2> QED
    BY <1>2, <1>3, <1>4, <2>1
<1>8. f # <<>> /\ Head(f) = At(r, 1)
  BY <1>1, <1>5, <1>6
<1>9. Tail(f) = [i \in 1..(c - 1) |-> f[i + 1]]
  BY <1>1, <1>5, <1>6
<1>10. \A i \in 1..(c - 1) : f[i + 1] = At(r, i + 1)
  BY <1>5, <1>6
<1>11. g = Tail(f)
  <2>1. \A i \in 1..(c - 1) : At(q, i) = f[i + 1]
    BY <1>7, <1>10, Zenon
  <2>2. [i \in 1..(c - 1) |-> At(q, i)] = [i \in 1..(c - 1) |-> f[i + 1]]
    BY <2>1
  <2> QED
    BY <1>6, <1>9, <2>2, Zenon
<1> QED
  BY <1>1, <1>4, <1>8, <1>11 DEF q, p, w, f, g

\* doNextEvent, when nothing comes back, is Leave.
LEMMA DoNextEventRefines == IInv /\ IInv' /\ ~reentrant /\ DoNextEvent => Line!Next
<1> SUFFICES ASSUME IInv, IInv', ~reentrant, DoNextEvent
             PROVE  Line!Next
  OBVIOUS
<1> DEFINE n == Len(out)
           r == Ring
           w == WokenUp(r)
           p == Popped(w)
           q == Rearm(p)
           gone == [pkt |-> inflight[nextPop].pkt, due |-> inflight[nextPop].time,
                    at |-> now]
           left == [pkt |-> inflight[nextPop].pkt, at |-> now]
<1>1. /\ RingOK(r) /\ InOrder(r, n) /\ now \in Times /\ n \in Nat
      /\ Woken(r) /\ NotLate(r) /\ nextPop \in 0..(size - 1) /\ size \in Nat
      /\ out \in Seq([pkt : 1..MaxPackets, due : Times, at : Times])
  <2>1. RingOK(r) /\ InOrder(r, n) /\ Woken(r) /\ NotLate(r)
    BY DEF IInv
  <2>2. /\ now \in Times /\ nextPop \in 0..(size - 1) /\ size \in Nat
        /\ out \in Seq([pkt : 1..MaxPackets, due : Times, at : Times])
    BY DEF IInv, TypeOK, Times
  <2>3. n \in Nat
    BY <2>2
  <2> QED
    BY <2>1, <2>2, <2>3
<1>2. /\ r.cnt = count /\ r.sz = size /\ r.ev = events /\ r.vec = inflight
      /\ r.pop = nextPop
  BY DEF Ring
<1>3. r.ev[now] > 0
  BY <1>2 DEF DoNextEvent
<1>4. r.cnt > 0 /\ w.sz = r.sz
  <2> HIDE DEF r, n
  <2> QED
    BY <1>1, <1>3, NextWakeUp, WakeKeeps
<1>5. out' = Append(out, gone) /\ Become(q) /\ now' = now
  <2>1. p = [[Ring EXCEPT !.ev[now] = @ - 1] EXCEPT !.pop = (@ + 1) % size, !.cnt = @ - 1]
    BY <1>2, <1>4 DEF Popped, WokenUp
  <2>2. count # 0
    BY <1>2, <1>4
  <2> HIDE DEF p
  <2> QED
    BY <2>1, <2>2 DEF DoNextEvent
<1>6. /\ RingOK(q) /\ Flight(r) # <<>> /\ Head(Flight(r)) = At(r, 1)
      /\ Head(Flight(r)).time = now /\ Flight(q) = Tail(Flight(r))
  <2> HIDE DEF r, n
  <2> QED
    BY <1>1, <1>3, FlightLeft
<1>7. InFlight = Flight(r) /\ InFlight' = Flight(q)
  <2> HIDE DEF q
  <2>1. Ring' = q
    BY <1>5, <1>6, Becoming
  <2>2. (InFlight = Flight(Ring))'
    BY FlightOfIInv, PTL
  <2>3. InFlight' = Flight(Ring')
    BY <2>2 DEF Flight, At, Cell
  <2> QED
    BY <2>1, <2>3, FlightOfIInv
<1>8. At(r, 1) = inflight[nextPop]
  <2>1. Cell(nextPop, 1, size) = nextPop
    BY <1>1 DEF Cell
  <2> QED
    BY <1>2, <2>1 DEF At
<1>9. Left' = Append(Left, left)
  <2> HIDE DEF gone, left
  <2>1. /\ DOMAIN out' = 1..(n + 1) /\ DOMAIN out = 1..n
        /\ out'[n + 1] = gone /\ \A i \in 1..n : out'[i] = out[i]
    BY <1>1, <1>5
  <2>2. /\ Left = [i \in 1..n |-> [pkt |-> out[i].pkt, at |-> out[i].at]]
        /\ Left' = [i \in 1..(n + 1) |-> [pkt |-> out'[i].pkt, at |-> out'[i].at]]
    BY <2>1 DEF Left
  <2>3. [pkt |-> gone.pkt, at |-> gone.at] = left
    BY DEF gone, left
  <2> HIDE DEF n
  <2>4. Append(Left, left) = [i \in 1..(n + 1) |-> IF i <= n THEN Left[i] ELSE left]
    BY <1>1, <2>2
  <2>5. \A i \in 1..(n + 1) :
          [pkt |-> out'[i].pkt, at |-> out'[i].at] = IF i <= n THEN Left[i] ELSE left
    BY <1>1, <2>1, <2>2, <2>3, SMTT(60)
  <2> QED
    BY <2>2, <2>4, <2>5
<1>10. left = [pkt |-> Head(InFlight).pkt, at |-> now]
  BY <1>6, <1>7, <1>8
<1>11. Line!Leave
  <2> HIDE DEF r, q, left
  <2> QED
    BY <1>5, <1>6, <1>7, <1>9, <1>10 DEF Line!Leave, Left
<1> QED
  BY <1>11 DEF Line!Next

\* Time passes.
LEMMA TickRefines == IInv /\ ~reentrant /\ Tick => Line!Next
<1> SUFFICES ASSUME IInv, ~reentrant, Tick
             PROVE  Line!Next
  OBVIOUS
<1>1. /\ now' = now + 1 /\ events[now] = 0 /\ UNCHANGED <<InFlight, Left>>
  BY DEF Tick, InFlight, Left
<1>2. /\ RingOK(Ring) /\ Woken(Ring) /\ NotLate(Ring) /\ now \in Times /\ now \in Nat
      /\ Ring.ev = events /\ Ring.cnt = count /\ count \in Nat
  BY DEF IInv, TypeOK, Times, Ring
<1>3. InFlight = [i \in 1..count |-> At(Ring, i)]
  BY <1>2, FlightOfIInv DEF Flight
<1>4. InFlight # <<>> => Head(InFlight).time > now
  <2> SUFFICES ASSUME InFlight # <<>>
               PROVE  Head(InFlight).time > now
    OBVIOUS
  <2>1. count > 0 /\ 1 \in 1..count
    BY <1>2, <1>3
  <2>2. Head(InFlight) = At(Ring, 1)
    BY <1>3, <2>1
  <2>3. At(Ring, 1) \in Entry
    BY <1>2, <2>1, InFlightTypes
  <2>4. At(Ring, 1).time \in Nat /\ now <= At(Ring, 1).time
    BY <1>2, <2>1, <2>3 DEF NotLate, Entry, Times
  <2>5. now # At(Ring, 1).time
    BY <1>1, <1>2, <2>1 DEF Woken
  <2> QED
    BY <1>2, <2>2, <2>4, <2>5
<1>5. Line!Tick
  BY <1>1, <1>4 DEF Line!Tick, Left
<1> QED
  BY <1>5 DEF Line!Next

\* A pipe to whose next hop nothing comes back is a delay line: packets leave in the
\* order they came, each exactly _delay after it came, none lost or repeated, although
\* the ring wraps and grows (Pipe::receivePacket and Pipe::doNextEvent).
THEOREM PipeIsADelayLine == Spec => ImplementsDelayLine
<1>1. IInv /\ IInv' /\ [Next]_vars => [reentrant \/ Line!Next]_(Line!vars)
  <2> SUFFICES ASSUME IInv, IInv', [Next]_vars, ~reentrant
               PROVE  Line!Next \/ UNCHANGED Line!vars
    OBVIOUS
  <2>1. CASE ReceivePacket
    BY <2>1, ReceivePacketRefines
  <2>2. CASE DoNextEvent
    BY <2>2, DoNextEventRefines
  <2>3. CASE Tick
    BY <2>3, TickRefines
  <2>4. CASE UNCHANGED vars
    BY <2>4 DEF vars, Line!vars, InFlight
  <2> QED
    BY <2>1, <2>2, <2>3, <2>4 DEF Next
<1> QED
  BY InitRefines, PipeInvariance, <1>1, PTL DEF Spec, ImplementsDelayLine

-----------------------------------------------------------------------------
(* Whatever the next hop hands back *)

\* While packets are in flight the oldest is not overdue, and a wake-up is pending
\* at the time it is due.
Watched ==
    count > 0 => /\ now <= inflight[nextPop].time
                 /\ events[inflight[nextPop].time] > 0

\* No packet has left later than _delay after it came.
NeverLate == \A i \in DOMAIN out : out[i].at <= out[i].due

\* The same of ring r.
Due(r) == r.cnt > 0 => r.ev[At(r, 1).time] > 0

AwakeInv == NotLate(Ring) /\ Due(Ring) /\ NeverLate

\* The oldest packet in flight.
LEMMA Oldest ==
    ASSUME RingOK(Ring), nextPop \in 0..(size - 1), size \in Nat
    PROVE  /\ At(Ring, 1) = inflight[nextPop]
           /\ Ring.cnt = count /\ Ring.ev = events
<1>1. Cell(nextPop, 1, size) = nextPop
  BY DEF Cell
<1> QED
  BY <1>1 DEF At, Ring

\* A packet that is received is due in time, and is watched if it is alone.
LEMMA ReceiveWatches ==
    ASSUME NEW r, RingOK(r), NEW n \in Nat, InOrder(r, n), now \in 0..MaxTime, NotLate(r),
           NEW k \in 1..MaxPackets, k = n + r.cnt + 1,
           NEW q, q = Receive(r, k)
    PROVE  NotLate(q) /\ (Due(r) => Due(q))
<1>1. Received(r, k, q)
  BY ReceiveRing, Zenon
<1>2. /\ q.cnt = r.cnt + 1
      /\ q.ev = IF r.cnt = 0 THEN [r.ev EXCEPT ![now + Delay] = @ + 1] ELSE r.ev
      /\ \A i \in 1..r.cnt : At(q, i) = At(r, i)
      /\ At(q, r.cnt + 1) = [time |-> now + Delay, pkt |-> k]
  BY <1>1 DEF Received
<1>3. r.cnt \in Nat /\ r.ev \in [Times -> Nat] /\ now + Delay \in Times
  <2>1. r.cnt \in Nat /\ r.ev \in [Times -> Nat]
    BY DEF RingOK
  <2>2. now + Delay \in Times
    BY DEF Times
  <2> QED
    BY <2>1, <2>2
<1>4. CASE r.cnt = 0
  <2>1. At(q, 1).time = now + Delay /\ q.ev = [r.ev EXCEPT ![now + Delay] = @ + 1]
    BY <1>2, <1>4
  <2>2. q.ev[now + Delay] > 0
    BY <1>3, <2>1
  <2> QED
    BY <2>1, <2>2 DEF NotLate, Due
<1>5. CASE r.cnt # 0
  <2>1. At(q, 1) = At(r, 1) /\ q.ev = r.ev /\ r.cnt > 0
    BY <1>2, <1>3, <1>5
  <2> QED
    BY <2>1 DEF NotLate, Due
<1> QED
  BY <1>4, <1>5

\* doNextEvent leaves the next packet watched when it returns.
LEMMA RearmWatches ==
    ASSUME NEW r, RingOK(r), NEW n \in Nat, InOrder(r, n), NotLate(r)
    PROVE  NotLate(Rearm(r)) /\ Due(Rearm(r))
<1> DEFINE q == Rearm(r)
           u == At(r, 1).time
<1>1. /\ q.cnt = r.cnt
      /\ q.ev = IF r.cnt > 0 THEN [r.ev EXCEPT ![u] = @ + 1] ELSE r.ev
      /\ \A i \in 1..r.cnt : At(q, i) = At(r, i)
  BY RearmKeeps
<1>2. r.cnt \in Nat /\ r.ev \in [Times -> Nat]
  BY DEF RingOK
<1>3. r.cnt > 0 => u \in Times /\ At(q, 1) = At(r, 1)
  BY <1>1, <1>2, InFlightTypes DEF Entry
<1> HIDE DEF q
<1>4. ASSUME r.cnt > 0
      PROVE  now <= At(q, 1).time /\ q.ev[At(q, 1).time] > 0
  <2>1. At(q, 1).time = u /\ u \in Times /\ q.ev = [r.ev EXCEPT ![u] = @ + 1] /\ now <= u
    BY <1>1, <1>3, <1>4 DEF NotLate
  <2> HIDE DEF u
  <2> QED
    BY <1>2, <2>1
<1> QED
  BY <1>1, <1>4 DEF NotLate, Due, q

\* The packet behind the one that leaves is not overdue either.
LEMMA PopNotLate ==
    ASSUME NEW r, RingOK(r), NEW n \in Nat, InOrder(r, n), r.cnt > 0, NotLate(r), now \in Nat
    PROVE  NotLate(Popped(r))
<1>1. /\ Popped(r).cnt = r.cnt - 1
      /\ \A i \in 1..(r.cnt - 1) : At(Popped(r), i) = At(r, i + 1)
  BY PopKeeps
<1>2. r.cnt \in Nat
  BY DEF RingOK
<1>3. ASSUME r.cnt - 1 > 0
      PROVE  now <= At(Popped(r), 1).time
  <2>1. 1 \in 1..(r.cnt - 1) /\ 1 \in 1..r.cnt /\ 2 \in 1..r.cnt
    BY <1>2, <1>3
  <2>2. At(r, 1).time <= At(r, 2).time
    BY <2>1 DEF InOrder
  <2>3. At(r, 1).time \in Nat /\ At(r, 2).time \in Nat
    BY <2>1, InFlightTypes DEF Entry, Times
  <2>4. At(Popped(r), 1) = At(r, 2)
    BY <1>1, <2>1
  <2>5. now <= At(r, 1).time
    BY SMTT(60) DEF NotLate
  <2> QED
    BY <2>2, <2>3, <2>4, <2>5
<1> QED
  BY <1>1, <1>3 DEF NotLate

\* A step that makes the ring q.
LEMMA AwakeRing ==
    ASSUME NEW q, RingOK(q), Become(q), now' = now, NotLate(q), Due(q), NeverLate'
    PROVE  AwakeInv'
<1>1. Ring' = q
  BY Becoming
<1> QED
  BY <1>1 DEF AwakeInv, NotLate, Due, At, Cell

LEMMA ReceivePacketAwake == IInv /\ AwakeInv /\ ReceivePacket => AwakeInv'
<1> SUFFICES ASSUME IInv, AwakeInv, ReceivePacket
             PROVE  AwakeInv'
  OBVIOUS
<1> DEFINE n == Len(out)
           k == entered + 1
           q == Receive(Ring, k)
<1>1. /\ RingOK(Ring) /\ InOrder(Ring, n) /\ now \in 0..MaxTime /\ n \in Nat
      /\ entered \in 0..MaxPackets /\ entered = Ring.cnt + n
      /\ NotLate(Ring) /\ Due(Ring) /\ NeverLate
  BY DEF IInv, TypeOK, AllThere, Ring, AwakeInv
<1>2. k \in 1..MaxPackets /\ Ring.cnt \in Nat /\ k = n + Ring.cnt + 1
  BY <1>1, SMTT(60) DEF ReceivePacket, MayEnter, RingOK
<1>3. Become(q) /\ UNCHANGED <<now, out>>
  BY DEF ReceivePacket
<1> HIDE DEF n
<1>4. RingOK(q) /\ NotLate(q) /\ Due(q)
  <2> HIDE DEF k
  <2> QED
    BY <1>1, <1>2, ReceiveKeeps, ReceiveWatches
<1>5. NeverLate'
  BY <1>1, <1>3 DEF NeverLate
<1> HIDE DEF q
<1> QED
  BY <1>3, <1>4, <1>5, AwakeRing

LEMMA DoNextEventAwake == IInv /\ AwakeInv /\ DoNextEvent => AwakeInv'
<1> SUFFICES ASSUME IInv, AwakeInv, DoNextEvent
             PROVE  AwakeInv'
  OBVIOUS
<1> DEFINE n == Len(out)
           r == Ring
           w == WokenUp(r)
           p == Popped(w)
           k == entered + 1
           gone == [pkt |-> inflight[nextPop].pkt, due |-> inflight[nextPop].time,
                    at |-> now]
<1>1. /\ RingOK(r) /\ InOrder(r, n) /\ now \in 0..MaxTime /\ n \in Nat
      /\ entered \in 0..MaxPackets /\ entered = r.cnt + n
      /\ nextPop \in 0..(size - 1) /\ size \in Nat
      /\ out \in Seq([pkt : 1..MaxPackets, due : Times, at : Times])
      /\ NotLate(r) /\ Due(r) /\ NeverLate
  BY DEF IInv, TypeOK, AllThere, Ring, AwakeInv
<1>2. /\ r.cnt = count /\ r.ev = events /\ r.sz = size /\ At(r, 1) = inflight[nextPop]
  BY <1>1, Oldest DEF Ring
<1>3. r.cnt \in Nat /\ now \in Times
  <2>1. r.cnt \in Nat
    BY <1>1 DEF RingOK
  <2>2. now \in Times
    BY DEF IInv, TypeOK, Times
  <2> QED
    BY <2>1, <2>2
<1>4. r.ev[now] > 0 /\ now' = now
  BY <1>2 DEF DoNextEvent
<1>5. /\ RingOK(w) /\ InOrder(w, n) /\ w.cnt = r.cnt /\ w.sz = r.sz
      /\ \A i \in 1..r.cnt : At(w, i) = At(r, i)
  <2> HIDE DEF r, n
  <2> QED
    BY <1>1, <1>3, <1>4, WakeKeeps
<1>6. CASE count = 0
  <2>1. Become(w) /\ out' = out
    BY <1>6 DEF DoNextEvent, WokenUp
  <2>2. NotLate(w) /\ Due(w)
    BY <1>2, <1>5, <1>6 DEF NotLate, Due
  <2>3. NeverLate'
    BY <1>1, <2>1 DEF NeverLate
  <2> HIDE DEF w
  <2> QED
    BY <1>4, <1>5, <2>1, <2>2, <2>3, AwakeRing
<1>7. CASE count # 0
  <2>1. /\ out' = Append(out, gone)
        /\ \/ Become(Rearm(p))
           \/ MayEnter /\ Become(Rearm(Receive(p, k)))
    <3>1. p = [[Ring EXCEPT !.ev[now] = @ - 1] EXCEPT !.pop = (@ + 1) % size, !.cnt = @ - 1]
      BY <1>2, <1>5 DEF Popped, WokenUp
    <3> HIDE DEF p
    <3> QED
      BY <1>7, <3>1 DEF DoNextEvent
  <2>2. w.cnt > 0 /\ r.cnt > 0 /\ At(w, 1) = At(r, 1)
    BY <1>2, <1>3, <1>5, <1>7
  <2>3. NotLate(w)
    BY <1>1, <1>5, <2>2 DEF NotLate
  <2>4. /\ RingOK(p) /\ InOrder(p, n + 1) /\ p.cnt = r.cnt - 1 /\ NotLate(p)
    <3> HIDE DEF w, n
    <3>1. now \in Nat
      BY <1>1
    <3> QED
      BY <1>1, <1>5, <2>2, <2>3, <3>1, PopKeeps, PopNotLate
  <2>5. NeverLate'
    <3>1. gone.at <= gone.due
      BY <1>1, <1>2, <2>2 DEF NotLate
    <3> HIDE DEF gone
    <3>2. /\ DOMAIN out' = 1..(n + 1) /\ out'[n + 1] = gone
          /\ \A i \in 1..n : out'[i] = out[i] /\ i \in DOMAIN out
      BY <1>1, <2>1
    <3>3. \A i \in 1..(n + 1) : i \in 1..n \/ i = n + 1
      BY <1>1
    <3> HIDE DEF n
    <3> QED
      BY <1>1, <3>1, <3>2, <3>3 DEF NeverLate
  <2>6. CASE Become(Rearm(p))
    <3> DEFINE q == Rearm(p)
    <3>1. RingOK(q) /\ NotLate(q) /\ Due(q)
      <4> HIDE DEF p, n
      <4> QED
        BY <1>1, <2>4, RearmKeeps, RearmWatches, n + 1 \in Nat
    <3> HIDE DEF q
    <3> QED
      BY <1>4, <2>5, <2>6, <3>1, AwakeRing DEF q
  <2>7. CASE MayEnter /\ Become(Rearm(Receive(p, k)))
    <3> DEFINE m == Receive(p, k)
               q == Rearm(m)
    <3>1. k \in 1..MaxPackets /\ k = (n + 1) + p.cnt + 1 /\ n + 1 \in Nat
      <4>1. /\ entered < MaxPackets /\ entered \in Nat /\ entered = r.cnt + n
            /\ p.cnt = r.cnt - 1 /\ n \in Nat /\ r.cnt \in Nat
        BY <1>1, <1>3, <2>4, <2>7 DEF MayEnter
      <4> HIDE DEF n, r, p
      <4> QED
        BY <4>1
    <3>2. RingOK(m) /\ InOrder(m, n + 1) /\ NotLate(m)
      <4> HIDE DEF p, n, k
      <4> QED
        BY <1>1, <2>4, <3>1, ReceiveKeeps, ReceiveWatches
    <3>3. RingOK(q) /\ NotLate(q) /\ Due(q)
      <4> HIDE DEF m, n
      <4> QED
        BY <3>1, <3>2, RearmKeeps, RearmWatches
    <3> HIDE DEF q
    <3> QED
      BY <1>4, <2>5, <2>7, <3>3, AwakeRing DEF q
  <2> QED
    BY <2>1, <2>6, <2>7
<1> QED
  BY <1>6, <1>7

\* Time does not go on past a wake-up.
LEMMA TickAwake == IInv /\ AwakeInv /\ Tick => AwakeInv'
<1> SUFFICES ASSUME IInv, AwakeInv, Tick
             PROVE  AwakeInv'
  OBVIOUS
<1>1. /\ now' = now + 1 /\ now \in Nat /\ events[now] = 0
      /\ UNCHANGED <<events, inflight, nextInsert, nextPop, count, size, out>>
  BY DEF IInv, TypeOK, Tick
<1>2. RingOK(Ring) /\ NotLate(Ring) /\ Due(Ring) /\ NeverLate
  BY DEF IInv, AwakeInv
<1>3. Ring' = Ring /\ Ring.ev = events
  BY <1>1 DEF Ring
<1>4. ASSUME Ring.cnt > 0
      PROVE  now' <= At(Ring, 1).time
  <2>1. 1 \in 1..Ring.cnt
    BY <1>2, <1>4 DEF RingOK
  <2>2. At(Ring, 1).time \in Nat
    BY <1>2, <2>1, InFlightTypes DEF Entry, Times
  <2>3. now <= At(Ring, 1).time /\ now # At(Ring, 1).time
    BY <1>1, <1>2, <1>3, <1>4 DEF NotLate, Due
  <2> QED
    BY <1>1, <2>2, <2>3
<1>5. NotLate(Ring)' /\ Due(Ring)'
  BY <1>2, <1>3, <1>4 DEF NotLate, Due, At, Cell
<1> QED
  BY <1>1, <1>2, <1>5 DEF AwakeInv, NeverLate

LEMMA AwakePreserved == IInv /\ AwakeInv /\ [Next]_vars => AwakeInv'
<1>1. IInv /\ AwakeInv /\ UNCHANGED vars => AwakeInv'
  <2> SUFFICES ASSUME AwakeInv, UNCHANGED vars
               PROVE  AwakeInv'
    OBVIOUS
  <2>1. Ring' = Ring /\ now' = now /\ out' = out
    BY DEF vars, Ring
  <2> QED
    BY <2>1 DEF AwakeInv, NotLate, Due, At, Cell, NeverLate
<1> QED
  BY <1>1, ReceivePacketAwake, DoNextEventAwake, TickAwake DEF Next

\* Whatever the next hop hands back, no packet is overlooked: a wake-up is pending
\* when the oldest in flight is due, and none leaves later than _delay after it came
\* (the wake-ups of Pipe::receivePacket and doNextEvent add up to one too many, never
\* to one too few).
THEOREM NeverOversleeps == Spec => [](Watched /\ NeverLate)
<1>1. Init => AwakeInv
  BY DEF Init, AwakeInv, NotLate, Due, NeverLate, Ring
<1>2. IInv /\ AwakeInv => Watched /\ NeverLate
  <2> SUFFICES ASSUME IInv, AwakeInv
               PROVE  Watched /\ NeverLate
    OBVIOUS
  <2>1. RingOK(Ring) /\ nextPop \in 0..(size - 1) /\ size \in Nat
    BY DEF IInv, TypeOK
  <2> QED
    BY <2>1, Oldest DEF AwakeInv, NotLate, Due, Watched
<1> QED
  BY <1>1, <1>2, AwakePreserved, PipeInvariance, PTL DEF Spec
==================================================================================
