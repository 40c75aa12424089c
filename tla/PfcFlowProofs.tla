------------------------------ MODULE PfcFlowProofs ------------------------------
(* Proofs about the packets of Pfc and their ways: those of a flow stay in order,   *)
(* none is lost while no host transmits twice at a time, and an input queue counts  *)
(* the bytes of those that came through it.                                         *)
(*                                                                                  *)
(* The packets between a port and the next output are seen as one sequence, the     *)
(* line of the port: what its link and the switch at its end hold, then what the    *)
(* port has in transmission and in its queue. A step moves the first packet of a    *)
(* line to the end of another one, or to the receiver, or leaves the lines alone,   *)
(* but for packets that are dropped or forgotten.                                   *)
EXTENDS PfcProofs, SequenceTheorems

-----------------------------------------------------------------------------
(* Routes *)

\* Set S of ports has with each link the port the link leads to.
Closed(S, d) == S \subseteq Ports /\ \A z \in S \cap Links : Forward[z][d] \in S

LEMMA LinkPorts ==
    /\ Links \subseteq Ports /\ Hosts \subseteq Links /\ Hosts \cap Outputs = {}
    /\ Exits \subseteq Ports /\ Exits \cap Links = {}
    /\ \A z \in Links, d \in Exits : Forward[z][d] \in Outputs /\ Forward[z][d] \in Ports
  BY PfcAssumption DEF Links, Ports

\* A route has where it begins and what its links lead to, and nothing more.
LEMMA RouteClosed ==
    ASSUME NEW d \in Exits, NEW x \in Ports
    PROVE  x \in Route[d][x] /\ Closed(Route[d][x], d)
<1>1. Route[d][x] = {y \in Ports :
          \A S \in SUBSET Ports :
              x \in S /\ (\A z \in S \cap Links : Forward[z][d] \in S) => y \in S}
  BY DEF Route
<1>2. ASSUME NEW z \in Route[d][x] \cap Links
      PROVE  Forward[z][d] \in Route[d][x]
  BY <1>1, LinkPorts
<1> QED
  BY <1>1, <1>2 DEF Closed

LEMMA RouteLeast ==
    ASSUME NEW d \in Exits, NEW x \in Ports, NEW S, x \in S, Closed(S, d)
    PROVE  Route[d][x] \subseteq S
<1>1. Route[d][x] = {y \in Ports :
          \A T \in SUBSET Ports :
              x \in T /\ (\A z \in T \cap Links : Forward[z][d] \in T) => y \in T}
  BY DEF Route
<1>2. S \in SUBSET Ports /\ \A z \in S \cap Links : Forward[z][d] \in S
  BY DEF Closed
<1> QED
  BY <1>1, <1>2

\* y comes after x on the way to exit d.
Beyond(d, x, y) == x \in Links /\ y \in Route[d][Forward[x][d]]

LEMMA RouteOn ==
    ASSUME NEW d \in Exits, NEW x \in Ports, NEW y \in Route[d][x]
    PROVE  /\ y \in Ports /\ Route[d][y] \subseteq Route[d][x]
           /\ y = x \/ Beyond(d, x, y)
<1>1. Closed(Route[d][x], d) /\ y \in Ports
  BY RouteClosed DEF Closed
<1>2. Route[d][y] \subseteq Route[d][x]
  BY <1>1, RouteLeast
<1>3. CASE x \in Links
  <2> DEFINE o == Forward[x][d]
             S == {x} \cup Route[d][o]
  <2>1. o \in Ports
    BY <1>3, LinkPorts
  <2> HIDE DEF o
  <2>2. o \in Route[d][o] /\ Closed(Route[d][o], d)
    BY <2>1, RouteClosed
  <2>3. Closed(S, d)
    BY <2>2 DEF Closed, o
  <2>4. x \in S
    OBVIOUS
  <2> HIDE DEF S
  <2>5. y \in S
    BY <2>3, <2>4, RouteLeast
  <2> QED
    BY <1>1, <1>2, <1>3, <2>5 DEF Beyond, S, o
<1>4. CASE x \notin Links
  <2> DEFINE S == {x}
  <2>1. x \in S /\ Closed(S, d)
    BY <1>4 DEF Closed
  <2>2. y \in S
    BY <2>1, RouteLeast
  <2> QED
    BY <1>1, <1>2, <2>2
<1> QED
  BY <1>3, <1>4

\* What comes after x is not x again.
LEMMA NoWayBack ==
    ASSUME NEW d \in Exits, NEW x \in Ports, Beyond(d, x, x)
    PROVE  FALSE
<1> DEFINE o == Forward[x][d]
           S == {z \in Links : z \in Route[d][o] /\ x \in Route[d][z]}
<1>1. x \in Links /\ x \in Route[d][o] /\ o \in Ports /\ x \in Route[d][x]
  BY LinkPorts, RouteClosed DEF Beyond
<1>2. S \subseteq Links /\ S # {}
  BY <1>1
<1>3. ASSUME NEW z \in S
      PROVE  Forward[z][d] \in S
  <2> DEFINE n == Forward[z][d]
  <2>1. z \in Links /\ z \in Ports /\ z \in Route[d][o] /\ x \in Route[d][z] /\ n \in Ports
    BY LinkPorts
  <2>2. n \in Route[d][o]
    <3> HIDE DEF o
    <3> QED
      BY <1>1, <2>1, RouteClosed DEF Closed
  <2>3. x \in Route[d][n]
    <3>1. x = z \/ Beyond(d, z, x)
      BY <2>1, RouteOn
    <3> QED
      BY <1>1, <3>1 DEF Beyond
  <2>4. n \in Links
    <3>1. x = n \/ Beyond(d, n, x)
      <4> HIDE DEF n
      <4> QED
        BY <2>1, <2>3, RouteOn
    <3> QED
      BY <1>1, <3>1 DEF Beyond
  <2> QED
    BY <2>2, <2>3, <2>4
<1>4. \E z \in S : Forward[z][d] \notin S
  <2> HIDE DEF S
  <2> QED
    BY <1>2, RoutesEnd
<1> QED
  BY <1>3, <1>4

\* What comes after a port that comes after x comes after x.
LEMMA BeyondBeyond ==
    ASSUME NEW d \in Exits, NEW x \in Ports, NEW y \in Ports, NEW z \in Ports,
           Beyond(d, x, y), Beyond(d, y, z)
    PROVE  Beyond(d, x, z)
<1> DEFINE o == Forward[x][d]
           n == Forward[y][d]
<1>1. x \in Links /\ y \in Links /\ o \in Ports /\ n \in Ports
  BY LinkPorts DEF Beyond
<1>2. y \in Route[d][o] /\ z \in Route[d][n]
  BY DEF Beyond
<1> HIDE DEF o
<1>3. n \in Route[d][o]
  BY <1>1, <1>2, RouteClosed DEF Closed
<1> HIDE DEF n
<1>4. z \in Route[d][o]
  BY <1>1, <1>2, <1>3, RouteOn
<1> QED
  BY <1>1, <1>4 DEF Beyond, o

\* Of two ports on a route one comes after the other.
LEMMA OneIsBeyond ==
    ASSUME NEW d \in Exits, NEW h \in Ports, NEW x \in Route[d][h], NEW y \in Route[d][h]
    PROVE  x = y \/ Beyond(d, x, y) \/ Beyond(d, y, x)
<1> DEFINE S == {z \in Route[d][h] : x = z \/ Beyond(d, x, z) \/ Beyond(d, z, x)}
<1>1. h \in Route[d][h] /\ Closed(Route[d][h], d)
  BY RouteClosed
<1>2. h \in S
  <2>1. x = h \/ Beyond(d, h, x)
    BY RouteOn
  <2> QED
    BY <1>1, <2>1
<1>3. ASSUME NEW z \in S \cap Links
      PROVE  Forward[z][d] \in S
  <2> DEFINE n == Forward[z][d]
  <2>1. n \in Ports /\ n \in Route[d][h] /\ n \in Route[d][n]
    BY <1>1, LinkPorts, RouteClosed DEF Closed
  <2>2. CASE x = z
    BY <2>1, <2>2 DEF Beyond
  <2>3. CASE Beyond(d, x, z)
    <3>1. Beyond(d, z, n)
      BY <2>1 DEF Beyond
    <3>2. x \in Ports /\ z \in Ports
      BY <1>1 DEF Closed
    <3> HIDE DEF n
    <3>3. Beyond(d, x, n)
      BY <2>1, <2>3, <3>1, <3>2, BeyondBeyond
    <3>4. n \in S
      BY <2>1, <3>3
    <3> QED
      BY <3>4 DEF n
  <2>4. CASE Beyond(d, z, x)
    <3>1. x \in Route[d][n]
      BY <2>4 DEF Beyond
    <3> HIDE DEF n
    <3>2. x = n \/ Beyond(d, n, x)
      BY <2>1, <3>1, RouteOn
    <3>3. n \in S
      BY <2>1, <3>2
    <3> QED
      BY <3>3 DEF n
  <2> QED
    BY <2>2, <2>3, <2>4
<1>4. Closed(S, d)
  BY <1>1, <1>3 DEF Closed
<1> HIDE DEF S
<1>5. Route[d][h] \subseteq S
  BY <1>2, <1>4, RouteLeast
<1> QED
  BY <1>5 DEF S

\* No two links of a route lead to the same output.
LEMMA OneWayIn ==
    ASSUME NEW d \in Exits, NEW h \in Ports,
           NEW x \in Route[d][h] \cap Links, NEW y \in Route[d][h] \cap Links,
           Forward[x][d] = Forward[y][d]
    PROVE  x = y
<1>1. x \in Ports /\ y \in Ports
  BY LinkPorts
<1>2. Beyond(d, x, y) => Beyond(d, y, y)
  BY DEF Beyond
<1>3. Beyond(d, y, x) => Beyond(d, x, x)
  BY DEF Beyond
<1> QED
  BY <1>1, <1>2, <1>3, OneIsBeyond, NoWayBack

\* No route leads to a host, but from there.
LEMMA NoWayToHosts ==
    ASSUME NEW d \in Exits, NEW x \in Ports, NEW h \in Hosts
    PROVE  ~Beyond(d, x, h)
<1> SUFFICES ASSUME Beyond(d, x, h)
             PROVE  FALSE
  OBVIOUS
<1> DEFINE o == Forward[x][d]
           S == Outputs
<1>1. o \in S /\ o \in Ports /\ h \in Route[d][o]
  BY LinkPorts DEF Beyond
<1>2. Closed(S, d)
  BY LinkPorts DEF Closed, Ports
<1> HIDE DEF o, S
<1>3. h \in S
  BY <1>1, <1>2, RouteLeast
<1> QED
  BY <1>3, LinkPorts DEF S

-----------------------------------------------------------------------------
(* Order *)

\* Packet p comes before packet q in sequence s.
Before(s, p, q) == \E i, j \in DOMAIN s : i < j /\ s[i] = p /\ s[j] = q

\* What is in sequence t is in s, and in the same order.
Follows(t, s) ==
    /\ ToSet(t) \subseteq ToSet(s)
    /\ \A p, q \in Packet : Before(t, p, q) => Before(s, p, q)

\* Sequence s has n elements; c is a and then b; s is h and then r.
Listed(s, n) ==
    /\ \A p : p \in ToSet(s) <=> \E i \in 1..n : s[i] = p
    /\ \A p, q : Before(s, p, q) <=> \E i, j \in 1..n : i < j /\ s[i] = p /\ s[j] = q
Joint(c, a, b) ==
    /\ ToSet(c) = ToSet(a) \cup ToSet(b)
    /\ \A p, q : Before(c, p, q) <=> \/ Before(a, p, q) \/ Before(b, p, q)
                                     \/ p \in ToSet(a) /\ q \in ToSet(b)
Headed(s, h, r) ==
    /\ ToSet(s) = {h} \cup ToSet(r)
    /\ \A p, q : Before(s, p, q) <=> Before(r, p, q) \/ (p = h /\ q \in ToSet(r))

LEMMA ElementsOf ==
    ASSUME NEW S, NEW s \in Seq(S), NEW n, n = Len(s)
    PROVE  Listed(s, n) /\ ToSet(s) \subseteq S
<1>1. DOMAIN s = 1..n /\ \A i \in 1..n : s[i] \in S
  OBVIOUS
<1>2. \A p : p \in ToSet(s) <=> \E i \in 1..n : s[i] = p
  BY <1>1 DEF ToSet
<1>3. \A p, q : Before(s, p, q) <=> \E i, j \in 1..n : i < j /\ s[i] = p /\ s[j] = q
  BY <1>1, Zenon DEF Before
<1> QED
  BY <1>1, <1>2, <1>3 DEF Listed

LEMMA ConcatOrder ==
    ASSUME NEW S, NEW a \in Seq(S), NEW b \in Seq(S)
    PROVE  a \o b \in Seq(S) /\ Joint(a \o b, a, b)
<1> DEFINE c == a \o b
           m == Len(a)
           n == Len(b)
<1>1. /\ c \in Seq(S) /\ Len(c) = m + n
      /\ \A i \in 1..(m + n) : c[i] = IF i <= m THEN a[i] ELSE b[i - m]
  BY ConcatProperties
<1>2. m \in Nat /\ n \in Nat
  BY LenProperties
<1> HIDE DEF c
<1>3. /\ \A i \in 1..m : i \in 1..(m + n) /\ c[i] = a[i]
      /\ \A i \in 1..n : m + i \in 1..(m + n) /\ c[m + i] = b[i]
  <2>1. ASSUME NEW i \in 1..m
        PROVE  i \in 1..(m + n) /\ c[i] = a[i]
    <3>1. i \in 1..(m + n) /\ i <= m
      BY <1>2
    <3> QED
      BY <1>1, <3>1
  <2>2. ASSUME NEW i \in 1..n
        PROVE  m + i \in 1..(m + n) /\ c[m + i] = b[i]
    <3> DEFINE j == m + i
    <3>1. j \in 1..(m + n) /\ ~(j <= m) /\ j - m = i
      BY <1>2
    <3> HIDE DEF j
    <3>2. j \in 1..(m + n) /\ c[j] = b[i]
      BY <1>1, <3>1
    <3> QED
      BY <3>2 DEF j
  <2> QED
    BY <2>1, <2>2
<1>4. \A k \in 1..(m + n) :
          \/ k \in 1..m /\ c[k] = a[k]
          \/ \E i \in 1..n : k = m + i /\ c[k] = b[i]
  <2> TAKE k \in 1..(m + n)
  <2>1. CASE k <= m
    BY <1>1, <1>2, <2>1
  <2>2. CASE ~(k <= m)
    <3>1. k - m \in 1..n /\ k = m + (k - m) /\ c[k] = b[k - m]
      BY <1>1, <1>2, <2>2
    <3> QED
      BY <3>1
  <2> QED
    BY <2>1, <2>2
<1>5. /\ \A p : p \in ToSet(a) <=> \E i \in 1..m : a[i] = p
      /\ \A p, q : Before(a, p, q) <=> \E i, j \in 1..m : i < j /\ a[i] = p /\ a[j] = q
  <2>1. Listed(a, m)
    BY ElementsOf
  <2> QED
    BY <2>1 DEF Listed
<1>6. /\ \A p : p \in ToSet(b) <=> \E i \in 1..n : b[i] = p
      /\ \A p, q : Before(b, p, q) <=> \E i, j \in 1..n : i < j /\ b[i] = p /\ b[j] = q
  <2>1. Listed(b, n)
    BY ElementsOf
  <2> QED
    BY <2>1 DEF Listed
<1>7. /\ \A p : p \in ToSet(c) <=> \E i \in 1..(m + n) : c[i] = p
      /\ \A p, q : Before(c, p, q) <=>
             \E i, j \in 1..(m + n) : i < j /\ c[i] = p /\ c[j] = q
  <2>1. Listed(c, m + n)
    BY <1>1, ElementsOf
  <2> QED
    BY <2>1, Zenon DEF Listed
<1> HIDE DEF m, n
<1>8. ToSet(c) = ToSet(a) \cup ToSet(b)
  <2>1. \A p : p \in ToSet(c) => p \in ToSet(a) \/ p \in ToSet(b)
    BY <1>4, <1>5, <1>6, <1>7
  <2>2. \A p : p \in ToSet(a) \/ p \in ToSet(b) => p \in ToSet(c)
    BY <1>3, <1>5, <1>6, <1>7
  <2> QED
    BY <2>1, <2>2
<1>9. ASSUME NEW p, NEW q
      PROVE  Before(c, p, q) <=> \/ Before(a, p, q) \/ Before(b, p, q)
                                 \/ p \in ToSet(a) /\ q \in ToSet(b)
  <2>1. ASSUME Before(c, p, q)
        PROVE  \/ Before(a, p, q) \/ Before(b, p, q)
               \/ p \in ToSet(a) /\ q \in ToSet(b)
    <3>1. PICK i, j \in 1..(m + n) : i < j /\ c[i] = p /\ c[j] = q
      BY <1>7, <2>1
    <3>2. CASE j \in 1..m /\ c[j] = a[j]
      <4>1. i \in 1..m
        BY <1>2, <3>1, <3>2
      <4>2. a[i] = p /\ a[j] = q
        BY <1>3, <3>1, <3>2, <4>1
      <4>3. \E g, h \in 1..m : g < h /\ a[g] = p /\ a[h] = q
        BY <3>1, <3>2, <4>1, <4>2
      <4> QED
        BY <1>5, <4>3, Zenon
    <3>3. CASE \E l \in 1..n : j = m + l /\ c[j] = b[l]
      <4>1. PICK l \in 1..n : j = m + l /\ c[j] = b[l]
        BY <3>3
      <4>2. CASE i \in 1..m /\ c[i] = a[i]
        BY <1>5, <1>6, <3>1, <4>1, <4>2
      <4>3. CASE \E k \in 1..n : i = m + k /\ c[i] = b[k]
        <5>1. PICK k \in 1..n : i = m + k /\ c[i] = b[k]
          BY <4>3
        <5>2. k < l
          BY <1>2, <3>1, <4>1, <5>1
        <5> QED
          BY <1>6, <3>1, <4>1, <5>1, <5>2
      <4> QED
        BY <1>4, <4>2, <4>3
    <3> QED
      BY <1>4, <3>2, <3>3
  <2>2. ASSUME Before(a, p, q)
        PROVE  Before(c, p, q)
    <3>1. PICK i, j \in 1..m : i < j /\ a[i] = p /\ a[j] = q
      BY <1>5, <2>2
    <3> QED
      BY <1>3, <1>7, <3>1
  <2>3. ASSUME Before(b, p, q)
        PROVE  Before(c, p, q)
    <3>1. PICK i, j \in 1..n : i < j /\ b[i] = p /\ b[j] = q
      BY <1>6, <2>3
    <3>2. m + i < m + j
      BY <1>2, <3>1
    <3> QED
      BY <1>3, <1>7, <3>1, <3>2
  <2>4. ASSUME p \in ToSet(a), q \in ToSet(b)
        PROVE  Before(c, p, q)
    <3>1. PICK i \in 1..m : a[i] = p
      BY <1>5, <2>4
    <3>2. PICK j \in 1..n : b[j] = q
      BY <1>6, <2>4
    <3>3. i < m + j
      BY <1>2, <3>1, <3>2
    <3> QED
      BY <1>3, <1>7, <3>1, <3>2, <3>3
  <2> QED
    BY <2>1, <2>2, <2>3, <2>4
<1> QED
  BY <1>1, <1>8, <1>9 DEF c, Joint

\* A sequence is its first element, and the others.
LEMMA HeadFirst ==
    ASSUME NEW S, NEW s \in Seq(S), s # <<>>
    PROVE  /\ Head(s) \in S /\ Tail(s) \in Seq(S) /\ s = <<Head(s)>> \o Tail(s)
           /\ Headed(s, Head(s), Tail(s))
<1> DEFINE h == Head(s)
           r == Tail(s)
           a == <<h>>
           c == a \o r
<1>1. /\ h \in S /\ r \in Seq(S) /\ Len(r) = Len(s) - 1 /\ Len(s) \in Nat
      /\ \A i \in 1..Len(r) : r[i] = s[i + 1]
      /\ h = s[1]
  BY HeadTailProperties
<1> HIDE DEF h, r
<1>2. a \in Seq(S) /\ Len(a) = 1 /\ a[1] = h
  BY <1>1
<1>3. ToSet(a) = {h} /\ \A p, q : ~Before(a, p, q)
  <2>1. Listed(a, 1)
    BY <1>2, ElementsOf
  <2> HIDE DEF a
  <2>2. /\ \A p : p \in ToSet(a) <=> \E i \in 1..1 : a[i] = p
        /\ \A p, q : Before(a, p, q) <=> \E i, j \in 1..1 : i < j /\ a[i] = p /\ a[j] = q
    BY <2>1, Zenon DEF Listed
  <2>3. \A i \in 1..1 : i = 1
    OBVIOUS
  <2>4. 1 \in 1..1
    OBVIOUS
  <2>5. ToSet(a) = {h}
    BY <1>2, <2>2, <2>3, <2>4
  <2>6. \A p, q : ~Before(a, p, q)
    <3>1. \A i, j \in 1..1 : ~(i < j)
      OBVIOUS
    <3> QED
      BY <2>2, <3>1, Zenon
  <2> QED
    BY <2>5, <2>6
<1> HIDE DEF a
<1>0. a \in Seq(S) /\ r \in Seq(S)
  BY <1>1, <1>2
<1>4. /\ c \in Seq(S) /\ Len(c) = Len(a) + Len(r)
      /\ \A i \in 1..(Len(a) + Len(r)) : c[i] = IF i <= Len(a) THEN a[i] ELSE r[i - Len(a)]
  BY <1>0, ConcatProperties, Zenon
<1>5. s = c
  <2>1. Len(s) = Len(c)
    BY <1>1, <1>2, <1>4
  <2> HIDE DEF c
  <2>2. ASSUME NEW i \in 1..Len(s)
        PROVE  s[i] = c[i]
    <3>1. CASE i = 1
      BY <1>1, <1>2, <1>4, <2>1, <3>1
    <3>2. CASE i # 1
      <4> DEFINE j == i - 1
      <4>1. j \in 1..Len(r) /\ j + 1 = i /\ i - Len(a) = j /\ ~(i <= Len(a))
            /\ i \in 1..(Len(a) + Len(r))
        BY <1>1, <1>2, <3>2
      <4> HIDE DEF j
      <4>2. c[i] = r[j] /\ s[i] = r[j]
        BY <1>1, <1>4, <4>1
      <4> QED
        BY <4>2
    <3> QED
      BY <3>1, <3>2
  <2> QED
    BY <1>4, <2>1, <2>2, SeqEqual
<1>6. Joint(s, a, r)
  BY <1>0, <1>5, ConcatOrder
<1>7. Headed(s, h, r)
  <2>1. \A p : p \in ToSet(a) <=> p = h
    BY <1>3
  <2>2. ASSUME NEW p, NEW q
        PROVE  Before(s, p, q) <=> Before(r, p, q) \/ (p = h /\ q \in ToSet(r))
    <3>1. Before(s, p, q) <=> \/ Before(a, p, q) \/ Before(r, p, q)
                              \/ p \in ToSet(a) /\ q \in ToSet(r)
      BY <1>6 DEF Joint
    <3> QED
      BY <1>3, <2>1, <3>1
  <2>3. ToSet(s) = {h} \cup ToSet(r)
    BY <1>3, <1>6 DEF Joint
  <2> QED
    BY <2>2, <2>3 DEF Headed
<1>8. s = <<h>> \o r
  BY <1>5 DEF a, c
<1> HIDE DEF c
<1> QED
  BY <1>1, <1>7, <1>8 DEF h, r

\* The first of b moved behind a, as a packet that goes from one pipe to the next.
LEMMA Shift ==
    ASSUME NEW S, NEW a \in Seq(S), NEW b \in Seq(S), b # <<>>
    PROVE  Append(a, Head(b)) \o Tail(b) = a \o b
<1> DEFINE h == Head(b)
           r == Tail(b)
           one == <<h>>
<1>1. h \in S /\ r \in Seq(S) /\ b = one \o r
  BY HeadFirst
<1>2. Append(a, h) = a \o one
  BY <1>1, AppendIsConcat
<1>3. one \in Seq(S)
  BY <1>1
<1> HIDE DEF h, r, one
<1>4. (a \o one) \o r = a \o (one \o r)
  BY <1>1, <1>3, ConcatAssociative, SMTT(60)
<1> QED
  BY <1>1, <1>2, <1>4 DEF h, r

LEMMA HeadOfConcat ==
    ASSUME NEW S, NEW a \in Seq(S), NEW b \in Seq(S), a # <<>>
    PROVE  a \o b # <<>> /\ Head(a \o b) = Head(a) /\ Tail(a \o b) = Tail(a) \o b
<1> DEFINE h == Head(a)
           r == Tail(a)
           one == <<h>>
           c == r \o b
<1>1. h \in S /\ r \in Seq(S) /\ a = one \o r
  BY HeadFirst
<1>3. one \in Seq(S)
  BY <1>1
<1>4. c \in Seq(S)
  BY <1>1, ConcatProperties
<1>5. one \o c # <<>> /\ Head(one \o c) = h /\ Tail(one \o c) = c
  <2> HIDE DEF c, h
  <2>1. /\ one \o c \in Seq(S) /\ Len(one \o c) = 1 + Len(c)
        /\ \A i \in 1..(1 + Len(c)) : (one \o c)[i] = IF i <= 1 THEN h ELSE c[i - 1]
    BY <1>3, <1>4, ConcatProperties
  <2>2. Len(c) \in Nat
    BY <1>4
  <2> DEFINE d == one \o c
  <2>3. d \in Seq(S) /\ Len(d) = 1 + Len(c) /\ d[1] = h
        /\ \A i \in 1..Len(c) : d[i + 1] = c[i]
    BY <2>1, <2>2
  <2> HIDE DEF d
  <2>4. d # <<>>
    BY <2>2, <2>3
  <2>5. Head(d) = h
    BY <2>3, <2>4
  <2>6. Tail(d) = c
    <3>1. /\ Tail(d) \in Seq(S) /\ Len(Tail(d)) = Len(c)
          /\ \A i \in 1..Len(Tail(d)) : Tail(d)[i] = d[i + 1]
      BY <2>2, <2>3, <2>4, HeadTailProperties
    <3> QED
      BY <1>4, <2>3, <3>1, SeqEqual
  <2> QED
    BY <2>4, <2>5, <2>6 DEF d
<1> HIDE DEF h, r, one
<1>6. (one \o r) \o b = one \o c
  BY <1>1, <1>3, ConcatAssociative, SMTT(60)
<1>7. a \o b = one \o c
  BY <1>1, <1>6
<1> HIDE DEF c
<1> QED
  BY <1>5, <1>7 DEF h, r, c

LEMMA FollowsSelf ==
    ASSUME NEW s
    PROVE  Follows(s, s)
  BY DEF Follows

LEMMA FollowsNothing ==
    ASSUME NEW s
    PROVE  Follows(<<>>, s)
<1>1. ToSet(<<>>) = {} /\ \A p, q : ~Before(<<>>, p, q)
  BY DEF ToSet, Before
<1> QED
  BY <1>1 DEF Follows

\* What follows the second part of a sequence.
LEMMA FollowsBehind ==
    ASSUME NEW a \in Seq(Packet), NEW s \in Seq(Packet), NEW t \in Seq(Packet), Follows(t, s)
    PROVE  Follows(a \o t, a \o s)
<1>1. Joint(a \o t, a, t) /\ Joint(a \o s, a, s)
  BY ConcatOrder
<1> DEFINE u == a \o t
           v == a \o s
<1>2. Joint(u, a, t) /\ Joint(v, a, s)
  BY <1>1
<1> HIDE DEF u, v
<1>3. ToSet(t) \subseteq ToSet(s)
  BY DEF Follows
<1>4. ToSet(u) \subseteq ToSet(v)
  BY <1>2, <1>3 DEF Joint
<1>5. ASSUME NEW p \in Packet, NEW q \in Packet, Before(u, p, q)
      PROVE  Before(v, p, q)
  <2>1. \/ Before(a, p, q) \/ Before(t, p, q)
        \/ p \in ToSet(a) /\ q \in ToSet(t)
    BY <1>2, <1>5 DEF Joint
  <2>2. \/ Before(a, p, q) \/ Before(s, p, q)
        \/ p \in ToSet(a) /\ q \in ToSet(s)
    BY <1>3, <2>1 DEF Follows
  <2> QED
    BY <1>2, <2>2 DEF Joint
<1> QED
  BY <1>4, <1>5 DEF Follows, u, v

LEMMA FollowsConcat ==
    ASSUME NEW a \in Seq(Packet), NEW s \in Seq(Packet)
    PROVE  Follows(s, a \o s)
<1> DEFINE v == a \o s
<1>1. Joint(v, a, s)
  BY ConcatOrder
<1> HIDE DEF v
<1>2. Follows(s, v)
  BY <1>1 DEF Joint, Follows
<1> QED
  BY <1>2 DEF v

\* What completeService keeps are packets of the queue in their order, and all of them
\* if they have budgets.
LEMMA KeptFollows ==
    ASSUME NEW o, queue[o] \in Seq(Packet)
    PROVE  Follows(Kept(o), queue[o])
<1> DEFINE L == Len(queue[o])
           q == queue[o]
           Good(s, n) == /\ \A p : p \in ToSet(s) => \E i \in 1..n : q[i] = p
                         /\ \A p, r : Before(s, p, r) =>
                                \E i, j \in 1..n : i < j /\ q[i] = p /\ q[j] = r
<1>1. PICK f : Builds(o, f)
  BY KeptBuilt
<1>2. L \in Nat /\ \A n \in 1..L : q[n] \in Packet
  OBVIOUS
<1>3. Kept(o) = f[L] /\ f[0] = <<>>
  BY <1>1 DEF Builds
<1>4. \A n \in 0..L : f[n] \in Seq(Packet)
  BY <1>1 DEF Builds
<1>5. \A n \in 1..L : f[n] = Append(f[n - 1], q[n]) \/ f[n] = f[n - 1]
  BY <1>1 DEF Builds
<1>6. Listed(q, L)
  BY ElementsOf
<1>7. /\ \A p : p \in ToSet(q) <=> \E i \in 1..L : q[i] = p
      /\ \A p, r : Before(q, p, r) <=> \E i, j \in 1..L : i < j /\ q[i] = p /\ q[j] = r
  BY <1>6, Zenon DEF Listed
<1> HIDE DEF L, q
<1>8. Good(<<>>, 0)
  <2>1. ToSet(<<>>) = {} /\ \A p, r : ~Before(<<>>, p, r)
    BY DEF ToSet, Before
  <2> QED
    BY <2>1
<1>9. ASSUME NEW n \in 1..L, Good(f[n - 1], n - 1)
      PROVE  Good(f[n], n)
  <2> DEFINE b == f[n - 1]
             m == n - 1
             x == q[n]
             one == <<x>>
  <2>1. /\ m \in Nat /\ m \in 0..L /\ 1..m \subseteq 1..n /\ n \in 1..n
        /\ \A i \in 1..m : i < n
    BY <1>2
  <2>2. b \in Seq(Packet) /\ x \in Packet
    BY <1>2, <1>4, <2>1
  <2>3. Good(b, m)
    BY <1>9
  <2>4. f[n] = Append(b, x) \/ f[n] = b
    BY <1>5
  <2> HIDE DEF b, m, x, Good
  <2>5. Good(b, n)
    BY <2>1, <2>3 DEF Good
  <2>6. Good(Append(b, x), n)
    <3>1. one \in Seq(Packet) /\ Append(b, x) = b \o one /\ Len(one) = 1 /\ one[1] = x
      BY <2>2, AppendIsConcat
    <3>2. Joint(b \o one, b, one) /\ Listed(one, 1)
      BY <2>2, <3>1, ConcatOrder, ElementsOf
    <3> DEFINE c == Append(b, x)
    <3>3. Joint(c, b, one)
      BY <3>1, <3>2
    <3> HIDE DEF one, c
    <3>4. ToSet(one) = {x} /\ \A p, r : ~Before(one, p, r)
      <4>1. /\ \A p : p \in ToSet(one) <=> \E i \in 1..1 : one[i] = p
            /\ \A p, r : Before(one, p, r) <=>
                   \E i, j \in 1..1 : i < j /\ one[i] = p /\ one[j] = r
        BY <3>2, Zenon DEF Listed
      <4>2. 1 \in 1..1 /\ \A i \in 1..1 : i = 1
        OBVIOUS
      <4>3. \A i, j \in 1..1 : ~(i < j)
        OBVIOUS
      <4>4. ToSet(one) = {x}
        BY <3>1, <4>1, <4>2
      <4> QED
        BY <4>1, <4>3, <4>4, Zenon
    <3>5. ASSUME NEW p, p \in ToSet(c)
          PROVE  \E i \in 1..n : q[i] = p
      <4>1. p \in ToSet(b) \/ p = x
        BY <3>3, <3>4, <3>5 DEF Joint
      <4> QED
        BY <2>1, <2>5, <4>1 DEF Good, x
    <3>6. ASSUME NEW p, NEW r, Before(c, p, r)
          PROVE  \E i, j \in 1..n : i < j /\ q[i] = p /\ q[j] = r
      <4>1. Before(b, p, r) \/ (p \in ToSet(b) /\ r = x)
        BY <3>3, <3>4, <3>6 DEF Joint
      <4>2. CASE Before(b, p, r)
        BY <2>5, <4>2 DEF Good
      <4>3. CASE p \in ToSet(b) /\ r = x
        <5>1. PICK i \in 1..m : q[i] = p
          BY <2>3, <4>3 DEF Good
        <5>2. i \in 1..n /\ i < n /\ q[n] = r
          BY <2>1, <4>3, <5>1 DEF x
        <5> QED
          BY <2>1, <5>1, <5>2
      <4> QED
        BY <4>1, <4>2, <4>3
    <3>7. Good(c, n)
      BY <3>5, <3>6 DEF Good
    <3> QED
      BY <3>7 DEF c
  <2> QED
    BY <2>4, <2>5, <2>6
<1>10. \A n \in 0..L : Good(f[n], n)
  <2> HIDE DEF Good
  <2> DEFINE bad == {n \in 0..L : ~Good(f[n], n)}
  <2> SUFFICES ASSUME bad # {}
               PROVE  FALSE
    OBVIOUS
  <2>1. PICK m \in bad : \A k \in bad : m <= k
    <3>1. bad \in SUBSET Nat
      BY <1>2
    <3> HIDE DEF bad
    <3> QED
      BY <3>1, LeastNatural
  <2>2. CASE m = 0
    BY <1>3, <1>8, <2>2
  <2>3. CASE m # 0
    <3>1. m - 1 \in 0..L /\ ~(m <= m - 1) /\ m \in 1..L
      BY <1>2, <2>3
    <3>2. Good(f[m - 1], m - 1)
      BY <2>1, <3>1
    <3> QED
      BY <1>9, <3>1, <3>2
  <2> QED
    BY <2>2, <2>3
<1>11. Good(Kept(o), L)
  <2>1. L \in 0..L
    BY <1>2
  <2> HIDE DEF Good
  <2> QED
    BY <1>3, <1>10, <2>1
<1>12. Follows(Kept(o), q)
  <2>1. ToSet(Kept(o)) \subseteq ToSet(q)
    BY <1>7, <1>11
  <2>2. \A p, r : Before(Kept(o), p, r) => Before(q, p, r)
    BY <1>7, <1>11
  <2> QED
    BY <2>1, <2>2 DEF Follows
<1> QED
  BY <1>12 DEF q

LEMMA KeptAll ==
    ASSUME NEW o, queue[o] \in Seq(Packet), Hosts \subseteq Budgeted
    PROVE  Kept(o) = queue[o]
<1> DEFINE L == Len(queue[o])
           q == queue[o]
           Good(s, n) == s \in Seq(Packet) /\ Len(s) = n /\ \A i \in 1..n : s[i] = q[i]
<1>1. PICK f : Builds(o, f)
  BY KeptBuilt
<1>2. /\ L \in Nat /\ q \in Seq(Packet)
      /\ \A n \in 1..L : q[n] \in Packet /\ q[n].src \in Budgeted
  <2>1. L \in Nat /\ \A n \in 1..L : q[n] \in Packet
    OBVIOUS
  <2>2. \A p \in Packet : p.src \in Budgeted
    BY DEF Packet
  <2> QED
    BY <2>1, <2>2
<1>3. Kept(o) = f[L] /\ f[0] = <<>>
  BY <1>1 DEF Builds
<1>4. \A n \in 1..L : f[n] = Append(f[n - 1], q[n])
  BY <1>1, <1>2 DEF Builds
<1> HIDE DEF q
<1>8. Good(<<>>, 0)
  OBVIOUS
<1> DEFINE M == L
<1>m. M \in Nat /\ M = L
  BY <1>2
<1> HIDE DEF M
<1>9. ASSUME NEW n \in 1..M, Good(f[n - 1], n - 1)
      PROVE  Good(f[n], n)
  <2> DEFINE b == f[n - 1]
             m == n - 1
             x == q[n]
  <2>1. m \in Nat /\ n = m + 1 /\ n \in Nat
    BY <1>m
  <2>2. b \in Seq(Packet) /\ Len(b) = m /\ \A i \in 1..m : b[i] = q[i]
    BY <1>9
  <2>3. x \in Packet /\ f[n] = Append(b, x)
    BY <1>2, <1>4, <1>m
  <2> HIDE DEF b, x, m
  <2> DEFINE c == Append(b, x)
  <2>4. /\ c \in Seq(Packet) /\ Len(c) = m + 1
        /\ \A i \in 1..m : c[i] = b[i]
        /\ c[m + 1] = x
    BY <2>1, <2>2, <2>3, AppendProperties
  <2> HIDE DEF c
  <2>5. Good(c, n)
    BY <2>1, <2>2, <2>4 DEF x
  <2> QED
    BY <2>3, <2>5 DEF c
<1>10. \A n \in 0..M : Good(f[n], n)
  <2> HIDE DEF Good
  <2> DEFINE bad == {n \in 0..M : ~Good(f[n], n)}
  <2> SUFFICES ASSUME bad # {}
               PROVE  FALSE
    OBVIOUS
  <2>1. PICK m \in bad : \A k \in bad : m <= k
    <3>1. bad \in SUBSET Nat
      BY <1>m
    <3> HIDE DEF bad
    <3> QED
      BY <3>1, LeastNatural
  <2>2. CASE m = 0
    BY <1>3, <1>8, <2>2
  <2>3. CASE m # 0
    <3>1. m - 1 \in 0..M /\ ~(m <= m - 1) /\ m \in 1..M
      BY <1>m, <2>3
    <3>2. Good(f[m - 1], m - 1)
      BY <2>1, <3>1
    <3> QED
      BY <1>9, <3>1, <3>2
  <2> QED
    BY <2>2, <2>3
<1>11. Good(Kept(o), L)
  <2>1. L \in 0..M
    BY <1>m
  <2> HIDE DEF Good
  <2> QED
    BY <1>3, <1>10, <2>1
<1>12. Kept(o) = q
  <2>1. Kept(o) \in Seq(Packet) /\ Len(Kept(o)) = Len(q) /\ \A i \in 1..Len(Kept(o)) : Kept(o)[i] = q[i]
    BY <1>11 DEF q
  <2> QED
    BY <1>2, <2>1, SeqEqual
<1> QED
  BY <1>12 DEF q

-----------------------------------------------------------------------------
(* The packets of a port *)

\* The packets of port x, if it has queue q and transmits g, which an output does from
\* its queue; those it has in state s.
Having(x, q, g) == IF x \in Hosts /\ g # NoPacket THEN <<g>> \o q ELSE q
At(s, x) == Having(x, s.queue[x], s.sending[x])

LEMMA AtType ==
    ASSUME NEW s, PortsOK(s), NEW x \in Ports
    PROVE  /\ At(s, x) \in Seq(Packet) /\ s.queue[x] \in Seq(Packet)
           /\ x \in Outputs => At(s, x) = s.queue[x]
           /\ x \in Hosts => s.sending[x] \in Packet \cup {NoPacket}
<1>1. PortOK(x, s.queue[x], s.size[x], s.send[x], s.sending[x], s.due[x])
      /\ s.queue[x] \in Seq(Packet)
  BY PortTypes
<1>2. x \in Hosts => s.sending[x] \in Packet \cup {NoPacket}
  BY <1>1 DEF PortOK
<1>3. x \in Outputs => At(s, x) = s.queue[x]
  BY LinkPorts DEF At, Having
<1>4. At(s, x) \in Seq(Packet)
  <2>1. CASE x \in Hosts /\ s.sending[x] # NoPacket
    <3> DEFINE one == <<s.sending[x]>>
    <3>1. one \in Seq(Packet)
      BY <1>2, <2>1
    <3> HIDE DEF one
    <3>2. one \o s.queue[x] \in Seq(Packet)
      BY <1>1, <3>1, ConcatProperties
    <3> QED
      BY <2>1, <3>2 DEF At, Having, one
  <2> QED
    BY <1>1, <2>1 DEF At, Having
<1> QED
  BY <1>1, <1>2, <1>3, <1>4

LEMMA SameAt ==
    ASSUME NEW s, NEW t, NEW x, t.queue[x] = s.queue[x], t.sending[x] = s.sending[x]
    PROVE  At(t, x) = At(s, x)
  BY DEF At, Having

\* Port x has the same packets and completions in states s and t.
Alike(t, s, x) ==
    t.queue[x] = s.queue[x] /\ t.sending[x] = s.sending[x] /\ t.due[x] = s.due[x]

LEMMA AlikeAt ==
    ASSUME NEW s, NEW t, NEW x, Alike(t, s, x)
    PROVE  At(t, x) = At(s, x)
  BY SameAt DEF Alike

\* A change of port x is no change of the others.
LEMMA ChangedAt ==
    ASSUME NEW s, NEW t, NEW x \in Ports, NEW q, NEW z, NEW d, NEW g, NEW u,
           Changed(s, t, x, q, z, d, g, u)
    PROVE  \A y \in Ports \ {x} : Alike(t, s, y)
  BY DEF Changed, Alike

\* beginService, of a host that is transmitting, loses the packet; otherwise packets only
\* move.
LEMMA BeginAt ==
    ASSUME NEW s, PortsOK(s), NEW x \in Ports
    PROVE  LET t == BeginService(s, x)
           IN  /\ \A y \in Ports \ {x} : Alike(t, s, y)
               /\ x \in Outputs \/ s.sending[x] = NoPacket => At(t, x) = At(s, x)
               /\ Follows(At(t, x), At(s, x))
               /\ t.due[x] = Append(s.due[x], TxTime)
<1> DEFINE t == BeginService(s, x)
           q == s.queue[x]
           g == s.sending[x]
           q2 == BegunQueue(s, x)
           g2 == BegunSending(s, x)
           z == s.size[x]
           d == s.send[x]
           u == Append(s.due[x], TxTime)
<1>1. Changed(s, t, x, q2, z, d, g2, u)
  BY BeginChanges
<1>2. /\ q \in Seq(Packet)
      /\ x \in Hosts => g \in Packet \cup {NoPacket}
  BY AtType
<1> HIDE DEF t
<1>3. \A y \in Ports \ {x} : Alike(t, s, y)
  BY <1>1, ChangedAt
<1>4. t.queue[x] = q2 /\ t.sending[x] = g2 /\ t.due[x] = u
  BY <1>1 DEF Changed
<1>5. CASE x \in Outputs
  <2>1. x \notin Hosts /\ q2 = q
    BY <1>5, LinkPorts DEF BegunQueue
  <2>2. At(t, x) = At(s, x)
    BY <1>4, <2>1 DEF At, Having
  <2> QED
    BY <1>3, <1>4, <2>2, FollowsSelf DEF t, u
<1>6. CASE x \notin Outputs /\ q = <<>>
  <2>1. x \in Hosts /\ q2 = q /\ g2 = NoPacket
    BY <1>6 DEF BegunQueue, BegunSending, Ports
  <2>2. At(t, x) = <<>>
    BY <1>4, <1>6, <2>1 DEF At, Having
  <2>3. g = NoPacket => At(s, x) = <<>>
    BY <1>6, <2>1 DEF At, Having
  <2> QED
    BY <1>3, <1>4, <1>6, <2>2, <2>3, FollowsNothing DEF t, u
<1>7. CASE x \notin Outputs /\ q # <<>>
  <2>1. x \in Hosts /\ q2 = Tail(q) /\ g2 = Head(q)
    BY <1>7 DEF BegunQueue, BegunSending, Ports
  <2>2. Head(q) \in Packet /\ q = <<Head(q)>> \o Tail(q)
    BY <1>2, <1>7, HeadFirst
  <2>3. g2 # NoPacket
    BY <2>1, <2>2, PfcAssumption
  <2>4. At(t, x) = q
    BY <1>4, <2>1, <2>2, <2>3 DEF At, Having
  <2>5. g = NoPacket => At(s, x) = q
    BY DEF At, Having
  <2>6. Follows(q, At(s, x))
    <3>1. CASE g = NoPacket
      BY <2>5, <3>1, FollowsSelf
    <3>2. CASE g # NoPacket
      <4> DEFINE one == <<g>>
      <4>1. one \in Seq(Packet) /\ At(s, x) = one \o q
        BY <1>2, <2>1, <3>2 DEF At, Having
      <4> HIDE DEF one, q
      <4> QED
        BY <1>2, <4>1, FollowsConcat
    <3> QED
      BY <3>1, <3>2
  <2> QED
    BY <1>3, <1>4, <1>7, <2>4, <2>5, <2>6 DEF t, u
<1> QED
  BY <1>5, <1>6, <1>7

\* The end of completeService moves packets only.
LEMMA ServeOnAt ==
    ASSUME NEW s, PortsOK(s), NEW x \in Ports, s.sending[x] = NoPacket
    PROVE  /\ \A y \in Ports : At(ServeOn(s, x), y) = At(s, y)
           /\ \A y \in Ports \ {x} : Alike(ServeOn(s, x), s, y)
<1> DEFINE heard == Heard(s, x)
           more == IF x \in Hosts THEN s.size[x] > 0 ELSE s.queue[x] # <<>>
           t == ServeOn(s, x)
<1>1. t = IF more /\ heard.send[x] = "READY" THEN BeginService(heard, x) ELSE heard
  BY DEF ServeOn, Heard
<1>2. /\ PortsOK(heard) /\ heard.queue = s.queue /\ heard.sending = s.sending
      /\ heard.due = s.due
  BY HeardOK
<1> HIDE DEF heard, t, more
<1>3. \A y \in Ports : At(heard, y) = At(s, y)
  BY <1>2, SameAt
<1> DEFINE b == BeginService(heard, x)
<1>4. /\ \A y \in Ports \ {x} : Alike(b, heard, y)
      /\ At(b, x) = At(heard, x)
  BY <1>2, BeginAt
<1> HIDE DEF b
<1>5. \A y \in Ports \ {x} : At(b, y) = At(heard, y)
  BY <1>4, AlikeAt
<1>6. \A y \in Ports : At(t, y) = At(s, y)
  BY <1>1, <1>3, <1>4, <1>5 DEF b
<1>7. \A y \in Ports \ {x} : Alike(t, s, y)
  BY <1>1, <1>2, <1>4 DEF b, Alike
<1> QED
  BY <1>6, <1>7 DEF t

\* A RESUME may have a host that is transmitting begin another packet.
LEMMA ReceiveResumeAt ==
    ASSUME NEW s, PortsOK(s), NEW x \in Ports
    PROVE  LET t == ReceiveResume(s, x)
           IN  /\ \A y \in Ports \ {x} : At(t, y) = At(s, y)
               /\ Follows(At(t, x), At(s, x))
               /\ \/ At(t, x) = At(s, x)
                  \/ /\ x \in Hosts /\ s.sending[x] # NoPacket
                     /\ t.due[x] = Append(s.due[x], TxTime)
<1> DEFINE d == "READY"
           ready == [s EXCEPT !.send[x] = d]
           begins == IF x \in Hosts THEN s.size[x] > 0
                     ELSE s.queue[x] # <<>> /\ s.sending[x] = NoPacket
           t == ReceiveResume(s, x)
<1>1. t = IF begins THEN BeginService(ready, x) ELSE ready
  BY DEF ReceiveResume
<1>2. d \in Sends /\ d # "PAUSED"
  BY DEF Sends
<1> HIDE DEF d
<1>3. /\ PortsOK(ready) /\ ready.queue = s.queue /\ ready.sending = s.sending
      /\ ready.due = s.due
  BY <1>2, SendChanges
<1> HIDE DEF ready, t, begins
<1>4. \A y \in Ports : At(ready, y) = At(s, y)
  BY <1>3, SameAt
<1> DEFINE b == BeginService(ready, x)
<1>5. /\ \A y \in Ports \ {x} : At(b, y) = At(ready, y)
      /\ x \in Outputs \/ ready.sending[x] = NoPacket => At(b, x) = At(ready, x)
      /\ Follows(At(b, x), At(ready, x))
      /\ b.due[x] = Append(ready.due[x], TxTime)
  BY <1>3, BeginAt, AlikeAt, SMTT(60)
<1> HIDE DEF b
<1>6. x \in Hosts \/ x \in Outputs
  BY DEF Ports
<1>7. CASE t = b
  BY <1>3, <1>4, <1>5, <1>6, <1>7 DEF t
<1>8. CASE t = ready
  BY <1>4, <1>8, FollowsSelf DEF t
<1> QED
  BY <1>1, <1>7, <1>8 DEF b

LEMMA ReceivePauseAt ==
    ASSUME NEW s, PortsOK(s), NEW x \in Ports
    PROVE  \A y \in Ports : At(ReceivePause(s, x), y) = At(s, y)
<1> DEFINE busy == IF x \in Hosts THEN s.size[x] > 0 ELSE s.sending[x] = Busy
           d == IF busy THEN "PAUSE_RECEIVED" ELSE "PAUSED"
           t == [s EXCEPT !.send[x] = d]
<1>1. ReceivePause(s, x) = t
  BY DEF ReceivePause
<1>2. t.queue = s.queue /\ t.sending = s.sending
  <2>1. s = [queue |-> s.queue, size |-> s.size, send |-> s.send, sending |-> s.sending,
             due |-> s.due]
    BY DEF PortsOK
  <2> HIDE DEF d
  <2> QED
    BY <2>1
<1> HIDE DEF t
<1> QED
  BY <1>1, <1>2, SameAt

\* Another queue at port x, another packet in transmission.
LEMMA PutAt ==
    ASSUME NEW s, PortsOK(s), NEW x \in Ports, NEW q, NEW z, NEW g, NEW u,
           NEW t, t = Put(s, x, q, z, g, u)
    PROVE  /\ \A y \in Ports \ {x} : Alike(t, s, y)
           /\ t.queue[x] = q /\ t.sending[x] = g
           /\ At(t, x) = Having(x, q, g)
<1>1. /\ s.queue = [y \in Ports |-> s.queue[y]]
      /\ s.sending = [y \in Ports |-> s.sending[y]] /\ s.due = [y \in Ports |-> s.due[y]]
  BY DEF PortsOK
<1>2. /\ t.queue = [s.queue EXCEPT ![x] = q] /\ t.sending = [s.sending EXCEPT ![x] = g]
      /\ t.due = [s.due EXCEPT ![x] = u]
  BY DEF Put
<1>3. /\ t.queue[x] = q /\ t.sending[x] = g
      /\ \A y \in Ports \ {x} : /\ t.queue[y] = s.queue[y] /\ t.sending[y] = s.sending[y]
                                /\ t.due[y] = s.due[y]
  BY <1>1, <1>2
<1> QED
  BY <1>3 DEF At, Having, Alike

-----------------------------------------------------------------------------
(* The line of a port: what it sent through its link and what it has, from the packet
   nearest to the next output to the one queued last. *)

Pkts(p) == [i \in DOMAIN p |-> p[i].pkt]
Way(x) == IF x \in Links THEN Pkts(cross[x]) \o Pkts(link[x]) ELSE <<>>
Line(x) == Way(x) \o At(State, x)

LEMMA PktsType ==
    ASSUME NEW d \in Nat, NEW p, PipeOK(p, d)
    PROVE  Pkts(p) \in Seq(Packet) /\ Len(Pkts(p)) = Len(p)
<1> DEFINE Cell == [pkt : Packet, left : 0..d]
           n == Len(p)
<1>1. p \in Seq(Cell)
  BY DEF PipeOK
<1>2. DOMAIN p = 1..n /\ n \in Nat /\ \A i \in 1..n : p[i].pkt \in Packet
  <2>1. \A c \in Cell : c.pkt \in Packet
    OBVIOUS
  <2> HIDE DEF Cell
  <2>2. DOMAIN p = 1..n /\ n \in Nat /\ \A i \in 1..n : p[i] \in Cell
    BY <1>1
  <2> QED
    BY <2>1, <2>2
<1>3. Pkts(p) = [i \in 1..n |-> p[i].pkt] /\ n \in Nat /\ \A i \in 1..n : p[i].pkt \in Packet
  BY <1>2 DEF Pkts
<1> HIDE DEF n
<1> QED
  BY <1>3 DEF n

\* Packet k enters a pipe p with delay d.
Joined(p, k, d) == Append(p, [pkt |-> k, left |-> d])

LEMMA PktsAppend ==
    ASSUME NEW d \in Nat, NEW p, PipeOK(p, d), NEW k \in Packet
    PROVE  Pkts(Joined(p, k, d)) = Append(Pkts(p), k)
<1> DEFINE q == Joined(p, k, d)
           e == [pkt |-> k, left |-> d]
           n == Len(p)
           a == Append(Pkts(p), k)
           Cell == [pkt : Packet, left : 0..d]
<1>1. PipeOK(q, d)
  BY PipeAppend DEF Joined
<1>2. p \in Seq(Cell) /\ e \in Cell /\ e.pkt = k /\ q = Append(p, e)
  BY DEF PipeOK, Joined
<1>3. Pkts(p) \in Seq(Packet) /\ Len(Pkts(p)) = n /\ n \in Nat
      /\ \A i \in 1..n : Pkts(p)[i] = p[i].pkt
  <2>1. Pkts(p) \in Seq(Packet) /\ Len(Pkts(p)) = n
    BY PktsType
  <2>2. DOMAIN p = 1..n /\ n \in Nat
    BY <1>2
  <2> QED
    BY <2>1, <2>2 DEF Pkts
<1>4. a \in Seq(Packet) /\ Len(a) = n + 1 /\ a[n + 1] = k
      /\ \A i \in 1..n : a[i] = Pkts(p)[i]
  BY <1>3, AppendProperties
<1> HIDE DEF e, a, q, Cell
<1>5. q \in Seq(Cell) /\ Len(q) = n + 1 /\ q[n + 1] = e /\ \A i \in 1..n : q[i] = p[i]
  BY <1>2, AppendProperties
<1>6. Pkts(q) \in Seq(Packet) /\ Len(Pkts(q)) = n + 1
      /\ \A i \in 1..(n + 1) : Pkts(q)[i] = q[i].pkt
  <2>1. Pkts(q) \in Seq(Packet) /\ Len(Pkts(q)) = Len(q)
    BY <1>1, PktsType
  <2>2. DOMAIN q = 1..(n + 1)
    BY <1>5
  <2> QED
    BY <1>5, <2>1, <2>2 DEF Pkts
<1>7. \A i \in 1..Len(a) : a[i] = Pkts(q)[i]
  <2> TAKE i \in 1..Len(a)
  <2>1. CASE i = n + 1
    BY <1>2, <1>3, <1>4, <1>5, <1>6, <2>1
  <2>2. CASE i # n + 1
    <3>1. i \in 1..n /\ i \in 1..(n + 1)
      BY <1>3, <1>4, <2>2
    <3> QED
      BY <1>3, <1>4, <1>5, <1>6, <3>1
  <2> QED
    BY <2>1, <2>2
<1>8. a = Pkts(q)
  BY <1>4, <1>6, <1>7, SeqEqual
<1> QED
  BY <1>8 DEF a, q

LEMMA PktsTail ==
    ASSUME NEW d \in Nat, NEW p, PipeOK(p, d), p # <<>>
    PROVE  /\ PipeOK(Tail(p), d) /\ Head(p).pkt \in Packet
           /\ Pkts(p) # <<>> /\ Head(Pkts(p)) = Head(p).pkt
           /\ Pkts(Tail(p)) = Tail(Pkts(p))
<1> DEFINE n == Len(p)
           r == Tail(p)
           a == Pkts(p)
           Cell == [pkt : Packet, left : 0..d]
<1>1. PipeOK(r, d) /\ Head(p).pkt \in Packet
  BY PipeTail
<1>2. p \in Seq(Cell)
  BY DEF PipeOK
<1>3. /\ n \in Nat /\ n # 0 /\ DOMAIN p = 1..n /\ Head(p) = p[1]
      /\ r \in Seq(Cell) /\ Len(r) = n - 1 /\ \A i \in 1..(n - 1) : r[i] = p[i + 1]
  BY <1>2, HeadTailProperties
<1>4. a \in Seq(Packet) /\ Len(a) = n /\ \A i \in 1..n : a[i] = p[i].pkt
  <2>1. a \in Seq(Packet) /\ Len(a) = n
    BY PktsType
  <2> QED
    BY <1>3, <2>1 DEF Pkts
<1>5. Pkts(r) \in Seq(Packet) /\ Len(Pkts(r)) = n - 1
      /\ \A i \in 1..(n - 1) : Pkts(r)[i] = r[i].pkt
  <2>1. Pkts(r) \in Seq(Packet) /\ Len(Pkts(r)) = Len(r)
    BY <1>1, PktsType
  <2>2. DOMAIN r = 1..(n - 1)
    BY <1>3
  <2> QED
    BY <1>3, <2>1, <2>2 DEF Pkts
<1> HIDE DEF n, r, a
<1>6. a # <<>> /\ Head(a) = p[1].pkt
  <2>1. a # <<>> /\ 1 \in 1..n
    BY <1>3, <1>4
  <2>2. Head(a) = a[1]
    BY <1>4, <2>1
  <2> QED
    BY <1>4, <2>1, <2>2
<1>7. /\ Tail(a) \in Seq(Packet) /\ Len(Tail(a)) = n - 1
      /\ \A i \in 1..(n - 1) : Tail(a)[i] = a[i + 1]
  BY <1>4, <1>6, HeadTailProperties
<1>8. \A i \in 1..Len(Tail(a)) : Tail(a)[i] = Pkts(r)[i]
  <2> TAKE i \in 1..Len(Tail(a))
  <2>1. i \in 1..(n - 1) /\ i + 1 \in 1..n
    BY <1>3, <1>7
  <2> QED
    BY <1>3, <1>4, <1>5, <1>7, <2>1, SMTT(60)
<1>9. Tail(a) = Pkts(r)
  BY <1>5, <1>7, <1>8, SeqEqual
<1> QED
  BY <1>1, <1>3, <1>6, <1>9 DEF r, a

LEMMA PktsAged ==
    ASSUME NEW d \in Nat, NEW p, PipeOK(p, d)
    PROVE  Pkts(Aged(p)) = Pkts(p)
<1> DEFINE Cell == [pkt : Packet, left : 0..d]
<1>1. p \in Seq(Cell)
  BY DEF PipeOK
<1>2. DOMAIN Aged(p) = DOMAIN p
  BY DEF Aged
<1>3. \A i \in DOMAIN p : Aged(p)[i].pkt = p[i].pkt
  <2>1. \A c \in Cell : [c EXCEPT !.left = @ - 1].pkt = c.pkt
    OBVIOUS
  <2> HIDE DEF Cell
  <2>2. \A i \in DOMAIN p : p[i] \in Cell
    BY <1>1
  <2> QED
    BY <2>1, <2>2 DEF Aged
<1> QED
  BY <1>2, <1>3 DEF Pkts

\* The types of a line and its parts.
LEMMA LineType ==
    ASSUME IInv, NEW x \in Ports
    PROVE  /\ Way(x) \in Seq(Packet) /\ At(State, x) \in Seq(Packet)
           /\ Line(x) \in Seq(Packet)
           /\ x \in Links => /\ PipeOK(cross[x], SwitchDelay[x]) /\ SwitchDelay[x] \in Nat
                             /\ PipeOK(link[x], LinkDelay[x]) /\ LinkDelay[x] \in Nat
                             /\ Pkts(cross[x]) \in Seq(Packet) /\ Pkts(link[x]) \in Seq(Packet)
           /\ queue[x] \in Seq(Packet)
           /\ x \in Outputs => At(State, x) = queue[x]
<1>1. PortsOK(State) /\ State.queue = queue
  BY DEF IInv, State
<1>2. /\ At(State, x) \in Seq(Packet) /\ queue[x] \in Seq(Packet)
      /\ x \in Outputs => At(State, x) = queue[x]
  BY <1>1, AtType
<1>3. x \in Links => /\ PipeOK(cross[x], SwitchDelay[x]) /\ SwitchDelay[x] \in Nat
                     /\ PipeOK(link[x], LinkDelay[x]) /\ LinkDelay[x] \in Nat
  BY PfcAssumption DEF IInv, PipesOK
<1>4. x \in Links => Pkts(cross[x]) \in Seq(Packet) /\ Pkts(link[x]) \in Seq(Packet)
  BY <1>3, PktsType
<1>5. Way(x) \in Seq(Packet)
  <2> DEFINE a == Pkts(cross[x])
             b == Pkts(link[x])
  <2>1. x \in Links => a \in Seq(Packet) /\ b \in Seq(Packet)
    BY <1>4
  <2>2. Way(x) = IF x \in Links THEN a \o b ELSE <<>>
    BY DEF Way
  <2> HIDE DEF a, b
  <2>3. x \in Links => a \o b \in Seq(Packet)
    BY <2>1, ConcatProperties
  <2>4. <<>> \in Seq(Packet)
    BY EmptySeq
  <2> QED
    BY <2>2, <2>3, <2>4
<1>6. Line(x) \in Seq(Packet)
  <2> DEFINE a == Way(x)
             b == At(State, x)
  <2>1. a \in Seq(Packet) /\ b \in Seq(Packet)
    BY <1>2, <1>5
  <2> HIDE DEF a, b
  <2>2. a \o b \in Seq(Packet)
    BY <2>1, ConcatProperties
  <2> QED
    BY <2>2 DEF Line, a, b
<1> QED
  BY <1>2, <1>3, <1>4, <1>5, <1>6

\* The lines after a step.
LEMMA LinesAfter ==
    ASSUME NEW t, PortsOK(t), Become(t)
    PROVE  /\ \A y \in Ports : Line(y)' = Way(y)' \o At(t, y)
           /\ queue' = t.queue /\ due' = t.due
<1>1. State' = t
  BY Becoming
<1>2. \A y \in Ports : At(State, y)' = At(t, y)
  BY <1>1 DEF At
<1>3. \A y \in Ports : Line(y)' = Way(y)' \o At(State, y)'
  BY DEF Line
<1>4. queue' = t.queue /\ due' = t.due
  BY DEF Become
<1> QED
  BY <1>2, <1>3, <1>4

\* Every packet has a budget, and no port transmits twice at a time.
Calm == Hosts \subseteq Budgeted /\ OneServiceAtATime /\ OneServiceAtATime'

\* A step: the lines of the ports in S stay as they are; a line loses packets, but not
\* in calm; host h has sent a burst; the first packet of line x moves on to the end of
\* the line behind; of what is kept of line o the first packet arrives.
LinesStay(S) == \A y \in S : Line(y)' = Line(y)
Thins(y) == Follows(Line(y)', Line(y)) /\ (Calm => Line(y)' = Line(y))
BurstSent(h) ==
    /\ sent[h] + 1 \in 1..Len(Load[h]) /\ sent' = [sent EXCEPT ![h] = @ + 1]
    /\ Line(h)' = Line(h) \o Burst(h, sent[h] + 1) /\ LinesStay(Ports \ {h})
    /\ arrived' = arrived
Ahead(x, p) == Forward[x][p.exit]
Hops(x, p) ==
    /\ Line(x) # <<>> /\ p = Head(Line(x)) /\ p \in Packet
    /\ Ahead(x, p) \in Outputs \ {x}
    /\ Line(x)' = Tail(Line(x)) /\ Line(Ahead(x, p))' = Append(Line(Ahead(x, p)), p)
    /\ LinesStay(Ports \ {x, Ahead(x, p)}) /\ UNCHANGED <<sent, arrived>>
Arrives(o, l) ==
    /\ l \in Seq(Packet) /\ l # <<>> /\ Follows(l, Line(o)) /\ (Calm => l = Line(o))
    /\ Line(o)' = Tail(l) /\ arrived' = arrived \cup {Head(l)}
    /\ \A y \in Ports \ {o} : Thins(y)
    /\ UNCHANGED sent
LinesThin == (\A y \in Ports : Thins(y)) /\ UNCHANGED <<sent, arrived>>
LineStep ==
    \/ \E h \in Hosts : BurstSent(h)
    \/ \E x \in Links, p \in Packet : Hops(x, p)
    \/ \E o \in Exits, l \in Seq(Packet) : Arrives(o, l)
    \/ LinesThin

LEMMA StayThin ==
    ASSUME LinesStay(Ports), UNCHANGED <<sent, arrived>>
    PROVE  LineStep
<1>1. \A y \in Ports : Thins(y)
  BY FollowsSelf DEF LinesStay, Thins
<1> QED
  BY <1>1 DEF LinesThin, LineStep

\* Sequences a, b and c, with packet g between the second and the third.
Regrouped(a, b, c, g) ==
    /\ Append(a \o b, g) = a \o Append(b, g)
    /\ (a \o Append(b, g)) \o c = (a \o b) \o (<<g>> \o c)

LEMMA Regroup ==
    ASSUME NEW S, NEW a \in Seq(S), NEW b \in Seq(S), NEW c \in Seq(S), NEW g \in S
    PROVE  Regrouped(a, b, c, g)
<1> DEFINE one == <<g>>
           ab == a \o b
           bg == Append(b, g)
<1>1. one \in Seq(S)
  OBVIOUS
<1>2. ab \in Seq(S) /\ bg \in Seq(S)
  BY ConcatProperties
<1>3. bg = b \o one /\ Append(ab, g) = ab \o one
  BY <1>2, AppendIsConcat
<1> HIDE DEF one, bg
<1>4. ab \o one = a \o bg
  BY <1>1, <1>3, ConcatAssociative, SMTT(60) DEF ab
<1> HIDE DEF ab
<1>5. (ab \o one) \o c = ab \o (one \o c)
  BY <1>1, <1>2, ConcatAssociative, SMTT(60)
<1> QED
  BY <1>3, <1>4, <1>5 DEF ab, bg, one, Regrouped

\* The same for packets.
Associated(a, b, c) == (a \o b) \o c = a \o (b \o c)

LEMMA Associate ==
    ASSUME NEW a \in Seq(Packet), NEW b \in Seq(Packet), NEW c \in Seq(Packet)
    PROVE  Associated(a, b, c)
<1> DEFINE S == Packet
<1>1. a \in Seq(S) /\ b \in Seq(S) /\ c \in Seq(S)
  OBVIOUS
<1> HIDE DEF S
<1>2. (a \o b) \o c = a \o (b \o c)
  BY <1>1, ConcatAssociative, SMTT(60)
<1> QED
  BY <1>2 DEF Associated

LEMMA HostSendsLines ==
    ASSUME IInv, NEW h \in Hosts, HostSends(h)
    PROVE  BurstSent(h)
<1> DEFINE burst == Burst(h, sent[h] + 1)
           q == queue[h] \o burst
           n == Len(burst)
           z == size[h] + Mtu * n
           held == Held(State, h, q, z)
           t == IF size[h] = 0 /\ send[h] = "READY" THEN BeginService(held, h) ELSE held
           g == sending[h]
<1>1. /\ h \in Ports /\ h \notin Outputs /\ PortsOK(State)
      /\ sent' = [sent EXCEPT ![h] = @ + 1] /\ sent[h] + 1 \in 1..Len(Load[h])
      /\ arrived' = arrived
  <2>1. sent[h] \in Nat /\ sent[h] < Len(Load[h]) /\ Len(Load[h]) \in Nat
    BY PfcAssumption DEF IInv, HostSends
  <2> QED
    BY <2>1, LinkPorts DEF IInv, HostSends
<1>2. burst \in Seq(Packet)
  BY <1>1, BurstType, Zenon
<1>3. Become(t)
  BY DEF HostSends, Held, State
<1>4. \A y \in Ports : Way(y)' = Way(y)
  BY DEF HostSends, Way, pipeVars
<1> HIDE DEF burst
<1>5. State.queue = queue /\ State.size = size /\ State.send = send /\ State.sending = sending
  BY DEF State
<1>6. /\ queue[h] \in Seq(Packet) /\ PortOK(h, queue[h], size[h], send[h], g, due[h])
  BY <1>1, <1>5, PortTypes DEF State
<1>7. q \in Seq(Packet) /\ n \in Nat /\ Len(q) = Len(State.queue[h]) + n
      /\ z = State.size[h] + Mtu * n
  BY <1>2, <1>5, <1>6
<1> HIDE DEF q, n, z
<1>8. PortsOK(held) /\ held.sending[h] = g
  <2>1. PortsOK(held) /\ held.sending[h] = State.sending[h]
    <3>1. h \in Ports /\ PortsOK(State)
      BY <1>1
    <3> HIDE DEF held
    <3>2. /\ PortsOK(Held(State, h, q, z))
          /\ Held(State, h, q, z).sending[h] = State.sending[h]
      BY <3>1, <1>7, HeldOK, SMTT(60)
    <3> QED
      BY <3>2 DEF held
  <2> QED
    BY <1>5, <2>1
<1>9. /\ \A y \in Ports \ {h} : At(held, y) = At(State, y)
      /\ At(held, h) = At(State, h) \o burst
  <2>1. held = Put(State, h, q, z, State.sending[h], State.due[h])
    BY <1>1, HeldFields
  <2>2. /\ \A y \in Ports \ {h} : Alike(held, State, y)
        /\ At(held, h) = Having(h, q, g)
    <3> HIDE DEF held
    <3> QED
      BY <1>1, <1>5, <2>1, PutAt
  <2>3. At(State, h) = Having(h, queue[h], g)
    BY <1>5 DEF At
  <2>4. CASE g = NoPacket
    BY <2>2, <2>3, <2>4, AlikeAt DEF Having, q
  <2>5. CASE g # NoPacket
    <3> DEFINE one == <<g>>
    <3>1. one \in Seq(Packet)
      BY <1>6, <2>5 DEF PortOK
    <3> HIDE DEF one, held
    <3>2. one \o (queue[h] \o burst) = (one \o queue[h]) \o burst
      BY <1>2, <1>6, <3>1, Associate, Zenon DEF Associated
    <3> QED
      BY <2>2, <2>3, <2>5, <3>2, AlikeAt DEF one, Having, q
  <2> QED
    BY <2>4, <2>5
<1> HIDE DEF held
<1>10. PortsOK(t) /\ \A y \in Ports : At(t, y) = At(held, y)
  <2>1. CASE size[h] = 0 /\ send[h] = "READY"
    <3>1. g = NoPacket
      <4> DEFINE m == Mtu * Len(queue[h])
      <4>1. m \in Nat /\ Mtu \in Nat /\ Mtu # 0
        BY <1>6, PfcAssumption
      <4>2. size[h] >= m + (IF g = NoPacket THEN 0 ELSE Mtu)
        BY <1>6 DEF PortOK
      <4> HIDE DEF m
      <4> QED
        BY <2>1, <4>1, <4>2
    <3>2. PortsOK(BeginService(held, h))
      BY <1>1, <1>8, BeginOK
    <3>3. \A y \in Ports : At(BeginService(held, h), y) = At(held, y)
      BY <1>1, <1>8, <3>1, BeginAt, AlikeAt
    <3> QED
      BY <2>1, <3>2, <3>3
  <2>2. CASE ~(size[h] = 0 /\ send[h] = "READY")
    BY <1>8, <2>2
  <2> QED
    BY <2>1, <2>2
<1> HIDE DEF t
<1>11. \A y \in Ports : Line(y)' = Way(y)' \o At(t, y)
  BY <1>3, <1>10, LinesAfter
<1>12. LinesStay(Ports \ {h})
  BY <1>4, <1>9, <1>10, <1>11 DEF LinesStay, Line
<1>13. Line(h)' = Line(h) \o burst
  <2> DEFINE a == Way(h)
             b == At(State, h)
  <2>1. a \in Seq(Packet) /\ b \in Seq(Packet)
    BY <1>1, LineType
  <2>2. Line(h)' = a \o (b \o burst) /\ Line(h) = a \o b
    BY <1>1, <1>4, <1>9, <1>10, <1>11 DEF Line
  <2> HIDE DEF a, b
  <2> QED
    BY <1>2, <2>1, <2>2, ConcatAssociative, SMTT(60)
<1> QED
  BY <1>1, <1>12, <1>13 DEF BurstSent, burst

LEMMA HostCompletesLines ==
    ASSUME IInv, NEW h \in Hosts, HostCompletes(h)
    PROVE  LinesStay(Ports) /\ UNCHANGED <<sent, arrived>>
<1> DEFINE u == Tail(due[h])
           woken == Woken(State, h, u)
           z == woken.size[h] - Mtu
           spent == Spent(woken, h, z, NoPacket)
           g == sending[h]
<1>1. /\ h \in Ports /\ h \in Links /\ h \notin Outputs /\ h \notin Exits /\ PortsOK(State)
      /\ due[h] # <<>> /\ UNCHANGED <<sent, cross>>
  BY LinkPorts, PfcAssumption DEF IInv, HostCompletes
<1>2. /\ State.queue = queue /\ State.size = size /\ State.send = send
      /\ State.sending = sending /\ State.due = due
  BY DEF State
<1>3. /\ PortOK(h, queue[h], size[h], send[h], g, due[h])
      /\ queue[h] \in Seq(Packet) /\ size[h] \in Nat /\ due[h] \in Seq(0..TxTime)
      /\ Sorted(due[h])
  BY <1>1, <1>2, PortTypes
<1>4. u \in Seq(0..TxTime) /\ Sorted(u)
  BY <1>1, <1>3, SortedTail, PfcAssumption
<1> HIDE DEF u
<1>5. woken = Put(State, h, queue[h], size[h], g, u)
  <2>1. woken = Put(State, h, State.queue[h], State.size[h], State.sending[h], u)
    BY <1>1, WokenFields
  <2> QED
    BY <1>2, <2>1
<1> HIDE DEF woken
<1>6. /\ PortsOK(woken) /\ woken.queue[h] = queue[h] /\ woken.size[h] = size[h]
      /\ woken.sending[h] = g /\ woken.due[h] = u /\ woken.send = send
  <2>1. PortOK(h, queue[h], size[h], State.send[h], g, u)
    BY <1>1, <1>2, <1>3, <1>4 DEF PortOK
  <2> QED
    BY <1>1, <1>2, <1>5, <2>1, SetOK
<1>7. /\ At(State, h) = Having(h, queue[h], g)
      /\ \A y \in Ports : At(woken, y) = At(State, y)
  <2>1. At(State, h) = Having(h, queue[h], g)
    BY <1>2 DEF At
  <2>2. /\ \A y \in Ports \ {h} : Alike(woken, State, y)
        /\ At(woken, h) = Having(h, queue[h], g)
    BY <1>1, <1>5, PutAt
  <2>3. \A y \in Ports \ {h} : At(woken, y) = At(State, y)
    BY <2>2, AlikeAt
  <2> QED
    BY <2>1, <2>2, <2>3
\* A step that leaves packets where they are.
<1>8. \A t : PortsOK(t) /\ Become(t) /\ (\A y \in Ports : At(t, y) = At(State, y))
             /\ UNCHANGED <<link, arrived>>
               => LinesStay(Ports) /\ UNCHANGED <<sent, arrived>>
  <2> SUFFICES ASSUME NEW t, PortsOK(t), Become(t),
                      \A y \in Ports : At(t, y) = At(State, y), UNCHANGED <<link, arrived>>
               PROVE  LinesStay(Ports) /\ UNCHANGED <<sent, arrived>>
    OBVIOUS
  <2>1. \A y \in Ports : Way(y)' = Way(y)
    BY <1>1 DEF Way
  <2>2. \A y \in Ports : Line(y)' = Way(y)' \o At(t, y)
    BY LinesAfter
  <2> QED
    BY <1>1, <2>1, <2>2 DEF LinesStay, Line
<1>9. CASE send[h] = "PAUSED"
  <2>1. Become(woken) /\ UNCHANGED <<link, arrived>>
    BY <1>9 DEF HostCompletes, Woken, State, woken, u
  <2> QED
    BY <1>6, <1>7, <1>8, <2>1
<1>10. CASE send[h] # "PAUSED" /\ g = NoPacket
  <2> DEFINE t == ServeOn(woken, h)
  <2>1. Become(t) /\ UNCHANGED <<link, arrived>>
    BY <1>10 DEF HostCompletes, Woken, State, woken, u
  <2>2. PortsOK(t) /\ \A y \in Ports : At(t, y) = At(woken, y)
    BY <1>1, <1>6, <1>10, ServeOnAt, ServeOnOK
  <2> HIDE DEF t
  <2> QED
    BY <1>7, <1>8, <2>1, <2>2
<1>11. CASE send[h] # "PAUSED" /\ g # NoPacket
  <2> DEFINE t == ServeOn(spent, h)
             e == [pkt |-> g, left |-> LinkDelay[h]]
  <2>1. Become(t) /\ Transmit(h, g)
    BY <1>11 DEF HostCompletes, Woken, Spent, State, woken, u
  <2>2. PortOK(h, queue[h], z, send[h], NoPacket, u) /\ g \in Packet
    <3> DEFINE m == Mtu * Len(queue[h])
    <3>1. g \in Packet /\ size[h] >= m + Mtu
      BY <1>3, <1>11 DEF PortOK
    <3>2. m \in Nat /\ Mtu \in Nat /\ z = size[h] - Mtu
      BY <1>3, <1>6, PfcAssumption
    <3> HIDE DEF m, z
    <3>3. z \in Nat /\ z >= m + 0
      BY <1>3, <3>1, <3>2
    <3>4. PortOK(h, queue[h], z, send[h], NoPacket, u)
      BY <1>1, <1>3, <1>4, <3>3 DEF PortOK, m
    <3> QED
      BY <3>1, <3>4
  <2> HIDE DEF z
  <2>3. spent = Put(woken, h, queue[h], z, NoPacket, u)
    <3>1. spent = Put(woken, h, woken.queue[h], z, NoPacket, woken.due[h])
      BY <1>1, <1>6, SpentFields
    <3> QED
      BY <1>6, <3>1
  <2> HIDE DEF spent
  <2>4. /\ PortsOK(spent) /\ spent.sending[h] = NoPacket
        /\ \A y \in Ports \ {h} : At(spent, y) = At(State, y)
        /\ At(spent, h) = queue[h]
    <3>1. PortOK(h, queue[h], z, woken.send[h], NoPacket, u)
      BY <1>6, <2>2
    <3>2. PortsOK(spent)
      BY <1>1, <1>6, <2>3, <3>1, SetOK
    <3>3. /\ \A y \in Ports \ {h} : Alike(spent, woken, y)
          /\ spent.sending[h] = NoPacket /\ At(spent, h) = queue[h]
      <4>1. /\ \A y \in Ports \ {h} : Alike(spent, woken, y)
            /\ spent.sending[h] = NoPacket /\ At(spent, h) = Having(h, queue[h], NoPacket)
        BY <1>1, <1>6, <2>3, PutAt
      <4> QED
        BY <4>1 DEF Having
    <3>4. \A y \in Ports \ {h} : At(spent, y) = At(woken, y)
      BY <3>3, AlikeAt
    <3> QED
      BY <1>7, <3>2, <3>3, <3>4
  <2>5. PortsOK(t) /\ \A y \in Ports : At(t, y) = At(spent, y)
    BY <1>1, <2>4, ServeOnAt, ServeOnOK
  <2> HIDE DEF t
  <2>6. \A y \in Ports : Line(y)' = Way(y)' \o At(t, y)
    BY <2>1, <2>5, LinesAfter
  <2>7. link' = [link EXCEPT ![h] = Append(@, e)] /\ arrived' = arrived
    BY <1>1, <2>1 DEF Transmit
  <2>8. link = [y \in Links |-> link[y]]
    BY DEF IInv, PipesOK
  <2>9. \A y \in Ports \ {h} : Way(y)' = Way(y)
    BY <1>1, <2>7, <2>8 DEF Way
  <2>10. Line(h)' = Line(h)
    <3> DEFINE a == Pkts(cross[h])
               b == Pkts(link[h])
               more == Append(link[h], e)
    <3>1. /\ a \in Seq(Packet) /\ b \in Seq(Packet) /\ PipeOK(link[h], LinkDelay[h])
          /\ LinkDelay[h] \in Nat
      BY <1>1, LineType
    <3>2. Pkts(more) = Append(b, g)
      <4> DEFINE d == LinkDelay[h]
                 p == link[h]
      <4>1. PipeOK(p, d) /\ d \in Nat /\ more = Joined(p, g, d)
        BY <3>1 DEF Joined
      <4> HIDE DEF d, more
      <4>2. Pkts(more) = Append(Pkts(p), g)
        BY <2>2, <4>1, PktsAppend, Zenon
      <4> QED
        BY <4>2
    <3>3. cross'[h] = cross[h] /\ link'[h] = more
      BY <1>1, <2>7, <2>8
    <3> HIDE DEF more
    <3>4. Way(h)' = a \o Append(b, g) /\ Way(h) = a \o b
      BY <1>1, <3>2, <3>3 DEF Way
    <3>5. Line(h) = (a \o b) \o (<<g>> \o queue[h]) /\ Line(h)' = (a \o Append(b, g)) \o queue[h]
      BY <1>1, <1>7, <1>11, <2>4, <2>5, <2>6, <3>4 DEF Line, Having
    <3> DEFINE c == queue[h]
    <3> HIDE DEF a, b, c
    <3>6. c \in Seq(Packet) /\ g \in Packet
      BY <1>3, <2>2 DEF c
    <3> HIDE DEF g
    <3>7. Regrouped(a, b, c, g)
      BY <3>1, <3>6, Regroup, Zenon
    <3> QED
      BY <3>5, <3>7 DEF c, g, Regrouped
  <2>11. \A y \in Ports \ {h} : Line(y)' = Line(y)
    BY <2>4, <2>5, <2>6, <2>9 DEF Line
  <2>12. \A y \in Ports : Line(y)' = Line(y)
    BY <2>10, <2>11, Zenon
  <2> QED
    BY <1>1, <2>7, <2>12, Zenon DEF LinesStay
<1> QED
  BY <1>9, <1>10, <1>11

\* From one pipe of a link to the next a packet keeps its place.
LEMMA ReachesInputLines ==
    ASSUME IInv, NEW x \in Links, ReachesInput(x)
    PROVE  LinesStay(Ports) /\ UNCHANGED <<sent, arrived>>
<1> DEFINE p == Head(link[x]).pkt
           more == Append(cross[x], [pkt |-> p, left |-> SwitchDelay[x]])
           t == ReceivePause(State, x)
<1>1. /\ x \in Ports /\ PortsOK(State) /\ link[x] # <<>>
      /\ link = [y \in Links |-> link[y]] /\ cross = [y \in Links |-> cross[y]]
      /\ link' = [link EXCEPT ![x] = Tail(@)] /\ cross' = [cross EXCEPT ![x] = more]
      /\ Become(t) \/ UNCHANGED <<queue, size, send, sending, due>>
      /\ UNCHANGED <<sent, arrived>>
  BY LinkPorts DEF IInv, PipesOK, ReachesInput
<1>2. PortsOK(t) /\ \A y \in Ports : At(t, y) = At(State, y)
  BY <1>1, ReceivePauseAt, ReceivePauseOK
<1> HIDE DEF t
<1>3. \A y \in Ports : Line(y)' = Way(y)' \o At(State, y)
  <2>1. CASE Become(t)
    BY <1>2, <2>1, LinesAfter
  <2>2. CASE UNCHANGED <<queue, size, send, sending, due>>
    BY <2>2 DEF Line, At, State
  <2> QED
    BY <1>1, <2>1, <2>2
<1>4. \A y \in Ports : Way(y)' = Way(y)
  <2> DEFINE a == Pkts(cross[x])
             b == Pkts(link[x])
             d == LinkDelay[x]
             e == SwitchDelay[x]
             l == link[x]
             c == cross[x]
  <2>1. /\ PipeOK(c, e) /\ e \in Nat /\ PipeOK(l, d) /\ d \in Nat
        /\ a \in Seq(Packet) /\ b \in Seq(Packet)
    BY <1>1, LineType
  <2>2. more = Joined(c, p, e)
    BY DEF Joined
  <2>3. cross'[x] = more /\ link'[x] = Tail(l) /\ l # <<>>
    BY <1>1
  <2> HIDE DEF d, e, more
  <2>4. p \in Packet /\ b # <<>> /\ Head(b) = p /\ Pkts(Tail(l)) = Tail(b)
    BY <2>1, <2>3, PktsTail
  <2> HIDE DEF p
  <2>5. Pkts(more) = Append(a, p)
    BY <2>1, <2>2, <2>4, PktsAppend
  <2>6. Way(x)' = Append(a, p) \o Tail(b) /\ Way(x) = a \o b
    BY <2>3, <2>4, <2>5 DEF Way
  <2> HIDE DEF a, b
  <2>7. Append(a, Head(b)) \o Tail(b) = a \o b
    BY <2>1, <2>4, Shift
  <2>8. \A y \in Ports \ {x} : Way(y)' = Way(y)
    BY <1>1 DEF Way
  <2> QED
    BY <2>4, <2>6, <2>7, <2>8
<1> QED
  BY <1>1, <1>3, <1>4 DEF LinesStay, Line

\* At the end of its link a packet changes lines, and the output notes its input.
Enters(x, p) ==
    LET o == Ahead(x, p)
    IN  /\ \A r \in Outputs : queue'[r] = IF r = o THEN Append(queue[r], p) ELSE queue[r]
        /\ vq' = [vq EXCEPT ![o] = Append(@, x)]

LEMMA ReachesOutputLines ==
    ASSUME IInv, NEW x \in Links, ReachesOutput(x)
    PROVE  \E p \in Packet : Hops(x, p) /\ Enters(x, p)
<1>0. PICK p \in Packet : p = Head(cross[x]).pkt
  <2> DEFINE d == SwitchDelay[x]
             k == cross[x]
  <2>1. PipeOK(k, d) /\ d \in Nat /\ k # <<>>
    BY LinkPorts, LineType, ZenonT(60) DEF ReachesOutput
  <2> HIDE DEF d
  <2> QED
    BY <2>1, PktsTail
<1> DEFINE left == Tail(cross[x])
           o == Ahead(x, p)
           q == Append(queue[o], p)
           z == size[o] + Mtu
           held == Held(State, o, q, z)
           t == IF queue[o] = <<>> /\ send[o] = "READY" THEN BeginService(held, o) ELSE held
<1>1. /\ x \in Ports /\ PortsOK(State)
      /\ cross[x] # <<>> /\ cross = [y \in Links |-> cross[y]]
      /\ cross' = [cross EXCEPT ![x] = left] /\ Become(t)
      /\ UNCHANGED <<sent, link, arrived>>
  BY <1>0, LinkPorts DEF IInv, PipesOK, ReachesOutput, Held, State, Ahead
<1> DEFINE a == Pkts(cross[x])
           b == Pkts(link[x])
           c == At(State, x)
           ab == a \o b
<1>2. a \in Seq(Packet) /\ b \in Seq(Packet) /\ c \in Seq(Packet)
      /\ Line(x) = ab \o c
  <2>1. /\ a \in Seq(Packet) /\ b \in Seq(Packet) /\ c \in Seq(Packet)
    BY <1>1, LineType
  <2> QED
    BY <2>1 DEF Line, Way
<1>3. a # <<>> /\ Head(a) = p /\ Pkts(left) = Tail(a)
  <2> DEFINE d == SwitchDelay[x]
             k == cross[x]
  <2>1. PipeOK(k, d) /\ d \in Nat /\ k # <<>>
    BY <1>1, LineType
  <2> HIDE DEF d
  <2> QED
    BY <1>0, <2>1, PktsTail
<1>4. o \in Outputs /\ o \in Ports /\ o \notin Hosts /\ o # x
  <2>1. p.exit \in Exits
    BY DEF Packet
  <2>2. o \in Outputs /\ o \in Ports /\ o \notin Hosts
    BY <2>1, LinkPorts DEF Ahead
  <2>3. Forward[x][p.exit] \notin {x}
    BY <2>1, RoutesEnd
  <2> QED
    BY <2>2, <2>3 DEF Ahead
<1> HIDE DEF o
\* The line the packet leaves.
<1> HIDE DEF a, b, c, left
<1>5. ab \in Seq(Packet) /\ ab # <<>> /\ Head(ab) = p /\ Tail(ab) = Tail(a) \o b
  BY <1>2, <1>3, ConcatProperties, HeadOfConcat
<1> HIDE DEF ab
<1>6. Line(x) # <<>> /\ Head(Line(x)) = p /\ Tail(Line(x)) = (Tail(a) \o b) \o c
  <2>1. /\ ab \o c # <<>> /\ Head(ab \o c) = Head(ab)
        /\ Tail(ab \o c) = Tail(ab) \o c
    BY <1>2, <1>5, HeadOfConcat
  <2> QED
    BY <1>2, <1>5, <2>1
\* The ports.
<1>7. /\ State.queue = queue /\ State.size = size /\ State.send = send
      /\ State.sending = sending
  BY DEF State
<1>8. /\ PortOK(o, queue[o], size[o], send[o], sending[o], due[o])
      /\ queue[o] \in Seq(Packet) /\ size[o] \in Nat
  BY <1>1, <1>4, <1>7, PortTypes DEF State
<1>9. /\ q \in Seq(Packet) /\ Len(q) = Len(State.queue[o]) + 1 /\ q # <<>>
      /\ z = State.size[o] + Mtu * 1
  <2>1. Len(State.queue[o]) = Len(queue[o]) /\ State.size[o] = size[o]
    BY <1>7
  <2>2. q \in Seq(Packet) /\ Len(q) = Len(queue[o]) + 1 /\ q # <<>>
    BY <1>8
  <2>3. Mtu * 1 = Mtu
    BY PfcAssumption
  <2> QED
    BY <2>1, <2>2, <2>3
<1> HIDE DEF q, z
<1>10. /\ PortsOK(held) /\ held.queue[o] = q /\ held.sending[o] = sending[o]
       /\ held.send = send
       /\ \A y \in Ports \ {o} : held.queue[y] = queue[y]
  BY <1>1, <1>4, <1>7, <1>9, HeldOK, SMTT(60)
<1>11. /\ \A y \in Ports \ {o} : At(held, y) = At(State, y)
       /\ At(held, o) = q
  <2>1. held = Put(State, o, q, z, State.sending[o], State.due[o])
    BY <1>1, <1>4, HeldFields
  <2> HIDE DEF held
  <2>2. \A y \in Ports \ {o} : Alike(held, State, y)
    BY <1>1, <1>4, <2>1, PutAt
  <2> QED
    BY <1>4, <1>10, <2>2, AlikeAt, AtType
<1> HIDE DEF held
<1>12. /\ PortsOK(t) /\ \A y \in Ports : At(t, y) = At(held, y)
       /\ \A y \in Outputs : t.queue[y] = held.queue[y]
  <2>1. CASE queue[o] = <<>> /\ send[o] = "READY"
    <3>1. sending[o] = NoPacket
      BY <1>4, <1>8, <2>1 DEF PortOK
    <3>2. PortsOK(BeginService(held, o)) /\ Untouched(held, BeginService(held, o))
      BY <1>4, <1>9, <1>10, <2>1, <3>1, BeginOK
    <3>3. \A y \in Ports : At(BeginService(held, o), y) = At(held, y)
      BY <1>4, <1>10, BeginAt, AlikeAt
    <3> QED
      BY <2>1, <3>2, <3>3 DEF Untouched
  <2>2. CASE ~(queue[o] = <<>> /\ send[o] = "READY")
    BY <1>10, <2>2
  <2> QED
    BY <2>1, <2>2
<1> HIDE DEF t
<1>13. \A y \in Ports : Line(y)' = Way(y)' \o At(t, y)
  BY <1>1, <1>12, LinesAfter
<1>14. \A y \in Ports \ {x} : Way(y)' = Way(y)
  BY <1>1 DEF Way
<1>15. Way(x)' = Tail(a) \o b
  <2>1. cross'[x] = left /\ link'[x] = link[x]
    BY <1>1
  <2> QED
    BY <1>3, <2>1 DEF Way, b
<1>16. Line(x)' = Tail(Line(x))
  BY <1>1, <1>4, <1>6, <1>11, <1>12, <1>13, <1>15 DEF c
<1>17. Line(o)' = Append(Line(o), p)
  <2> DEFINE w == Way(o)
             s == queue[o]
  <2>1. Line(o)' = w \o Append(s, p)
    <3>1. Line(o)' = Way(o)' \o At(t, o)
      BY <1>4, <1>13
    <3>2. At(t, o) = q /\ Way(o)' = Way(o)
      BY <1>4, <1>11, <1>12, <1>14
    <3> QED
      BY <3>1, <3>2 DEF q
  <2>2. Line(o) = w \o s /\ w \in Seq(Packet) /\ s \in Seq(Packet)
    BY <1>4, LineType DEF Line
  <2> HIDE DEF w, s
  <2>3. Regrouped(w, s, s, p)
    BY <2>2, Regroup, Zenon
  <2>4. Append(w \o s, p) = w \o Append(s, p)
    BY <2>3 DEF Regrouped
  <2> QED
    BY <2>1, <2>2, <2>4, Zenon
<1>18. LinesStay(Ports \ {x, o})
  BY <1>11, <1>12, <1>13, <1>14 DEF LinesStay, Line
<1>19. \A r \in Outputs : queue'[r] = IF r = o THEN Append(queue[r], p) ELSE queue[r]
  <2>1. queue' = t.queue
    BY <1>1, <1>12, LinesAfter
  <2> QED
    BY <1>4, <1>10, <1>12, <2>1 DEF Ports, q
<1>20. Hops(x, p)
  BY <1>1, <1>4, <1>6, <1>16, <1>17, <1>18 DEF Hops, o
<1>21. Enters(x, p)
  <2>1. vq' = [vq EXCEPT ![o] = Append(@, x)]
    BY <1>0 DEF ReachesOutput, o, Ahead
  <2> QED
    BY <1>19, <2>1, SMTT(60) DEF Enters, o
<1> QED
  BY <1>20, <1>21

\* Time passes: the pipes hold the same packets.
LEMMA TickLines ==
    ASSUME IInv, Tick
    PROVE  LinesStay(Ports) /\ UNCHANGED <<sent, arrived>>
<1>1. /\ link' = [x \in Links |-> Aged(link[x])]
      /\ cross' = [x \in Links |-> Aged(cross[x])]
      /\ UNCHANGED <<sent, queue, sending, arrived>>
  BY DEF Tick
<1>2. \A y \in Ports : At(State, y)' = At(State, y)
  BY <1>1 DEF At, State
<1>3. \A y \in Ports : Way(y)' = Way(y)
  <2> TAKE y \in Ports
  <2>1. CASE y \in Links
    <3> DEFINE d == LinkDelay[y]
               e == SwitchDelay[y]
               l == link[y]
               c == cross[y]
    <3>1. PipeOK(l, d) /\ d \in Nat /\ PipeOK(c, e) /\ e \in Nat
      BY <2>1, LineType
    <3> HIDE DEF d, e
    <3>2. Pkts(Aged(l)) = Pkts(l) /\ Pkts(Aged(c)) = Pkts(c)
      BY <3>1, PktsAged
    <3>3. link'[y] = Aged(l) /\ cross'[y] = Aged(c)
      BY <1>1, <2>1
    <3> QED
      BY <2>1, <3>2, <3>3 DEF Way
  <2>2. CASE y \notin Links
    BY <2>2 DEF Way
  <2> QED
    BY <2>1, <2>2
<1> QED
  BY <1>1, <1>2, <1>3 DEF LinesStay, Line

\* A completion of output o: of what is kept of the queue the first packet leaves. The
\* list of inputs loses an entry if there is one.
Leaves(o, l) ==
    /\ l \in Seq(Packet) /\ Follows(l, queue[o]) /\ (Hosts \subseteq Budgeted => l = queue[o])
    /\ \A r \in Outputs : queue'[r] = IF r # o THEN queue[r]
                                      ELSE IF l = <<>> THEN <<>> ELSE Tail(l)
    /\ vq' = IF l = <<>> THEN vq ELSE [vq EXCEPT ![o] = Tail(@)]

LEMMA OutputCompletesLines ==
    ASSUME IInv, NEW o \in Outputs, OutputCompletes(o)
    PROVE  LineStep /\ \E l \in Seq(Packet) : Leaves(o, l)
<1> DEFINE s == queue[o]
           u == Tail(due[o])
<1>1. /\ PortsOK(State) /\ o \in Ports /\ o \notin Hosts /\ due[o] # <<>>
      /\ UNCHANGED <<sent, cross>>
      /\ State.queue = queue /\ State.size = size /\ State.send = send
      /\ State.sending = sending /\ State.due = due
  BY LinkPorts DEF IInv, OutputCompletes, State, Ports
<1>2. s \in Seq(Packet)
  BY <1>1, LineType
<1>3. PICK l \in Seq(Packet) : l = Kept(o) /\ Len(l) <= Len(s)
  BY <1>2, KeptFits
<1>4. Follows(l, s) /\ (Hosts \subseteq Budgeted => l = s)
  BY <1>2, <1>3, KeptFollows, KeptAll
<1> DEFINE k == Mtu * Len(l)
           swept == Swept(State, o, l, k, NoPacket, u)
           rest == Tail(l)
           z == swept.size[o] - Mtu
           left == Held(swept, o, rest, z)
           served == ServeOn(left, o)
<1>5. IF l = <<>>
      THEN Become(swept) /\ UNCHANGED <<vq, link, arrived>>
      ELSE /\ CompletedService(Credited(o), served)
           /\ vq' = [vq EXCEPT ![o] = Tail(@)]
           /\ Transmit(o, Head(l))
  BY <1>3 DEF OutputCompletes, Swept, Held, State, inputVars
<1>6. /\ PortOK(o, s, size[o], send[o], sending[o], due[o])
      /\ due[o] \in Seq(0..TxTime) /\ Sorted(due[o]) /\ send[o] \in Sends
  BY <1>1, PortTypes
<1>7. u = <<>>
  <2>1. Len(due[o]) = IF sending[o] = NoPacket THEN 0 ELSE 1
    BY <1>6 DEF PortOK
  <2> QED
    BY <1>1, <1>6, <2>1
<1>8. swept = Put(State, o, l, k, NoPacket, u)
  BY <1>1, SweptFields
<1> HIDE DEF u, swept
<1>9. PortOK(o, l, k, send[o], NoPacket, u)
  <2>1. k = Mtu * Len(l)
    OBVIOUS
  <2> HIDE DEF k
  <2> QED
    BY <1>2, <1>3, <1>6, <1>7, <2>1, IdleOutputOK
<1> HIDE DEF k
<1>10. /\ PortsOK(swept) /\ swept.queue[o] = l /\ swept.size[o] = k
       /\ swept.sending[o] = NoPacket /\ swept.due[o] = u /\ swept.send = send
       /\ \A y \in Ports \ {o} : swept.queue[y] = queue[y]
  BY <1>1, <1>8, <1>9, SetOK
<1>11. \A y \in Ports \ {o} : Alike(swept, State, y)
  BY <1>1, <1>8, PutAt
<1>12. Line(o) = Way(o) \o s /\ Way(o) \in Seq(Packet)
  BY <1>1, LineType DEF Line
<1>13. CASE l = <<>>
  <2>1. \A y \in Ports : Way(y)' = Way(y)
    BY <1>1, <1>5, <1>13 DEF Way
  <2>2. \A y \in Ports : Line(y)' = Way(y)' \o At(swept, y)
    BY <1>5, <1>10, <1>13, LinesAfter
  <2>3. At(swept, o) = l
    BY <1>1, <1>10, AtType
  <2>4. \A y \in Ports \ {o} : Line(y)' = Line(y)
    BY <1>11, <2>1, <2>2, AlikeAt, ZenonT(60) DEF Line
  <2>5. Thins(o)
    <3> DEFINE w == Way(o)
    <3>1. Line(o)' = w \o l /\ Line(o) = w \o s /\ w \in Seq(Packet)
      BY <1>1, <1>12, <2>1, <2>2, <2>3
    <3> HIDE DEF w, s
    <3>2. Follows(w \o l, w \o s)
      BY <1>2, <1>4, <3>1, FollowsBehind
    <3> QED
      BY <1>4, <3>1, <3>2 DEF Thins, Calm
  <2>6. LinesThin
    <3>1. \A y \in Ports \ {o} : Thins(y)
      BY <2>4, FollowsSelf DEF Thins
    <3>2. \A y \in Ports : Thins(y)
      BY <2>5, <3>1
    <3> QED
      BY <1>1, <1>5, <1>13, <3>2 DEF LinesThin
  <2>7. Leaves(o, l)
    <3>1. queue' = swept.queue
      BY <1>5, <1>10, <1>13, LinesAfter
    <3> QED
      BY <1>4, <1>5, <1>10, <1>13, <3>1 DEF Leaves, Ports
  <2> QED
    BY <2>6, <2>7 DEF LineStep
<1>14. CASE l # <<>>
  <2>1. /\ CompletedService(Credited(o), served) /\ Transmit(o, Head(l))
        /\ vq' = [vq EXCEPT ![o] = Tail(@)]
    BY <1>5, <1>14
  <2>2. /\ rest \in Seq(Packet) /\ Len(rest) = Len(l) - 1 /\ Head(l) \in Packet
        /\ Len(l) \in Nat
    BY <1>14
  <2>3. PortOK(o, rest, z, send[o], NoPacket, u)
    <3> DEFINE n == Len(l)
               m == Len(rest)
    <3>1. z = Mtu * n - Mtu
      BY <1>10 DEF k
    <3>2. \A a, b \in Int : a * b - a = a * (b - 1)
      OBVIOUS
    <3>3. m = n - 1 /\ n \in Nat /\ m \in Nat /\ Mtu \in Nat
      BY <2>2, PfcAssumption
    <3> HIDE DEF n, m
    <3>4. z = Mtu * m
      BY <3>1, <3>2, <3>3
    <3> HIDE DEF z, rest
    <3>5. z = Mtu * Len(rest)
      BY <3>4 DEF m
    <3> QED
      BY <1>6, <1>7, <2>2, <3>5, IdleOutputOK
  <2> HIDE DEF z, rest
  <2>4. left = Put(swept, o, rest, z, NoPacket, u)
    <3>1. left = Put(swept, o, rest, z, swept.sending[o], swept.due[o])
      BY <1>1, <1>10, HeldFields
    <3> QED
      BY <1>10, <3>1
  <2> HIDE DEF left
  <2>5. /\ PortsOK(left) /\ left.sending[o] = NoPacket /\ left.queue[o] = rest
        /\ \A y \in Ports \ {o} : left.queue[y] = swept.queue[y]
    <3>1. PortOK(o, rest, z, swept.send[o], NoPacket, u)
      BY <1>10, <2>3
    <3> QED
      BY <1>1, <1>10, <2>4, <3>1, SetOK
  <2>6. \A y \in Ports \ {o} : Alike(left, State, y)
    <3>1. \A y \in Ports \ {o} : Alike(left, swept, y)
      BY <1>1, <1>10, <2>4, PutAt
    <3> QED
      BY <1>11, <3>1 DEF Alike
  <2>7. /\ PortsOK(served) /\ \A y \in Ports : At(served, y) = At(left, y)
        /\ \A y \in Ports \ {o} : Alike(served, State, y)
        /\ \A r \in Outputs : served.queue[r] = left.queue[r]
    <3>1. /\ \A y \in Ports : At(served, y) = At(left, y)
          /\ \A y \in Ports \ {o} : Alike(served, left, y)
      BY <1>1, <2>5, ServeOnAt
    <3>2. PortsOK(served) /\ \A r \in Outputs : served.queue[r] = left.queue[r]
      BY <1>1, <2>5, ServeOnOK
    <3> QED
      BY <2>6, <3>1, <3>2 DEF Alike
  <2> HIDE DEF served
  <2>8. PICK c \in Links : c = Credited(o)
    <3>1. vq[o] \in Seq(Links) /\ Len(queue[o]) <= Len(vq[o])
      BY DEF IInv, InputsKnown
    <3>2. Len(l) # 0 /\ Len(s) \in Nat
      BY <1>2, <1>14
    <3>3. Len(vq[o]) \in Nat /\ Len(vq[o]) # 0
      BY <1>3, <2>2, <3>1, <3>2
    <3>4. Head(vq[o]) \in Links
      BY <3>1, <3>3
    <3> QED
      BY <3>4 DEF Credited
  \* What becomes of the ports: t.
  <2> DEFINE resumed == ReceiveResume(served, c)
  <2>9. PICK t : Become(t) /\ (t = resumed \/ t = served)
    BY <2>1, <2>8 DEF CompletedService
  <2>10. /\ PortsOK(t) /\ \A r \in Outputs : t.queue[r] = served.queue[r]
         /\ \A y \in Ports \ {c} : At(t, y) = At(served, y)
         /\ Follows(At(t, c), At(served, c))
         /\ \/ At(t, c) = At(served, c)
            \/ /\ c \in Hosts /\ served.sending[c] # NoPacket
               /\ t.due[c] = Append(served.due[c], TxTime)
    <3>1. c \in Ports
      BY LinkPorts
    <3>2. /\ PortsOK(resumed) /\ \A r \in Outputs : resumed.queue[r] = served.queue[r]
          /\ \A y \in Ports \ {c} : At(resumed, y) = At(served, y)
          /\ Follows(At(resumed, c), At(served, c))
          /\ \/ At(resumed, c) = At(served, c)
             \/ /\ c \in Hosts /\ served.sending[c] # NoPacket
                /\ resumed.due[c] = Append(served.due[c], TxTime)
      BY <2>7, <3>1, ReceiveResumeAt, ReceiveResumeOK
    <3> HIDE DEF resumed
    <3> QED
      BY <2>7, <2>9, <3>2, FollowsSelf
  <2>11. /\ \A y \in Ports : Line(y)' = Way(y)' \o At(t, y)
         /\ queue' = t.queue /\ due' = t.due
    BY <2>9, <2>10, LinesAfter
  <2>12. \A y \in Ports \ {o} : Way(y)' = Way(y)
    <3>1. link = [y \in Links |-> link[y]]
      BY DEF IInv, PipesOK
    <3>2. \A y \in Links \ {o} : link'[y] = link[y]
      BY <2>1, <3>1 DEF Transmit
    <3> QED
      BY <1>1, <3>2 DEF Way
  <2>13. \A y \in Ports \ {o} : At(served, y) = At(State, y)
    BY <2>7, AlikeAt
  <2>14. At(t, o) = rest
    <3>1. At(served, o) = rest
      BY <1>1, <2>5, <2>7, AtType
    <3>2. c = o => At(t, o) = At(served, o)
      BY <1>1, <2>10
    <3> QED
      BY <1>1, <2>10, <3>1, <3>2
  \* In calm a host transmits one packet at a time.
  <2>15. c # o /\ Calm => At(t, c) = At(State, c)
    <3> SUFFICES ASSUME c # o, Calm, At(t, c) # At(served, c)
                 PROVE  FALSE
      BY <2>13, LinkPorts
    <3>1. c \in Hosts /\ c \in Ports /\ t.due[c] = Append(served.due[c], TxTime)
          /\ served.sending[c] # NoPacket
      BY <2>10, LinkPorts
    <3>2. served.due[c] = due[c] /\ served.sending[c] = sending[c]
      BY <1>1, <2>7, <3>1 DEF Alike
    <3>3. Len(due[c]) = 1 /\ Len(due'[c]) \in {0, 1}
      BY <3>1, <3>2 DEF Calm, OneServiceAtATime
    <3>4. due[c] \in Seq(0..TxTime)
      BY <1>1, <3>1, PortTypes
    <3>5. Len(due'[c]) = 2
      BY <2>11, <3>1, <3>2, <3>3, <3>4
    <3> QED
      BY <3>3, <3>5
  <2>16. \A y \in Ports \ {o} : Thins(y)
    <3> SUFFICES ASSUME NEW y \in Ports \ {o}
                 PROVE  Thins(y)
      OBVIOUS
    <3> DEFINE w == Way(y)
               a == At(t, y)
               b == At(State, y)
    <3>1. Line(y)' = w \o a /\ Line(y) = w \o b
      BY <2>11, <2>12 DEF Line
    <3>2. w \in Seq(Packet) /\ a \in Seq(Packet) /\ b \in Seq(Packet)
      BY <2>10, AtType, LineType
    <3>3. Follows(a, b) /\ (Calm => a = b)
      BY <2>10, <2>13, <2>15, FollowsSelf
    <3> HIDE DEF w, a, b
    <3>4. Follows(w \o a, w \o b)
      BY <3>2, <3>3, FollowsBehind
    <3> QED
      BY <3>1, <3>3, <3>4 DEF Thins
  <2>17. LineStep
    <3>1. CASE o \in Exits
      <4>1. o \notin Links /\ arrived' = arrived \cup {Head(l)}
        BY <2>1, <3>1, LinkPorts DEF Transmit
      <4>2. Line(o)' = rest /\ Line(o) = s
        <5>1. Way(o)' = <<>> /\ Way(o) = <<>>
          BY <4>1 DEF Way
        <5>2. Line(o)' = <<>> \o rest /\ Line(o) = <<>> \o s
          BY <1>1, <1>12, <2>11, <2>14, <5>1
        <5> HIDE DEF s
        <5> QED
          BY <1>2, <2>2, <5>2
      <4>3. Arrives(o, l)
        BY <1>1, <1>4, <1>14, <2>16, <4>1, <4>2 DEF Arrives, Calm, rest
      <4> QED
        BY <3>1, <4>3 DEF LineStep
    <3>2. CASE o \notin Exits
      <4> DEFINE p == Head(l)
                 d == LinkDelay[o]
                 e == link[o]
                 a == Pkts(cross[o])
                 b == Pkts(link[o])
      <4>1. /\ PipeOK(e, d) /\ d \in Nat /\ a \in Seq(Packet) /\ b \in Seq(Packet)
            /\ o \in Links
        BY <1>1, <3>2, LineType DEF Links
      <4>2. link'[o] = Joined(e, p, d) /\ cross'[o] = cross[o] /\ arrived' = arrived
        <5>1. link = [y \in Links |-> link[y]]
          BY DEF IInv, PipesOK
        <5> QED
          BY <1>1, <2>1, <3>2, <4>1, <5>1 DEF Transmit, Joined
      <4> HIDE DEF d
      <4>3. Pkts(Joined(e, p, d)) = Append(b, p)
        BY <2>2, <4>1, PktsAppend
      <4>4. Way(o)' = a \o Append(b, p) /\ Way(o) = a \o b
        BY <4>1, <4>2, <4>3 DEF Way
      <4> HIDE DEF a, b, p
      <4>5. Line(o)' = (a \o b) \o l
        <5>1. Line(o)' = (a \o Append(b, p)) \o rest
          BY <1>1, <2>11, <2>14, <4>4
        <5>2. Regrouped(a, b, rest, p)
          BY <2>2, <4>1, Regroup, Zenon DEF p
        <5>3. l = <<p>> \o rest
          BY <1>14, HeadFirst DEF p, rest
        <5> QED
          BY <5>1, <5>2, <5>3 DEF Regrouped
      <4>6. Thins(o)
        <5> DEFINE w == a \o b
        <5>1. w \in Seq(Packet) /\ Line(o)' = w \o l /\ Line(o) = w \o s
          BY <1>12, <4>4, <4>5
        <5> HIDE DEF w, s
        <5>2. Follows(w \o l, w \o s)
          BY <1>2, <1>4, <5>1, FollowsBehind
        <5> QED
          BY <1>4, <5>1, <5>2 DEF Thins, Calm
      <4>7. LinesThin
        <5>1. \A y \in Ports : Thins(y)
          BY <2>16, <4>6
        <5> QED
          BY <1>1, <4>2, <5>1 DEF LinesThin
      <4> QED
        BY <4>7 DEF LineStep
    <3> QED
      BY <3>1, <3>2
  <2>18. Leaves(o, l)
    <3>1. \A r \in Outputs : queue'[r] = left.queue[r]
      BY <2>7, <2>10, <2>11
    <3>2. \A r \in Outputs : queue'[r] = IF r # o THEN queue[r] ELSE rest
      BY <1>10, <2>5, <3>1 DEF Ports
    <3> QED
      BY <1>4, <1>14, <2>1, <3>2 DEF Leaves, rest
  <2> QED
    BY <2>17, <2>18
<1> QED
  BY <1>13, <1>14

\* Every step is a step of the lines.
LEMMA NextLines ==
    ASSUME IInv, [Next]_vars
    PROVE  LineStep
<1>1. CASE \E h \in Hosts : HostSends(h)
  BY <1>1, HostSendsLines DEF LineStep
<1>2. CASE \E h \in Hosts : HostCompletes(h)
  BY <1>2, HostCompletesLines, StayThin
<1>3. CASE \E x \in Links : ReachesInput(x)
  BY <1>3, ReachesInputLines, StayThin
<1>4. CASE \E x \in Links : ReachesOutput(x)
  BY <1>4, ReachesOutputLines DEF LineStep
<1>5. CASE \E o \in Outputs : OutputCompletes(o)
  BY <1>5, OutputCompletesLines
<1>6. CASE Tick
  BY <1>6, TickLines, StayThin
<1>7. CASE UNCHANGED vars
  <2>1. LinesStay(Ports) /\ UNCHANGED <<sent, arrived>>
    BY <1>7 DEF vars, portVars, pipeVars, LinesStay, Line, Way, At, State
  <2> QED
    BY <2>1, StayThin
<1> QED
  BY <1>1, <1>2, <1>3, <1>4, <1>5, <1>6, <1>7 DEF Next, Happens

LEMMA PacketsNext ==
    ASSUME NEW h \in Hosts, NEW k \in 1..Len(Load[h])
    PROVE  PacketsIn(h, k) = PacketsIn(h, k - 1) + Len(Load[h][k])
<1> DEFINE A == InBursts(h, k - 1)
           n == Len(Load[h][k])
           one == {k}
           all == 1..n
           B == one \X all
           Of(b) == {b} \X DOMAIN Load[h][b]
           R == 1..k
           Q == 1..(k - 1)
<1>1. /\ n \in Nat /\ DOMAIN Load[h][k] = 1..n /\ k \in Nat /\ k - 1 \in Nat
      /\ k <= Len(Load[h]) /\ k - 1 <= Len(Load[h])
  <2>1. Load[h] \in Seq(Seq(Exits))
    BY PfcAssumption
  <2>2. Load[h][k] \in Seq(Exits) /\ Len(Load[h]) \in Nat
    BY <2>1
  <2> QED
    BY <2>2
<1>2. IsFiniteSet(A) /\ PacketsIn(h, k - 1) = Cardinality(A)
  BY <1>1, PacketsInType, Zenon
<1>3. PacketsIn(h, k) = Cardinality(InBursts(h, k))
  BY <1>1, PacketsInType, Zenon
<1>4. InBursts(h, k) = A \cup B
  <2>1. InBursts(h, k) = UNION {Of(b) : b \in R} /\ A = UNION {Of(b) : b \in Q}
    BY DEF InBursts
  <2>2. R = Q \cup one
    BY <1>1
  <2>3. Of(k) = B
    BY <1>1
  <2> HIDE DEF Of, A, B, R, Q
  <2> QED
    BY <2>1, <2>2, <2>3
<1>5. A \cap B = {}
  <2>1. \A e \in A : e[1] \in Q
    BY DEF InBursts
  <2>2. \A e \in B : e[1] = k
    OBVIOUS
  <2>3. k \notin Q
    BY <1>1
  <2> HIDE DEF A, B, Q
  <2> QED
    BY <2>1, <2>2, <2>3
<1>6. IsFiniteSet(one) /\ Cardinality(one) = 1
  BY FS_Singleton
<1>7. IsFiniteSet(all) /\ Cardinality(all) = n
  <2>1. 1 \in Int /\ n \in Int
    BY <1>1
  <2>2. IsFiniteSet(all) /\ Cardinality(all) = IF 1 > n THEN 0 ELSE n - 1 + 1
    BY <2>1, FS_Interval
  <2> HIDE DEF n, all
  <2> QED
    BY <1>1, <2>2
<1> HIDE DEF one, all
<1>8. IsFiniteSet(B) /\ Cardinality(B) = Cardinality(one) * Cardinality(all)
  BY <1>6, <1>7, FS_Product
<1> HIDE DEF A, B
<1>9. Cardinality(A \cup B) = Cardinality(A) + Cardinality(B) - Cardinality(A \cap B)
  BY <1>2, <1>8, FS_Union
<1>10. Cardinality(A \cap B) = 0
  BY <1>5, FS_EmptySet
<1>11. Cardinality(A) \in Nat /\ Cardinality(B) = n
  <2>1. Cardinality(A) \in Nat
    BY <1>2, FS_CardinalityType
  <2> HIDE DEF n
  <2> QED
    BY <1>1, <1>6, <1>7, <1>8, <2>1
<1> HIDE DEF n
<1> QED
  BY <1>1, <1>2, <1>3, <1>4, <1>9, <1>10, <1>11 DEF n

-----------------------------------------------------------------------------
(* The flows *)

SameFlow(p, q) == p.src = q.src /\ p.exit = q.exit
On(x) == ToSet(Line(x))

\* Packet q is nearer to the receiver than packet p, or there.
InFront(q, p) ==
    \E x \in Ports :
        /\ p \in On(x)
        /\ \/ q \in arrived
           \/ Before(Line(x), q, p)
           \/ \E y \in Ports : q \in On(y) /\ Beyond(p.exit, x, y)

\* A host has sent packet p.
Known(p) == p.seq <= PacketsIn(p.src, sent[p.src])

\* The packets in the lines are on their routes, and in each flow those sent first are
\* in front.
FlowsInv ==
    /\ \A x \in Ports : \A p \in On(x) : Known(p) /\ x \in Route[p.exit][p.src]
    /\ \A p \in arrived : Known(p)
    /\ \A p, q \in Packet : SameFlow(p, q) /\ InFront(q, p) => q.seq < p.seq

LEMMA PacketFields ==
    ASSUME NEW p \in Packet
    PROVE  p.src \in Hosts /\ p.src \in Ports /\ p.exit \in Exits /\ p.seq \in Nat
  BY LinkPorts DEF Packet

LEMMA OnType ==
    ASSUME IInv, NEW x \in Ports
    PROVE  Line(x) \in Seq(Packet) /\ On(x) \subseteq Packet
<1>1. Line(x) \in Seq(Packet)
  BY LineType
<1> DEFINE s == Line(x)
<1> HIDE DEF s
<1>2. s \in Seq(Packet)
  BY <1>1 DEF s
<1>3. ToSet(s) \subseteq Packet
  BY <1>2, ElementsOf
<1> QED
  BY <1>1, <1>3 DEF s, On

\* What a packet has behind it in a line is in the line.
LEMMA BeforeOn ==
    ASSUME NEW s \in Seq(Packet), NEW p, NEW q, Before(s, q, p)
    PROVE  q \in ToSet(s) /\ p \in ToSet(s)
  BY DEF Before, ToSet

LEMMA InitLines ==
    ASSUME Init
    PROVE  \A x \in Ports : Line(x) = <<>>
<1> TAKE x \in Ports
<1>1. At(State, x) = <<>>
  BY DEF Init, At, Having, State
<1>2. Way(x) = <<>>
  <2>1. x \in Links => link[x] = <<>> /\ cross[x] = <<>>
    BY DEF Init
  <2>2. Pkts(<<>>) = <<>>
    BY DEF Pkts
  <2> DEFINE e == <<>>
  <2>3. Pkts(e) = e /\ e \o e = e
    BY <2>2
  <2>4. x \in Links => link[x] = e /\ cross[x] = e
    BY <2>1
  <2>5. Way(x) = IF x \in Links THEN Pkts(cross[x]) \o Pkts(link[x]) ELSE e
    BY DEF Way
  <2> HIDE DEF e
  <2>6. Way(x) = e
    BY <2>3, <2>4, <2>5
  <2> QED
    BY <2>6 DEF e
<1>3. Line(x) = <<>>
  BY <1>1, <1>2 DEF Line
<1> QED
  BY <1>3

LEMMA InitFlows ==
    ASSUME Init
    PROVE  FlowsInv
<1>1. \A x \in Ports : On(x) = {}
  BY InitLines DEF On, ToSet
<1>2. arrived = {}
  BY DEF Init
<1> QED
  BY <1>1, <1>2 DEF FlowsInv, InFront

\* A step that leaves packets where they are, or loses some.
LEMMA ThinFlows ==
    ASSUME IInv, IInv', FlowsInv, LinesThin
    PROVE  FlowsInv'
<1>1. /\ \A x \in Ports : On(x)' \subseteq On(x)
      /\ \A x \in Ports : \A p, q \in Packet : Before(Line(x), p, q)' => Before(Line(x), p, q)
      /\ sent' = sent /\ arrived' = arrived
  BY DEF LinesThin, Thins, Follows, On
<1>2. \A p : Known(p)' <=> Known(p)
  BY <1>1 DEF Known
<1>3. ASSUME NEW p \in Packet, NEW q \in Packet, InFront(q, p)'
      PROVE  InFront(q, p)
  BY <1>1, <1>3 DEF InFront
<1>4. \A p \in arrived : Known(p)'
  BY <1>2 DEF FlowsInv
<1>5. \A x \in Ports : \A p \in On(x)' : Known(p)' /\ x \in Route[p.exit][p.src]
  BY <1>1, <1>2 DEF FlowsInv
<1>6. \A p, q \in Packet : SameFlow(p, q) /\ InFront(q, p)' => q.seq < p.seq
  BY <1>3 DEF FlowsInv
<1> QED
  BY <1>1, <1>4, <1>5, <1>6 DEF FlowsInv

\* What arrives from a line was in front of the others of its flow.
LEMMA ArrivesFlows ==
    ASSUME IInv, FlowsInv, NEW o \in Exits, NEW l \in Seq(Packet), Arrives(o, l)
    PROVE  FlowsInv'
<1> DEFINE h == Head(l)
<1>1. /\ o \in Ports /\ o \notin Links
      /\ Follows(l, Line(o)) /\ Line(o)' = Tail(l) /\ arrived' = arrived \cup {h}
      /\ sent' = sent /\ \A y \in Ports \ {o} : Follows(Line(y)', Line(y))
  BY LinkPorts DEF Arrives, Thins
<1>2. /\ h \in Packet /\ ToSet(l) = {h} \cup ToSet(Tail(l))
      /\ \A p, q : Before(l, p, q) <=> Before(Tail(l), p, q) \/ (p = h /\ q \in ToSet(Tail(l)))
  <2>1. h \in Packet /\ Headed(l, h, Tail(l))
    BY HeadFirst DEF Arrives
  <2> QED
    BY <2>1 DEF Headed
<1> HIDE DEF h
<1>3. /\ On(o)' \subseteq On(o) /\ h \in On(o)
      /\ \A p, q \in Packet : Before(Line(o), p, q)' => Before(Line(o), p, q)
      /\ \A p \in On(o)' : p \in Packet => Before(Line(o), h, p)
  BY <1>1, <1>2 DEF On, Follows
<1>4. /\ \A x \in Ports : On(x)' \subseteq On(x)
      /\ \A x \in Ports : \A p, q \in Packet : Before(Line(x), p, q)' => Before(Line(x), p, q)
  BY <1>1, <1>3 DEF On, Follows
<1>5. \A p : Known(p)' <=> Known(p)
  BY <1>1 DEF Known
<1>6. ASSUME NEW p \in Packet, NEW q \in Packet, SameFlow(p, q), InFront(q, p)'
      PROVE  InFront(q, p)
  <2>1. PICK x \in Ports :
           /\ p \in On(x)'
           /\ \/ q \in arrived'
              \/ Before(Line(x), q, p)'
              \/ \E y \in Ports : q \in On(y)' /\ Beyond(p.exit, x, y)
    BY <1>6 DEF InFront
  <2>2. p \in On(x)
    BY <1>4, <2>1
  <2>3. CASE q = h /\ x = o
    BY <1>3, <2>1, <2>2, <2>3 DEF InFront
  <2>4. CASE q = h /\ x # o
    <3>1. p.exit \in Exits /\ p.src \in Ports
      BY PacketFields
    <3>2. x \in Route[p.exit][p.src] /\ o \in Route[p.exit][p.src]
      BY <1>1, <1>3, <1>6, <2>2, <2>4 DEF FlowsInv, SameFlow
    <3>3. Beyond(p.exit, x, o)
      BY <1>1, <2>4, <3>1, <3>2, OneIsBeyond DEF Beyond
    <3> QED
      BY <1>1, <1>3, <2>2, <2>4, <3>3 DEF InFront
  <2>5. CASE q # h
    <3>1. q \in arrived' => q \in arrived
      BY <1>1, <2>5
    <3> QED
      BY <1>4, <2>1, <2>2, <3>1 DEF InFront
  <2> QED
    BY <2>3, <2>4, <2>5
<1>7. \A p \in arrived' : Known(p)'
  BY <1>1, <1>3, <1>5 DEF FlowsInv
<1>8. \A x \in Ports : \A p \in On(x)' : Known(p)' /\ x \in Route[p.exit][p.src]
  BY <1>4, <1>5 DEF FlowsInv
<1>9. \A p, q \in Packet : SameFlow(p, q) /\ InFront(q, p)' => q.seq < p.seq
  BY <1>6 DEF FlowsInv
<1> QED
  BY <1>7, <1>8, <1>9 DEF FlowsInv

\* A packet that moves on leaves the head of a line for the end of another one.
Moves(z, o, k) ==
    /\ On(z) = {k} \cup On(z)'
    /\ \A p, q : Before(Line(z), p, q) <=> Before(Line(z), p, q)' \/ (p = k /\ q \in On(z)')
    /\ On(o)' = On(o) \cup {k}
    /\ \A p, q : Before(Line(o), p, q)' => Before(Line(o), p, q) \/ (p \in On(o) /\ q = k)
    /\ \A y \in Ports \ {z, o} :
          On(y)' = On(y) /\ \A p, q : Before(Line(y), p, q)' <=> Before(Line(y), p, q)

LEMMA HopsMove ==
    ASSUME IInv, NEW z \in Links, NEW k \in Packet, Hops(z, k)
    PROVE  Moves(z, Ahead(z, k), k)
<1> DEFINE o == Ahead(z, k)
<1>1. /\ z \in Ports /\ o \in Ports /\ o # z /\ k.exit \in Exits /\ k.src \in Ports
      /\ o = Forward[z][k.exit]
      /\ Line(z) # <<>> /\ k = Head(Line(z))
      /\ Line(z)' = Tail(Line(z)) /\ Line(o)' = Append(Line(o), k)
      /\ \A y \in Ports \ {z, o} : Line(y)' = Line(y)
      /\ sent' = sent /\ arrived' = arrived
  BY LinkPorts, PacketFields DEF Hops, LinesStay, Ahead
<1>2. /\ On(z) = {k} \cup On(z)'
      /\ \A p, q : Before(Line(z), p, q)
                     <=> Before(Line(z), p, q)' \/ (p = k /\ q \in On(z)')
  <2> DEFINE s == Line(z)
             r == Tail(s)
  <2>1. s \in Seq(Packet) /\ s # <<>> /\ k = Head(s)
    BY <1>1, OnType, SMTT(60)
  <2>2. On(z) = ToSet(s) /\ On(z)' = ToSet(r)
    BY <1>1, SMTT(60) DEF On
  <2>3. /\ \A p, q : Before(Line(z), p, q) <=> Before(s, p, q)
        /\ \A p, q : Before(Line(z), p, q)' <=> Before(r, p, q)
    BY <1>1 DEF Before
  <2> HIDE DEF s
  <2>4. Headed(s, k, r)
    BY <2>1, HeadFirst
  <2> HIDE DEF r
  <2>5. /\ ToSet(s) = {k} \cup ToSet(r)
        /\ \A p, q : Before(s, p, q) <=> Before(r, p, q) \/ (p = k /\ q \in ToSet(r))
    BY <2>4 DEF Headed
  <2>6. \A p, q : Before(Line(z), p, q)
                     <=> Before(Line(z), p, q)' \/ (p = k /\ q \in On(z)')
    BY <2>2, <2>3, <2>5
  <2> QED
    BY <2>2, <2>5, <2>6, SMTT(60)
<1>3. /\ On(o)' = On(o) \cup {k}
      /\ \A p, q : Before(Line(o), p, q)' => Before(Line(o), p, q) \/ (p \in On(o) /\ q = k)
  <2> DEFINE s == Line(o)
             one == <<k>>
  <2>1. s \in Seq(Packet) /\ one \in Seq(Packet) /\ Append(s, k) = s \o one
    <3>1. s \in Seq(Packet)
      BY <1>1, OnType
    <3> HIDE DEF s
    <3> QED
      BY <3>1
  <2>2. ToSet(one) = {k} /\ \A p, q : ~Before(one, p, q)
    BY DEF ToSet, Before
  <2> HIDE DEF s, one
  <2>3. Joint(s \o one, s, one)
    BY <2>1, ConcatOrder, SMTT(60)
  <2>4. Line(o)' = s \o one
    BY <1>1, <2>1 DEF s
  <2>5. Joint(Line(o)', s, one)
    BY <2>3, <2>4, SMTT(60)
  <2> QED
    BY <2>2, <2>5, SMTT(60) DEF Joint, On, Before, s
<1>4. \A y \in Ports \ {z, o} :
         On(y)' = On(y) /\ \A p, q : Before(Line(y), p, q)' <=> Before(Line(y), p, q)
  BY <1>1 DEF On, Before
<1> QED
  BY <1>2, <1>3, <1>4, SMTT(60) DEF Moves

\* A packet that moves on stays between the same packets of its flow.
LEMMA HopsFlows ==
    ASSUME IInv, FlowsInv, NEW z \in Links, NEW k \in Packet, Hops(z, k)
    PROVE  FlowsInv'
<1> DEFINE o == Ahead(z, k)
<1>1. /\ z \in Ports /\ o \in Ports /\ o # z /\ k.exit \in Exits /\ k.src \in Ports
      /\ o = Forward[z][k.exit] /\ sent' = sent /\ arrived' = arrived
  BY LinkPorts, PacketFields DEF Hops, Ahead
<1>0. Moves(z, o, k)
  BY HopsMove
<1> HIDE DEF o
<1>2. /\ On(z) = {k} \cup On(z)'
      /\ \A p, q : Before(Line(z), p, q)
                     <=> Before(Line(z), p, q)' \/ (p = k /\ q \in On(z)')
  BY <1>0 DEF Moves
<1>3. /\ On(o)' = On(o) \cup {k}
      /\ \A p, q : Before(Line(o), p, q)' => Before(Line(o), p, q) \/ (p \in On(o) /\ q = k)
  BY <1>0 DEF Moves
<1>4. \A y \in Ports \ {z, o} :
         On(y)' = On(y) /\ \A p, q : Before(Line(y), p, q)' <=> Before(Line(y), p, q)
  BY <1>0 DEF Moves
<1>5. \A p : Known(p)' <=> Known(p)
  BY <1>1 DEF Known
<1>6. Beyond(k.exit, z, o)
  BY <1>1, RouteClosed DEF Beyond
<1>7. z \in Route[k.exit][k.src] /\ k \in On(z)
  BY <1>1, <1>2 DEF FlowsInv
<1>8. \A x \in Ports : \A p \in On(x)' : p \in On(x) \/ (x = o /\ p = k)
  BY <1>2, <1>3, <1>4
<1>9. ASSUME NEW p \in Packet, NEW q \in Packet, SameFlow(p, q), InFront(q, p)'
      PROVE  InFront(q, p)
  <2>1. PICK x \in Ports :
           /\ p \in On(x)'
           /\ \/ q \in arrived'
              \/ Before(Line(x), q, p)'
              \/ \E y \in Ports : q \in On(y)' /\ Beyond(p.exit, x, y)
    BY <1>9 DEF InFront
  <2>2. p.exit \in Exits /\ p.src \in Ports
    BY PacketFields
  <2>3. CASE q \in arrived'
    BY <1>1, <1>7, <1>8, <2>1, <2>3 DEF InFront
  <2>4. CASE Before(Line(x), q, p)'
    <3>1. CASE x = z
      BY <1>2, <2>1, <2>4, <3>1 DEF InFront
    <3>2. CASE x = o
      <4>1. CASE Before(Line(o), q, p)
        <5>1. p \in On(o)
          BY <1>1, <4>1, BeforeOn, OnType DEF On
        <5> QED
          BY <1>1, <4>1, <5>1 DEF InFront
      <4>2. CASE q \in On(o) /\ p = k
        BY <1>1, <1>6, <1>7, <4>2 DEF InFront
      <4> QED
        BY <1>3, <2>4, <3>2, <4>1, <4>2
    <3>3. CASE x # z /\ x # o
      BY <1>4, <2>1, <2>4, <3>3 DEF InFront
    <3> QED
      BY <3>1, <3>2, <3>3
  <2>5. CASE \E y \in Ports : q \in On(y)' /\ Beyond(p.exit, x, y)
    <3>1. PICK y \in Ports : q \in On(y)' /\ Beyond(p.exit, x, y)
      BY <2>5
    <3>2. CASE p \in On(x) /\ q \in On(y)
      BY <3>1, <3>2 DEF InFront
    <3>3. CASE p \notin On(x)
      <4>1. x = o /\ p = k
        BY <1>8, <2>1, <3>3
      <4>2. q \in On(y)
        <5>1. ~(y = o)
          BY <1>1, <2>2, <3>1, <4>1, NoWayBack
        <5> QED
          BY <1>8, <3>1, <5>1
      <4>3. Beyond(p.exit, z, y)
        BY <1>1, <1>6, <2>2, <3>1, <4>1, BeyondBeyond
      <4> QED
        BY <1>1, <1>7, <4>1, <4>2, <4>3 DEF InFront
    <3>4. CASE p \in On(x) /\ q \notin On(y)
      <4>1. y = o /\ q = k /\ p.exit = k.exit /\ p.src = k.src
        BY <1>8, <1>9, <3>1, <3>4 DEF SameFlow
      <4>2. x \in Route[p.exit][p.src] /\ z \in Route[p.exit][p.src]
        BY <1>7, <3>4, <4>1 DEF FlowsInv
      <4>3. CASE x = z
        BY <1>1, <1>2, <2>1, <3>4, <4>1, <4>3 DEF InFront
      <4>4. CASE Beyond(p.exit, x, z)
        BY <1>1, <1>7, <3>4, <4>1, <4>4 DEF InFront
      <4>5. CASE Beyond(p.exit, z, x)
        <5>1. x \in Route[p.exit][o]
          BY <1>1, <4>1, <4>5 DEF Beyond
        <5>2. x = o \/ Beyond(p.exit, o, x)
          BY <1>1, <2>2, <5>1, RouteOn
        <5>3. Beyond(p.exit, x, o)
          BY <3>1, <4>1
        <5>4. Beyond(p.exit, o, o)
          <6>1. CASE x = o
            BY <5>3, <6>1
          <6>2. CASE Beyond(p.exit, o, x)
            BY <1>1, <2>2, <5>3, <6>2, BeyondBeyond
          <6> QED
            BY <5>2, <6>1, <6>2
        <5> QED
          BY <1>1, <2>2, <5>4, NoWayBack
      <4> QED
        BY <2>2, <4>2, <4>3, <4>4, <4>5, OneIsBeyond
    <3> QED
      BY <3>2, <3>3, <3>4
  <2> QED
    BY <2>1, <2>3, <2>4, <2>5
<1>10. \A x \in Ports : \A p \in On(x)' : Known(p)' /\ x \in Route[p.exit][p.src]
  <2>1. o \in Route[k.exit][k.src]
    BY <1>1, <1>7, RouteClosed DEF Closed
  <2> QED
    BY <1>5, <1>7, <1>1, <1>8, <2>1 DEF FlowsInv
<1>11. \A p, q \in Packet : SameFlow(p, q) /\ InFront(q, p)' => q.seq < p.seq
  BY <1>9 DEF FlowsInv
<1>12. \A p \in arrived' : Known(p)'
  BY <1>1, <1>5 DEF FlowsInv
<1> QED
  BY <1>10, <1>11, <1>12, SMTT(60) DEF FlowsInv

\* What a host sends comes behind all it has sent.
LEMMA BurstFlows ==
    ASSUME IInv, FlowsInv, NEW h \in Hosts, BurstSent(h)
    PROVE  FlowsInv'
<1> DEFINE k == sent[h] + 1
           burst == Burst(h, k)
           before == PacketsIn(h, sent[h])
           n == Len(Load[h][k])
<1>1. /\ h \in Ports /\ k \in 1..Len(Load[h]) /\ sent \in [Hosts -> Nat]
      /\ sent' = [sent EXCEPT ![h] = @ + 1] /\ arrived' = arrived
      /\ Line(h)' = Line(h) \o burst
      /\ \A y \in Ports \ {h} : Line(y)' = Line(y)
  BY LinkPorts DEF BurstSent, LinesStay, IInv
<1>2. /\ burst \in Seq(Packet) /\ Len(burst) = n /\ n \in Nat /\ before \in Nat
      /\ \A i \in 1..n : burst[i] = [src |-> h, seq |-> before + i, exit |-> Load[h][k][i]]
      /\ PacketsIn(h, k) = before + n
  <2>1. /\ burst \in Seq(Packet) /\ Len(burst) = n /\ n \in Nat
        /\ PacketsIn(h, k - 1) \in Nat
        /\ \A i \in 1..n : burst[i] = [src |-> h, seq |-> PacketsIn(h, k - 1) + i,
                                       exit |-> Load[h][k][i]]
    BY <1>1, BurstType
  <2>2. PacketsIn(h, k) = PacketsIn(h, k - 1) + n
    BY <1>1, PacketsNext
  <2>3. k - 1 = sent[h]
    BY <1>1
  <2> HIDE DEF n, burst
  <2> QED
    BY <2>1, <2>2, <2>3
<1> HIDE DEF burst, before, n
\* The packets of the burst.
<1>3. /\ \A p \in ToSet(burst) : /\ p \in Packet /\ p.src = h
                                 /\ before < p.seq /\ p.seq <= before + n
      /\ \A p, q : Before(burst, q, p) => q.seq < p.seq
  <2>1. \A i \in 1..n : burst[i].src = h /\ burst[i].seq = before + i
    BY <1>2
  <2>2. Listed(burst, n) /\ ToSet(burst) \subseteq Packet
    BY <1>2, ElementsOf
  <2>3. /\ \A p : p \in ToSet(burst) <=> \E i \in 1..n : burst[i] = p
        /\ \A p, q : Before(burst, q, p) <=>
                         \E i, j \in 1..n : i < j /\ burst[i] = q /\ burst[j] = p
    BY <2>2 DEF Listed
  <2>4. ASSUME NEW p \in ToSet(burst)
        PROVE  p \in Packet /\ p.src = h /\ before < p.seq /\ p.seq <= before + n
    <3>1. PICK i \in 1..n : burst[i] = p
      BY <2>3
    <3>2. p.src = h /\ p.seq = before + i
      BY <2>1, <3>1
    <3> QED
      BY <1>2, <2>2, <3>2
  <2>5. ASSUME NEW p, NEW q, Before(burst, q, p)
        PROVE  q.seq < p.seq
    <3>1. PICK i \in 1..n, j \in 1..n : i < j /\ burst[i] = q /\ burst[j] = p
      BY <2>3, <2>5
    <3>2. q.seq = before + i /\ p.seq = before + j
      BY <2>1, <3>1
    <3> QED
      BY <1>2, <3>1, <3>2
  <2> QED
    BY <2>4, <2>5
\* The line of the host.
<1>4. /\ On(h)' = On(h) \cup ToSet(burst)
      /\ \A p, q : Before(Line(h), q, p)' => \/ Before(Line(h), q, p) \/ Before(burst, q, p)
                                             \/ q \in On(h) /\ p \in ToSet(burst)
  <2> DEFINE s == Line(h)
  <2>1. s \in Seq(Packet)
    BY <1>1, OnType
  <2>2. On(h) = ToSet(s) /\ On(h)' = ToSet(s \o burst)
    BY <1>1 DEF On
  <2>3. /\ \A p, q : Before(Line(h), q, p) <=> Before(s, q, p)
        /\ \A p, q : Before(Line(h), q, p)' <=> Before(s \o burst, q, p)
    BY <1>1 DEF Before
  <2> HIDE DEF s
  <2>4. Joint(s \o burst, s, burst)
    BY <1>2, <2>1, ConcatOrder
  <2>5. /\ ToSet(s \o burst) = ToSet(s) \cup ToSet(burst)
        /\ \A p, q : Before(s \o burst, q, p) =>
                         \/ Before(s, q, p) \/ Before(burst, q, p)
                         \/ q \in ToSet(s) /\ p \in ToSet(burst)
    BY <2>4 DEF Joint
  <2>6. \A p, q : Before(Line(h), q, p)' => \/ Before(Line(h), q, p) \/ Before(burst, q, p)
                                            \/ q \in On(h) /\ p \in ToSet(burst)
    BY <2>2, <2>3, <2>5
  <2> QED
    BY <2>2, <2>5, <2>6
<1>5. \A y \in Ports \ {h} :
         On(y)' = On(y) /\ \A p, q : Before(Line(y), q, p)' <=> Before(Line(y), q, p)
  BY <1>1 DEF On, Before
\* What was sent before.
<1>6. /\ \A p \in Packet : Known(p) => Known(p)'
      /\ \A p \in ToSet(burst) : Known(p)'
      /\ \A p \in Packet : Known(p) /\ p.src = h => p.seq <= before
  <2>1. /\ \A g \in Hosts : PacketsIn(g, sent'[g]) = IF g = h THEN before + n
                                                    ELSE PacketsIn(g, sent[g])
    BY <1>1, <1>2
  <2>2. ASSUME NEW p \in Packet, Known(p)
        PROVE  Known(p)'
    <3>1. p.src \in Hosts /\ p.seq \in Nat
      BY PacketFields
    <3>2. CASE p.src = h
      BY <1>2, <2>1, <2>2, <3>1, <3>2 DEF Known, before
    <3>3. CASE p.src # h
      BY <2>1, <2>2, <3>1, <3>3 DEF Known
    <3> QED
      BY <3>2, <3>3
  <2> QED
    BY <1>3, <2>1, <2>2 DEF Known, before
<1>7. \A x \in Ports : \A p \in On(x)' : p \in On(x) \/ (x = h /\ p \in ToSet(burst))
  BY <1>4, <1>5
<1>8. ASSUME NEW p \in Packet, NEW q \in Packet, SameFlow(p, q), InFront(q, p)'
      PROVE  q.seq < p.seq
  <2>1. PICK x \in Ports :
           /\ p \in On(x)'
           /\ \/ q \in arrived'
              \/ Before(Line(x), q, p)'
              \/ \E y \in Ports : q \in On(y)' /\ Beyond(p.exit, x, y)
    BY <1>8 DEF InFront
  <2>2. /\ p.exit \in Exits /\ p.seq \in Nat /\ q.seq \in Nat /\ p.src = q.src
        /\ before \in Nat
    BY <1>2, <1>8, PacketFields DEF SameFlow
  <2>3. ASSUME InFront(q, p)
        PROVE  q.seq < p.seq
    BY <1>8, <2>3 DEF FlowsInv
  <2>4. ASSUME p \in ToSet(burst), Known(q)
        PROVE  q.seq < p.seq
    <3>1. before < p.seq /\ q.seq <= before
      BY <1>3, <1>6, <2>2, <2>4
    <3> QED
      BY <2>2, <3>1
  <2>5. \A y \in Ports : q \in On(y) => Known(q)
    BY DEF FlowsInv
  <2>6. CASE q \in arrived'
    <3>1. q \in arrived /\ Known(q)
      BY <1>1, <2>6 DEF FlowsInv
    <3>2. CASE p \in On(x)
      BY <2>3, <3>1, <3>2 DEF InFront
    <3>3. CASE p \in ToSet(burst)
      BY <2>4, <3>1, <3>3
    <3> QED
      BY <1>7, <2>1, <3>2, <3>3
  <2>7. CASE Before(Line(x), q, p)'
    <3>1. CASE x # h
      BY <1>5, <2>1, <2>3, <2>7, <3>1 DEF InFront
    <3>2. CASE x = h /\ Before(Line(h), q, p)
      <4>1. p \in On(h)
        BY <1>1, <3>2, BeforeOn, OnType DEF On
      <4> QED
        BY <1>1, <2>3, <3>2, <4>1 DEF InFront
    <3>3. CASE Before(burst, q, p)
      BY <1>3, <3>3
    <3>4. CASE q \in On(h) /\ p \in ToSet(burst)
      BY <1>1, <2>4, <2>5, <3>4
    <3> QED
      BY <1>4, <2>7, <3>1, <3>2, <3>3, <3>4
  <2>8. CASE \E y \in Ports : q \in On(y)' /\ Beyond(p.exit, x, y)
    <3>1. PICK y \in Ports : q \in On(y)' /\ Beyond(p.exit, x, y)
      BY <2>8
    <3>2. y # h
      BY <2>2, <3>1, NoWayToHosts
    <3>3. q \in On(y) /\ Known(q)
      BY <1>7, <2>5, <3>1, <3>2
    <3>4. CASE p \in On(x)
      BY <2>3, <3>1, <3>3, <3>4 DEF InFront
    <3>5. CASE p \in ToSet(burst)
      BY <2>4, <3>3, <3>5
    <3> QED
      BY <1>7, <2>1, <3>4, <3>5
  <2> QED
    BY <2>1, <2>6, <2>7, <2>8
<1>9. ASSUME NEW x \in Ports, NEW p \in On(x)'
      PROVE  Known(p)' /\ x \in Route[p.exit][p.src]
  <2>1. CASE p \in On(x)
    <3>1. p \in Packet
      BY <2>1, OnType
    <3> QED
      BY <1>6, <2>1, <3>1 DEF FlowsInv
  <2>2. CASE x = h /\ p \in ToSet(burst)
    <3>1. p \in Packet /\ p.src = h
      BY <1>3, <2>2
    <3>2. h \in Route[p.exit][p.src]
      BY <1>1, <3>1, PacketFields, RouteClosed
    <3> QED
      BY <1>6, <2>2, <3>2
  <2> QED
    BY <1>7, <2>1, <2>2
<1>10. \A p \in arrived' : Known(p)'
  BY <1>1, <1>6 DEF FlowsInv, IInv
<1>11. \A p, q \in Packet : SameFlow(p, q) /\ InFront(q, p)' => q.seq < p.seq
  BY <1>8
<1> QED
  BY <1>9, <1>10, <1>11 DEF FlowsInv

LEMMA NextFlows ==
    ASSUME IInv, IInv', FlowsInv, [Next]_vars
    PROVE  FlowsInv'
<1>1. LineStep
  BY NextLines
<1> QED
  BY <1>1, BurstFlows, HopsFlows, ArrivesFlows, ThinFlows DEF LineStep

\* The packets that are somewhere are those in the lines and those that have arrived.
LEMMA SomewhereLines ==
    ASSUME IInv
    PROVE  Somewhere = (UNION {On(x) : x \in Ports}) \cup arrived
<1> DEFINE In(pipe) == UNION {{pipe[x][i].pkt : i \in DOMAIN pipe[x]} : x \in Links}
<1>1. ASSUME NEW x \in Ports
      PROVE  On(x) = ToSet(queue[x])
                     \cup (IF x \in Hosts /\ sending[x] # NoPacket THEN {sending[x]} ELSE {})
                     \cup (IF x \in Links THEN {cross[x][i].pkt : i \in DOMAIN cross[x]}
                                               \cup {link[x][i].pkt : i \in DOMAIN link[x]}
                           ELSE {})
  <2> DEFINE a == Pkts(cross[x])
             b == Pkts(link[x])
             w == Way(x)
             s == At(State, x)
             q == queue[x]
             ab == a \o b
  <2>1. /\ w \in Seq(Packet) /\ s \in Seq(Packet) /\ q \in Seq(Packet)
        /\ x \in Links => a \in Seq(Packet) /\ b \in Seq(Packet)
    BY <1>1, LineType
  <2>2. On(x) = ToSet(w) \cup ToSet(s)
    <3>1. On(x) = ToSet(w \o s)
      BY DEF On, Line
    <3> HIDE DEF w, s
    <3>2. Joint(w \o s, w, s)
      BY <2>1, ConcatOrder
    <3> QED
      BY <3>1, <3>2 DEF Joint
  <2>3. ToSet(w) = IF x \in Links THEN ToSet(a) \cup ToSet(b) ELSE {}
    <3>1. CASE x \in Links
      <4>1. w = ab
        BY <3>1 DEF Way
      <4> HIDE DEF a, b
      <4>2. Joint(ab, a, b)
        BY <2>1, <3>1, ConcatOrder
      <4> HIDE DEF ab, w
      <4> QED
        BY <3>1, <4>1, <4>2 DEF Joint
    <3>2. CASE x \notin Links
      BY <3>2 DEF Way, ToSet
    <3> QED
      BY <3>1, <3>2
  <2>4. /\ ToSet(a) = {cross[x][i].pkt : i \in DOMAIN cross[x]}
        /\ ToSet(b) = {link[x][i].pkt : i \in DOMAIN link[x]}
    BY DEF ToSet, Pkts
  <2>5. ToSet(s) = ToSet(q) \cup (IF x \in Hosts /\ sending[x] # NoPacket THEN {sending[x]}
                                  ELSE {})
    <3>1. CASE x \in Hosts /\ sending[x] # NoPacket
      <4> DEFINE one == <<sending[x]>>
      <4>1. s = one \o q
        BY <3>1 DEF At, Having, State
      <4>2. sending[x] \in Packet
        <5>1. PortsOK(State) /\ State.sending = sending
          BY DEF IInv, State
        <5> QED
          BY <3>1, <5>1, AtType
      <4>3. one \in Seq(Packet) /\ ToSet(one) = {sending[x]}
        BY <4>2 DEF ToSet
      <4> HIDE DEF one, q, s
      <4>4. Joint(one \o q, one, q)
        BY <2>1, <4>3, ConcatOrder
      <4> QED
        BY <3>1, <4>1, <4>3, <4>4 DEF Joint
    <3>2. CASE ~(x \in Hosts /\ sending[x] # NoPacket)
      BY <3>2 DEF At, Having, State
    <3> QED
      BY <3>1, <3>2
  <2> HIDE DEF a, b, w, s, q
  <2> QED
    BY <2>2, <2>3, <2>4, <2>5 DEF q
<1>2. Somewhere = (UNION {ToSet(queue[x]) : x \in Ports})
                  \cup ({sending[h] : h \in Hosts} \ {NoPacket})
                  \cup In(link) \cup In(cross) \cup arrived
  BY DEF Somewhere
<1>3. Hosts \subseteq Ports /\ Links \subseteq Ports
  BY LinkPorts
<1> DEFINE L(x) == {link[x][i].pkt : i \in DOMAIN link[x]}
           C(x) == {cross[x][i].pkt : i \in DOMAIN cross[x]}
           H(x) == IF x \in Hosts /\ sending[x] # NoPacket THEN {sending[x]} ELSE {}
           Q(x) == ToSet(queue[x])
<1>4. \A x \in Ports : On(x) = Q(x) \cup H(x) \cup (IF x \in Links THEN C(x) \cup L(x) ELSE {})
  BY <1>1, Zenon
<1>10. Somewhere = (UNION {Q(x) : x \in Ports}) \cup ({sending[h] : h \in Hosts} \ {NoPacket})
                  \cup (UNION {L(x) : x \in Links}) \cup (UNION {C(x) : x \in Links}) \cup arrived
  BY <1>2, Zenon
<1>5. \A p : (\E h \in Hosts : p \in H(h)) <=> p \in {sending[h] : h \in Hosts} \ {NoPacket}
  OBVIOUS
<1>6. \A x \in Ports : \A p \in H(x) : x \in Hosts
  OBVIOUS
<1> HIDE DEF L, C, H, Q
<1>7. ASSUME NEW p, p \in Somewhere
      PROVE  (\E x \in Ports : p \in On(x)) \/ p \in arrived
  <2>1. \/ \E x \in Ports : p \in Q(x)
        \/ p \in {sending[h] : h \in Hosts} \ {NoPacket}
        \/ \E x \in Links : p \in L(x) \/ p \in C(x)
        \/ p \in arrived
    BY <1>10, <1>7
  <2>2. CASE p \in {sending[h] : h \in Hosts} \ {NoPacket}
    BY <1>3, <1>4, <1>5, <2>2, Zenon
  <2> QED
    BY <1>3, <1>4, <2>1, <2>2
<1>8. ASSUME NEW x \in Ports, NEW p \in On(x)
      PROVE  p \in Somewhere
  <2>1. p \in Q(x) \/ p \in H(x) \/ (x \in Links /\ (p \in C(x) \/ p \in L(x)))
    BY <1>4
  <2>2. CASE p \in H(x)
    BY <1>10, <1>5, <1>6, <2>2, Zenon
  <2> QED
    BY <1>10, <1>3, <2>1, <2>2
<1>9. \A p \in arrived : p \in Somewhere
  BY <1>10
<1> QED
  BY <1>7, <1>8, <1>9

LEMMA FlowsOrder ==
    ASSUME IInv, FlowsInv
    PROVE  InOrder
<1> SUFFICES ASSUME NEW p \in Somewhere \ arrived, NEW q \in arrived,
                    p.src = q.src, p.exit = q.exit
             PROVE  p.seq > q.seq
  BY DEF InOrder
<1>1. PICK x \in Ports : p \in On(x)
  BY SomewhereLines
<1>2. p \in Packet /\ q \in Packet
  BY <1>1, OnType DEF IInv
<1>3. SameFlow(p, q) /\ InFront(q, p)
  BY <1>1 DEF SameFlow, InFront
<1>4. q.seq < p.seq
  BY <1>2, <1>3 DEF FlowsInv
<1> QED
  BY <1>2, <1>4, PacketFields

\* The packets of one flow arrive in the order in which their host sent them, whatever
\* the routes, the pauses and the drops, and even of a host that transmits twice at a
\* time.
THEOREM FlowsStayInOrder == Spec => []InOrder
<1>1. Init => FlowsInv
  BY InitFlows
<1>2. IInv /\ IInv' /\ FlowsInv /\ [Next]_vars => FlowsInv'
  BY NextFlows
<1>3. IInv /\ FlowsInv => InOrder
  BY FlowsOrder
<1> QED
  BY <1>1, <1>2, <1>3, PfcInvariance, PTL DEF Spec

-----------------------------------------------------------------------------
(* Nothing is lost *)

Present(p) == (\E x \in Ports : p \in On(x)) \/ p \in arrived
SentBy(p, k) == \E h \in Hosts : \E b \in 1..k[h] : p \in ToSet(Burst(h, b))
AllPresent == \A p : Present(p) <=> SentBy(p, sent)

LEMMA PresentLost ==
    ASSUME IInv
    PROVE  AllPresent <=> Somewhere = Handed
<1>1. \A p : p \in Somewhere <=> Present(p)
  BY SomewhereLines DEF Present
<1>2. \A p : p \in Handed <=> SentBy(p, sent)
  BY DEF Handed, SentBy
<1> QED
  BY <1>1, <1>2 DEF AllPresent

LEMMA InitPresent ==
    ASSUME Init
    PROVE  AllPresent
<1>1. arrived = {} /\ \A h \in Hosts : sent[h] = 0
  BY DEF Init
<1>2. \A x \in Ports : Line(x) = <<>>
  BY InitLines
<1>3. \A p : ~Present(p)
  BY <1>1, <1>2 DEF Present, On, ToSet
<1>4. \A p : ~SentBy(p, sent)
  BY <1>1 DEF SentBy
<1> QED
  BY <1>3, <1>4 DEF AllPresent

\* A burst is added to both.
LEMMA BurstPresent ==
    ASSUME IInv, AllPresent, NEW h \in Hosts, BurstSent(h)
    PROVE  AllPresent'
<1> DEFINE burst == Burst(h, sent[h] + 1)
<1>1. /\ h \in Ports /\ sent \in [Hosts -> Nat] /\ sent[h] + 1 \in 1..Len(Load[h])
      /\ sent' = [sent EXCEPT ![h] = @ + 1] /\ arrived' = arrived
      /\ Line(h)' = Line(h) \o burst
      /\ \A y \in Ports \ {h} : Line(y)' = Line(y)
  BY LinkPorts DEF BurstSent, LinesStay, IInv
<1>2. On(h)' = On(h) \cup ToSet(burst)
  <2> DEFINE s == Line(h)
  <2>1. s \in Seq(Packet) /\ burst \in Seq(Packet)
    BY <1>1, OnType, BurstType
  <2>2. On(h) = ToSet(s) /\ On(h)' = ToSet(s \o burst)
    BY <1>1 DEF On
  <2> HIDE DEF s, burst
  <2>3. Joint(s \o burst, s, burst)
    BY <2>1, ConcatOrder
  <2> QED
    BY <2>2, <2>3 DEF Joint
<1>3. \A y \in Ports \ {h} : On(y)' = On(y)
  BY <1>1 DEF On
<1>4. ASSUME NEW p
      PROVE  Present(p)' <=> Present(p) \/ p \in ToSet(burst)
  <2> HIDE DEF burst
  <2> QED
    BY <1>1, <1>2, <1>3 DEF Present
<1>5. ASSUME NEW p
      PROVE  SentBy(p, sent') <=> SentBy(p, sent) \/ p \in ToSet(burst)
  <2>1. /\ sent'[h] = sent[h] + 1 /\ \A g \in Hosts \ {h} : sent'[g] = sent[g]
        /\ sent[h] \in Nat
    BY <1>1
  <2>2. \A b : b \in 1..sent'[h] <=> b \in 1..sent[h] \/ b = sent[h] + 1
    BY <2>1
  <2> QED
    BY <2>1, <2>2 DEF SentBy
<1> HIDE DEF burst
<1> QED
  BY <1>4, <1>5 DEF AllPresent

LEMMA NextPresent ==
    ASSUME IInv, AllPresent, Calm, [Next]_vars
    PROVE  AllPresent'
<1>1. LineStep
  BY NextLines
<1>2. CASE \E h \in Hosts : BurstSent(h)
  BY <1>2, BurstPresent
<1>3. CASE \E x \in Links, k \in Packet : Hops(x, k)
  <2>1. PICK x \in Links, k \in Packet : Hops(x, k)
    BY <1>3
  <2> DEFINE o == Ahead(x, k)
  <2>2. x \in Ports /\ o \in Ports /\ sent' = sent /\ arrived' = arrived
    BY <2>1, LinkPorts DEF Hops, Ports
  <2>3. Moves(x, o, k)
    BY <2>1, HopsMove
  <2> HIDE DEF o
  <2>4. \A p : Present(p)' <=> Present(p)
    BY <2>2, <2>3 DEF Moves, Present
  <2> QED
    BY <2>2, <2>4 DEF AllPresent
<1>4. CASE \E o \in Exits, l \in Seq(Packet) : Arrives(o, l)
  <2>1. PICK o \in Exits, l \in Seq(Packet) : Arrives(o, l)
    BY <1>4
  <2>2. /\ o \in Ports /\ l = Line(o) /\ l # <<>> /\ Line(o)' = Tail(l)
        /\ sent' = sent /\ arrived' = arrived \cup {Head(l)}
        /\ \A y \in Ports \ {o} : Line(y)' = Line(y)
    BY <2>1, LinkPorts DEF Arrives, Thins
  <2>3. ToSet(l) = {Head(l)} \cup ToSet(Tail(l))
    <3>1. Headed(l, Head(l), Tail(l))
      BY <2>2, HeadFirst
    <3> QED
      BY <3>1 DEF Headed
  <2>4. /\ On(o) = {Head(l)} \cup On(o)' /\ \A y \in Ports \ {o} : On(y)' = On(y)
    BY <2>2, <2>3 DEF On
  <2>5. \A p : Present(p)' <=> Present(p)
    BY <2>2, <2>4 DEF Present
  <2> QED
    BY <2>2, <2>5 DEF AllPresent
<1>5. CASE LinesThin
  <2>1. /\ \A y \in Ports : Line(y)' = Line(y)
        /\ sent' = sent /\ arrived' = arrived
    BY <1>5 DEF LinesThin, Thins
  <2>2. \A p : Present(p)' <=> Present(p)
    BY <2>1 DEF Present, On
  <2> QED
    BY <2>1, <2>2 DEF AllPresent
<1> QED
  BY <1>1, <1>2, <1>3, <1>4, <1>5 DEF LineStep

\* Every packet a host has sent is somewhere, in the behaviours in which no host transmits
\* twice at a time: what such a host forgets is lost. Every packet has a timeout budget.
THEOREM NothingLostUnlessDoubled ==
    ASSUME Hosts \subseteq Budgeted
    PROVE  Spec /\ []OneServiceAtATime => []NothingLost
<1>1. Init => AllPresent
  BY InitPresent
<1>2. /\ IInv /\ OneServiceAtATime /\ OneServiceAtATime' /\ AllPresent /\ [Next]_vars
      => AllPresent'
  BY NextPresent DEF Calm
<1>3. IInv /\ AllPresent /\ InOrder => NothingLost
  BY PresentLost DEF NothingLost
<1> QED
  BY <1>1, <1>2, <1>3, PfcInvariance, FlowsStayInOrder, PTL DEF Spec

-----------------------------------------------------------------------------
(* The inputs of packets *)

\* Packet p in the queue of output o may have come through input x.
CameBy(x, p, o) == x \in Links /\ Forward[x][p.exit] = o /\ x \in Route[p.exit][p.src]

\* The list of an output that drops nothing: the inputs its packets came through.
ListOK(q, v, o) ==
    /\ q \in Seq(Packet) /\ v \in Seq(Links) /\ Len(v) = Len(q)
    /\ \A i \in 1..Len(q) : CameBy(v[i], q[i], o)

ListsOK == \A o \in Outputs : ListOK(queue[o], vq[o], o)

LEMMA ListAppend ==
    ASSUME NEW o, NEW q, NEW v, ListOK(q, v, o), NEW p \in Packet, NEW x \in Links,
           CameBy(x, p, o)
    PROVE  ListOK(Append(q, p), Append(v, x), o)
<1> DEFINE n == Len(q)
           r == Append(q, p)
           w == Append(v, x)
<1>1. /\ n \in Nat /\ Len(v) = n /\ r \in Seq(Packet) /\ w \in Seq(Links)
      /\ Len(r) = n + 1 /\ Len(w) = n + 1
      /\ \A i \in 1..n : r[i] = q[i] /\ w[i] = v[i]
      /\ r[n + 1] = p /\ w[n + 1] = x
  BY DEF ListOK
<1>2. \A i \in 1..n : CameBy(v[i], q[i], o)
  BY DEF ListOK
<1> HIDE DEF n, r, w
<1>3. ASSUME NEW i \in 1..(n + 1)
      PROVE  CameBy(w[i], r[i], o)
  <2>1. i \in 1..n \/ i = n + 1
    BY <1>1
  <2> QED
    BY <1>1, <1>2, <2>1
<1> QED
  BY <1>1, <1>3 DEF ListOK, r, w

LEMMA ListTail ==
    ASSUME NEW o, NEW q, NEW v, ListOK(q, v, o), q # <<>>
    PROVE  ListOK(Tail(q), Tail(v), o)
<1> DEFINE n == Len(q)
           r == Tail(q)
           w == Tail(v)
<1>1. q \in Seq(Packet) /\ v \in Seq(Links) /\ Len(v) = n
  BY DEF ListOK
<1>2. n \in Nat /\ n # 0
  BY <1>1
<1>3. v # <<>>
  BY <1>1, <1>2
<1>4. /\ r \in Seq(Packet) /\ w \in Seq(Links)
      /\ Len(r) = n - 1 /\ Len(w) = n - 1
      /\ \A i \in 1..(n - 1) : r[i] = q[i + 1] /\ w[i] = v[i + 1]
  BY <1>1, <1>2, <1>3
<1>5. \A i \in 1..n : CameBy(v[i], q[i], o)
  BY DEF ListOK
<1> HIDE DEF n, r, w
<1>6. ASSUME NEW i \in 1..(n - 1)
      PROVE  CameBy(w[i], r[i], o)
  <2>1. i + 1 \in 1..n
    BY <1>2
  <2> QED
    BY <1>4, <1>5, <2>1
<1> QED
  BY <1>4, <1>6 DEF ListOK, r, w

LEMMA InitLists ==
    ASSUME Init
    PROVE  ListsOK
<1> SUFFICES ASSUME NEW o \in Outputs
             PROVE  ListOK(queue[o], vq[o], o)
  BY DEF ListsOK
<1>1. queue[o] = <<>> /\ vq[o] = <<>>
  BY DEF Init, Ports
<1>2. ListOK(<<>>, <<>>, o)
  BY DEF ListOK
<1> DEFINE e == <<>>
<1>3. queue[o] = e /\ vq[o] = e /\ ListOK(e, e, o)
  BY <1>1, <1>2
<1> HIDE DEF e
<1> QED
  BY <1>3

\* Actions that leave the outputs as they are.
LEMMA StayLists ==
    ASSUME ListsOK, OutputsStay
    PROVE  ListsOK'
  BY DEF ListsOK, OutputsStay

LEMMA EntersLists ==
    ASSUME IInv, FlowsInv, ListsOK, NEW x \in Links, NEW p \in Packet, Hops(x, p), Enters(x, p)
    PROVE  ListsOK'
<1> DEFINE o == Ahead(x, p)
<1>1. /\ \A r \in Outputs : queue'[r] = IF r = o THEN Append(queue[r], p) ELSE queue[r]
      /\ vq' = [vq EXCEPT ![o] = Append(@, x)]
      /\ o \in Outputs /\ vq \in [Outputs -> Seq(Links)]
  BY DEF Enters, Hops, IInv, InputsKnown
<1>2. CameBy(x, p, o)
  <2>1. p \in On(x)
    <3>1. Moves(x, Ahead(x, p), p)
      BY HopsMove
    <3> QED
      BY <3>1 DEF Moves
  <2> QED
    BY <2>1, LinkPorts DEF CameBy, FlowsInv, Ahead
<1> HIDE DEF o
<1>3. ListOK(queue[o], vq[o], o)
  BY <1>1 DEF ListsOK
<1>4. ListOK(Append(queue[o], p), Append(vq[o], x), o)
  BY <1>2, <1>3, ListAppend
<1> QED
  BY <1>1, <1>4 DEF ListsOK

LEMMA LeavesLists ==
    ASSUME IInv, ListsOK, Hosts \subseteq Budgeted, NEW o \in Outputs, NEW l, Leaves(o, l)
    PROVE  ListsOK'
<1>1. /\ l = queue[o]
      /\ \A r \in Outputs : queue'[r] = IF r # o THEN queue[r]
                                        ELSE IF l = <<>> THEN <<>> ELSE Tail(l)
      /\ vq' = IF l = <<>> THEN vq ELSE [vq EXCEPT ![o] = Tail(@)]
      /\ vq \in [Outputs -> Seq(Links)] /\ ListOK(l, vq[o], o)
  BY DEF Leaves, IInv, InputsKnown, ListsOK
<1>2. CASE l = <<>>
  BY <1>1, <1>2 DEF ListsOK
<1>3. CASE l # <<>>
  <2>1. ListOK(Tail(l), Tail(vq[o]), o)
    BY <1>1, <1>3, ListTail
  <2> QED
    BY <1>1, <1>3, <2>1 DEF ListsOK
<1> QED
  BY <1>2, <1>3

LEMMA NextLists ==
    ASSUME IInv, FlowsInv, ListsOK, Hosts \subseteq Budgeted, [Next]_vars
    PROVE  ListsOK'
<1>1. CASE \E h \in Hosts : HostSends(h)
  BY <1>1, HostSendsIInv, StayLists
<1>2. CASE \E h \in Hosts : HostCompletes(h)
  BY <1>2, HostCompletesIInv, StayLists
<1>3. CASE \E x \in Links : ReachesInput(x)
  BY <1>3, ReachesInputIInv, StayLists
<1>4. CASE \E x \in Links : ReachesOutput(x)
  BY <1>4, ReachesOutputLines, EntersLists
<1>5. CASE \E o \in Outputs : OutputCompletes(o)
  BY <1>5, OutputCompletesLines, LeavesLists
<1>6. CASE Tick
  BY <1>6, StayLists DEF Tick, OutputsStay
<1>7. CASE UNCHANGED vars
  BY <1>7, StayLists DEF vars, portVars, OutputsStay
<1> QED
  BY <1>1, <1>2, <1>3, <1>4, <1>5, <1>6, <1>7 DEF Next, Happens

\* The entries of an input are then the packets that wait and came through it.
LEMMA ListsBytes ==
    ASSUME IInv, ListsOK
    PROVE  InputBytesExact
<1> DEFINE Of(x, o) == {i \in DOMAIN queue[o] :
                          LET p == queue[o][i]
                          IN  x \in Route[p.exit][p.src] /\ Forward[x][p.exit] = o}
           Waiting(x) == UNION {{o} \X Of(x, o) : o \in Outputs}
<1>1. ASSUME NEW x \in Links
      PROVE  Waiting(x) = Entries(vq, x)
  <2>1. ASSUME NEW o \in Outputs, NEW i
        PROVE  i \in Of(x, o) <=> i \in 1..Len(vq[o]) /\ vq[o][i] = x
    <3> DEFINE q == queue[o]
               v == vq[o]
    <3>1. ListOK(q, v, o)
      BY DEF ListsOK
    <3>2. i \in Of(x, o) <=> /\ i \in DOMAIN q
                            /\ x \in Route[q[i].exit][q[i].src] /\ Forward[x][q[i].exit] = o
      OBVIOUS
    <3> HIDE DEF q, v, Of
    <3>3. /\ DOMAIN q = 1..Len(q) /\ Len(v) = Len(q)
          /\ \A j \in 1..Len(q) : q[j] \in Packet /\ CameBy(v[j], q[j], o)
      BY <3>1 DEF ListOK
    <3>4. ASSUME i \in 1..Len(q)
          PROVE  x \in Route[q[i].exit][q[i].src] /\ Forward[x][q[i].exit] = o <=> v[i] = x
      <4>1. q[i] \in Packet /\ CameBy(v[i], q[i], o)
        BY <3>3, <3>4
      <4>2. q[i].exit \in Exits /\ q[i].src \in Ports
        BY <4>1, PacketFields
      <4> QED
        BY <4>1, <4>2, OneWayIn DEF CameBy
    <3> QED
      BY <3>2, <3>3, <3>4 DEF v
  <2> HIDE DEF Of
  <2>2. ASSUME NEW e
        PROVE  e \in Waiting(x) <=> \E o \in Outputs : e \in {o} \X Of(x, o)
    OBVIOUS
  <2>3. ASSUME NEW e, e \in Waiting(x)
        PROVE  e \in Entries(vq, x)
    <3>1. PICK o \in Outputs : e \in {o} \X Of(x, o)
      BY <2>2, <2>3
    <3>2. e = <<e[1], e[2]>> /\ e[1] = o /\ e[2] \in Of(x, o)
      BY <3>1
    <3>3. e[2] \in 1..Len(vq[o]) /\ vq[o][e[2]] = x
      BY <2>1, <3>2
    <3>4. e[2] \in Nat
      BY <3>3
    <3> QED
      BY <3>2, <3>3, <3>4 DEF Entries
  <2>4. ASSUME NEW e, e \in Entries(vq, x)
        PROVE  e \in Waiting(x)
    <3>1. /\ e = <<e[1], e[2]>> /\ e[1] \in Outputs
          /\ e[2] \in 1..Len(vq[e[1]]) /\ vq[e[1]][e[2]] = x
      BY <2>4 DEF Entries
    <3>2. e[2] \in Of(x, e[1])
      BY <2>1, <3>1
    <3>3. e \in {e[1]} \X Of(x, e[1])
      BY <3>1, <3>2
    <3> QED
      BY <2>2, <3>1, <3>3
  <2> HIDE DEF Waiting
  <2> QED
    BY <2>3, <2>4
<1>2. \A x \in Links : bytes[x] = Mtu * (Len(cross[x]) + Cardinality(Entries(vq, x)))
  BY DEF IInv, BytesCounted
<1>3. InputBytesExact <=>
        \A x \in Links : bytes[x] = Mtu * (Len(cross[x]) + Cardinality(Waiting(x)))
  BY Zenon DEF InputBytesExact
<1> HIDE DEF Waiting
<1> QED
  BY <1>1, <1>2, <1>3

\* An input queue counts exactly the bytes that came through it and are still in the
\* switch, however the inputs share the outputs and the hosts double their packets, if
\* every packet has a timeout budget.
THEOREM InputBytesMatch ==
    ASSUME Hosts \subseteq Budgeted
    PROVE  Spec => []InputBytesExact
<1>1. Init => FlowsInv /\ ListsOK
  BY InitFlows, InitLists
<1>2. IInv /\ IInv' /\ FlowsInv /\ ListsOK /\ [Next]_vars => FlowsInv' /\ ListsOK'
  BY NextFlows, NextLists
<1>3. IInv /\ ListsOK => InputBytesExact
  BY ListsBytes
<1> QED
  BY <1>1, <1>2, <1>3, PfcInvariance, PTL DEF Spec

-----------------------------------------------------------------------------
(* Thresholds that are far apart *)

\* The outputs that the packets of host h leave its switch by.
Fed(h) == UNION {{Forward[h][Load[h][b][i]] : i \in DOMAIN Load[h][b]} : b \in DOMAIN Load[h]}

\* Between the thresholds is more than leaves through these outputs while a packet is
\* transmitted, of which each has at most two.
Apart == \A h \in Hosts : High - Low + 1 >= 2 * Mtu * Cardinality(Fed(h))

\* Ticks until a packet may leave an output with completions u; the packets that may leave
\* the outputs fed by host h within r ticks, the first or the second of an output.
Eta(u) == IF u = <<>> THEN TxTime ELSE Head(u)
Coming(h, d, r) ==
    {e \in Fed(h) \X {1, 2} : Eta(d[e[1]]) + (e[2] - 1) * TxTime <= r}

LEMMA FedFinite ==
    ASSUME NEW h \in Hosts
    PROVE  /\ Fed(h) \subseteq Outputs /\ IsFiniteSet(Fed(h)) /\ Cardinality(Fed(h)) \in Nat
           /\ \A b \in DOMAIN Load[h] : \A i \in DOMAIN Load[h][b] :
                 Load[h][b][i] \in Exits /\ Forward[h][Load[h][b][i]] \in Fed(h)
<1> DEFINE n == Len(Load[h])
           S == InBursts(h, n)
           f == [e \in S |-> Forward[h][Load[h][e[1]][e[2]]]]
           F == Fed(h)
<1>1. /\ Load[h] \in Seq(Seq(Exits)) /\ n \in Nat /\ DOMAIN Load[h] = 1..n
      /\ \A b \in 1..n : Load[h][b] \in Seq(Exits)
      /\ h \in Links
  BY PfcAssumption, LinkPorts
<1>2. \A b \in DOMAIN Load[h] : \A i \in DOMAIN Load[h][b] :
         /\ Load[h][b][i] \in Exits /\ Forward[h][Load[h][b][i]] \in Outputs
         /\ Forward[h][Load[h][b][i]] \in Fed(h)
  <2> SUFFICES ASSUME NEW b \in DOMAIN Load[h], NEW i \in DOMAIN Load[h][b]
               PROVE  /\ Load[h][b][i] \in Exits /\ Forward[h][Load[h][b][i]] \in Outputs
                      /\ Forward[h][Load[h][b][i]] \in Fed(h)
    OBVIOUS
  <2>1. Load[h][b] \in Seq(Exits)
    BY <1>1
  <2>2. Load[h][b][i] \in Exits
    BY <2>1
  <2>3. Forward[h] \in [Exits -> Outputs]
    BY <1>1, PfcAssumption
  <2> QED
    BY <2>2, <2>3 DEF Fed
<1>3. F \subseteq Outputs
  BY <1>2 DEF Fed
<1>4. IsFiniteSet(S)
  <2>1. n <= Len(Load[h])
    BY <1>1
  <2> HIDE DEF n
  <2> QED
    BY <1>1, <2>1, PacketsInType
<1>5. f \in Surjection(S, F)
  <2>1. ASSUME NEW e \in S
        PROVE  f[e] \in F
    <3>1. e[1] \in DOMAIN Load[h] /\ e[2] \in DOMAIN Load[h][e[1]]
      BY <1>1 DEF InBursts
    <3> QED
      BY <1>2, <3>1
  <2>2. ASSUME NEW o \in F
        PROVE  \E e \in S : f[e] = o
    <3>1. PICK b \in DOMAIN Load[h] : \E i \in DOMAIN Load[h][b] : o = Forward[h][Load[h][b][i]]
      BY DEF Fed
    <3>2. PICK i \in DOMAIN Load[h][b] : o = Forward[h][Load[h][b][i]]
      BY <3>1
    <3>3. <<b, i>> \in S
      BY <1>1 DEF InBursts
    <3>4. f[<<b, i>>] = o
      BY <3>2, <3>3
    <3> QED
      BY <3>3, <3>4
  <2>3. f \in [S -> F]
    BY <2>1
  <2> HIDE DEF f, S, F
  <2> QED
    BY <2>2, <2>3, Fun_IsSurj
<1>6. IsFiniteSet(F)
  <2> HIDE DEF f, S, F
  <2> QED
    BY <1>4, <1>5, FS_Surjection
<1> QED
  BY <1>2, <1>3, <1>6, FS_CardinalityType

\* They are two for each output.
LEMMA ComingMost ==
    ASSUME NEW h \in Hosts, NEW d, NEW r
    PROVE  /\ IsFiniteSet(Coming(h, d, r)) /\ Cardinality(Coming(h, d, r)) \in Nat
           /\ Cardinality(Coming(h, d, r)) <= 2 * Cardinality(Fed(h))
<1> DEFINE F == Fed(h)
           P == F \X {1, 2}
           C == Coming(h, d, r)
<1>1. IsFiniteSet(F) /\ Cardinality(F) \in Nat
  BY FedFinite
<1>2. IsFiniteSet({1, 2}) /\ Cardinality({1, 2}) = 2
  <2>1. 1 \in Int /\ 2 \in Int
    OBVIOUS
  <2>2. IsFiniteSet(1..2) /\ Cardinality(1..2) = IF 1 > 2 THEN 0 ELSE 2 - 1 + 1
    BY <2>1, FS_Interval, Zenon
  <2>3. 1..2 = {1, 2} /\ ~(1 > 2) /\ 2 - 1 + 1 = 2
    OBVIOUS
  <2> QED
    BY <2>2, <2>3
<1>3. C \subseteq P
  BY DEF Coming
<1> DEFINE T == {1, 2}
<1> HIDE DEF F, C, T
<1>4. IsFiniteSet(F \X T) /\ Cardinality(F \X T) = Cardinality(F) * 2
  <2>1. IsFiniteSet(T) /\ Cardinality(T) = 2
    BY <1>2 DEF T
  <2> QED
    BY <1>1, <2>1, FS_Product
<1>5. IsFiniteSet(C) /\ Cardinality(C) <= Cardinality(F \X T)
  BY <1>3, <1>4, FS_Subset DEF T
<1>6. Cardinality(C) \in Nat
  BY <1>5, FS_CardinalityType
<1> QED
  BY <1>1, <1>4, <1>5, <1>6 DEF F, C

LEMMA EtaType ==
    ASSUME NEW u \in Seq(0..TxTime)
    PROVE  Eta(u) \in 0..TxTime /\ Eta(Append(u, TxTime)) = Eta(u)
<1>1. TxTime \in Nat
  BY PfcAssumption
<1>2. CASE u = <<>>
  BY <1>1, <1>2 DEF Eta
<1>3. CASE u # <<>>
  <2> DEFINE S == 0..TxTime
  <2>1. u \in Seq(S) /\ TxTime \in S
    BY <1>1
  <2> HIDE DEF S
  <2>2. Head(u) \in S /\ Head(Append(u, TxTime)) = Head(u)
    BY <1>3, <2>1
  <2>3. Append(u, TxTime) # <<>>
    BY <2>1
  <2> QED
    BY <1>3, <2>2, <2>3 DEF Eta, S
<1> QED
  BY <1>2, <1>3

\* There are no more of them if no output is nearer to its completion than the host is to its
\* own.
LEMMA ComingLess ==
    ASSUME NEW h \in Hosts, NEW c, NEW d, NEW r \in Int, NEW n \in Int,
           \A o \in Outputs : /\ Eta(c[o]) \in Int /\ Eta(d[o]) \in Int
                              /\ Eta(d[o]) - n >= Eta(c[o]) - r
    PROVE  /\ Coming(h, d, n) \subseteq Coming(h, c, r)
           /\ Cardinality(Coming(h, d, n)) <= Cardinality(Coming(h, c, r))
<1> DEFINE C == Coming(h, c, r)
           D == Coming(h, d, n)
<1>1. Fed(h) \subseteq Outputs
  BY FedFinite
<1>2. ASSUME NEW e \in D
      PROVE  e \in C
  <2>1. e \in Fed(h) \X {1, 2} /\ Eta(d[e[1]]) + (e[2] - 1) * TxTime <= n
    BY DEF Coming
  <2> DEFINE t == (e[2] - 1) * TxTime
             a == Eta(c[e[1]])
             b == Eta(d[e[1]])
  <2>2. t \in Int /\ a \in Int /\ b \in Int /\ b - n >= a - r
    <3>1. e[1] \in Outputs /\ e[2] \in Int
      BY <1>1, <2>1
    <3>2. TxTime \in Int
      BY PfcAssumption
    <3> QED
      BY <3>1, <3>2
  <2>3. b + t <= n
    BY <2>1
  <2> HIDE DEF t, a, b
  <2>4. a + t <= r
    BY <2>2, <2>3
  <2> QED
    BY <2>1, <2>4 DEF Coming, a, t
<1>3. IsFiniteSet(C)
  BY ComingMost
<1> HIDE DEF C, D
<1>4. D \subseteq C
  BY <1>2
<1> QED
  BY <1>3, <1>4, FS_Subset DEF C, D

\* There is one less once a packet has left.
LEMMA ComingLeft ==
    ASSUME NEW h \in Hosts, NEW c, NEW d, NEW r \in 0..TxTime, NEW o \in Fed(h),
           Eta(c[o]) = 0, Eta(d[o]) = TxTime,
           \A y \in Outputs : /\ Eta(c[y]) \in Int /\ Eta(d[y]) \in Int
                              /\ Eta(d[y]) >= Eta(c[y])
    PROVE  Cardinality(Coming(h, d, r)) + 1 <= Cardinality(Coming(h, c, r))
<1> DEFINE C == Coming(h, c, r)
           D == Coming(h, d, r)
           e == IF r = TxTime THEN <<o, 2>> ELSE <<o, 1>>
<1>1. TxTime \in Nat /\ TxTime > 0 /\ r \in Int /\ 0 <= r /\ r <= TxTime
  BY PfcAssumption
<1>2. D \subseteq C
  <2>1. \A y \in Outputs : /\ Eta(c[y]) \in Int /\ Eta(d[y]) \in Int
                           /\ Eta(d[y]) - r >= Eta(c[y]) - r
    BY <1>1
  <2> QED
    BY <1>1, <2>1, ComingLess
<1>3. \A k \in {1, 2} : /\ <<o, k>> \in C <=> 0 + (k - 1) * TxTime <= r
                        /\ <<o, k>> \in D <=> TxTime + (k - 1) * TxTime <= r
  <2> TAKE k \in {1, 2}
  <2>1. <<o, k>> \in Fed(h) \X {1, 2}
    OBVIOUS
  <2> QED
    BY <2>1 DEF Coming
<1>4. /\ <<o, 1>> \in C
      /\ <<o, 2>> \in C <=> TxTime <= r
      /\ <<o, 1>> \in D <=> TxTime <= r
      /\ <<o, 2>> \in D <=> TxTime + TxTime <= r
  <2>1. (1 - 1) * TxTime = 0 /\ (2 - 1) * TxTime = TxTime
    BY <1>1
  <2>2. 0 + 0 <= r /\ 0 + TxTime = TxTime /\ TxTime + 0 = TxTime
    BY <1>1
  <2> QED
    BY <1>3, <2>1, <2>2
<1>5. e \in C /\ e \notin D
  BY <1>1, <1>4
<1>6. IsFiniteSet(C) /\ IsFiniteSet(D) /\ Cardinality(C) \in Nat /\ Cardinality(D) \in Nat
  BY ComingMost
<1> HIDE DEF C, D, e
<1>7. IsFiniteSet(C \ {e}) /\ Cardinality(C \ {e}) = Cardinality(C) - 1
  BY <1>5, <1>6, FS_RemoveElement
<1>8. Cardinality(D) <= Cardinality(C \ {e})
  <2>1. D \subseteq C \ {e}
    BY <1>2, <1>5
  <2> QED
    BY <1>7, <2>1, FS_Subset
<1> QED
  BY <1>6, <1>7, <1>8 DEF C, D

\* The packets of a host leave its switch by outputs it feeds, and only these have entries
\* of its input.
OnFed == \A h \in Hosts : \A p \in On(h) : Forward[h][p.exit] \in Fed(h)
EntryFed(v, o) == \A i \in 1..Len(v) : v[i] \in Hosts => o \in Fed(v[i])
EntriesFed == \A o \in Outputs : EntryFed(vq[o], o)

LEMMA InitFed ==
    ASSUME Init
    PROVE  OnFed /\ EntriesFed
<1>1. \A h \in Hosts : On(h) = {}
  BY InitLines, LinkPorts DEF On, ToSet
<1>2. \A o \in Outputs : vq[o] = <<>>
  BY DEF Init
<1> QED
  BY <1>1, <1>2 DEF OnFed, EntriesFed, EntryFed

\* The packets of a burst.
LEMMA BurstFed ==
    ASSUME NEW h \in Hosts, NEW k \in 1..Len(Load[h]), NEW p \in ToSet(Burst(h, k))
    PROVE  Forward[h][p.exit] \in Fed(h)
<1> DEFINE n == Len(Load[h][k])
           s == Burst(h, k)
<1>1. /\ s \in Seq(Packet) /\ Len(s) = n /\ n \in Nat
      /\ \A i \in 1..n : s[i] = [src |-> h, seq |-> PacketsIn(h, k - 1) + i,
                                 exit |-> Load[h][k][i]]
  BY BurstType
<1>2. DOMAIN Load[h] = 1..Len(Load[h]) /\ DOMAIN Load[h][k] = 1..n
  <2>1. Load[h] \in Seq(Seq(Exits))
    BY PfcAssumption
  <2>2. Load[h][k] \in Seq(Exits)
    BY <2>1
  <2> QED
    BY <2>1, <2>2
<1> HIDE DEF s
<1>3. PICK i \in 1..n : s[i] = p
  <2>1. DOMAIN s = 1..n
    BY <1>1
  <2> QED
    BY <2>1 DEF ToSet, s
<1>4. p.exit = Load[h][k][i]
  <2> DEFINE e == Load[h][k][i]
             m == PacketsIn(h, k - 1) + i
  <2>1. p = [src |-> h, seq |-> m, exit |-> e]
    BY <1>1, <1>3
  <2> HIDE DEF e, m
  <2>2. p.exit = e
    BY <2>1
  <2> QED
    BY <2>2 DEF e
<1>5. k \in DOMAIN Load[h] /\ i \in DOMAIN Load[h][k]
  BY <1>2
<1>6. Forward[h][Load[h][k][i]] \in Fed(h)
  BY <1>5, FedFinite
<1> QED
  BY <1>4, <1>6

LEMMA NextOnFed ==
    ASSUME IInv, OnFed, [Next]_vars
    PROVE  OnFed'
<1>0. Hosts \subseteq Ports /\ Hosts \cap Outputs = {}
  BY LinkPorts
<1>1. LineStep
  BY NextLines
<1>2. CASE \E h \in Hosts : BurstSent(h)
  <2>1. PICK h \in Hosts : BurstSent(h)
    BY <1>2
  <2> DEFINE k == sent[h] + 1
             b == Burst(h, k)
             s == Line(h)
  <2>2. /\ k \in 1..Len(Load[h]) /\ Line(h)' = s \o b
        /\ \A y \in Ports \ {h} : Line(y)' = Line(y)
    BY <2>1 DEF BurstSent, LinesStay
  <2>3. s \in Seq(Packet) /\ b \in Seq(Packet) /\ On(h) = ToSet(s) /\ On(h)' = ToSet(s \o b)
    BY <1>0, <2>2, OnType, BurstType DEF On
  <2>4. \A p \in ToSet(b) : Forward[h][p.exit] \in Fed(h)
    BY <2>2, BurstFed
  <2> HIDE DEF s, b
  <2>5. On(h)' = On(h) \cup ToSet(b)
    <3>1. Joint(s \o b, s, b)
      BY <2>3, ConcatOrder
    <3> QED
      BY <2>3, <3>1 DEF Joint
  <2>6. \A y \in Ports \ {h} : On(y)' = On(y)
    BY <2>2 DEF On
  <2> QED
    BY <1>0, <2>4, <2>5, <2>6 DEF OnFed
<1>3. CASE \E x \in Links, k \in Packet : Hops(x, k)
  <2>1. PICK x \in Links, k \in Packet : Hops(x, k)
    BY <1>3
  <2> DEFINE o == Ahead(x, k)
  <2>2. o \in Outputs /\ Moves(x, o, k) /\ \A y \in Ports \ {x, o} : On(y)' = On(y)
    BY <2>1, HopsMove DEF Hops, LinesStay, On
  <2> HIDE DEF o
  <2>3. \A h \in Hosts : On(h)' \subseteq On(h)
    BY <1>0, <2>2 DEF Moves
  <2> QED
    BY <2>3 DEF OnFed
<1>4. CASE \E o \in Exits, l \in Seq(Packet) : Arrives(o, l)
  <2>1. PICK o \in Exits, l \in Seq(Packet) : Arrives(o, l)
    BY <1>4
  <2>2. \A h \in Hosts : On(h)' \subseteq On(h)
    BY <1>0, <2>1, LinkPorts DEF Arrives, Thins, Follows, On
  <2> QED
    BY <2>2 DEF OnFed
<1>5. CASE LinesThin
  <2>1. \A h \in Hosts : On(h)' \subseteq On(h)
    BY <1>0, <1>5 DEF LinesThin, Thins, Follows, On
  <2> QED
    BY <2>1 DEF OnFed
<1> QED
  BY <1>1, <1>2, <1>3, <1>4, <1>5 DEF LineStep

LEMMA FedAppend ==
    ASSUME NEW o, NEW v \in Seq(Links), EntryFed(v, o), NEW x \in Links,
           x \in Hosts => o \in Fed(x)
    PROVE  EntryFed(Append(v, x), o)
<1> DEFINE n == Len(v)
           w == Append(v, x)
<1>1. /\ n \in Nat /\ Len(w) = n + 1 /\ w[n + 1] = x
      /\ \A i \in 1..n : w[i] = v[i]
  OBVIOUS
<1> HIDE DEF n, w
<1>2. \A i \in 1..(n + 1) : i \in 1..n \/ i = n + 1
  BY <1>1
<1>3. EntryFed(w, o)
  BY <1>1, <1>2 DEF EntryFed, n
<1> QED
  BY <1>3 DEF w

LEMMA FedTail ==
    ASSUME NEW o, NEW v \in Seq(Links), EntryFed(v, o), v # <<>>
    PROVE  EntryFed(Tail(v), o)
<1> DEFINE n == Len(v)
           w == Tail(v)
<1>1. /\ n \in Nat /\ Len(w) = n - 1
      /\ \A i \in 1..(n - 1) : w[i] = v[i + 1]
  OBVIOUS
<1> HIDE DEF n, w
<1>2. \A i \in 1..(n - 1) : i + 1 \in 1..n
  BY <1>1
<1>3. EntryFed(w, o)
  BY <1>1, <1>2 DEF EntryFed, n
<1> QED
  BY <1>3 DEF w

LEMMA NextEntriesFed ==
    ASSUME IInv, OnFed, EntriesFed, [Next]_vars
    PROVE  EntriesFed'
<1>0. vq \in [Outputs -> Seq(Links)] /\ \A o \in Outputs : EntryFed(vq[o], o)
  BY DEF IInv, InputsKnown, EntriesFed
<1>1. vq' = vq => EntriesFed'
  BY DEF EntriesFed
<1>2. CASE \E h \in Hosts : HostSends(h)
  BY <1>1, <1>2, HostSendsIInv DEF OutputsStay
<1>3. CASE \E h \in Hosts : HostCompletes(h)
  BY <1>1, <1>3, HostCompletesIInv DEF OutputsStay
<1>4. CASE \E x \in Links : ReachesInput(x)
  BY <1>1, <1>4, ReachesInputIInv DEF OutputsStay
<1>5. CASE \E x \in Links : ReachesOutput(x)
  <2>1. PICK x \in Links, p \in Packet : Hops(x, p) /\ Enters(x, p)
    BY <1>5, ReachesOutputLines
  <2> DEFINE o == Ahead(x, p)
  <2>2. o \in Outputs /\ vq' = [vq EXCEPT ![o] = Append(@, x)]
    BY <2>1 DEF Enters, Hops
  <2>3. x \in Hosts => o \in Fed(x)
    <3>1. Moves(x, Ahead(x, p), p)
      BY <2>1, HopsMove
    <3>2. p \in On(x)
      BY <3>1 DEF Moves
    <3> QED
      BY <3>2 DEF OnFed, Ahead
  <2> HIDE DEF o
  <2>4. EntryFed(Append(vq[o], x), o)
    BY <1>0, <2>2, <2>3, FedAppend
  <2> QED
    BY <1>0, <2>2, <2>4 DEF EntriesFed
<1>6. CASE \E o \in Outputs : OutputCompletes(o)
  <2>1. PICK o \in Outputs, l \in Seq(Packet) : Leaves(o, l)
    BY <1>6, OutputCompletesLines
  <2>2. CASE l = <<>>
    BY <1>1, <2>1, <2>2 DEF Leaves
  <2>3. CASE l # <<>>
    <3>1. vq' = [vq EXCEPT ![o] = Tail(@)]
      BY <2>1, <2>3 DEF Leaves
    <3>2. vq[o] # <<>>
      <4> DEFINE q == queue[o]
                 v == vq[o]
      <4>1. q \in Seq(Packet) /\ v \in Seq(Links) /\ Len(q) <= Len(v)
        <5>1. q \in Seq(Packet)
          BY LineType DEF Ports
        <5> QED
          BY <1>0, <5>1 DEF IInv, InputsKnown
      <4>2. Follows(l, q)
        BY <2>1 DEF Leaves
      <4> HIDE DEF q, v
      <4>3. Head(l) \in ToSet(l)
        BY <2>3, HeadFirst DEF Headed
      <4>4. q # <<>>
        BY <4>2, <4>3 DEF Follows, ToSet
      <4>5. Len(q) \in Nat /\ Len(q) # 0
        BY <4>1, <4>4
      <4>6. Len(v) \in Nat /\ Len(v) # 0
        BY <4>1, <4>5
      <4>7. v # <<>>
        BY <4>1, <4>6
      <4> QED
        BY <4>7 DEF v
    <3>3. EntryFed(Tail(vq[o]), o)
      BY <1>0, <3>2, FedTail
    <3> QED
      BY <1>0, <3>1, <3>3 DEF EntriesFed
  <2> QED
    BY <2>2, <2>3
<1>7. CASE Tick
  BY <1>1, <1>7 DEF Tick
<1>8. CASE UNCHANGED vars
  BY <1>1, <1>8 DEF vars, portVars
<1> QED
  BY <1>2, <1>3, <1>4, <1>5, <1>6, <1>7, <1>8 DEF Next, Happens

\* A host may have queue q, count z, state d, packet g in transmission and completions u:
\* it counts exactly what it has, has one completion pending if it transmits and none
\* otherwise, transmits if it is ready and has something, and does not once it is paused.
Serves(q, z, d, g, u) ==
    /\ z = Mtu * Len(q) + (IF g = NoPacket THEN 0 ELSE Mtu)
    /\ Len(u) = IF g = NoPacket THEN 0 ELSE 1
    /\ d = "READY" /\ q # <<>> => g # NoPacket
    /\ d = "PAUSED" => g = NoPacket
    /\ d = "PAUSE_RECEIVED" => g # NoPacket
ServesAt(s, h) == Serves(s.queue[h], s.size[h], s.send[h], s.sending[h], s.due[h])

\* Port x has the same in states s and t.
Same(t, s, x) ==
    /\ t.queue[x] = s.queue[x] /\ t.size[x] = s.size[x] /\ t.send[x] = s.send[x]
    /\ t.sending[x] = s.sending[x] /\ t.due[x] = s.due[x]
SameBut(t, s, x) == \A y \in Ports \ {x} : Same(t, s, y)

\* Port x may have begun a transmission.
MayBegin(t, s, x) == t.due[x] = s.due[x] \/ t.due[x] = Append(s.due[x], TxTime)

LEMMA ChangedSame ==
    ASSUME NEW s, NEW t, NEW x \in Ports, NEW q, NEW z, NEW d, NEW g, NEW u,
           Changed(s, t, x, q, z, d, g, u)
    PROVE  /\ SameBut(t, s, x)
           /\ t.queue[x] = q /\ t.size[x] = z /\ t.send[x] = d /\ t.sending[x] = g
           /\ t.due[x] = u
  BY DEF Changed, Same, SameBut

LEMMA SameServes ==
    ASSUME NEW s, NEW t, NEW h, Same(t, s, h), ServesAt(s, h)
    PROVE  ServesAt(t, h)
  BY DEF Same, ServesAt

LEMMA SameTwice ==
    ASSUME NEW r, NEW s, NEW t, NEW x, SameBut(s, r, x), SameBut(t, s, x)
    PROVE  SameBut(t, r, x)
  BY DEF SameBut, Same

\* What a host counts: nothing or all of something.
LEMMA CountOfQueue ==
    ASSUME NEW q \in Seq(Packet)
    PROVE  /\ Mtu * Len(q) \in Nat /\ (Mtu * Len(q) = 0 <=> q = <<>>)
           /\ q # <<>> => Mtu * Len(q) = Mtu * Len(Tail(q)) + Mtu
<1> DEFINE n == Len(q)
           m == Len(Tail(q))
<1>1. n \in Nat /\ (n = 0 <=> q = <<>>) /\ Mtu \in Nat /\ Mtu > 0
  BY PfcAssumption
<1>2. q # <<>> => m \in Nat /\ n = m + 1
  <2> SUFFICES ASSUME q # <<>>
               PROVE  m \in Nat /\ n = m + 1
    OBVIOUS
  <2>1. m = n - 1 /\ n # 0
    BY <1>1
  <2> HIDE DEF m, n
  <2> QED
    BY <1>1, <2>1
<1> HIDE DEF m, n
<1>3. Mtu * n \in Nat /\ (Mtu * n = 0 <=> n = 0)
  BY <1>1
<1>4. m \in Nat => Mtu * (m + 1) = Mtu * m + Mtu
  <2>1. \A a, b \in Int : a * (b + 1) = a * b + a
    OBVIOUS
  <2> QED
    BY <1>1, <2>1
<1> QED
  BY <1>1, <1>2, <1>3, <1>4 DEF m, n

LEMMA BeginSame ==
    ASSUME NEW s, PortsOK(s), NEW x \in Ports
    PROVE  LET t == BeginService(s, x)
           IN  SameBut(t, s, x) /\ MayBegin(t, s, x) /\ t.send[x] = s.send[x]
<1> DEFINE t == BeginService(s, x)
           q == BegunQueue(s, x)
           z == s.size[x]
           d == s.send[x]
           g == BegunSending(s, x)
           u == Append(s.due[x], TxTime)
<1>1. Changed(s, t, x, q, z, d, g, u)
  BY BeginChanges
<1> HIDE DEF t, q, z, g, u
<1>2. SameBut(t, s, x) /\ t.due[x] = u /\ t.send[x] = d
  BY <1>1, ChangedSame
<1> QED
  BY <1>2 DEF t, u, MayBegin

\* A host that is ready and has something begins to transmit.
LEMMA HostBegins ==
    ASSUME NEW s, PortsOK(s), NEW h \in Hosts, s.queue[h] # <<>>,
           s.size[h] = Mtu * Len(s.queue[h]), s.due[h] = <<>>, s.send[h] = "READY"
    PROVE  LET t == BeginService(s, h)
           IN  ServesAt(t, h) /\ SameBut(t, s, h) /\ t.send[h] = "READY"
<1> DEFINE t == BeginService(s, h)
           q == s.queue[h]
           z == s.size[h]
           d == s.send[h]
           r == BegunQueue(s, h)
           g == BegunSending(s, h)
           u == Append(s.due[h], TxTime)
<1>1. h \in Ports /\ h \notin Outputs
  BY LinkPorts
<1>2. Changed(s, t, h, r, z, d, g, u)
  BY <1>1, BeginChanges
<1>3. q \in Seq(Packet)
  BY <1>1, PortTypes
<1>4. r = Tail(q) /\ g = Head(q)
  BY <1>1 DEF BegunQueue, BegunSending
<1>5. g \in Packet /\ g # NoPacket
  BY <1>3, <1>4, PfcAssumption
<1>6. Len(u) = 1
  <2> DEFINE e == <<>>
  <2>1. u = Append(e, TxTime) /\ e \in Seq(Nat) /\ Len(e) = 0
    OBVIOUS
  <2> HIDE DEF e
  <2>2. Len(u) = 0 + 1
    BY <2>1
  <2> QED
    BY <2>2
<1>7. z = Mtu * Len(r) + Mtu
  BY <1>3, <1>4, CountOfQueue
<1> HIDE DEF t, r, z, g, u
<1>8. /\ SameBut(t, s, h) /\ t.queue[h] = r /\ t.size[h] = z /\ t.send[h] = d
      /\ t.sending[h] = g /\ t.due[h] = u
  BY <1>1, <1>2, ChangedSame
<1>9. Serves(r, z, d, g, u)
  BY <1>5, <1>6, <1>7 DEF Serves
<1> QED
  BY <1>8, <1>9 DEF ServesAt, t

\* A PAUSE, at any port.
LEMMA PauseSame ==
    ASSUME NEW s, PortsOK(s), NEW x \in Ports
    PROVE  LET t == ReceivePause(s, x)
           IN  /\ SameBut(t, s, x)
               /\ t.queue[x] = s.queue[x] /\ t.size[x] = s.size[x]
               /\ t.sending[x] = s.sending[x] /\ t.due[x] = s.due[x]
               /\ x \in Hosts =>
                    t.send[x] = IF s.size[x] > 0 THEN "PAUSE_RECEIVED" ELSE "PAUSED"
<1> DEFINE busy == IF x \in Hosts THEN s.size[x] > 0 ELSE s.sending[x] = Busy
           d == IF busy THEN "PAUSE_RECEIVED" ELSE "PAUSED"
           t == [s EXCEPT !.send[x] = d]
           sd == [s.send EXCEPT ![x] = d]
<1>1. ReceivePause(s, x) = t
  BY DEF ReceivePause
<1>2. x \in Hosts => d = IF s.size[x] > 0 THEN "PAUSE_RECEIVED" ELSE "PAUSED"
  OBVIOUS
<1>3. /\ s = [queue |-> s.queue, size |-> s.size, send |-> s.send, sending |-> s.sending,
              due |-> s.due]
      /\ s.send = [y \in Ports |-> s.send[y]]
  BY DEF PortsOK
<1> HIDE DEF d
<1>4. t = [queue |-> s.queue, size |-> s.size, send |-> sd, sending |-> s.sending,
           due |-> s.due]
  BY <1>3
<1>5. sd[x] = d /\ \A y \in Ports \ {x} : sd[y] = s.send[y]
  BY <1>3
<1> HIDE DEF t, sd
<1>6. /\ t.queue = s.queue /\ t.size = s.size /\ t.send = sd /\ t.sending = s.sending
      /\ t.due = s.due
  BY <1>4
<1>7. SameBut(t, s, x)
  BY <1>5, <1>6 DEF SameBut, Same
<1> QED
  BY <1>1, <1>2, <1>5, <1>6, <1>7

LEMMA HostPauses ==
    ASSUME NEW s, PortsOK(s), NEW h \in Hosts, ServesAt(s, h), s.send[h] = "READY"
    PROVE  LET t == ReceivePause(s, h)
           IN  ServesAt(t, h) /\ SameBut(t, s, h) /\ t.due[h] = s.due[h]
<1> DEFINE t == ReceivePause(s, h)
           q == s.queue[h]
           z == s.size[h]
           g == s.sending[h]
           u == s.due[h]
           d == IF z > 0 THEN "PAUSE_RECEIVED" ELSE "PAUSED"
<1>1. h \in Ports
  BY LinkPorts
<1>2. /\ SameBut(t, s, h) /\ t.queue[h] = q /\ t.size[h] = z
      /\ t.sending[h] = g /\ t.due[h] = u /\ t.send[h] = d
  BY <1>1, PauseSame
<1>3. q \in Seq(Packet)
  BY <1>1, PortTypes
<1>4. /\ z = Mtu * Len(q) + (IF g = NoPacket THEN 0 ELSE Mtu)
      /\ Len(u) = IF g = NoPacket THEN 0 ELSE 1
      /\ q # <<>> => g # NoPacket
  BY DEF ServesAt, Serves
<1> HIDE DEF t, q, g, u
<1>5. z > 0 <=> g # NoPacket
  <2> DEFINE m == Mtu * Len(q)
  <2>1. m \in Nat /\ (m = 0 <=> q = <<>>) /\ Mtu \in Nat /\ Mtu > 0
    BY <1>3, CountOfQueue, PfcAssumption
  <2>2. z = m + (IF g = NoPacket THEN 0 ELSE Mtu)
    BY <1>4
  <2> HIDE DEF m, z
  <2>3. CASE g = NoPacket
    BY <1>4, <2>1, <2>2, <2>3
  <2>4. CASE g # NoPacket
    BY <2>1, <2>2, <2>4
  <2> QED
    BY <2>3, <2>4
<1> HIDE DEF z
<1>6. Serves(q, z, d, g, u)
  BY <1>4, <1>5 DEF Serves
<1> HIDE DEF d
<1>7. ServesAt(t, h)
  BY <1>2, <1>6 DEF ServesAt
<1> QED
  BY <1>2, <1>7 DEF t, u

\* A RESUME, at any port: it may begin.
LEMMA ResumeSame ==
    ASSUME NEW s, PortsOK(s), NEW x \in Ports
    PROVE  LET t == ReceiveResume(s, x)
           IN  SameBut(t, s, x) /\ MayBegin(t, s, x)
<1> DEFINE d == "READY"
           ready == [s EXCEPT !.send[x] = d]
           begins == IF x \in Hosts THEN s.size[x] > 0
                     ELSE s.queue[x] # <<>> /\ s.sending[x] = NoPacket
           t == ReceiveResume(s, x)
           b == BeginService(ready, x)
<1>1. t = IF begins THEN b ELSE ready
  BY DEF ReceiveResume
<1>2. d \in Sends /\ d # "PAUSED"
  BY DEF Sends
<1> HIDE DEF d, begins
<1>3. /\ PortsOK(ready) /\ ready.queue = s.queue /\ ready.sending = s.sending
      /\ ready.size = s.size /\ ready.due = s.due
      /\ \A y \in Ports \ {x} : ready.send[y] = s.send[y]
  BY <1>2, SendChanges
<1> HIDE DEF ready
<1>4. SameBut(ready, s, x) /\ MayBegin(ready, s, x)
  BY <1>3 DEF SameBut, Same, MayBegin
<1>5. SameBut(b, ready, x) /\ MayBegin(b, ready, x)
  BY <1>3, BeginSame
<1> HIDE DEF b
<1>6. SameBut(b, s, x) /\ MayBegin(b, s, x)
  BY <1>3, <1>4, <1>5, SameTwice DEF MayBegin
<1> HIDE DEF t
<1>7. SameBut(t, s, x) /\ MayBegin(t, s, x)
  BY <1>1, <1>4, <1>6
<1> QED
  BY <1>7 DEF t

\* A host that is resumed when it transmits nothing begins if it has something.
LEMMA HostResumes ==
    ASSUME NEW s, PortsOK(s), NEW h \in Hosts, ServesAt(s, h), s.due[h] = <<>>
    PROVE  LET t == ReceiveResume(s, h)
           IN  ServesAt(t, h) /\ t.send[h] = "READY"
<1> DEFINE d == "READY"
           ready == [s EXCEPT !.send[h] = d]
           q == s.queue[h]
           z == s.size[h]
           g == s.sending[h]
           u == s.due[h]
           t == ReceiveResume(s, h)
           b == BeginService(ready, h)
<1>1. h \in Ports
  BY LinkPorts
<1>2. t = IF z > 0 THEN b ELSE ready
  BY DEF ReceiveResume
<1>3. d \in Sends /\ d # "PAUSED" /\ d = "READY"
  BY DEF Sends
<1>4. q \in Seq(Packet)
  BY <1>1, PortTypes
<1>5. g = NoPacket /\ z = Mtu * Len(q)
  <2>1. /\ z = Mtu * Len(q) + (IF g = NoPacket THEN 0 ELSE Mtu)
        /\ Len(u) = IF g = NoPacket THEN 0 ELSE 1
    BY DEF ServesAt, Serves
  <2>2. Len(u) = 0
    OBVIOUS
  <2>3. g = NoPacket
    BY <2>1, <2>2
  <2> DEFINE m == Mtu * Len(q)
  <2>4. m \in Nat
    BY <1>4, CountOfQueue
  <2>5. z = m + 0
    BY <2>1, <2>3
  <2> HIDE DEF m, z
  <2>6. z = m
    BY <2>4, <2>5
  <2> QED
    BY <2>3, <2>6 DEF m
<1> HIDE DEF d
<1>6. /\ PortsOK(ready) /\ ready.queue = s.queue /\ ready.sending = s.sending
      /\ ready.size = s.size /\ ready.due = s.due /\ ready.send[h] = d
  BY <1>1, <1>3, SendChanges
<1>7. (Mtu * Len(q) = 0 <=> q = <<>>) /\ Mtu * Len(q) \in Nat
  BY <1>4, CountOfQueue
<1> HIDE DEF ready, t, b
<1>8. CASE z > 0
  <2>1. q # <<>>
    BY <1>5, <1>7, <1>8
  <2>2. ServesAt(b, h) /\ b.send[h] = "READY"
    BY <1>3, <1>5, <1>6, <2>1, HostBegins DEF b
  <2> QED
    BY <1>2, <1>8, <2>2 DEF t
<1>9. CASE ~(z > 0)
  <2>1. q = <<>>
    BY <1>5, <1>7, <1>9
  <2>2. Serves(q, z, d, g, u)
    BY <1>3, <1>5, <2>1 DEF Serves, ServesAt
  <2>3. ServesAt(ready, h)
    BY <1>6, <2>2 DEF ServesAt
  <2> QED
    BY <1>2, <1>3, <1>6, <1>9, <2>3 DEF t
<1> QED
  BY <1>8, <1>9

\* The end of completeService, at any port.
LEMMA HeardSame ==
    ASSUME NEW s, PortsOK(s), NEW x \in Ports, s.sending[x] = NoPacket
    PROVE  LET t == Heard(s, x)
           IN  /\ PortsOK(t) /\ SameBut(t, s, x)
               /\ t.queue = s.queue /\ t.size = s.size /\ t.sending = s.sending
               /\ t.due = s.due
               /\ t.send[x] = IF s.send[x] = "READY" THEN "READY" ELSE "PAUSED"
<1> DEFINE d == "PAUSED"
           t == Heard(s, x)
<1>1. s.send[x] \in Sends
  BY PortTypes
<1>2. CASE s.send[x] = "PAUSE_RECEIVED"
  <2>1. t = [s EXCEPT !.send[x] = d] /\ d # "READY" /\ d \in Sends /\ d = "PAUSED"
    BY <1>2 DEF Sends, Heard
  <2>2. x \in Outputs => s.due[x] = <<>>
    <3> SUFFICES ASSUME x \in Outputs
                 PROVE  s.due[x] = <<>>
      OBVIOUS
    <3>1. /\ s.due[x] \in Seq(0..TxTime)
          /\ PortOK(x, s.queue[x], s.size[x], s.send[x], s.sending[x], s.due[x])
      BY PortTypes
    <3>2. Len(s.due[x]) = 0
      BY <3>1 DEF PortOK
    <3> QED
      BY <3>1, <3>2
  <2> HIDE DEF d, t
  <2>3. /\ PortsOK(t) /\ t.send[x] = d
        /\ t.queue = s.queue /\ t.sending = s.sending /\ t.size = s.size /\ t.due = s.due
        /\ \A y \in Ports \ {x} : t.send[y] = s.send[y]
    BY <2>1, <2>2, SendChanges
  <2>4. SameBut(t, s, x)
    BY <2>3 DEF SameBut, Same
  <2> QED
    BY <1>2, <2>1, <2>3, <2>4 DEF t
<1>3. CASE s.send[x] # "PAUSE_RECEIVED"
  <2>1. t = s
    BY <1>3 DEF Heard
  <2>2. SameBut(s, s, x)
    BY DEF SameBut, Same
  <2> QED
    BY <1>1, <1>3, <2>1, <2>2 DEF Sends
<1> QED
  BY <1>2, <1>3

LEMMA ServeOnSame ==
    ASSUME NEW s, PortsOK(s), NEW x \in Ports, s.sending[x] = NoPacket
    PROVE  LET t == ServeOn(s, x)
           IN  SameBut(t, s, x) /\ MayBegin(t, s, x)
<1> DEFINE heard == Heard(s, x)
           more == IF x \in Hosts THEN s.size[x] > 0 ELSE s.queue[x] # <<>>
           t == ServeOn(s, x)
           b == BeginService(heard, x)
<1>1. t = IF more /\ heard.send[x] = "READY" THEN b ELSE heard
  BY DEF ServeOn, Heard
<1> HIDE DEF more
<1>2. PortsOK(heard) /\ SameBut(heard, s, x) /\ heard.due = s.due
  BY HeardSame
<1> HIDE DEF heard, t
<1>3. SameBut(b, heard, x) /\ MayBegin(b, heard, x)
  BY <1>2, BeginSame
<1> HIDE DEF b
<1>4. SameBut(b, s, x) /\ MayBegin(b, s, x) /\ MayBegin(heard, s, x)
  BY <1>2, <1>3, SameTwice DEF MayBegin
<1> QED
  BY <1>1, <1>2, <1>4 DEF t

\* A host that has transmitted a packet takes up the next one, unless it is to pause.
LEMMA HostServesOn ==
    ASSUME NEW s, PortsOK(s), NEW h \in Hosts, s.size[h] = Mtu * Len(s.queue[h]),
           s.sending[h] = NoPacket, s.due[h] = <<>>
    PROVE  LET t == ServeOn(s, h)
           IN  ServesAt(t, h) /\ (t.send[h] = "READY" \/ t.due[h] = <<>>)
<1> DEFINE heard == Heard(s, h)
           q == s.queue[h]
           z == s.size[h]
           g == s.sending[h]
           u == s.due[h]
           d == heard.send[h]
           t == ServeOn(s, h)
           b == BeginService(heard, h)
<1>1. h \in Ports
  BY LinkPorts
<1>2. t = IF z > 0 /\ d = "READY" THEN b ELSE heard
  BY DEF ServeOn, Heard
<1>3. q \in Seq(Packet)
  BY <1>1, PortTypes
<1>4. /\ PortsOK(heard) /\ heard.queue[h] = q /\ heard.size[h] = z /\ heard.sending[h] = g
      /\ heard.due[h] = u /\ d \in {"READY", "PAUSED"}
  BY <1>1, HeardSame
<1>5. (z = 0 <=> q = <<>>) /\ z \in Nat
  BY <1>3, CountOfQueue
<1> HIDE DEF heard, t, b
<1>6. CASE z > 0 /\ d = "READY"
  <2>1. q # <<>>
    BY <1>5, <1>6
  <2>2. ServesAt(b, h) /\ b.send[h] = "READY"
    BY <1>4, <1>6, <2>1, HostBegins DEF b
  <2> QED
    BY <1>2, <1>6, <2>2 DEF t
<1>7. CASE ~(z > 0 /\ d = "READY")
  <2>1. d = "READY" => q = <<>>
    BY <1>5, <1>7
  <2>2. z = Mtu * Len(q) + 0
    BY <1>5
  <2>3. Len(u) = 0
    OBVIOUS
  <2>4. Serves(q, z, d, g, u)
    BY <1>4, <2>1, <2>2, <2>3 DEF Serves
  <2>5. ServesAt(heard, h)
    BY <1>4, <2>4 DEF ServesAt
  <2> QED
    BY <1>2, <1>4, <1>7, <2>5 DEF t
<1> QED
  BY <1>6, <1>7

\* Other values at a port.
LEMMA PutSame ==
    ASSUME NEW s, PortsOK(s), NEW x \in Ports, NEW q, NEW z, NEW g, NEW u,
           NEW t, t = Put(s, x, q, z, g, u)
    PROVE  /\ SameBut(t, s, x)
           /\ t.queue[x] = q /\ t.size[x] = z /\ t.send[x] = s.send[x]
           /\ t.sending[x] = g /\ t.due[x] = u
<1>1. /\ s.queue = [y \in Ports |-> s.queue[y]] /\ s.size = [y \in Ports |-> s.size[y]]
      /\ s.sending = [y \in Ports |-> s.sending[y]] /\ s.due = [y \in Ports |-> s.due[y]]
  BY DEF PortsOK
<1>2. /\ t.queue = [s.queue EXCEPT ![x] = q] /\ t.size = [s.size EXCEPT ![x] = z]
      /\ t.send = s.send
      /\ t.sending = [s.sending EXCEPT ![x] = g] /\ t.due = [s.due EXCEPT ![x] = u]
  BY DEF Put
<1>3. /\ t.queue[x] = q /\ t.size[x] = z /\ t.sending[x] = g /\ t.due[x] = u
      /\ \A y \in Ports \ {x} : /\ t.queue[y] = s.queue[y] /\ t.size[y] = s.size[y]
                                /\ t.sending[y] = s.sending[y] /\ t.due[y] = s.due[y]
  BY <1>1, <1>2
<1> QED
  BY <1>2, <1>3 DEF SameBut, Same

\* Every host serves one packet at a time. A host that is to pause and is transmitting has
\* so much in its switch that no departure before the end of its transmission resumes it.
HostsServe == \A h \in Hosts : ServesAt(State, h)
Far(h) ==
    send[h] # "READY" /\ due[h] # <<>> =>
        bytes[h] >= Low + Mtu * Cardinality(Coming(h, due, Head(due[h])))
HostsFar == \A h \in Hosts : Far(h)

LEMMA InitServe ==
    ASSUME Init
    PROVE  HostsServe /\ HostsFar
<1> SUFFICES ASSUME NEW h \in Hosts
             PROVE  ServesAt(State, h) /\ Far(h)
  BY DEF HostsServe, HostsFar
<1>1. /\ queue[h] = <<>> /\ size[h] = 0 /\ send[h] = "READY" /\ sending[h] = NoPacket
      /\ due[h] = <<>>
  BY LinkPorts DEF Init
<1>2. /\ State.queue[h] = queue[h] /\ State.size[h] = size[h] /\ State.send[h] = send[h]
      /\ State.sending[h] = sending[h] /\ State.due[h] = due[h]
  BY DEF State
<1> DEFINE e == <<>>
           g == NoPacket
           d == "READY"
<1>3. Serves(e, 0, d, g, e)
  <2>1. Len(e) = 0 /\ Mtu * 0 = 0
    BY PfcAssumption
  <2> QED
    BY <2>1 DEF Serves
<1>4. d = "READY" /\ e = <<>>
  OBVIOUS
<1> HIDE DEF e, g, d
<1>5. ServesAt(State, h)
  BY <1>1, <1>2, <1>3, <1>4 DEF ServesAt, g
<1> QED
  BY <1>1, <1>5 DEF Far

\* After a step.
LEMMA HostsAfter ==
    ASSUME NEW t, PortsOK(t), Become(t), \A h \in Hosts : ServesAt(t, h)
    PROVE  HostsServe'
<1>1. State' = t
  BY Becoming
<1>2. \A h \in Hosts : ServesAt(State, h)' <=> ServesAt(t, h)
  BY <1>1 DEF ServesAt
<1> QED
  BY <1>2 DEF HostsServe

DueTyped ==
    /\ \A x \in Ports : /\ due[x] \in Seq(0..TxTime)
                        /\ Eta(due[x]) \in 0..TxTime /\ Eta(due[x]) \in Int
    /\ \A h \in Hosts : bytes[h] \in Nat /\ h \in Ports /\ h \in Links
    /\ Mtu \in Nat /\ Low \in Nat /\ TxTime \in Nat

LEMMA DueTypes == IInv => DueTyped
<1> SUFFICES ASSUME IInv
             PROVE  DueTyped
  OBVIOUS
<1>1. \A x \in Ports : due[x] \in Seq(0..TxTime)
  BY StateFields DEF Fields
<1>2. \A x \in Ports : Eta(due[x]) \in 0..TxTime
  BY <1>1, EtaType
<1>3. \A h \in Hosts : bytes[h] \in Nat /\ h \in Ports /\ h \in Links
  BY LinkPorts DEF IInv, BytesCounted
<1> QED
  BY <1>1, <1>2, <1>3, PfcAssumption DEF DueTyped

LEMMA DueTypesNext == IInv' => DueTyped'
<1>1. IInv => DueTyped
  BY DueTypes
<1> QED
  BY <1>1, PTL

\* A host that does nothing, whose input counts nothing less, stays far, if no output is
\* nearer to a completion.
LEMMA FarStays ==
    ASSUME IInv, IInv', NEW h \in Hosts, Far(h),
           due'[h] = due[h], send'[h] = send[h], bytes'[h] >= bytes[h],
           \A o \in Outputs : Eta(due'[o]) >= Eta(due[o])
    PROVE  Far(h)'
<1> SUFFICES ASSUME send[h] # "READY", due[h] # <<>>
             PROVE  bytes'[h] >= Low + Mtu * Cardinality(Coming(h, due', Head(due[h])))
  BY DEF Far
<1> DEFINE c == due
           d == due'
           r == Head(due[h])
           m == Cardinality(Coming(h, c, r))
           n == Cardinality(Coming(h, d, r))
           b == bytes[h]
           b2 == bytes'[h]
<1>1. /\ \A o \in Outputs : Eta(c[o]) \in Int /\ Eta(d[o]) \in Int /\ Eta(d[o]) >= Eta(c[o])
      /\ b \in Int /\ b2 \in Int /\ Mtu \in Nat /\ Low \in Nat /\ due[h] \in Seq(0..TxTime)
      /\ TxTime \in Nat /\ b2 >= b
  BY DueTypes, DueTypesNext DEF DueTyped, Ports
<1>2. r \in Int
  <2> DEFINE S == 0..TxTime
  <2>1. due[h] \in Seq(S)
    BY <1>1
  <2> HIDE DEF S
  <2>2. r \in S
    BY <2>1
  <2> QED
    BY <1>1, <2>2 DEF S
<1>3. b >= Low + Mtu * m
  BY DEF Far
<1> HIDE DEF c, d, r, b, b2
<1>4. n <= m /\ n \in Nat /\ m \in Nat
  <2>1. \A o \in Outputs : /\ Eta(c[o]) \in Int /\ Eta(d[o]) \in Int
                           /\ Eta(d[o]) - r >= Eta(c[o]) - r
    BY <1>1, <1>2
  <2>2. n <= m
    BY <1>2, <2>1, ComingLess
  <2> QED
    BY <2>2, ComingMost
<1> HIDE DEF m, n
<1>5. Mtu * n <= Mtu * m
  BY <1>1, <1>4
<1> DEFINE x == Mtu * n
           y == Mtu * m
<1>6. x \in Int /\ y \in Int
  BY <1>1, <1>4
<1>7. b >= Low + y /\ x <= y
  BY <1>3, <1>5
<1> HIDE DEF x, y
<1>8. b2 >= Low + x
  BY <1>1, <1>6, <1>7
<1> QED
  BY <1>8 DEF x, n, b2, d, r

\* No output is nearer to a completion than it was.
NoneNearer == \A o \in Outputs : Eta(due'[o]) >= Eta(due[o])

\* A host whose values did not change.
LEMMA HostKeeps ==
    ASSUME IInv, IInv', NEW t, Become(t), NEW h \in Hosts, Same(t, State, h),
           ServesAt(State, h), Far(h), bytes'[h] >= bytes[h], NoneNearer
    PROVE  ServesAt(t, h) /\ Far(h)'
<1>1. ServesAt(t, h)
  BY SameServes
<1>2. due'[h] = due[h] /\ send'[h] = send[h]
  BY DEF Become, Same, State
<1>3. \A o \in Outputs : Eta(due'[o]) >= Eta(due[o])
  BY DEF NoneNearer
<1>4. Far(h)'
  BY <1>2, <1>3, FarStays
<1> QED
  BY <1>1, <1>4

\* A step of one host.
LEMMA StepOfHost ==
    ASSUME IInv, IInv', HostsServe, HostsFar, NEW h \in Hosts, NEW t, PortsOK(t), Become(t),
           SameBut(t, State, h), ServesAt(t, h), Far(h)', \A g \in Hosts : bytes'[g] >= bytes[g]
    PROVE  HostsServe' /\ HostsFar'
<1>1. NoneNearer
  <2> SUFFICES ASSUME NEW o \in Outputs
               PROVE  Eta(due'[o]) >= Eta(due[o])
    BY DEF NoneNearer
  <2>1. o \in Ports \ {h}
    BY LinkPorts DEF Ports
  <2>2. due'[o] = due[o] /\ Eta(due[o]) \in Int
    BY <2>1, DueTypes DEF DueTyped, Become, SameBut, Same, State
  <2> QED
    BY <2>2
<1>2. ASSUME NEW g \in Hosts
      PROVE  ServesAt(t, g) /\ Far(g)'
  <2>1. CASE g = h
    BY <2>1
  <2>2. CASE g # h
    <3>1. Same(t, State, g)
      BY <2>2, LinkPorts DEF SameBut
    <3>2. ServesAt(State, g) /\ Far(g)
      BY DEF HostsServe, HostsFar
    <3> QED
      BY <1>1, <3>1, <3>2, HostKeeps
  <2> QED
    BY <2>1, <2>2
<1>3. HostsServe'
  BY <1>2, HostsAfter
<1> QED
  BY <1>2, <1>3 DEF HostsFar

LEMMA HostSendsServe ==
    ASSUME IInv, IInv', HostsServe, HostsFar, NEW h \in Hosts, HostSends(h)
    PROVE  HostsServe' /\ HostsFar'
<1> DEFINE burst == Burst(h, sent[h] + 1)
           s == queue[h]
           q == s \o burst
           n == Len(burst)
           z == size[h] + Mtu * n
           g == sending[h]
           u == due[h]
           held == Held(State, h, q, z)
           t == IF size[h] = 0 /\ send[h] = "READY" THEN BeginService(held, h) ELSE held
<1>1. /\ h \in Ports /\ PortsOK(State) /\ bytes' = bytes /\ sent[h] + 1 \in 1..Len(Load[h])
  <2>1. sent[h] \in Nat /\ sent[h] < Len(Load[h]) /\ Len(Load[h]) \in Nat
    BY PfcAssumption DEF IInv, HostSends
  <2> QED
    BY <2>1, LinkPorts DEF IInv, HostSends, inputVars
<1>2. burst \in Seq(Packet) /\ n \in Nat /\ n # 0
  <2>1. burst \in Seq(Packet) /\ Len(burst) = Len(Load[h][sent[h] + 1])
    BY <1>1, BurstType, Zenon
  <2>2. Load[h][sent[h] + 1] # <<>> /\ Load[h][sent[h] + 1] \in Seq(Exits)
    <3>1. Load[h] \in Seq(Seq(Exits))
      BY PfcAssumption
    <3>2. sent[h] + 1 \in DOMAIN Load[h]
      BY <1>1, <3>1
    <3> QED
      BY <3>1, <3>2, BurstsHavePackets
  <2>3. Len(Load[h][sent[h] + 1]) # 0 /\ Len(Load[h][sent[h] + 1]) \in Nat
    BY <2>2
  <2> QED
    BY <2>1, <2>3
<1>3. Become(t)
  BY DEF HostSends, Held, State
<1> HIDE DEF burst
<1>4. /\ State.queue = queue /\ State.size = size /\ State.send = send
      /\ State.sending = sending /\ State.due = due
  BY DEF State
<1>5. /\ s \in Seq(Packet) /\ Serves(s, size[h], send[h], g, u) /\ size[h] \in Nat
      /\ send[h] \in Sends
  <2>1. ServesAt(State, h)
    BY DEF HostsServe
  <2> QED
    BY <1>1, <1>4, <2>1, PortTypes DEF ServesAt
<1>6. q \in Seq(Packet) /\ Len(q) = Len(s) + n /\ q # <<>>
  BY <1>2, <1>5
<1>7. z = Mtu * Len(q) + (IF g = NoPacket THEN 0 ELSE Mtu)
  <2> DEFINE a == Len(s)
             b == Len(q)
  <2>1. a \in Nat /\ b \in Nat /\ Mtu \in Nat /\ b = a + n
    BY <1>2, <1>5, <1>6, PfcAssumption
  <2>2. \A i, j, m \in Int : m * (i + j) = m * i + m * j
    OBVIOUS
  <2>3. size[h] = Mtu * a + (IF g = NoPacket THEN 0 ELSE Mtu)
    BY <1>5 DEF Serves
  <2> HIDE DEF a, b, n
  <2>4. Mtu * b = Mtu * a + Mtu * n /\ Mtu * a \in Int /\ Mtu * n \in Int
    BY <1>2, <2>1, <2>2
  <2>5. z = Mtu * b + (IF g = NoPacket THEN 0 ELSE Mtu)
    BY <2>1, <2>3, <2>4
  <2> QED
    BY <2>5 DEF b
<1>8. PortsOK(held)
  BY <1>1, <1>2, <1>4, <1>5, <1>6, HeldOK
<1>9. /\ SameBut(held, State, h) /\ held.queue[h] = q /\ held.size[h] = z
      /\ held.send[h] = send[h] /\ held.sending[h] = g /\ held.due[h] = u
  <2>1. held = Put(State, h, q, z, g, u)
    BY <1>1, <1>4, HeldFields
  <2> HIDE DEF held, q, z, g, u
  <2> QED
    BY <1>1, <1>4, <2>1, PutSame
<1> HIDE DEF held
<1>10. size[h] = 0 => s = <<>> /\ g = NoPacket /\ u = <<>>
  <2> DEFINE m == Mtu * Len(s)
  <2>1. m \in Nat /\ (m = 0 <=> s = <<>>) /\ Mtu \in Nat /\ Mtu > 0
    BY <1>5, CountOfQueue, PfcAssumption
  <2>2. size[h] = m + (IF g = NoPacket THEN 0 ELSE Mtu)
    BY <1>5 DEF Serves
  <2> HIDE DEF m
  <2>3. size[h] = 0 => s = <<>> /\ g = NoPacket
    BY <2>1, <2>2
  <2>4. g = NoPacket => Len(u) = 0
    BY <1>5 DEF Serves
  <2>5. u \in Seq(0..TxTime)
    BY <1>1, <1>4, PortTypes
  <2> QED
    BY <2>3, <2>4, <2>5
<1>11. CASE size[h] = 0 /\ send[h] = "READY"
  <2> DEFINE b == BeginService(held, h)
  <2>1. t = b
    BY <1>11
  <2>2. held.size[h] = Mtu * Len(held.queue[h]) /\ held.queue[h] # <<>>
    <3> DEFINE m == Mtu * Len(q)
    <3>1. m \in Nat
      BY <1>6, CountOfQueue
    <3>2. z = m + 0
      BY <1>7, <1>10, <1>11
    <3> HIDE DEF m, z
    <3>3. z = m
      BY <3>1, <3>2
    <3> QED
      BY <1>6, <1>9, <3>3 DEF m
  <2>3. held.due[h] = <<>> /\ held.send[h] = "READY"
    BY <1>9, <1>10, <1>11
  <2>4. ServesAt(b, h) /\ SameBut(b, held, h) /\ b.send[h] = "READY"
    BY <1>8, <2>2, <2>3, HostBegins
  <2>5. PortsOK(b)
    BY <1>1, <1>8, BeginOK, LinkPorts
  <2> HIDE DEF b, t
  <2>6. Far(h)'
    BY <1>3, <2>1, <2>4 DEF Far, Become
  <2>7. \A x \in Hosts : bytes'[x] >= bytes[x]
    BY <1>1, DueTypes DEF DueTyped
  <2>8. SameBut(t, State, h)
    BY <1>9, <2>1, <2>4, SameTwice
  <2> QED
    BY <1>3, <2>1, <2>4, <2>5, <2>6, <2>7, <2>8, StepOfHost
<1>12. CASE ~(size[h] = 0 /\ send[h] = "READY")
  <2>1. t = held
    BY <1>12
  <2> HIDE DEF t
  <2>2. send[h] = "READY" => g # NoPacket
    <3> SUFFICES ASSUME send[h] = "READY", g = NoPacket
                 PROVE  FALSE
      OBVIOUS
    <3>1. s = <<>>
      BY <1>5 DEF Serves
    <3>2. Mtu * Len(s) = 0
      BY <1>5, <3>1, CountOfQueue
    <3>3. size[h] = 0
      BY <1>5, <3>2 DEF Serves
    <3> QED
      BY <1>12, <3>3
  <2>3. Serves(q, z, send[h], g, u)
    BY <1>5, <1>7, <2>2 DEF Serves
  <2>4. ServesAt(held, h)
    BY <1>9, <2>3 DEF ServesAt
  <2>5. due'[h] = due[h] /\ send'[h] = send[h]
    BY <1>3, <1>9, <2>1 DEF Become
  <2>6. \A x \in Hosts : bytes'[x] >= bytes[x]
    BY <1>1, DueTypes DEF DueTyped
  <2>7. \A o \in Outputs : Eta(due'[o]) >= Eta(due[o])
    <3> SUFFICES ASSUME NEW o \in Outputs
                 PROVE  Eta(due'[o]) >= Eta(due[o])
      OBVIOUS
    <3>1. o \in Ports \ {h}
      BY LinkPorts DEF Ports
    <3>2. due'[o] = due[o] /\ Eta(due[o]) \in Int
      BY <1>3, <1>4, <1>9, <2>1, <3>1, DueTypes DEF DueTyped, Become, SameBut, Same
    <3> QED
      BY <3>2
  <2>8. Far(h)'
    <3>1. Far(h)
      BY DEF HostsFar
    <3> QED
      BY <2>5, <2>6, <2>7, <3>1, FarStays
  <2> QED
    BY <1>3, <1>8, <1>9, <2>1, <2>4, <2>6, <2>8, StepOfHost
<1> QED
  BY <1>11, <1>12

\* Beginning a transmission brings no completion nearer.
LEMMA BeginsNoNearer ==
    ASSUME IInv, NEW t, Become(t), NEW o \in Outputs, MayBegin(t, State, o)
    PROVE  Eta(due'[o]) = Eta(due[o]) /\ Eta(due[o]) \in Int
<1>1. due[o] \in Seq(0..TxTime) /\ Eta(due[o]) \in Int
  BY DueTypes DEF DueTyped, Ports
<1>2. due'[o] = due[o] \/ due'[o] = Append(due[o], TxTime)
  BY DEF Become, MayBegin, State
<1> QED
  BY <1>1, <1>2, EtaType

\* A step of the outputs.
LEMMA StepNoneNearer ==
    ASSUME IInv, IInv', HostsServe, HostsFar, NEW t, PortsOK(t), Become(t),
           \A h \in Hosts : Same(t, State, h), NoneNearer,
           \A h \in Hosts : bytes'[h] >= bytes[h]
    PROVE  HostsServe' /\ HostsFar'
<1>1. ASSUME NEW h \in Hosts
      PROVE  ServesAt(t, h) /\ Far(h)'
  <2>1. ServesAt(State, h) /\ Far(h)
    BY DEF HostsServe, HostsFar
  <2> QED
    BY <2>1, HostKeeps
<1>2. HostsServe'
  BY <1>1, HostsAfter
<1> QED
  BY <1>1, <1>2 DEF HostsFar

LEMMA StepOfOutputs ==
    ASSUME IInv, IInv', HostsServe, HostsFar, NEW t, PortsOK(t), Become(t),
           \A h \in Hosts : Same(t, State, h), \A o \in Outputs : MayBegin(t, State, o),
           \A h \in Hosts : bytes'[h] >= bytes[h]
    PROVE  HostsServe' /\ HostsFar'
<1>1. NoneNearer
  <2> SUFFICES ASSUME NEW o \in Outputs
               PROVE  Eta(due'[o]) >= Eta(due[o])
    BY DEF NoneNearer
  <2>1. Eta(due'[o]) = Eta(due[o]) /\ Eta(due[o]) \in Int
    BY BeginsNoNearer
  <2> QED
    BY <2>1
<1> QED
  BY <1>1, StepNoneNearer

LEMMA HostCompletesServe ==
    ASSUME IInv, IInv', HostsServe, HostsFar, NEW h \in Hosts, HostCompletes(h)
    PROVE  HostsServe' /\ HostsFar'
<1> DEFINE u == Tail(due[h])
           s == queue[h]
           woken == Woken(State, h, u)
           z == woken.size[h] - Mtu
           spent == Spent(woken, h, z, NoPacket)
           t == ServeOn(spent, h)
<1>1. /\ h \in Ports /\ h \notin Outputs /\ PortsOK(State)
      /\ due[h] # <<>> /\ bytes' = bytes
  BY LinkPorts DEF IInv, HostCompletes, inputVars
<1>2. /\ State.queue = queue /\ State.size = size /\ State.send = send
      /\ State.sending = sending /\ State.due = due
  BY DEF State
<1>3. /\ PortOK(h, s, size[h], send[h], sending[h], due[h])
      /\ s \in Seq(Packet) /\ size[h] \in Nat /\ due[h] \in Seq(0..TxTime)
      /\ Serves(s, size[h], send[h], sending[h], due[h])
  <2>1. ServesAt(State, h)
    BY DEF HostsServe
  <2>2. Serves(s, size[h], send[h], sending[h], due[h])
    BY <1>2, <2>1 DEF ServesAt
  <2>3. /\ PortOK(h, s, size[h], send[h], sending[h], due[h])
        /\ s \in Seq(Packet) /\ size[h] \in Nat /\ due[h] \in Seq(0..TxTime)
    BY <1>1, <1>2, PortTypes
  <2> QED
    BY <2>2, <2>3
<1>4. u = <<>> /\ sending[h] # NoPacket /\ send[h] # "PAUSED"
  <2>1. Len(due[h]) = IF sending[h] = NoPacket THEN 0 ELSE 1
    BY <1>3 DEF Serves
  <2>2. Len(due[h]) # 0
    BY <1>1, <1>3
  <2>3. sending[h] # NoPacket /\ Len(due[h]) = 1
    BY <2>1, <2>2
  <2>4. send[h] # "PAUSED"
    BY <1>3, <2>3 DEF Serves
  <2>5. Len(due[h]) <= 1
    BY <2>3
  <2>6. u = <<>>
    BY <1>1, <1>3, <2>5, OneAtMost, Zenon
  <2> QED
    BY <2>3, <2>4, <2>6
<1>5. Become(t)
  BY <1>4 DEF HostCompletes, Woken, Spent, State
<1> HIDE DEF u, t
<1>6. woken = Put(State, h, s, size[h], sending[h], u)
  <2>1. woken = Put(State, h, State.queue[h], State.size[h], State.sending[h], u)
    BY <1>1, WokenFields
  <2> QED
    BY <1>2, <2>1
<1> HIDE DEF woken
<1>7. /\ PortsOK(woken) /\ woken.queue[h] = s /\ woken.size[h] = size[h]
      /\ woken.sending[h] = sending[h] /\ woken.due[h] = u /\ woken.send = send
      /\ SameBut(woken, State, h)
  <2>1. u \in Seq(0..TxTime) /\ Sorted(u)
    BY <1>1, <1>2, <1>3, PortTypes, SortedTail, PfcAssumption DEF u
  <2>2. PortOK(h, s, size[h], State.send[h], sending[h], u)
    BY <1>1, <1>2, <1>3, <2>1 DEF PortOK
  <2> QED
    BY <1>1, <1>2, <1>6, <2>2, SetOK, PutSame
<1>8. z = Mtu * Len(s)
  <2> DEFINE m == Mtu * Len(s)
  <2>1. size[h] = m + Mtu /\ m \in Nat /\ Mtu \in Nat
    BY <1>3, <1>4, CountOfQueue, PfcAssumption DEF Serves
  <2>2. z = size[h] - Mtu
    BY <1>7
  <2> HIDE DEF m, z
  <2>3. z = m
    BY <2>1, <2>2
  <2> QED
    BY <2>3 DEF m
<1> HIDE DEF z
<1>9. spent = Put(woken, h, s, z, NoPacket, u)
  <2>1. spent = Put(woken, h, woken.queue[h], z, NoPacket, woken.due[h])
    BY <1>1, <1>7, SpentFields
  <2> QED
    BY <1>7, <2>1
<1> HIDE DEF spent
<1>10. /\ PortsOK(spent) /\ SameBut(spent, State, h)
       /\ spent.queue[h] = s /\ spent.size[h] = z /\ spent.sending[h] = NoPacket
       /\ spent.due[h] = u
  <2>1. PortOK(h, s, z, woken.send[h], NoPacket, u)
    <3> DEFINE m == Mtu * Len(s)
    <3>1. m \in Nat /\ z = m
      BY <1>3, <1>8, CountOfQueue
    <3> HIDE DEF m
    <3>2. z \in Nat /\ z >= m + 0
      BY <3>1
    <3>3. u \in Seq(0..TxTime) /\ Sorted(u)
      BY <1>1, <1>7, PortTypes
    <3>4. send[h] \in Sends
      BY <1>3 DEF PortOK
    <3> QED
      BY <1>1, <1>3, <1>7, <3>2, <3>3, <3>4 DEF PortOK, m
  <2>2. /\ PortsOK(spent)
        /\ spent.queue[h] = s /\ spent.size[h] = z /\ spent.sending[h] = NoPacket
        /\ spent.due[h] = u
    BY <1>1, <1>7, <1>9, <2>1, SetOK
  <2>3. SameBut(spent, woken, h)
    BY <1>1, <1>7, <1>9, PutSame
  <2> QED
    BY <1>7, <2>2, <2>3, SameTwice
<1>11. /\ ServesAt(t, h) /\ (t.send[h] = "READY" \/ t.due[h] = <<>>)
       /\ PortsOK(t) /\ SameBut(t, spent, h)
  BY <1>1, <1>4, <1>8, <1>10, HostServesOn, ServeOnOK, ServeOnSame DEF t
<1>12. SameBut(t, State, h)
  BY <1>10, <1>11, SameTwice
<1>13. Far(h)'
  BY <1>5, <1>11 DEF Far, Become
<1>14. \A g \in Hosts : bytes'[g] >= bytes[g]
  BY <1>1, DueTypes DEF DueTyped
<1> QED
  BY <1>5, <1>11, <1>12, <1>13, <1>14, StepOfHost

\* An input queue that has its sender pause has so much that no departure before the end of
\* the transmission lifts the pause.
LEMMA EnoughToPause ==
    ASSUME Apart, NEW h \in Hosts, NEW d, NEW r, NEW b \in Nat, b > High
    PROVE  b >= Low + Mtu * Cardinality(Coming(h, d, r))
<1> DEFINE c == Cardinality(Coming(h, d, r))
           f == Cardinality(Fed(h))
<1>1. c \in Nat /\ f \in Nat /\ c <= 2 * f
  BY ComingMost, FedFinite
<1>2. High - Low + 1 >= 2 * Mtu * f
  BY DEF Apart
<1>3. Mtu \in Nat /\ High \in Nat /\ Low \in Nat
  BY PfcAssumption
<1> HIDE DEF c, f
<1>4. Mtu * c <= 2 * Mtu * f
  <2>1. Mtu * c <= Mtu * (2 * f)
    BY <1>1, <1>3
  <2>2. \A i, j \in Int : i * (2 * j) = 2 * i * j
    OBVIOUS
  <2> QED
    BY <1>1, <1>3, <2>1, <2>2
<1> DEFINE x == Mtu * c
           y == 2 * Mtu * f
<1>5. x \in Int /\ y \in Int /\ x <= y /\ High - Low + 1 >= y
  BY <1>1, <1>2, <1>3, <1>4
<1> HIDE DEF x, y
<1>6. b >= Low + x
  BY <1>3, <1>5
<1> QED
  BY <1>6 DEF x, c

LEMMA ReachesInputServe ==
    ASSUME IInv, IInv', Apart, HostsServe, HostsFar, NEW x \in Links, ReachesInput(x)
    PROVE  HostsServe' /\ HostsFar'
<1>1. /\ PortsOK(State) /\ x \in Ports /\ bytes \in [Links -> Nat] /\ Mtu \in Nat
      /\ bytes' = [bytes EXCEPT ![x] = @ + Mtu]
      /\ recv[x] = "PAUSED" <=> send[x] # "READY"
  BY PfcAssumption, LinkPorts DEF IInv, BytesCounted, PauseAgreed, ReachesInput
<1>2. \A h \in Hosts : bytes'[h] >= bytes[h] /\ bytes'[h] \in Nat
  <2> SUFFICES ASSUME NEW h \in Hosts
               PROVE  bytes'[h] >= bytes[h] /\ bytes'[h] \in Nat
    OBVIOUS
  <2>1. h \in Links /\ bytes[h] \in Nat
    BY <1>1, LinkPorts
  <2> QED
    BY <1>1, <2>1
<1>3. /\ State.queue = queue /\ State.size = size /\ State.send = send
      /\ State.sending = sending /\ State.due = due
  BY DEF State
<1>4. CASE bytes[x] + Mtu > High /\ recv[x] # "PAUSED"
  <2> DEFINE t == ReceivePause(State, x)
  <2>1. Become(t)
    BY <1>4 DEF ReachesInput
  <2>2. /\ PortsOK(t) /\ SameBut(t, State, x) /\ t.due[x] = due[x]
    BY <1>1, <1>3, ReceivePauseOK, PauseSame
  <2>3. CASE x \in Hosts
    <3>1. ServesAt(t, x)
      <4>1. ServesAt(State, x) /\ State.send[x] = "READY"
        BY <1>1, <1>3, <1>4, <2>3 DEF HostsServe
      <4> QED
        BY <1>1, <2>3, <4>1, HostPauses
    <3> HIDE DEF t
    <3>2. Far(x)'
      <4>1. bytes'[x] = bytes[x] + Mtu
        BY <1>1
      <4>2. bytes'[x] > High /\ bytes'[x] \in Nat
        BY <1>2, <1>4, <2>3, <4>1
      <4> DEFINE d == due'
                 r == Head(due'[x])
                 b == bytes'[x]
      <4>3. b \in Nat /\ b > High
        BY <4>2
      <4> HIDE DEF d, r, b
      <4>4. b >= Low + Mtu * Cardinality(Coming(x, d, r))
        BY <2>3, <4>3, EnoughToPause
      <4> QED
        BY <4>4 DEF Far, d, r, b
    <3> QED
      BY <1>2, <2>1, <2>2, <2>3, <3>1, <3>2, StepOfHost
  <2>4. CASE x \notin Hosts
    <3> HIDE DEF t
    <3>1. \A h \in Hosts : Same(t, State, h)
      BY <2>2, <2>4, LinkPorts DEF SameBut
    <3>2. \A o \in Outputs : MayBegin(t, State, o)
      <4> SUFFICES ASSUME NEW o \in Outputs
                   PROVE  t.due[o] = due[o]
        BY <1>3 DEF MayBegin
      <4>1. o \in Ports
        BY DEF Ports
      <4> QED
        BY <1>3, <2>2, <4>1 DEF SameBut, Same
    <3> QED
      BY <1>2, <2>1, <2>2, <3>1, <3>2, StepOfOutputs
  <2> QED
    BY <2>3, <2>4
<1>5. CASE ~(bytes[x] + Mtu > High /\ recv[x] # "PAUSED")
  <2> DEFINE t == State
  <2>1. Become(t)
    BY <1>3, <1>5 DEF ReachesInput, Become
  <2>2. /\ PortsOK(t) /\ \A h \in Hosts : Same(t, State, h)
        /\ \A o \in Outputs : MayBegin(t, State, o)
    BY <1>1 DEF Same, MayBegin
  <2> HIDE DEF t
  <2> QED
    BY <1>2, <2>1, <2>2, StepOfOutputs
<1> QED
  BY <1>4, <1>5

LEMMA ReachesOutputServe ==
    ASSUME IInv, IInv', HostsServe, HostsFar, NEW x \in Links, ReachesOutput(x)
    PROVE  HostsServe' /\ HostsFar'
<1> DEFINE p == Head(cross[x]).pkt
           o == Forward[x][p.exit]
           q == Append(queue[o], p)
           z == size[o] + Mtu
           held == Held(State, o, q, z)
           t == IF queue[o] = <<>> /\ send[o] = "READY" THEN BeginService(held, o) ELSE held
<1>1. /\ PortsOK(State) /\ cross[x] # <<>> /\ Become(t) /\ bytes' = bytes
      /\ PipeOK(cross[x], SwitchDelay[x]) /\ SwitchDelay[x] \in Nat
  BY PfcAssumption, ZenonT(60) DEF IInv, PipesOK, ReachesOutput, Held, State, inputVars
<1>2. p \in Packet
  BY <1>1, PipeTail
<1> HIDE DEF p
<1>3. o \in Outputs /\ o \in Ports
  <2>1. p.exit \in Exits
    BY <1>2 DEF Packet
  <2> QED
    BY <2>1, LinkPorts
<1> HIDE DEF o
<1>4. /\ State.queue = queue /\ State.size = size /\ State.send = send
      /\ State.sending = sending /\ State.due = due
  BY DEF State
<1>5. /\ PortOK(o, queue[o], size[o], send[o], sending[o], due[o])
      /\ queue[o] \in Seq(Packet) /\ size[o] \in Nat
  BY <1>1, <1>3, <1>4, PortTypes
<1>6. /\ q \in Seq(Packet) /\ Len(q) = Len(State.queue[o]) + 1 /\ q # <<>>
      /\ z = State.size[o] + Mtu * 1
  <2>1. Len(State.queue[o]) = Len(queue[o]) /\ State.size[o] = size[o]
    BY <1>4
  <2>2. q \in Seq(Packet) /\ Len(q) = Len(queue[o]) + 1 /\ q # <<>>
    BY <1>2, <1>5
  <2>3. Mtu * 1 = Mtu
    BY PfcAssumption
  <2> QED
    BY <2>1, <2>2, <2>3
<1> HIDE DEF q, z
<1>7. /\ PortsOK(held) /\ held.queue[o] = q /\ held.sending[o] = sending[o]
      /\ held.send = send
  BY <1>1, <1>3, <1>4, <1>6, HeldOK
<1>8. SameBut(held, State, o) /\ MayBegin(held, State, o)
  <2>1. held = Put(State, o, q, z, State.sending[o], State.due[o])
    BY <1>1, <1>3, HeldFields
  <2> HIDE DEF held
  <2> QED
    BY <1>1, <1>3, <2>1, PutSame DEF MayBegin
<1> HIDE DEF held
<1>9. PortsOK(t) /\ SameBut(t, State, o) /\ MayBegin(t, State, o)
  <2>1. CASE queue[o] = <<>> /\ send[o] = "READY"
    <3> DEFINE b == BeginService(held, o)
    <3>1. sending[o] = NoPacket
      BY <1>3, <1>5, <2>1 DEF PortOK
    <3>2. PortsOK(b)
      BY <1>3, <1>6, <1>7, <2>1, <3>1, BeginOK
    <3>3. SameBut(b, held, o) /\ MayBegin(b, held, o)
      BY <1>3, <1>7, BeginSame
    <3>4. held.due[o] = State.due[o] \/ held.due[o] = Append(State.due[o], TxTime)
      BY <1>8 DEF MayBegin
    <3>5. t = b
      BY <2>1
    <3> HIDE DEF b, t
    <3>6. held.due[o] = State.due[o]
      <4>1. held = Put(State, o, q, z, State.sending[o], State.due[o])
        BY <1>1, <1>3, HeldFields DEF held
      <4> QED
        BY <1>1, <1>3, <4>1, PutSame
    <3> QED
      BY <1>8, <3>2, <3>3, <3>5, <3>6, SameTwice DEF MayBegin
  <2>2. CASE ~(queue[o] = <<>> /\ send[o] = "READY")
    BY <1>7, <1>8, <2>2
  <2> QED
    BY <2>1, <2>2
<1> HIDE DEF t
<1>10. \A h \in Hosts : Same(t, State, h)
  <2>1. o \notin Hosts
    BY <1>3, LinkPorts
  <2> QED
    BY <1>9, <2>1, LinkPorts DEF SameBut
<1>11. \A y \in Outputs : MayBegin(t, State, y)
  <2> SUFFICES ASSUME NEW y \in Outputs, y # o
               PROVE  MayBegin(t, State, y)
    BY <1>9
  <2>1. y \in Ports \ {o}
    BY DEF Ports
  <2> QED
    BY <1>9, <2>1 DEF SameBut, Same, MayBegin
<1>12. \A h \in Hosts : bytes'[h] >= bytes[h]
  BY <1>1, DueTypes DEF DueTyped
<1> QED
  BY <1>1, <1>9, <1>10, <1>11, <1>12, StepOfOutputs, SMTT(60)

\* A tick brings the completions nearer by as much as that of a host.
LEMMA TickServe ==
    ASSUME IInv, IInv', HostsServe, HostsFar, Tick
    PROVE  HostsServe' /\ HostsFar'
<1>1. /\ PortsOK(State) /\ UNCHANGED <<queue, size, send, sending, bytes>>
      /\ \A x \in Ports : due'[x] = [i \in DOMAIN due[x] |-> due[x][i] - 1]
      /\ \A x \in Ports : due[x] # <<>> => Head(due[x]) # 0
  BY DEF IInv, Tick, DueNow, inputVars
<1>2. /\ State.queue = queue /\ State.size = size /\ State.send = send
      /\ State.sending = sending /\ State.due = due
  BY DEF State
<1>3. ASSUME NEW x \in Ports
      PROVE  /\ Len(due'[x]) = Len(due[x]) /\ (due'[x] = <<>> <=> due[x] = <<>>)
             /\ due[x] # <<>> => Head(due'[x]) = Head(due[x]) - 1 /\ Head(due[x]) \in Int
  <2> DEFINE u == due[x]
             v == due'[x]
  <2>1. u \in Seq(0..TxTime) /\ Sorted(u) /\ TxTime \in Nat /\ v = [i \in DOMAIN u |-> u[i] - 1]
        /\ (u # <<>> => Head(u) # 0)
    BY <1>1, <1>2, PortTypes, PfcAssumption
  <2> HIDE DEF u, v
  <2>2. v \in Seq(0..TxTime) /\ Len(v) = Len(u)
    BY <2>1, SortedAged
  <2>3. v = <<>> <=> u = <<>>
    BY <2>1, <2>2
  <2>4. u # <<>> => Head(v) = Head(u) - 1 /\ Head(u) \in Int
    <3> SUFFICES ASSUME u # <<>>
                 PROVE  Head(v) = Head(u) - 1 /\ Head(u) \in Int
      OBVIOUS
    <3>1. 1 \in DOMAIN u /\ Head(u) = u[1] /\ u[1] \in 0..TxTime
      BY <2>1
    <3>2. Head(v) = v[1]
      BY <2>2, <2>3
    <3>3. v[1] = u[1] - 1
      BY <2>1, <3>1
    <3> QED
      BY <2>1, <3>1, <3>2, <3>3
  <2> QED
    BY <2>2, <2>3, <2>4 DEF u, v
<1>4. ASSUME NEW h \in Hosts
      PROVE  ServesAt(State, h)'
  <2>1. ServesAt(State, h) /\ h \in Ports
    BY LinkPorts DEF HostsServe
  <2>2. Len(due'[h]) = Len(due[h])
    BY <1>3, <2>1
  <2>3. Serves(queue[h], size[h], send[h], sending[h], due[h])
    BY <1>2, <2>1 DEF ServesAt
  <2> DEFINE v == due'[h]
  <2>4. Serves(queue[h], size[h], send[h], sending[h], v)
    BY <2>2, <2>3 DEF Serves
  <2>5. /\ State'.queue = queue /\ State'.size = size /\ State'.send = send
        /\ State'.sending = sending /\ State'.due = due'
    BY <1>1 DEF State
  <2> QED
    BY <2>4, <2>5 DEF ServesAt
<1>5. ASSUME NEW h \in Hosts
      PROVE  Far(h)'
  <2> SUFFICES ASSUME send[h] # "READY", due'[h] # <<>>
               PROVE  bytes[h] >= Low + Mtu * Cardinality(Coming(h, due', Head(due'[h])))
    BY <1>1 DEF Far
  <2> DEFINE c == due
             d == due'
             r == Head(due[h])
             n == Head(due'[h])
             a == Cardinality(Coming(h, c, r))
             e == Cardinality(Coming(h, d, n))
  <2>1. due[h] # <<>> /\ n = r - 1 /\ r \in Int
    BY <1>3, LinkPorts
  <2>2. bytes[h] >= Low + Mtu * a
    BY <1>1, <2>1 DEF HostsFar, Far
  <2>3. ASSUME NEW o \in Outputs
        PROVE  /\ Eta(c[o]) \in Int /\ Eta(d[o]) \in Int
               /\ Eta(d[o]) >= Eta(c[o]) - 1
    <3>1. o \in Ports
      BY DEF Ports
    <3>2. Eta(c[o]) \in Int /\ Eta(d[o]) \in Int
      BY <3>1, DueTypes, DueTypesNext DEF DueTyped
    <3>3. CASE c[o] = <<>>
      BY <1>3, <3>1, <3>2, <3>3 DEF Eta
    <3>4. CASE c[o] # <<>>
      BY <1>3, <3>1, <3>2, <3>4 DEF Eta
    <3> QED
      BY <3>2, <3>3, <3>4
  <2>4. n \in Int
    BY <2>1
  <2> HIDE DEF c, d, r, n
  <2>5. \A o \in Outputs : /\ Eta(c[o]) \in Int /\ Eta(d[o]) \in Int
                           /\ Eta(d[o]) - n >= Eta(c[o]) - r
    BY <2>1, <2>3, <2>4
  <2>6. e <= a /\ e \in Nat /\ a \in Nat
    BY <2>1, <2>4, <2>5, ComingLess, ComingMost
  <2> HIDE DEF a, e
  <2>7. Mtu * e <= Mtu * a /\ Mtu * e \in Int /\ Mtu * a \in Int /\ Low \in Int
        /\ bytes[h] \in Int
    BY <2>6, PfcAssumption, DueTypes DEF DueTyped
  <2> DEFINE i == Mtu * e
             j == Mtu * a
             b == bytes[h]
  <2>8. i <= j /\ i \in Int /\ j \in Int /\ b >= Low + j /\ b \in Int
    BY <2>2, <2>7
  <2> HIDE DEF i, j, b
  <2>9. b >= Low + i
    BY <2>7, <2>8
  <2> QED
    BY <2>9 DEF b, i, e, d, n
<1> QED
  BY <1>4, <1>5 DEF HostsServe, HostsFar

\* A departure leaves enough for those that are to come.
LEMMA FarLeft ==
    ASSUME IInv, IInv', NEW h \in Hosts, Far(h), send[h] # "READY", due[h] # <<>>,
           NEW o \in Fed(h), Eta(due[o]) = 0, Eta(due'[o]) = TxTime, NoneNearer
    PROVE  /\ bytes[h] - Mtu >= Low + Mtu * Cardinality(Coming(h, due', Head(due[h])))
           /\ bytes[h] - Mtu >= Low
<1> DEFINE c == due
           d == due'
           r == Head(due[h])
           m == Cardinality(Coming(h, c, r))
           n == Cardinality(Coming(h, d, r))
           b == bytes[h]
<1>1. /\ \A y \in Outputs : Eta(c[y]) \in Int /\ Eta(d[y]) \in Int /\ Eta(d[y]) >= Eta(c[y])
      /\ b \in Int /\ Mtu \in Nat /\ Low \in Nat /\ due[h] \in Seq(0..TxTime)
      /\ Eta(c[o]) = 0 /\ Eta(d[o]) = TxTime
  BY DueTypes, DueTypesNext DEF DueTyped, Ports, NoneNearer
<1>2. r \in 0..TxTime
  <2> DEFINE S == 0..TxTime
  <2>1. due[h] \in Seq(S)
    BY <1>1
  <2> HIDE DEF S
  <2>2. r \in S
    BY <2>1
  <2> QED
    BY <2>2 DEF S
<1>3. b >= Low + Mtu * m
  BY DEF Far
<1> HIDE DEF c, d, r, b
<1>4. n + 1 <= m /\ n \in Nat /\ m \in Nat
  BY <1>1, <1>2, ComingLeft, ComingMost
<1> HIDE DEF m, n
<1>5. Mtu * n + Mtu <= Mtu * m /\ Mtu * n >= 0
  <2>1. \A i, j \in Int : i * (j + 1) = i * j + i
    OBVIOUS
  <2>2. Mtu * (n + 1) = Mtu * n + Mtu
    BY <1>1, <1>4, <2>1
  <2>3. Mtu * (n + 1) <= Mtu * m
    BY <1>1, <1>4
  <2>4. Mtu * n >= 0
    BY <1>1, <1>4
  <2> QED
    BY <2>2, <2>3, <2>4
<1> DEFINE x == Mtu * n
           y == Mtu * m
<1>6. x \in Int /\ y \in Int /\ b >= Low + y /\ x + Mtu <= y /\ x >= 0
  BY <1>1, <1>3, <1>4, <1>5
<1> HIDE DEF x, y
<1>7. b - Mtu >= Low + x /\ b - Mtu >= Low
  BY <1>1, <1>6
<1> QED
  BY <1>7 DEF x, n, b, d, r

LEMMA OutputCompletesServe ==
    ASSUME IInv, IInv', EntriesFed, HostsServe, HostsFar, NEW o \in Outputs, OutputCompletes(o)
    PROVE  HostsServe' /\ HostsFar'
<1> DEFINE s == queue[o]
           u == Tail(due[o])
<1>1. /\ PortsOK(State) /\ o \in Ports /\ o \notin Hosts /\ due[o] # <<>> /\ Head(due[o]) = 0
      /\ State.queue = queue /\ State.size = size /\ State.send = send
      /\ State.sending = sending /\ State.due = due
  BY LinkPorts DEF IInv, OutputCompletes, State, Ports
<1>2. s \in Seq(Packet)
  BY <1>1, PortTypes
<1>3. PICK l \in Seq(Packet) : l = Kept(o) /\ Len(l) <= Len(s)
  BY <1>2, KeptFits
<1> DEFINE k == Mtu * Len(l)
           swept == Swept(State, o, l, k, NoPacket, u)
           rest == Tail(l)
           z == swept.size[o] - Mtu
           left == Held(swept, o, rest, z)
           served == ServeOn(left, o)
<1>4. IF l = <<>>
      THEN Become(swept) /\ bytes' = bytes
      ELSE CompletedService(Credited(o), served)
  BY <1>3 DEF OutputCompletes, Swept, Held, State, inputVars
<1>5. /\ PortOK(o, s, size[o], send[o], sending[o], due[o])
      /\ due[o] \in Seq(0..TxTime) /\ send[o] \in Sends
  BY <1>1, PortTypes
<1>6. u = <<>>
  <2>1. Len(due[o]) = IF sending[o] = NoPacket THEN 0 ELSE 1
    BY <1>5 DEF PortOK
  <2> QED
    BY <1>1, <1>5, <2>1
<1>7. swept = Put(State, o, l, k, NoPacket, u)
  BY <1>1, SweptFields
<1> HIDE DEF u, swept
<1>8. PortOK(o, l, k, send[o], NoPacket, u)
  <2>1. k = Mtu * Len(l)
    OBVIOUS
  <2> HIDE DEF k
  <2> QED
    BY <1>2, <1>3, <1>5, <1>6, <2>1, IdleOutputOK
<1> HIDE DEF k
<1>9. /\ PortsOK(swept) /\ swept.queue[o] = l /\ swept.size[o] = k
      /\ swept.sending[o] = NoPacket /\ swept.due[o] = u /\ swept.send = send
      /\ SameBut(swept, State, o)
  BY <1>1, <1>7, <1>8, SetOK, PutSame
<1>10. Eta(due[o]) = 0 /\ Eta(<<>>) = TxTime /\ TxTime > 0 /\ TxTime \in Nat
  BY <1>1, PfcAssumption DEF Eta
<1>11. ASSUME NEW t, Become(t), t.due[o] = <<>> \/ t.due[o] = Append(u, TxTime),
              \A y \in Outputs \ {o} : MayBegin(t, State, y)
       PROVE  NoneNearer /\ Eta(due'[o]) = TxTime
  <2>1. Eta(due'[o]) = TxTime
    <3>1. due'[o] = t.due[o]
      BY <1>11 DEF Become
    <3>2. u \in Seq(0..TxTime) /\ Eta(u) = TxTime
      BY <1>6, <1>10
    <3>3. Eta(Append(u, TxTime)) = TxTime
      BY <3>2, EtaType
    <3> QED
      BY <1>10, <1>11, <3>1, <3>3
  <2>2. ASSUME NEW y \in Outputs
        PROVE  Eta(due'[y]) >= Eta(due[y])
    <3>1. CASE y = o
      BY <1>10, <2>1, <3>1
    <3>2. CASE y # o
      <4>1. Eta(due'[y]) = Eta(due[y]) /\ Eta(due[y]) \in Int
        BY <1>11, <3>2, BeginsNoNearer
      <4> QED
        BY <4>1
    <3> QED
      BY <3>1, <3>2
  <2> QED
    BY <2>1, <2>2 DEF NoneNearer
<1>12. CASE l = <<>>
  <2>1. Become(swept) /\ bytes' = bytes
    BY <1>4, <1>12
  <2>2. \A y \in Outputs \ {o} : MayBegin(swept, State, y)
    BY <1>9 DEF SameBut, Same, MayBegin, Ports
  <2>3. NoneNearer
    BY <1>6, <1>9, <1>11, <2>1, <2>2
  <2>4. \A h \in Hosts : Same(swept, State, h)
    BY <1>1, <1>9, LinkPorts DEF SameBut
  <2>5. \A h \in Hosts : bytes'[h] >= bytes[h]
    BY <2>1, DueTypes DEF DueTyped
  <2> QED
    BY <1>9, <2>1, <2>3, <2>4, <2>5, StepNoneNearer
<1>13. CASE l # <<>>
  <2>1. CompletedService(Credited(o), served)
    BY <1>4, <1>13
  <2>2. rest \in Seq(Packet) /\ Len(rest) = Len(l) - 1 /\ Len(l) \in Nat
    BY <1>13
  <2>3. PortOK(o, rest, z, send[o], NoPacket, u)
    <3> DEFINE n == Len(l)
               m == Len(rest)
    <3>1. z = Mtu * n - Mtu
      BY <1>9 DEF k
    <3>2. \A a, b \in Int : a * b - a = a * (b - 1)
      OBVIOUS
    <3>3. m = n - 1 /\ n \in Nat /\ m \in Nat /\ Mtu \in Nat
      BY <2>2, PfcAssumption
    <3> HIDE DEF n, m
    <3>4. z = Mtu * m
      BY <3>1, <3>2, <3>3
    <3> HIDE DEF z, rest
    <3>5. z = Mtu * Len(rest)
      BY <3>4 DEF m
    <3> QED
      BY <1>5, <1>6, <2>2, <3>5, IdleOutputOK
  <2> HIDE DEF z, rest
  <2>4. left = Put(swept, o, rest, z, NoPacket, u)
    <3>1. left = Put(swept, o, rest, z, swept.sending[o], swept.due[o])
      BY <1>1, <1>9, HeldFields
    <3> QED
      BY <1>9, <3>1
  <2> HIDE DEF left
  <2>5. /\ PortsOK(left) /\ left.sending[o] = NoPacket /\ left.due[o] = u
        /\ SameBut(left, State, o)
    <3>1. PortOK(o, rest, z, swept.send[o], NoPacket, u)
      BY <1>9, <2>3
    <3>2. PortsOK(left) /\ left.sending[o] = NoPacket /\ left.due[o] = u
      BY <1>1, <1>9, <2>4, <3>1, SetOK
    <3>3. SameBut(left, swept, o)
      BY <1>1, <1>9, <2>4, PutSame
    <3> QED
      BY <1>9, <3>2, <3>3, SameTwice
  <2>6. /\ PortsOK(served) /\ SameBut(served, State, o)
        /\ served.due[o] = u \/ served.due[o] = Append(u, TxTime)
        /\ \A y \in Ports : served.send[y] = "READY" <=> State.send[y] = "READY"
    <3>1. SameBut(served, left, o) /\ MayBegin(served, left, o)
      BY <1>1, <2>5, ServeOnSame
    <3>2. /\ PortsOK(served)
          /\ \A y \in Ports : served.send[y] = "READY" <=> left.send[y] = "READY"
      BY <1>1, <2>5, ServeOnOK
    <3>3. left.send[o] = send[o]
      BY <1>1, <1>9, <2>4, PutSame
    <3> HIDE DEF served
    <3>4. SameBut(served, State, o)
      BY <2>5, <3>1, SameTwice
    <3>5. \A y \in Ports : left.send[y] = State.send[y]
      BY <1>1, <2>5, <3>3 DEF SameBut, Same
    <3> QED
      BY <2>5, <3>1, <3>2, <3>4, <3>5 DEF MayBegin
  <2> HIDE DEF served
  <2>7. PICK c \in Links : c = Credited(o) /\ (c \in Hosts => o \in Fed(c))
    <3>1. vq[o] \in Seq(Links) /\ Len(s) <= Len(vq[o])
      BY DEF IInv, InputsKnown
    <3>2. Len(l) # 0 /\ Len(s) \in Nat
      BY <1>2, <1>13
    <3>3. Len(vq[o]) \in Nat /\ Len(vq[o]) # 0
      BY <1>3, <2>2, <3>1, <3>2
    <3>4. Head(vq[o]) \in Links /\ Head(vq[o]) = vq[o][1] /\ 1 \in 1..Len(vq[o])
      BY <3>1, <3>3
    <3>5. vq[o][1] \in Hosts => o \in Fed(vq[o][1])
      BY <3>4 DEF EntriesFed, EntryFed
    <3> QED
      BY <3>4, <3>5 DEF Credited
  <2> DEFINE resumed == ReceiveResume(served, c)
             resumes == bytes[c] - Mtu < Low /\ recv[c] = "PAUSED"
  <2>8. /\ bytes' = [bytes EXCEPT ![c] = @ - Mtu]
        /\ Become(IF resumes THEN resumed ELSE served)
    BY <2>1, <2>7 DEF CompletedService
  <2>9. /\ c \in Ports /\ bytes[c] \in Nat /\ bytes'[c] = bytes[c] - Mtu /\ Mtu \in Nat
        /\ \A h \in Hosts : h # c => bytes'[h] >= bytes[h]
        /\ recv[c] = "PAUSED" => send[c] # "READY"
    <3>1. bytes \in [Links -> Nat] /\ (recv[c] = "PAUSED" => send[c] # "READY")
      BY DEF IInv, BytesCounted, PauseAgreed
    <3>2. bytes[c] \in Nat /\ bytes'[c] = bytes[c] - Mtu /\ Mtu \in Nat
      BY <2>8, <3>1, PfcAssumption
    <3>3. \A h \in Hosts : h # c => bytes'[h] >= bytes[h]
      BY <2>8, <3>1, LinkPorts
    <3> QED
      BY <3>1, <3>2, <3>3, LinkPorts
  \* What becomes of the ports: t.
  <2>10. PICK t : Become(t) /\ t = IF resumes THEN resumed ELSE served
    BY <2>8
  <2>11. PortsOK(t) /\ SameBut(t, served, c) /\ MayBegin(t, served, c)
    <3>1. PortsOK(resumed) /\ SameBut(resumed, served, c) /\ MayBegin(resumed, served, c)
      BY <2>6, <2>9, ReceiveResumeOK, ResumeSame
    <3>2. SameBut(served, served, c) /\ MayBegin(served, served, c)
      BY DEF SameBut, Same, MayBegin
    <3> QED
      BY <2>6, <2>10, <3>1, <3>2
  <2>12. \A y \in Outputs \ {o} : MayBegin(t, State, y)
    <3> SUFFICES ASSUME NEW y \in Outputs \ {o}
                 PROVE  MayBegin(t, State, y)
      OBVIOUS
    <3>1. y \in Ports \ {o} /\ served.due[y] = State.due[y]
      BY <2>6 DEF SameBut, Same, Ports
    <3>2. CASE y = c
      BY <2>11, <3>1, <3>2 DEF MayBegin
    <3>3. CASE y # c
      BY <2>11, <3>1, <3>3 DEF SameBut, Same, MayBegin
    <3> QED
      BY <3>2, <3>3
  <2>13. Eta(due'[o]) = TxTime /\ NoneNearer
    <3>1. CASE t.due[o] = served.due[o]
      BY <1>6, <1>11, <2>6, <2>10, <2>12, <3>1
    <3>2. CASE t.due[o] # served.due[o]
      <4>1. c = o /\ t.due[o] = Append(served.due[o], TxTime)
        BY <1>1, <2>11, <3>2 DEF SameBut, Same, MayBegin
      <4>2. served.due[o] = u \/ served.due[o] = Append(u, TxTime)
        BY <2>6
      <4>3. Eta(t.due[o]) = TxTime
        <5> DEFINE v == Append(u, TxTime)
        <5>1. u \in Seq(0..TxTime) /\ v \in Seq(0..TxTime) /\ Eta(u) = TxTime
          BY <1>6, <1>10
        <5>2. Eta(v) = TxTime
          BY <5>1, EtaType
        <5>3. Eta(Append(v, TxTime)) = TxTime
          BY <5>1, <5>2, EtaType
        <5> QED
          BY <4>1, <4>2, <5>2, <5>3
      <4>4. due'[o] = t.due[o]
        BY <2>10 DEF Become
      <4>5. \A y \in Outputs : Eta(due'[y]) >= Eta(due[y])
        <5> SUFFICES ASSUME NEW y \in Outputs
                     PROVE  Eta(due'[y]) >= Eta(due[y])
          OBVIOUS
        <5>1. CASE y = o
          BY <1>10, <4>3, <4>4, <5>1
        <5>2. CASE y # o
          <6>1. Eta(due'[y]) = Eta(due[y]) /\ Eta(due[y]) \in Int
            BY <2>10, <2>12, <5>2, BeginsNoNearer
          <6> QED
            BY <6>1
        <5> QED
          BY <5>1, <5>2
      <4> QED
        BY <4>3, <4>4, <4>5 DEF NoneNearer
    <3> QED
      BY <3>1, <3>2
  <2>14. ASSUME NEW h \in Hosts
         PROVE  ServesAt(t, h) /\ Far(h)'
    <3>1. ServesAt(State, h) /\ Far(h) /\ h \in Ports \ {o}
      BY <1>1, LinkPorts DEF HostsServe, HostsFar
    <3>2. Same(served, State, h)
      BY <2>6, <3>1 DEF SameBut
    <3>3. CASE h # c
      <4>1. Same(t, State, h)
        BY <2>11, <3>1, <3>2, <3>3 DEF SameBut, Same
      <4> QED
        BY <2>9, <2>10, <2>13, <3>1, <3>3, <4>1, HostKeeps
    <3>4. CASE h = c
      <4>1. o \in Fed(h) /\ (send[h] # "READY" /\ due[h] # <<>> =>
               /\ bytes[h] - Mtu >= Low + Mtu * Cardinality(Coming(h, due', Head(due[h])))
               /\ bytes[h] - Mtu >= Low)
        BY <1>10, <2>7, <2>13, <3>1, <3>4, FarLeft
      <4>2. ServesAt(served, h)
        BY <3>1, <3>2, SameServes
      <4>3. CASE resumes
        <5>1. due[h] = <<>>
          <6>1. bytes[h] - Mtu < Low /\ send[h] # "READY"
            BY <2>9, <3>4, <4>3
          <6>2. bytes[h] - Mtu \in Int /\ Low \in Int
            BY <2>9, <3>4, PfcAssumption
          <6> QED
            BY <4>1, <6>1, <6>2
        <5>2. served.due[h] = <<>>
          BY <1>1, <3>2, <5>1 DEF Same
        <5>3. ServesAt(resumed, h) /\ resumed.send[h] = "READY"
          BY <2>6, <3>4, <4>2, <5>2, HostResumes
        <5>4. t = resumed
          BY <2>10, <4>3
        <5> HIDE DEF resumed
        <5>5. Far(h)'
          BY <2>10, <5>3, <5>4 DEF Far, Become
        <5> QED
          BY <5>3, <5>4, <5>5
      <4>4. CASE ~resumes
        <5>1. t = served
          BY <2>10, <4>4
        <5>2. due'[h] = due[h] /\ send'[h] = send[h]
          BY <1>1, <2>10, <3>2, <5>1 DEF Same, Become
        <5>3. Far(h)'
          BY <2>9, <3>4, <4>1, <5>2 DEF Far
        <5> QED
          BY <4>2, <5>1, <5>3
      <4> QED
        BY <4>3, <4>4
    <3> QED
      BY <3>3, <3>4
  <2>15. HostsServe'
    BY <2>10, <2>11, <2>14, HostsAfter
  <2> QED
    BY <2>14, <2>15 DEF HostsFar
<1> QED
  BY <1>12, <1>13

LEMMA NextServe ==
    ASSUME IInv, IInv', Apart, EntriesFed, HostsServe, HostsFar, [Next]_vars
    PROVE  HostsServe' /\ HostsFar'
<1>1. CASE Next
  BY <1>1, HostSendsServe, HostCompletesServe, ReachesInputServe, ReachesOutputServe,
     OutputCompletesServe, TickServe DEF Next, Happens
<1>2. CASE UNCHANGED vars
  <2>1. UNCHANGED <<queue, size, send, sending, due, bytes>>
    BY <1>2 DEF vars, portVars, inputVars
  <2>2. State' = State
    BY <2>1 DEF State
  <2> QED
    BY <2>1, <2>2 DEF HostsServe, HostsFar, ServesAt, Far
<1> QED
  BY <1>1, <1>2

LEMMA ServeOneAtATime ==
    ASSUME IInv, HostsServe
    PROVE  OneServiceAtATime
<1>1. /\ State.queue = queue /\ State.size = size /\ State.send = send
      /\ State.sending = sending /\ State.due = due
  BY DEF State
<1>2. ASSUME NEW x \in Ports
      PROVE  /\ Len(due[x]) = IF sending[x] = NoPacket THEN 0 ELSE 1
             /\ send[x] = "PAUSED" => due[x] = <<>>
             /\ x \in Outputs => (sending[x] = Busy => queue[x] # <<>>)
  <2>1. /\ PortOK(x, queue[x], size[x], send[x], sending[x], due[x])
        /\ due[x] \in Seq(0..TxTime)
    BY <1>1, PortTypes DEF IInv
  <2>2. CASE x \in Hosts
    <3>1. Serves(queue[x], size[x], send[x], sending[x], due[x])
      BY <1>1, <2>2 DEF HostsServe, ServesAt
    <3>2. Len(due[x]) = 0 => due[x] = <<>>
      BY <2>1
    <3> QED
      BY <2>2, <3>1, <3>2, LinkPorts DEF Serves
  <2>3. CASE x \in Outputs
    BY <2>1, <2>3 DEF PortOK
  <2> QED
    BY <2>2, <2>3 DEF Ports
<1> QED
  BY <1>2 DEF OneServiceAtATime, Ports

\* With thresholds that far apart every port, a host too, transmits one packet at a time: a
\* RESUME comes to a host only after it has seen the PAUSE before.
THEOREM OneServiceIfApart ==
    ASSUME Apart
    PROVE  Spec => []OneServiceAtATime
<1>1. Init => OnFed /\ EntriesFed /\ HostsServe /\ HostsFar
  BY InitFed, InitServe
<1>2. /\ IInv /\ IInv' /\ OnFed /\ EntriesFed /\ HostsServe /\ HostsFar /\ [Next]_vars
      => OnFed' /\ EntriesFed' /\ HostsServe' /\ HostsFar'
  BY NextOnFed, NextEntriesFed, NextServe
<1>3. IInv /\ HostsServe => OneServiceAtATime
  BY ServeOneAtATime
<1> QED
  BY <1>1, <1>2, <1>3, PfcInvariance, PTL DEF Spec

\* So no input queue overflows: the headroom takes what is on its way when the PAUSE
\* is sent.
THEOREM HeadroomIfApart ==
    ASSUME Apart
    PROVE  Spec => []HeadroomSuffices
  BY OneServiceIfApart, HeadroomUnlessDoubled, PTL

\* And of packets that outlast any wait none is lost by a queue, a pipe or a pause.
THEOREM NothingLostIfApart ==
    ASSUME Apart, Hosts \subseteq Budgeted
    PROVE  Spec => []NothingLost
  BY OneServiceIfApart, NothingLostUnlessDoubled, PTL

-----------------------------------------------------------------------------
(* Coming to rest *)

\* A port that is not paused and has a packet to transmit has a completion pending. The
\* output to a receiver is never paused.
More(s, x) == IF x \in Hosts THEN s.size[x] > 0 ELSE s.queue[x] # <<>>
AwakeAt(s, x) == s.send[x] = "READY" /\ More(s, x) => s.due[x] # <<>>
Awake(s) == \A x \in Ports : AwakeAt(s, x)
ExitsReady(s) == \A o \in Exits : s.send[o] = "READY"
NoneAsleep == Awake(State) /\ ExitsReady(State)

LEMMA AwakeBut ==
    ASSUME NEW s, NEW t, NEW x \in Ports, SameBut(t, s, x), AwakeAt(t, x),
           \A y \in Ports \ {x} : AwakeAt(s, y)
    PROVE  Awake(t)
  BY DEF SameBut, Same, Awake, AwakeAt, More

LEMMA ExitsBut ==
    ASSUME NEW s, NEW t, NEW x \in Ports, SameBut(t, s, x), ExitsReady(s),
           x \in Exits => t.send[x] = "READY"
    PROVE  ExitsReady(t)
<1> SUFFICES ASSUME NEW o \in Exits
             PROVE  t.send[o] = "READY"
  BY DEF ExitsReady
<1>1. o \in Ports
  BY LinkPorts
<1> QED
  BY <1>1 DEF SameBut, Same, ExitsReady

LEMMA AwakeAfter ==
    ASSUME NEW t, PortsOK(t), Become(t), Awake(t), ExitsReady(t)
    PROVE  NoneAsleep'
<1>1. State' = t
  BY Becoming
<1>2. Awake(State)' <=> Awake(t)
  BY <1>1 DEF Awake, AwakeAt, More
<1>3. ExitsReady(State)' <=> ExitsReady(t)
  BY <1>1 DEF ExitsReady
<1> QED
  BY <1>2, <1>3 DEF NoneAsleep

LEMMA InitAwake ==
    ASSUME Init
    PROVE  NoneAsleep
<1>1. State.queue = queue /\ State.size = size /\ State.send = send
  BY DEF State
<1>2. \A x \in Ports : queue[x] = <<>> /\ size[x] = 0 /\ send[x] = "READY"
  BY DEF Init
<1>3. Awake(State)
  BY <1>1, <1>2 DEF Awake, AwakeAt, More
<1> QED
  BY <1>1, <1>2, <1>3, LinkPorts DEF NoneAsleep, ExitsReady

LEMMA BeginAwake ==
    ASSUME NEW s, PortsOK(s), NEW x \in Ports
    PROVE  AwakeAt(BeginService(s, x), x)
<1> DEFINE t == BeginService(s, x)
           q == BegunQueue(s, x)
           z == s.size[x]
           d == s.send[x]
           g == BegunSending(s, x)
           u == Append(s.due[x], TxTime)
<1>1. Changed(s, t, x, q, z, d, g, u)
  BY BeginChanges
<1>2. u # <<>>
  <2> DEFINE S == 0..TxTime
             v == s.due[x]
  <2>1. v \in Seq(S) /\ TxTime \in S
    BY PortTypes, PfcAssumption
  <2> HIDE DEF S, v
  <2> DEFINE n == Len(v)
             w == Append(v, TxTime)
  <2>2. Len(w) = n + 1 /\ n \in Nat
    BY <2>1
  <2> HIDE DEF n, w
  <2>3. Len(w) # 0
    BY <2>2
  <2>4. w # <<>>
    BY <2>3
  <2> QED
    BY <2>4 DEF w, v
<1> HIDE DEF t, q, z, d, g, u
<1>3. t.due[x] = u
  BY <1>1, ChangedSame
<1> QED
  BY <1>2, <1>3 DEF AwakeAt, t

\* A RESUME, and the end of completeService, leave a port awake.
LEMMA ResumeAwake ==
    ASSUME NEW s, PortsOK(s), NEW x \in Ports
    PROVE  AwakeAt(ReceiveResume(s, x), x)
<1> DEFINE d == "READY"
           ready == [s EXCEPT !.send[x] = d]
           begins == IF x \in Hosts THEN s.size[x] > 0
                     ELSE s.queue[x] # <<>> /\ s.sending[x] = NoPacket
           t == ReceiveResume(s, x)
           b == BeginService(ready, x)
<1>1. t = IF begins THEN b ELSE ready
  BY DEF ReceiveResume
<1>2. d \in Sends /\ d # "PAUSED"
  BY DEF Sends
<1> HIDE DEF d
<1>3. /\ PortsOK(ready) /\ ready.queue = s.queue /\ ready.size = s.size /\ ready.due = s.due
  BY <1>2, SendChanges
<1> HIDE DEF ready
<1>4. AwakeAt(b, x)
  BY <1>3, BeginAwake
<1> HIDE DEF b, t
<1>5. CASE begins
  BY <1>1, <1>4, <1>5 DEF t
<1>6. CASE ~begins
  <2>1. More(ready, x) => s.due[x] # <<>>
    <3> SUFFICES ASSUME More(ready, x)
                 PROVE  s.due[x] # <<>>
      OBVIOUS
    <3>1. x \in Outputs /\ s.sending[x] # NoPacket
      BY <1>3, <1>6 DEF More, Ports
    <3>2. PortOK(x, s.queue[x], s.size[x], s.send[x], s.sending[x], s.due[x])
      BY PortTypes
    <3>3. Len(s.due[x]) = 1
      BY <3>1, <3>2 DEF PortOK
    <3>4. Len(<<>>) = 0
      OBVIOUS
    <3> QED
      BY <3>3, <3>4
  <2>2. AwakeAt(ready, x)
    BY <1>3, <2>1 DEF AwakeAt
  <2> QED
    BY <1>1, <1>6, <2>2 DEF t
<1> QED
  BY <1>5, <1>6

LEMMA ServeOnAwake ==
    ASSUME NEW s, PortsOK(s), NEW x \in Ports, s.sending[x] = NoPacket
    PROVE  AwakeAt(ServeOn(s, x), x)
<1> DEFINE heard == Heard(s, x)
           t == ServeOn(s, x)
           b == BeginService(heard, x)
<1>1. t = IF More(s, x) /\ heard.send[x] = "READY" THEN b ELSE heard
  BY DEF ServeOn, Heard, More
<1>2. PortsOK(heard) /\ heard.queue = s.queue /\ heard.size = s.size
  BY HeardSame
<1> HIDE DEF heard, t
<1>3. AwakeAt(b, x)
  BY <1>2, BeginAwake
<1> HIDE DEF b
<1>4. More(heard, x) <=> More(s, x)
  BY <1>2 DEF More
<1>5. CASE More(s, x) /\ heard.send[x] = "READY"
  BY <1>1, <1>3, <1>5 DEF t
<1>6. CASE ~(More(s, x) /\ heard.send[x] = "READY")
  <2>1. AwakeAt(heard, x)
    BY <1>4, <1>6 DEF AwakeAt
  <2> QED
    BY <1>1, <1>6, <2>1 DEF t
<1> QED
  BY <1>5, <1>6

LEMMA HostSendsAwake ==
    ASSUME IInv, NoneAsleep, NEW h \in Hosts, HostSends(h)
    PROVE  NoneAsleep'
<1> DEFINE burst == Burst(h, sent[h] + 1)
           q == queue[h] \o burst
           n == Len(burst)
           z == size[h] + Mtu * n
           held == Held(State, h, q, z)
           b == BeginService(held, h)
           t == IF size[h] = 0 /\ send[h] = "READY" THEN b ELSE held
<1>1. /\ h \in Ports /\ h \notin Outputs /\ PortsOK(State) /\ sent[h] + 1 \in 1..Len(Load[h])
      /\ h \notin Exits
  <2>1. sent[h] \in Nat /\ sent[h] < Len(Load[h]) /\ Len(Load[h]) \in Nat
    BY PfcAssumption DEF IInv, HostSends
  <2> QED
    BY <2>1, LinkPorts DEF IInv, HostSends
<1>2. burst \in Seq(Packet)
  BY <1>1, BurstType, Zenon
<1>3. Become(t)
  BY DEF HostSends, Held, State
<1> HIDE DEF burst
<1>4. /\ State.queue = queue /\ State.size = size /\ State.send = send
      /\ State.sending = sending /\ State.due = due
  BY DEF State
<1>5. queue[h] \in Seq(Packet) /\ size[h] \in Nat
  BY <1>1, <1>4, PortTypes
<1>6. q \in Seq(Packet) /\ n \in Nat /\ Len(q) = Len(State.queue[h]) + n
      /\ z = State.size[h] + Mtu * n
  BY <1>2, <1>4, <1>5
<1> HIDE DEF q, n, z
<1>7. PortsOK(held)
  BY <1>1, <1>6, HeldOK
<1>8. SameBut(held, State, h) /\ held.send[h] = send[h] /\ held.due[h] = due[h]
  <2>1. held = Put(State, h, q, z, State.sending[h], State.due[h])
    BY <1>1, HeldFields
  <2> HIDE DEF held
  <2> QED
    BY <1>1, <1>4, <2>1, PutSame
<1> HIDE DEF held
<1>9. PortsOK(b) /\ SameBut(b, State, h) /\ AwakeAt(b, h)
  BY <1>1, <1>7, <1>8, BeginOK, BeginSame, BeginAwake, SameTwice
<1>10. ~(size[h] = 0 /\ send[h] = "READY") => AwakeAt(held, h)
  <2>1. AwakeAt(State, h)
    BY <1>1 DEF NoneAsleep, Awake
  <2> QED
    BY <1>1, <1>4, <1>5, <1>8, <2>1 DEF AwakeAt, More
<1> HIDE DEF b
<1>11. PortsOK(t) /\ SameBut(t, State, h) /\ AwakeAt(t, h)
  BY <1>7, <1>8, <1>9, <1>10
<1> HIDE DEF t
<1>12. Awake(t) /\ ExitsReady(t)
  BY <1>1, <1>11, AwakeBut, ExitsBut DEF NoneAsleep, Awake
<1> QED
  BY <1>3, <1>11, <1>12, AwakeAfter

LEMMA HostCompletesAwake ==
    ASSUME IInv, NoneAsleep, NEW h \in Hosts, HostCompletes(h)
    PROVE  NoneAsleep'
<1> DEFINE u == Tail(due[h])
           s == queue[h]
           woken == Woken(State, h, u)
           z == woken.size[h] - Mtu
           spent == Spent(woken, h, z, NoPacket)
<1>1. /\ h \in Ports /\ h \notin Outputs /\ h \notin Exits /\ PortsOK(State)
      /\ due[h] # <<>>
  BY LinkPorts DEF IInv, HostCompletes
<1>2. /\ State.queue = queue /\ State.size = size /\ State.send = send
      /\ State.sending = sending /\ State.due = due
  BY DEF State
<1>3. /\ PortOK(h, s, size[h], send[h], sending[h], due[h])
      /\ s \in Seq(Packet) /\ size[h] \in Nat /\ due[h] \in Seq(0..TxTime)
      /\ Sorted(due[h])
  BY <1>1, <1>2, PortTypes
<1>4. u \in Seq(0..TxTime) /\ Sorted(u)
  BY <1>1, <1>3, SortedTail, PfcAssumption
<1>5. IF send[h] = "PAUSED" THEN Become(woken)
      ELSE IF sending[h] = NoPacket THEN Become(ServeOn(woken, h))
      ELSE Become(ServeOn(spent, h))
  BY DEF HostCompletes, Woken, Spent, State
<1> HIDE DEF u
<1>6. woken = Put(State, h, s, size[h], sending[h], u)
  <2>1. woken = Put(State, h, State.queue[h], State.size[h], State.sending[h], u)
    BY <1>1, WokenFields
  <2> QED
    BY <1>2, <2>1
<1> HIDE DEF woken
<1>7. /\ PortsOK(woken) /\ woken.queue[h] = s /\ woken.size[h] = size[h]
      /\ woken.sending[h] = sending[h] /\ woken.due[h] = u /\ woken.send = send
      /\ SameBut(woken, State, h)
  <2>1. PortOK(h, s, size[h], State.send[h], sending[h], u)
    BY <1>1, <1>2, <1>3, <1>4 DEF PortOK
  <2> QED
    BY <1>1, <1>2, <1>6, <2>1, SetOK, PutSame
<1>8. ASSUME NEW t, Become(t), PortsOK(t), SameBut(t, State, h), AwakeAt(t, h)
      PROVE  NoneAsleep'
  <2>1. Awake(t) /\ ExitsReady(t)
    BY <1>1, <1>8, AwakeBut, ExitsBut DEF NoneAsleep, Awake
  <2> QED
    BY <1>8, <2>1, AwakeAfter
<1>9. ASSUME NEW r, PortsOK(r), r.sending[h] = NoPacket, SameBut(r, State, h),
             Become(ServeOn(r, h))
      PROVE  NoneAsleep'
  <2> DEFINE t == ServeOn(r, h)
  <2>1. PortsOK(t) /\ SameBut(t, r, h) /\ AwakeAt(t, h)
    BY <1>1, <1>9, ServeOnOK, ServeOnSame, ServeOnAwake
  <2>2. Become(t)
    BY <1>9
  <2> HIDE DEF t
  <2>3. SameBut(t, State, h)
    BY <1>9, <2>1, SameTwice
  <2> QED
    BY <1>8, <2>1, <2>2, <2>3
<1>10. CASE send[h] = "PAUSED"
  <2>1. AwakeAt(woken, h)
    BY <1>7, <1>10 DEF AwakeAt
  <2> QED
    BY <1>5, <1>7, <1>8, <1>10, <2>1
<1>11. CASE send[h] # "PAUSED" /\ sending[h] = NoPacket
  BY <1>5, <1>7, <1>9, <1>11
<1>12. CASE send[h] # "PAUSED" /\ sending[h] # NoPacket
  <2>1. Become(ServeOn(spent, h))
    BY <1>5, <1>12
  <2>2. PortOK(h, s, z, send[h], NoPacket, u)
    <3> DEFINE m == Mtu * Len(s)
    <3>1. size[h] >= m + Mtu
      BY <1>1, <1>3, <1>12 DEF PortOK
    <3>2. m \in Nat /\ Mtu \in Nat /\ z = size[h] - Mtu
      BY <1>3, <1>7, PfcAssumption
    <3> HIDE DEF m, z
    <3>3. z \in Nat /\ z >= m + 0
      BY <1>3, <3>1, <3>2
    <3> QED
      BY <1>1, <1>3, <1>4, <3>3 DEF PortOK, m
  <2> HIDE DEF z
  <2>3. spent = Put(woken, h, s, z, NoPacket, u)
    <3>1. spent = Put(woken, h, woken.queue[h], z, NoPacket, woken.due[h])
      BY <1>1, <1>7, SpentFields
    <3> QED
      BY <1>7, <3>1
  <2> HIDE DEF spent
  <2>4. PortsOK(spent) /\ spent.sending[h] = NoPacket /\ SameBut(spent, State, h)
    <3>1. PortOK(h, s, z, woken.send[h], NoPacket, u)
      BY <1>7, <2>2
    <3>2. PortsOK(spent) /\ spent.sending[h] = NoPacket
      BY <1>1, <1>7, <2>3, <3>1, SetOK
    <3>3. SameBut(spent, woken, h)
      BY <1>1, <1>7, <2>3, PutSame
    <3> QED
      BY <1>7, <3>2, <3>3, SameTwice
  <2> QED
    BY <1>9, <2>1, <2>4
<1> QED
  BY <1>10, <1>11, <1>12

LEMMA ReachesInputAwake ==
    ASSUME IInv, NoneAsleep, NEW x \in Links, ReachesInput(x)
    PROVE  NoneAsleep'
<1> DEFINE t == ReceivePause(State, x)
<1>1. PortsOK(State) /\ x \in Ports /\ x \notin Exits
  BY LinkPorts DEF IInv
<1>2. CASE Become(t)
  <2>1. PortsOK(t) /\ SameBut(t, State, x) /\ t.send[x] # "READY"
    BY <1>1, ReceivePauseOK, PauseSame
  <2>2. Become(t)
    BY <1>2
  <2> HIDE DEF t
  <2>3. AwakeAt(t, x)
    BY <2>1 DEF AwakeAt
  <2>4. Awake(t) /\ ExitsReady(t)
    BY <1>1, <2>1, <2>3, AwakeBut, ExitsBut DEF NoneAsleep, Awake
  <2> QED
    BY <2>1, <2>2, <2>4, AwakeAfter
<1>3. CASE UNCHANGED <<queue, size, send, sending, due>>
  <2>1. State' = State
    BY <1>3 DEF State
  <2> QED
    BY <2>1 DEF NoneAsleep, Awake, AwakeAt, More, ExitsReady
<1> QED
  BY <1>2, <1>3 DEF ReachesInput

LEMMA ReachesOutputAwake ==
    ASSUME IInv, NoneAsleep, NEW x \in Links, ReachesOutput(x)
    PROVE  NoneAsleep'
<1> DEFINE p == Head(cross[x]).pkt
           o == Forward[x][p.exit]
           q == Append(queue[o], p)
           z == size[o] + Mtu
           held == Held(State, o, q, z)
           b == BeginService(held, o)
           t == IF queue[o] = <<>> /\ send[o] = "READY" THEN b ELSE held
<1>1. /\ PortsOK(State) /\ cross[x] # <<>> /\ Become(t)
      /\ PipeOK(cross[x], SwitchDelay[x]) /\ SwitchDelay[x] \in Nat
  BY PfcAssumption, ZenonT(60) DEF IInv, PipesOK, ReachesOutput, Held, State
<1>2. p \in Packet
  BY <1>1, PipeTail
<1> HIDE DEF p
<1>3. o \in Outputs /\ o \in Ports /\ o \notin Hosts
  <2>1. p.exit \in Exits
    BY <1>2 DEF Packet
  <2>2. o \in Outputs /\ o \in Ports
    BY <2>1, LinkPorts
  <2> HIDE DEF o
  <2> QED
    BY <2>2, LinkPorts
<1> HIDE DEF o
<1>4. /\ State.queue = queue /\ State.size = size /\ State.send = send
      /\ State.sending = sending /\ State.due = due
  BY DEF State
<1>5. /\ PortOK(o, queue[o], size[o], send[o], sending[o], due[o])
      /\ queue[o] \in Seq(Packet) /\ size[o] \in Nat
  BY <1>1, <1>3, <1>4, PortTypes
<1>6. /\ q \in Seq(Packet) /\ Len(q) = Len(State.queue[o]) + 1 /\ q # <<>>
      /\ z = State.size[o] + Mtu * 1
  <2>1. Len(State.queue[o]) = Len(queue[o]) /\ State.size[o] = size[o]
    BY <1>4
  <2>2. q \in Seq(Packet) /\ Len(q) = Len(queue[o]) + 1 /\ q # <<>>
    BY <1>2, <1>5
  <2>3. Mtu * 1 = Mtu
    BY PfcAssumption
  <2> QED
    BY <2>1, <2>2, <2>3
<1> HIDE DEF q, z
<1>7. /\ PortsOK(held) /\ held.queue[o] = q /\ held.sending[o] = sending[o]
      /\ held.send = send
  BY <1>1, <1>3, <1>4, <1>6, HeldOK
<1>8. SameBut(held, State, o) /\ held.due[o] = due[o]
  <2>1. held = Put(State, o, q, z, State.sending[o], State.due[o])
    BY <1>1, <1>3, HeldFields
  <2> HIDE DEF held
  <2> QED
    BY <1>1, <1>3, <1>4, <2>1, PutSame
<1> HIDE DEF held
<1>9. t.send[o] = send[o] /\ PortsOK(t) /\ SameBut(t, State, o) /\ AwakeAt(t, o)
  <2>1. CASE queue[o] = <<>> /\ send[o] = "READY"
    <3>1. sending[o] = NoPacket
      BY <1>3, <1>5, <2>1 DEF PortOK
    <3>2. PortsOK(b)
      BY <1>3, <1>6, <1>7, <2>1, <3>1, BeginOK
    <3>3. SameBut(b, held, o) /\ AwakeAt(b, o) /\ b.send[o] = held.send[o]
      BY <1>3, <1>7, BeginSame, BeginAwake
    <3>4. t = b
      BY <2>1
    <3> HIDE DEF b, t
    <3> QED
      BY <1>7, <1>8, <3>2, <3>3, <3>4, SameTwice
  <2>2. CASE ~(queue[o] = <<>> /\ send[o] = "READY")
    <3>1. AwakeAt(State, o)
      BY <1>3 DEF NoneAsleep, Awake
    <3>2. AwakeAt(held, o)
      BY <1>3, <1>4, <1>7, <1>8, <2>2, <3>1 DEF AwakeAt, More
    <3>3. t = held
      BY <2>2
    <3> QED
      BY <1>7, <1>8, <3>2, <3>3
  <2> QED
    BY <2>1, <2>2
<1> HIDE DEF t
<1>10. o \in Exits => t.send[o] = "READY"
  BY <1>4, <1>9 DEF NoneAsleep, ExitsReady
<1>11. Awake(t) /\ ExitsReady(t)
  BY <1>3, <1>9, <1>10, AwakeBut, ExitsBut DEF NoneAsleep, Awake
<1> QED
  BY <1>1, <1>9, <1>11, AwakeAfter, SMTT(60)

LEMMA OutputCompletesAwake ==
    ASSUME IInv, NoneAsleep, NEW o \in Outputs, OutputCompletes(o)
    PROVE  NoneAsleep'
<1> DEFINE s == queue[o]
           u == Tail(due[o])
<1>1. /\ PortsOK(State) /\ o \in Ports /\ o \notin Hosts /\ due[o] # <<>>
      /\ State.queue = queue /\ State.size = size /\ State.send = send
      /\ State.sending = sending /\ State.due = due
  BY LinkPorts DEF IInv, OutputCompletes, State, Ports
<1>2. s \in Seq(Packet)
  BY <1>1, PortTypes
<1>3. PICK l \in Seq(Packet) : l = Kept(o) /\ Len(l) <= Len(s)
  BY <1>2, KeptFits
<1> DEFINE k == Mtu * Len(l)
           swept == Swept(State, o, l, k, NoPacket, u)
           rest == Tail(l)
           z == swept.size[o] - Mtu
           left == Held(swept, o, rest, z)
           served == ServeOn(left, o)
<1>4. IF l = <<>> THEN Become(swept) ELSE CompletedService(Credited(o), served)
  BY <1>3 DEF OutputCompletes, Swept, Held, State
<1>5. /\ PortOK(o, s, size[o], send[o], sending[o], due[o])
      /\ due[o] \in Seq(0..TxTime) /\ send[o] \in Sends
  BY <1>1, PortTypes
<1>6. u = <<>>
  <2>1. Len(due[o]) = IF sending[o] = NoPacket THEN 0 ELSE 1
    BY <1>5 DEF PortOK
  <2> QED
    BY <1>1, <1>5, <2>1
<1>7. swept = Put(State, o, l, k, NoPacket, u)
  BY <1>1, SweptFields
<1> HIDE DEF u, swept
<1>8. PortOK(o, l, k, send[o], NoPacket, u)
  <2>1. k = Mtu * Len(l)
    OBVIOUS
  <2> HIDE DEF k
  <2> QED
    BY <1>2, <1>3, <1>5, <1>6, <2>1, IdleOutputOK
<1> HIDE DEF k
<1>9. /\ PortsOK(swept) /\ swept.queue[o] = l /\ swept.size[o] = k
      /\ swept.sending[o] = NoPacket /\ swept.due[o] = u /\ swept.send = send
      /\ SameBut(swept, State, o)
  BY <1>1, <1>7, <1>8, SetOK, PutSame
<1>10. Awake(State) /\ ExitsReady(State)
  BY DEF NoneAsleep
<1>11. CASE l = <<>>
  <2>1. Become(swept)
    BY <1>4, <1>11
  <2>2. AwakeAt(swept, o)
    BY <1>1, <1>9, <1>11 DEF AwakeAt, More
  <2>3. Awake(swept)
    BY <1>1, <1>9, <1>10, <2>2, AwakeBut DEF Awake
  <2>4. ExitsReady(swept)
    BY <1>1, <1>9, <1>10 DEF ExitsReady
  <2> QED
    BY <1>9, <2>1, <2>3, <2>4, AwakeAfter
<1>12. CASE l # <<>>
  <2>1. CompletedService(Credited(o), served)
    BY <1>4, <1>12
  <2>2. rest \in Seq(Packet) /\ Len(rest) = Len(l) - 1 /\ Len(l) \in Nat
    BY <1>12
  <2>3. PortOK(o, rest, z, send[o], NoPacket, u)
    <3> DEFINE n == Len(l)
               m == Len(rest)
    <3>1. z = Mtu * n - Mtu
      BY <1>9 DEF k
    <3>2. \A a, b \in Int : a * b - a = a * (b - 1)
      OBVIOUS
    <3>3. m = n - 1 /\ n \in Nat /\ m \in Nat /\ Mtu \in Nat
      BY <2>2, PfcAssumption
    <3> HIDE DEF n, m
    <3>4. z = Mtu * m
      BY <3>1, <3>2, <3>3
    <3> HIDE DEF z, rest
    <3>5. z = Mtu * Len(rest)
      BY <3>4 DEF m
    <3> QED
      BY <1>5, <1>6, <2>2, <3>5, IdleOutputOK
  <2> HIDE DEF z, rest
  <2>4. left = Put(swept, o, rest, z, NoPacket, u)
    <3>1. left = Put(swept, o, rest, z, swept.sending[o], swept.due[o])
      BY <1>1, <1>9, HeldFields
    <3> QED
      BY <1>9, <3>1
  <2> HIDE DEF left
  <2>5. /\ PortsOK(left) /\ left.sending[o] = NoPacket /\ SameBut(left, State, o)
        /\ left.send = send
    <3>1. PortOK(o, rest, z, swept.send[o], NoPacket, u)
      BY <1>9, <2>3
    <3>2. PortsOK(left) /\ left.sending[o] = NoPacket /\ left.send = send
      BY <1>1, <1>9, <2>4, <3>1, SetOK
    <3>3. SameBut(left, swept, o)
      BY <1>1, <1>9, <2>4, PutSame
    <3> QED
      BY <1>9, <3>2, <3>3, SameTwice
  <2>6. PortsOK(served) /\ Awake(served) /\ ExitsReady(served)
    <3>1. /\ PortsOK(served) /\ SameBut(served, left, o) /\ AwakeAt(served, o)
          /\ \A y \in Ports : served.send[y] = "READY" <=> left.send[y] = "READY"
      BY <1>1, <2>5, ServeOnOK, ServeOnSame, ServeOnAwake
    <3> HIDE DEF served
    <3>2. SameBut(served, State, o)
      BY <2>5, <3>1, SameTwice
    <3>3. Awake(served)
      BY <1>1, <1>10, <3>1, <3>2, AwakeBut DEF Awake
    <3>4. ExitsReady(served)
      BY <1>1, <1>10, <2>5, <3>1, LinkPorts DEF ExitsReady
    <3> QED
      BY <3>1, <3>3, <3>4
  <2> HIDE DEF served
  <2>7. PICK c \in Links : c = Credited(o)
    <3>1. vq[o] \in Seq(Links) /\ Len(s) <= Len(vq[o])
      BY DEF IInv, InputsKnown
    <3>2. Len(l) # 0 /\ Len(s) \in Nat
      BY <1>2, <1>12
    <3>3. Len(vq[o]) \in Nat /\ Len(vq[o]) # 0
      BY <1>3, <2>2, <3>1, <3>2
    <3>4. Head(vq[o]) \in Links
      BY <3>1, <3>3
    <3> QED
      BY <3>4 DEF Credited
  <2> DEFINE resumed == ReceiveResume(served, c)
  <2>8. PortsOK(resumed) /\ Awake(resumed) /\ ExitsReady(resumed)
    <3>1. c \in Ports /\ c \notin Exits
      BY LinkPorts
    <3>2. PortsOK(resumed) /\ SameBut(resumed, served, c) /\ AwakeAt(resumed, c)
      BY <2>6, <3>1, ReceiveResumeOK, ResumeSame, ResumeAwake
    <3> HIDE DEF resumed
    <3> QED
      BY <2>6, <3>1, <3>2, AwakeBut, ExitsBut DEF Awake
  <2>9. Become(resumed) \/ Become(served)
    BY <2>1, <2>7 DEF CompletedService
  <2> HIDE DEF resumed
  <2> QED
    BY <2>6, <2>8, <2>9, AwakeAfter
<1> QED
  BY <1>11, <1>12

LEMMA TickAwake ==
    ASSUME IInv, NoneAsleep, Tick
    PROVE  NoneAsleep'
<1>1. /\ PortsOK(State) /\ UNCHANGED <<queue, size, send>>
      /\ \A x \in Ports : due'[x] = [i \in DOMAIN due[x] |-> due[x][i] - 1]
      /\ \A x \in Ports : due[x] # <<>> => Head(due[x]) # 0
  BY DEF IInv, Tick, DueNow
<1>2. State.queue = queue /\ State.size = size /\ State.send = send /\ State.due = due
  BY DEF State
<1>3. ASSUME NEW x \in Ports
      PROVE  due'[x] = <<>> => due[x] = <<>>
  <2> DEFINE u == due[x]
             v == due'[x]
  <2>1. u \in Seq(0..TxTime) /\ Sorted(u) /\ TxTime \in Nat /\ v = [i \in DOMAIN u |-> u[i] - 1]
        /\ (u # <<>> => Head(u) # 0)
    BY <1>1, <1>2, PortTypes, PfcAssumption
  <2> HIDE DEF u, v
  <2>2. v \in Seq(0..TxTime) /\ Len(v) = Len(u)
    BY <2>1, SortedAged
  <2>3. v = <<>> => u = <<>>
    BY <2>1, <2>2
  <2> QED
    BY <2>3 DEF u, v
<1>4. /\ State'.queue = queue /\ State'.size = size /\ State'.send = send
      /\ State'.due = due'
  BY <1>1 DEF State
<1>5. ASSUME NEW x \in Ports
      PROVE  AwakeAt(State, x)'
  <2>1. AwakeAt(State, x)
    BY DEF NoneAsleep, Awake
  <2> QED
    BY <1>2, <1>3, <1>4, <2>1 DEF AwakeAt, More
<1>6. ExitsReady(State)'
  BY <1>2, <1>4 DEF NoneAsleep, ExitsReady
<1> QED
  BY <1>5, <1>6 DEF NoneAsleep, Awake

LEMMA NextAwake ==
    ASSUME IInv, NoneAsleep, [Next]_vars
    PROVE  NoneAsleep'
<1>1. CASE Next
  BY <1>1, HostSendsAwake, HostCompletesAwake, ReachesInputAwake, ReachesOutputAwake,
     OutputCompletesAwake, TickAwake DEF Next, Happens
<1>2. CASE UNCHANGED vars
  <2>1. UNCHANGED <<queue, size, send, sending, due>>
    BY <1>2 DEF vars, portVars
  <2>2. State' = State
    BY <2>1 DEF State
  <2> QED
    BY <2>2 DEF NoneAsleep, Awake, AwakeAt, More, ExitsReady
<1> QED
  BY <1>1, <1>2

\* Nothing is pending in the event list: no transmission, and nothing in a pipe.
Resting ==
    /\ \A x \in Ports : due[x] = <<>>
    /\ \A x \in Links : link[x] = <<>> /\ cross[x] = <<>>

\* Of any inputs that wait for each other's switches, one has only packets that leave by an
\* output that waits for none of them.
NoCircle ==
    \A S \in SUBSET Links : S # {} =>
        \E x \in S : \A d \in Exits, h \in Hosts : x \in Route[d][h] => Forward[x][d] \notin S

\* A paused input has a packet at an output that waits as well.
LEMMA PausedWaits ==
    ASSUME IInv, ListsOK, NoneAsleep, Resting, NEW x \in Links, recv[x] = "PAUSED"
    PROVE  \E d \in Exits, h \in Hosts :
              /\ x \in Route[d][h] /\ Forward[x][d] \in Links
              /\ recv[Forward[x][d]] = "PAUSED"
<1> DEFINE E == Entries(vq, x)
           c == Cardinality(E)
<1>1. /\ bytes[x] >= Low /\ IsFiniteSet(E) /\ bytes[x] = Mtu * (Len(cross[x]) + c)
      /\ Low \in Nat \ {0} /\ Mtu \in Nat
  BY PfcAssumption DEF IInv, PauseAgreed, BytesCounted
<1>2. Len(cross[x]) = 0
  BY DEF Resting
<1>3. E # {}
  <2> SUFFICES ASSUME E = {}
               PROVE  FALSE
    OBVIOUS
  <2>1. c = 0
    BY FS_EmptySet
  <2> HIDE DEF c
  <2>2. bytes[x] = Mtu * (0 + 0)
    BY <1>1, <1>2, <2>1
  <2> QED
    BY <1>1, <2>2
<1>4. PICK e \in E : TRUE
  BY <1>3
<1> DEFINE o == e[1]
           i == e[2]
           p == queue[o][i]
<1>5. o \in Outputs /\ i \in 1..Len(vq[o]) /\ vq[o][i] = x
  BY <1>4 DEF Entries
<1>6. queue[o] \in Seq(Packet) /\ i \in 1..Len(queue[o]) /\ CameBy(x, p, o)
  BY <1>5 DEF ListsOK, ListOK
<1> HIDE DEF o, i, E
<1>7. p \in Packet /\ queue[o] # <<>>
  BY <1>6
<1>8. p.exit \in Exits /\ p.src \in Hosts
  BY <1>7 DEF Packet
<1>9. x \in Route[p.exit][p.src] /\ Forward[x][p.exit] = o
  BY <1>6 DEF CameBy
<1>10. send[o] # "READY"
  <2>1. AwakeAt(State, o) /\ o \in Ports /\ o \notin Hosts
    BY <1>5, LinkPorts DEF NoneAsleep, Awake, Ports
  <2>2. State.queue = queue /\ State.send = send /\ State.due = due
    BY DEF State
  <2> QED
    BY <1>7, <2>1, <2>2 DEF AwakeAt, More, Resting
<1>11. o \in Links
  <2>1. o \notin Exits
    BY <1>10 DEF NoneAsleep, ExitsReady, State
  <2> QED
    BY <1>5, <2>1 DEF Links
<1>12. recv[o] = "PAUSED"
  BY <1>10, <1>11 DEF IInv, PauseAgreed
<1> QED
  BY <1>8, <1>9, <1>11, <1>12

LEMMA RestDrained ==
    ASSUME NoCircle, IInv, ListsOK, NoneAsleep, Resting
    PROVE  Somewhere = arrived /\ \A x \in Links : recv[x] = "READY"
<1> DEFINE S == {x \in Links : recv[x] = "PAUSED"}
<1>1. S = {}
  <2> SUFFICES ASSUME S # {}
               PROVE  FALSE
    OBVIOUS
  <2>1. PICK x \in S : \A d \in Exits, h \in Hosts : x \in Route[d][h] => Forward[x][d] \notin S
    BY DEF NoCircle
  <2>2. PICK d \in Exits, h \in Hosts :
           /\ x \in Route[d][h] /\ Forward[x][d] \in Links
           /\ recv[Forward[x][d]] = "PAUSED"
    BY PausedWaits
  <2> QED
    BY <2>1, <2>2
<1>2. \A x \in Links : recv[x] = "READY"
  BY <1>1 DEF IInv
<1>3. /\ State.queue = queue /\ State.size = size /\ State.send = send
      /\ State.sending = sending /\ State.due = due
  BY DEF State
<1>4. \A x \in Ports : send[x] = "READY"
  <2>1. \A x \in Links : send[x] = "READY"
    BY <1>2 DEF IInv, PauseAgreed
  <2> QED
    BY <1>3, <2>1 DEF NoneAsleep, ExitsReady, Links, Ports
<1>5. ASSUME NEW x \in Ports
      PROVE  queue[x] = <<>> /\ (x \in Hosts => sending[x] = NoPacket)
  <2>1. ~More(State, x)
    BY <1>3, <1>4 DEF NoneAsleep, Awake, AwakeAt, Resting
  <2>2. CASE x \in Outputs
    BY <1>3, <2>1, <2>2, LinkPorts DEF More
  <2>3. CASE x \in Hosts
    <3>1. /\ PortOK(x, queue[x], size[x], send[x], sending[x], due[x])
          /\ queue[x] \in Seq(Packet) /\ size[x] \in Nat
      BY <1>3, PortTypes DEF IInv
    <3> DEFINE m == Mtu * Len(queue[x])
    <3>2. size[x] = 0
      BY <1>3, <2>1, <2>3, <3>1 DEF More
    <3>3. size[x] >= m + (IF sending[x] = NoPacket THEN 0 ELSE Mtu)
      BY <2>3, <3>1 DEF PortOK
    <3>4. m \in Nat /\ (m = 0 <=> queue[x] = <<>>) /\ Mtu \in Nat /\ Mtu > 0
      BY <3>1, CountOfQueue, PfcAssumption
    <3> HIDE DEF m
    <3>5. sending[x] = NoPacket
      BY <3>2, <3>3, <3>4
    <3>6. m = 0
      BY <3>2, <3>3, <3>4, <3>5
    <3> QED
      BY <3>4, <3>5, <3>6
  <2> QED
    BY <2>2, <2>3 DEF Ports
<1>6. Somewhere = arrived
  <2>1. \A x \in Ports : ToSet(queue[x]) = {}
    BY <1>5 DEF ToSet
  <2>2. \A h \in Hosts : sending[h] = NoPacket
    BY <1>5 DEF Ports
  <2>3. \A x \in Links : DOMAIN link[x] = {} /\ DOMAIN cross[x] = {}
    BY DEF Resting
  <2> QED
    BY <2>1, <2>2, <2>3 DEF Somewhere
<1> QED
  BY <1>2, <1>6

\* If no circle of inputs may wait for each other and nothing is dropped, then whatever the
\* PAUSEs, and whenever they come, the network comes to rest only when every packet has
\* arrived and every pause is lifted.
RestsDrained == Resting => Somewhere = arrived /\ \A x \in Links : recv[x] = "READY"

\* Without such a circle pauses never hold each other up for ever (the safety core of
\* Drained).
THEOREM NoDeadlock ==
    ASSUME NoCircle, Hosts \subseteq Budgeted
    PROVE  Spec => []RestsDrained
<1>1. Init => FlowsInv /\ ListsOK /\ NoneAsleep
  BY InitFlows, InitLists, InitAwake
<1>2. /\ IInv /\ IInv' /\ FlowsInv /\ ListsOK /\ NoneAsleep /\ [Next]_vars
      => FlowsInv' /\ ListsOK' /\ NoneAsleep'
  BY NextFlows, NextLists, NextAwake
<1>3. IInv /\ ListsOK /\ NoneAsleep => RestsDrained
  BY RestDrained DEF RestsDrained
<1> QED
  BY <1>1, <1>2, <1>3, PfcInvariance, PTL DEF Spec
==================================================================================
