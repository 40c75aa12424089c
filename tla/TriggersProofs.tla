----------------------------- MODULE TriggersProofs ------------------------------
(* Proofs about FlowTriggers, for every number of flows and triggers, every set of *)
(* connection matrices, durations and end of the simulation.                       *)
EXTENDS FlowTriggers, FiniteSetTheorems, FunctionTheorems, TLAPS

USE EndTimeAssumption, MatrixAssumption

-----------------------------------------------------------------------------
(* The inductive invariant *)

Entry == [time : 0..(EndTime - 1), src : {"start", "finish"} \X Flows]

Sources(q) == {q[i].src : i \in DOMAIN q}

\* What is pending in q is in order of time, none of it before n, and no source is
\* there twice.
Agenda(q, n) ==
    /\ q \in Seq(Entry)
    /\ \A i, j \in DOMAIN q : i <= j => q[i].time <= q[j].time
    /\ \A i, j \in DOMAIN q : q[i].src = q[j].src => i = j
    /\ \A i \in DOMAIN q : n <= q[i].time

\* A flow that waits for its time has no trigger; one that runs has not finished.
SourcesOK(S, st, fin) ==
    \A f \in Flows : /\ <<"start", f>> \in S  => st[f] = 0 /\ matrix.trigger[f] = 0
                     /\ <<"finish", f>> \in S => st[f] = 1 /\ fin[f] = -1

\* On the stack are flows that wait for a trigger, each of them once.
StackOK(s, st) ==
    /\ s \in Seq(Flows)
    /\ \A i, j \in DOMAIN s : s[i] = s[j] => i = j
    /\ \A f \in ToSet(s) : st[f] = 0 /\ matrix.trigger[f] # 0

\* A flow that has finished has been started.
FlowsOK(n, st, fin) ==
    \A f \in Flows : fin[f] >= 0 => st[f] = 1 /\ fin[f] <= n

\* The n activations of trigger t have released flow f.
Freed(t, n, f) ==
    /\ matrix.type[t] = "oneshot"   => n >= 1
    /\ matrix.type[t] = "multishot" => \E i \in 1..n : i \in DOMAIN Targets(t) /\ Targets(t)[i] = f
    /\ matrix.type[t] = "barrier"   => n = matrix.count[t]

\* Who has been started or is about to be, of the flows with a trigger, has been released.
FreedOK(s, st, fd) ==
    \A f \in Flows : (st[f] = 1 \/ f \in ToSet(s)) /\ matrix.trigger[f] # 0 =>
        Freed(matrix.trigger[f], fd[matrix.trigger[f]], f)

\* A trigger has been activated by each flow that has finished.
FiredOK(fd, fin) ==
    \A t \in Trigs : fd[t] = Cardinality({f \in Activators(t) : fin[f] >= 0})

\* Flow f is started at time at by the one of those that activate its trigger that
\* finishes then, and none that activates a barrier finishes later.
AtOnce(f, at, fin) ==
    LET t == matrix.trigger[f] IN
    /\ \E g \in Activators(t) : fin[g] = at
    /\ matrix.type[t] = "barrier" => \A g \in Activators(t) : fin[g] <= at

AtOnceOK(n, s, st, at, fin) ==
    \A f \in Flows : matrix.trigger[f] # 0 =>
        /\ st[f] = 1 => AtOnce(f, at[f], fin)
        /\ f \in ToSet(s) => AtOnce(f, n, fin)

IInv ==
    /\ matrix \in Matrices /\ now \in 0..(EndTime - 1)
    /\ fired \in [Trigs -> Nat] /\ starts \in [Flows -> {0, 1}]
    /\ startTime \in [Flows -> Nat] /\ finishTime \in [Flows -> Nat \cup {-1}]
    /\ Agenda(pending, now)
    /\ SourcesOK(Sources(pending), starts, finishTime)
    /\ StackOK(triggers, starts)
    /\ FlowsOK(now, starts, finishTime)
    /\ FreedOK(triggers, starts, fired)
    /\ FiredOK(fired, finishTime)
    /\ AtOnceOK(now, triggers, starts, startTime, finishTime)

-----------------------------------------------------------------------------
(* Naturals up to a bound *)

\* A set of natural numbers that is not empty has a least element.
LEMMA LeastNatural ==
    ASSUME NEW S \in SUBSET Nat, S # {}
    PROVE  \E m \in S : \A k \in S : m <= k
<1> DEFINE R == StrictSubsetOrdering(Nat)
           T == {1..n : n \in S}
<1>1. IsWellFoundedOn(R, FiniteSubsetsOf(Nat))
  BY FS_StrictSubsetOrderingWellFounded
<1>2. T \subseteq FiniteSubsetsOf(Nat) /\ T # {}
  <2>1. \A n \in Nat : IsFiniteSet(1..n) /\ 1..n \subseteq Nat
    BY FS_Interval
  <2> QED
    BY <2>1 DEF FiniteSubsetsOf
<1>3. PICK t \in T : \A u \in T : ~(<<u, t>> \in R)
  <2> HIDE DEF R, T
  <2> QED
    BY <1>1, <1>2, WFMin
<1>4. PICK m \in S : t = 1..m
  OBVIOUS
<1>5. ASSUME NEW k \in S, k < m
      PROVE  FALSE
  <2>1. 1..k \subseteq 1..m /\ m \in 1..m /\ m \notin 1..k
    BY <1>5
  <2>2. <<1..k, 1..m>> \in R
    BY <2>1 DEF StrictSubsetOrdering
  <2> QED
    BY <1>3, <1>4, <2>2
<1> QED
  BY <1>5

\* A set that holds 0, and each number up to L after the one before it, holds them all.
LEMMA UpTo ==
    ASSUME NEW L \in Nat, NEW S, 0 \in S,
           \A n \in 1..L : n - 1 \in S => n \in S
    PROVE  \A n \in 0..L : n \in S
<1> DEFINE bad == {n \in 0..L : n \notin S}
<1> SUFFICES ASSUME bad # {}
             PROVE  FALSE
  OBVIOUS
<1>1. PICK m \in bad : \A k \in bad : m <= k
  <2>1. bad \in SUBSET Nat
    OBVIOUS
  <2> HIDE DEF bad
  <2> QED
    BY <2>1, LeastNatural
<1>2. m \in 1..L /\ m - 1 \in 0..L /\ ~(m <= m - 1)
  OBVIOUS
<1>3. m - 1 \in S
  BY <1>1, <1>2
<1> QED
  BY <1>2, <1>3

Solves(f, L, T, base, step) ==
    f \in [0..L -> T] /\ f[0] = base /\ \A n \in 1..L : f[n] = step[n][f[n - 1]]

\* A recursion over 0..L whose step stays in T has a solution, with values in T.
LEMMA Recursion ==
    ASSUME NEW L \in Nat, NEW T, NEW base \in T, NEW step \in [1..L -> [T -> T]]
    PROVE  \E f : Solves(f, L, T, base, step)
<1> DEFINE Good(f, m) == /\ f \in [0..m -> T] /\ f[0] = base
                         /\ \A n \in 1..m : f[n] = step[n][f[n - 1]]
           S == {m \in 0..L : \E f : Good(f, m)}
<1>1. 0 \in S
  <2> DEFINE f == [n \in 0..0 |-> base]
  <2>1. Good(f, 0)
    OBVIOUS
  <2> HIDE DEF f
  <2> QED
    BY <2>1
<1>2. ASSUME NEW m \in 1..L, m - 1 \in S
      PROVE  m \in S
  <2>1. PICK f : Good(f, m - 1)
    BY <1>2
  <2> DEFINE v == step[m][f[m - 1]]
             g == [n \in 0..m |-> IF n = m THEN v ELSE f[n]]
  <2>2. m \in Nat /\ m >= 1 /\ m \in 0..L /\ m - 1 \in 0..(m - 1)
    OBVIOUS
  <2>3. f[m - 1] \in T
    BY <2>1, <2>2
  <2>4. v \in T
    BY <2>3
  <2> HIDE DEF v
  <2>5. g \in [0..m -> T]
    <3>1. \A n \in 0..m : n # m => n \in 0..(m - 1)
      BY <2>2
    <3> QED
      BY <2>1, <2>4, <3>1
  <2>6. g[0] = base
    <3>1. 0 \in 0..m /\ 0 # m
      BY <2>2
    <3> QED
      BY <2>1, <3>1
  <2>7. ASSUME NEW n \in 1..m
        PROVE  g[n] = step[n][g[n - 1]]
    <3>1. n \in 0..m /\ n - 1 \in 0..m /\ n - 1 # m /\ (n # m => n \in 1..(m - 1))
      BY <2>2
    <3>2. g[n - 1] = f[n - 1]
      BY <3>1
    <3>3. CASE n = m
      <4>1. g[n] = v
        BY <3>1, <3>3
      <4> QED
        BY <3>2, <3>3, <4>1 DEF v
    <3>4. CASE n # m
      <4>1. g[n] = f[n]
        BY <3>1, <3>4
      <4> QED
        BY <2>1, <3>1, <3>2, <3>4, <4>1
    <3> QED
      BY <3>3, <3>4
  <2>8. Good(g, m)
    <3> HIDE DEF g
    <3> QED
      BY <2>5, <2>6, <2>7
  <2> QED
    BY <2>2, <2>8
<1>3. L \in S
  <2> HIDE DEF S
  <2>1. \A n \in 0..L : n \in S
    BY <1>1, <1>2, UpTo
  <2> QED
    BY <2>1
<1> QED
  BY <1>3 DEF Solves

-----------------------------------------------------------------------------
(* The event list *)

\* What sourceIsPending makes of a list q, in order or not: src comes behind those to
\* be woken by then, unless it is left out.
LEMMA Inserted ==
    ASSUME NEW q \in Seq(Entry), NEW src \in {"start", "finish"} \X Flows, NEW when \in Nat,
           NEW r, r = SourceIsPending(q, src, when)
    PROVE  /\ r \in Seq(Entry)
           /\ when >= EndTime => r = q
           /\ when < EndTime =>
                 \E k \in 0..Len(q) :
                    /\ k > 0 => q[k].time <= when
                    /\ k < Len(q) => q[k + 1].time > when
                    /\ Len(r) = Len(q) + 1
                    /\ \A i \in 1..Len(r) :
                          r[i] = IF i <= k THEN q[i]
                                 ELSE IF i = k + 1 THEN [time |-> when, src |-> src]
                                 ELSE q[i - 1]
<1> DEFINE L == Len(q)
           e == [time |-> when, src |-> src]
           Fits(k) == (k > 0 => q[k].time <= when) /\ (k < L => q[k + 1].time > when)
           k == CHOOSE k \in 0..L : Fits(k)
<1>1. L \in Nat /\ \A i \in 1..L : q[i] \in Entry /\ q[i].time \in Nat
  <2>1. \A x \in Entry : x.time \in Nat
    BY DEF Entry
  <2>2. L \in Nat /\ \A i \in 1..L : q[i] \in Entry
    OBVIOUS
  <2> QED
    BY <2>1, <2>2
<1>2. CASE when >= EndTime
  BY <1>2 DEF SourceIsPending
<1>3. CASE when < EndTime
  <2>1. r = InsertAt(q, k + 1, e)
    <3>1. r = Insert(q, src, when)
      BY <1>3 DEF SourceIsPending
    <3> QED
      BY <3>1, Zenon DEF Insert
  <2>2. e \in Entry
    BY <1>3 DEF Entry
  <2>3. \E j \in 0..L : Fits(j)
    <3> DEFINE S == {j \in 0..L : j < L => q[j + 1].time > when}
    <3>1. L \in S /\ S \in SUBSET Nat
      BY <1>1
    <3>2. PICK j \in S : \A i \in S : j <= i
      <4> HIDE DEF S
      <4> QED
        BY <3>1, LeastNatural
    <3>3. j \in 0..L /\ (j < L => q[j + 1].time > when)
      OBVIOUS
    <3>4. ASSUME j > 0
          PROVE  q[j].time <= when
      <4>1. j - 1 \in 0..L /\ ~(j <= j - 1) /\ j - 1 < L /\ j - 1 + 1 = j /\ j \in 1..L
        BY <1>1, <3>3, <3>4
      <4>2. j - 1 \notin S
        <5> HIDE DEF S
        <5> QED
          BY <3>2, <4>1
      <4>3. ~(q[j].time > when)
        BY <4>1, <4>2
      <4> QED
        BY <1>1, <4>1, <4>3
    <3> QED
      BY <3>3, <3>4
  <2>4. k \in 0..L /\ Fits(k)
    <3> HIDE DEF Fits
    <3> QED
      BY <2>3, SMTT(60)
  <2> HIDE DEF k, e
  <2> DEFINE a == SubSeq(q, 1, k)
             b == SubSeq(q, k + 1, L)
  <2>5. r = (a \o <<e>>) \o b
    <3>1. (k + 1) - 1 = k
      BY <2>4
    <3>2. r = (SubSeq(q, 1, (k + 1) - 1) \o <<e>>) \o b
      BY <2>1, Zenon DEF InsertAt
    <3> QED
      BY <3>1, <3>2
  <2>6. /\ a \in Seq(Entry) /\ Len(a) = k
        /\ \A i \in 1..k : a[i] = q[i]
    BY <1>1, <2>4
  <2>7. /\ b \in Seq(Entry) /\ Len(b) = L - k
        /\ \A i \in 1..(L - k) : b[i] = q[k + i]
    BY <1>1, <2>4
  <2> HIDE DEF a, b
  <2> DEFINE c == a \o <<e>>
  <2>8. /\ c \in Seq(Entry) /\ Len(c) = k + 1
        /\ \A i \in 1..(k + 1) : c[i] = IF i <= k THEN q[i] ELSE e
    BY <1>1, <2>2, <2>4, <2>6
  <2> HIDE DEF c
  <2>9. r = c \o b
    BY <2>5 DEF c
  <2>10. r \in Seq(Entry) /\ Len(r) = L + 1
    <3>1. k \in Nat /\ L \in Nat /\ k + 1 + (L - k) = L + 1
      BY <1>1, <2>4
    <3>2. r \in Seq(Entry) /\ Len(r) = Len(c) + Len(b)
      BY <2>7, <2>8, <2>9
    <3> QED
      BY <2>7, <2>8, <3>1, <3>2
  <2>11. \A i \in 1..(L + 1) : r[i] = IF i <= k THEN q[i] ELSE IF i = k + 1 THEN e ELSE q[i - 1]
    <3> TAKE i \in 1..(L + 1)
    <3>1. r[i] = IF i <= k + 1 THEN c[i] ELSE b[i - (k + 1)]
      <4>1. /\ c \in Seq(Entry) /\ b \in Seq(Entry)
            /\ Len(c) = k + 1 /\ Len(b) = L - k
        BY <2>7, <2>8
      <4>2. i \in 1..(Len(c) + Len(b))
        BY <1>1, <2>4, <4>1, SMTT(60)
      <4>3. (c \o b)[i] = IF i <= Len(c) THEN c[i] ELSE b[i - Len(c)]
        BY <4>1, <4>2, SMTT(60)
      <4> QED
        BY <2>9, <4>1, <4>3
    <3>2. CASE i <= k + 1
      <4>1. i \in 1..(k + 1) /\ r[i] = c[i] /\ (i > k => i = k + 1)
        BY <1>1, <2>4, <3>1, <3>2
      <4>2. c[i] = IF i <= k THEN q[i] ELSE e
        BY <2>8, <4>1
      <4> QED
        BY <2>4, <4>1, <4>2
    <3>3. CASE i > k + 1
      <4>1. i - (k + 1) \in 1..(L - k) /\ k + (i - (k + 1)) = i - 1
        BY <1>1, <2>4, <3>3
      <4>2. b[i - (k + 1)] = q[i - 1]
        BY <2>7, <4>1
      <4> QED
        BY <2>4, <3>1, <3>3, <4>2
    <3> QED
      BY <1>1, <2>4, <3>2, <3>3
  <2> DEFINE Placed(j) ==
                /\ j > 0 => q[j].time <= when
                /\ j < L => q[j + 1].time > when
                /\ Len(r) = L + 1
                /\ \A i \in 1..Len(r) : r[i] = IF i <= j THEN q[i]
                                               ELSE IF i = j + 1 THEN e ELSE q[i - 1]
  <2>12. k \in 0..L /\ Placed(k)
    BY <2>4, <2>10, <2>11, Zenon
  <2>13. \E j \in 0..L : Placed(j)
    <3> HIDE DEF Placed
    <3> QED
      BY <2>12
  <2>14. ~(when >= EndTime)
    BY <1>3
  <2> QED
    BY <2>10, <2>13, <2>14, Zenon DEF e
<1> QED
  BY <1>1, <1>2, <1>3

\* A source that is not pending may be put on the agenda.
LEMMA AgendaInsert ==
    ASSUME NEW q, NEW n \in Nat, Agenda(q, n), NEW src \in {"start", "finish"} \X Flows,
           NEW when \in Nat, n <= when, src \notin Sources(q),
           NEW r, r = SourceIsPending(q, src, when)
    PROVE  Agenda(r, n) /\ Sources(r) \subseteq Sources(q) \cup {src}
<1> DEFINE L == Len(q)
           e == [time |-> when, src |-> src]
<1>1. /\ q \in Seq(Entry) /\ L \in Nat
      /\ \A i \in 1..L : q[i] \in Entry /\ q[i].time \in Nat /\ q[i].src # src /\ n <= q[i].time
      /\ \A i, j \in 1..L : i <= j => q[i].time <= q[j].time
      /\ \A i, j \in 1..L : q[i].src = q[j].src => i = j
  <2>1. \A x \in Entry : x.time \in Nat
    BY DEF Entry
  <2>2. q \in Seq(Entry)
    BY DEF Agenda
  <2>3. L \in Nat /\ DOMAIN q = 1..L /\ \A i \in 1..L : q[i] \in Entry
    BY <2>2
  <2> QED
    BY <2>1, <2>2, <2>3, Zenon DEF Agenda, Sources
<1>2. CASE when >= EndTime
  <2>1. r = q
    BY <1>2 DEF SourceIsPending
  <2> QED
    BY <2>1
<1>3. CASE when < EndTime
  <2>1. r \in Seq(Entry)
    BY <1>1, Inserted
  <2>2. PICK k \in 0..L :
            /\ k > 0 => q[k].time <= when
            /\ k < L => q[k + 1].time > when
            /\ Len(r) = L + 1
            /\ \A i \in 1..Len(r) : r[i] = IF i <= k THEN q[i]
                                           ELSE IF i = k + 1 THEN e ELSE q[i - 1]
    <3>1. q \in Seq(Entry)
      BY <1>1
    <3> QED
      BY <1>3, <3>1, Inserted
  <2>3. DOMAIN r = 1..(L + 1)
    BY <2>1, <2>2
  <2> DEFINE Old(i) == IF i <= k THEN i ELSE i - 1
  \* Every entry but the new one is an old one, in the old order, and on its side.
  <2>4. \A i \in 1..(L + 1) : i # k + 1 =>
            /\ Old(i) \in 1..L /\ r[i] = q[Old(i)]
            /\ i <= k => q[i].time <= when
            /\ i > k => q[Old(i)].time > when
    <3> SUFFICES ASSUME NEW i \in 1..(L + 1), i # k + 1
                 PROVE  /\ Old(i) \in 1..L /\ r[i] = q[Old(i)]
                        /\ i <= k => q[i].time <= when
                        /\ i > k => q[Old(i)].time > when
      OBVIOUS
    <3>1. Old(i) \in 1..L
      BY <1>1
    <3>2. r[i] = q[Old(i)]
      BY <1>1, <2>2
    <3>3. ASSUME i <= k
          PROVE  q[i].time <= when
      <4>1. i \in 1..L /\ k \in 1..L /\ k > 0
        BY <1>1, <3>3
      <4>2. q[i].time <= q[k].time /\ q[k].time <= when /\ q[i].time \in Nat /\ q[k].time \in Nat
        BY <1>1, <2>2, <3>3, <4>1
      <4> QED
        BY <4>2, SMTT(60)
    <3>4. ASSUME i > k
          PROVE  q[Old(i)].time > when
      <4>1. Old(i) \in 1..L /\ k + 1 \in 1..L /\ k < L /\ k + 1 <= Old(i)
        BY <1>1, <3>4
      <4> HIDE DEF Old
      <4>2. /\ q[k + 1].time <= q[Old(i)].time /\ q[k + 1].time > when
            /\ q[k + 1].time \in Nat /\ q[Old(i)].time \in Nat
        BY <1>1, <2>2, <4>1
      <4> QED
        BY <4>2, SMTT(60)
    <3> QED
      BY <3>1, <3>2, <3>3, <3>4
  <2>5. r[k + 1] = e
    BY <1>1, <2>2
  <2>6. \A i, j \in 1..(L + 1) : i # k + 1 /\ j # k + 1 =>
            (i <= j => Old(i) <= Old(j)) /\ (Old(i) = Old(j) => i = j)
    BY <1>1
  <2> HIDE DEF Old
  <2>7. ASSUME NEW i \in 1..(L + 1), NEW j \in 1..(L + 1), i <= j
        PROVE  r[i].time <= r[j].time
    <3>1. CASE i = k + 1 /\ j = k + 1
      BY <2>5, <3>1
    <3>2. CASE i = k + 1 /\ j # k + 1
      <4>1. r[i].time = when /\ j > k
        BY <2>5, <2>7, <3>2
      <4>2. r[j].time > when /\ r[j].time \in Nat
        BY <1>1, <2>4, <3>2, <4>1
      <4> QED
        BY <4>1, <4>2, SMTT(60)
    <3>3. CASE i # k + 1 /\ j = k + 1
      <4>1. r[j].time = when /\ i <= k
        BY <2>5, <2>7, <3>3
      <4>2. r[i] = q[i]
        BY <2>2, <4>1
      <4> QED
        BY <2>4, <3>3, <4>1, <4>2
    <3>4. CASE i # k + 1 /\ j # k + 1
      <4>1. /\ Old(i) \in 1..L /\ Old(j) \in 1..L /\ Old(i) <= Old(j)
            /\ r[i] = q[Old(i)] /\ r[j] = q[Old(j)]
        BY <2>4, <2>6, <2>7, <3>4
      <4> QED
        BY <1>1, <4>1
    <3> QED
      BY <3>1, <3>2, <3>3, <3>4
  <2>8. ASSUME NEW i \in 1..(L + 1), NEW j \in 1..(L + 1), r[i].src = r[j].src
        PROVE  i = j
    <3>1. \A h \in 1..(L + 1) : h # k + 1 => r[h].src # src
      BY <1>1, <2>4, SMTT(90)
    <3>2. r[k + 1].src = src
      BY <2>5
    <3>3. CASE i # k + 1 /\ j # k + 1
      <4>1. /\ Old(i) \in 1..L /\ Old(j) \in 1..L /\ q[Old(i)].src = q[Old(j)].src
        BY <2>4, <2>8, <3>3
      <4>2. Old(i) = Old(j)
        BY <1>1, <4>1
      <4> QED
        BY <2>6, <3>3, <4>2
    <3> QED
      BY <2>8, <3>1, <3>2, <3>3
  <2>9. ASSUME NEW i \in 1..(L + 1)
        PROVE  n <= r[i].time /\ r[i].src \in Sources(q) \cup {src}
    <3>1. CASE i = k + 1
      BY <2>5, <3>1
    <3>2. CASE i # k + 1
      <4>1. Old(i) \in 1..L /\ r[i] = q[Old(i)]
        BY <2>4, <3>2
      <4>2. DOMAIN q = 1..L
        BY <1>1
      <4> QED
        BY <1>1, <4>1, <4>2 DEF Sources
    <3> QED
      BY <3>1, <3>2
  <2>10. Agenda(r, n)
    BY <2>1, <2>3, <2>7, <2>8, <2>9 DEF Agenda
  <2>11. Sources(r) \subseteq Sources(q) \cup {src}
    BY <2>3, <2>9 DEF Sources
  <2> QED
    BY <2>10, <2>11
<1> QED
  BY <1>2, <1>3

\* When the first source has been woken, its time has come and it is pending no more.
LEMMA AgendaTail ==
    ASSUME NEW q, NEW n \in Nat, Agenda(q, n), q # <<>>
    PROVE  /\ Head(q) \in Entry /\ n <= Head(q).time /\ Head(q).src \in Sources(q)
           /\ Agenda(Tail(q), Head(q).time)
           /\ Sources(Tail(q)) \subseteq Sources(q) \ {Head(q).src}
<1> DEFINE L == Len(q)
           r == Tail(q)
<1>1. /\ q \in Seq(Entry) /\ L \in Nat /\ L >= 1 /\ DOMAIN q = 1..L
      /\ \A i, j \in 1..L : i <= j => q[i].time <= q[j].time
      /\ \A i, j \in 1..L : q[i].src = q[j].src => i = j
      /\ \A i \in 1..L : n <= q[i].time
  <2>1. q \in Seq(Entry)
    BY DEF Agenda
  <2>2. L \in Nat /\ L >= 1 /\ DOMAIN q = 1..L
    BY <2>1
  <2> QED
    BY <2>1, <2>2, Zenon DEF Agenda
<1>2. Head(q) = q[1] /\ 1 \in 1..L /\ q[1] \in Entry
  BY <1>1
<1>3. r \in Seq(Entry) /\ DOMAIN r = 1..(L - 1) /\ \A i \in 1..(L - 1) : r[i] = q[i + 1]
  BY <1>1
<1>4. \A i \in 1..(L - 1) : i + 1 \in 1..L /\ i + 1 # 1 /\ 1 <= i + 1
  BY <1>1
<1> HIDE DEF r
<1>5. \A i, j \in 1..(L - 1) : i <= j => r[i].time <= r[j].time
  <2> TAKE i, j \in 1..(L - 1)
  <2> HAVE i <= j
  <2>1. i + 1 <= j + 1
    OBVIOUS
  <2> QED
    BY <1>1, <1>3, <1>4, <2>1
<1>6. \A i, j \in 1..(L - 1) : r[i].src = r[j].src => i = j
  <2> TAKE i, j \in 1..(L - 1)
  <2> HAVE r[i].src = r[j].src
  <2>1. i + 1 = j + 1
    BY <1>1, <1>3, <1>4
  <2> QED
    BY <2>1
<1>7. \A i \in 1..(L - 1) : q[1].time <= r[i].time /\ r[i].src \in Sources(q) \ {q[1].src}
  <2> TAKE i \in 1..(L - 1)
  <2>1. q[i + 1].src # q[1].src /\ q[1].time <= q[i + 1].time
    BY <1>1, <1>2, <1>4
  <2>2. q[i + 1].src \in Sources(q)
    BY <1>1, <1>4 DEF Sources
  <2> QED
    BY <1>3, <2>1, <2>2
<1>8. Agenda(r, q[1].time) /\ Sources(r) \subseteq Sources(q) \ {q[1].src}
  <2>1. Agenda(r, q[1].time)
    BY <1>3, <1>5, <1>6, <1>7 DEF Agenda
  <2>2. Sources(r) \subseteq Sources(q) \ {q[1].src}
    BY <1>3, <1>7 DEF Sources
  <2> QED
    BY <2>1, <2>2
<1>9. n <= q[1].time /\ q[1].src \in Sources(q)
  BY <1>1, <1>2 DEF Sources
<1> QED
  BY <1>2, <1>8, <1>9 DEF r

\* Who was pending still is, and at the times there were.
LEMMA InsertKeeps ==
    ASSUME NEW q \in Seq(Entry), NEW src \in {"start", "finish"} \X Flows, NEW when \in Nat,
           NEW r, r = SourceIsPending(q, src, when)
    PROVE  /\ when < EndTime => Sources(q) \cup {src} \subseteq Sources(r)
           /\ \A i \in DOMAIN r : r[i].time = when \/ \E j \in DOMAIN q : r[i].time = q[j].time
<1> DEFINE L == Len(q)
           e == [time |-> when, src |-> src]
<1>1. L \in Nat /\ DOMAIN q = 1..L
  OBVIOUS
<1>2. CASE when >= EndTime
  <2>1. r = q
    BY <1>2 DEF SourceIsPending
  <2> QED
    BY <1>2, <2>1
<1>3. CASE when < EndTime
  <2>1. /\ r \in Seq(Entry)
        /\ \E k \in 0..L : /\ Len(r) = L + 1
                           /\ \A i \in 1..Len(r) :
                                 r[i] = IF i <= k THEN q[i] ELSE IF i = k + 1 THEN e ELSE q[i - 1]
    BY <1>3, Inserted
  <2>2. PICK k \in 0..L :
            /\ Len(r) = L + 1
            /\ \A i \in 1..Len(r) :
                  r[i] = IF i <= k THEN q[i] ELSE IF i = k + 1 THEN e ELSE q[i - 1]
    BY <2>1
  <2>3. DOMAIN r = 1..(L + 1)
    BY <2>1, <2>2
  <2> HIDE DEF L, e
  <2>4. \A i \in 1..(L + 1) : i \in 1..k \/ i = k + 1 \/ (i > k + 1 /\ i - 1 \in 1..L)
    BY <1>1
  <2>5. /\ k + 1 \in 1..(L + 1) /\ ~(k + 1 <= k)
        /\ \A j \in 1..k : j \in 1..(L + 1) /\ j \in 1..L /\ j <= k
        /\ \A j \in 1..L : j > k => /\ j + 1 \in 1..(L + 1) /\ ~(j + 1 <= k)
                                   /\ j + 1 # k + 1 /\ (j + 1) - 1 = j
    BY <1>1
  <2>6. /\ r[k + 1] = e
        /\ \A j \in 1..k : r[j] = q[j]
        /\ \A j \in 1..L : j > k => r[j + 1] = q[j]
    BY <2>2, <2>3, <2>5
  <2>7. \A j \in 1..L : \E i \in 1..(L + 1) : r[i] = q[j]
    <3> TAKE j \in 1..L
    <3>1. j \in 1..k \/ j > k
      BY <1>1
    <3> QED
      BY <2>5, <2>6, <3>1
  <2>8. \A i \in 1..(L + 1) : r[i] = e \/ \E j \in 1..L : r[i] = q[j]
    <3> TAKE i \in 1..(L + 1)
    <3>1. CASE i \in 1..k
      BY <2>5, <2>6, <3>1
    <3>2. CASE i = k + 1
      BY <2>6, <3>2
    <3>3. CASE i > k + 1 /\ i - 1 \in 1..L
      <4>1. i - 1 > k /\ (i - 1) + 1 = i
        BY <3>3
      <4>2. r[(i - 1) + 1] = q[i - 1]
        BY <2>6, <3>3, <4>1
      <4> QED
        BY <3>3, <4>1, <4>2
    <3> QED
      BY <2>4, <3>1, <3>2, <3>3
  <2>9. e.src = src /\ e.time = when
    BY DEF e
  <2>10. Sources(q) \cup {src} \subseteq Sources(r)
    <3>1. \A j \in DOMAIN q : q[j].src \in Sources(r)
      BY <1>1, <2>3, <2>7 DEF Sources
    <3>2. r[k + 1].src \in Sources(r)
      BY <2>3, <2>5 DEF Sources
    <3>3. r[k + 1].src = src
      BY <2>6, <2>9
    <3>4. Sources(q) \subseteq Sources(r)
      BY <3>1 DEF Sources
    <3> QED
      BY <3>2, <3>3, <3>4
  <2>11. \A i \in DOMAIN r : r[i].time = when \/ \E j \in DOMAIN q : r[i].time = q[j].time
    BY <1>1, <2>3, <2>8, <2>9, SMTT(60)
  <2> QED
    BY <2>10, <2>11
<1> QED
  BY <1>2, <1>3

\* When the first has been woken, the others are still pending, at their times.
LEMMA TailKeeps ==
    ASSUME NEW q \in Seq(Entry), q # <<>>
    PROVE  /\ Tail(q) \in Seq(Entry)
           /\ Sources(q) \subseteq Sources(Tail(q)) \cup {Head(q).src}
           /\ \A i \in DOMAIN Tail(q) : \E j \in DOMAIN q : Tail(q)[i].time = q[j].time
<1> DEFINE L == Len(q)
           r == Tail(q)
<1>1. L \in Nat /\ L >= 1 /\ DOMAIN q = 1..L /\ Head(q) = q[1]
  OBVIOUS
<1>2. r \in Seq(Entry) /\ DOMAIN r = 1..(L - 1) /\ \A i \in 1..(L - 1) : r[i] = q[i + 1]
  OBVIOUS
<1> HIDE DEF L, r
<1>3. \A i \in 1..(L - 1) : i + 1 \in 1..L
  BY <1>1
<1>4. \A j \in 1..L : j # 1 => j - 1 \in 1..(L - 1) /\ (j - 1) + 1 = j
  BY <1>1
<1>5. \A j \in 1..L : j # 1 => r[j - 1] = q[j]
  BY <1>2, <1>4
<1>6. Sources(q) \subseteq Sources(r) \cup {Head(q).src}
  <2> SUFFICES ASSUME NEW j \in 1..L, j # 1
               PROVE  q[j].src \in Sources(r)
    BY <1>1 DEF Sources
  <2>1. j - 1 \in DOMAIN r /\ r[j - 1].src = q[j].src
    BY <1>2, <1>4, <1>5
  <2> QED
    BY <2>1 DEF Sources
<1>7. \A i \in DOMAIN r : \E j \in DOMAIN q : r[i].time = q[j].time
  BY <1>1, <1>2, <1>3
<1> QED
  BY <1>2, <1>6, <1>7 DEF r

-----------------------------------------------------------------------------
(* The connection matrix *)

\* What main has made pending when time begins: the flows without a trigger.
LEMMA ConnectedMeans ==
    ASSUME NEW m \in Matrix
    PROVE  /\ Agenda(Connected(m), 0)
           /\ \A s \in Sources(Connected(m)) :
                 \E f \in Flows : s = <<"start", f>> /\ m.trigger[f] = 0
           /\ \A f \in Flows : m.trigger[f] = 0 => <<"start", f>> \in Sources(Connected(m))
           /\ \A i \in DOMAIN Connected(m) : Connected(m)[i].time = 0
<1> DEFINE when(k) == IF m.trigger[k] = 0 THEN 0 ELSE TriggerStart
           More(s, k) == SourceIsPending(s, <<"start", k>>, when(k))
           Val(g, k) == IF k = 0 THEN <<>> ELSE More(g[k - 1], k)
           q == CHOOSE g : g = [k \in 0..NFlows |-> Val(g, k)]
<1>1. Connected(m) = q[NFlows]
  BY DEF Connected
<1>2. \A k \in 1..NFlows : <<"start", k>> \in {"start", "finish"} \X Flows /\ when(k) \in Nat
  BY DEF Flows
<1> HIDE DEF when
<1>3. \A k \in 1..NFlows, s \in Seq(Entry) : More(s, k) \in Seq(Entry)
  BY <1>2, Inserted, ZenonT(60)
<1> HIDE DEF More
<1>4. <<>> \in Seq(Entry) /\ NFlows \in Nat
  OBVIOUS
<1>5. \E g : g = [k \in 0..NFlows |-> Val(g, k)]
  <2> DEFINE step == [k \in 1..NFlows |-> [s \in Seq(Entry) |-> More(s, k)]]
  <2>1. step \in [1..NFlows -> [Seq(Entry) -> Seq(Entry)]]
    BY <1>3
  <2> HIDE DEF step
  <2>2. PICK g \in [0..NFlows -> Seq(Entry)] :
            g[0] = <<>> /\ \A k \in 1..NFlows : g[k] = step[k][g[k - 1]]
    <3> DEFINE T == Seq(Entry)
               base == <<>>
    <3>1. base \in T /\ step \in [1..NFlows -> [T -> T]]
      BY <2>1
    <3>0. NFlows \in Nat
      OBVIOUS
    <3> HIDE DEF T, base
    <3>2. \E g : Solves(g, NFlows, T, base, step)
      BY <3>0, <3>1, Recursion
    <3> QED
      BY <3>2 DEF T, base, Solves
  <2>3. \A k \in 0..NFlows : g[k] = Val(g, k)
    <3> TAKE k \in 0..NFlows
    <3>1. CASE k = 0
      BY <2>2, <3>1
    <3>2. CASE k # 0
      <4>1. k \in 1..NFlows /\ k - 1 \in 0..NFlows
        BY <3>2
      <4>2. g[k - 1] \in Seq(Entry)
        BY <4>1
      <4> QED
        BY <2>2, <3>2, <4>1, <4>2 DEF step
    <3> QED
      BY <3>1, <3>2
  <2>4. g = [k \in 0..NFlows |-> Val(g, k)]
    BY <2>3
  <2> QED
    BY <2>4
<1>6. q = [k \in 0..NFlows |-> Val(q, k)]
  BY <1>5
<1> HIDE DEF q
<1> DEFINE Begun(k) == {<<"start", f>> : f \in {h \in 1..k : m.trigger[h] = 0}}
           AtZero(s) == \A i \in DOMAIN s : s[i].time = 0
           S == {k \in 0..NFlows : Agenda(q[k], 0) /\ Sources(q[k]) = Begun(k) /\ AtZero(q[k])}
<1>7. 0 \in S
  <2>1. q[0] = <<>> /\ 0 \in 0..NFlows
    BY <1>4, <1>6
  <2>2. Agenda(<<>>, 0) /\ Sources(<<>>) = {} /\ AtZero(<<>>) /\ Begun(0) = {}
    BY DEF Agenda, Sources
  <2> QED
    BY <2>1, <2>2
<1>8. ASSUME NEW k \in 1..NFlows, k - 1 \in S
      PROVE  k \in S
  <2>1. /\ k \in 0..NFlows /\ k # 0 /\ Agenda(q[k - 1], 0)
        /\ Sources(q[k - 1]) = Begun(k - 1) /\ AtZero(q[k - 1])
    BY <1>8
  <2>2. q[k] = SourceIsPending(q[k - 1], <<"start", k>>, when(k))
    BY <1>6, <2>1 DEF More
  <2>3. <<"start", k>> \notin Begun(k - 1)
    OBVIOUS
  <2>4. CASE m.trigger[k] = 0
    <3>1. when(k) = 0 /\ 0 \in Nat /\ 0 <= 0 /\ 0 < EndTime
      BY <2>4 DEF when
    <3>2. Begun(k) = Begun(k - 1) \cup {<<"start", k>>}
      BY <2>4
    <3> HIDE DEF Begun
    <3>3. /\ Agenda(q[k], 0)
          /\ Sources(q[k]) \subseteq Sources(q[k - 1]) \cup {<<"start", k>>}
      BY <1>2, <2>1, <2>2, <2>3, <3>1, AgendaInsert
    <3>4. /\ Sources(q[k - 1]) \cup {<<"start", k>>} \subseteq Sources(q[k])
          /\ \A i \in DOMAIN q[k] :
                q[k][i].time = 0 \/ \E j \in DOMAIN q[k - 1] : q[k][i].time = q[k - 1][j].time
      <4>1. q[k - 1] \in Seq(Entry)
        BY <2>1 DEF Agenda
      <4> DEFINE a == q[k - 1]
                 b == q[k]
                 w == <<"start", k>>
                 z == when(k)
      <4>2. w \in {"start", "finish"} \X Flows /\ a \in Seq(Entry)
        BY <1>2, <4>1
      <4>3. b = SourceIsPending(a, w, z) /\ z = 0 /\ z \in Nat /\ z < EndTime
        BY <2>2, <3>1
      <4> HIDE DEF a, b, w, z
      <4>4. /\ z < EndTime => Sources(a) \cup {w} \subseteq Sources(b)
            /\ \A i \in DOMAIN b : b[i].time = z \/ \E j \in DOMAIN a : b[i].time = a[j].time
        BY <4>2, <4>3, InsertKeeps
      <4> QED
        BY <4>3, <4>4 DEF a, b, w
    <3>5. AtZero(q[k])
      BY <2>1, <3>4
    <3> QED
      BY <2>1, <3>2, <3>3, <3>4, <3>5
  <2>5. CASE m.trigger[k] # 0
    <3>1. q[k] = q[k - 1]
      BY <2>2, <2>5 DEF when, SourceIsPending
    <3>2. Begun(k) = Begun(k - 1)
      BY <2>5
    <3> HIDE DEF Begun
    <3> QED
      BY <2>1, <3>1, <3>2
  <2> QED
    BY <2>4, <2>5
<1>9. NFlows \in S
  <2> HIDE DEF S
  <2>1. \A k \in 0..NFlows : k \in S
    BY <1>4, <1>7, <1>8, UpTo
  <2> QED
    BY <1>4, <2>1
<1>10. Agenda(q[NFlows], 0) /\ Sources(q[NFlows]) = Begun(NFlows) /\ AtZero(q[NFlows])
  BY <1>9
<1> QED
  BY <1>1, <1>10 DEF Flows

\* The targets of a trigger are the flows that wait for it, each once.
LEMMA TargetsMean ==
    ASSUME NEW m \in Matrix, NEW t, NEW s, s = TargetsIn(m, t)
    PROVE  /\ s \in Seq(Flows)
           /\ \A i, j \in DOMAIN s : s[i] = s[j] => i = j
           /\ \A f : f \in ToSet(s) <=> f \in Flows /\ m.trigger[f] = t
<1> DEFINE More(u, k) == IF m.trigger[k] = t THEN Append(u, k) ELSE u
           Val(g, k) == IF k = 0 THEN <<>> ELSE More(g[k - 1], k)
           q == CHOOSE g : g = [k \in 0..NFlows |-> Val(g, k)]
<1>1. s = q[NFlows]
  BY DEF TargetsIn
<1>2. \A k \in 1..NFlows, u \in Seq(Flows) : More(u, k) \in Seq(Flows)
  <2> TAKE k \in 1..NFlows, u \in Seq(Flows)
  <2>1. k \in Flows
    BY DEF Flows
  <2>2. Append(u, k) \in Seq(Flows)
    BY <2>1
  <2> QED
    BY <2>2
<1> HIDE DEF More
<1>3. <<>> \in Seq(Flows) /\ NFlows \in Nat
  OBVIOUS
<1>4. \E g : g = [k \in 0..NFlows |-> Val(g, k)]
  <2> DEFINE step == [k \in 1..NFlows |-> [u \in Seq(Flows) |-> More(u, k)]]
  <2>1. step \in [1..NFlows -> [Seq(Flows) -> Seq(Flows)]]
    BY <1>2
  <2> HIDE DEF step
  <2>2. PICK g \in [0..NFlows -> Seq(Flows)] :
            g[0] = <<>> /\ \A k \in 1..NFlows : g[k] = step[k][g[k - 1]]
    <3> DEFINE T == Seq(Flows)
               base == <<>>
    <3>1. base \in T /\ step \in [1..NFlows -> [T -> T]]
      BY <2>1
    <3>0. NFlows \in Nat
      OBVIOUS
    <3> HIDE DEF T, base
    <3>2. \E g : Solves(g, NFlows, T, base, step)
      BY <3>0, <3>1, Recursion
    <3> QED
      BY <3>2 DEF T, base, Solves
  <2>3. \A k \in 0..NFlows : g[k] = Val(g, k)
    <3> TAKE k \in 0..NFlows
    <3>1. CASE k = 0
      BY <2>2, <3>1
    <3>2. CASE k # 0
      <4>1. k \in 1..NFlows /\ k - 1 \in 0..NFlows
        BY <3>2
      <4>2. g[k - 1] \in Seq(Flows)
        BY <4>1
      <4> QED
        BY <2>2, <3>2, <4>1, <4>2 DEF step
    <3> QED
      BY <3>1, <3>2
  <2>4. g = [k \in 0..NFlows |-> Val(g, k)]
    BY <2>3
  <2> QED
    BY <2>4
<1>5. q = [k \in 0..NFlows |-> Val(q, k)]
  BY <1>4
<1> HIDE DEF q
<1> DEFINE Good(u, k) == /\ u \in Seq(Flows)
                         /\ \A i, j \in DOMAIN u : u[i] = u[j] => i = j
                         /\ \A f : f \in ToSet(u) <=> f \in 1..k /\ m.trigger[f] = t
           S == {k \in 0..NFlows : Good(q[k], k)}
<1>6. 0 \in S
  <2>1. q[0] = <<>> /\ 0 \in 0..NFlows
    BY <1>3, <1>5
  <2>2. Good(<<>>, 0)
    BY DEF ToSet
  <2> QED
    BY <2>1, <2>2
<1>7. ASSUME NEW k \in 1..NFlows, k - 1 \in S
      PROVE  k \in S
  <2>1. k \in 0..NFlows /\ k # 0 /\ k \in Flows /\ Good(q[k - 1], k - 1)
    BY <1>7 DEF Flows
  <2>2. q[k] = More(q[k - 1], k)
    BY <1>5, <2>1
  <2> DEFINE u == q[k - 1]
             L == Len(u)
  <2>3. CASE m.trigger[k] = t
    <3>1. q[k] = Append(u, k)
      BY <2>2, <2>3 DEF More
    <3> HIDE DEF u
    <3>2. /\ u \in Seq(Flows) /\ L \in Nat /\ DOMAIN u = 1..L
          /\ \A f : f \in ToSet(u) <=> f \in 1..(k - 1) /\ m.trigger[f] = t
          /\ \A i, j \in 1..L : u[i] = u[j] => i = j
      <4>1. u \in Seq(Flows)
        BY <2>1 DEF u
      <4>2. L \in Nat /\ DOMAIN u = 1..L
        BY <4>1
      <4>3. /\ \A f : f \in ToSet(u) <=> f \in 1..(k - 1) /\ m.trigger[f] = t
            /\ \A i, j \in DOMAIN u : u[i] = u[j] => i = j
        BY <2>1, Zenon DEF u
      <4> QED
        BY <4>1, <4>2, <4>3
    <3> DEFINE v == Append(u, k)
    <3>3. /\ v \in Seq(Flows) /\ DOMAIN v = 1..(L + 1) /\ v[L + 1] = k
          /\ \A i \in 1..L : v[i] = u[i]
      BY <2>1, <3>2
    <3> HIDE DEF v, L
    <3>4. \A i \in 1..L : u[i] # k
      <4>1. k \notin 1..(k - 1)
        OBVIOUS
      <4>2. k \notin ToSet(u)
        BY <3>2, <4>1
      <4> QED
        BY <3>2, <4>2 DEF ToSet
    <3>5. \A i \in 1..(L + 1) : i = L + 1 \/ i \in 1..L
      BY <3>2
    <3>6. \A i, j \in DOMAIN v : v[i] = v[j] => i = j
      BY <3>2, <3>3, <3>4, <3>5
    <3>7. ToSet(v) = ToSet(u) \cup {k}
      <4>1. L + 1 \in 1..(L + 1) /\ 1..L \subseteq 1..(L + 1)
        BY <3>2
      <4> QED
        BY <3>2, <3>3, <3>5, <4>1 DEF ToSet
    <3>8. \A f : f \in ToSet(v) <=> f \in 1..k /\ m.trigger[f] = t
      <4>1. \A f : f \in 1..k <=> f \in 1..(k - 1) \/ f = k
        OBVIOUS
      <4> QED
        BY <2>3, <3>2, <3>7, <4>1
    <3>9. Good(q[k], k)
      BY <3>1, <3>3, <3>6, <3>8 DEF v
    <3> QED
      BY <2>1, <3>9
  <2>4. CASE m.trigger[k] # t
    <3>1. q[k] = u
      BY <2>2, <2>4 DEF More
    <3>2. \A f : f \in 1..k /\ m.trigger[f] = t <=> f \in 1..(k - 1) /\ m.trigger[f] = t
      <4>1. \A f : f \in 1..k <=> f \in 1..(k - 1) \/ f = k
        OBVIOUS
      <4> QED
        BY <2>4, <4>1
    <3>3. Good(u, k)
      BY <2>1, <3>2, Zenon
    <3> HIDE DEF Good
    <3> QED
      BY <2>1, <3>1, <3>3
  <2> QED
    BY <2>3, <2>4
<1>8. NFlows \in S
  <2> HIDE DEF S
  <2>1. \A k \in 0..NFlows : k \in S
    BY <1>3, <1>6, <1>7, UpTo
  <2> QED
    BY <1>3, <2>1
<1>9. Good(q[NFlows], NFlows)
  BY <1>8
<1> QED
  BY <1>1, <1>9 DEF Flows

-----------------------------------------------------------------------------
(* The triggers *)

LEMMA SameTargets ==
    ASSUME matrix' = matrix
    PROVE  \A t : Targets(t)' = Targets(t) /\ Activators(t)' = Activators(t)
<1>1. \A t : TargetsIn(matrix, t)' = TargetsIn(matrix, t)
  OBVIOUS
<1> QED
  BY <1>1 DEF Targets, Activators

LEMMA SameFreed ==
    ASSUME matrix' = matrix
    PROVE  \A t, n, f : Freed(t, n, f)' <=> Freed(t, n, f)
<1> TAKE t, n, f
<1>1. Targets(t)' = Targets(t)
  BY SameTargets
<1> QED
  BY <1>1 DEF Freed

LEMMA SameAtOnce ==
    ASSUME matrix' = matrix
    PROVE  \A f, at, fin : AtOnce(f, at, fin)' <=> AtOnce(f, at, fin)
<1> TAKE f, at, fin
<1>1. Activators(matrix.trigger[f])' = Activators(matrix.trigger[f])
  BY DEF Activators
<1> QED
  BY <1>1 DEF AtOnce

\* What an activation puts on the stack are flows that wait for this trigger and that
\* none before it has released.
LEMMA ReleasedMeans ==
    ASSUME matrix \in Matrix, NEW t \in Trigs, fired[t] \in Nat, MayActivate(t),
           NEW s, s = Released(t, fired[t] + 1)
    PROVE  /\ s \in Seq(Flows)
           /\ \A i, j \in DOMAIN s : s[i] = s[j] => i = j
           /\ \A f \in ToSet(s) : /\ matrix.trigger[f] = t
                                  /\ Freed(t, fired[t] + 1, f) /\ ~Freed(t, fired[t], f)
<1> DEFINE n == fired[t]
           u == Targets(t)
<1>1. matrix.type[t] \in {"oneshot", "multishot", "barrier"} /\ n \in Nat
  BY DEF Matrix
<1>2. /\ u \in Seq(Flows)
      /\ \A i, j \in DOMAIN u : u[i] = u[j] => i = j
      /\ \A f \in ToSet(u) : matrix.trigger[f] = t
  BY TargetsMean DEF Targets
<1>3. /\ <<>> \in Seq(Flows) /\ ToSet(<<>>) = {}
      /\ \A i, j \in DOMAIN <<>> : <<>>[i] = <<>>[j] => i = j
  BY DEF ToSet
<1>4. CASE matrix.type[t] = "oneshot"
  <2>1. s = u
    BY <1>4 DEF Released
  <2>2. n = 0
    BY <1>1, <1>4 DEF MayActivate
  <2>3. \A f : Freed(t, n + 1, f) /\ ~Freed(t, n, f)
    BY <1>4, <2>2 DEF Freed
  <2> QED
    BY <1>2, <2>1, <2>3
<1>5. CASE matrix.type[t] = "barrier"
  <2>1. s = IF n + 1 = matrix.count[t] THEN u ELSE <<>>
    BY <1>5 DEF Released
  <2>2. CASE n + 1 # matrix.count[t]
    BY <1>3, <2>1, <2>2
  <2>3. CASE n + 1 = matrix.count[t]
    <3>1. \A f : Freed(t, n + 1, f) /\ ~Freed(t, n, f)
      BY <1>1, <1>5, <2>3 DEF Freed
    <3> QED
      BY <1>2, <2>1, <2>3, <3>1
  <2> QED
    BY <2>2, <2>3
<1>6. CASE matrix.type[t] = "multishot"
  <2> HIDE DEF u
  <2>1. s = IF n + 1 > Len(u) THEN <<>> ELSE <<u[n + 1]>>
    BY <1>6 DEF Released, u
  <2>2. CASE n + 1 > Len(u)
    BY <1>3, <2>1, <2>2
  <2>3. CASE ~(n + 1 > Len(u))
    <3>1. n + 1 \in DOMAIN u /\ u[n + 1] \in Flows /\ u[n + 1] \in ToSet(u)
      BY <1>1, <1>2, <2>3 DEF ToSet
    <3> DEFINE f == u[n + 1]
    <3> HIDE DEF f
    <3>2. s = <<f>> /\ f \in Flows /\ f \in ToSet(u)
      BY <2>1, <2>3, <3>1, Zenon DEF f
    <3>3. s \in Seq(Flows) /\ ToSet(s) = {f} /\ \A i, j \in DOMAIN s : i = j
      <4>1. <<f>> \in Seq(Flows) /\ DOMAIN <<f>> = {1} /\ <<f>>[1] = f
        BY <3>2
      <4>2. s \in Seq(Flows) /\ DOMAIN s = {1} /\ s[1] = f
        BY <3>2, <4>1, Zenon
      <4> QED
        BY <4>2 DEF ToSet
    <3>4. Freed(t, n + 1, f)
      <4>1. n + 1 \in 1..(n + 1)
        BY <1>1
      <4> QED
        BY <1>6, <3>1, <4>1 DEF Freed, f, u
    <3>5. ~Freed(t, n, f)
      <4>1. \A i \in 1..n : i # n + 1
        BY <1>1
      <4> QED
        BY <1>2, <1>6, <3>1, <4>1 DEF Freed, f, u
    <3> QED
      BY <1>2, <3>2, <3>3, <3>4, <3>5
  <2> QED
    BY <2>2, <2>3
<1> QED
  BY <1>1, <1>4, <1>5, <1>6

\* Who has been released stays released.
LEMMA FreedStays ==
    ASSUME matrix \in Matrix, NEW t \in Trigs, fired[t] \in Nat, MayActivate(t),
           NEW f, Freed(t, fired[t], f)
    PROVE  /\ Freed(t, fired[t] + 1, f)
           /\ matrix.type[t] # "barrier"
<1>1. matrix.type[t] \in {"oneshot", "multishot", "barrier"}
  BY DEF Matrix
<1>2. matrix.type[t] # "barrier"
  BY DEF Freed, MayActivate
<1>3. 1..fired[t] \subseteq 1..(fired[t] + 1) /\ fired[t] + 1 >= 1
  OBVIOUS
<1> QED
  BY <1>2, <1>3 DEF Freed

-----------------------------------------------------------------------------
(* The steps *)

\* A flow starts at time at, with q left to wake: it is no longer on the stack.
LEMMA StartKeeps ==
    ASSUME IInv, UNCHANGED <<matrix, fired, finishTime>>,
           NEW f \in Flows, starts[f] = 0,
           NEW at \in 0..(EndTime - 1), now <= at, now' = at,
           NEW q, Agenda(q, at), Sources(q) \subseteq Sources(pending),
           <<"start", f>> \notin Sources(q), StartFlow(f, at, q),
           StackOK(triggers', starts), ToSet(triggers') \subseteq ToSet(triggers),
           f \notin ToSet(triggers'), \A g \in ToSet(triggers') : at = now,
           matrix.trigger[f] # 0 => /\ Freed(matrix.trigger[f], fired[matrix.trigger[f]], f)
                                    /\ AtOnce(f, at, finishTime)
    PROVE  IInv'
<1>1. /\ matrix' = matrix /\ fired' = fired /\ finishTime' = finishTime
      /\ starts \in [Flows -> {0, 1}] /\ startTime \in [Flows -> Nat]
      /\ now \in Nat /\ at \in Nat
  BY DEF IInv
<1>2. /\ starts' = [starts EXCEPT ![f] = 1]
      /\ startTime' = [startTime EXCEPT ![f] = at]
  BY <1>1 DEF StartFlow
<1>3. /\ starts' \in [Flows -> {0, 1}] /\ startTime' \in [Flows -> Nat]
      /\ starts'[f] = 1 /\ startTime'[f] = at
      /\ \A g \in Flows : g # f => starts'[g] = starts[g] /\ startTime'[g] = startTime[g]
  BY <1>1, <1>2
<1>4. Agenda(pending', at) /\ Sources(pending') \subseteq Sources(q) \cup {<<"finish", f>>}
  <2>1. PICK d \in Durations : pending' = SourceIsPending(q, <<"finish", f>>, at + d)
    BY DEF StartFlow
  <2>2. at + d \in Nat /\ at <= at + d
    BY <1>1
  <2>3. <<"finish", f>> \in {"start", "finish"} \X Flows
    OBVIOUS
  <2>4. <<"finish", f>> \notin Sources(q)
    <3>1. <<"finish", f>> \in Sources(pending) => starts[f] = 1
      BY DEF IInv, SourcesOK
    <3> QED
      BY <3>1
  <2> QED
    BY <1>1, <2>1, <2>2, <2>3, <2>4, AgendaInsert
<1>5. SourcesOK(Sources(pending), starts, finishTime)'
  <2>1. SourcesOK(Sources(pending), starts, finishTime)
    BY DEF IInv
  <2>2. finishTime[f] = -1
    <3>1. finishTime[f] \in Nat \cup {-1} /\ (finishTime[f] >= 0 => starts[f] = 1)
      BY DEF IInv, FlowsOK
    <3> QED
      BY <3>1
  <2> SUFFICES ASSUME NEW g \in Flows
               PROVE  /\ <<"start", g>> \in Sources(pending') =>
                            starts'[g] = 0 /\ matrix.trigger[g] = 0
                      /\ <<"finish", g>> \in Sources(pending') =>
                            starts'[g] = 1 /\ finishTime[g] = -1
    BY <1>1 DEF SourcesOK
  <2>3. CASE g = f
    <3>1. <<"start", f>> \notin Sources(pending')
      <4>1. <<"start", f>> # <<"finish", f>>
        OBVIOUS
      <4> QED
        BY <1>4, <4>1
    <3> QED
      BY <1>3, <2>2, <2>3, <3>1
  <2>4. CASE g # f
    <3>1. /\ <<"start", g>> # <<"finish", f>> /\ <<"finish", g>> # <<"finish", f>>
      BY <2>4
    <3>2. \A s \in Sources(pending') : s # <<"finish", f>> => s \in Sources(pending)
      BY <1>4
    <3> QED
      BY <1>3, <2>1, <2>4, <3>1, <3>2 DEF SourcesOK
  <2> QED
    BY <2>3, <2>4
<1>6. StackOK(triggers, starts)'
  <2>1. \A g \in ToSet(triggers') : g \in Flows /\ g # f
    BY DEF StackOK, ToSet
  <2> QED
    BY <1>1, <1>3, <2>1 DEF StackOK
<1>7. FlowsOK(now, starts, finishTime)'
  <2>1. \A g \in Flows : finishTime[g] >= 0 => starts[g] = 1 /\ finishTime[g] <= now
    BY DEF IInv, FlowsOK
  <2>2. \A g \in Flows : finishTime[g] \in Nat \cup {-1}
    BY DEF IInv
  <2>3. \A g \in Flows : starts[g] = 1 => starts'[g] = 1
    BY <1>3
  <2> QED
    BY <1>1, <2>1, <2>2, <2>3 DEF FlowsOK
<1>8. FreedOK(triggers, starts, fired)'
  <2>1. FreedOK(triggers, starts, fired)
    BY DEF IInv
  <2>2. \A t, n, g : Freed(t, n, g)' <=> Freed(t, n, g)
    BY <1>1, SameFreed
  <2>3. \A g \in Flows : (starts'[g] = 1 \/ g \in ToSet(triggers')) /\ matrix.trigger[g] # 0 =>
            Freed(matrix.trigger[g], fired[matrix.trigger[g]], g)
    BY <1>3, <2>1 DEF FreedOK
  <2> QED
    BY <1>1, <2>2, <2>3 DEF FreedOK
<1>9. FiredOK(fired, finishTime)'
  <2>1. FiredOK(fired, finishTime)
    BY DEF IInv
  <2> QED
    BY <1>1, <2>1, SameTargets DEF FiredOK
<1>10. AtOnceOK(now, triggers, starts, startTime, finishTime)'
  <2>1. AtOnceOK(now, triggers, starts, startTime, finishTime)
    BY DEF IInv
  <2>2. \A g, n : AtOnce(g, n, finishTime)' <=> AtOnce(g, n, finishTime)
    BY <1>1, SameAtOnce
  <2>3. \A g \in Flows : matrix.trigger[g] # 0 =>
            /\ starts'[g] = 1 => AtOnce(g, startTime'[g], finishTime)
            /\ g \in ToSet(triggers') => AtOnce(g, at, finishTime)
    BY <1>3, <2>1 DEF AtOnceOK
  <2> QED
    BY <1>1, <2>2, <2>3 DEF AtOnceOK
<1> QED
  BY <1>1, <1>3, <1>4, <1>5, <1>6, <1>7, <1>8, <1>9, <1>10 DEF IInv

LEMMA FireTriggerStep == IInv /\ FireTrigger => IInv'
<1> SUFFICES ASSUME IInv, FireTrigger
             PROVE  IInv'
  OBVIOUS
<1>1. PICK f \in Flows : NextIsTrigger(f) /\ StartFlow(f, now, pending)
  BY DEF FireTrigger
<1> DEFINE L == Len(triggers)
<1>2. /\ triggers \in Seq(Flows) /\ triggers # <<>> /\ f = triggers[L]
      /\ \A i, j \in DOMAIN triggers : triggers[i] = triggers[j] => i = j
      /\ \A g \in ToSet(triggers) : starts[g] = 0 /\ matrix.trigger[g] # 0
  BY <1>1 DEF IInv, StackOK, NextIsTrigger
<1>3. L \in Nat /\ L >= 1 /\ DOMAIN triggers = 1..L /\ L \in 1..L
  BY <1>2
<1>4. f \in ToSet(triggers)
  BY <1>2, <1>3 DEF ToSet
<1>5. triggers' = SubSeq(triggers, 1, L - 1)
  BY DEF FireTrigger
<1> HIDE DEF L
<1>6. /\ triggers' \in Seq(Flows) /\ DOMAIN triggers' = 1..(L - 1)
      /\ \A i \in 1..(L - 1) : triggers'[i] = triggers[i] /\ i \in 1..L /\ i # L
  BY <1>2, <1>3, <1>5
<1>7. ToSet(triggers') \subseteq ToSet(triggers) /\ f \notin ToSet(triggers')
  <2>1. ASSUME NEW i \in 1..(L - 1)
        PROVE  triggers'[i] \in ToSet(triggers) /\ triggers'[i] # f
    BY <1>2, <1>3, <1>6 DEF ToSet
  <2> QED
    BY <1>6, <2>1 DEF ToSet
<1>8. StackOK(triggers', starts)
  BY <1>2, <1>3, <1>6, <1>7 DEF StackOK
<1>9. /\ starts[f] = 0 /\ matrix.trigger[f] # 0
      /\ Freed(matrix.trigger[f], fired[matrix.trigger[f]], f)
      /\ AtOnce(f, now, finishTime)
  BY <1>2, <1>4 DEF IInv, FreedOK, AtOnceOK
<1>10. <<"start", f>> \notin Sources(pending)
  BY <1>9 DEF IInv, SourcesOK
<1>11. /\ now \in 0..(EndTime - 1) /\ now <= now /\ Agenda(pending, now)
  BY DEF IInv
<1>12. UNCHANGED <<matrix, fired, finishTime>> /\ now' = now
  BY DEF FireTrigger
<1> QED
  BY <1>1, <1>7, <1>8, <1>9, <1>10, <1>11, <1>12, StartKeeps

LEMMA WakeFlowStep == IInv /\ WakeFlow => IInv'
<1> SUFFICES ASSUME IInv, WakeFlow
             PROVE  IInv'
  OBVIOUS
<1>1. PICK f \in Flows : NextIsSource(<<"start", f>>) /\ StartFlow(f, now', Tail(pending))
  BY DEF WakeFlow
<1>2. /\ triggers = <<>> /\ pending # <<>> /\ Head(pending).src = <<"start", f>>
      /\ now' = Head(pending).time
  BY <1>1 DEF NextIsSource
<1>3. /\ triggers' = triggers /\ UNCHANGED <<matrix, fired, finishTime>>
  BY DEF WakeFlow
<1>4. Agenda(pending, now) /\ now \in Nat
  BY DEF IInv
<1> DEFINE q == Tail(pending)
           at == Head(pending).time
<1>5. /\ Head(pending) \in Entry /\ now <= at /\ <<"start", f>> \in Sources(pending)
      /\ Agenda(q, at) /\ Sources(q) \subseteq Sources(pending) \ {<<"start", f>>}
  BY <1>2, <1>4, AgendaTail
<1>6. at \in 0..(EndTime - 1)
  BY <1>5 DEF Entry
<1>7. starts[f] = 0 /\ matrix.trigger[f] = 0
  BY <1>5 DEF IInv, SourcesOK
<1>8. ToSet(<<>>) = {}
  BY DEF ToSet
<1>9. /\ StackOK(triggers', starts) /\ ToSet(triggers') \subseteq ToSet(triggers)
      /\ ToSet(triggers') = {}
  BY <1>2, <1>3, <1>8 DEF IInv
<1>10. StartFlow(f, at, q) /\ now' = at
  BY <1>1, <1>2
<1>11. Sources(q) \subseteq Sources(pending) /\ <<"start", f>> \notin Sources(q)
  BY <1>5
<1> HIDE DEF q, at
<1> QED
  BY <1>3, <1>5, <1>6, <1>7, <1>9, <1>10, <1>11, StartKeeps

LEMMA FinishFlowStep == IInv /\ FinishFlow => IInv'
<1> SUFFICES ASSUME IInv, FinishFlow
             PROVE  IInv'
  OBVIOUS
<1>1. PICK f \in Flows :
          LET t == matrix.sendDone[f] IN
          /\ NextIsSource(<<"finish", f>>)
          /\ finishTime' = [finishTime EXCEPT ![f] = now']
          /\ \/ t = 0 /\ UNCHANGED <<triggers, fired>>
             \/ /\ t # 0 /\ MayActivate(t)
                /\ fired' = [fired EXCEPT ![t] = @ + 1]
                /\ triggers' = triggers \o Released(t, fired[t] + 1)
  BY DEF FinishFlow
<1> DEFINE t == matrix.sendDone[f]
           at == Head(pending).time
           s == Released(t, fired[t] + 1)
<1>2. /\ triggers = <<>> /\ pending # <<>> /\ Head(pending).src = <<"finish", f>>
      /\ now' = at
  BY <1>1 DEF NextIsSource
<1>3. /\ pending' = Tail(pending) /\ matrix' = matrix /\ starts' = starts
      /\ startTime' = startTime
  BY DEF FinishFlow
<1>4. /\ matrix \in Matrices /\ matrix \in Matrix
      /\ now \in 0..(EndTime - 1) /\ now \in Nat
      /\ fired \in [Trigs -> Nat] /\ starts \in [Flows -> {0, 1}]
      /\ startTime \in [Flows -> Nat] /\ finishTime \in [Flows -> Nat \cup {-1}]
  BY MatricesAssumption DEF IInv
<1>5. /\ Head(pending) \in Entry /\ now <= at /\ <<"finish", f>> \in Sources(pending)
      /\ Agenda(pending', at) /\ Sources(pending') \subseteq Sources(pending) \ {<<"finish", f>>}
  <2>1. Agenda(pending, now)
    BY DEF IInv
  <2> QED
    BY <1>2, <1>3, <1>4, <2>1, AgendaTail, ZenonT(60)
<1>6. at \in 0..(EndTime - 1) /\ at \in Nat
  BY <1>5 DEF Entry
<1> HIDE DEF at
<1>7. starts[f] = 1 /\ finishTime[f] = -1
  BY <1>5 DEF IInv, SourcesOK
<1>8. /\ finishTime' \in [Flows -> Nat \cup {-1}] /\ finishTime'[f] = at
      /\ \A g \in Flows : g # f => finishTime'[g] = finishTime[g]
  <2>1. finishTime' = [finishTime EXCEPT ![f] = at]
    BY <1>1, <1>2
  <2> QED
    BY <1>4, <1>6, <2>1
<1>9. t \in 0..NTrigs /\ (t # 0 => t \in Trigs)
  BY <1>4 DEF Matrix, Trigs
<1>10. \/ t = 0 /\ triggers' = <<>> /\ fired' = fired
       \/ /\ t \in Trigs /\ MayActivate(t) /\ fired' = [fired EXCEPT ![t] = @ + 1]
          /\ triggers' = s
  <2>1. CASE t = 0
    BY <1>1, <1>2, <2>1
  <2>2. CASE t # 0
    <3>1. s \in Seq(Flows)
      BY <1>1, <1>4, <1>9, <2>2, ReleasedMeans
    <3> HIDE DEF s
    <3>2. <<>> \o s = s
      BY <3>1, SMTT(60)
    <3>3. /\ MayActivate(t) /\ fired' = [fired EXCEPT ![t] = @ + 1]
          /\ triggers' = triggers \o s
      BY <1>1, <2>2 DEF s
    <3> QED
      BY <1>2, <1>9, <2>2, <3>2, <3>3
  <2> QED
    BY <2>1, <2>2
<1>11. \A g \in ToSet(triggers') :
          /\ t \in Trigs /\ matrix.trigger[g] = t /\ g \in Flows
          /\ Freed(t, fired[t] + 1, g) /\ ~Freed(t, fired[t], g)
  <2>1. ToSet(<<>>) = {}
    BY DEF ToSet
  <2>2. CASE t = 0
    BY <1>9, <1>10, <2>1, <2>2 DEF Trigs
  <2>3. CASE t # 0
    <3>1. t \in Trigs /\ MayActivate(t) /\ triggers' = s
      BY <1>9, <1>10, <2>3
    <3>2. /\ s \in Seq(Flows)
          /\ \A g \in ToSet(s) : /\ matrix.trigger[g] = t
                                 /\ Freed(t, fired[t] + 1, g) /\ ~Freed(t, fired[t], g)
      BY <1>4, <3>1, ReleasedMeans
    <3> HIDE DEF s
    <3>3. \A g \in ToSet(s) : g \in Flows
      BY <3>2 DEF ToSet
    <3> QED
      BY <3>1, <3>2, <3>3
  <2> QED
    BY <2>2, <2>3
<1>12. /\ triggers' \in Seq(Flows)
       /\ \A i, j \in DOMAIN triggers' : triggers'[i] = triggers'[j] => i = j
  <2>1. CASE t = 0
    BY <1>9, <1>10, <2>1 DEF Trigs
  <2>2. CASE t # 0
    <3>1. t \in Trigs /\ MayActivate(t) /\ triggers' = s
      BY <1>9, <1>10, <2>2
    <3>2. s \in Seq(Flows) /\ \A i, j \in DOMAIN s : s[i] = s[j] => i = j
      BY <1>4, <3>1, ReleasedMeans
    <3> HIDE DEF s
    <3> QED
      BY <3>1, <3>2
  <2> QED
    BY <2>1, <2>2
<1> HIDE DEF s
<1>13. \A g \in Flows : starts[g] = 1 /\ matrix.trigger[g] # 0 =>
          Freed(matrix.trigger[g], fired[matrix.trigger[g]], g)
  BY DEF IInv, FreedOK
<1>14. fired' \in [Trigs -> Nat]
  BY <1>4, <1>10
<1>15. SourcesOK(Sources(pending), starts, finishTime)'
  <2>1. SourcesOK(Sources(pending), starts, finishTime)
    BY DEF IInv
  <2> SUFFICES ASSUME NEW g \in Flows
               PROVE  /\ <<"start", g>> \in Sources(pending') =>
                            starts[g] = 0 /\ matrix.trigger[g] = 0
                      /\ <<"finish", g>> \in Sources(pending') =>
                            starts[g] = 1 /\ finishTime'[g] = -1
    BY <1>3 DEF SourcesOK
  <2>2. <<"finish", g>> \in Sources(pending') => g # f
    BY <1>5
  <2> QED
    BY <1>5, <1>8, <2>1, <2>2 DEF SourcesOK
<1>16. StackOK(triggers, starts)'
  <2>1. ASSUME NEW g \in ToSet(triggers')
        PROVE  starts[g] = 0 /\ matrix.trigger[g] # 0
    <3>1. t # 0 /\ g \in Flows /\ matrix.trigger[g] = t /\ ~Freed(t, fired[t], g)
      BY <1>11, <2>1 DEF Trigs
    <3> HIDE DEF t
    <3>2. starts[g] \in {0, 1} /\ starts[g] # 1
      BY <1>4, <1>13, <3>1
    <3> QED
      BY <3>1, <3>2
  <2> QED
    BY <1>3, <1>12, <2>1 DEF StackOK
<1>17. FlowsOK(now, starts, finishTime)'
  <2>1. \A g \in Flows : finishTime[g] >= 0 => starts[g] = 1 /\ finishTime[g] <= now
    BY DEF IInv, FlowsOK
  <2>2. \A g \in Flows : finishTime'[g] >= 0 => starts[g] = 1 /\ finishTime'[g] <= at
    <3> TAKE g \in Flows
    <3>1. finishTime[g] \in Nat \cup {-1}
      BY <1>4
    <3> QED
      BY <1>4, <1>5, <1>6, <1>7, <1>8, <2>1, <3>1
  <2> QED
    BY <1>2, <1>3, <2>2 DEF FlowsOK
\* Who had been released still is, and then this was not the trigger of a barrier.
<1>18. \A g \in Flows : matrix.trigger[g] # 0 /\ Freed(matrix.trigger[g], fired[matrix.trigger[g]], g) =>
          /\ Freed(matrix.trigger[g], fired'[matrix.trigger[g]], g)
          /\ matrix.trigger[g] = t => matrix.type[t] # "barrier"
  <2> TAKE g \in Flows
  <2> DEFINE u == matrix.trigger[g]
  <2> SUFFICES ASSUME u # 0, Freed(u, fired[u], g)
               PROVE  Freed(u, fired'[u], g) /\ (u = t => matrix.type[t] # "barrier")
    OBVIOUS
  <2>1. u \in Trigs
    BY <1>4 DEF Matrix, Trigs
  <2> HIDE DEF u, t
  <2>2. CASE u = t
    <3>1. MayActivate(t) /\ t \in Trigs /\ fired'[t] = fired[t] + 1 /\ fired[t] \in Nat
      BY <1>4, <1>10, <2>1, <2>2 DEF Trigs
    <3> QED
      BY <1>4, <2>2, <3>1, FreedStays
  <2>3. CASE u # t
    <3>1. fired'[u] = fired[u]
      BY <1>4, <1>10, <2>1, <2>3
    <3> QED
      BY <2>3, <3>1
  <2> QED
    BY <2>2, <2>3
<1>19. FreedOK(triggers, starts, fired)'
  <2>1. \A u, n, g : Freed(u, n, g)' <=> Freed(u, n, g)
    BY <1>3, SameFreed
  <2>2. ASSUME NEW g \in Flows, starts[g] = 1 \/ g \in ToSet(triggers'), matrix.trigger[g] # 0
        PROVE  Freed(matrix.trigger[g], fired'[matrix.trigger[g]], g)
    <3>1. CASE starts[g] = 1
      BY <1>13, <1>18, <2>2, <3>1
    <3>2. CASE g \in ToSet(triggers')
      <4>1. t \in Trigs /\ t # 0 /\ matrix.trigger[g] = t /\ Freed(t, fired[t] + 1, g)
        BY <1>11, <3>2 DEF Trigs
      <4> HIDE DEF t
      <4>2. fired'[t] = fired[t] + 1
        BY <1>4, <1>10, <4>1
      <4> QED
        BY <4>1, <4>2
    <3> QED
      BY <2>2, <3>1, <3>2
  <2> QED
    BY <1>3, <2>1, <2>2 DEF FreedOK
<1>20. FiredOK(fired, finishTime)'
  <2>1. \A u \in Trigs : fired[u] = Cardinality({g \in Activators(u) : finishTime[g] >= 0})
    BY DEF IInv, FiredOK
  <2> SUFFICES ASSUME NEW u \in Trigs
               PROVE  fired'[u] = Cardinality({g \in Activators(u) : finishTime'[g] >= 0})
    BY <1>3, SameTargets DEF FiredOK
  <2> DEFINE before == {g \in Activators(u) : finishTime[g] >= 0}
             after  == {g \in Activators(u) : finishTime'[g] >= 0}
  <2>2. f \notin before /\ Activators(u) \subseteq Flows /\ (f \in Activators(u) <=> t = u)
    BY <1>7 DEF Activators
  <2>3. IsFiniteSet(before) /\ Cardinality(before) \in Nat
    <3>1. IsFiniteSet(Flows) /\ before \in SUBSET Flows
      BY <2>2, FS_Interval DEF Flows
    <3> HIDE DEF before
    <3>2. IsFiniteSet(before)
      BY <3>1, FS_Subset
    <3> QED
      BY <3>2, FS_CardinalityType
  <2>4. CASE t = u
    <3>1. after = before \cup {f}
      <4>1. \A g \in Activators(u) : g # f => finishTime'[g] = finishTime[g]
        BY <1>8, <2>2
      <4>2. f \in Activators(u) /\ finishTime'[f] >= 0
        BY <1>6, <1>8, <2>2, <2>4
      <4> QED
        BY <4>1, <4>2
    <3> HIDE DEF before, after
    <3>2. Cardinality(after) = Cardinality(before) + 1
      BY <2>2, <2>3, <3>1, FS_AddElement
    <3>3. fired'[t] = fired[t] + 1
      <4>1. t # 0
        BY <2>4 DEF Trigs
      <4> HIDE DEF t
      <4> QED
        BY <1>4, <1>10, <4>1
    <3> QED
      BY <2>1, <2>4, <3>2, <3>3 DEF before, after
  <2>5. CASE t # u
    <3>1. after = before
      BY <1>8, <2>2, <2>5
    <3>2. fired'[u] = fired[u]
      <4> HIDE DEF t
      <4> QED
        BY <1>4, <1>10, <2>5
    <3> QED
      BY <2>1, <3>1, <3>2
  <2> QED
    BY <2>4, <2>5
<1>21. AtOnceOK(now, triggers, starts, startTime, finishTime)'
  <2>1. \A g, n, fin : AtOnce(g, n, fin)' <=> AtOnce(g, n, fin)
    BY <1>3, SameAtOnce
  <2>2. \A g \in Flows : matrix.trigger[g] # 0 =>
            (starts[g] = 1 => AtOnce(g, startTime[g], finishTime))
    BY DEF IInv, AtOnceOK
  <2>3. ASSUME NEW g \in Flows, matrix.trigger[g] # 0, starts[g] = 1
        PROVE  AtOnce(g, startTime[g], finishTime')
    <3> DEFINE u == matrix.trigger[g]
               as == Activators(u)
    <3>1. PICK h \in as : finishTime[h] = startTime[g]
      BY <2>2, <2>3 DEF AtOnce
    <3>2. h # f /\ h \in Flows
      <4>1. startTime[g] # -1
        BY <1>4
      <4> QED
        BY <1>7, <3>1, <4>1 DEF Activators
    <3>3. finishTime'[h] = startTime[g]
      BY <1>8, <3>1, <3>2
    <3>4. ASSUME matrix.type[u] = "barrier"
          PROVE  \A k \in as : finishTime'[k] <= startTime[g]
      <4>1. \A k \in as : finishTime[k] <= startTime[g]
        BY <2>2, <2>3, <3>4 DEF AtOnce
      <4>2. u # t
        BY <1>13, <1>18, <2>3, <3>4
      <4>3. \A k \in as : k \in Flows /\ k # f
        BY <4>2 DEF Activators
      <4> QED
        BY <1>8, <4>1, <4>3
    <3> QED
      BY <3>1, <3>3, <3>4 DEF AtOnce
  <2>4. ASSUME NEW g \in ToSet(triggers')
        PROVE  AtOnce(g, at, finishTime')
    <3>1. matrix.trigger[g] = t
      BY <1>11
    <3>2. f \in Activators(t)
      BY DEF Activators
    <3>3. \A k \in Activators(t) : finishTime'[k] <= at
      <4>1. \A k \in Flows : finishTime'[k] <= at
        <5> TAKE k \in Flows
        <5>1. finishTime'[k] \in Nat \cup {-1} /\ (finishTime'[k] >= 0 => finishTime'[k] <= at)
          BY <1>2, <1>8, <1>17 DEF FlowsOK
        <5> QED
          BY <1>6, <5>1
      <4> QED
        BY <4>1 DEF Activators
    <3> QED
      BY <1>8, <3>1, <3>2, <3>3 DEF AtOnce
  <2>5. \A g \in Flows : matrix.trigger[g] # 0 =>
            /\ starts'[g] = 1 => AtOnce(g, startTime'[g], finishTime')
            /\ g \in ToSet(triggers') => AtOnce(g, now', finishTime')
    BY <1>2, <1>3, <2>3, <2>4
  <2> HIDE DEF t
  <2> QED
    BY <1>3, <2>1, <2>5 DEF AtOnceOK
<1>22. Agenda(pending', now') /\ now' \in 0..(EndTime - 1)
  BY <1>2, <1>5, <1>6
<1> HIDE DEF t
<1> QED
  BY <1>3, <1>4, <1>8, <1>14, <1>15, <1>16, <1>17, <1>19, <1>20, <1>21, <1>22, SMTT(60) DEF IInv

LEMMA StutterStep == IInv /\ UNCHANGED vars => IInv'
<1> SUFFICES ASSUME IInv, UNCHANGED vars
             PROVE  IInv'
  OBVIOUS
<1>1. /\ matrix' = matrix /\ now' = now /\ pending' = pending /\ triggers' = triggers
      /\ fired' = fired /\ starts' = starts /\ startTime' = startTime
      /\ finishTime' = finishTime
  BY DEF vars, eventVars
<1>2. FreedOK(triggers, starts, fired)'
  BY <1>1, SameFreed DEF IInv, FreedOK
<1>3. FiredOK(fired, finishTime)'
  BY <1>1, SameTargets DEF IInv, FiredOK
<1>4. AtOnceOK(now, triggers, starts, startTime, finishTime)'
  BY <1>1, SameAtOnce DEF IInv, AtOnceOK
<1>5. /\ SourcesOK(Sources(pending), starts, finishTime)'
      /\ StackOK(triggers, starts)'
      /\ FlowsOK(now, starts, finishTime)'
  BY <1>1 DEF IInv, SourcesOK, StackOK, FlowsOK
<1> QED
  BY <1>1, <1>2, <1>3, <1>4, <1>5 DEF IInv

LEMMA InitIInv == Init => IInv
<1> SUFFICES ASSUME Init
             PROVE  IInv
  OBVIOUS
<1>1. /\ matrix \in Matrices /\ matrix \in Matrix /\ now = 0 /\ triggers = <<>>
      /\ pending = Connected(matrix)
      /\ fired = [t \in Trigs |-> 0] /\ starts = [f \in Flows |-> 0]
      /\ startTime = [f \in Flows |-> 0] /\ finishTime = [f \in Flows |-> -1]
  BY MatricesAssumption DEF Init
<1>2. /\ now \in 0..(EndTime - 1) /\ fired \in [Trigs -> Nat] /\ starts \in [Flows -> {0, 1}]
      /\ startTime \in [Flows -> Nat] /\ finishTime \in [Flows -> Nat \cup {-1}]
      /\ \A f \in Flows : starts[f] = 0 /\ finishTime[f] = -1
      /\ \A t \in Trigs : fired[t] = 0
  BY <1>1
<1>3. /\ Agenda(pending, now)
      /\ \A s \in Sources(pending) : \E f \in Flows : s = <<"start", f>> /\ matrix.trigger[f] = 0
  BY <1>1, ConnectedMeans
<1>4. SourcesOK(Sources(pending), starts, finishTime)
  <2> SUFFICES ASSUME NEW f \in Flows
               PROVE  /\ <<"start", f>> \in Sources(pending) =>
                            starts[f] = 0 /\ matrix.trigger[f] = 0
                      /\ <<"finish", f>> \in Sources(pending) =>
                            starts[f] = 1 /\ finishTime[f] = -1
    BY DEF SourcesOK
  <2>1. <<"finish", f>> \notin Sources(pending)
    <3>1. \A g \in Flows : <<"finish", f>> # <<"start", g>>
      OBVIOUS
    <3> QED
      BY <1>3, <3>1
  <2>2. <<"start", f>> \in Sources(pending) => matrix.trigger[f] = 0
    <3>1. \A g \in Flows : <<"start", f>> = <<"start", g>> => f = g
      OBVIOUS
    <3> QED
      BY <1>3, <3>1
  <2> QED
    BY <1>2, <2>1, <2>2
<1>5. ToSet(<<>>) = {} /\ <<>> \in Seq(Flows) /\ DOMAIN <<>> = {}
  BY DEF ToSet
<1>6. StackOK(triggers, starts)
  BY <1>1, <1>5 DEF StackOK
<1>7. FlowsOK(now, starts, finishTime)
  BY <1>2 DEF FlowsOK
<1>8. \A f \in Flows : ~(starts[f] = 1) /\ f \notin ToSet(triggers)
  BY <1>1, <1>2, <1>5
<1>9. FreedOK(triggers, starts, fired)
  BY <1>8 DEF FreedOK
<1>10. AtOnceOK(now, triggers, starts, startTime, finishTime)
  BY <1>8 DEF AtOnceOK
<1>11. FiredOK(fired, finishTime)
  <2> SUFFICES ASSUME NEW t \in Trigs
               PROVE  fired[t] = Cardinality({f \in Activators(t) : finishTime[f] >= 0})
    BY DEF FiredOK
  <2>1. {f \in Activators(t) : finishTime[f] >= 0} = {}
    BY <1>2 DEF Activators
  <2> QED
    BY <1>2, <2>1, FS_EmptySet
<1> QED
  BY <1>1, <1>2, <1>3, <1>4, <1>6, <1>7, <1>9, <1>10, <1>11 DEF IInv

\* Every step keeps the invariant.
LEMMA StepIInv == IInv /\ [Next]_vars => IInv'
  BY FireTriggerStep, WakeFlowStep, FinishFlowStep, StutterStep DEF Next

-----------------------------------------------------------------------------
(* Who has been released runs *)

\* Who has been released has been started or is about to be.
FreedRuns(s, st, fd) ==
    \A f \in Flows : /\ matrix.trigger[f] # 0 /\ fd[matrix.trigger[f]] > 0
                     /\ Freed(matrix.trigger[f], fd[matrix.trigger[f]], f)
                     => st[f] = 1 \/ f \in ToSet(s)

\* An activation releases whom those before it have not.
LEMMA ReleasedAll ==
    ASSUME matrix \in Matrix, NEW t \in Trigs, fired[t] \in Nat, MayActivate(t),
           NEW f \in Flows, matrix.trigger[f] = t, Freed(t, fired[t] + 1, f)
    PROVE  \/ fired[t] > 0 /\ Freed(t, fired[t], f)
           \/ f \in ToSet(Released(t, fired[t] + 1))
<1> DEFINE n == fired[t]
           u == Targets(t)
<1>1. matrix.type[t] \in {"oneshot", "multishot", "barrier"} /\ n \in Nat
  BY DEF Matrix
<1>2. u \in Seq(Flows) /\ f \in ToSet(u)
  BY TargetsMean DEF Targets
<1>3. CASE matrix.type[t] = "oneshot"
  <2>1. Released(t, n + 1) = u
    BY <1>3 DEF Released
  <2> QED
    BY <1>2, <2>1
<1>4. CASE matrix.type[t] = "barrier"
  <2>1. n + 1 = matrix.count[t]
    BY <1>4 DEF Freed
  <2>2. Released(t, n + 1) = u
    BY <1>4, <2>1 DEF Released
  <2> QED
    BY <1>2, <2>2
<1>5. CASE matrix.type[t] = "multishot"
  <2>1. PICK i \in 1..(n + 1) : i \in DOMAIN u /\ u[i] = f
    BY <1>5 DEF Freed
  <2>2. CASE i \in 1..n
    <3>1. Freed(t, n, f)
      BY <1>5, <2>1, <2>2 DEF Freed
    <3>2. n > 0
      BY <1>1, <2>2
    <3> QED
      BY <3>1, <3>2
  <2>3. CASE i = n + 1
    <3> HIDE DEF n, u
    <3>1. n + 1 \in DOMAIN u /\ u[n + 1] = f
      BY <2>1, <2>3
    <3>2. ~(n + 1 > Len(u))
      BY <1>1, <1>2, <3>1
    <3>3. Released(t, n + 1) = IF n + 1 > Len(u) THEN <<>> ELSE <<u[n + 1]>>
      BY <1>5 DEF Released, u
    <3>4. Released(t, n + 1) = <<f>>
      BY <3>1, <3>2, <3>3
    <3>5. f \in ToSet(<<f>>)
      <4>1. 1 \in DOMAIN <<f>> /\ <<f>>[1] = f
        OBVIOUS
      <4> QED
        BY <4>1 DEF ToSet
    <3> QED
      BY <3>4, <3>5 DEF n
  <2> QED
    BY <1>1, <2>1, <2>2, <2>3
<1> QED
  BY <1>1, <1>3, <1>4, <1>5

\* A flow that starts is not missed by those who wait on the stack.
LEMMA FreedRunsStart ==
    ASSUME IInv, FreedRuns(triggers, starts, fired), UNCHANGED <<matrix, fired>>,
           NEW f \in Flows, NEW at, NEW q, StartFlow(f, at, q), starts[f] = 0,
           ToSet(triggers) \subseteq ToSet(triggers') \cup {f}
    PROVE  FreedRuns(triggers, starts, fired)'
<1>1. starts \in [Flows -> {0, 1}] /\ starts' = [starts EXCEPT ![f] = 1]
  BY DEF IInv, StartFlow
<1>2. \A t, n, g : Freed(t, n, g)' <=> Freed(t, n, g)
  BY SameFreed
<1>3. \A g \in Flows : starts[g] = 1 \/ g \in ToSet(triggers) =>
                       starts'[g] = 1 \/ g \in ToSet(triggers')
  BY <1>1
<1> QED
  BY <1>2, <1>3 DEF FreedRuns

\* The event list fires the flow on top of the stack, which has not been started, and
\* leaves the others on it.
LEMMA FiresTop ==
    ASSUME IInv, NEW f \in Flows, NextIsTrigger(f),
           triggers' = SubSeq(triggers, 1, Len(triggers) - 1)
    PROVE  starts[f] = 0 /\ ToSet(triggers) \subseteq ToSet(triggers') \cup {f}
<1> DEFINE L == Len(triggers)
<1>1. /\ triggers \in Seq(Flows) /\ triggers # <<>> /\ f = triggers[L]
      /\ triggers' = SubSeq(triggers, 1, L - 1)
  BY DEF IInv, StackOK, NextIsTrigger
<1>2. L \in Nat /\ L >= 1 /\ DOMAIN triggers = 1..L /\ L \in 1..L
  BY <1>1
<1>3. starts[f] = 0
  <2>1. f \in ToSet(triggers)
    BY <1>1, <1>2 DEF ToSet
  <2> QED
    BY <2>1 DEF IInv, StackOK
<1> HIDE DEF L
<1>4. /\ DOMAIN triggers' = 1..(L - 1)
      /\ \A i \in 1..(L - 1) : triggers'[i] = triggers[i]
  BY <1>1, <1>2
<1>5. ToSet(triggers) \subseteq ToSet(triggers') \cup {f}
  <2>1. \A i \in 1..L : i = L \/ i \in 1..(L - 1)
    BY <1>2
  <2> QED
    BY <1>1, <1>2, <1>4, <2>1 DEF ToSet
<1> QED
  BY <1>3, <1>5

LEMMA FreedRunsFire ==
    ASSUME IInv, FreedRuns(triggers, starts, fired), FireTrigger
    PROVE  FreedRuns(triggers, starts, fired)'
<1>1. PICK f \in Flows : NextIsTrigger(f) /\ StartFlow(f, now, pending)
  BY DEF FireTrigger
<1>2. /\ triggers' = SubSeq(triggers, 1, Len(triggers) - 1)
      /\ UNCHANGED <<matrix, fired>>
  BY DEF FireTrigger
<1>3. starts[f] = 0 /\ ToSet(triggers) \subseteq ToSet(triggers') \cup {f}
  BY <1>1, <1>2, FiresTop
<1> QED
  BY <1>1, <1>2, <1>3, FreedRunsStart

LEMMA FreedRunsWake ==
    ASSUME IInv, FreedRuns(triggers, starts, fired), WakeFlow
    PROVE  FreedRuns(triggers, starts, fired)'
<1>1. PICK f \in Flows : NextIsSource(<<"start", f>>) /\ StartFlow(f, now', Tail(pending))
  BY DEF WakeFlow
<1>2. triggers' = triggers /\ UNCHANGED <<matrix, fired>>
  BY DEF WakeFlow
<1>3. starts[f] = 0
  <2>1. pending # <<>> /\ Head(pending).src = <<"start", f>> /\ Agenda(pending, now) /\ now \in Nat
    BY <1>1 DEF NextIsSource, IInv
  <2>2. <<"start", f>> \in Sources(pending)
    BY <2>1, AgendaTail
  <2> QED
    BY <2>2 DEF IInv, SourcesOK
<1> QED
  BY <1>1, <1>2, <1>3, FreedRunsStart

LEMMA FreedRunsFinish ==
    ASSUME IInv, FreedRuns(triggers, starts, fired), FinishFlow
    PROVE  FreedRuns(triggers, starts, fired)'
<1>1. PICK f \in Flows :
          LET t == matrix.sendDone[f] IN
          /\ NextIsSource(<<"finish", f>>)
          /\ finishTime' = [finishTime EXCEPT ![f] = now']
          /\ \/ t = 0 /\ UNCHANGED <<triggers, fired>>
             \/ /\ t # 0 /\ MayActivate(t)
                /\ fired' = [fired EXCEPT ![t] = @ + 1]
                /\ triggers' = triggers \o Released(t, fired[t] + 1)
  BY DEF FinishFlow
<1> DEFINE t == matrix.sendDone[f]
           s == Released(t, fired[t] + 1)
<1>2. triggers = <<>>
  BY <1>1 DEF NextIsSource
<1>3. matrix' = matrix /\ starts' = starts
  BY DEF FinishFlow
<1>4. /\ matrix \in Matrix /\ fired \in [Trigs -> Nat]
      /\ starts \in [Flows -> {0, 1}]
  BY MatricesAssumption DEF IInv
<1>5. FreedRuns(triggers, starts, fired)'
  <2>1. ASSUME NEW g \in Flows, matrix.trigger[g] # 0, fired[matrix.trigger[g]] > 0,
               Freed(matrix.trigger[g], fired[matrix.trigger[g]], g)
        PROVE  starts[g] = 1
    <3>1. g \notin ToSet(triggers)
      BY <1>2 DEF ToSet
    <3> QED
      BY <2>1, <3>1 DEF FreedRuns
  <2>2. \A u, n, g : Freed(u, n, g)' <=> Freed(u, n, g)
    BY <1>3, SameFreed
  <2> SUFFICES ASSUME NEW g \in Flows, matrix.trigger[g] # 0, fired'[matrix.trigger[g]] > 0,
                      Freed(matrix.trigger[g], fired'[matrix.trigger[g]], g)
               PROVE  starts[g] = 1 \/ g \in ToSet(triggers')
    BY <1>3, <2>2 DEF FreedRuns
  <2> DEFINE u == matrix.trigger[g]
  <2>3. u \in Trigs
    BY <1>4 DEF Matrix, Trigs
  <2>4. CASE t = u
    <3>1. t \in Trigs /\ t # 0
      BY <2>3, <2>4, SMTT(60)
    <3>2. MayActivate(t) /\ fired' = [fired EXCEPT ![t] = @ + 1] /\ triggers' = triggers \o s
      BY <1>1, <3>1
    <3>3. fired'[t] = fired[t] + 1 /\ fired[t] \in Nat
      BY <1>4, <3>1, <3>2
    <3>4. s \in Seq(Flows)
      BY <1>4, <3>1, <3>2, <3>3, ReleasedMeans
    <3>5. Freed(t, fired[t] + 1, g) /\ matrix.trigger[g] = t
      BY <2>4, <3>3
    <3>6. \/ fired[t] > 0 /\ Freed(t, fired[t], g)
          \/ g \in ToSet(s)
      <4> HIDE DEF t
      <4> QED
        BY <1>4, <3>1, <3>2, <3>3, <3>5, ReleasedAll
    <3> HIDE DEF s
    <3>7. <<>> \o s = s
      BY <3>4
    <3> QED
      BY <1>2, <2>1, <2>4, <3>2, <3>6, <3>7
  <2>5. CASE t # u
    <3>1. fired'[u] = fired[u]
      BY <1>1, <1>4, <2>3, <2>5
    <3> QED
      BY <2>1, <3>1
  <2> QED
    BY <2>4, <2>5
<1> QED
  BY <1>5

LEMMA FreedRunsInit == Init => FreedRuns(triggers, starts, fired)
<1> SUFFICES ASSUME Init
             PROVE  FreedRuns(triggers, starts, fired)
  OBVIOUS
<1>1. matrix \in Matrix /\ \A t \in Trigs : fired[t] = 0
  BY MatricesAssumption DEF Init
<1>2. \A f \in Flows : matrix.trigger[f] # 0 => matrix.trigger[f] \in Trigs
  BY <1>1 DEF Matrix, Trigs
<1> QED
  BY <1>1, <1>2 DEF FreedRuns

LEMMA FreedRunsPreserved ==
    IInv /\ FreedRuns(triggers, starts, fired) /\ [Next]_vars => FreedRuns(triggers, starts, fired)'
<1> SUFFICES ASSUME IInv, FreedRuns(triggers, starts, fired), [Next]_vars
             PROVE  FreedRuns(triggers, starts, fired)'
  OBVIOUS
<1>1. CASE UNCHANGED vars
  <2>1. matrix' = matrix /\ triggers' = triggers /\ fired' = fired /\ starts' = starts
    BY <1>1 DEF vars, eventVars
  <2> QED
    BY <2>1, SameFreed DEF FreedRuns
<1> QED
  BY <1>1, FreedRunsFire, FreedRunsWake, FreedRunsFinish DEF Next

\* A multishot trigger without targets left has started all that wait for it.
LEMMA MultishotOver ==
    ASSUME IInv, FreedRuns(triggers, starts, fired), triggers = <<>>,
           NEW t \in Trigs, matrix.type[t] = "multishot", fired[t] >= Len(Targets(t)),
           NEW f \in Flows, matrix.trigger[f] = t
    PROVE  starts[f] = 1
<1> DEFINE u == Targets(t)
           n == fired[t]
<1>1. /\ matrix \in Matrix /\ n \in Nat /\ t # 0
  BY MatricesAssumption DEF IInv, Trigs
<1>2. u \in Seq(Flows) /\ f \in ToSet(u)
  BY <1>1, TargetsMean DEF Targets
<1>3. PICK i \in DOMAIN u : u[i] = f
  BY <1>2 DEF ToSet
<1>4. i \in 1..n /\ n > 0
  <2> HIDE DEF u, n
  <2>1. i \in 1..Len(u) /\ Len(u) \in Nat
    BY <1>2, <1>3
  <2>2. n >= Len(u)
    BY DEF u, n
  <2> QED
    BY <1>1, <2>1, <2>2
<1>5. Freed(t, n, f)
  BY <1>3, <1>4 DEF Freed
<1>6. f \notin ToSet(triggers)
  BY DEF ToSet
<1> QED
  BY <1>1, <1>4, <1>5, <1>6 DEF FreedRuns

-----------------------------------------------------------------------------
(* The theorems *)

\* The invariant of the event list, the triggers and the flows: what is pending, what
\* is on the stack, and that a flow with a trigger has started only if the activations
\* of its trigger so far release it.
THEOREM TriggersInvariance == Spec => []IInv
<1> QED
  BY InitIInv, StepIInv, PTL DEF Spec

\* Every variable keeps its type: sourceIsPending keeps the sources within the end of
\* the simulation, and no trigger is activated more often than there are flows.
THEOREM TriggersTypeCorrect == Spec => []TypeOK
<1>1. IInv => TypeOK
  <2> SUFFICES ASSUME IInv
               PROVE  TypeOK
    OBVIOUS
  <2>1. /\ pending \in Seq(Entry) /\ triggers \in Seq(Flows)
    BY DEF IInv, Agenda, StackOK
  <2>2. fired \in [Trigs -> 0..NFlows]
    <3>1. ASSUME NEW t \in Trigs
          PROVE  fired[t] \in 0..NFlows
      <4> DEFINE S == {f \in Activators(t) : finishTime[f] >= 0}
      <4>1. fired[t] = Cardinality(S) /\ fired[t] \in Nat
        BY DEF IInv, FiredOK
      <4>2. S \in SUBSET Flows
        BY DEF Activators
      <4>3. IsFiniteSet(Flows) /\ Cardinality(Flows) = NFlows
        BY FS_Interval DEF Flows
      <4> HIDE DEF S
      <4>4. Cardinality(S) <= NFlows
        BY <4>2, <4>3, FS_Subset
      <4> QED
        BY <4>1, <4>4
    <3>2. fired = [t \in Trigs |-> fired[t]]
      BY DEF IInv
    <3> QED
      BY <3>1, <3>2
  <2>3. starts \in [Flows -> Nat]
    BY DEF IInv
  <2> QED
    BY <2>1, <2>2, <2>3 DEF IInv, TypeOK, Entry
<1> QED
  BY <1>1, TriggersInvariance, PTL

\* A flow is started at most once, by its start time or by its trigger, for every
\* connection matrix, whatever activates the trigger and how often.
THEOREM FlowsStartOnce == Spec => []StartedOnce
<1>1. IInv => StartedOnce
  BY DEF IInv, StartedOnce
<1> QED
  BY <1>1, TriggersInvariance, PTL

\* The matrices activate a trigger no more often than it takes, and only one for which
\* some flow waits.
ActivatedAsTaken ==
    \A m \in Matrices, t \in Trigs : m.type[t] # "multishot" =>
        LET activators == {f \in Flows : m.sendDone[f] = t} IN
        /\ Cardinality(activators) <= (IF m.type[t] = "oneshot" THEN 1 ELSE m.count[t])
        /\ activators # {} => \E f \in Flows : m.trigger[f] = t

\* With such a matrix, a flow with a trigger starts at the moment one of the flows that
\* activate it finishes, and at a barrier the last of them.
THEOREM TriggersActAtOnce ==
    ASSUME ActivatedAsTaken
    PROVE  Spec => []TriggeredAtOnce
<1>1. IInv => TriggeredAtOnce
  <2> SUFFICES ASSUME IInv, NEW f \in Flows, starts[f] > 0, matrix.trigger[f] # 0
               PROVE  LET before == Activators(matrix.trigger[f]) IN
                      /\ \E g \in before : finishTime[g] = startTime[f]
                      /\ matrix.type[matrix.trigger[f]] = "barrier" =>
                            \A g \in before : Finished(g) /\ finishTime[g] <= startTime[f]
    BY DEF TriggeredAtOnce
  <2> DEFINE t == matrix.trigger[f]
             before == Activators(t)
             over == {g \in before : finishTime[g] >= 0}
  <2>1. starts[f] = 1
    BY DEF IInv
  <2>2. AtOnce(f, startTime[f], finishTime) /\ Freed(t, fired[t], f)
    BY <2>1 DEF IInv, AtOnceOK, FreedOK
  <2>3. t \in Trigs /\ matrix \in Matrices
    BY MatricesAssumption DEF IInv, Matrix, Trigs
  <2>4. ASSUME matrix.type[t] = "barrier"
        PROVE  \A g \in before : Finished(g)
    <3>1. fired[t] = Cardinality(over)
      BY <2>3 DEF IInv, FiredOK
    <3>2. fired[t] = matrix.count[t] /\ fired[t] \in Nat
      BY <2>2, <2>3, <2>4 DEF Freed, IInv
    <3>3. Cardinality(before) <= matrix.count[t]
      BY <2>3, <2>4 DEF ActivatedAsTaken, Activators
    <3>4. over \in SUBSET before /\ IsFiniteSet(before)
      <4>1. IsFiniteSet(Flows) /\ before \in SUBSET Flows
        BY FS_Interval, SMTT(60) DEF Flows, Activators
      <4> HIDE DEF before
      <4>2. IsFiniteSet(before)
        BY <4>1, FS_Subset
      <4> QED
        BY <4>2
    <3> HIDE DEF over, before, t
    <3>5. Cardinality(over) <= Cardinality(before) /\ Cardinality(before) \in Nat
      BY <3>4, FS_Subset, FS_CardinalityType
    <3>6. Cardinality(before) = Cardinality(over)
      BY <3>1, <3>2, <3>3, <3>5
    <3>7. before = over
      BY <3>4, <3>6, FS_Subset
    <3> QED
      BY <3>7 DEF over, Finished
  <2> QED
    BY <2>2, <2>4 DEF AtOnce
<1> QED
  BY <1>1, TriggersInvariance, PTL

\* With such a matrix a trigger takes every activation: a flow that finishes next finds
\* a oneshot trigger or a barrier with an activation left and with a target, and a
\* multishot trigger with a target left, or with everyone that waits for it started.
THEOREM EveryActivationTaken ==
    ASSUME ActivatedAsTaken
    PROVE  Spec => []ActivationsTaken
<1>1. IInv /\ FreedRuns(triggers, starts, fired) => ActivationsTaken
  <2> SUFFICES ASSUME IInv, FreedRuns(triggers, starts, fired), NEW f \in Flows,
                      triggers = <<>>, pending # <<>>,
                      Head(pending).src = <<"finish", f>>, matrix.sendDone[f] # 0
               PROVE  LET t == matrix.sendDone[f] IN
                      /\ MayActivate(t)
                      /\ matrix.type[t] = "multishot" /\ fired[t] >= Len(Targets(t)) =>
                            \A g \in Flows : matrix.trigger[g] = t => starts[g] = 1
    BY DEF ActivationsTaken
  <2> DEFINE t == matrix.sendDone[f]
             all == Activators(t)
             over == {g \in all : finishTime[g] >= 0}
             limit == IF matrix.type[t] = "oneshot" THEN 1 ELSE matrix.count[t]
  <2>1. /\ matrix \in Matrices /\ matrix \in Matrix /\ t \in Trigs
        /\ fired[t] = Cardinality(over) /\ fired[t] \in Nat
    <3>1. /\ matrix \in Matrices /\ matrix \in Matrix
          /\ fired \in [Trigs -> Nat] /\ FiredOK(fired, finishTime)
      BY MatricesAssumption DEF IInv
    <3>2. t \in 0..NTrigs
      BY <3>1 DEF Matrix
    <3>3. t \in Trigs
      BY <3>2 DEF Trigs
    <3> HIDE DEF t
    <3> QED
      BY <3>1, <3>3 DEF FiredOK
  <2>2. f \in all /\ f \notin over
    <3>1. Agenda(pending, now) /\ now \in Nat
      BY DEF IInv
    <3>2. <<"finish", f>> \in Sources(pending)
      BY <3>1, AgendaTail
    <3>3. finishTime[f] = -1
      BY <3>2 DEF IInv, SourcesOK
    <3> QED
      BY <3>3 DEF Activators
  <2>3. MayActivate(t)
    <3> SUFFICES ASSUME matrix.type[t] # "multishot"
                 PROVE  Targets(t) # <<>> /\ fired[t] < limit
      BY DEF MayActivate
    <3>1. Cardinality(all) <= limit /\ \E g \in Flows : matrix.trigger[g] = t
      BY <2>1, <2>2 DEF ActivatedAsTaken, Activators
    <3>2. Targets(t) # <<>>
      <4>1. ToSet(Targets(t)) # {}
        BY <2>1, <3>1, TargetsMean DEF Targets
      <4>2. ToSet(<<>>) = {}
        BY DEF ToSet
      <4> QED
        BY <4>1, <4>2
    <3>3. fired[t] < Cardinality(all) /\ Cardinality(all) \in Nat
      <4>1. over \in SUBSET all /\ IsFiniteSet(all)
        <5>1. IsFiniteSet(Flows) /\ all \in SUBSET Flows
          BY FS_Interval, SMTT(60) DEF Flows, Activators
        <5> HIDE DEF all
        <5>2. IsFiniteSet(all)
          BY <5>1, FS_Subset
        <5> QED
          BY <5>2
      <4> HIDE DEF over, all, t
      <4>2. Cardinality(over) <= Cardinality(all) /\ Cardinality(all) \in Nat
        BY <4>1, FS_Subset, FS_CardinalityType
      <4>3. Cardinality(over) # Cardinality(all)
        BY <2>2, <4>1, FS_Subset
      <4> QED
        BY <2>1, <4>2, <4>3
    <3>4. limit \in Nat
      <4>1. matrix.count[t] \in 0..NFlows
        BY <2>1 DEF Matrix
      <4> HIDE DEF t
      <4> QED
        BY <4>1
    <3> HIDE DEF limit, all, t
    <3> QED
      BY <2>1, <3>1, <3>2, <3>3, <3>4
  <2>4. ASSUME matrix.type[t] = "multishot", fired[t] >= Len(Targets(t)),
               NEW g \in Flows, matrix.trigger[g] = t
        PROVE  starts[g] = 1
    <3>1. t # 0
      OBVIOUS
    <3> HIDE DEF t
    <3> QED
      BY <2>1, <2>4, <3>1, MultishotOver
  <2> HIDE DEF t
  <2> QED
    BY <2>3, <2>4 DEF t
<1>2. Spec => [](IInv /\ FreedRuns(triggers, starts, fired))
  BY InitIInv, FreedRunsInit, StepIInv, FreedRunsPreserved, PTL DEF Spec
<1> QED
  BY <1>1, <1>2, PTL

-----------------------------------------------------------------------------
(* Every flow runs *)

Waiting(t) == {f \in Flows : matrix.trigger[f] = t}

\* The matrices activate a trigger as often as its flows need.
ActivatedAsNeeded ==
    \A m \in Matrices, t \in Trigs :
        LET activators == {f \in Flows : m.sendDone[f] = t}
            waiting    == {f \in Flows : m.trigger[f] = t}
        IN  waiting # {} =>
              /\ activators # {}
              /\ m.type[t] = "multishot" => Cardinality(activators) >= Cardinality(waiting)
              /\ m.type[t] = "barrier" => m.count[t] = Cardinality(activators)

\* No flows wait for one another in a circle: of any flows some has no trigger, or
\* none of them activates it.
NoCircle ==
    \A m \in Matrices, S \in SUBSET Flows : S # {} =>
        \E f \in S : m.trigger[f] = 0 \/ \A g \in S : m.sendDone[g] # m.trigger[f]

\* No flow takes longer than D, and the simulation longer than all of them in turn.
LongEnough(D) == (\A d \in Durations : d <= D) /\ NFlows * D < EndTime

\* Who has been started.
Started(st) == {f \in Flows : st[f] = 1}

\* Nothing is pending for later than the flows started so far may take.
InTime(q, n, D, st) ==
    /\ n <= D * Cardinality(Started(st))
    /\ \A i \in DOMAIN q : q[i].time <= D * Cardinality(Started(st))

\* A flow without a trigger is pending until it starts, and any flow that has started
\* until it finishes.
FlowsAhead(S, st, fin) ==
    \A f \in Flows : /\ st[f] = 0 /\ matrix.trigger[f] = 0 => <<"start", f>> \in S
                     /\ st[f] = 1 => <<"finish", f>> \in S \/ fin[f] >= 0

RunInv(D) ==
    /\ InTime(pending, now, D, starts)
    /\ FlowsAhead(Sources(pending), starts, finishTime)
    /\ FreedRuns(triggers, starts, fired)

\* What has been started is a finite number of flows.
LEMMA StartedFinite ==
    ASSUME NEW st
    PROVE  /\ IsFiniteSet(Started(st))
           /\ Cardinality(Started(st)) \in 0..NFlows
<1> DEFINE S == Started(st)
<1>1. S \in SUBSET Flows
  BY DEF Started
<1>2. IsFiniteSet(Flows) /\ Cardinality(Flows) = NFlows
  BY FS_Interval DEF Flows
<1> HIDE DEF S
<1>3. IsFiniteSet(S) /\ Cardinality(S) <= NFlows
  BY <1>1, <1>2, FS_Subset
<1>4. Cardinality(S) \in Nat
  BY <1>3, FS_CardinalityType
<1> QED
  BY <1>3, <1>4 DEF S

\* A flow starts at time at, with q left to wake: it will finish before the end.
LEMMA StartRuns ==
    ASSUME IInv, NEW D \in Nat, RunInv(D), LongEnough(D),
           UNCHANGED <<matrix, fired, finishTime>>,
           NEW f \in Flows, starts[f] = 0,
           NEW at \in Nat, now' = at, at <= D * Cardinality(Started(starts)),
           NEW q \in Seq(Entry), StartFlow(f, at, q),
           Sources(pending) \subseteq Sources(q) \cup {<<"start", f>>},
           \A i \in DOMAIN q : q[i].time <= D * Cardinality(Started(starts)),
           ToSet(triggers) \subseteq ToSet(triggers') \cup {f}
    PROVE  RunInv(D)'
<1> DEFINE c == Cardinality(Started(starts))
<1>1. starts \in [Flows -> {0, 1}] /\ starts' = [starts EXCEPT ![f] = 1]
  BY DEF IInv, StartFlow
<1>2. starts'[f] = 1 /\ \A g \in Flows : g # f => starts'[g] = starts[g]
  BY <1>1
<1>3. Cardinality(Started(starts')) = c + 1 /\ c \in Nat /\ c + 1 <= NFlows
  <2>1. Started(starts') = Started(starts) \cup {f} /\ f \notin Started(starts)
    BY <1>2 DEF Started
  <2>2. IsFiniteSet(Started(starts)) /\ c \in Nat
    BY StartedFinite
  <2>3. Cardinality(Started(starts')) = c + 1
    BY <2>1, <2>2, FS_AddElement, ZenonT(60)
  <2>4. Cardinality(Started(starts')) \in 0..NFlows
    BY StartedFinite
  <2> QED
    BY <2>2, <2>3, <2>4
<1>4. PICK d \in Durations : pending' = SourceIsPending(q, <<"finish", f>>, at + d)
  BY DEF StartFlow
<1> HIDE DEF c
<1>5. D * c \in Nat /\ D * (c + 1) = D * c + D /\ D * (c + 1) <= NFlows * D /\ NFlows * D \in Nat
  <2>1. D * c \in Nat /\ D * (c + 1) = D * c + D
    <3>1. c \in Nat /\ D \in Nat
      BY <1>3
    <3> QED
      BY ONLY <3>1
  <2>2. NFlows - (c + 1) \in Nat
    BY <1>3
  <2>3. D * (NFlows - (c + 1)) >= 0
    BY <2>2
  <2>4. D * (NFlows - (c + 1)) = NFlows * D - D * (c + 1)
    BY <1>3
  <2>5. D * (c + 1) \in Nat /\ NFlows * D \in Nat
    BY <1>3
  <2> QED
    BY <2>1, <2>3, <2>4, <2>5
<1>6. /\ at + d \in Nat /\ at + d <= D * (c + 1) /\ at + d < EndTime
  <2>1. d \in Nat /\ d <= D
    BY DEF LongEnough
  <2>2. at <= D * c /\ NFlows * D < EndTime
    BY DEF c, LongEnough
  <2> QED
    BY <1>5, <2>1, <2>2
<1>7. /\ Sources(q) \cup {<<"finish", f>>} \subseteq Sources(pending')
      /\ \A i \in DOMAIN pending' :
            pending'[i].time = at + d \/ \E j \in DOMAIN q : pending'[i].time = q[j].time
  <2>1. <<"finish", f>> \in {"start", "finish"} \X Flows
    OBVIOUS
  <2> QED
    BY <1>4, <1>6, <2>1, InsertKeeps, SMTT(60)
<1>8. InTime(pending, now, D, starts)'
  <2>1. at <= D * (c + 1)
    BY <1>5 DEF c
  <2>2. \A j \in DOMAIN q : q[j].time <= D * (c + 1)
    <3>1. \A j \in DOMAIN q : q[j].time \in Nat
      <4>1. \A x \in Entry : x.time \in Nat
        BY DEF Entry
      <4>2. \A j \in DOMAIN q : q[j] \in Entry
        OBVIOUS
      <4> QED
        BY <4>1, <4>2
    <3> QED
      BY <1>5, <3>1 DEF c
  <2>3. \A i \in DOMAIN pending' : pending'[i].time <= D * (c + 1)
    BY <1>6, <1>7, <2>2
  <2> QED
    BY <1>3, <2>1, <2>3 DEF InTime
<1>9. FlowsAhead(Sources(pending), starts, finishTime)'
  <2>1. FlowsAhead(Sources(pending), starts, finishTime)
    BY DEF RunInv
  <2> SUFFICES ASSUME NEW g \in Flows
               PROVE  /\ starts'[g] = 0 /\ matrix.trigger[g] = 0 =>
                            <<"start", g>> \in Sources(pending')
                      /\ starts'[g] = 1 =>
                            <<"finish", g>> \in Sources(pending') \/ finishTime[g] >= 0
    BY DEF FlowsAhead
  <2>2. CASE g = f
    BY <1>2, <1>7, <2>2
  <2>3. CASE g # f
    <3>1. <<"start", g>> # <<"start", f>> /\ <<"finish", g>> # <<"start", f>>
      BY <2>3
    <3> QED
      BY <1>2, <1>7, <2>1, <2>3, <3>1 DEF FlowsAhead
  <2> QED
    BY <2>2, <2>3
<1>10. FreedRuns(triggers, starts, fired)'
  <2>1. FreedRuns(triggers, starts, fired)
    BY DEF RunInv
  <2> QED
    BY <2>1, FreedRunsStart
<1> QED
  BY <1>8, <1>9, <1>10 DEF RunInv

LEMMA FireTriggerRuns ==
    ASSUME NEW D \in Nat, LongEnough(D), IInv, RunInv(D), FireTrigger
    PROVE  RunInv(D)'
<1>1. PICK f \in Flows : NextIsTrigger(f) /\ StartFlow(f, now, pending)
  BY DEF FireTrigger
<1>2. starts[f] = 0 /\ ToSet(triggers) \subseteq ToSet(triggers') \cup {f}
  BY <1>1, FiresTop DEF FireTrigger
<1>3. /\ now \in Nat /\ now' = now /\ pending \in Seq(Entry)
      /\ UNCHANGED <<matrix, fired, finishTime>>
      /\ now <= D * Cardinality(Started(starts))
      /\ \A i \in DOMAIN pending : pending[i].time <= D * Cardinality(Started(starts))
  BY DEF FireTrigger, IInv, Agenda, RunInv, InTime
<1> QED
  BY <1>1, <1>2, <1>3, StartRuns

LEMMA WakeFlowRuns ==
    ASSUME NEW D \in Nat, LongEnough(D), IInv, RunInv(D), WakeFlow
    PROVE  RunInv(D)'
<1>1. PICK f \in Flows : NextIsSource(<<"start", f>>) /\ StartFlow(f, now', Tail(pending))
  BY DEF WakeFlow
<1>2. /\ triggers = <<>> /\ pending # <<>> /\ Head(pending).src = <<"start", f>>
      /\ now' = Head(pending).time
  BY <1>1 DEF NextIsSource
<1>3. triggers' = triggers /\ UNCHANGED <<matrix, fired, finishTime>>
  BY DEF WakeFlow
<1>4. Agenda(pending, now) /\ now \in Nat /\ pending \in Seq(Entry)
  BY DEF IInv, Agenda
<1> DEFINE q == Tail(pending)
           at == now'
           b == D * Cardinality(Started(starts))
<1>5. Head(pending) \in Entry /\ <<"start", f>> \in Sources(pending)
  BY <1>2, <1>4, AgendaTail
<1>6. starts[f] = 0
  BY <1>5 DEF IInv, SourcesOK
<1>7. \A i \in DOMAIN pending : pending[i].time <= b
  BY DEF RunInv, InTime
<1> HIDE DEF b
<1>8. at \in Nat /\ at <= b
  <2>1. 1 \in DOMAIN pending /\ Head(pending) = pending[1]
    BY <1>2, <1>4
  <2> QED
    BY <1>2, <1>5, <1>7, <2>1 DEF Entry
<1>9. /\ q \in Seq(Entry)
      /\ Sources(pending) \subseteq Sources(q) \cup {<<"start", f>>}
      /\ \A i \in DOMAIN q : \E j \in DOMAIN pending : q[i].time = pending[j].time
  BY <1>2, <1>4, TailKeeps
<1> HIDE DEF q
<1>10. \A i \in DOMAIN q : q[i].time <= b
  BY <1>7, <1>9
<1>11. StartFlow(f, at, q)
  BY <1>1 DEF q
<1> HIDE DEF at
<1>12. now' = at
  BY DEF at
<1> QED
  BY <1>3, <1>6, <1>8, <1>9, <1>10, <1>11, <1>12, StartRuns DEF b

LEMMA FinishFlowRuns ==
    ASSUME NEW D \in Nat, LongEnough(D), IInv, RunInv(D), FinishFlow
    PROVE  RunInv(D)'
<1>1. PICK f \in Flows :
          LET t == matrix.sendDone[f] IN
          /\ NextIsSource(<<"finish", f>>)
          /\ finishTime' = [finishTime EXCEPT ![f] = now']
          /\ \/ t = 0 /\ UNCHANGED <<triggers, fired>>
             \/ /\ t # 0 /\ MayActivate(t)
                /\ fired' = [fired EXCEPT ![t] = @ + 1]
                /\ triggers' = triggers \o Released(t, fired[t] + 1)
  BY DEF FinishFlow
<1> DEFINE t == matrix.sendDone[f]
           at == Head(pending).time
           b == D * Cardinality(Started(starts))
<1>2. /\ triggers = <<>> /\ pending # <<>> /\ Head(pending).src = <<"finish", f>>
      /\ now' = at
  BY <1>1 DEF NextIsSource
<1>3. pending' = Tail(pending) /\ matrix' = matrix /\ starts' = starts
  BY DEF FinishFlow
<1>4. /\ matrix \in Matrix /\ pending \in Seq(Entry)
      /\ fired \in [Trigs -> Nat] /\ starts \in [Flows -> {0, 1}]
      /\ finishTime \in [Flows -> Nat \cup {-1}]
  BY MatricesAssumption DEF IInv, Agenda
<1>5. \A i \in DOMAIN pending : pending[i].time <= b
  BY DEF RunInv, InTime
<1> HIDE DEF b
<1>6. at \in Nat /\ at <= b
  <2>1. 1 \in DOMAIN pending /\ Head(pending) = pending[1] /\ pending[1] \in Entry
    BY <1>2, <1>4
  <2> QED
    BY <1>5, <2>1 DEF Entry
<1>7. /\ Sources(pending) \subseteq Sources(pending') \cup {<<"finish", f>>}
      /\ \A i \in DOMAIN pending' : \E j \in DOMAIN pending : pending'[i].time = pending[j].time
  BY <1>2, <1>3, <1>4, TailKeeps
<1>8. finishTime'[f] = at /\ \A g \in Flows : g # f => finishTime'[g] = finishTime[g]
  <2>1. finishTime' = [finishTime EXCEPT ![f] = at]
    BY <1>1, <1>2
  <2> QED
    BY <1>4, <2>1
<1>9. InTime(pending, now, D, starts)'
  <2>1. \A i \in DOMAIN pending' : pending'[i].time <= b
    BY <1>5, <1>7
  <2>2. now' <= b
    BY <1>2, <1>6
  <2> QED
    BY <1>3, <2>1, <2>2 DEF InTime, b
<1>10. FlowsAhead(Sources(pending), starts, finishTime)'
  <2>1. FlowsAhead(Sources(pending), starts, finishTime)
    BY DEF RunInv
  <2> SUFFICES ASSUME NEW g \in Flows
               PROVE  /\ starts[g] = 0 /\ matrix.trigger[g] = 0 =>
                            <<"start", g>> \in Sources(pending')
                      /\ starts[g] = 1 =>
                            <<"finish", g>> \in Sources(pending') \/ finishTime'[g] >= 0
    BY <1>3 DEF FlowsAhead
  <2>2. <<"start", g>> # <<"finish", f>>
    OBVIOUS
  <2>3. CASE g = f
    <3>1. finishTime'[g] >= 0
      BY <1>6, <1>8, <2>3
    <3> QED
      BY <1>7, <2>1, <2>2, <3>1 DEF FlowsAhead
  <2>4. CASE g # f
    <3>1. <<"finish", g>> # <<"finish", f>>
      BY <2>4
    <3> QED
      BY <1>7, <1>8, <2>1, <2>2, <2>4, <3>1 DEF FlowsAhead
  <2> QED
    BY <2>3, <2>4
<1>11. FreedRuns(triggers, starts, fired)'
  BY FreedRunsFinish DEF RunInv
<1> QED
  BY <1>9, <1>10, <1>11, SMTT(60) DEF RunInv

LEMMA InitRuns ==
    ASSUME NEW D \in Nat, Init
    PROVE  RunInv(D)
<1>1. /\ matrix \in Matrix /\ now = 0 /\ pending = Connected(matrix)
      /\ \A f \in Flows : starts[f] = 0
      /\ \A t \in Trigs : fired[t] = 0
  BY MatricesAssumption DEF Init
<1>2. /\ \A f \in Flows : matrix.trigger[f] = 0 => <<"start", f>> \in Sources(pending)
      /\ \A i \in DOMAIN pending : pending[i].time = 0
  BY <1>1, ConnectedMeans
<1>3. InTime(pending, now, D, starts)
  <2>1. Cardinality(Started(starts)) \in Nat
    BY StartedFinite
  <2>2. D * Cardinality(Started(starts)) >= 0
    BY <2>1
  <2> QED
    BY <1>1, <1>2, <2>2 DEF InTime
<1>4. FlowsAhead(Sources(pending), starts, finishTime)
  <2>1. \A f \in Flows : ~(starts[f] = 1)
    BY <1>1
  <2> QED
    BY <1>2, <2>1, Zenon DEF FlowsAhead
<1>5. FreedRuns(triggers, starts, fired)
  BY FreedRunsInit
<1> QED
  BY <1>3, <1>4, <1>5 DEF RunInv

LEMMA RunsPreserved ==
    ASSUME NEW D \in Nat, LongEnough(D)
    PROVE  IInv /\ RunInv(D) /\ [Next]_vars => RunInv(D)'
<1> SUFFICES ASSUME IInv, RunInv(D), [Next]_vars
             PROVE  RunInv(D)'
  OBVIOUS
<1>1. CASE UNCHANGED vars
  <2>1. /\ matrix' = matrix /\ now' = now /\ pending' = pending /\ triggers' = triggers
        /\ fired' = fired /\ starts' = starts /\ finishTime' = finishTime
    BY <1>1 DEF vars, eventVars
  <2>2. FreedRuns(triggers, starts, fired)'
    BY FreedRunsPreserved DEF RunInv
  <2> QED
    BY <2>1, <2>2 DEF RunInv, InTime, FlowsAhead
<1> QED
  BY <1>1, FireTriggerRuns, WakeFlowRuns, FinishFlowRuns DEF Next

\* When all that activate its trigger have finished, a flow has been released.
LEMMA ReleasedInTheEnd ==
    ASSUME ActivatedAsNeeded, IInv, NEW f \in Flows, matrix.trigger[f] # 0,
           \A g \in Activators(matrix.trigger[f]) : finishTime[g] >= 0
    PROVE  /\ fired[matrix.trigger[f]] > 0
           /\ Freed(matrix.trigger[f], fired[matrix.trigger[f]], f)
<1> DEFINE t == matrix.trigger[f]
           A == Activators(t)
           W == Waiting(t)
           u == Targets(t)
           n == fired[t]
<1>1. matrix \in Matrices /\ matrix \in Matrix /\ t \in Trigs
  <2>1. matrix \in Matrices /\ matrix \in Matrix
    BY MatricesAssumption DEF IInv
  <2>2. t \in 0..NTrigs
    BY <2>1 DEF Matrix
  <2> QED
    BY <2>1, <2>2 DEF Trigs
<1>2. n = Cardinality(A) /\ n \in Nat
  <2>1. {g \in A : finishTime[g] >= 0} = A
    OBVIOUS
  <2> QED
    BY <1>1, <2>1 DEF IInv, FiredOK
<1>3. f \in W
  BY DEF Waiting
<1>4. /\ A # {}
      /\ matrix.type[t] = "multishot" => Cardinality(A) >= Cardinality(W)
      /\ matrix.type[t] = "barrier" => matrix.count[t] = Cardinality(A)
  BY <1>1, <1>3 DEF ActivatedAsNeeded, Activators, Waiting
<1>5. IsFiniteSet(A) /\ IsFiniteSet(W)
  <2>1. A \in SUBSET Flows /\ W \in SUBSET Flows /\ IsFiniteSet(Flows)
    BY FS_Interval DEF Activators, Waiting, Flows
  <2> HIDE DEF A, W
  <2> QED
    BY <2>1, FS_Subset
<1>6. /\ u \in Seq(Flows)
      /\ \A i, j \in DOMAIN u : u[i] = u[j] => i = j
      /\ \A g : g \in ToSet(u) <=> g \in W
  BY <1>1, TargetsMean DEF Targets, Waiting
<1> HIDE DEF A, W, u, n, t
<1>7. n > 0
  <2>1. Cardinality(A) # 0
    BY <1>4, <1>5, FS_EmptySet
  <2> QED
    BY <1>2, <2>1
<1>8. ASSUME matrix.type[t] = "multishot"
      PROVE  \E i \in 1..n : i \in DOMAIN u /\ u[i] = f
  <2>1. PICK i \in DOMAIN u : u[i] = f
    BY <1>3, <1>6 DEF ToSet
  <2>2. i \in Nat /\ i >= 1 /\ \A j \in 1..i : j \in DOMAIN u
    BY <1>6
  <2>3. i <= Cardinality(W)
    <3> DEFINE e == [j \in 1..i |-> u[j]]
    <3>1. e \in Injection(1..i, W)
      <4>1. \A j \in 1..i : u[j] \in W
        BY <1>6, <2>2 DEF ToSet
      <4>2. e \in [1..i -> W]
        BY <4>1
      <4>3. \A j, k \in 1..i : e[j] = e[k] => j = k
        BY <1>6, <2>2
      <4> QED
        BY <4>2, <4>3 DEF Injection, IsInjective
    <3>2. IsFiniteSet(1..i) /\ Cardinality(1..i) = i
      BY <2>2, FS_Interval
    <3> HIDE DEF e
    <3> QED
      BY <1>5, <3>1, <3>2, FS_Injection
  <2>4. Cardinality(W) \in Nat
    BY <1>5, FS_CardinalityType
  <2>5. i <= n
    BY <1>2, <1>4, <1>8, <2>2, <2>3, <2>4
  <2> QED
    BY <1>2, <2>1, <2>2, <2>5
<1>9. Freed(t, n, f)
  <2>1. matrix.type[t] = "barrier" => n = matrix.count[t]
    BY <1>2, <1>4
  <2>2. n >= 1
    BY <1>2, <1>7
  <2> QED
    BY <1>8, <2>1, <2>2 DEF Freed, u
<1> QED
  BY <1>7, <1>9 DEF n, t

\* With a matrix without circles that activates its triggers as often as they need,
\* and time enough, the simulation does not end before every flow has finished: the
\* event list has run out only when all have (the safety core of AllFlowsFinish).
THEOREM EveryFlowRuns ==
    ASSUME ActivatedAsNeeded, NoCircle, NEW D \in Nat, LongEnough(D)
    PROVE  Spec => [](pending = <<>> /\ triggers = <<>> => \A f \in Flows : Finished(f))
<1>1. Init => RunInv(D)
  BY InitRuns
<1>2. IInv /\ RunInv(D) => (pending = <<>> /\ triggers = <<>> => \A f \in Flows : Finished(f))
  <2> DEFINE S == {f \in Flows : ~Finished(f)}
  <2> SUFFICES ASSUME IInv, RunInv(D), pending = <<>>, triggers = <<>>, S # {}
               PROVE  FALSE
    OBVIOUS
  <2>1. PICK f \in S : matrix.trigger[f] = 0 \/ \A g \in S : matrix.sendDone[g] # matrix.trigger[f]
    <3>1. S \in SUBSET Flows /\ matrix \in Matrices
      BY DEF IInv
    <3> HIDE DEF S
    <3> QED
      BY <3>1 DEF NoCircle
  <2>2. Sources(pending) = {} /\ ToSet(triggers) = {}
    BY DEF Sources, ToSet
  <2>3. starts[f] # 1
    BY <2>2 DEF RunInv, FlowsAhead, Finished
  <2>4. starts[f] = 0
    BY <2>3 DEF IInv
  <2>5. matrix.trigger[f] # 0
    BY <2>2, <2>4 DEF RunInv, FlowsAhead
  <2>6. \A g \in Activators(matrix.trigger[f]) : finishTime[g] >= 0
    BY <2>1, <2>5 DEF Activators, Finished
  <2>7. /\ fired[matrix.trigger[f]] > 0
        /\ Freed(matrix.trigger[f], fired[matrix.trigger[f]], f)
    BY <2>5, <2>6, ReleasedInTheEnd
  <2> QED
    BY <2>2, <2>3, <2>5, <2>7 DEF RunInv, FreedRuns
<1>3. IInv /\ RunInv(D) /\ [Next]_vars => RunInv(D)'
  BY RunsPreserved
<1> QED
  BY <1>1, <1>2, <1>3, TriggersInvariance, PTL DEF Spec
==================================================================================
