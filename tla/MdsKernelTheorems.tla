------------------------- MODULE MdsKernelTheorems -------------------------
(***************************************************************************)
(* What the kernel functions of MdsKernel preserve, for any number of      *)
(* threads, priorities and wait queues: every list links a thread at most  *)
(* once and at one place only, and the bits of the ready table stay exact. *)
(***************************************************************************)
EXTENDS MdsKernel, DListTheorems, WellFoundedInduction

\* What every kernel function finds and leaves.
Sound(k) == k \in KernelState /\ OneHome(k) /\ TableExact(k)

\* The part of k the ready table is made of is the same in both states.
SameTable(k, n) == n.list = k.list /\ n.mask = k.mask /\ n.prio = k.prio

\* A function that touches none of the ready table keeps it sound.
LEMMA SoundFrame ==
  ASSUME NEW k, Sound(k), NEW n \in KernelState, SameTable(k, n)
  PROVE  Sound(n)
BY DEF Sound, SameTable, OneHome, TableExact, On

\* Taking a thread off its list takes it off every list and moves no other.
LEMMA DetachProperties ==
  ASSUME NEW k \in KernelState, OneHome(k), NEW t
  PROVE  /\ Detach(k, t) \in KernelState
         /\ OneHome(Detach(k, t))
         /\ \A l \in Lists : \A u : On(Detach(k, t), l, u) <=> On(k, l, u) /\ u # t
         /\ \A l \in Lists : ~On(k, l, t) => Detach(k, t).list[l] = k.list[l]
         /\ Detach(k, t) = [k EXCEPT !.list = Detach(k, t).list]
         /\ Detach(k, t).mask = k.mask /\ Detach(k, t).prio = k.prio
         /\ Detach(k, t).st = k.st /\ Detach(k, t).tq = k.tq
         /\ Detach(k, t).curr = k.curr /\ Detach(k, t).fault = k.fault
         /\ Detach(k, t).nest = k.nest
<1> DEFINE d == Detach(k, t)
<1>1. k.list \in [Lists -> Seq(Thread)]
  BY DEF KernelState
<1>2. d.list = [l \in Lists |-> Unlink(k.list[l], t)]
  BY DEF Detach, KernelState
<1>3. \A l \in Lists :
        /\ d.list[l] \in Seq(Thread)
        /\ Distinct(d.list[l])
        /\ \A u : Contains(d.list[l], u) <=> Contains(k.list[l], u) /\ u # t
        /\ ~Contains(k.list[l], t) => d.list[l] = k.list[l]
  <2> TAKE l \in Lists
  <2>1. k.list[l] \in Seq(Thread) /\ Distinct(k.list[l])
    BY <1>1 DEF OneHome
  <2>2. d.list[l] = Unlink(k.list[l], t)
    BY <1>2
  <2> HIDE DEF d
  <2> QED BY <2>1, <2>2, UnlinkProperties
<1>4. d \in KernelState
  <2>1. d.list \in [Lists -> Seq(Thread)]
    BY <1>2, <1>3
  <2> QED BY <1>2, <2>1 DEF Detach, KernelState
<1>5. \A l \in Lists : \A u : On(d, l, u) <=> On(k, l, u) /\ u # t
  BY <1>3 DEF On
<1>6. OneHome(d)
  BY <1>3, <1>5 DEF OneHome
<1>7. \A l \in Lists : ~On(k, l, t) => d.list[l] = k.list[l]
  BY <1>3 DEF On
<1>8. /\ d = [k EXCEPT !.list = d.list]
      /\ d.mask = k.mask /\ d.prio = k.prio
      /\ d.st = k.st /\ d.tq = k.tq
      /\ d.curr = k.curr /\ d.fault = k.fault
      /\ d.nest = k.nest
  BY DEF Detach, KernelState
<1> QED BY <1>4, <1>5, <1>6, <1>7, <1>8

\* The list s is the list x with the node t linked into it.
Gains(s, x, t) ==
  s \in Seq(Thread) /\ Distinct(s) /\ \A u : Contains(s, u) <=> Contains(x, u) \/ u = t

\* Each of the insertions is such a gain.
LEMMA InsertionsGain ==
  ASSUME NEW x \in Seq(Thread), Distinct(x), NEW t \in Thread, ~Contains(x, t)
  PROVE  /\ Gains(PushTail(x, t), x, t)
         /\ Gains(PushHead(x, t), x, t)
         /\ \A Later : Gains(InsertBefore(x, t, Later), x, t)
<1>1. Gains(PushTail(x, t), x, t) /\ Gains(PushHead(x, t), x, t)
  <2> DEFINE a == PushTail(x, t)
             h == PushHead(x, t)
  <2>1. /\ a \in Seq(Thread) /\ h \in Seq(Thread)
        /\ \A u : Contains(a, u) <=> Contains(x, u) \/ u = t
        /\ \A u : Contains(h, u) <=> Contains(x, u) \/ u = t
        /\ Distinct(x) /\ ~Contains(x, t) => Distinct(a) /\ Distinct(h)
    BY PushProperties
  <2> HIDE DEF a, h
  <2>2. Gains(a, x, t) /\ Gains(h, x, t)
    BY <2>1 DEF Gains
  <2> QED BY <2>2 DEF a, h
<1>2. ASSUME NEW Later PROVE Gains(InsertBefore(x, t, Later), x, t)
  <2> DEFINE b == InsertBefore(x, t, Later)
  <2>1. /\ b \in Seq(Thread)
        /\ \A u : Contains(b, u) <=> Contains(x, u) \/ u = t
        /\ Distinct(x) /\ ~Contains(x, t) => Distinct(b)
    BY InsertBeforeProperties
  <2> HIDE DEF b
  <2>2. Gains(b, x, t)
    BY <2>1 DEF Gains
  <2> QED BY <2>2 DEF b
<1> QED BY <1>1, <1>2

\* Linking a thread that is on no list gives it that one home.
LEMMA LinkProperties ==
  ASSUME NEW k \in KernelState, OneHome(k), NEW l \in Lists, NEW t \in Thread,
         \A m \in Lists : ~On(k, m, t), NEW s, Gains(s, k.list[l], t)
  PROVE  /\ [k EXCEPT !.list[l] = s] \in KernelState
         /\ OneHome([k EXCEPT !.list[l] = s])
         /\ \A m \in Lists : \A u :
              On([k EXCEPT !.list[l] = s], m, u) <=> On(k, m, u) \/ (m = l /\ u = t)
         /\ \A m \in Lists \ {l} : [k EXCEPT !.list[l] = s].list[m] = k.list[m]
         /\ [k EXCEPT !.list[l] = s].list[l] = s
         /\ s # <<>>
<1> DEFINE n == [k EXCEPT !.list[l] = s]
<1>2. /\ s \in Seq(Thread) /\ Distinct(s)
      /\ \A u : Contains(s, u) <=> Contains(k.list[l], u) \/ u = t
  BY DEF Gains
<1>3. s # <<>>
  BY <1>2 DEF Contains
<1>4. n.list = [k.list EXCEPT ![l] = s] /\ k.list \in [Lists -> Seq(Thread)]
  BY DEF KernelState
<1>5. n \in KernelState
  BY <1>2 DEF KernelState
<1> HIDE DEF n
<1>6. /\ n.list[l] = s
      /\ \A m \in Lists \ {l} : n.list[m] = k.list[m]
  BY <1>4
<1>7. \A m \in Lists : \A u : On(n, m, u) <=> On(k, m, u) \/ (m = l /\ u = t)
  BY <1>2, <1>6 DEF On
<1>8. OneHome(n)
  <2>1. \A m \in Lists : Distinct(n.list[m])
    BY <1>2, <1>6 DEF OneHome
  <2>2. ASSUME NEW m \in Lists, NEW o \in Lists, NEW u \in Thread, On(n, m, u), On(n, o, u)
        PROVE  m = o
    BY <1>7, <2>2 DEF OneHome
  <2> QED BY <2>1, <2>2 DEF OneHome
<1> QED BY <1>3, <1>5, <1>6, <1>7, <1>8 DEF n

\* A list is empty exactly when it links no thread.
LEMMA EmptyList ==
  ASSUME NEW k \in KernelState, NEW l \in Lists
  PROVE  /\ k.list[l] = <<>> <=> \A u : ~On(k, l, u)
         /\ k.list[l] # <<>> => Head(k.list[l]) \in Thread /\ On(k, l, Head(k.list[l]))
<1>1. k.list[l] \in Seq(Thread)
  BY DEF KernelState
<1>2. CASE k.list[l] = <<>>
  BY <1>2 DEF On, Contains
<1>3. CASE k.list[l] # <<>>
  <2>1. Len(k.list[l]) \in Nat /\ Len(k.list[l]) > 0 /\ Head(k.list[l]) = k.list[l][1]
    BY <1>1, <1>3
  <2>2. k.list[l][1] \in Thread
    BY <1>1, <2>1
  <2>3. Contains(k.list[l], k.list[l][1])
    BY <2>1 DEF Contains
  <2> QED BY <1>3, <2>1, <2>2, <2>3 DEF On
<1> QED BY <1>2, <1>3

\* MDS_SchedulerInsertThread keeps the table exact whatever list the thread
\* comes from: a level it is on is the level of its priority.
LEMMA InsertThreadSound ==
  ASSUME NEW k, Sound(k), NEW t \in Thread
  PROVE  /\ Sound(InsertThread(k, t))
         /\ \A l \in Lists : \A u :
              On(InsertThread(k, t), l, u) <=>
                (On(k, l, u) /\ u # t) \/ (u = t /\ l = k.prio[t] /\ l \in Prio)
         /\ \A l \in Lists : ~On(InsertThread(k, t), l, t) =>
              InsertThread(k, t).list[l] = Unlink(k.list[l], t)
         /\ InsertThread(k, t).err = k.err /\ InsertThread(k, t).left = k.left
         /\ InsertThread(k, t).yield = k.yield /\ InsertThread(k, t).remain = k.remain
         /\ InsertThread(k, t).prio = k.prio
         /\ InsertThread(k, t).st = k.st /\ InsertThread(k, t).tq = k.tq
         /\ InsertThread(k, t).curr = k.curr /\ InsertThread(k, t).fault = k.fault
         /\ InsertThread(k, t).nest = k.nest
<1> DEFINE d == Detach(k, t)
           p == k.prio[t]
           s == IF t \in k.yield THEN PushTail(d.list[p], t) ELSE PushHead(d.list[p], t)
           e == [d EXCEPT !.list[p] = s]
           n == InsertThread(k, t)
<1>0. k \in KernelState /\ OneHome(k) /\ TableExact(k)
  BY DEF Sound
<1>1. /\ d \in KernelState /\ OneHome(d)
      /\ \A l \in Lists : \A u : On(d, l, u) <=> On(k, l, u) /\ u # t
      /\ \A l \in Lists : ~On(k, l, t) => d.list[l] = k.list[l]
      /\ d = [k EXCEPT !.list = d.list] /\ d.mask = k.mask /\ d.prio = k.prio
      /\ d.st = k.st /\ d.tq = k.tq /\ d.curr = k.curr /\ d.fault = k.fault
      /\ d.nest = k.nest
  BY <1>0, DetachProperties
<1>2. /\ d.err = k.err /\ d.left = k.left /\ d.yield = k.yield /\ d.remain = k.remain
      /\ \A l \in Lists : d.list[l] = Unlink(k.list[l], t)
  BY <1>0 DEF Detach, KernelState
<1>3. CASE p \notin Prio
  <2>1. n = d
    BY <1>3 DEF InsertThread
  <2>2. \A q \in Prio : ~On(k, q, t)
    BY <1>0, <1>3 DEF TableExact
  <2>3. \A q \in Prio : d.list[q] = k.list[q]
    BY <1>1, <2>2 DEF Lists
  <2>4. TableExact(d)
    BY <1>0, <1>1, <2>3 DEF TableExact, On
  <2> HIDE DEF d, n
  <2>5. \A l \in Lists : \A u :
          On(n, l, u) <=> (On(k, l, u) /\ u # t) \/ (u = t /\ l = k.prio[t] /\ l \in Prio)
    BY <1>1, <1>3, <2>1
  <2>6. \A l \in Lists : ~On(n, l, t) => n.list[l] = Unlink(k.list[l], t)
    BY <1>2, <2>1
  <2> QED BY <1>1, <1>2, <2>1, <2>4, <2>5, <2>6 DEF Sound, Lists, n
<1>4. CASE p \in Prio
  <2>1. p \in Lists
    BY <1>4 DEF Lists
  <2>2. n = [d EXCEPT !.list[p] = s, !.mask = @ \cup {p}]
    BY <1>1, <1>2, <1>4 DEF InsertThread
  <2> HIDE DEF d
  <2>3. Gains(s, d.list[p], t)
    <3>1. d.list[p] \in Seq(Thread) /\ Distinct(d.list[p]) /\ ~Contains(d.list[p], t)
      BY <1>1, <2>1 DEF KernelState, OneHome, On
    <3> QED BY <3>1, InsertionsGain
  <2> HIDE DEF s, p
  <2>4. /\ e \in KernelState /\ OneHome(e)
        /\ \A m \in Lists : \A u : On(e, m, u) <=> On(d, m, u) \/ (m = p /\ u = t)
        /\ \A m \in Lists \ {p} : e.list[m] = d.list[m]
        /\ e.list[p] = s /\ s # <<>>
    <3>1. \A m \in Lists : ~On(d, m, t)
      BY <1>1
    <3> QED BY <1>1, <2>1, <2>3, <3>1, LinkProperties
  <2> HIDE DEF n
  <2>5. /\ n.list = e.list /\ n.mask = d.mask \cup {p} /\ n.prio = d.prio
        /\ n.st = d.st /\ n.tq = d.tq /\ n.curr = d.curr /\ n.fault = d.fault
        /\ n.nest = d.nest
        /\ n.err = d.err /\ n.left = d.left /\ n.yield = d.yield /\ n.remain = d.remain
    BY <1>1, <2>2 DEF KernelState
  <2>6. n = [e EXCEPT !.mask = @ \cup {p}]
    BY <1>1, <2>2 DEF KernelState
  <2>7. n \in KernelState
    BY <1>4, <2>4, <2>6 DEF KernelState
  <2>8. OneHome(n)
    BY <2>4, <2>5 DEF OneHome, On
  <2>9. \A m \in Lists : \A u : On(n, m, u) <=> (On(k, m, u) /\ u # t) \/ (m = p /\ u = t)
    <3>1. \A m \in Lists : \A u : On(n, m, u) <=> On(e, m, u)
      BY <2>5 DEF On
    <3> QED BY <1>1, <2>4, <3>1
  <2>10. TableExact(n)
    <3>1. \A q \in Prio : \A u \in Thread : On(n, q, u) => n.prio[u] = q
      BY <1>0, <1>1, <2>5, <2>9 DEF TableExact, Lists, p
    <3>2. \A q \in Prio : n.list[q] # <<>> <=> k.list[q] # <<>> \/ q = p
      <4> TAKE q \in Prio
      <4>1. q \in Lists
        BY DEF Lists
      <4>2. CASE q = p
        BY <2>4, <2>5, <4>2
      <4>3. CASE q # p
        <5>1. ~On(k, q, t)
          BY <1>0, <4>3 DEF TableExact, p
        <5>2. n.list[q] = k.list[q]
          BY <1>1, <2>4, <2>5, <4>1, <4>3, <5>1
        <5> QED BY <4>3, <5>2
      <4> QED BY <4>2, <4>3
    <3>3. n.mask = k.mask \cup {p}
      BY <1>1, <2>5
    <3>4. n.mask = {q \in Prio : n.list[q] # <<>>}
      BY <1>0, <1>4, <3>2, <3>3 DEF TableExact
    <3> QED BY <3>1, <3>4 DEF TableExact
  <2>11. \A l \in Lists : \A u :
           On(n, l, u) <=> (On(k, l, u) /\ u # t) \/ (u = t /\ l = k.prio[t] /\ l \in Prio)
    BY <1>4, <2>9 DEF p
  <2>12. \A l \in Lists : ~On(n, l, t) => n.list[l] = Unlink(k.list[l], t)
    BY <1>2, <2>1, <2>4, <2>5, <2>9
  <2> QED BY <1>1, <1>2, <2>5, <2>7, <2>8, <2>10, <2>11, <2>12 DEF Sound, Lists, n
<1> QED BY <1>3, <1>4

\* MDS_SchedulerRemoveThread keeps the table exact: the one level the thread
\* can have been on is the one whose bit it looks after.
LEMMA RemoveThreadSound ==
  ASSUME NEW k, Sound(k), NEW t \in Thread
  PROVE  /\ Sound(RemoveThread(k, t))
         /\ \A l \in Lists : \A u : On(RemoveThread(k, t), l, u) <=> On(k, l, u) /\ u # t
         /\ \A l \in Lists : RemoveThread(k, t).list[l] = Unlink(k.list[l], t)
         /\ RemoveThread(k, t).err = k.err /\ RemoveThread(k, t).left = k.left
         /\ RemoveThread(k, t).yield = k.yield /\ RemoveThread(k, t).remain = k.remain
         /\ RemoveThread(k, t).prio = k.prio
         /\ RemoveThread(k, t).st = k.st /\ RemoveThread(k, t).tq = k.tq
         /\ RemoveThread(k, t).curr = k.curr /\ RemoveThread(k, t).fault = k.fault
         /\ RemoveThread(k, t).nest = k.nest
<1> DEFINE d == Detach(k, t)
           p == k.prio[t]
           n == RemoveThread(k, t)
<1>0. k \in KernelState /\ OneHome(k) /\ TableExact(k)
  BY DEF Sound
<1>1. /\ d \in KernelState /\ OneHome(d)
      /\ \A l \in Lists : \A u : On(d, l, u) <=> On(k, l, u) /\ u # t
      /\ \A l \in Lists : ~On(k, l, t) => d.list[l] = k.list[l]
      /\ d = [k EXCEPT !.list = d.list] /\ d.mask = k.mask /\ d.prio = k.prio
      /\ d.st = k.st /\ d.tq = k.tq /\ d.curr = k.curr /\ d.fault = k.fault
      /\ d.nest = k.nest
  BY <1>0, DetachProperties
<1>1a. /\ d.err = k.err /\ d.left = k.left /\ d.yield = k.yield /\ d.remain = k.remain
       /\ \A l \in Lists : d.list[l] = Unlink(k.list[l], t)
  BY <1>0 DEF Detach, KernelState
<1>2. n = IF p \in Prio /\ d.list[p] = <<>> THEN [d EXCEPT !.mask = @ \ {p}] ELSE d
  BY DEF RemoveThread
<1> HIDE DEF d, n
<1>3. /\ n.list = d.list /\ n.prio = d.prio /\ n.st = d.st /\ n.tq = d.tq
      /\ n.curr = d.curr /\ n.fault = d.fault /\ n.nest = d.nest
      /\ n.err = d.err /\ n.left = d.left /\ n.yield = d.yield /\ n.remain = d.remain
      /\ n.mask = IF p \in Prio /\ d.list[p] = <<>> THEN d.mask \ {p} ELSE d.mask
  BY <1>1, <1>2 DEF KernelState
<1>4. n \in KernelState
  BY <1>1, <1>2 DEF KernelState
<1>5. OneHome(n)
  BY <1>1, <1>3 DEF OneHome, On
<1>6. \A l \in Lists : \A u : On(n, l, u) <=> On(k, l, u) /\ u # t
  BY <1>1, <1>3 DEF On
<1>7. \A q \in Prio : \A u \in Thread : On(n, q, u) => n.prio[u] = q
  BY <1>0, <1>1, <1>3, <1>6 DEF TableExact, Lists
<1>8. \A q \in Prio : q # p => n.list[q] = k.list[q]
  <2> TAKE q \in Prio
  <2>1. q # p => ~On(k, q, t)
    BY <1>0 DEF TableExact, p
  <2> QED BY <1>1, <1>3, <2>1 DEF Lists
<1>9. p \in Prio /\ n.list[p] # <<>> => k.list[p] # <<>>
  <2> SUFFICES ASSUME p \in Prio, n.list[p] # <<>> PROVE k.list[p] # <<>>
    OBVIOUS
  <2>1. p \in Lists
    BY DEF Lists
  <2> HIDE DEF p
  <2>2. \E u : On(n, p, u)
    BY <1>4, <2>1, EmptyList
  <2>3. \E u : On(k, p, u)
    BY <1>6, <2>1, <2>2
  <2> QED BY <1>0, <2>1, <2>3, EmptyList
<1>10. n.mask = {q \in Prio : n.list[q] # <<>>}
  BY <1>0, <1>1, <1>3, <1>8, <1>9 DEF TableExact
<1>11. Sound(n)
  BY <1>4, <1>5, <1>7, <1>10 DEF Sound, TableExact
<1> QED BY <1>1, <1>1a, <1>3, <1>6, <1>11 DEF n

\* Among finitely many levels in use there is a highest one.
LEMMA TopLevelProperties ==
  ASSUME NEW k \in KernelState, k.mask # {}
  PROVE  TopLevel(k) \in k.mask /\ \A q \in k.mask : TopLevel(k) <= q
<1>1. k.mask \subseteq Nat
  BY KernelAssumption DEF KernelState, Prio
<1>2. \E p \in k.mask : \A q \in k.mask : ~(<<q, p>> \in OpToRel(<, Nat))
  BY <1>1, WFMin, NatLessThanWellFounded
<1>3. PICK p \in k.mask : \A q \in k.mask : ~(<<q, p>> \in OpToRel(<, Nat))
  BY <1>2
<1>4. \A q \in k.mask : p <= q
  <2> TAKE q \in k.mask
  <2>1. <<q, p>> \in Nat \X Nat
    BY <1>1
  <2>2. ~(q < p)
    BY <1>3, <2>1 DEF OpToRel
  <2> QED BY <1>1, <2>2
<1> QED BY <1>4 DEF TopLevel

\* MDS_SchedulerPeekThread gives a thread, the idle one when no level is in
\* use and otherwise one of the highest level in use.
LEMMA PeekThreadProperties ==
  ASSUME NEW k, Sound(k)
  PROVE  /\ PeekThread(k) \in Thread
         /\ PeekThread(k) # NoThread
         /\ IF k.mask = {}
            THEN PeekThread(k) = Idle
            ELSE /\ OnReadyLevel(k, PeekThread(k))
                 /\ \A p \in Prio : k.list[p] # <<>> => k.prio[PeekThread(k)] <= p
<1>0. k \in KernelState /\ TableExact(k)
  BY DEF Sound
<1>1. CASE k.mask = {}
  BY <1>1, KernelAssumption DEF PeekThread
<1>2. CASE k.mask # {}
  <2> DEFINE top == TopLevel(k)
             h == Head(k.list[top])
  <2>1. top \in k.mask /\ \A q \in k.mask : top <= q
    BY <1>0, <1>2, TopLevelProperties
  <2>2. top \in Prio /\ k.list[top] # <<>> /\ top \in Lists
    BY <1>0, <2>1 DEF TableExact, Lists
  <2>3. PeekThread(k) = h
    BY <1>2, <2>2 DEF PeekThread
  <2> HIDE DEF top
  <2>4. h \in Thread /\ On(k, top, h)
    BY <1>0, <2>2, EmptyList
  <2> HIDE DEF h
  <2>5. k.prio[h] = top
    BY <1>0, <2>2, <2>4 DEF TableExact
  <2>6. \A p \in Prio : k.list[p] # <<>> => top <= p
    BY <1>0, <2>1 DEF TableExact
  <2> QED BY <1>2, <2>2, <2>3, <2>4, <2>5, <2>6, KernelAssumption DEF OnReadyLevel
<1> QED BY <1>1, <1>2

\* A change of one thread's state leaves the table alone.
LEMMA SetStateSound ==
  ASSUME NEW k, Sound(k), NEW t \in Thread, NEW s \in State
  PROVE  /\ Sound(SetState(k, t, s))
         /\ SetState(k, t, s).list = k.list /\ SetState(k, t, s).prio = k.prio
         /\ SetState(k, t, s).mask = k.mask
         /\ SetState(k, t, s).st = [k.st EXCEPT ![t] = s]
         /\ SetState(k, t, s).tq = k.tq /\ SetState(k, t, s).curr = k.curr
         /\ SetState(k, t, s).fault = k.fault /\ SetState(k, t, s).nest = k.nest
<1> DEFINE n == SetState(k, t, s)
<1>1. n \in KernelState
  BY DEF SetState, Sound, KernelState
<1>2. /\ n.list = k.list /\ n.prio = k.prio /\ n.mask = k.mask
      /\ n.st = [k.st EXCEPT ![t] = s]
      /\ n.tq = k.tq /\ n.curr = k.curr /\ n.fault = k.fault /\ n.nest = k.nest
  BY DEF SetState, Sound, KernelState
<1> HIDE DEF n
<1>3. Sound(n)
  BY <1>1, <1>2, SoundFrame DEF SameTable
<1> QED BY <1>2, <1>3 DEF n

\* The running thread put back in the table.
LEMMA PreemptSound ==
  ASSUME NEW k, Sound(k), k.curr \in Thread
  PROVE  Sound(Preempt(k)) /\ Preempt(k).fault = k.fault
<1>1. k.st[k.curr] # "RUNNING" => Preempt(k) = k
  BY DEF Preempt
<1>2. CASE k.st[k.curr] = "RUNNING"
  <2> DEFINE i == InsertThread(k, k.curr)
  <2>1. Sound(i) /\ i.fault = k.fault
    BY InsertThreadSound
  <2>2. Preempt(k) = SetState(i, k.curr, "READY")
    BY <1>2 DEF Preempt
  <2> HIDE DEF i
  <2>3. "READY" \in State
    BY DEF State
  <2>4. /\ Sound(SetState(i, k.curr, "READY"))
        /\ SetState(i, k.curr, "READY").fault = i.fault
    BY <2>1, <2>3, SetStateSound
  <2> QED BY <2>1, <2>2, <2>4
<1> QED BY <1>1, <1>2

\* The chosen thread taken out of the table and made the running one.
LEMMA SwitchToSound ==
  ASSUME NEW k, Sound(k), NEW to \in Thread
  PROVE  Sound(SwitchTo(k, to)) /\ SwitchTo(k, to).fault = k.fault
<1> DEFINE r == RemoveThread(k, to)
           s == SetState(r, to, "RUNNING")
           n == SwitchTo(k, to)
<1>1. Sound(r) /\ r.fault = k.fault
  BY RemoveThreadSound
<1> HIDE DEF r
<1>2. Sound(s) /\ s.fault = k.fault
  <2>1. "RUNNING" \in State
    BY DEF State
  <2> QED BY <1>1, <2>1, SetStateSound
<1>3. n = [s EXCEPT !.curr = to]
  BY DEF SwitchTo, r
<1> HIDE DEF s, n
<1>4. n \in KernelState /\ SameTable(s, n) /\ n.fault = s.fault
  BY <1>2, <1>3 DEF Sound, KernelState, SameTable
<1> QED BY <1>2, <1>4, SoundFrame DEF n

\* MDS_KernelSchedulerCheck keeps the table sound and, the table being sound,
\* never takes a list header for a thread.
LEMMA SchedulerCheckSound ==
  ASSUME NEW k, Sound(k)
  PROVE  Sound(SchedulerCheck(k)) /\ SchedulerCheck(k).fault = k.fault
<1> DEFINE to == PeekThread(k)
<1>1. to \in Thread /\ to # NoThread
  BY PeekThreadProperties
<1> HIDE DEF to
<1>2. CASE k.nest # 0 \/ k.curr = NoThread
  BY <1>2 DEF SchedulerCheck
<1>3. CASE ~(k.nest # 0 \/ k.curr = NoThread)
  <2>1. k.curr \in Thread
    BY <1>3 DEF Sound, KernelState
  <2>2. SchedulerCheck(k) =
          IF StaysRunning(k, to) THEN SwitchTo(k, k.curr) ELSE SwitchTo(Preempt(k), to)
    BY <1>1, <1>3 DEF SchedulerCheck, to
  <2>3. Sound(SwitchTo(k, k.curr)) /\ SwitchTo(k, k.curr).fault = k.fault
    BY <2>1, SwitchToSound
  <2> DEFINE p == Preempt(k)
  <2>4. Sound(p) /\ p.fault = k.fault
    BY <2>1, PreemptSound
  <2> HIDE DEF p
  <2>5. Sound(SwitchTo(p, to)) /\ SwitchTo(p, to).fault = k.fault
    BY <1>1, <2>4, SwitchToSound
  <2> QED BY <2>2, <2>3, <2>5 DEF p
<1> QED BY <1>2, <1>3

\* MDS_KernelStartup, which leaves its thread in the table.
LEMMA KernelStartupSound ==
  ASSUME NEW k, Sound(k)
  PROVE  Sound(KernelStartup(k)) /\ KernelStartup(k).fault = k.fault
<1> DEFINE to == PeekThread(k)
           s == SetState(k, to, "RUNNING")
           n == KernelStartup(k)
<1>1. to \in Thread
  BY PeekThreadProperties
<1>2. n = [s EXCEPT !.curr = to]
  BY DEF KernelStartup
<1> HIDE DEF to
<1>3. Sound(s) /\ s.fault = k.fault
  BY <1>1, SetStateSound DEF State
<1> HIDE DEF s, n
<1>4. n \in KernelState /\ SameTable(s, n) /\ n.fault = s.fault
  BY <1>1, <1>2, <1>3 DEF Sound, KernelState, SameTable
<1> QED BY <1>3, <1>4, SoundFrame DEF n

\* Arming and stopping a thread timer leave the ready table alone.  Only the
\* linking of a timer that is still linked is a fault.
LEMMA TimerStartSound ==
  ASSUME NEW k, Sound(k), NEW t \in Thread, NEW d \in Nat
  PROVE  /\ Sound(TimerStart(k, t, d))
         /\ TimerStart(k, t, d).fault \in {k.fault, "relinked_timer"}
<1> DEFINE n == TimerStart(k, t, d)
           b == InsertBefore(k.tq, t, {u \in Thread : k.left[u] > d})
<1>1. k.tq \in Seq(Thread)
  BY DEF Sound, KernelState
<1>2. b \in Seq(Thread)
  <2> DEFINE Later == {u \in Thread : k.left[u] > d}
  <2> HIDE DEF Later
  <2> DEFINE c == InsertBefore(k.tq, t, Later)
  <2>1. c \in Seq(Thread)
    BY <1>1, InsertBeforeProperties
  <2> QED BY <2>1 DEF Later
<1>3. n = IF d >= TimerMax THEN k
          ELSE IF Contains(k.tq, t) THEN [k EXCEPT !.fault = "relinked_timer"]
          ELSE [k EXCEPT !.tq = b, !.left[t] = d]
  BY DEF TimerStart, Sound, KernelState
<1> HIDE DEF b, n
<1>4. n \in KernelState /\ SameTable(k, n) /\ n.fault \in {k.fault, "relinked_timer"}
  <2>1. CASE n = k
    BY <2>1 DEF Sound, SameTable
  <2>2. CASE n = [k EXCEPT !.fault = "relinked_timer"]
    BY <2>2 DEF Sound, SameTable, KernelState, Fault
  <2>3. CASE n = [k EXCEPT !.tq = b, !.left[t] = d]
    BY <1>2, <2>3 DEF Sound, SameTable, KernelState
  <2> QED BY <1>3, <2>1, <2>2, <2>3
<1> QED BY <1>4, SoundFrame DEF n

\* MDS_WorkNodeCancle on a thread timer.
LEMMA TimerStopSound ==
  ASSUME NEW k, Sound(k), NEW t \in Thread
  PROVE  /\ Sound(TimerStop(k, t))
         /\ TimerStop(k, t).fault = k.fault /\ TimerStop(k, t).st = k.st
<1> DEFINE n == TimerStop(k, t)
           b == Unlink(k.tq, t)
<1>1. k.tq \in Seq(Thread)
  BY DEF Sound, KernelState
<1>2. b \in Seq(Thread)
  <2>1. CASE Contains(k.tq, t)
    <3> DEFINE j == CHOOSE i \in DOMAIN k.tq : k.tq[i] = t
    <3>1. j \in 1..Len(k.tq)
      BY <1>1, <2>1, LenProperties DEF Contains
    <3>2. b = RemoveAt(k.tq, j)
      BY <2>1 DEF Unlink
    <3> HIDE DEF j
    <3> QED BY <1>1, <3>1, <3>2, RemoveAtProperties
  <2>2. CASE ~Contains(k.tq, t)
    BY <1>1, <2>2 DEF Unlink
  <2> QED BY <2>1, <2>2
<1>3. n = [k EXCEPT !.tq = b, !.left[t] = 0]
  BY DEF TimerStop, Sound, KernelState
<1> HIDE DEF b, n
<1>4. n \in KernelState /\ SameTable(k, n) /\ n.fault = k.fault /\ n.st = k.st
  BY <1>2, <1>3 DEF Sound, SameTable, KernelState
<1> QED BY <1>4, SoundFrame DEF n

\* The tick count goes on: every armed timer has a tick less to wait.
LEMMA TimersElapseSound ==
  ASSUME NEW k, Sound(k)
  PROVE  Sound(TimersElapse(k)) /\ TimersElapse(k).fault = k.fault
                                /\ TimersElapse(k).curr = k.curr
<1> DEFINE n == TimersElapse(k)
           f == [t \in Thread |-> IF k.left[t] > 0 THEN k.left[t] - 1 ELSE 0]
<1>1. f \in [Thread -> Nat]
  BY DEF Sound, KernelState
<1>2. n = [k EXCEPT !.left = f]
  BY DEF TimersElapse, Sound, KernelState
<1> HIDE DEF f, n
<1>3. n \in KernelState /\ SameTable(k, n) /\ n.fault = k.fault /\ n.curr = k.curr
  BY <1>1, <1>2 DEF Sound, SameTable, KernelState
<1> QED BY <1>3, SoundFrame DEF n

-----------------------------------------------------------------------------
(* thread.c                                                                *)

\* What MDS_ThreadStartup and MDS_ThreadResume have in common.
LEMMA MakeReadySound ==
  ASSUME NEW k, Sound(k), NEW t \in Thread
  PROVE  Sound(MakeReady(k, t)) /\ MakeReady(k, t).fault = k.fault
<1> DEFINE a == TimerStop(k, t)
           b == RemoveThread(a, t)
           c == InsertThread(b, t)
<1>0. "READY" \in State
  BY DEF State
<1>1. Sound(a) /\ a.fault = k.fault
  BY TimerStopSound
<1> HIDE DEF a
<1>2. Sound(b) /\ b.fault = k.fault
  BY <1>1, RemoveThreadSound
<1> HIDE DEF b
<1>3. Sound(c) /\ c.fault = k.fault
  BY <1>2, InsertThreadSound
<1> HIDE DEF c
<1>4. Sound(SetState(c, t, "READY")) /\ SetState(c, t, "READY").fault = k.fault
  BY <1>0, <1>3, SetStateSound
<1> QED BY <1>4 DEF MakeReady, a, b, c

\* MDS_ThreadStartup and MDS_ThreadResume, with the states they refuse.
LEMMA ThreadStartupSound ==
  ASSUME NEW k, Sound(k), NEW t \in Thread
  PROVE  /\ Sound(ThreadStartup(k, t)) /\ ThreadStartup(k, t).fault = k.fault
         /\ Sound(ThreadResume(k, t)) /\ ThreadResume(k, t).fault = k.fault
BY MakeReadySound DEF ThreadStartup, ThreadResume

\* MDS_ThreadSuspend, whether it refuses or not.
LEMMA ThreadSuspendSound ==
  ASSUME NEW k, Sound(k), NEW t \in Thread
  PROVE  Sound(ThreadSuspend(k, t)) /\ ThreadSuspend(k, t).fault = k.fault
<1> DEFINE a == TimerStop(k, t)
           b == RemoveThread(a, t)
<1>0. "SUSPENDED" \in State
  BY DEF State
<1>1. Sound(a) /\ a.fault = k.fault
  BY TimerStopSound
<1> HIDE DEF a
<1>2. Sound(b) /\ b.fault = k.fault
  BY <1>1, RemoveThreadSound
<1> HIDE DEF b
<1>3. Sound(SetState(b, t, "SUSPENDED")) /\ SetState(b, t, "SUSPENDED").fault = k.fault
  BY <1>0, <1>2, SetStateSound
<1> QED BY <1>3 DEF ThreadSuspend, a, b

\* The priority of a thread on no level is nothing the table depends on.
LEMMA PrioritySound ==
  ASSUME NEW k, Sound(k), NEW t \in Thread, NEW p \in Prio, \A q \in Prio : ~On(k, q, t)
  PROVE  /\ Sound([k EXCEPT !.prio[t] = p])
         /\ [k EXCEPT !.prio[t] = p].fault = k.fault
<1> DEFINE m == [k EXCEPT !.prio[t] = p]
<1>0. p \in Level
  BY KernelAssumption DEF Prio, Level
<1>1. /\ m \in KernelState /\ m.list = k.list /\ m.mask = k.mask
      /\ m.prio = [k.prio EXCEPT ![t] = p] /\ m.fault = k.fault
      /\ k.prio \in [Thread -> Level]
  BY <1>0 DEF Sound, KernelState
<1> HIDE DEF m
<1>2. OneHome(m)
  BY <1>1 DEF Sound, OneHome, On
<1>3. TableExact(m)
  BY <1>1 DEF Sound, TableExact, On
<1> QED BY <1>1, <1>2, <1>3 DEF Sound, m

\* MDS_ThreadSetPriority keeps the table exact where it moves the thread
\* between levels, or finds it on none.
LEMMA ThreadSetPrioritySound ==
  ASSUME NEW k, Sound(k), NEW t \in Thread, NEW p \in Prio,
         OnReadyLevel(k, t) => k.st[t] = "READY"
  PROVE  Sound(ThreadSetPriority(k, t, p)) /\ ThreadSetPriority(k, t, p).fault = k.fault
<1>2. CASE k.st[t] = "READY"
  <2> DEFINE r == RemoveThread(k, t)
             m == [r EXCEPT !.prio[t] = p]
  <2>1. Sound(r) /\ r.fault = k.fault /\ \A q \in Prio : ~On(r, q, t)
    BY RemoveThreadSound DEF Lists
  <2> HIDE DEF r
  <2>2. Sound(m) /\ m.fault = k.fault
    BY <2>1, PrioritySound
  <2>3. ThreadSetPriority(k, t, p) = InsertThread(m, t)
    BY <1>2 DEF ThreadSetPriority, r
  <2> HIDE DEF m
  <2>4. Sound(InsertThread(m, t)) /\ InsertThread(m, t).fault = m.fault
    BY <2>2, InsertThreadSound
  <2> QED BY <2>2, <2>3, <2>4
<1>3. CASE k.st[t] # "READY"
  <2>1. \A q \in Prio : ~On(k, q, t)
    BY <1>3 DEF OnReadyLevel
  <2>2. ThreadSetPriority(k, t, p) = [k EXCEPT !.prio[t] = p]
    BY <1>3 DEF ThreadSetPriority
  <2> QED BY <2>1, <2>2, PrioritySound
<1> QED BY <1>2, <1>3

\* THREAD_Terminate, whatever list the thread is on.
LEMMA ThreadTerminateSound ==
  ASSUME NEW k, Sound(k), NEW t \in Thread
  PROVE  Sound(ThreadTerminate(k, t)) /\ ThreadTerminate(k, t).fault = k.fault
<1> DEFINE a == TimerStop(k, t)
           b == RemoveThread(a, t)
           s == PushTail(b.list[Defunct], t)
           c == [b EXCEPT !.list[Defunct] = s]
<1>0. "TERMINATED" \in State /\ Defunct \in Lists /\ Defunct \notin Prio
  BY KernelAssumption DEF State, Lists
<1>1. Sound(a) /\ a.fault = k.fault
  BY TimerStopSound
<1> HIDE DEF a
<1>2. Sound(b) /\ b.fault = k.fault /\ \A l \in Lists : ~On(b, l, t)
  BY <1>1, RemoveThreadSound
<1> HIDE DEF b
<1>3. Gains(s, b.list[Defunct], t)
  <2>1. /\ b.list[Defunct] \in Seq(Thread) /\ Distinct(b.list[Defunct])
        /\ ~Contains(b.list[Defunct], t)
    BY <1>0, <1>2 DEF Sound, KernelState, OneHome, On
  <2> QED BY <2>1, InsertionsGain
<1> HIDE DEF s
<1>4. /\ c \in KernelState /\ OneHome(c)
      /\ \A m \in Lists \ {Defunct} : c.list[m] = b.list[m]
  BY <1>0, <1>2, <1>3, LinkProperties DEF Sound
<1>5. c.mask = b.mask /\ c.prio = b.prio /\ c.fault = b.fault
  BY <1>2 DEF Sound, KernelState
<1> HIDE DEF c
<1>6. \A q \in Prio : c.list[q] = b.list[q]
  BY <1>0, <1>4 DEF Lists
<1>7. Sound(c)
  BY <1>2, <1>4, <1>5, <1>6 DEF Sound, TableExact, On
<1>8. Sound(SetState(c, t, "TERMINATED")) /\ SetState(c, t, "TERMINATED").fault = c.fault
  BY <1>0, <1>7, SetStateSound
<1> QED BY <1>2, <1>5, <1>8 DEF ThreadTerminate, a, b, c, s

\* THREAD_Timeout, the callback of a thread timer.
LEMMA ThreadTimeoutSound ==
  ASSUME NEW k, Sound(k), NEW t \in Thread
  PROVE  Sound(ThreadTimeout(k, t)) /\ ThreadTimeout(k, t).fault = k.fault
<1>1. ASSUME NEW n, Sound(n), n.fault = k.fault, NEW e \in Err
      PROVE  Sound([n EXCEPT !.err[t] = e]) /\ [n EXCEPT !.err[t] = e].fault = k.fault
  <2> DEFINE m == [n EXCEPT !.err[t] = e]
  <2>1. m \in KernelState /\ SameTable(n, m) /\ m.fault = k.fault
    BY <1>1 DEF Sound, KernelState, SameTable
  <2> HIDE DEF m
  <2>2. Sound(m)
    BY <1>1, <2>1, SoundFrame
  <2> QED BY <2>1, <2>2 DEF m
<1>2. Sound(InsertThread(k, t)) /\ InsertThread(k, t).fault = k.fault
  BY InsertThreadSound
<1>3. "ETIMEOUT" \in Err /\ "EACCES" \in Err
  BY DEF Err
<1>4. /\ Sound([InsertThread(k, t) EXCEPT !.err[t] = "ETIMEOUT"])
      /\ [InsertThread(k, t) EXCEPT !.err[t] = "ETIMEOUT"].fault = k.fault
  BY <1>1, <1>2, <1>3
<1>5. /\ Sound([k EXCEPT !.err[t] = "EACCES"])
      /\ [k EXCEPT !.err[t] = "EACCES"].fault = k.fault
  BY <1>1, <1>3
<1> QED BY <1>4, <1>5 DEF ThreadTimeout

\* The time slice, the yield flag and the scheduler lock are no part of the
\* table.
LEMMA RemainSound ==
  ASSUME NEW k, Sound(k), NEW t \in Thread, NEW r \in 1..Slice
  PROVE  LET n == [k EXCEPT !.remain[t] = r]
         IN  Sound(n) /\ n.fault = k.fault /\ n.curr = k.curr
<1> DEFINE n == [k EXCEPT !.remain[t] = r]
<1>1. n \in KernelState /\ SameTable(k, n) /\ n.fault = k.fault /\ n.curr = k.curr
  BY DEF Sound, KernelState, SameTable
<1> HIDE DEF n
<1>2. Sound(n)
  BY <1>1, SoundFrame
<1> QED BY <1>1, <1>2 DEF n

\* MDS_ThreadSetYield sets a flag beside the state.
LEMMA SetYieldSound ==
  ASSUME NEW k, Sound(k), NEW t \in Thread
  PROVE  Sound(SetYield(k, t)) /\ SetYield(k, t).fault = k.fault
<1> DEFINE n == SetYield(k, t)
<1>1. n \in KernelState /\ SameTable(k, n) /\ n.fault = k.fault
  BY DEF Sound, KernelState, SameTable, SetYield
<1> HIDE DEF n
<1>2. Sound(n)
  BY <1>1, SoundFrame
<1> QED BY <1>1, <1>2 DEF n

\* The scheduler lock counts, and its release stops at zero.
LEMMA LockSound ==
  ASSUME NEW k, Sound(k)
  PROVE  /\ Sound(LockAcquire(k)) /\ LockAcquire(k).fault = k.fault
         /\ Sound(LockRelease(k)) /\ LockRelease(k).fault = k.fault
<1>1. ASSUME NEW c \in Nat
      PROVE  Sound([k EXCEPT !.nest = c]) /\ [k EXCEPT !.nest = c].fault = k.fault
  <2> DEFINE n == [k EXCEPT !.nest = c]
  <2>1. n \in KernelState /\ SameTable(k, n) /\ n.fault = k.fault
    BY DEF Sound, KernelState, SameTable
  <2> HIDE DEF n
  <2>2. Sound(n)
    BY <2>1, SoundFrame
  <2> QED BY <2>1, <2>2 DEF n
<1>2. k.nest + 1 \in Nat /\ (IF k.nest > 0 THEN k.nest - 1 ELSE 0) \in Nat
  BY DEF Sound, KernelState
<1>3. /\ LockAcquire(k) = [k EXCEPT !.nest = k.nest + 1]
      /\ LockRelease(k) = [k EXCEPT !.nest = IF k.nest > 0 THEN k.nest - 1 ELSE 0]
  BY DEF LockAcquire, LockRelease, Sound, KernelState
<1> QED BY <1>1, <1>2, <1>3

\* MDS_ThreadYield moves the thread behind its peers.
LEMMA ThreadYieldSound ==
  ASSUME NEW k, Sound(k), NEW t \in Thread
  PROVE  Sound(ThreadYield(k, t)) /\ ThreadYield(k, t).fault = k.fault
<1> DEFINE n == [k EXCEPT !.remain[t] = Slice]
<1>1. Slice \in 1..Slice
  BY KernelAssumption
<1>2. Sound(n) /\ n.fault = k.fault
  BY <1>1, RemainSound
<1> HIDE DEF n
<1>3. Sound(SetYield(n, t)) /\ SetYield(n, t).fault = k.fault
  BY <1>2, SetYieldSound
<1> QED BY <1>3 DEF ThreadYield, n

\* MDS_ThreadDelay suspends the thread and arms its timer, which faults when
\* the timer is linked already.
LEMMA ThreadDelaySound ==
  ASSUME NEW k, Sound(k), NEW t \in Thread, NEW d \in Nat
  PROVE  /\ Sound(ThreadDelay(k, t, d))
         /\ ThreadDelay(k, t, d).fault \in {k.fault, "relinked_timer"}
<1> DEFINE s == ThreadSuspend(k, t)
<1>1. Sound(s) /\ s.fault = k.fault
  BY ThreadSuspendSound
<1> HIDE DEF s
<1>2. Sound(TimerStart(s, t, d)) /\ TimerStart(s, t, d).fault \in {s.fault, "relinked_timer"}
  BY <1>1, TimerStartSound
<1> QED BY <1>1, <1>2 DEF ThreadDelay, s

-----------------------------------------------------------------------------
(* The tick interrupt                                                      *)

\* MDS_ClockIncTickCount ends a slice and lets the timers elapse.
LEMMA ClockTickSound ==
  ASSUME NEW k, Sound(k), k.curr \in Thread
  PROVE  Sound(ClockTick(k)) /\ ClockTick(k).fault = k.fault
<1> DEFINE a == TimersElapse(k)
           b == [a EXCEPT !.remain[a.curr] = @ - 1]
           c == [a EXCEPT !.remain[a.curr] = Slice]
           d == SetYield(c, a.curr)
<1>1. Sound(a) /\ a.fault = k.fault /\ a.curr \in Thread
  BY TimersElapseSound
<1> HIDE DEF a
<1>2. CASE a.remain[a.curr] > 1
  <2>1. a.remain[a.curr] - 1 \in 1..Slice
    BY <1>1, <1>2, KernelAssumption DEF Sound, KernelState
  <2>2. b = [a EXCEPT !.remain[a.curr] = a.remain[a.curr] - 1]
    BY <1>1 DEF Sound, KernelState
  <2> DEFINE r == a.remain[a.curr] - 1
  <2> HIDE DEF b, r
  <2>3. b = [a EXCEPT !.remain[a.curr] = r] /\ r \in 1..Slice
    BY <2>1, <2>2 DEF r
  <2>4. Sound(b) /\ b.fault = a.fault
    BY <1>1, <2>3, RemainSound
  <2>5. ClockTick(k) = b
    BY <1>2 DEF ClockTick, RemainTick, a, b
  <2> QED BY <1>1, <2>4, <2>5
<1>3. CASE ~(a.remain[a.curr] > 1)
  <2>1. Slice \in 1..Slice
    BY KernelAssumption
  <2>2. Sound(c) /\ c.fault = a.fault
    BY <1>1, <2>1, RemainSound
  <2>3. ClockTick(k) = SchedulerCheck(d)
    BY <1>3 DEF ClockTick, RemainTick, a
  <2> HIDE DEF c
  <2>4. Sound(d) /\ d.fault = a.fault
    BY <1>1, <2>2, SetYieldSound
  <2> HIDE DEF d
  <2>5. Sound(SchedulerCheck(d)) /\ SchedulerCheck(d).fault = d.fault
    BY <2>4, SchedulerCheckSound
  <2> QED BY <1>1, <2>3, <2>4, <2>5
<1> QED BY <1>2, <1>3

\* One timer of MDS_WorkQueueCheck that is due.
LEMMA TimerExpireSound ==
  ASSUME NEW k, Sound(k), TimerDue(k)
  PROVE  Sound(TimerExpire(k)) /\ TimerExpire(k).fault = k.fault
<1> DEFINE u == Head(k.tq)
           a == [k EXCEPT !.tq = Tail(@)]
           b == ThreadTimeout(a, u)
<1>1. k.tq \in Seq(Thread) /\ k.tq # <<>>
  BY DEF Sound, KernelState, TimerDue
<1>2. u \in Thread /\ Tail(k.tq) \in Seq(Thread)
  BY <1>1, HeadTailProperties
<1>3. a \in KernelState /\ SameTable(k, a) /\ a.fault = k.fault
  BY <1>2 DEF Sound, KernelState, SameTable
<1> HIDE DEF a, u
<1>4. Sound(a)
  BY <1>3, SoundFrame
<1>5. Sound(b) /\ b.fault = k.fault
  BY <1>2, <1>3, <1>4, ThreadTimeoutSound
<1> HIDE DEF b
<1>6. Sound(SchedulerCheck(b)) /\ SchedulerCheck(b).fault = b.fault
  BY <1>5, SchedulerCheckSound
<1> QED BY <1>5, <1>6 DEF TimerExpire, a, b, u

-----------------------------------------------------------------------------
(* Where the kernel functions leave a thread: its state, its node, its     *)
(* timer and its error agree, after every one of them.                     *)

\* The state of t agrees with the list its node is on and with its timer.
Placed(k, t) ==
  /\ k.st[t] = "READY" /\ t # Idle => On(k, k.prio[t], t)
  /\ k.st[t] = "RUNNING" => t = k.curr
  /\ OnReadyLevel(k, t) => \/ k.st[t] \in {"READY", "RUNNING"}
                           \/ k.st[t] = "SUSPENDED" /\ k.err[t] = "ETIMEOUT"
  /\ Armed(k, t) => k.st[t] = "SUSPENDED" /\ ~OnReadyLevel(k, t)
  /\ \A w \in WaitQ : On(k, w, t) => k.st[t] = "SUSPENDED"
  /\ On(k, Defunct, t) => k.st[t] = "TERMINATED"

\* The idle thread alone has the lowest priority, which has no list; it is
\* never suspended.
Ranked(k, t) ==
  IF t = Idle
  THEN k.prio[t] = PrioMax /\ k.st[t] \in {"READY", "RUNNING"} /\ \A l \in Lists : ~On(k, l, t)
  ELSE k.prio[t] \in Prio

\* What every kernel function finds and leaves besides a sound table.
Settled(k) == Distinct(k.tq) /\ \A t \in Thread : Placed(k, t) /\ Ranked(k, t)

\* The current thread is one that was started, and while it is suspended it
\* is not in the ready table: the scheduler has not looked at it since.
CurrentKept(k) ==
  k.curr # NoThread =>
    /\ k.st[k.curr] \notin {"INACTIVED", "FREE"}
    /\ k.st[k.curr] = "SUSPENDED" => ~OnReadyLevel(k, k.curr)

Orderly(k) == Sound(k) /\ Settled(k) /\ CurrentKept(k)

\* From k to n nothing happened to any other thread than t.
Others(k, n, t) ==
  \A u \in Thread \ {t} :
    /\ n.st[u] = k.st[u] /\ n.err[u] = k.err[u] /\ n.prio[u] = k.prio[u]
    /\ Armed(n, u) <=> Armed(k, u)
    /\ \A l \in Lists : On(n, l, u) <=> On(k, l, u)

\* From k to n the processor, its lock and the fault stayed as they were.
SameProcessor(k, n) == n.curr = k.curr /\ n.nest = k.nest /\ n.fault = k.fault

\* From k to n the lists t is not on now kept their order, without t.
Unlinked(k, n, t) == \A l \in Lists : ~On(n, l, t) => n.list[l] = Unlink(k.list[l], t)

-----------------------------------------------------------------------------
(* The general steps                                                       *)

\* What two operators in a row do to t, they do to t alone.
LEMMA OthersCompose ==
  ASSUME NEW k, NEW m, NEW n, NEW t, Others(k, m, t), Others(m, n, t)
  PROVE  Others(k, n, t)
BY DEF Others

\* A step that moves one thread leaves the system settled when it leaves
\* that thread in its place.
LEMMA SettledStep ==
  ASSUME NEW k, Settled(k), NEW n, NEW t \in Thread, Others(k, n, t),
         n.curr = k.curr, Distinct(n.tq), Placed(n, t), Ranked(n, t)
  PROVE  Settled(n)
<1>0. Prio \subseteq Lists /\ WaitQ \subseteq Lists /\ Defunct \in Lists
  BY DEF Lists
<1>1. ASSUME NEW u \in Thread, u # t PROVE Placed(n, u) /\ Ranked(n, u)
  <2>1. /\ n.st[u] = k.st[u] /\ n.err[u] = k.err[u] /\ n.prio[u] = k.prio[u]
        /\ Armed(n, u) <=> Armed(k, u)
        /\ \A l \in Lists : On(n, l, u) <=> On(k, l, u)
    BY <1>1 DEF Others
  <2>2. Placed(k, u) /\ Ranked(k, u)
    BY DEF Settled
  <2>3. OnReadyLevel(n, u) <=> OnReadyLevel(k, u)
    BY <1>0, <2>1 DEF OnReadyLevel
  <2>4. u # Idle => (On(n, n.prio[u], u) <=> On(k, k.prio[u], u))
    BY <1>0, <2>1, <2>2 DEF Ranked
  <2>5. Placed(n, u)
    BY <1>0, <2>1, <2>2, <2>3, <2>4 DEF Placed
  <2>6. Ranked(n, u)
    BY <2>1, <2>2 DEF Ranked
  <2> QED BY <2>5, <2>6
<1> QED BY <1>1 DEF Settled

-----------------------------------------------------------------------------
(* The primitives                                                          *)

\* MDS_SchedulerInsertThread links t, which is on no list after it was taken
\* off, into the level of its priority and moves nobody else.
LEMMA InsertThreadMoves ==
  ASSUME NEW k, Sound(k), NEW t \in Thread, NEW n, n = InsertThread(k, t)
  PROVE  /\ Sound(n) /\ Others(k, n, t) /\ SameProcessor(k, n) /\ Unlinked(k, n, t)
         /\ \A l \in Lists : On(n, l, t) <=> l = k.prio[t] /\ l \in Prio
         /\ n.st = k.st /\ n.err = k.err /\ n.prio = k.prio
         /\ n.tq = k.tq /\ n.left = k.left
<1>1. /\ Sound(n)
      /\ \A l \in Lists : \A u :
           On(n, l, u) <=> (On(k, l, u) /\ u # t) \/ (u = t /\ l = k.prio[t] /\ l \in Prio)
      /\ Unlinked(k, n, t)
      /\ n.st = k.st /\ n.err = k.err /\ n.prio = k.prio /\ n.tq = k.tq /\ n.left = k.left
      /\ n.curr = k.curr /\ n.nest = k.nest /\ n.fault = k.fault
  BY InsertThreadSound DEF Unlinked
<1>2. SameProcessor(k, n)
  BY <1>1 DEF SameProcessor
<1>3. Others(k, n, t)
  BY <1>1 DEF Others, Armed
<1> QED BY <1>1, <1>2, <1>3

\* MDS_SchedulerRemoveThread takes t off whatever list it is on.
LEMMA RemoveThreadMoves ==
  ASSUME NEW k, Sound(k), NEW t \in Thread, NEW n, n = RemoveThread(k, t)
  PROVE  /\ Sound(n) /\ Others(k, n, t) /\ SameProcessor(k, n) /\ Unlinked(k, n, t)
         /\ \A l \in Lists : ~On(n, l, t)
         /\ n.st = k.st /\ n.err = k.err /\ n.prio = k.prio
         /\ n.tq = k.tq /\ n.left = k.left
<1>1. /\ Sound(n)
      /\ \A l \in Lists : \A u : On(n, l, u) <=> On(k, l, u) /\ u # t
      /\ Unlinked(k, n, t)
      /\ n.st = k.st /\ n.err = k.err /\ n.prio = k.prio /\ n.tq = k.tq /\ n.left = k.left
      /\ n.curr = k.curr /\ n.nest = k.nest /\ n.fault = k.fault
  BY RemoveThreadSound DEF Unlinked
<1>2. SameProcessor(k, n)
  BY <1>1 DEF SameProcessor
<1>3. Others(k, n, t)
  BY <1>1 DEF Others, Armed
<1> QED BY <1>1, <1>2, <1>3

\* MDS_ThreadSetState writes one state and nothing else.
LEMMA SetStateMoves ==
  ASSUME NEW k, Sound(k), NEW t \in Thread, NEW s \in State, NEW n, n = SetState(k, t, s)
  PROVE  /\ Sound(n) /\ Others(k, n, t) /\ SameProcessor(k, n)
         /\ n.st[t] = s
         /\ n.list = k.list /\ n.err = k.err /\ n.prio = k.prio
         /\ n.tq = k.tq /\ n.left = k.left
<1>1. Sound(n)
  BY SetStateSound
<1>2. /\ n.st = [k.st EXCEPT ![t] = s] /\ k.st \in [Thread -> State]
      /\ n.list = k.list /\ n.err = k.err /\ n.prio = k.prio
      /\ n.tq = k.tq /\ n.left = k.left /\ SameProcessor(k, n)
  BY DEF SetState, Sound, KernelState, SameProcessor
<1>3. Others(k, n, t)
  BY <1>2 DEF Others, Armed, On
<1> QED BY <1>1, <1>2, <1>3

\* MDS_TimerStop takes the timer of t out and no other.
LEMMA TimerStopMoves ==
  ASSUME NEW k, Sound(k), Distinct(k.tq), NEW t \in Thread, NEW n, n = TimerStop(k, t)
  PROVE  /\ Sound(n) /\ Others(k, n, t) /\ SameProcessor(k, n)
         /\ Distinct(n.tq) /\ ~Armed(n, t)
         /\ n.list = k.list /\ n.st = k.st /\ n.err = k.err /\ n.prio = k.prio
         /\ \A u \in Thread \ {t} : n.left[u] = k.left[u]
<1>1. Sound(n)
  BY TimerStopSound
<1>2. /\ n.tq = Unlink(k.tq, t) /\ n.left = [k.left EXCEPT ![t] = 0]
      /\ n.list = k.list /\ n.st = k.st /\ n.err = k.err /\ n.prio = k.prio
      /\ SameProcessor(k, n) /\ k.tq \in Seq(Thread) /\ k.left \in [Thread -> Nat]
  BY DEF TimerStop, Sound, KernelState, SameProcessor
<1>3. /\ Distinct(n.tq)
      /\ \A u : Contains(n.tq, u) <=> Contains(k.tq, u) /\ u # t
  BY <1>2, UnlinkProperties
<1>4. Others(k, n, t)
  BY <1>2, <1>3 DEF Others, Armed, On
<1> QED BY <1>1, <1>2, <1>3, <1>4 DEF Armed

\* MDS_SysTimerStart of a timer that is not linked arms it when the duration
\* is one a timer can wait, and is no fault.
LEMMA TimerStartMoves ==
  ASSUME NEW k, Sound(k), Distinct(k.tq), NEW t \in Thread, ~Armed(k, t), NEW d \in Nat,
         NEW n, n = TimerStart(k, t, d)
  PROVE  /\ Sound(n) /\ Others(k, n, t) /\ SameProcessor(k, n)
         /\ Distinct(n.tq) /\ (Armed(n, t) <=> d < TimerMax)
         /\ n.list = k.list /\ n.st = k.st /\ n.err = k.err /\ n.prio = k.prio
         /\ \A u \in Thread \ {t} : n.left[u] = k.left[u]
         /\ d < TimerMax => n.left[t] = d
<1>1. Sound(n)
  BY TimerStartSound
<1>2. CASE d >= TimerMax
  <2>1. n = k /\ ~(d < TimerMax)
    BY <1>2, KernelAssumption DEF TimerStart
  <2> QED BY <1>1, <2>1 DEF Others, SameProcessor
<1>3. CASE d < TimerMax
  <2> DEFINE Later == {u \in Thread : k.left[u] > d}
             b == InsertBefore(k.tq, t, Later)
  <2>1. /\ n.tq = b /\ n.left = [k.left EXCEPT ![t] = d]
        /\ n.list = k.list /\ n.st = k.st /\ n.err = k.err /\ n.prio = k.prio
        /\ SameProcessor(k, n) /\ k.tq \in Seq(Thread) /\ k.left \in [Thread -> Nat]
    <3>1. ~Contains(k.tq, t) /\ ~(d >= TimerMax)
      BY <1>3, KernelAssumption DEF Armed
    <3>2. n = [k EXCEPT !.tq = b, !.left[t] = d]
      BY <3>1 DEF TimerStart, Sound, KernelState
    <3> HIDE DEF b
    <3> QED BY <3>2 DEF Sound, KernelState, SameProcessor
  <2> HIDE DEF Later
  <2>2. /\ Distinct(b)
        /\ \A u : Contains(b, u) <=> Contains(k.tq, u) \/ u = t
    <3>1. k.tq \in Seq(Thread) /\ ~Contains(k.tq, t)
      BY <2>1 DEF Armed
    <3> QED BY <3>1, InsertBeforeProperties
  <2> HIDE DEF b
  <2>3. Others(k, n, t)
    BY <2>1, <2>2 DEF Others, Armed, On
  <2> QED BY <1>1, <1>3, <2>1, <2>2, <2>3 DEF Armed
<1>4. d < TimerMax \/ d >= TimerMax
  BY KernelAssumption
<1> QED BY <1>2, <1>3, <1>4

-----------------------------------------------------------------------------
(* The functions of thread.c                                               *)

\* MDS_ThreadResume leaves t READY, listed at its priority, its timer stopped,
\* its error as it was.
LEMMA MakeReadyMoves ==
  ASSUME NEW k, Sound(k), Distinct(k.tq), NEW t \in Thread, NEW n, n = MakeReady(k, t)
  PROVE  /\ Sound(n) /\ Others(k, n, t) /\ SameProcessor(k, n) /\ Unlinked(k, n, t)
         /\ Distinct(n.tq) /\ ~Armed(n, t)
         /\ n.st[t] = "READY" /\ n.err = k.err /\ n.prio = k.prio
         /\ \A l \in Lists : On(n, l, t) <=> l = k.prio[t] /\ l \in Prio
         /\ \A u \in Thread \ {t} : n.left[u] = k.left[u]
<1>1. PICK a : a = TimerStop(k, t)
  OBVIOUS
<1>2. /\ Sound(a) /\ Others(k, a, t) /\ SameProcessor(k, a)
      /\ Distinct(a.tq) /\ ~Armed(a, t)
      /\ a.list = k.list /\ a.st = k.st /\ a.err = k.err /\ a.prio = k.prio
      /\ \A u \in Thread \ {t} : a.left[u] = k.left[u]
  BY <1>1, TimerStopMoves
<1>3. PICK b : b = RemoveThread(a, t)
  OBVIOUS
<1>4. /\ Sound(b) /\ Others(a, b, t) /\ SameProcessor(a, b) /\ Unlinked(a, b, t)
      /\ \A l \in Lists : ~On(b, l, t)
      /\ b.st = a.st /\ b.err = a.err /\ b.prio = a.prio /\ b.tq = a.tq /\ b.left = a.left
  BY <1>2, <1>3, RemoveThreadMoves
<1>5. PICK c : c = InsertThread(b, t)
  OBVIOUS
<1>6. /\ Sound(c) /\ Others(b, c, t) /\ SameProcessor(b, c) /\ Unlinked(b, c, t)
      /\ \A l \in Lists : On(c, l, t) <=> l = b.prio[t] /\ l \in Prio
      /\ c.st = b.st /\ c.err = b.err /\ c.prio = b.prio /\ c.tq = b.tq /\ c.left = b.left
  BY <1>4, <1>5, InsertThreadMoves
<1>7. n = SetState(c, t, "READY") /\ "READY" \in State
  BY <1>1, <1>3, <1>5 DEF MakeReady, State
<1>8. /\ Sound(n) /\ Others(c, n, t) /\ SameProcessor(c, n) /\ n.st[t] = "READY"
      /\ n.list = c.list /\ n.err = c.err /\ n.prio = c.prio /\ n.tq = c.tq /\ n.left = c.left
  BY <1>6, <1>7, SetStateMoves
<1>9. Others(k, n, t)
  BY <1>2, <1>4, <1>6, <1>8, OthersCompose
<1>10. Unlinked(k, n, t)
  <2>1. \A l \in Lists : b.list[l] = Unlink(k.list[l], t)
    BY <1>2, <1>4 DEF Unlinked
  <2>2. \A l \in Lists : ~On(n, l, t) => n.list[l] = Unlink(b.list[l], t) /\ ~Contains(b.list[l], t)
    BY <1>4, <1>6, <1>8 DEF Unlinked, On
  <2> QED BY <2>1, <2>2 DEF Unlinked, Unlink
<1>11. SameProcessor(k, n)
  BY <1>2, <1>4, <1>6, <1>8 DEF SameProcessor
<1> QED BY <1>2, <1>4, <1>6, <1>8, <1>9, <1>10, <1>11 DEF On, Armed

\* MDS_ThreadSuspend leaves t SUSPENDED, on no list, its timer stopped.
LEMMA ThreadSuspendMoves ==
  ASSUME NEW k, Sound(k), Distinct(k.tq), NEW t \in Thread, ThreadSuspendErr(k, t) = "EOK",
         NEW n, n = ThreadSuspend(k, t)
  PROVE  /\ Sound(n) /\ Others(k, n, t) /\ SameProcessor(k, n) /\ Unlinked(k, n, t)
         /\ Distinct(n.tq) /\ ~Armed(n, t)
         /\ n.st[t] = "SUSPENDED" /\ n.err = k.err /\ n.prio = k.prio
         /\ \A l \in Lists : ~On(n, l, t)
         /\ \A u \in Thread \ {t} : n.left[u] = k.left[u]
<1>1. PICK a : a = TimerStop(k, t)
  OBVIOUS
<1>2. /\ Sound(a) /\ Others(k, a, t) /\ SameProcessor(k, a)
      /\ Distinct(a.tq) /\ ~Armed(a, t)
      /\ a.list = k.list /\ a.st = k.st /\ a.err = k.err /\ a.prio = k.prio
      /\ \A u \in Thread \ {t} : a.left[u] = k.left[u]
  BY <1>1, TimerStopMoves
<1>3. PICK b : b = RemoveThread(a, t)
  OBVIOUS
<1>4. /\ Sound(b) /\ Others(a, b, t) /\ SameProcessor(a, b) /\ Unlinked(a, b, t)
      /\ \A l \in Lists : ~On(b, l, t)
      /\ b.st = a.st /\ b.err = a.err /\ b.prio = a.prio /\ b.tq = a.tq /\ b.left = a.left
  BY <1>2, <1>3, RemoveThreadMoves
<1>7. n = SetState(b, t, "SUSPENDED") /\ "SUSPENDED" \in State
  BY <1>1, <1>3 DEF ThreadSuspend, State
<1>8. /\ Sound(n) /\ Others(b, n, t) /\ SameProcessor(b, n) /\ n.st[t] = "SUSPENDED"
      /\ n.list = b.list /\ n.err = b.err /\ n.prio = b.prio /\ n.tq = b.tq /\ n.left = b.left
  BY <1>4, <1>7, SetStateMoves
<1>9. Others(k, n, t)
  BY <1>2, <1>4, <1>8, OthersCompose
<1>10. Unlinked(k, n, t)
  BY <1>2, <1>4, <1>8 DEF Unlinked
<1>11. SameProcessor(k, n)
  BY <1>2, <1>4, <1>8 DEF SameProcessor
<1> QED BY <1>2, <1>4, <1>8, <1>9, <1>10, <1>11 DEF On, Armed

\* THREAD_Terminate leaves t TERMINATED, on the defunct queue only, its timer
\* stopped.
LEMMA ThreadTerminateMoves ==
  ASSUME NEW k, Sound(k), Distinct(k.tq), NEW t \in Thread, k.st[t] # "TERMINATED",
         NEW n, n = ThreadTerminate(k, t)
  PROVE  /\ Sound(n) /\ Others(k, n, t) /\ SameProcessor(k, n)
         /\ Distinct(n.tq) /\ ~Armed(n, t)
         /\ n.st[t] = "TERMINATED" /\ n.err = k.err /\ n.prio = k.prio
         /\ \A l \in Lists : On(n, l, t) <=> l = Defunct
<1>1. PICK a : a = TimerStop(k, t)
  OBVIOUS
<1>2. /\ Sound(a) /\ Others(k, a, t) /\ SameProcessor(k, a)
      /\ Distinct(a.tq) /\ ~Armed(a, t)
      /\ a.list = k.list /\ a.st = k.st /\ a.err = k.err /\ a.prio = k.prio
  BY <1>1, TimerStopMoves
<1>3. PICK b : b = RemoveThread(a, t)
  OBVIOUS
<1>4. /\ Sound(b) /\ Others(a, b, t) /\ SameProcessor(a, b)
      /\ \A l \in Lists : ~On(b, l, t)
      /\ b.st = a.st /\ b.err = a.err /\ b.prio = a.prio /\ b.tq = a.tq
  BY <1>2, <1>3, RemoveThreadMoves
<1>5. Sound(n)
  BY ThreadTerminateSound
<1> DEFINE s == PushTail(b.list[Defunct], t)
           c == [b EXCEPT !.list[Defunct] = s]
<1>6. Defunct \in Lists
  BY DEF Lists
<1>7. Gains(s, b.list[Defunct], t)
  <2>1. /\ b.list[Defunct] \in Seq(Thread) /\ Distinct(b.list[Defunct])
        /\ ~Contains(b.list[Defunct], t)
    BY <1>4, <1>6 DEF Sound, KernelState, OneHome, On
  <2> QED BY <2>1, InsertionsGain
<1> HIDE DEF s
<1>8. \A m \in Lists : \A u : On(c, m, u) <=> On(b, m, u) \/ (m = Defunct /\ u = t)
  BY <1>4, <1>6, <1>7, LinkProperties DEF Sound
<1>9. /\ c.st = b.st /\ c.err = b.err /\ c.prio = b.prio /\ c.tq = b.tq
      /\ SameProcessor(b, c) /\ b.st \in [Thread -> State]
  BY <1>4 DEF Sound, KernelState, SameProcessor
<1>10. n = SetState(c, t, "TERMINATED")
  BY <1>1, <1>3 DEF ThreadTerminate, s
<1> HIDE DEF c
<1>11. /\ n.st = [c.st EXCEPT ![t] = "TERMINATED"] /\ n.list = c.list /\ n.err = c.err
       /\ n.prio = c.prio /\ n.tq = c.tq /\ SameProcessor(c, n)
  <2>1. c \in [list : [Lists -> Seq(Thread)], mask : SUBSET Prio, st : [Thread -> State],
               yield : SUBSET Thread, prio : [Thread -> Level], curr : Thread \cup {NoThread},
               nest : Nat, tq : Seq(Thread), left : [Thread -> Nat], err : [Thread -> Err],
               remain : [Thread -> 1..Slice], fault : Fault]
    BY <1>4, <1>6, <1>7, LinkProperties DEF Sound, KernelState, c
  <2> QED BY <1>10, <2>1 DEF SetState, SameProcessor
<1>12. Others(b, n, t)
  BY <1>8, <1>9, <1>11 DEF Others, Armed, On
<1>13. Others(k, n, t)
  BY <1>2, <1>4, <1>12, OthersCompose
<1>14. SameProcessor(k, n)
  BY <1>2, <1>4, <1>9, <1>11 DEF SameProcessor
<1>15. \A l \in Lists : On(n, l, t) <=> l = Defunct
  BY <1>4, <1>8, <1>11 DEF On
<1>16. n.st[t] = "TERMINATED"
  BY <1>9, <1>11
<1> QED BY <1>2, <1>4, <1>5, <1>9, <1>11, <1>13, <1>14, <1>15, <1>16 DEF Armed

\* THREAD_Timeout of a thread that is still suspended.
LEMMA ThreadTimeoutMoves ==
  ASSUME NEW k, Sound(k), NEW t \in Thread, k.st[t] = "SUSPENDED",
         NEW n, n = ThreadTimeout(k, t)
  PROVE  /\ Sound(n) /\ Others(k, n, t) /\ SameProcessor(k, n) /\ Unlinked(k, n, t)
         /\ \A l \in Lists : On(n, l, t) <=> l = k.prio[t] /\ l \in Prio
         /\ n.st = k.st /\ n.err[t] = "ETIMEOUT" /\ n.prio = k.prio
         /\ n.tq = k.tq /\ n.left = k.left
<1>1. Sound(n)
  BY ThreadTimeoutSound
<1>2. PICK a : a = InsertThread(k, t)
  OBVIOUS
<1>3. /\ Sound(a) /\ Others(k, a, t) /\ SameProcessor(k, a) /\ Unlinked(k, a, t)
      /\ \A l \in Lists : On(a, l, t) <=> l = k.prio[t] /\ l \in Prio
      /\ a.st = k.st /\ a.err = k.err /\ a.prio = k.prio /\ a.tq = k.tq /\ a.left = k.left
  BY <1>2, InsertThreadMoves
<1>4. n = [a EXCEPT !.err[t] = "ETIMEOUT"]
  BY <1>2 DEF ThreadTimeout
<1>5. /\ n.err = [a.err EXCEPT ![t] = "ETIMEOUT"] /\ a.err \in [Thread -> Err]
      /\ n.list = a.list /\ n.st = a.st /\ n.prio = a.prio /\ n.tq = a.tq /\ n.left = a.left
      /\ SameProcessor(a, n)
  BY <1>3, <1>4 DEF Sound, KernelState, SameProcessor
<1>6. Others(a, n, t)
  BY <1>5 DEF Others, Armed, On
<1>7. Others(k, n, t)
  BY <1>3, <1>6, OthersCompose
<1> QED BY <1>1, <1>3, <1>5, <1>7 DEF SameProcessor, Unlinked, On

-----------------------------------------------------------------------------
(* The scheduler check                                                     *)

\* A step that moves one thread keeps the whole in order.
LEMMA OrderlyStep ==
  ASSUME NEW k, Orderly(k), NEW n, Sound(n), NEW t \in Thread, Others(k, n, t),
         n.curr = k.curr, Distinct(n.tq), Placed(n, t), Ranked(n, t),
         t = k.curr => /\ n.st[t] \notin {"INACTIVED", "FREE"}
                       /\ n.st[t] = "SUSPENDED" => ~OnReadyLevel(n, t)
  PROVE  Orderly(n)
<1>1. Settled(n)
  BY SettledStep DEF Orderly
<1>2. CurrentKept(n)
  <2>1. CASE k.curr = NoThread \/ k.curr = t
    BY <2>1 DEF CurrentKept
  <2>2. CASE k.curr # NoThread /\ k.curr # t
    <3>1. k.curr \in Thread \ {t}
      BY <2>2 DEF Orderly, Sound, KernelState
    <3>2. n.st[k.curr] = k.st[k.curr] /\ \A l \in Lists : On(n, l, k.curr) <=> On(k, l, k.curr)
      BY <3>1 DEF Others
    <3> QED BY <3>2 DEF Orderly, CurrentKept, OnReadyLevel, Lists
  <2> QED BY <2>1, <2>2
<1> QED BY <1>1, <1>2 DEF Orderly

\* The processor given to a thread that is not asleep, when no other runs.
LEMMA SwitchToOrderly ==
  ASSUME NEW k, Sound(k), Distinct(k.tq), \A u \in Thread : Ranked(k, u), NEW to \in Thread,
         \A u \in Thread \ {to} : Placed(k, u) /\ k.st[u] # "RUNNING",
         ~Armed(k, to), NEW n, n = SwitchTo(k, to)
  PROVE  /\ Orderly(n) /\ Others(k, n, to) /\ Unlinked(k, n, to)
         /\ n.curr = to /\ n.nest = k.nest /\ n.fault = k.fault
         /\ n.st[to] = "RUNNING" /\ \A l \in Lists : ~On(n, l, to)
         /\ n.err = k.err /\ n.prio = k.prio /\ n.tq = k.tq /\ n.left = k.left
<1>0. "RUNNING" \in State
  BY DEF State
<1>1. Sound(n)
  BY SwitchToSound
<1>2. PICK a : a = RemoveThread(k, to)
  OBVIOUS
<1>3. /\ Sound(a) /\ Others(k, a, to) /\ SameProcessor(k, a) /\ Unlinked(k, a, to)
      /\ \A l \in Lists : ~On(a, l, to)
      /\ a.st = k.st /\ a.err = k.err /\ a.prio = k.prio /\ a.tq = k.tq /\ a.left = k.left
  BY <1>2, RemoveThreadMoves
<1>4. PICK b : b = SetState(a, to, "RUNNING")
  OBVIOUS
<1>5. /\ Sound(b) /\ Others(a, b, to) /\ SameProcessor(a, b) /\ b.st[to] = "RUNNING"
      /\ b.list = a.list /\ b.err = a.err /\ b.prio = a.prio /\ b.tq = a.tq /\ b.left = a.left
  BY <1>0, <1>3, <1>4, SetStateMoves
<1>6. n = [b EXCEPT !.curr = to]
  BY <1>2, <1>4 DEF SwitchTo
<1>7. /\ n.curr = to /\ n.nest = b.nest /\ n.fault = b.fault
      /\ n.st = b.st /\ n.list = b.list /\ n.err = b.err /\ n.prio = b.prio
      /\ n.tq = b.tq /\ n.left = b.left
  BY <1>5, <1>6 DEF Sound, KernelState
<1>8. Others(b, n, to)
  BY <1>7 DEF Others, Armed, On
<1>9. Others(k, n, to)
  BY <1>3, <1>5, <1>8, OthersCompose
<1>10. /\ n.nest = k.nest /\ n.fault = k.fault /\ n.st[to] = "RUNNING"
       /\ \A l \in Lists : ~On(n, l, to)
       /\ n.err = k.err /\ n.prio = k.prio /\ n.tq = k.tq /\ n.left = k.left
       /\ Unlinked(k, n, to)
  BY <1>3, <1>5, <1>7 DEF SameProcessor, On, Unlinked
<1>11. ASSUME NEW u \in Thread, u # to PROVE Placed(n, u) /\ Ranked(n, u)
  <2>1. /\ n.st[u] = k.st[u] /\ n.err[u] = k.err[u] /\ n.prio[u] = k.prio[u]
        /\ Armed(n, u) <=> Armed(k, u)
        /\ \A l \in Lists : On(n, l, u) <=> On(k, l, u)
    BY <1>9, <1>11 DEF Others
  <2>2. Placed(k, u) /\ Ranked(k, u) /\ k.st[u] # "RUNNING"
    BY <1>11
  <2>3. OnReadyLevel(n, u) <=> OnReadyLevel(k, u)
    BY <2>1 DEF OnReadyLevel, Lists
  <2>4. u # Idle => (On(n, n.prio[u], u) <=> On(k, k.prio[u], u))
    BY <2>1, <2>2 DEF Ranked, Lists
  <2>5. Placed(n, u)
    BY <2>1, <2>2, <2>3, <2>4 DEF Placed, Lists
  <2>6. Ranked(n, u)
    BY <2>1, <2>2 DEF Ranked
  <2> QED BY <2>5, <2>6
<1>12. ~OnReadyLevel(n, to)
  BY <1>10 DEF OnReadyLevel, Lists
<1>13. Placed(n, to) /\ Ranked(n, to)
  BY <1>7, <1>10, <1>12 DEF Placed, Ranked, Armed, Lists
<1>14. Orderly(n)
  BY <1>1, <1>7, <1>10, <1>11, <1>12, <1>13 DEF Orderly, Settled, CurrentKept
<1> QED BY <1>7, <1>9, <1>10, <1>14

\* The running thread put back: it is ready, on the level of its priority.
LEMMA PreemptMoves ==
  ASSUME NEW k, Sound(k), k.curr \in Thread, NEW n, n = Preempt(k)
  PROVE  /\ Sound(n) /\ Others(k, n, k.curr) /\ SameProcessor(k, n)
         /\ n.err = k.err /\ n.prio = k.prio /\ n.tq = k.tq /\ n.left = k.left
         /\ k.st[k.curr] # "RUNNING" => n = k
         /\ k.st[k.curr] = "RUNNING" =>
              /\ n.st[k.curr] = "READY" /\ Unlinked(k, n, k.curr)
              /\ \A l \in Lists : On(n, l, k.curr) <=> l = k.prio[k.curr] /\ l \in Prio
<1>1. CASE k.st[k.curr] # "RUNNING"
  BY <1>1 DEF Preempt, Others, SameProcessor
<1>2. CASE k.st[k.curr] = "RUNNING"
  <2>1. PICK t \in Thread : t = k.curr
    OBVIOUS
  <2>2. PICK a : a = InsertThread(k, t)
    OBVIOUS
  <2>3. /\ Sound(a) /\ Others(k, a, t) /\ SameProcessor(k, a) /\ Unlinked(k, a, t)
        /\ \A l \in Lists : On(a, l, t) <=> l = k.prio[t] /\ l \in Prio
        /\ a.st = k.st /\ a.err = k.err /\ a.prio = k.prio /\ a.tq = k.tq /\ a.left = k.left
    BY <2>2, InsertThreadMoves
  <2>4. n = SetState(a, t, "READY") /\ "READY" \in State
    BY <1>2, <2>1, <2>2 DEF Preempt, State
  <2>5. /\ Sound(n) /\ Others(a, n, t) /\ SameProcessor(a, n) /\ n.st[t] = "READY"
        /\ n.list = a.list /\ n.err = a.err /\ n.prio = a.prio /\ n.tq = a.tq /\ n.left = a.left
    BY <2>3, <2>4, SetStateMoves
  <2>6. Others(k, n, t)
    BY <2>3, <2>5, OthersCompose
  <2>7. Unlinked(k, n, t)
    BY <2>3, <2>5 DEF Unlinked, On
  <2> QED BY <1>2, <2>1, <2>3, <2>5, <2>6, <2>7 DEF SameProcessor, On
<1> QED BY <1>1, <1>2

\* What the scheduler check leaves when it may look at the ready table.  The
\* new current thread is the best of those that may run; the one that ran
\* before is ready again; the wait queues are not touched.
Rescheduled(k, n) ==
  /\ n.curr \in Thread /\ n.nest = k.nest /\ n.fault = k.fault
  /\ n.st[n.curr] = "RUNNING" /\ \A l \in Lists : ~On(n, l, n.curr)
  /\ \/ n.curr = Idle
     \/ OnReadyLevel(k, n.curr)
     \/ n.curr = k.curr /\ k.st[k.curr] = "RUNNING"
  /\ \A u \in Thread \ {n.curr} :
       n.st[u] = IF k.st[u] = "RUNNING" THEN "READY" ELSE k.st[u]
  /\ \A l \in Lists \ Prio : n.list[l] = k.list[l]
  /\ n.err = k.err /\ n.prio = k.prio /\ n.tq = k.tq
  /\ n.curr # k.curr => \A p \in Prio : n.list[p] # <<>> => n.prio[n.curr] <= p

\* A thread that may be switched to is on no wait queue and has no timer.
LEMMA Runnable ==
  ASSUME NEW k, Sound(k), Settled(k), NEW t \in Thread,
         t = Idle \/ OnReadyLevel(k, t) \/ k.st[t] = "RUNNING"
  PROVE  ~Armed(k, t) /\ \A l \in Lists \ Prio : ~On(k, l, t)
<1>1. Placed(k, t) /\ Ranked(k, t)
  BY DEF Settled
<1>2. CASE t = Idle
  BY <1>1, <1>2 DEF Placed, Ranked
<1>3. CASE OnReadyLevel(k, t)
  <2>1. PICK p \in Prio : On(k, p, t)
    BY <1>3 DEF OnReadyLevel
  <2>2. p \in Lists
    BY DEF Lists
  <2> QED BY <1>1, <1>3, <2>1, <2>2 DEF Placed, Sound, OneHome
<1>4. CASE k.st[t] = "RUNNING"
  BY <1>1, <1>4 DEF Placed, Lists
<1> QED BY <1>2, <1>3, <1>4

\* MDS_KernelSchedulerCheck, unlocked: the current thread is READY or RUNNING
\* afterwards, whoever it is, and no thread has changed its list or its timer.
LEMMA SchedulerCheckOrderly ==
  ASSUME NEW k, Sound(k), Settled(k), k.nest = 0, k.curr \in Thread,
         NEW n, n = SchedulerCheck(k)
  PROVE  Orderly(n) /\ Rescheduled(k, n) /\ n.left = k.left
<1>0. /\ Distinct(k.tq) /\ \A u \in Thread : Placed(k, u) /\ Ranked(k, u)
      /\ k \in KernelState /\ k.prio \in [Thread -> Level]
  BY DEF Settled, Sound, KernelState
<1>1. PICK to : to = PeekThread(k)
  OBVIOUS
<1>2. /\ to \in Thread /\ to # NoThread
      /\ to = Idle \/ OnReadyLevel(k, to)
      /\ \A p \in Prio : k.list[p] # <<>> => k.prio[to] <= p
  <2>1. k.mask = {} => \A p \in Prio : k.list[p] = <<>>
    BY DEF Sound, TableExact
  <2> QED BY <1>1, <2>1, PeekThreadProperties
<1>3. k.curr # NoThread
  BY KernelAssumption
<1>4. n = IF StaysRunning(k, to) THEN SwitchTo(k, k.curr) ELSE SwitchTo(Preempt(k), to)
  BY <1>1, <1>2, <1>3 DEF SchedulerCheck
<1>5. CASE StaysRunning(k, to)
  <2>1. k.st[k.curr] = "RUNNING" /\ n = SwitchTo(k, k.curr)
    BY <1>4, <1>5 DEF StaysRunning
  <2>2. ~Armed(k, k.curr) /\ \A l \in Lists \ Prio : ~On(k, l, k.curr)
    BY <2>1, Runnable
  <2>3. \A u \in Thread \ {k.curr} : Placed(k, u) /\ k.st[u] # "RUNNING"
    BY <1>0 DEF Placed
  <2>4. /\ Orderly(n) /\ Others(k, n, k.curr) /\ Unlinked(k, n, k.curr)
        /\ n.curr = k.curr /\ n.nest = k.nest /\ n.fault = k.fault
        /\ n.st[k.curr] = "RUNNING" /\ \A l \in Lists : ~On(n, l, k.curr)
        /\ n.err = k.err /\ n.prio = k.prio /\ n.tq = k.tq /\ n.left = k.left
    BY <1>0, <2>1, <2>2, <2>3, SwitchToOrderly
  <2>5. \A l \in Lists \ Prio : n.list[l] = k.list[l]
    BY <2>2, <2>4 DEF Unlinked, Unlink, On
  <2>6. \A u \in Thread \ {n.curr} :
          n.st[u] = IF k.st[u] = "RUNNING" THEN "READY" ELSE k.st[u]
    BY <2>3, <2>4 DEF Others
  <2> QED BY <2>1, <2>4, <2>5, <2>6 DEF Rescheduled
<1>6. CASE ~StaysRunning(k, to)
  <2>1. PICK c \in Thread : c = k.curr
    OBVIOUS
  <2>2. PICK a : a = Preempt(k)
    OBVIOUS
  <2>3. /\ Sound(a) /\ Others(k, a, c) /\ SameProcessor(k, a)
        /\ a.err = k.err /\ a.prio = k.prio /\ a.tq = k.tq /\ a.left = k.left
        /\ k.st[c] # "RUNNING" => a = k
        /\ k.st[c] = "RUNNING" =>
              /\ a.st[c] = "READY" /\ Unlinked(k, a, c)
              /\ \A l \in Lists : On(a, l, c) <=> l = k.prio[c] /\ l \in Prio
    BY <2>1, <2>2, PreemptMoves
  <2>4. \A u \in Thread : a.st[u] = IF k.st[u] = "RUNNING" THEN "READY" ELSE k.st[u]
    BY <1>0, <2>1, <2>3 DEF Placed, Others
  <2>5. Settled(a)
    <3>1. ASSUME k.st[c] = "RUNNING" PROVE Settled(a)
      <4>1. OnReadyLevel(a, c) => a.st[c] = "READY"
        BY <2>3, <3>1
      <4>2. ~Armed(a, c)
        BY <1>0, <2>3, <3>1 DEF Placed, Armed
      <4>3. \A w \in WaitQ \cup {Defunct} : ~On(a, w, c)
        BY <2>3, <3>1, KernelAssumption DEF Lists
      <4>4. c # Idle => On(a, a.prio[c], c)
        BY <1>0, <2>3, <3>1 DEF Ranked, Lists
      <4>5. Placed(a, c)
        BY <2>3, <3>1, <4>1, <4>2, <4>3, <4>4 DEF Placed
      <4>6. Ranked(a, c)
        <5>1. CASE c = Idle
          <6>1. k.prio[c] = PrioMax /\ PrioMax \notin Prio
            BY <1>0, <5>1, KernelAssumption DEF Ranked, Prio
          <6> QED BY <2>3, <3>1, <5>1, <6>1 DEF Ranked
        <5>2. CASE c # Idle
          BY <1>0, <2>3, <5>2 DEF Ranked
        <5> QED BY <5>1, <5>2
      <4> QED BY <1>0, <2>3, <4>5, <4>6, SettledStep DEF SameProcessor
    <3> QED BY <2>3, <3>1
  <2>6. ~Armed(k, to) /\ \A l \in Lists \ Prio : ~On(k, l, to)
    BY <1>2, Runnable
  <2>7. n = SwitchTo(a, to) /\ ~Armed(a, to)
    BY <1>4, <1>6, <2>2, <2>3, <2>6 DEF Armed
  <2>8. \A u \in Thread \ {to} : Placed(a, u) /\ a.st[u] # "RUNNING"
    BY <2>4, <2>5 DEF Settled
  <2>9. /\ Orderly(n) /\ Others(a, n, to) /\ Unlinked(a, n, to)
        /\ n.curr = to /\ n.nest = a.nest /\ n.fault = a.fault
        /\ n.st[to] = "RUNNING" /\ \A l \in Lists : ~On(n, l, to)
        /\ n.err = a.err /\ n.prio = a.prio /\ n.tq = a.tq /\ n.left = a.left
    BY <1>2, <2>3, <2>5, <2>7, <2>8, SwitchToOrderly DEF Settled
  <2>10. \A u \in Thread \ {to} : n.st[u] = IF k.st[u] = "RUNNING" THEN "READY" ELSE k.st[u]
    BY <2>4, <2>9 DEF Others
  <2>11. \A l \in Lists \ Prio : a.list[l] = k.list[l]
    <3>1. k.st[c] = "RUNNING" => \A l \in Lists \ Prio : ~On(k, l, c)
      BY Runnable
    <3> QED BY <2>3, <3>1 DEF Unlinked, Unlink, On
  <2>12. \A l \in Lists \ Prio : n.list[l] = k.list[l]
    BY <2>6, <2>9, <2>11 DEF Unlinked, Unlink, On
  <2>13. ASSUME NEW p \in Prio, n.list[p] # <<>> PROVE n.prio[to] <= p
    <3>1. p \in Lists /\ n \in KernelState
      BY <2>9 DEF Lists, Orderly, Sound
    <3>2. PICK u \in Thread : On(n, p, u)
      BY <2>13, <3>1, EmptyList
    <3>3. On(a, p, u)
      BY <2>9, <3>1, <3>2 DEF Others
    <3>4. CASE On(k, p, u)
      BY <1>0, <1>2, <2>3, <2>9, <3>1, <3>4, EmptyList
    <3>5. CASE ~On(k, p, u)
      <4>1. k.st[c] = "RUNNING" /\ p = k.prio[c]
        BY <2>3, <3>1, <3>3, <3>5 DEF Others
      <4>2. ~(k.prio[c] < k.prio[to])
        BY <1>6, <2>1, <4>1 DEF StaysRunning
      <4>3. k.prio[c] \in Int /\ k.prio[to] \in Int
        BY <1>0, <1>2, KernelAssumption DEF Level
      <4> QED BY <2>3, <2>9, <4>1, <4>2, <4>3
    <3> QED BY <3>4, <3>5
  <2> QED BY <1>2, <2>3, <2>9, <2>10, <2>12, <2>13 DEF Rescheduled, SameProcessor
<1> QED BY <1>5, <1>6

\* A step that changes nothing of the threads keeps them in order.
SameThreads(k, n) ==
  /\ n.list = k.list /\ n.st = k.st /\ n.err = k.err /\ n.prio = k.prio
  /\ n.tq = k.tq /\ n.curr = k.curr

\* An update that leaves the threads alone (the lock, the slice, the tick)
\* keeps the order.
LEMMA SameThreadsOrderly ==
  ASSUME NEW k, NEW n, Sound(n), SameThreads(k, n), Settled(k)
  PROVE  Settled(n) /\ (CurrentKept(k) => CurrentKept(n))
<1>1. /\ \A t : Armed(n, t) <=> Armed(k, t)
      /\ \A t, l : On(n, l, t) <=> On(k, l, t)
      /\ \A t : OnReadyLevel(n, t) <=> OnReadyLevel(k, t)
  BY DEF SameThreads, Armed, On, OnReadyLevel
<1>2. \A t \in Thread : Placed(n, t) /\ Ranked(n, t)
  BY <1>1 DEF SameThreads, Settled, Placed, Ranked
<1> QED BY <1>1, <1>2 DEF SameThreads, Settled, CurrentKept

-----------------------------------------------------------------------------
(* The functions of thread.c keep the system in order                      *)

\* Every function keeps the order of the kernel: MDS_ThreadResume.
LEMMA MakeReadyOrderly ==
  ASSUME NEW k, Orderly(k), NEW t \in Thread, k.st[t] \in {"INACTIVED", "SUSPENDED"},
         NEW n, n = MakeReady(k, t)
  PROVE  Orderly(n)
<1>1. Sound(k) /\ Distinct(k.tq) /\ Placed(k, t) /\ Ranked(k, t)
  BY DEF Orderly, Settled
<1>2. /\ Sound(n) /\ Others(k, n, t) /\ SameProcessor(k, n)
      /\ Distinct(n.tq) /\ ~Armed(n, t)
      /\ n.st[t] = "READY" /\ n.err = k.err /\ n.prio = k.prio
      /\ \A l \in Lists : On(n, l, t) <=> l = k.prio[t] /\ l \in Prio
  BY <1>1, MakeReadyMoves
<1>3. t # Idle /\ k.prio[t] \in Prio
  BY <1>1 DEF Ranked
<1>4. \A w \in WaitQ \cup {Defunct} : ~On(n, w, t)
  BY <1>2, KernelAssumption DEF Lists
<1>5. Placed(n, t) /\ Ranked(n, t)
  BY <1>2, <1>3, <1>4 DEF Placed, Ranked, Lists
<1> QED BY <1>2, <1>5, OrderlyStep DEF SameProcessor

\* MDS_ThreadSuspend, of any thread but the idle one.
LEMMA ThreadSuspendOrderly ==
  ASSUME NEW k, Orderly(k), NEW t \in Thread \ {Idle}, ThreadSuspendErr(k, t) = "EOK",
         NEW n, n = ThreadSuspend(k, t)
  PROVE  Orderly(n)
<1>1. Sound(k) /\ Distinct(k.tq) /\ Ranked(k, t)
  BY DEF Orderly, Settled
<1>2. /\ Sound(n) /\ Others(k, n, t) /\ SameProcessor(k, n)
      /\ Distinct(n.tq) /\ ~Armed(n, t)
      /\ n.st[t] = "SUSPENDED" /\ n.err = k.err /\ n.prio = k.prio
      /\ \A l \in Lists : ~On(n, l, t)
  BY <1>1, ThreadSuspendMoves
<1>3. ~OnReadyLevel(n, t)
  BY <1>2 DEF OnReadyLevel, Lists
<1>4. Placed(n, t) /\ Ranked(n, t)
  BY <1>1, <1>2, <1>3 DEF Placed, Ranked, Lists
<1> QED BY <1>2, <1>3, <1>4, OrderlyStep DEF SameProcessor

\* THREAD_Terminate.
LEMMA ThreadTerminateOrderly ==
  ASSUME NEW k, Orderly(k), NEW t \in Thread \ {Idle}, k.st[t] # "TERMINATED",
         NEW n, n = ThreadTerminate(k, t)
  PROVE  Orderly(n)
<1>1. Sound(k) /\ Distinct(k.tq) /\ Ranked(k, t)
  BY DEF Orderly, Settled
<1>2. /\ Sound(n) /\ Others(k, n, t) /\ SameProcessor(k, n)
      /\ Distinct(n.tq) /\ ~Armed(n, t)
      /\ n.st[t] = "TERMINATED" /\ n.err = k.err /\ n.prio = k.prio
      /\ \A l \in Lists : On(n, l, t) <=> l = Defunct
  BY <1>1, ThreadTerminateMoves
<1>3. ~OnReadyLevel(n, t) /\ \A w \in WaitQ : ~On(n, w, t)
  BY <1>2, KernelAssumption DEF OnReadyLevel, Lists
<1>4. Placed(n, t) /\ Ranked(n, t)
  BY <1>1, <1>2, <1>3 DEF Placed, Ranked
<1> QED BY <1>2, <1>3, <1>4, OrderlyStep DEF SameProcessor

\* MDS_ThreadSetPriority moves a ready thread to the level of its priority.

\* MDS_ThreadSetPriority moves a ready thread to the level of its priority.
LEMMA ThreadSetPriorityMoves ==
  ASSUME NEW k, Orderly(k), NEW t \in Thread \ {Idle}, NEW p \in Prio,
         OnReadyLevel(k, t) => k.st[t] = "READY", NEW n, n = ThreadSetPriority(k, t, p)
  PROVE  /\ Sound(n) /\ Others(k, n, t) /\ SameProcessor(k, n)
         /\ n.prio[t] = p /\ n.st = k.st /\ n.err = k.err /\ n.tq = k.tq /\ n.left = k.left
         /\ \A l \in Lists \ Prio : On(n, l, t) <=> On(k, l, t)
         /\ \A l \in Lists \ Prio : n.list[l] = k.list[l]
         /\ k.st[t] = "READY" => On(n, p, t)
         /\ k.st[t] # "READY" => ~OnReadyLevel(n, t)
<1>0. Sound(k) /\ Distinct(k.tq) /\ Placed(k, t) /\ Ranked(k, t) /\ k.prio \in [Thread -> Level]
  BY DEF Orderly, Settled, Sound, KernelState
<1>1. Sound(n)
  BY <1>0, ThreadSetPrioritySound
<1>2. CASE k.st[t] = "READY"
  <2>1. PICK r : r = RemoveThread(k, t)
    OBVIOUS
  <2>2. /\ Sound(r) /\ Others(k, r, t) /\ SameProcessor(k, r) /\ Unlinked(k, r, t)
        /\ \A l \in Lists : ~On(r, l, t)
        /\ r.st = k.st /\ r.err = k.err /\ r.prio = k.prio /\ r.tq = k.tq /\ r.left = k.left
    BY <1>0, <2>1, RemoveThreadMoves
  <2>3. PICK m : m = [r EXCEPT !.prio[t] = p]
    OBVIOUS
  <2>4. /\ m.prio = [r.prio EXCEPT ![t] = p] /\ m.list = r.list /\ m.st = r.st
        /\ m.err = r.err /\ m.tq = r.tq /\ m.left = r.left /\ SameProcessor(r, m)
    BY <2>2, <2>3 DEF Sound, KernelState, SameProcessor
  <2>5. Sound(m)
    BY <2>2, <2>3, PrioritySound DEF Lists
  <2>6. n = InsertThread(m, t)
    BY <1>2, <2>1, <2>3 DEF ThreadSetPriority
  <2>7. /\ Others(m, n, t) /\ SameProcessor(m, n) /\ Unlinked(m, n, t)
        /\ \A l \in Lists : On(n, l, t) <=> l = m.prio[t] /\ l \in Prio
        /\ n.st = m.st /\ n.err = m.err /\ n.prio = m.prio /\ n.tq = m.tq /\ n.left = m.left
    BY <2>5, <2>6, InsertThreadMoves
  <2>8. Others(r, m, t)
    BY <1>0, <2>2, <2>4 DEF Others, Armed, On
  <2>9. Others(k, n, t)
    BY <2>2, <2>7, <2>8, OthersCompose
  <2>10. m.prio[t] = p
    BY <1>0, <2>2, <2>4
  <2>11. \A l \in Lists \ Prio : ~On(k, l, t)
    BY <1>0, <1>2 DEF Placed, Lists
  <2>12. \A l \in Lists \ Prio : n.list[l] = k.list[l]
    BY <2>2, <2>4, <2>7, <2>11 DEF Unlinked, Unlink, On
  <2> QED BY <1>1, <1>2, <2>2, <2>4, <2>7, <2>9, <2>10, <2>11, <2>12 DEF SameProcessor, Lists
<1>3. CASE k.st[t] # "READY"
  <2>1. n = [k EXCEPT !.prio[t] = p]
    BY <1>3 DEF ThreadSetPriority
  <2>2. /\ n.prio = [k.prio EXCEPT ![t] = p] /\ n.list = k.list /\ n.st = k.st
        /\ n.err = k.err /\ n.tq = k.tq /\ n.left = k.left /\ SameProcessor(k, n)
    BY <1>0, <2>1 DEF Sound, KernelState, SameProcessor
  <2>3. Others(k, n, t)
    BY <1>0, <2>2 DEF Others, Armed, On
  <2>4. ~OnReadyLevel(n, t)
    BY <1>3, <2>2 DEF OnReadyLevel, On
  <2> QED BY <1>0, <1>1, <1>3, <2>2, <2>3, <2>4 DEF On
<1> QED BY <1>2, <1>3

\* MDS_ThreadSetPriority, of a thread that is listed in state READY or not at
\* all; of another one it breaks the ready table.
LEMMA ThreadSetPriorityOrderly ==
  ASSUME NEW k, Orderly(k), NEW t \in Thread \ {Idle}, NEW p \in Prio,
         OnReadyLevel(k, t) => k.st[t] = "READY", NEW n, n = ThreadSetPriority(k, t, p)
  PROVE  Orderly(n)
<1>0. Distinct(k.tq) /\ Placed(k, t)
  BY DEF Orderly, Settled
<1>1. /\ Sound(n) /\ Others(k, n, t) /\ SameProcessor(k, n)
      /\ n.prio[t] = p /\ n.st = k.st /\ n.err = k.err /\ n.tq = k.tq
      /\ \A l \in Lists \ Prio : On(n, l, t) <=> On(k, l, t)
      /\ k.st[t] = "READY" => On(n, p, t)
      /\ k.st[t] # "READY" => ~OnReadyLevel(n, t)
  BY ThreadSetPriorityMoves
<1>2. WaitQ \cup {Defunct} \subseteq Lists \ Prio
  BY KernelAssumption DEF Lists
<1>3. Placed(n, t)
  BY <1>0, <1>1, <1>2 DEF Placed, Armed, SameProcessor
<1>4. Ranked(n, t)
  BY <1>1 DEF Ranked
<1>5. t = k.curr => n.st[t] \notin {"INACTIVED", "FREE"}
  BY <1>1, KernelAssumption DEF Orderly, CurrentKept
<1>6. n.st[t] = "SUSPENDED" => ~OnReadyLevel(n, t)
  BY <1>1
<1> QED BY <1>0, <1>1, <1>3, <1>4, <1>5, <1>6, OrderlyStep DEF SameProcessor

\* Arming the timer of a thread that is asleep.
LEMMA TimerStartOrderly ==
  ASSUME NEW k, Orderly(k), NEW t \in Thread, k.st[t] = "SUSPENDED", ~OnReadyLevel(k, t),
         ~Armed(k, t), NEW d \in Nat, NEW n, n = TimerStart(k, t, d)
  PROVE  Orderly(n)
<1>0. Sound(k) /\ Distinct(k.tq) /\ Placed(k, t) /\ Ranked(k, t)
  BY DEF Orderly, Settled
<1>1. /\ Sound(n) /\ Others(k, n, t) /\ SameProcessor(k, n) /\ Distinct(n.tq)
      /\ n.list = k.list /\ n.st = k.st /\ n.err = k.err /\ n.prio = k.prio
  BY <1>0, TimerStartMoves
<1>2. ~OnReadyLevel(n, t)
  BY <1>1 DEF OnReadyLevel, On
<1>3. Placed(n, t) /\ Ranked(n, t)
  BY <1>0, <1>1, <1>2 DEF Placed, Ranked, On
<1> QED BY <1>1, <1>2, <1>3, OrderlyStep DEF SameProcessor

\* The critical section of MDS_ThreadDelay: the caller is asleep after it.
LEMMA ThreadDelayOrderly ==
  ASSUME NEW k, Orderly(k), NEW t \in Thread \ {Idle},
         k.st[t] \in {"READY", "RUNNING", "SUSPENDED"},
         k.st[t] = "SUSPENDED" => ~OnReadyLevel(k, t) /\ ~Armed(k, t),
         NEW d \in Nat, NEW n, n = ThreadDelay(k, t, d)
  PROVE  /\ Orderly(n) /\ Others(k, n, t) /\ SameProcessor(k, n)
         /\ n.st[t] = "SUSPENDED" /\ ~OnReadyLevel(n, t) /\ ~On(n, Defunct, t)
         /\ n.err = k.err /\ n.prio = k.prio
<1>1. PICK a : a = ThreadSuspend(k, t)
  OBVIOUS
<1>2. /\ Orderly(a) /\ Others(k, a, t) /\ SameProcessor(k, a) /\ a.st[t] = "SUSPENDED"
      /\ ~OnReadyLevel(a, t) /\ ~Armed(a, t) /\ a.err = k.err /\ a.prio = k.prio
  <2>1. CASE ThreadSuspendErr(k, t) = "EOK"
    <3>1. Sound(k) /\ Distinct(k.tq)
      BY DEF Orderly, Settled
    <3>2. /\ Others(k, a, t) /\ SameProcessor(k, a) /\ a.st[t] = "SUSPENDED"
          /\ ~Armed(a, t) /\ a.err = k.err /\ a.prio = k.prio
          /\ \A l \in Lists : ~On(a, l, t)
      BY <1>1, <2>1, <3>1, ThreadSuspendMoves
    <3> QED BY <1>1, <2>1, <3>2, ThreadSuspendOrderly DEF OnReadyLevel, Lists
  <2>2. CASE ThreadSuspendErr(k, t) # "EOK"
    <3>1. a = k /\ k.st[t] = "SUSPENDED"
      BY <1>1, <2>2 DEF ThreadSuspend, ThreadSuspendErr
    <3> QED BY <3>1 DEF Others, SameProcessor
  <2> QED BY <2>1, <2>2
<1>3. n = TimerStart(a, t, d)
  BY <1>1 DEF ThreadDelay
<1>4. Orderly(n)
  BY <1>2, <1>3, TimerStartOrderly
<1>5. Sound(a) /\ Distinct(a.tq) /\ Placed(n, t)
  BY <1>2, <1>4 DEF Orderly, Settled
<1>6. /\ Others(a, n, t) /\ SameProcessor(a, n) /\ n.list = a.list
      /\ n.st = a.st /\ n.err = a.err /\ n.prio = a.prio
  BY <1>2, <1>3, <1>5, TimerStartMoves
<1>7. Others(k, n, t) /\ SameProcessor(k, n)
  BY <1>2, <1>6, OthersCompose DEF SameProcessor
<1>8. ~OnReadyLevel(n, t)
  BY <1>2, <1>6 DEF OnReadyLevel, On
<1> QED BY <1>2, <1>4, <1>5, <1>6, <1>7, <1>8 DEF Placed

-----------------------------------------------------------------------------
(* The start of the scheduler and the tick interrupt                       *)

\* The first thread runs although it stays in the ready table.
LEMMA KernelStartupOrderly ==
  ASSUME NEW k, Orderly(k), k.curr = NoThread, NEW n, n = KernelStartup(k)
  PROVE  /\ Orderly(n) /\ n.curr \in Thread /\ n.st[n.curr] = "RUNNING"
         /\ \A u \in Thread \ {n.curr} : n.st[u] = k.st[u]
         /\ k.st[n.curr] \in {"READY", "SUSPENDED"}
         /\ n.list = k.list /\ n.err = k.err /\ n.prio = k.prio /\ n.tq = k.tq
         /\ n.left = k.left /\ n.nest = k.nest /\ n.fault = k.fault
         /\ \A p \in Prio : n.list[p] # <<>> => n.prio[n.curr] <= p
<1>0. /\ Sound(k) /\ Distinct(k.tq) /\ \A u \in Thread : Placed(k, u) /\ Ranked(k, u)
  BY DEF Orderly, Settled
<1>1. PICK to : to = PeekThread(k)
  OBVIOUS
<1>2. /\ to \in Thread
      /\ to = Idle \/ OnReadyLevel(k, to)
      /\ \A p \in Prio : k.list[p] # <<>> => k.prio[to] <= p
  <2>1. k.mask = {} => \A p \in Prio : k.list[p] = <<>>
    BY <1>0 DEF Sound, TableExact
  <2> QED BY <1>0, <1>1, <2>1, PeekThreadProperties
<1>3. PICK b : b = SetState(k, to, "RUNNING")
  OBVIOUS
<1>4. "RUNNING" \in State
  BY DEF State
<1>5. /\ Sound(b) /\ Others(k, b, to) /\ SameProcessor(k, b) /\ b.st[to] = "RUNNING"
      /\ b.list = k.list /\ b.err = k.err /\ b.prio = k.prio /\ b.tq = k.tq /\ b.left = k.left
  BY <1>0, <1>2, <1>3, <1>4, SetStateMoves
<1>6. n = [b EXCEPT !.curr = to]
  BY <1>1, <1>3 DEF KernelStartup
<1>7. /\ n.curr = to /\ n.nest = b.nest /\ n.fault = b.fault
      /\ n.st = b.st /\ n.list = b.list /\ n.err = b.err /\ n.prio = b.prio
      /\ n.tq = b.tq /\ n.left = b.left
  BY <1>5, <1>6 DEF Sound, KernelState
<1>8. Sound(n)
  BY <1>0, KernelStartupSound
<1>9. \A u \in Thread : k.st[u] # "RUNNING"
  BY <1>0, KernelAssumption DEF Placed
<1>10. ~Armed(k, to) /\ k.st[to] \in {"READY", "SUSPENDED"}
       /\ \A l \in Lists \ Prio : ~On(k, l, to)
  BY <1>0, <1>2, <1>9, Runnable DEF Orderly, Placed, Ranked
<1>11. /\ \A t : Armed(n, t) <=> Armed(k, t)
       /\ \A t, l : On(n, l, t) <=> On(k, l, t)
       /\ \A t : OnReadyLevel(n, t) <=> OnReadyLevel(k, t)
  BY <1>5, <1>7 DEF Armed, On, OnReadyLevel
<1>12. \A u \in Thread \ {to} : n.st[u] = k.st[u]
  BY <1>5, <1>7 DEF Others
<1>13. ASSUME NEW u \in Thread, u # to PROVE Placed(n, u) /\ Ranked(n, u)
  BY <1>0, <1>5, <1>7, <1>9, <1>11, <1>12, <1>13 DEF Placed, Ranked
<1>14. WaitQ \cup {Defunct} \subseteq Lists \ Prio
  BY KernelAssumption DEF Lists
<1>15. Placed(n, to) /\ Ranked(n, to)
  <2>1. n.st[to] = "RUNNING" /\ n.curr = to /\ n.prio = k.prio /\ ~Armed(n, to)
    BY <1>5, <1>7, <1>10, <1>11
  <2>2. \A l \in WaitQ \cup {Defunct} : ~On(n, l, to)
    BY <1>10, <1>11, <1>14
  <2>3. Placed(n, to)
    BY <2>1, <2>2 DEF Placed
  <2>4. Ranked(n, to)
    BY <1>0, <1>2, <1>11, <2>1 DEF Ranked
  <2> QED BY <2>3, <2>4
<1>16. Orderly(n)
  BY <1>0, <1>5, <1>7, <1>8, <1>13, <1>15 DEF Orderly, Settled, CurrentKept
<1> QED BY <1>2, <1>5, <1>7, <1>10, <1>12, <1>16 DEF SameProcessor

\* The tick before the timers are looked at.  It counts, and at the end of
\* the time slice of the current thread it checks the scheduler.
LEMMA ClockTickOrderly ==
  ASSUME NEW k, Orderly(k), k.curr \in Thread, NEW n, n = ClockTick(k)
  PROVE  /\ Orderly(n) /\ n.nest = k.nest /\ n.fault = k.fault
         /\ SameThreads(k, n) \/ (k.nest = 0 /\ Rescheduled(k, n))
         /\ \A t \in Thread : n.left[t] = IF k.left[t] > 0 THEN k.left[t] - 1 ELSE 0
<1>1. PICK a : a = TimersElapse(k)
  OBVIOUS
<1>2. /\ Sound(a) /\ SameThreads(k, a) /\ a.nest = k.nest /\ a.fault = k.fault
      /\ a.left = [t \in Thread |-> IF k.left[t] > 0 THEN k.left[t] - 1 ELSE 0]
  <2>1. Sound(a)
    BY <1>1, TimersElapseSound DEF Orderly
  <2> QED BY <1>1, <2>1 DEF TimersElapse, Orderly, Sound, KernelState, SameThreads
<1>3. PICK c \in Thread : c = a.curr
  BY <1>2 DEF SameThreads
<1>4. ASSUME NEW r \in 1..Slice, NEW b, b = [a EXCEPT !.remain[c] = r]
      PROVE  /\ Sound(b) /\ SameThreads(k, b) /\ b.nest = k.nest /\ b.fault = k.fault
             /\ b.left = a.left
  <2>1. Sound(b)
    BY <1>2, <1>4, RemainSound
  <2> QED BY <1>2, <1>4, <2>1 DEF Sound, KernelState, SameThreads
<1>5. CASE a.remain[c] > 1
  <2>1. a.remain[c] \in 1..Slice
    BY <1>2 DEF Sound, KernelState
  <2>2. PICK r : r = a.remain[c] - 1
    OBVIOUS
  <2>3. n = [a EXCEPT !.remain[c] = r]
    BY <1>1, <1>2, <1>3, <1>5, <2>2 DEF ClockTick, RemainTick, Sound, KernelState
  <2>4. r \in 1..Slice
    BY <1>5, <2>1, <2>2, KernelAssumption
  <2>5. /\ Sound(n) /\ SameThreads(k, n) /\ n.nest = k.nest /\ n.fault = k.fault
        /\ n.left = a.left
    BY <1>4, <2>3, <2>4
  <2> QED BY <1>2, <2>5, SameThreadsOrderly DEF Orderly
<1>6. CASE ~(a.remain[c] > 1)
  <2>1. PICK b : b = [a EXCEPT !.remain[c] = Slice]
    OBVIOUS
  <2>2. /\ Sound(b) /\ SameThreads(k, b) /\ b.nest = k.nest /\ b.fault = k.fault
        /\ b.left = a.left
    <3>1. Slice \in 1..Slice
      BY KernelAssumption
    <3> QED BY <1>4, <2>1, <3>1
  <2>3. PICK y : y = SetYield(b, c)
    OBVIOUS
  <2>4. /\ Sound(y) /\ SameThreads(k, y) /\ y.nest = k.nest /\ y.fault = k.fault
        /\ y.left = a.left
    <3>1. Sound(y)
      BY <2>2, <2>3, SetYieldSound
    <3> QED BY <2>2, <2>3, <3>1 DEF SetYield, Sound, KernelState, SameThreads
  <2>5. n = SchedulerCheck(y)
    BY <1>1, <1>3, <1>6, <2>1, <2>3 DEF ClockTick, RemainTick
  <2>6. Settled(y) /\ CurrentKept(y)
    BY <2>4, SameThreadsOrderly DEF Orderly
  <2>7. CASE k.nest # 0
    BY <1>2, <2>4, <2>5, <2>6, <2>7 DEF SchedulerCheck, Orderly
  <2>8. CASE k.nest = 0
    <3>1. Orderly(n) /\ Rescheduled(y, n) /\ n.left = y.left
      BY <2>4, <2>5, <2>6, <2>8, SchedulerCheckOrderly DEF SameThreads
    <3>2. Rescheduled(k, n)
      BY <2>4, <3>1 DEF Rescheduled, SameThreads, OnReadyLevel, On
    <3> QED BY <1>2, <2>4, <2>8, <3>1, <3>2 DEF Rescheduled
  <2> QED BY <2>7, <2>8
<1> QED BY <1>5, <1>6

\* What a timer does between k and b: the first thread timer that is due is
\* taken off, and its thread put in the ready table.
TimedOut(k, b, u) ==
  /\ Armed(k, u) /\ k.st[u] = "SUSPENDED" /\ k.left[u] = 0
  /\ Others(k, b, u) /\ SameProcessor(k, b) /\ Unlinked(k, b, u)
  /\ b.st = k.st /\ b.err[u] = "ETIMEOUT" /\ b.prio = k.prio /\ b.left = k.left
  /\ ~Armed(b, u)
  /\ \A l \in Lists : On(b, l, u) <=> l = k.prio[u]

\* One timer of MDS_WorkQueueCheck: the thread it belongs to is woken with a
\* timeout, then the scheduler is checked unless it is locked.
LEMMA TimerExpireOrderly ==
  ASSUME NEW k, Orderly(k), TimerDue(k), Armed(k, k.curr) => k.nest = 0,
         k.curr \in Thread, NEW n, n = TimerExpire(k)
  PROVE  /\ Orderly(n) /\ n.left = k.left
         /\ \E b : \E u \in Thread :
              /\ TimedOut(k, b, u)
              /\ IF k.nest = 0 THEN Rescheduled(b, n) ELSE n = b
<1>0. /\ Sound(k) /\ Distinct(k.tq) /\ \A u \in Thread : Placed(k, u) /\ Ranked(k, u)
      /\ k.tq \in Seq(Thread) /\ k.tq # <<>> /\ k.left[Head(k.tq)] = 0
  BY DEF Orderly, Settled, Sound, KernelState, TimerDue
<1>1. PICK u : u = Head(k.tq)
  OBVIOUS
<1>2. /\ u \in Thread /\ Tail(k.tq) \in Seq(Thread) /\ Distinct(Tail(k.tq))
      /\ \A v : Contains(Tail(k.tq), v) <=> Contains(k.tq, v) /\ v # u
  BY <1>0, <1>1, HeadTailProperties, TailProperties
<1>3. Armed(k, u)
  BY <1>0, <1>1, HeadTailProperties, LenProperties DEF Armed, Contains
<1>4. u # Idle /\ k.st[u] = "SUSPENDED" /\ ~OnReadyLevel(k, u) /\ k.prio[u] \in Prio
  BY <1>0, <1>2, <1>3 DEF Placed, Ranked
<1>5. PICK a : a = [k EXCEPT !.tq = Tail(@)]
  OBVIOUS
<1>6. /\ a \in KernelState /\ SameTable(k, a) /\ a.tq = Tail(k.tq) /\ a.left = k.left
      /\ a.st = k.st /\ a.err = k.err /\ SameProcessor(k, a)
  BY <1>0, <1>2, <1>5 DEF Sound, KernelState, SameTable, SameProcessor
<1>7. Sound(a) /\ Others(k, a, u) /\ ~Armed(a, u)
  BY <1>0, <1>2, <1>6, SoundFrame DEF Others, Armed, On, SameTable
<1>8. PICK b : b = ThreadTimeout(a, u)
  OBVIOUS
<1>9. /\ Sound(b) /\ Others(a, b, u) /\ SameProcessor(a, b) /\ Unlinked(a, b, u)
      /\ \A l \in Lists : On(b, l, u) <=> l = a.prio[u] /\ l \in Prio
      /\ b.st = a.st /\ b.err[u] = "ETIMEOUT" /\ b.prio = a.prio
      /\ b.tq = a.tq /\ b.left = a.left
  BY <1>2, <1>4, <1>6, <1>7, <1>8, ThreadTimeoutMoves
<1>10. TimedOut(k, b, u)
  <2>1. Others(k, b, u) /\ SameProcessor(k, b) /\ Unlinked(k, b, u)
    BY <1>6, <1>7, <1>9, OthersCompose DEF SameProcessor, Unlinked, SameTable
  <2>2. \A l \in Lists : On(b, l, u) <=> l = k.prio[u]
    BY <1>4, <1>6, <1>9 DEF SameTable
  <2> QED BY <1>0, <1>1, <1>3, <1>4, <1>6, <1>7, <1>9, <2>1, <2>2
          DEF TimedOut, SameTable, Armed
<1>11. Settled(b)
  <2>1. WaitQ \cap Prio = {} /\ Defunct \notin Prio
    BY KernelAssumption
  <2>2. Placed(b, u)
    BY <1>4, <1>10, <2>1 DEF Placed, TimedOut, Lists
  <2>3. Ranked(b, u)
    BY <1>4, <1>10 DEF Ranked, TimedOut
  <2>4. Distinct(b.tq)
    BY <1>2, <1>6, <1>9
  <2> QED BY <1>2, <1>10, <2>2, <2>3, <2>4, SettledStep DEF TimedOut, SameProcessor, Orderly
<1>12. n = SchedulerCheck(b)
  BY <1>1, <1>5, <1>8 DEF TimerExpire
<1>13. CASE k.nest = 0
  <2>1. b.nest = 0 /\ b.curr \in Thread
    BY <1>10, <1>13 DEF TimedOut, SameProcessor
  <2>2. Orderly(n) /\ Rescheduled(b, n) /\ n.left = b.left
    BY <1>9, <1>11, <1>12, <2>1, SchedulerCheckOrderly
  <2> QED BY <1>2, <1>6, <1>9, <1>10, <1>13, <2>2
<1>14. CASE k.nest # 0
  <2>1. n = b
    BY <1>10, <1>12, <1>14 DEF SchedulerCheck, TimedOut, SameProcessor
  <2>2. k.curr # u
    BY <1>3, <1>14
  <2>3. CurrentKept(b)
    <3>1. k.curr \in Thread \ {u} /\ b.curr = k.curr /\ b.st = k.st
      BY <1>10, <2>2 DEF TimedOut, SameProcessor
    <3>2. \A l \in Lists : On(b, l, k.curr) <=> On(k, l, k.curr)
      BY <1>10, <3>1 DEF TimedOut, Others
    <3> QED BY <3>1, <3>2 DEF Orderly, CurrentKept, OnReadyLevel, Lists
  <2> QED BY <1>2, <1>6, <1>9, <1>10, <1>11, <1>14, <2>1, <2>3 DEF Orderly
<1> QED BY <1>13, <1>14

-----------------------------------------------------------------------------
(* The wait queues                                                         *)

\* The list of wait queue q becomes s.
QueueBecomes(k, q, s) == [k EXCEPT !.list[q] = s]

\* A thread that is on no list is linked into a wait queue.
LEMMA LinkWaiterMoves ==
  ASSUME NEW k, Sound(k), NEW t \in Thread, \A l \in Lists : ~On(k, l, t),
         NEW q \in WaitQ, NEW s, Gains(s, k.list[q], t),
         NEW n, n = QueueBecomes(k, q, s)
  PROVE  /\ Sound(n) /\ Others(k, n, t) /\ SameProcessor(k, n)
         /\ \A l \in Lists : On(n, l, t) <=> l = q
         /\ n.list[q] = s /\ \A l \in Lists \ {q} : n.list[l] = k.list[l]
         /\ n.st = k.st /\ n.err = k.err /\ n.prio = k.prio
         /\ n.tq = k.tq /\ n.left = k.left
<1>0. q \in Lists /\ q \notin Prio /\ Prio \subseteq Lists
  BY KernelAssumption DEF Lists
<1>1. k \in KernelState /\ OneHome(k) /\ TableExact(k)
  BY DEF Sound
<1>2. /\ n \in KernelState /\ OneHome(n)
      /\ \A l \in Lists : \A u : On(n, l, u) <=> On(k, l, u) \/ (l = q /\ u = t)
      /\ \A l \in Lists \ {q} : n.list[l] = k.list[l]
      /\ n.list[q] = s
  <2> DEFINE c == [k EXCEPT !.list[q] = s]
  <2>1. /\ c \in KernelState /\ OneHome(c)
        /\ \A l \in Lists : \A u : On(c, l, u) <=> On(k, l, u) \/ (l = q /\ u = t)
        /\ \A l \in Lists \ {q} : c.list[l] = k.list[l]
        /\ c.list[q] = s
    BY <1>0, <1>1, LinkProperties
  <2>2. n = c
    BY DEF QueueBecomes
  <2> HIDE DEF c
  <2> QED BY <2>1, <2>2
<1>3. /\ n.mask = k.mask /\ n.st = k.st /\ n.err = k.err /\ n.prio = k.prio
      /\ n.tq = k.tq /\ n.left = k.left /\ SameProcessor(k, n)
  BY <1>1 DEF QueueBecomes, KernelState, SameProcessor
<1>4. TableExact(n)
  <2>1. \A p \in Prio : n.list[p] = k.list[p]
    BY <1>0, <1>2
  <2> QED BY <1>1, <1>3, <2>1 DEF TableExact, On
<1>5. Others(k, n, t)
  BY <1>2, <1>3 DEF Others, Armed
<1>6. \A l \in Lists : On(n, l, t) <=> l = q
  BY <1>2
<1> QED BY <1>2, <1>3, <1>4, <1>5, <1>6 DEF Sound

\* The place of a waiter of thread t: before those of lower priority, or last.
Behind(k, t, isPrio) == IF isPrio THEN {u \in Thread : k.prio[t] < k.prio[u]} ELSE {}

\* From k to n thread t went to sleep in wait queue q, for d ticks at most.
Queued(k, n, q, t, d, isPrio) ==
  /\ Others(k, n, t) /\ SameProcessor(k, n)
  /\ n.st[t] = "SUSPENDED" /\ \A l \in Lists : On(n, l, t) <=> l = q
  /\ Armed(n, t) <=> d < TimerMax
  /\ n.list[q] = InsertBefore(k.list[q], t, Behind(k, t, isPrio))
  /\ \A l \in WaitQ \ {q} : n.list[l] = k.list[l]
  /\ n.err = k.err /\ n.prio = k.prio

\* MDS_KernelWaitQueueSuspend of a caller that is not asleep.
LEMMA WaitQueueSuspendOrderly ==
  ASSUME NEW k, Orderly(k), NEW q \in WaitQ, NEW t \in Thread \ {Idle},
         ThreadSuspendErr(k, t) = "EOK", NEW d \in Nat, NEW isPrio,
         NEW n, n = WaitQueueSuspend(k, q, t, d, isPrio)
  PROVE  Orderly(n) /\ Queued(k, n, q, t, d, isPrio)
<1>0. /\ Sound(k) /\ Distinct(k.tq) /\ Placed(k, t) /\ Ranked(k, t)
      /\ WaitQ \subseteq Lists /\ Prio \subseteq Lists /\ q \notin Prio /\ Defunct # q
      /\ k \in KernelState /\ OneHome(k)
  BY KernelAssumption DEF Orderly, Settled, Lists, Sound
<1>1. \A w \in WaitQ : ~On(k, w, t)
  BY <1>0 DEF ThreadSuspendErr, Placed
<1>2. PICK a : a = ThreadSuspend(k, t)
  OBVIOUS
<1>3. /\ Orderly(a) /\ Sound(a) /\ Others(k, a, t) /\ SameProcessor(k, a)
      /\ Unlinked(k, a, t) /\ Distinct(a.tq) /\ ~Armed(a, t)
      /\ a.st[t] = "SUSPENDED" /\ a.err = k.err /\ a.prio = k.prio
      /\ \A l \in Lists : ~On(a, l, t)
  BY <1>0, <1>2, ThreadSuspendMoves, ThreadSuspendOrderly
<1>4. \A w \in WaitQ : a.list[w] = k.list[w]
  <2> TAKE w \in WaitQ
  <2>1. w \in Lists /\ ~On(a, w, t) /\ ~On(k, w, t)
    BY <1>0, <1>1, <1>3
  <2>2. a.list[w] = Unlink(k.list[w], t)
    BY <1>3, <2>1 DEF Unlinked
  <2> QED BY <2>1, <2>2 DEF Unlink, On
<1>s. PICK s : s = InsertBefore(a.list[q], t, Behind(k, t, isPrio))
  OBVIOUS
<1>5. Gains(s, a.list[q], t)
  <2>1. /\ a.list[q] \in Seq(Thread) /\ Distinct(a.list[q])
        /\ ~Contains(a.list[q], t)
    BY <1>0, <1>3 DEF Sound, KernelState, OneHome, On
  <2> QED BY <1>s, <2>1, InsertionsGain
<1>6. PICK b : b = QueueBecomes(a, q, s)
  OBVIOUS
<1>7. n = TimerStart(b, t, d)
  BY <1>2, <1>6, <1>s DEF WaitQueueSuspend, Behind, QueueBecomes
<1>8. s = InsertBefore(k.list[q], t, Behind(k, t, isPrio))
  BY <1>4, <1>s
<1>9. /\ Sound(b) /\ Others(a, b, t) /\ SameProcessor(a, b)
      /\ \A l \in Lists : On(b, l, t) <=> l = q
      /\ b.list[q] = s /\ \A l \in Lists \ {q} : b.list[l] = a.list[l]
      /\ b.st = a.st /\ b.err = a.err /\ b.prio = a.prio /\ b.tq = a.tq
  <2>1. t \in Thread /\ Sound(a) /\ \A l \in Lists : ~On(a, l, t)
    BY <1>3
  <2> QED BY <1>5, <1>6, <2>1, LinkWaiterMoves, SMTT(30)
<1>10. ~OnReadyLevel(b, t) /\ ~Armed(b, t) /\ b.st[t] = "SUSPENDED" /\ ~On(b, Defunct, t)
  BY <1>0, <1>3, <1>9 DEF OnReadyLevel, Armed, Lists
<1>11. Orderly(b)
  <2>1. Placed(b, t)
    BY <1>10 DEF Placed
  <2>2. Ranked(b, t)
    BY <1>0, <1>3, <1>9 DEF Ranked
  <2>3. b.curr = a.curr /\ Distinct(b.tq)
    BY <1>3, <1>9 DEF SameProcessor
  <2> QED BY <1>3, <1>9, <1>10, <2>1, <2>2, <2>3, OrderlyStep
<1>12. Orderly(n)
  BY <1>7, <1>10, <1>11, TimerStartOrderly
<1>13. /\ Others(b, n, t) /\ SameProcessor(b, n) /\ (Armed(n, t) <=> d < TimerMax)
       /\ n.list = b.list /\ n.st = b.st /\ n.err = b.err /\ n.prio = b.prio
  <2>1. Distinct(b.tq)
    BY <1>3, <1>9
  <2> QED BY <1>7, <1>9, <1>10, <2>1, TimerStartMoves
<1>14. Others(k, n, t) /\ SameProcessor(k, n)
  <2>1. Others(k, b, t)
    BY <1>3, <1>9, OthersCompose
  <2>2. Others(k, n, t)
    BY <1>13, <2>1, OthersCompose
  <2> QED BY <1>3, <1>9, <1>13, <2>2 DEF SameProcessor
<1>15. \A l \in Lists : On(n, l, t) <=> l = q
  BY <1>9, <1>13 DEF On
<1>16. /\ n.list[q] = InsertBefore(k.list[q], t, Behind(k, t, isPrio))
       /\ \A l \in WaitQ \ {q} : n.list[l] = k.list[l]
  BY <1>0, <1>4, <1>8, <1>9, <1>13
<1> QED BY <1>3, <1>9, <1>12, <1>13, <1>14, <1>15, <1>16 DEF Queued

\* From k to n the first waiter h of wait queue q was woken.
Woken(k, n, q, h) ==
  /\ h = Head(k.list[q]) /\ On(k, q, h) /\ k.st[h] = "SUSPENDED" /\ h # Idle
  /\ Others(k, n, h) /\ n.st[h] = "READY" /\ ~Armed(n, h)
  /\ \A l \in WaitQ : ~On(n, l, h) /\ n.list[l] = Unlink(k.list[l], h)

\* MDS_KernelWaitQueueResume: nothing happens without a waiter.
LEMMA WaitQueueResumeOrderly ==
  ASSUME NEW k, Orderly(k), NEW q \in WaitQ, NEW n, n = WaitQueueResume(k, q)
  PROVE  /\ Orderly(n) /\ SameProcessor(k, n) /\ n.err = k.err /\ n.prio = k.prio
         /\ k.list[q] = <<>> => n = k /\ WaitQueuePeek(k, q) = NoThread
         /\ k.list[q] # <<>> => /\ WaitQueuePeek(k, q) # NoThread
                                /\ \E h \in Thread : Woken(k, n, q, h)
<1>0. /\ Sound(k) /\ Distinct(k.tq) /\ \A u \in Thread : Placed(k, u) /\ Ranked(k, u)
      /\ q \in Lists /\ WaitQ \subseteq Lists /\ k \in KernelState /\ OneHome(k)
  BY DEF Orderly, Settled, Lists, Sound
<1>1. CASE k.list[q] = <<>>
  BY <1>1 DEF WaitQueueResume, WaitQueuePeek, SameProcessor
<1>2. CASE k.list[q] # <<>>
  <2>1. PICK h : h = Head(k.list[q])
    OBVIOUS
  <2>2. h \in Thread /\ On(k, q, h)
    BY <1>0, <1>2, <2>1, EmptyList
  <2>3. h # Idle /\ k.st[h] = "SUSPENDED"
    BY <1>0, <2>2 DEF Placed, Ranked
  <2>4. n = MakeReady(k, h) /\ WaitQueuePeek(k, q) # NoThread
    BY <1>2, <2>1, <2>2, <2>3, KernelAssumption
       DEF WaitQueueResume, WaitQueuePeek, ThreadResume
  <2>5. Orderly(n)
    BY <2>2, <2>3, <2>4, MakeReadyOrderly
  <2>6. /\ Others(k, n, h) /\ SameProcessor(k, n) /\ Unlinked(k, n, h)
        /\ n.st[h] = "READY" /\ ~Armed(n, h) /\ n.err = k.err /\ n.prio = k.prio
        /\ \A l \in Lists : On(n, l, h) <=> l = k.prio[h] /\ l \in Prio
    BY <1>0, <2>2, <2>4, MakeReadyMoves
  <2>7. \A l \in WaitQ : ~On(n, l, h) /\ n.list[l] = Unlink(k.list[l], h)
    <3> TAKE l \in WaitQ
    <3>1. l \in Lists /\ l \notin Prio
      BY <1>0, KernelAssumption
    <3>2. ~On(n, l, h)
      BY <2>6, <3>1
    <3> QED BY <2>6, <3>1, <3>2 DEF Unlinked
  <2>8. Woken(k, n, q, h)
    BY <2>1, <2>2, <2>3, <2>6, <2>7 DEF Woken
  <2> QED BY <1>2, <2>2, <2>4, <2>5, <2>6, <2>8
<1> QED BY <1>1, <1>2
-----------------------------------------------------------------------------
(* The initial state                                                       *)

\* MDS_KernelInit: nothing is listed, armed or locked, nobody runs.
LEMMA KernelInitOrderly ==
  ASSUME NEW p \in [Thread -> Level], p[Idle] = PrioMax, \A t \in Thread \ {Idle} : p[t] \in Prio,
         NEW k, k = KernelInit(p)
  PROVE  /\ Orderly(k)
         /\ k.fault = "none" /\ k.nest = 0 /\ k.curr = NoThread /\ k.prio = p
         /\ \A l \in Lists : k.list[l] = <<>> /\ \A t : ~On(k, l, t)
         /\ \A t \in Thread : ~Armed(k, t) /\ k.left[t] = 0 /\ k.err[t] = "EOK"
         /\ \A t \in Thread : k.st[t] = IF t = Idle THEN "READY" ELSE "INACTIVED"
<1>1. k \in KernelState
  BY KernelAssumption DEF KernelInit, KernelState, State, Err, Fault
<1>2. /\ \A l \in Lists : k.list[l] = <<>>
      /\ k.mask = {} /\ k.fault = "none" /\ k.tq = <<>> /\ k.nest = 0
      /\ k.curr = NoThread /\ k.prio = p
      /\ \A t \in Thread : k.left[t] = 0 /\ k.err[t] = "EOK"
      /\ \A t \in Thread : k.st[t] = IF t = Idle THEN "READY" ELSE "INACTIVED"
  BY DEF KernelInit
<1>3. /\ \A l \in Lists : \A t : ~On(k, l, t)
      /\ \A t : ~Armed(k, t)
  BY <1>2 DEF On, Armed, Contains
<1>4. Sound(k)
  <2>1. OneHome(k)
    BY <1>2, <1>3 DEF OneHome, Distinct
  <2>2. TableExact(k)
    BY <1>2, <1>3 DEF TableExact, Lists
  <2> QED BY <1>1, <2>1, <2>2 DEF Sound
<1>5. \A t \in Thread : ~OnReadyLevel(k, t)
  BY <1>3 DEF OnReadyLevel, Lists
<1>6. \A t \in Thread : Placed(k, t) /\ Ranked(k, t)
  BY <1>2, <1>3, <1>5, KernelAssumption DEF Placed, Ranked, Lists
<1>7. Orderly(k)
  BY <1>2, <1>4, <1>6 DEF Orderly, Settled, CurrentKept, Distinct
<1> QED BY <1>2, <1>3, <1>7
=============================================================================
