------------------------- MODULE WorkQueueTheorems -------------------------
(***************************************************************************)
(* The work queue for any number of nodes, any width of the tick counter   *)
(* and any delays and periods that fit into half its range.                *)
(***************************************************************************)
EXTENDS WorkQueue, DListTheorems, FiniteSetTheorems

-----------------------------------------------------------------------------
(* Ticks that wrap                                                         *)

\* The remainder is the only number in its range that differs by a multiple.
LEMMA RemainderUnique ==
  ASSUME NEW W \in Nat \ {0}, NEW a \in Int, NEW c \in Int, NEW r \in 0..(W - 1), a = W * c + r
  PROVE  a % W = r
<1>1. PICK e \in Int : e = a \div W
  OBVIOUS
<1>2. PICK d \in Int : d = a % W
  OBVIOUS
<1>3. a = W * e + d /\ d \in 0..(W - 1)
  BY <1>1, <1>2
<1>4. PICK x \in Int : x = e - c
  BY <1>1
<1>5. W * x = W * e - W * c
  BY <1>4
<1>6. W * e \in Int /\ W * c \in Int /\ W * x \in Int
  OBVIOUS
<1>7. W * x = r - d
  BY <1>3, <1>5, <1>6
<1>8. -W < W * x /\ W * x < W
  BY <1>3, <1>7
<1>9. x >= 1 => W * x >= W
  OBVIOUS
<1>10. x <= -1 => W * x <= -W
  OBVIOUS
<1>11. x = 0
  BY <1>8, <1>9, <1>10, <1>6
<1>12. W * x = 0
  BY <1>11
<1> QED BY <1>2, <1>3, <1>7, <1>12

\* Equal remainders.
LEMMA SameRemainder ==
  ASSUME NEW W \in Nat \ {0}, NEW a \in Int, NEW b \in Int, NEW c \in Int, a = b + W * c
  PROVE  a % W = b % W
<1>1. PICK e \in Int : e = b \div W
  OBVIOUS
<1>2. PICK d \in 0..(W - 1) : d = b % W
  OBVIOUS
<1>3. b = W * e + d
  BY <1>1, <1>2
<1>4. PICK x \in Int : x = e + c
  OBVIOUS
<1>5. W * x = W * e + W * c
  BY <1>4
<1>6. W * e \in Int /\ W * c \in Int /\ W * x \in Int
  OBVIOUS
<1>7. a = W * x + d
  BY <1>3, <1>5, <1>6
<1> QED BY <1>2, <1>7, RemainderUnique

\* A remainder in a sum or a difference stands for its number.
LEMMA RemainderOfSum ==
  ASSUME NEW W \in Nat \ {0}, NEW a \in Int, NEW b \in Int
  PROVE  /\ ((a % W) + b) % W = (a + b) % W
         /\ (b - (a % W)) % W = (b - a) % W
         /\ a % W \in 0..(W - 1)
<1>1. PICK e \in Int : e = a \div W
  OBVIOUS
<1>2. PICK d \in 0..(W - 1) : d = a % W
  OBVIOUS
<1>3. a = W * e + d /\ W * e \in Int
  BY <1>1, <1>2
<1>4. PICK f \in Int : f = -e
  OBVIOUS
<1>5. W * f = -(W * e)
  BY <1>4
<1>6. PICK p, q \in Int : p = d + b /\ q = a + b
  OBVIOUS
<1>7. PICK x, y \in Int : x = b - d /\ y = b - a
  OBVIOUS
<1>8. p % W = q % W
  <2>1. p = q + W * f
    BY <1>3, <1>5, <1>6
  <2> QED BY <2>1, SameRemainder
<1>9. x % W = y % W
  <2>1. x = y + W * e
    BY <1>3, <1>7
  <2> QED BY <2>1, SameRemainder
<1> QED BY <1>2, <1>6, <1>7, <1>8, <1>9

\* The numbers of the model.
LEMMA Numbers ==
  /\ Wrap \in Nat \ {0} /\ Forever = Wrap - 1 /\ TimerMax \in Nat /\ 2 * TimerMax < Wrap
  /\ MaxWait \in Nat /\ Late \in Nat \ {0} /\ MaxLate \in Nat
  /\ Cardinality(Periods \ {0}) \in Nat /\ IsFiniteSet(Periods \ {0})
  /\ MaxLate = MaxWait + Late + Cardinality(Periods \ {0}) /\ MaxWait + MaxLate < TimerMax
  /\ \A d \in Durations \cup Periods : d \in 0..MaxWait
<1>1. /\ MaxWait \in Durations \cup Periods
      /\ \A d \in Durations \cup Periods : d <= MaxWait
  BY WorkQueueAssumption DEF MaxWait
<1>2. MaxWait \in Nat /\ \A d \in Durations \cup Periods : d \in 0..MaxWait
  BY <1>1, WorkQueueAssumption
<1>3. IsFiniteSet(0..MaxWait)
  <2>1. 0 \in Int /\ MaxWait \in Int
    BY <1>2
  <2> QED BY <2>1, FS_Interval
<1>4. Periods \ {0} \in SUBSET (0..MaxWait)
  BY <1>2
<1>5. IsFiniteSet(Periods \ {0}) /\ Cardinality(Periods \ {0}) \in Nat
  BY <1>3, <1>4, FS_Subset, FS_CardinalityType
<1>6. MaxLate = MaxWait + Late + Cardinality(Periods \ {0}) /\ Late \in Nat \ {0}
  BY WorkQueueAssumption DEF MaxLate
<1>7. MaxLate \in Nat /\ MaxLate >= 1
  BY <1>2, <1>5, <1>6
<1>8. Wrap \in Int /\ Forever = Wrap - 1 /\ TimerMax = Forever \div 2
  BY WorkQueueAssumption DEF Wrap, Forever, TimerMax
<1>9. MaxWait + MaxLate < TimerMax
  BY WorkQueueAssumption
<1>10. TimerMax \in Int /\ 2 * TimerMax <= Forever
  BY <1>8
<1> QED BY <1>2, <1>5, <1>6, <1>7, <1>8, <1>9, <1>10

-----------------------------------------------------------------------------
(* The inductive invariant                                                 *)

\* What a queue is made of.
Queue == [list : Seq(Node), run : Node \cup {NoNode}, drain : Node \cup {NoNode},
          out : [Node -> 0..Forever], period : [Node -> Periods],
          queued : [Node -> BOOLEAN], left : [Node -> Int]]

\* The due tick of a listed node is what it has left, from the tick t on, and
\* what the nodes have left is within half the range of the counter.
OnTime(q, t, n) ==
  /\ q.out[n] = (t + q.left[n]) % Wrap /\ q.out[n] # Forever
  /\ q.left[n] \in (-MaxLate)..MaxWait

\* A list as the thread may find it at the tick t.
Sound(q, t) ==
  /\ q \in Queue /\ Distinct(q.list) /\ Ascends(q.list, q.left)
  /\ ~Contains(q.list, q.run)
  /\ \A n \in Node : Contains(q.list, n) => OnTime(q, t, n)

\* What the thread has computed is what it does next, and it does not stop
\* for good in front of a list that holds a node.
ThreadInv ==
  /\ pc # "call" => s.run = NoNode
  /\ state \in {"READY", "INACTIVED"} => timer = 0
  /\ timer > 0 => pc = "check" /\ timer <= MaxWait
  /\ pc = "delay" => nap \in 1..MaxWait
  /\ state # "READY" /\ timer = 0 /\ ~stopping => s.list = <<>>

\* The periods whose tick to avoid is past, and was not before a node that
\* has left this much was due.
Passed(left, t) == {p \in Periods \ {0} : (t + p - Forever) % Wrap \in 1..(-left)}

\* How far a listed node is past its time at most: while the thread is about
\* to sleep it is READY, while it sleeps its timer tells for how long still,
\* and then every period may have cost it one tick.
Behind(where, rest, left, t) ==
  IF where = "delay" THEN Late
  ELSE IF rest > 0 THEN Late + MaxWait - rest
  ELSE Late + MaxWait + Cardinality(Passed(left, t))

\* No listed node is further past its time than the thread is behind.
LateInv == \A n \in Node : Listed(n) => s.left[n] >= -Behind(pc, timer, s.left[n], tick)

\* The inductive invariant.
QueueInv == TypeOK /\ Sound(s, tick) /\ ThreadInv /\ LateInv

-----------------------------------------------------------------------------
(* Due ticks that are close tell apart what is due first                   *)

\* A difference within half the range is what its remainder says.
LEMMA SmallRemainder ==
  ASSUME NEW k \in Int, k \in (1 - TimerMax)..(TimerMax - 1)
  PROVE  k % Wrap = IF k < 0 THEN k + Wrap ELSE k
<1>1. PICK W \in Nat \ {0} : W = Wrap
  BY Numbers
<1>2. PICK M \in Nat : M = TimerMax /\ 2 * M < W
  BY <1>1, Numbers
<1>3. k \in (1 - M)..(M - 1)
  BY <1>2
<1>4. CASE k < 0
  <2>1. k = W * (-1) + (k + W) /\ k + W \in 0..(W - 1)
    BY <1>2, <1>3, <1>4
  <2> QED BY <1>1, <1>4, <2>1, RemainderUnique
<1>5. CASE ~(k < 0)
  <2>1. k = W * 0 + k /\ k \in 0..(W - 1)
    BY <1>2, <1>3, <1>5
  <2> QED BY <1>1, <1>5, <2>1, RemainderUnique
<1> QED BY <1>4, <1>5

\* Of two nodes the one that has more left is due at the later tick.
LEMMA LaterTick ==
  ASSUME NEW t \in Int, NEW a \in Int, NEW b \in Int, a - b \in (1 - TimerMax)..(TimerMax - 1),
         NEW x \in Int, x = (t + a) % Wrap, NEW y \in Int, y = (t + b) % Wrap
  PROVE  (0 < (x - y) % Wrap /\ (x - y) % Wrap < TimerMax) <=> b < a
<1>1. PICK W \in Nat \ {0} : W = Wrap
  BY Numbers
<1>2. PICK M \in Nat : M = TimerMax /\ 2 * M < W
  BY <1>1, Numbers
<1>3. PICK u, v \in Int : u = t + a /\ v = t + b
  OBVIOUS
<1>4. x = u % W /\ y = v % W
  BY <1>1, <1>3
<1>5. (x - y) % W = (x - v) % W
  <2>1. (x - (v % W)) % W = (x - v) % W
    BY RemainderOfSum, Zenon
  <2> QED BY <1>4, <2>1
<1>6. (x - v) % W = (u - v) % W
  <2>1. PICK w \in Int : w = -v
    OBVIOUS
  <2>2. (x + w) % W = (u + w) % W
    <3>1. ((u % W) + w) % W = (u + w) % W
      BY RemainderOfSum, Zenon
    <3> QED BY <1>4, <3>1
  <2>3. x + w = x - v /\ u + w = u - v
    BY <2>1
  <2> QED BY <2>2, <2>3
<1>7. u - v = a - b
  BY <1>3
<1>8. PICK k \in Int : k = a - b
  OBVIOUS
<1>9. k % Wrap = IF k < 0 THEN k + Wrap ELSE k
  BY <1>8, SmallRemainder
<1>10. (x - y) % Wrap = IF k < 0 THEN k + W ELSE k
  BY <1>1, <1>5, <1>6, <1>7, <1>8, <1>9
<1>11. k \in (1 - M)..(M - 1)
  BY <1>2, <1>8
<1> QED BY <1>2, <1>8, <1>10, <1>11

\* The due tick x of a node that has a left, seen from the tick t.
LEMMA DueTick ==
  ASSUME NEW t \in Int, NEW a \in Int, a \in (1 - TimerMax)..(TimerMax - 1),
         NEW x \in Int, x = (t + a) % Wrap
  PROVE  /\ (t - x) % Wrap < TimerMax <=> a <= 0
         /\ a >= 0 => (x - t) % Wrap = a
<1>1. PICK W \in Nat \ {0} : W = Wrap
  BY Numbers
<1>2. PICK M \in Nat : M = TimerMax /\ 2 * M < W
  BY <1>1, Numbers
<1>3. PICK u, v, k \in Int : u = t + a /\ v = -t /\ k = -a
  OBVIOUS
<1>4. x = u % W
  BY <1>1, <1>3
<1>5. (t - x) % W = (t - u) % W /\ (x + v) % W = (u + v) % W
  <2>1. (t - (u % W)) % W = (t - u) % W /\ ((u % W) + v) % W = (u + v) % W
    BY RemainderOfSum, Zenon
  <2> QED BY <1>4, <2>1
<1>6. t - u = k /\ u + v = a /\ x + v = x - t
  BY <1>3
<1>7. a \in (1 - M)..(M - 1) /\ k \in (1 - M)..(M - 1) /\ k \in (1 - TimerMax)..(TimerMax - 1)
  BY <1>2, <1>3
<1>8. /\ k % Wrap = IF k < 0 THEN k + Wrap ELSE k
      /\ a % Wrap = IF a < 0 THEN a + Wrap ELSE a
  BY <1>7, SmallRemainder
<1>9. (t - x) % Wrap = IF k < 0 THEN k + W ELSE k
  BY <1>1, <1>5, <1>6, <1>8
<1>10. (x - t) % Wrap = IF a < 0 THEN a + W ELSE a
  BY <1>1, <1>5, <1>6, <1>8
<1> QED BY <1>2, <1>3, <1>7, <1>9, <1>10

-----------------------------------------------------------------------------
(* The operations on the list                                              *)

\* The types of the fields of a queue.
LEMMA QueueFields ==
  ASSUME NEW q \in Queue
  PROVE  /\ q.list \in Seq(Node) /\ q.run \in Node \cup {NoNode} /\ q.drain \in Node \cup {NoNode}
         /\ q.out \in [Node -> 0..Forever] /\ q.period \in [Node -> Periods]
         /\ q.queued \in [Node -> BOOLEAN] /\ q.left \in [Node -> Int]
BY DEF Queue

\* Every field but the list, out and left is as it was.
Alike(i, q) ==
  i.run = q.run /\ i.drain = q.drain /\ i.period = q.period /\ i.queued = q.queued

\* The same queue with other times, and with another list.
WithTimes(q, o, f) == [q EXCEPT !.out = o, !.left = f]
WithList(q, l) == [q EXCEPT !.list = l]

\* Other times leave the rest of a queue alone.
LEMMA TimesReplaced ==
  ASSUME NEW q \in Queue, NEW o \in [Node -> 0..Forever], NEW f \in [Node -> Int]
  PROVE  /\ WithTimes(q, o, f) \in Queue /\ Alike(WithTimes(q, o, f), q)
         /\ WithTimes(q, o, f).list = q.list
         /\ WithTimes(q, o, f).out = o /\ WithTimes(q, o, f).left = f
BY DEF Queue, Alike, WithTimes

\* Another list leaves the rest of a queue alone.
LEMMA ListReplaced ==
  ASSUME NEW q \in Queue, NEW l \in Seq(Node)
  PROVE  /\ WithList(q, l) \in Queue /\ Alike(WithList(q, l), q)
         /\ WithList(q, l).list = l
         /\ WithList(q, l).out = q.out /\ WithList(q, l).left = q.left
BY DEF Queue, Alike, WithList

\* A node that was on no list is put where it is due, and no other moves.
LEMMA InsertSound ==
  ASSUME NEW q, Sound(q, tick), tick \in 0..Forever,
         NEW n \in Node, ~Contains(q.list, n), q.run # n,
         NEW d \in 0..MaxWait, (tick + d) % Wrap # Forever, NEW i, i = Insert(q, n, d)
  PROVE  /\ Sound(i, tick) /\ Alike(i, q)
         /\ i.left = [q.left EXCEPT ![n] = d]
         /\ \A u : Contains(i.list, u) <=> Contains(q.list, u) \/ u = n
<1>0. PICK x \in 0..Forever : x = (tick + d) % Wrap
  <2>1. tick + d \in Int
    BY Numbers
  <2> QED BY <2>1, Numbers
<1>1. q \in Queue
  BY DEF Sound
<1>2. PICK r : r = [q EXCEPT !.out[n] = x, !.left[n] = d]
  OBVIOUS
<1>3. PICK Later : Later = {l \in Node : ComesLater(r, l, n)}
  OBVIOUS
<1>4. i = [r EXCEPT !.list = InsertBefore(@, n, Later)]
  BY <1>0, <1>2, <1>3 DEF Insert
<1>5. /\ r \in Queue /\ Alike(r, q) /\ r.list = q.list
      /\ r.out = [q.out EXCEPT ![n] = x] /\ r.left = [q.left EXCEPT ![n] = d]
  <2>1. PICK o, f : o = [q.out EXCEPT ![n] = x] /\ f = [q.left EXCEPT ![n] = d]
    OBVIOUS
  <2>2. o \in [Node -> 0..Forever] /\ f \in [Node -> Int]
    BY <1>0, <1>1, <2>1, QueueFields, Numbers
  <2>3. r = WithTimes(q, o, f)
    BY <1>2, <2>1 DEF WithTimes
  <2>4. r \in Queue /\ Alike(r, q) /\ r.list = q.list /\ r.out = o /\ r.left = f
    BY <1>1, <2>2, <2>3, TimesReplaced
  <2> QED BY <2>1, <2>4
<1>6. PICK l : l = InsertBefore(q.list, n, Later)
  OBVIOUS
<1>7. /\ l \in Seq(Node) /\ Distinct(l)
      /\ \A u : Contains(l, u) <=> Contains(q.list, u) \/ u = n
  BY <1>1, <1>6, QueueFields, InsertBeforeProperties DEF Sound
<1>8. /\ i \in Queue /\ Alike(i, q) /\ i.list = l /\ i.out = r.out /\ i.left = r.left
  BY <1>4, <1>5, <1>6, <1>7 DEF Queue, Alike
<1>9. \A u \in Node : Contains(l, u) => OnTime(i, tick, u)
  <2> SUFFICES ASSUME NEW u \in Node, Contains(l, u) PROVE OnTime(i, tick, u)
    OBVIOUS
  <2>1. CASE u = n
    <3>1. i.out[n] = x /\ i.left[n] = d
      BY <1>1, <1>5, <1>8, QueueFields
    <3>2. d \in (-MaxLate)..MaxWait
      BY Numbers
    <3> QED BY <1>0, <2>1, <3>1, <3>2 DEF OnTime
  <2>2. CASE u # n
    <3>1. i.out[u] = q.out[u] /\ i.left[u] = q.left[u] /\ Contains(q.list, u)
      BY <1>1, <1>5, <1>7, <1>8, <2>2, QueueFields
    <3> QED BY <3>1 DEF Sound, OnTime
  <2> QED BY <2>1, <2>2
<1>10. Ascends(q.list, i.left)
  <2>1. PICK a, b, m : a = q.left /\ b = i.left /\ m = q.list
    OBVIOUS
  <2>2. \A u \in Node : Contains(m, u) => b[u] = a[u]
    BY <1>1, <1>5, <1>8, <2>1, QueueFields
  <2>3. m \in Seq(Node) /\ Ascends(m, a)
    BY <1>1, <2>1, QueueFields DEF Sound
  <2>4. Ascends(m, b)
    BY <2>2, <2>3, AscendsFrame
  <2> QED BY <2>1, <2>4
<1>11. RanksAbove(Later, q.list, n, i.left)
  <2> SUFFICES ASSUME NEW j \in DOMAIN q.list, NEW k, k = q.list[j]
               PROVE  k \in Later <=> i.left[n] < i.left[k]
    BY DEF RanksAbove
  <2>1. k \in Node /\ Contains(q.list, k)
    BY <1>1, QueueFields, LenProperties, ElementOfSeq DEF Contains
  <2>2. OnTime(i, tick, k) /\ OnTime(i, tick, n)
    BY <1>7, <1>9, <2>1
  <2>3. PICK a, b, y, z : a = i.left[k] /\ b = i.left[n] /\ y = i.out[k] /\ z = i.out[n]
    OBVIOUS
  <2>4. /\ a \in Int /\ b \in Int /\ y \in Int /\ z \in Int /\ tick \in Int
        /\ y = (tick + a) % Wrap /\ z = (tick + b) % Wrap
        /\ a - b \in (1 - TimerMax)..(TimerMax - 1)
    <3>1. /\ y = (tick + a) % Wrap /\ z = (tick + b) % Wrap
          /\ a \in (-MaxLate)..MaxWait /\ b \in (-MaxLate)..MaxWait
      BY <2>2, <2>3 DEF OnTime
    <3>2. y \in Int /\ z \in Int
      <4>1. i.out \in [Node -> 0..Forever]
        BY <1>8, QueueFields
      <4>2. y \in 0..Forever /\ z \in 0..Forever
        BY <2>1, <2>3, <4>1
      <4> QED BY <4>2
    <3> QED BY <3>1, <3>2, Numbers
  <2>5. (0 < (y - z) % Wrap /\ (y - z) % Wrap < TimerMax) <=> b < a
    BY <2>4, LaterTick
  <2>6. k \in Later <=> (0 < (y - z) % Wrap /\ (y - z) % Wrap < TimerMax)
    BY <1>3, <1>8, <2>1, <2>3 DEF ComesLater
  <2> QED BY <2>3, <2>5, <2>6
<1>12. Ascends(l, i.left)
  <2>1. PICK b, m : b = i.left /\ m = q.list
    OBVIOUS
  <2>2. m \in Seq(Node) /\ b \in [Node -> Int] /\ Ascends(m, b) /\ RanksAbove(Later, m, n, b)
    BY <1>1, <1>8, <1>10, <1>11, <2>1, QueueFields
  <2>3. Ascends(InsertBefore(m, n, Later), b)
    BY <2>2, InsertSorted
  <2> QED BY <1>6, <2>1, <2>3
<1>13. ~Contains(l, i.run)
  BY <1>7, <1>8 DEF Sound, Alike
<1> QED BY <1>5, <1>7, <1>8, <1>9, <1>12, <1>13 DEF Sound

\* A node is taken out, and no other moves.
LEMMA TakeOutSound ==
  ASSUME NEW q, Sound(q, tick), NEW n \in Node, NEW i, i = TakeOut(q, n)
  PROVE  /\ Sound(i, tick) /\ Alike(i, q)
         /\ i.left = [q.left EXCEPT ![n] = 0]
         /\ \A u : Contains(i.list, u) <=> Contains(q.list, u) /\ u # n
<1>1. q \in Queue
  BY DEF Sound
<1>2. PICK l : l = Unlink(q.list, n)
  OBVIOUS
<1>3. /\ l \in Seq(Node) /\ Distinct(l)
      /\ \A u : Contains(l, u) <=> Contains(q.list, u) /\ u # n
  BY <1>1, <1>2, QueueFields, UnlinkProperties DEF Sound
<1>4. /\ i \in Queue /\ Alike(i, q) /\ i.list = l
      /\ i.out = [q.out EXCEPT ![n] = 0] /\ i.left = [q.left EXCEPT ![n] = 0]
  <2>1. PICK o, f, r : /\ o = [q.out EXCEPT ![n] = 0] /\ f = [q.left EXCEPT ![n] = 0]
                       /\ r = WithTimes(q, o, f)
    OBVIOUS
  <2>2. o \in [Node -> 0..Forever] /\ f \in [Node -> Int]
    <3>1. 0 \in 0..Forever
      BY Numbers
    <3> QED BY <1>1, <2>1, <3>1, QueueFields
  <2>3. r \in Queue /\ Alike(r, q) /\ r.out = o /\ r.left = f
    BY <1>1, <2>1, <2>2, TimesReplaced
  <2>4. i = [q EXCEPT !.list = l, !.out = o, !.left = f]
    BY <1>2, <2>1 DEF TakeOut
  <2>5. i = WithList(r, l)
    BY <1>1, <2>1, <2>4 DEF Queue, WithTimes, WithList
  <2>6. i \in Queue /\ Alike(i, r) /\ i.list = l /\ i.out = o /\ i.left = f
    BY <1>3, <2>3, <2>5, ListReplaced
  <2> QED BY <2>1, <2>3, <2>6 DEF Alike
<1>5. Ascends(l, q.left)
  BY <1>1, <1>2, QueueFields, UnlinkAscends DEF Sound
<1>6. \A u \in Node : Contains(l, u) => i.left[u] = q.left[u] /\ i.out[u] = q.out[u]
  BY <1>1, <1>3, <1>4, QueueFields
<1>7. Ascends(l, i.left)
  BY <1>3, <1>5, <1>6, AscendsFrame
<1>8. \A u \in Node : Contains(l, u) => OnTime(i, tick, u)
  BY <1>3, <1>6 DEF Sound, OnTime
<1>9. ~Contains(l, i.run)
  BY <1>3, <1>4 DEF Sound, Alike
<1> QED BY <1>3, <1>4, <1>7, <1>8, <1>9 DEF Sound

\* The first node of the list is the one that has least left, and it is the
\* one that IsDue and Sleep look at.
LEMMA HeadFirst ==
  ASSUME NEW q, Sound(q, tick), tick \in 0..Forever, q.list # <<>>, NEW h, h = Head(q.list)
  PROVE  /\ h \in Node /\ Contains(q.list, h) /\ q.out[h] # Forever
         /\ \A n \in Node : Contains(q.list, n) => q.left[h] <= q.left[n]
         /\ q.left[h] \in (-MaxLate)..MaxWait
         /\ IsDue(q) <=> q.left[h] <= 0
         /\ ~IsDue(q) => (q.out[h] - tick) % Wrap = q.left[h]
<1>1. q \in Queue
  BY DEF Sound
<1>2. PICK l : l = q.list
  OBVIOUS
<1>3. l \in Seq(Node) /\ l # <<>> /\ h = l[1] /\ DOMAIN l = 1..Len(l) /\ Len(l) \in Nat \ {0}
  BY <1>1, <1>2, QueueFields, LenProperties, HeadTailProperties
<1>4. h \in Node /\ Contains(l, h)
  BY <1>3, ElementOfSeq DEF Contains
<1>5. OnTime(q, tick, h)
  BY <1>2, <1>4 DEF Sound
<1>6. ASSUME NEW n \in Node, Contains(l, n) PROVE q.left[h] <= q.left[n]
  <2>1. PICK j \in 1..Len(l) : l[j] = n
    BY <1>6 DEF Contains
  <2>2. q.left[h] \in Int
    BY <1>1, <1>4, QueueFields
  <2>3. CASE j = 1
    BY <1>3, <2>1, <2>2, <2>3
  <2>4. CASE j # 1
    <3>1. 1 \in DOMAIN l /\ j \in DOMAIN l /\ 1 < j
      BY <1>3, <2>1, <2>4
    <3> QED BY <1>2, <1>3, <2>1, <3>1 DEF Sound, Ascends
  <2> QED BY <2>3, <2>4
<1>7. PICK a, x : a = q.left[h] /\ x = q.out[h]
  OBVIOUS
<1>8. /\ a \in Int /\ x \in Int /\ tick \in Int /\ x = (tick + a) % Wrap
      /\ a \in (1 - TimerMax)..(TimerMax - 1)
  <2>1. x = (tick + a) % Wrap /\ a \in (-MaxLate)..MaxWait
    BY <1>5, <1>7 DEF OnTime
  <2>2. x \in Int
    BY <1>1, <1>4, <1>7, QueueFields, Numbers
  <2> QED BY <2>1, <2>2, Numbers
<1>9. (tick - x) % Wrap < TimerMax <=> a <= 0
  BY <1>8, DueTick
<1>10. a >= 0 => (x - tick) % Wrap = a
  BY <1>8, DueTick
<1>11. IsDue(q) <=> a <= 0
  BY <1>7, <1>9 DEF IsDue
<1> QED BY <1>2, <1>4, <1>5, <1>6, <1>7, <1>8, <1>10, <1>11 DEF OnTime

\* The same queue with other fields than those of its list.
WithRest(q, r, d, p, c) == [q EXCEPT !.run = r, !.drain = d, !.period = p, !.queued = c]

\* No list contains the node that is none.
LEMMA NoNodeIsOnNoList ==
  ASSUME NEW l \in Seq(Node)
  PROVE  ~Contains(l, NoNode)
BY WorkQueueAssumption, ElementOfSeq, LenProperties DEF Contains

\* A list is empty when it contains nothing.
LEMMA EmptyHasNone ==
  ASSUME NEW l \in Seq(Node)
  PROVE  l = <<>> <=> \A n : ~Contains(l, n)
<1>1. l # <<>> => Contains(l, l[1])
  BY LenProperties DEF Contains
<1> QED BY <1>1 DEF Contains

\* What is not of the list can change without unsettling it.
LEMMA RestReplaced ==
  ASSUME NEW q, Sound(q, tick), NEW r, NEW d, NEW p, NEW c, ~Contains(q.list, r),
         r \in Node \cup {NoNode}, d \in Node \cup {NoNode},
         p \in [Node -> Periods], c \in [Node -> BOOLEAN],
         NEW i, i = WithRest(q, r, d, p, c)
  PROVE  /\ Sound(i, tick) /\ i.list = q.list /\ i.left = q.left
         /\ i.run = r /\ i.drain = d /\ i.period = p /\ i.queued = c
<1>1. q \in Queue
  BY DEF Sound
<1>3. /\ i \in Queue /\ i.list = q.list /\ i.out = q.out /\ i.left = q.left
      /\ i.run = r /\ i.drain = d /\ i.period = p /\ i.queued = c
  BY <1>1 DEF Queue, WithRest
<1>4. Sound(i, tick)
  BY <1>3 DEF Sound, OnTime
<1> QED BY <1>3, <1>4

\* The node that is called or drained.
Called(q, n) == [TakeOut(q, n) EXCEPT !.run = n]
Drained(q, n) == [TakeOut(q, n) EXCEPT !.drain = n]

\* Taking a node out to call it or to drain it keeps the queue sound.
LEMMA TakenSound ==
  ASSUME NEW q, Sound(q, tick), NEW n \in Node, NEW i,
         i = Called(q, n) \/ i = Drained(q, n)
  PROVE  /\ Sound(i, tick) /\ i.period = q.period /\ i.queued = q.queued
         /\ i = Called(q, n) => i.run = n
         /\ i = Drained(q, n) => i.drain = n /\ i.run = q.run
         /\ i.left = [q.left EXCEPT ![n] = 0]
         /\ \A u : Contains(i.list, u) <=> Contains(q.list, u) /\ u # n
<1>1. PICK k : k = TakeOut(q, n)
  OBVIOUS
<1>2. /\ Sound(k, tick) /\ Alike(k, q) /\ k.left = [q.left EXCEPT ![n] = 0]
      /\ \A u : Contains(k.list, u) <=> Contains(q.list, u) /\ u # n
  BY <1>1, TakeOutSound
<1>3. /\ k \in Queue /\ ~Contains(k.list, k.run) /\ k.run \in Node \cup {NoNode}
      /\ k.drain \in Node \cup {NoNode} /\ k.period \in [Node -> Periods]
      /\ k.queued \in [Node -> BOOLEAN]
  BY <1>2, QueueFields DEF Sound
<1>4. CASE i = Called(q, n)
  <2>1. i = WithRest(k, n, k.drain, k.period, k.queued)
    BY <1>1, <1>3, <1>4 DEF Queue, WithRest, Called
  <2>2. /\ Sound(i, tick) /\ i.list = k.list /\ i.left = k.left
        /\ i.run = n /\ i.drain = k.drain /\ i.period = k.period /\ i.queued = k.queued
    <3>1. n \in Node \cup {NoNode} /\ ~Contains(k.list, n)
      BY <1>2
    <3> QED BY <1>2, <1>3, <2>1, <3>1, RestReplaced
  <2>4. i = Drained(q, n) => i.drain = n /\ i.run = k.run
    BY <1>1, <1>3 DEF Queue, Drained
  <2> QED BY <1>1, <1>2, <2>2, <2>4 DEF Alike
<1>5. CASE i = Drained(q, n)
  <2>1. i = WithRest(k, k.run, n, k.period, k.queued)
    BY <1>1, <1>3, <1>5 DEF Queue, WithRest, Drained
  <2>3. /\ Sound(i, tick) /\ i.list = k.list /\ i.left = k.left
        /\ i.run = k.run /\ i.drain = n /\ i.period = k.period /\ i.queued = k.queued
    BY <1>2, <1>3, <2>1, RestReplaced
  <2>4. i = Called(q, n) => i.run = n
    BY <1>1, <1>3 DEF Queue, Called
  <2> QED BY <1>1, <1>2, <2>3, <2>4 DEF Alike
<1> QED BY <1>1, <1>4, <1>5

\* The node that is submitted.
Submitted(q, n, d, p) == [Insert(q, n, d) EXCEPT !.period[n] = p, !.queued[n] = TRUE]

\* MDS_WorkNodeSubmit of a node that is not linked keeps the queue sound.
LEMMA SubmitSound ==
  ASSUME NEW q, Sound(q, tick), tick \in 0..Forever,
         NEW n \in Node, ~Contains(q.list, n), q.run # n, NEW d \in 0..MaxWait,
         (tick + d) % Wrap # Forever, NEW p \in Periods, NEW i, i = Submitted(q, n, d, p)
  PROVE  /\ Sound(i, tick) /\ i.run = q.run
         /\ i.left = [q.left EXCEPT ![n] = d]
         /\ \A u : Contains(i.list, u) <=> Contains(q.list, u) \/ u = n
<1>1. PICK k : k = Insert(q, n, d)
  OBVIOUS
<1>2. /\ Sound(k, tick) /\ Alike(k, q) /\ k.left = [q.left EXCEPT ![n] = d]
      /\ \A u : Contains(k.list, u) <=> Contains(q.list, u) \/ u = n
  BY <1>1, InsertSound
<1>3. /\ k \in Queue /\ ~Contains(k.list, k.run) /\ k.run \in Node \cup {NoNode}
      /\ k.drain \in Node \cup {NoNode}
  BY <1>2, QueueFields DEF Sound
<1>4. PICK a, b : a = [k.period EXCEPT ![n] = p] /\ b = [k.queued EXCEPT ![n] = TRUE]
  OBVIOUS
<1>5. a \in [Node -> Periods] /\ b \in [Node -> BOOLEAN]
  BY <1>3, <1>4, QueueFields
<1>6. i = WithRest(k, k.run, k.drain, a, b)
  BY <1>1, <1>3, <1>4 DEF Queue, WithRest, Submitted
<1>7. Sound(i, tick) /\ i.list = k.list /\ i.left = k.left /\ i.run = k.run
  BY <1>2, <1>3, <1>5, <1>6, RestReplaced
<1> QED BY <1>2, <1>7 DEF Alike

\* The node that is cancelled.
Cancelled(q, n) ==
  [TakeOut(q, n) EXCEPT !.queued[n] = FALSE,
                        !.run = IF @ = n THEN NoNode ELSE @,
                        !.drain = IF @ = n THEN NoNode ELSE @]

\* MDS_WorkNodeCancle keeps the queue sound and forgets the node.
LEMMA CancelSound ==
  ASSUME NEW q, Sound(q, tick), NEW n \in Node, NEW i, i = Cancelled(q, n)
  PROVE  /\ Sound(i, tick) /\ ~i.queued[n]
         /\ i.run = IF q.run = n THEN NoNode ELSE q.run
         /\ i.left = [q.left EXCEPT ![n] = 0]
         /\ \A u : Contains(i.list, u) <=> Contains(q.list, u) /\ u # n
<1>1. PICK k : k = TakeOut(q, n)
  OBVIOUS
<1>2. /\ Sound(k, tick) /\ Alike(k, q) /\ k.left = [q.left EXCEPT ![n] = 0]
      /\ \A u : Contains(k.list, u) <=> Contains(q.list, u) /\ u # n
  BY <1>1, TakeOutSound
<1>3. /\ k \in Queue /\ ~Contains(k.list, k.run) /\ k.list \in Seq(Node)
      /\ k.period \in [Node -> Periods]
  BY <1>2, QueueFields DEF Sound
<1>4. PICK r, d, c : /\ r = IF k.run = n THEN NoNode ELSE k.run
                     /\ d = IF k.drain = n THEN NoNode ELSE k.drain
                     /\ c = [k.queued EXCEPT ![n] = FALSE]
  OBVIOUS
<1>5. /\ r \in Node \cup {NoNode} /\ d \in Node \cup {NoNode} /\ c \in [Node -> BOOLEAN]
      /\ ~c[n]
  BY <1>3, <1>4, QueueFields
<1>6. ~Contains(k.list, NoNode)
  BY <1>3, NoNodeIsOnNoList
<1>7. ~Contains(k.list, r)
  BY <1>3, <1>4, <1>6
<1>8. i = WithRest(k, r, d, k.period, c)
  BY <1>1, <1>3, <1>4 DEF Queue, WithRest, Cancelled
<1>9. /\ Sound(i, tick) /\ i.list = k.list /\ i.left = k.left /\ i.run = r /\ i.queued = c
  BY <1>2, <1>3, <1>5, <1>7, <1>8, RestReplaced
<1> QED BY <1>2, <1>4, <1>5, <1>9 DEF Alike

\* The end of a callback: its node is put back if it has a period.
MayReturn(q) ==
  q.run # NoNode /\ q.period[q.run] > 0 => (tick + q.period[q.run]) % Wrap # Forever

\* Putting a periodic node back after its callback keeps the queue sound.
LEMMA AfterCallSound ==
  ASSUME NEW q, Sound(q, tick), tick \in 0..Forever, MayReturn(q),
         NEW i, i = AfterCall(q)
  PROVE  /\ Sound(i, tick) /\ i.run = NoNode /\ i.queued = q.queued /\ i.drain = q.drain
         /\ \A u : Contains(i.list, u)
                      <=> Contains(q.list, u) \/ (u = q.run /\ u \in Node /\ q.period[u] > 0)
         /\ \A u \in Node : Contains(q.list, u) => i.left[u] = q.left[u]
         /\ Contains(i.list, q.run) => i.left[q.run] >= 0
<1>1. /\ q \in Queue /\ q.list \in Seq(Node) /\ ~Contains(q.list, q.run)
      /\ NoNode \in Node \cup {NoNode} /\ q.drain \in Node \cup {NoNode}
      /\ q.period \in [Node -> Periods] /\ q.queued \in [Node -> BOOLEAN]
  BY QueueFields DEF Sound
<1>2. ~Contains(q.list, NoNode)
  BY <1>1, NoNodeIsOnNoList
<1>3. PICK r : r = [q EXCEPT !.run = NoNode]
  OBVIOUS
<1>4. r = WithRest(q, NoNode, q.drain, q.period, q.queued)
  BY <1>1, <1>3 DEF Queue, WithRest
<1>5. /\ Sound(r, tick) /\ r.list = q.list /\ r.left = q.left /\ r.run = NoNode
      /\ r.queued = q.queued /\ r.drain = q.drain
  BY <1>1, <1>2, <1>4, RestReplaced
<1>6. NoNode \notin Node
  BY WorkQueueAssumption
<1>7. CASE q.run # NoNode /\ q.period[q.run] > 0
  <2>1. PICK n, d : n = q.run /\ d = q.period[n]
    OBVIOUS
  <2>2. n \in Node /\ n # NoNode /\ d > 0
    BY <1>1, <1>7, <2>1, QueueFields
  <2>3. d \in 0..MaxWait
    BY <1>1, <2>1, <2>2, QueueFields, Numbers
  <2>4. i = Insert(r, n, d)
    BY <1>3, <1>7, <2>1 DEF AfterCall
  <2>5. ~Contains(r.list, n) /\ r.run # n /\ (tick + d) % Wrap # Forever
    BY <1>1, <1>5, <1>7, <2>1, <2>2 DEF MayReturn
  <2>6. /\ Sound(i, tick) /\ Alike(i, r) /\ i.left = [r.left EXCEPT ![n] = d]
        /\ \A u : Contains(i.list, u) <=> Contains(r.list, u) \/ u = n
    BY <1>5, <2>2, <2>3, <2>4, <2>5, InsertSound
  <2>7. i.left[n] = d /\ \A u \in Node : u # n => i.left[u] = q.left[u]
    BY <1>1, <1>5, <2>2, <2>6, QueueFields
  <2>8. d \in Int
    BY <2>3
  <2> QED BY <1>1, <1>5, <2>1, <2>2, <2>6, <2>7, <2>8 DEF Alike
<1>8. CASE ~(q.run # NoNode /\ q.period[q.run] > 0)
  <2>1. i = r
    BY <1>3, <1>8 DEF AfterCall
  <2> QED BY <1>1, <1>5, <1>6, <1>8, <2>1
<1> QED BY <1>7, <1>8

-----------------------------------------------------------------------------
(* How late a node may be                                                  *)

\* No more periods have passed than there are.
LEMMA PassedFinite ==
  ASSUME NEW left, NEW t
  PROVE  /\ IsFiniteSet(Passed(left, t))
         /\ Cardinality(Passed(left, t)) \in 0..Cardinality(Periods \ {0})
<1>1. Passed(left, t) \in SUBSET (Periods \ {0})
  BY DEF Passed
<1>2. IsFiniteSet(Periods \ {0})
  BY Numbers
<1>3. /\ IsFiniteSet(Passed(left, t))
      /\ Cardinality(Passed(left, t)) <= Cardinality(Periods \ {0})
  BY <1>1, <1>2, FS_Subset
<1>4. Cardinality(Passed(left, t)) \in Nat /\ Cardinality(Periods \ {0}) \in Nat
  BY <1>2, <1>3, FS_CardinalityType
<1> QED BY <1>3, <1>4

\* The bound is least while the thread is about to sleep, and most when no
\* timer runs.
LEMMA BehindBounds ==
  ASSUME NEW where, NEW rest \in 0..MaxWait, NEW left, NEW t
  PROVE  /\ Behind(where, rest, left, t) \in Late..MaxLate
         /\ \A w : w # "delay" => Behind(where, rest, left, t) <= Behind(w, 0, left, t)
<1>1. PICK c, m, k, l, p \in Int :
         /\ c = Cardinality(Passed(left, t)) /\ m = MaxWait /\ k = Late /\ l = MaxLate
         /\ p = Cardinality(Periods \ {0})
  BY PassedFinite, Numbers
<1>2. c \in 0..p /\ m >= 0 /\ k >= 1 /\ l = m + k + p /\ rest \in 0..m
  <2>1. Cardinality(Passed(left, t)) \in 0..Cardinality(Periods \ {0})
    BY PassedFinite
  <2> QED BY <1>1, <2>1, Numbers
<1>3. Behind(where, rest, left, t)
        = IF where = "delay" THEN k ELSE IF rest > 0 THEN k + m - rest ELSE k + m + c
  BY <1>1 DEF Behind
<1>4. \A w : w # "delay" => Behind(w, 0, left, t) = k + m + c
  BY <1>1, <1>2 DEF Behind
<1>5. Behind(where, rest, left, t) \in k..l
  BY <1>2, <1>3
<1>6. Behind(where, rest, left, t) <= k + m + c
  BY <1>2, <1>3
<1> QED BY <1>1, <1>4, <1>5, <1>6

\* A tick more, and the remainder is one more, until the counter wraps.
LEMMA NextRemainder ==
  ASSUME NEW k \in Int, NEW r \in Int, r = k % Wrap, r < Forever
  PROVE  (k + 1) % Wrap = r + 1
<1>1. PICK W \in Nat \ {0} : W = Wrap /\ r < W - 1 /\ r = k % W
  BY Numbers
<1>2. PICK e \in Int : e = k \div W
  OBVIOUS
<1>3. PICK x \in Int : x = W * e
  OBVIOUS
<1>4. k = x + r /\ r \in 0..(W - 1)
  BY <1>1, <1>2, <1>3
<1>5. PICK j, u \in Int : j = k + 1 /\ u = r + 1
  OBVIOUS
<1>6. j = x + u /\ u \in 0..(W - 1)
  BY <1>1, <1>4, <1>5
<1>7. j = W * e + u
  BY <1>3, <1>6
<1>8. j % W = u
  BY <1>6, <1>7, RemainderUnique
<1> QED BY <1>1, <1>5, <1>8

\* In a tick in which a callback is not over because its period would end at
\* the tick to avoid, that period passes.
LEMMA PassedGrows ==
  ASSUME NEW t \in 0..Forever, NEW left \in Int, left \in (-MaxLate)..0,
         NEW b \in Periods \ {0}, (t + b) % Wrap = Forever,
         NEW v \in Int, v = (t + 1) % Wrap
  PROVE  Cardinality(Passed(left - 1, v)) >= Cardinality(Passed(left, t)) + 1
<1>1. PICK m \in Int : m = left - 1
  OBVIOUS
<1>2. /\ t \in Int /\ Forever \in Int /\ \A p \in Periods \ {0} : p \in Int
      /\ -left < Forever /\ left <= 0
  BY Numbers, WorkQueueAssumption
<1>3. ASSUME NEW p \in Periods \ {0}, NEW r \in Int, r = (t + p - Forever) % Wrap, r < Forever
      PROVE  (v + p - Forever) % Wrap = r + 1
  <2>1. PICK k \in Int : k = t + p - Forever
    BY <1>2
  <2>2. (k + 1) % Wrap = r + 1
    BY <1>3, <2>1, NextRemainder
  <2>3. PICK a, c \in Int : a = t + 1 /\ c = p - Forever
    BY <1>2
  <2>4. ((a % Wrap) + c) % Wrap = (a + c) % Wrap
    <3>1. Wrap \in Nat \ {0}
      BY Numbers
    <3> QED BY <3>1, RemainderOfSum, Zenon
  <2>5. v = a % Wrap /\ v + c = v + p - Forever /\ a + c = k + 1
    BY <1>2, <2>1, <2>3
  <2> QED BY <2>2, <2>4, <2>5
<1>4. (t + b - Forever) % Wrap = 0
  <2>1. PICK W \in Nat \ {0} : W = Wrap /\ W - 1 = Forever
    BY Numbers
  <2>2. PICK k \in Int : k = t + b
    BY <1>2
  <2>3. PICK e \in Int : e = k \div W
    OBVIOUS
  <2>4. k = W * e + (W - 1)
    BY <2>1, <2>2, <2>3
  <2>5. PICK j \in Int : j = k - (W - 1)
    OBVIOUS
  <2>6. j = W * e + 0 /\ 0 \in 0..(W - 1)
    BY <2>4, <2>5
  <2>7. j % W = 0
    BY <2>6, RemainderUnique
  <2>8. t + b - Forever = j
    BY <1>2, <2>1, <2>2, <2>5
  <2> QED BY <2>1, <2>7, <2>8
<1>5. b \notin Passed(left, t)
  BY <1>4 DEF Passed
<1>6. b \in Passed(m, v)
  <2>1. 0 < Forever
    BY Numbers
  <2>2. (v + b - Forever) % Wrap = 0 + 1
    BY <1>3, <1>4, <2>1
  <2>3. 0 + 1 \in 1..(-m)
    BY <1>1, <1>2
  <2> QED BY <2>2, <2>3 DEF Passed
<1>7. ASSUME NEW p \in Passed(left, t) PROVE p \in Passed(m, v)
  <2>1. p \in Periods \ {0}
    BY DEF Passed
  <2>2. PICK r \in 1..(-left) : r = (t + p - Forever) % Wrap
    BY DEF Passed
  <2>3. r \in Int /\ r < Forever /\ r + 1 \in 1..(-m)
    BY <1>1, <1>2, <2>2
  <2>4. (v + p - Forever) % Wrap = r + 1
    BY <1>3, <2>1, <2>2, <2>3
  <2> QED BY <2>1, <2>3, <2>4 DEF Passed
<1>8. PICK T : T = Passed(left, t) \cup {b}
  OBVIOUS
<1>9. Cardinality(T) = Cardinality(Passed(left, t)) + 1
  BY <1>5, <1>8, PassedFinite, FS_AddElement
<1>10. T \in SUBSET Passed(m, v)
  BY <1>6, <1>7, <1>8
<1>11. IsFiniteSet(Passed(m, v))
  BY PassedFinite
<1>12. Cardinality(T) <= Cardinality(Passed(m, v))
  BY <1>10, <1>11, FS_Subset
<1>13. PICK x, y \in Int : x = Cardinality(Passed(left, t)) /\ y = Cardinality(Passed(m, v))
  BY PassedFinite, Numbers
<1>14. y >= x + 1
  BY <1>9, <1>12, <1>13
<1> QED BY <1>1, <1>13, <1>14

-----------------------------------------------------------------------------
(* Every action keeps the invariant                                        *)

\* The types of the variables, in the form the proofs need them.
LEMMA Facts ==
  ASSUME QueueInv
  PROVE  /\ tick \in 0..Forever /\ tick \in Int /\ pc \in {"check", "call", "delay"}
         /\ nap \in 0..Forever /\ state \in {"INACTIVED", "READY", "SUSPENDED"}
         /\ timer \in 0..(TimerMax - 1) /\ timer \in 0..MaxWait /\ stopping \in BOOLEAN
         /\ s \in Queue /\ Sound(s, tick) /\ ThreadInv /\ LateInv
         /\ s.list \in Seq(Node) /\ s.run \in Node \cup {NoNode} /\ s.period \in [Node -> Periods]
         /\ s.left \in [Node -> Int] /\ ~Contains(s.list, s.run)
<1>1. s \in Queue /\ ~Contains(s.list, s.run)
  BY DEF QueueInv, Sound
<1>2. /\ s.list \in Seq(Node) /\ s.run \in Node \cup {NoNode}
      /\ s.period \in [Node -> Periods] /\ s.left \in [Node -> Int]
  BY <1>1, QueueFields
<1>3. timer \in 0..(TimerMax - 1)
  BY DEF QueueInv, TypeOK
<1>4. timer \in 0..MaxWait
  BY <1>3, Numbers DEF QueueInv, ThreadInv
<1>5. tick \in 0..Forever /\ tick \in Int
  BY Numbers DEF QueueInv, TypeOK
<1> QED BY <1>1, <1>2, <1>3, <1>4, <1>5 DEF QueueInv, TypeOK

\* What the parts of the invariant say of the type of the next state.
LEMMA TypedNext ==
  ASSUME NEW q, q = s', Sound(q, tick'), tick' \in 0..Forever, pc' \in {"check", "call", "delay"},
         nap' \in 0..Forever, state' \in {"INACTIVED", "READY", "SUSPENDED"},
         timer' \in 0..(TimerMax - 1), stopping' \in BOOLEAN
  PROVE  TypeOK'
<1>1. q \in Queue /\ Distinct(q.list)
  BY DEF Sound
<1> QED BY <1>1, QueueFields DEF TypeOK

\* A step that changes neither the tick nor what a listed node has left: no
\* node gets later when the timer is stopped, nor when the thread and the
\* timer are left alone.
LEMMA LateKept ==
  ASSUME QueueInv, NEW q, q = s', Sound(q, tick), tick' = tick,
         \A n \in Node : Contains(q.list, n) =>
           (Contains(s.list, n) /\ q.left[n] = s.left[n]) \/ q.left[n] >= 0,
         pc' \in {"check", "call", "delay"}, timer' \in 0..MaxWait,
         (pc' # "delay" /\ timer' = 0) \/ (pc' = pc /\ timer' = timer)
  PROVE  LateInv'
<1> SUFFICES ASSUME NEW n \in Node, Contains(q.list, n)
             PROVE  q.left[n] >= -Behind(pc', timer', q.left[n], tick)
  BY DEF LateInv, Listed
<1>1. PICK a, b, c : /\ a = q.left[n] /\ b = Behind(pc', timer', a, tick)
                     /\ c = Behind(pc, timer, a, tick)
  OBVIOUS
<1>2. a \in Int
  BY <1>1, QueueFields DEF Sound
<1>3. timer \in 0..MaxWait
  BY Facts
<1>4. b \in Late..MaxLate /\ c \in Late..MaxLate
  BY <1>1, <1>3, BehindBounds
<1>5. b \in Int /\ c \in Int /\ b >= 0
  BY <1>4, Numbers
<1>6. CASE a >= 0
  BY <1>1, <1>2, <1>5, <1>6
<1>7. CASE Contains(s.list, n) /\ a = s.left[n]
  <2>1. a >= -c
    BY <1>1, <1>7, Facts DEF LateInv, Listed
  <2>2. c <= b
    <3>1. CASE pc' # "delay" /\ timer' = 0
      BY <1>1, <1>3, <3>1, BehindBounds
    <3>2. CASE pc' = pc /\ timer' = timer
      BY <1>1, <1>5, <3>2
    <3> QED BY <3>1, <3>2
  <2> QED BY <1>1, <1>2, <1>5, <2>1, <2>2
<1> QED BY <1>1, <1>6, <1>7

\* A submission keeps the invariant.
LEMMA SubmitKeeps ==
  ASSUME QueueInv, AvoidForever = TRUE, NEW n \in Node, NEW d \in Durations, NEW p \in Periods,
         Submit(n, d, p)
  PROVE  QueueInv'
<1>1. PICK q : q = s'
  OBVIOUS
<1>2. q = Submitted(s, n, d, p) /\ ~Contains(s.list, n) /\ s.run # n
  BY <1>1 DEF Submit, Submitted, Listed
<1>3. d \in 0..MaxWait /\ (tick + d) % Wrap # Forever
  BY Numbers DEF Submit, Avoids
<1>4. /\ Sound(q, tick) /\ q.run = s.run /\ q.left = [s.left EXCEPT ![n] = d]
      /\ \A u : Contains(q.list, u) <=> Contains(s.list, u) \/ u = n
  <2>1. Sound(s, tick) /\ tick \in 0..Forever
    BY Facts
  <2> QED BY <1>2, <1>3, <2>1, SubmitSound
<1>5. /\ tick' = tick /\ pc' = pc /\ nap' = nap /\ stopping' = stopping
      /\ (state' = "READY" /\ timer' = 0) \/ (state # "SUSPENDED" /\ state' = state /\ timer' = timer)
      /\ state # "INACTIVED"
  BY DEF Submit, Wake
<1>6. state' = "READY" /\ timer' = 0
  BY <1>5, Facts DEF ThreadInv
<1>7. ThreadInv'
  BY <1>1, <1>4, <1>5, <1>6, Facts DEF ThreadInv
<1>8. timer' \in 0..(TimerMax - 1) /\ timer' \in 0..MaxWait
  BY <1>6, Numbers
<1>9. TypeOK'
  <2>1. Sound(q, tick') /\ tick' \in 0..Forever
    BY <1>4, <1>5, Facts
  <2> QED BY <1>1, <1>5, <1>6, <1>8, <2>1, Facts, TypedNext
<1>10. LateInv'
  <2>1. \A u \in Node : Contains(q.list, u) =>
          (Contains(s.list, u) /\ q.left[u] = s.left[u]) \/ q.left[u] >= 0
    BY <1>3, <1>4, Facts
  <2>2. pc = "delay" => timer = 0
    BY Facts DEF ThreadInv
  <2>3. (pc' # "delay" /\ timer' = 0) \/ (pc' = pc /\ timer' = timer)
    BY <1>5, <1>6, <2>2
  <2> QED BY <1>1, <1>4, <1>5, <1>8, <2>1, <2>3, Facts, LateKept
<1>11. Sound(s, tick)'
  BY <1>1, <1>4, <1>5
<1> QED BY <1>7, <1>9, <1>10, <1>11 DEF QueueInv

\* A cancellation keeps the invariant, whatever the thread is doing.
LEMMA CancelKeeps ==
  ASSUME QueueInv, NEW n \in Node, Cancel(n)
  PROVE  QueueInv'
<1>1. PICK q : q = s'
  OBVIOUS
<1>2. q = Cancelled(s, n)
  BY <1>1 DEF Cancel, Cancelled
<1>3. /\ Sound(q, tick) /\ q.run = (IF s.run = n THEN NoNode ELSE s.run)
      /\ q.left = [s.left EXCEPT ![n] = 0]
      /\ \A u : Contains(q.list, u) <=> Contains(s.list, u) /\ u # n
  BY <1>2, Facts, CancelSound
<1>4. /\ tick' = tick /\ pc' = pc /\ nap' = nap /\ stopping' = stopping /\ state' = state
      /\ timer' = timer
  BY DEF Cancel, thread
<1>5. s.list = <<>> => q.list = <<>>
  <2>1. q.list \in Seq(Node)
    BY <1>3, QueueFields DEF Sound
  <2>2. s.list \in Seq(Node)
    BY Facts
  <2> QED BY <1>3, <2>1, <2>2, EmptyHasNone
<1>6. ThreadInv'
  BY <1>1, <1>3, <1>4, <1>5, Facts DEF ThreadInv
<1>7. TypeOK'
  <2>1. Sound(q, tick') /\ tick' \in 0..Forever
    BY <1>3, <1>4, Facts
  <2> QED BY <1>1, <1>4, <2>1, Facts, TypedNext
<1>8. LateInv'
  <2>1. \A u \in Node : Contains(q.list, u) =>
          (Contains(s.list, u) /\ q.left[u] = s.left[u]) \/ q.left[u] >= 0
    BY <1>3, Facts
  <2> QED BY <1>1, <1>3, <1>4, <2>1, Facts, LateKept
<1>9. Sound(s, tick)'
  BY <1>1, <1>3, <1>4
<1> QED BY <1>6, <1>7, <1>8, <1>9 DEF QueueInv

\* The thread is done with a round, in which it has left the list q: it goes
\* on with the first node, which is due, or to sleep, when none is.
LEMMA ProceedKeeps ==
  ASSUME QueueInv, state = "READY", NEW q, Sound(q, tick), q.run = NoNode, Proceed(q),
         \A n \in Node : Contains(q.list, n) =>
           (Contains(s.list, n) /\ q.left[n] = s.left[n]) \/ q.left[n] >= 0,
         tick' = tick, timer' = timer, stopping' = stopping
  PROVE  QueueInv'
<1>1. q.list \in Seq(Node) /\ q.left \in [Node -> Int]
  BY QueueFields DEF Sound
<1>2. tick \in 0..Forever /\ timer = 0 /\ timer' \in 0..(TimerMax - 1) /\ timer' \in 0..MaxWait
  BY Facts DEF ThreadInv
<1>3. tick' \in 0..Forever
  BY <1>2
<1>4. CASE IsDue(q)
  <2>1. PICK h, i : h = Head(q.list) /\ i = s'
    OBVIOUS
  <2>2. /\ i = Called(q, h) /\ q.list # <<>> /\ pc' = "call" /\ nap' = nap /\ state' = state
    BY <1>4, <2>1 DEF Proceed, Called, IsDue
  <2>3. h \in Node
    BY <1>2, <2>1, <2>2, HeadFirst
  <2>4. /\ Sound(i, tick) /\ i.left = [q.left EXCEPT ![h] = 0]
        /\ \A u : Contains(i.list, u) <=> Contains(q.list, u) /\ u # h
    BY <2>2, <2>3, TakenSound
  <2>5. \A n \in Node : Contains(i.list, n) =>
          (Contains(s.list, n) /\ i.left[n] = s.left[n]) \/ i.left[n] >= 0
    BY <1>1, <2>3, <2>4
  <2>6. TypeOK'
    <3>1. Sound(i, tick') /\ pc' \in {"check", "call", "delay"}
      BY <2>2, <2>4
    <3> QED BY <1>2, <1>3, <2>1, <2>2, <3>1, Facts, TypedNext
  <2>7. ThreadInv'
    BY <1>2, <2>2 DEF ThreadInv
  <2>8. LateInv'
    <3>1. pc' \in {"check", "call", "delay"} /\ pc' # "delay" /\ timer' = 0
      BY <1>2, <2>2
    <3> QED BY <1>2, <2>1, <2>4, <2>5, <3>1, LateKept
  <2>9. Sound(s, tick)'
    BY <2>1, <2>4
  <2> QED BY <2>6, <2>7, <2>8, <2>9 DEF QueueInv
<1>5. CASE ~IsDue(q)
  <2>1. s' = q /\ Sleep(q)
    BY <1>5 DEF Proceed
  <2>2. CASE q.list = <<>>
    <3>1. state' = "SUSPENDED" /\ pc' = "check" /\ nap' = nap
      BY <2>1, <2>2 DEF Sleep
    <3>2. TypeOK'
      <4>1. /\ Sound(q, tick') /\ pc' \in {"check", "call", "delay"}
            /\ state' \in {"INACTIVED", "READY", "SUSPENDED"}
        BY <3>1
      <4> QED BY <1>2, <1>3, <2>1, <3>1, <4>1, Facts, TypedNext
    <3>3. ThreadInv'
      BY <1>2, <2>1, <2>2, <3>1 DEF ThreadInv
    <3>4. LateInv'
      BY <1>1, <2>1, <2>2, EmptyHasNone DEF LateInv, Listed
    <3>5. Sound(s, tick)'
      BY <2>1
    <3> QED BY <3>2, <3>3, <3>4, <3>5 DEF QueueInv
  <2>3. CASE q.list # <<>>
    <3>1. PICK h, a : h = Head(q.list) /\ a = q.left[h]
      OBVIOUS
    <3>2. /\ h \in Node /\ q.out[h] # Forever /\ a \in (-MaxLate)..MaxWait /\ ~(a <= 0)
          /\ (q.out[h] - tick) % Wrap = a
          /\ \A n \in Node : Contains(q.list, n) => a <= q.left[n]
      BY <1>2, <1>5, <2>3, <3>1, HeadFirst
    <3>3. a \in 1..MaxWait /\ a < TimerMax /\ a \in 0..Forever
      BY <3>2, Numbers
    <3>4. nap' = a /\ pc' = "delay" /\ state' = state
      <4>1. nap' = (IF a < TimerMax THEN a ELSE q.out[h]) /\ pc' = "delay" /\ state' = state
        BY <2>1, <2>3, <3>1, <3>2 DEF Sleep
      <4> QED BY <3>3, <4>1
    <3>5. TypeOK'
      <4>1. Sound(q, tick') /\ pc' \in {"check", "call", "delay"}
        BY <3>4
      <4> QED BY <1>2, <1>3, <2>1, <3>3, <3>4, <4>1, Facts, TypedNext
    <3>6. ThreadInv'
      BY <1>2, <2>1, <3>3, <3>4 DEF ThreadInv
    <3>7. LateInv'
      <4> SUFFICES ASSUME NEW n \in Node, Contains(q.list, n)
                   PROVE  q.left[n] >= -Behind("delay", timer', q.left[n], tick')
        BY <2>1, <3>4 DEF LateInv, Listed
      <4>1. Behind("delay", timer', q.left[n], tick') = Late
        BY DEF Behind
      <4>2. a <= q.left[n] /\ q.left[n] \in Int
        BY <1>1, <3>2
      <4> QED BY <3>3, <4>1, <4>2, Numbers
    <3>8. Sound(s, tick)'
      BY <2>1
    <3> QED BY <3>5, <3>6, <3>7, <3>8 DEF QueueInv
  <2> QED BY <2>2, <2>3
<1> QED BY <1>4, <1>5

\* The look of the thread at the first node keeps the invariant.
LEMMA CheckKeeps ==
  ASSUME QueueInv, Check
  PROVE  QueueInv'
<1>1. s.run = NoNode /\ Sound(s, tick)
  BY Facts DEF Check, ThreadInv
<1>2. \A n \in Node : Contains(s.list, n) =>
        (Contains(s.list, n) /\ s.left[n] = s.left[n]) \/ s.left[n] >= 0
  OBVIOUS
<1> QED BY <1>1, <1>2, ProceedKeeps DEF Check

\* The end of a callback keeps the invariant, with the node put back.
LEMMA CallReturnKeeps ==
  ASSUME QueueInv, AvoidForever = TRUE, CallReturn
  PROVE  QueueInv'
<1>1. PICK q : q = AfterCall(s)
  OBVIOUS
<1>2. Sound(s, tick) /\ tick \in 0..Forever /\ s.left \in [Node -> Int]
  BY Facts
<1>3. MayReturn(s)
  BY DEF CallReturn, Blocked, Avoids, MayReturn
<1>4. /\ Sound(q, tick) /\ q.run = NoNode
      /\ \A u : Contains(q.list, u)
                   <=> Contains(s.list, u) \/ (u = s.run /\ u \in Node /\ s.period[u] > 0)
      /\ \A u \in Node : Contains(s.list, u) => q.left[u] = s.left[u]
      /\ Contains(q.list, s.run) => q.left[s.run] >= 0
  BY <1>1, <1>2, <1>3, AfterCallSound
<1>5. \A n \in Node : Contains(q.list, n) =>
        (Contains(s.list, n) /\ q.left[n] = s.left[n]) \/ q.left[n] >= 0
  BY <1>4
<1> QED BY <1>1, <1>4, <1>5, ProceedKeeps DEF CallReturn

\* Going to sleep for a time computed before keeps the invariant.
LEMMA DelayKeeps ==
  ASSUME QueueInv, Delay
  PROVE  QueueInv'
<1>1. /\ state = "READY" /\ pc = "delay" /\ pc' = "check" /\ nap' = 0
      /\ tick' = tick /\ s' = s /\ stopping' = stopping
      /\ state' = (IF nap > 0 THEN "SUSPENDED" ELSE state)
      /\ timer' = (IF nap < TimerMax THEN nap ELSE 0)
  BY DEF Delay
<1>2. nap \in 1..MaxWait /\ timer = 0
  BY <1>1, Facts DEF ThreadInv
<1>3. state' = "SUSPENDED" /\ timer' = nap /\ timer' \in 1..MaxWait /\ timer' > 0
  BY <1>1, <1>2, Numbers
<1>4. TypeOK'
  <2>1. /\ Sound(s, tick') /\ tick' \in 0..Forever /\ timer' \in 0..(TimerMax - 1)
        /\ pc' \in {"check", "call", "delay"} /\ nap' \in 0..Forever
        /\ state' \in {"INACTIVED", "READY", "SUSPENDED"} /\ stopping' \in BOOLEAN
    BY <1>1, <1>3, Facts, Numbers
  <2> QED BY <1>1, <2>1, TypedNext
<1>5. ThreadInv'
  <2>1. s.run = NoNode
    BY <1>1, Facts DEF ThreadInv
  <2> QED BY <1>1, <1>3, <2>1, Numbers DEF ThreadInv
<1>6. LateInv'
  <2> SUFFICES ASSUME NEW n \in Node, Contains(s.list, n)
               PROVE  s.left[n] >= -Behind("check", timer', s.left[n], tick')
    BY <1>1 DEF LateInv, Listed
  <2>1. Behind("check", timer', s.left[n], tick') = Late + MaxWait - timer'
    BY <1>3 DEF Behind
  <2>2. s.left[n] >= -Late
    BY <1>1, Facts DEF LateInv, Listed, Behind
  <2>3. s.left[n] \in Int
    BY Facts
  <2> QED BY <1>3, <2>1, <2>2, <2>3, Numbers
<1>7. Sound(s, tick)'
  BY <1>1, Facts
<1> QED BY <1>4, <1>5, <1>6, <1>7 DEF QueueInv

\* Starting the thread keeps the invariant.
LEMMA StartKeeps ==
  ASSUME QueueInv, Start
  PROVE  QueueInv'
<1>1. /\ state' = "READY" /\ timer' = 0 /\ tick' = tick /\ s' = s /\ pc' = pc /\ nap' = nap
      /\ stopping' = stopping
  BY DEF Start
<1>2. TypeOK'
  <2>1. /\ Sound(s, tick') /\ tick' \in 0..Forever /\ timer' \in 0..(TimerMax - 1)
        /\ state' \in {"INACTIVED", "READY", "SUSPENDED"}
    BY <1>1, Facts, Numbers
  <2> QED BY <1>1, <2>1, Facts, TypedNext
<1>3. ThreadInv'
  BY <1>1, Facts DEF ThreadInv
<1>4. LateInv'
  <2>1. (pc' # "delay" /\ timer' = 0) \/ (pc' = pc /\ timer' = timer)
    BY <1>1, Facts DEF ThreadInv
  <2>2. /\ Sound(s, tick) /\ s = s' /\ pc' \in {"check", "call", "delay"} /\ timer' \in 0..MaxWait
        /\ \A n \in Node : Contains(s.list, n) =>
             (Contains(s.list, n) /\ s.left[n] = s.left[n]) \/ s.left[n] >= 0
    BY <1>1, Facts, Numbers
  <2> QED BY <1>1, <2>1, <2>2, LateKept
<1>5. Sound(s, tick)'
  BY <1>1, Facts
<1> QED BY <1>2, <1>3, <1>4, <1>5 DEF QueueInv

\* Stop and StopReturn, which take the first node off the list q.
SameNodes(q) == q.list = s.list /\ q.left = s.left /\ q.run = s.run

\* A drain takes one node, or ends, and keeps the invariant.
LEMMA DrainKeeps ==
  ASSUME QueueInv, NEW q, Sound(q, tick), SameNodes(q), Drain(q),
         state' \in {"INACTIVED", "READY", "SUSPENDED"}, state' = "READY" => state = "READY",
         timer > 0 => state' = state, state' = "INACTIVED" => state = "INACTIVED",
         stopping \/ state = "READY",
         tick' = tick, pc' = pc, nap' = nap, timer' = timer
  PROVE  QueueInv'
<1>1. PICK i : i = s'
  OBVIOUS
<1>2. /\ Sound(i, tick) /\ i.run = s.run
      /\ \A n \in Node : Contains(i.list, n) => Contains(s.list, n) /\ i.left[n] = s.left[n]
      /\ stopping' = (s.list # <<>>) /\ (s.list = <<>> => i.list = <<>>)
  <2>1. CASE q.list = <<>>
    BY <1>1, <2>1 DEF Drain, SameNodes
  <2>2. CASE q.list # <<>>
    <3>1. PICK h : h = Head(q.list)
      OBVIOUS
    <3>2. h \in Node
      BY <2>2, <3>1, Facts, HeadFirst
    <3>3. i = Drained(q, h) /\ stopping' = (q.list # <<>>)
      BY <1>1, <2>2, <3>1 DEF Drain, Drained
    <3>4. /\ Sound(i, tick) /\ i.run = q.run /\ i.left = [q.left EXCEPT ![h] = 0]
          /\ \A u : Contains(i.list, u) <=> Contains(q.list, u) /\ u # h
      BY <3>2, <3>3, TakenSound
    <3> QED BY <2>2, <3>2, <3>3, <3>4, Facts DEF SameNodes
  <2> QED BY <2>1, <2>2
<1>3. TypeOK'
  <2>1. Sound(i, tick') /\ tick' \in 0..Forever /\ stopping' \in BOOLEAN
    BY <1>2, Facts
  <2> QED BY <1>1, <2>1, Facts, TypedNext
<1>4. ThreadInv'
  BY <1>1, <1>2, Facts DEF ThreadInv
<1>5. LateInv'
  <2>1. /\ pc' \in {"check", "call", "delay"} /\ timer' \in 0..MaxWait
        /\ \A n \in Node : Contains(i.list, n) =>
             (Contains(s.list, n) /\ i.left[n] = s.left[n]) \/ i.left[n] >= 0
    BY <1>2, Facts
  <2> QED BY <1>1, <1>2, <2>1, LateKept
<1>6. Sound(s, tick)'
  BY <1>1, <1>2
<1> QED BY <1>3, <1>4, <1>5, <1>6 DEF QueueInv

\* Suspending the thread and draining the first node keeps the invariant.
LEMMA StopKeeps ==
  ASSUME QueueInv, Stop
  PROVE  QueueInv'
<1>1. /\ state = "READY" /\ state' = "SUSPENDED" /\ Drain(s)
      /\ tick' = tick /\ pc' = pc /\ nap' = nap /\ timer' = timer
  BY DEF Stop
<1>2. Sound(s, tick) /\ timer = 0
  BY <1>1, Facts DEF ThreadInv
<1>3. SameNodes(s)
  BY DEF SameNodes
<1> QED BY <1>1, <1>2, <1>3, DrainKeeps

\* A queue whose drained node was released is sound.
LEMMA DrainOver ==
  ASSUME QueueInv, NEW q, q = [s EXCEPT !.drain = NoNode]
  PROVE  Sound(q, tick) /\ SameNodes(q)
<1>1. q = WithRest(s, s.run, NoNode, s.period, s.queued)
  BY Facts DEF Queue, WithRest
<1>2. /\ Sound(s, tick) /\ ~Contains(s.list, s.run) /\ s.run \in Node \cup {NoNode}
      /\ NoNode \in Node \cup {NoNode} /\ s.period \in [Node -> Periods]
      /\ s.queued \in [Node -> BOOLEAN]
  BY Facts, QueueFields
<1> QED BY <1>1, <1>2, RestReplaced DEF SameNodes

\* The end of a stop callback keeps the invariant, and the drain goes on.
LEMMA StopReturnKeeps ==
  ASSUME QueueInv, StopReturn
  PROVE  QueueInv'
<1>1. PICK q : q = [s EXCEPT !.drain = NoNode]
  OBVIOUS
<1>2. /\ stopping /\ Drain(q) /\ tick' = tick /\ pc' = pc /\ nap' = nap /\ timer' = timer
      /\ state' = state
  BY <1>1 DEF StopReturn, thread
<1>3. Sound(q, tick) /\ SameNodes(q)
  BY <1>1, DrainOver
<1>4. state \in {"INACTIVED", "READY", "SUSPENDED"}
  BY Facts
<1> QED BY <1>2, <1>3, <1>4, DrainKeeps

\* A tick brings every node nearer to its time, or further past it.
LEMMA TickKeeps ==
  ASSUME QueueInv, Tick
  PROVE  QueueInv'
<1>1. PICK i, v, f : /\ i = s' /\ v = tick'
                     /\ f = [n \in Node |-> IF Listed(n) THEN s.left[n] - 1 ELSE 0]
  OBVIOUS
<1>2. /\ ~Overdue \/ Blocked
      /\ v = (tick + 1) % Wrap
      /\ timer' = (IF timer > 0 THEN timer - 1 ELSE 0)
      /\ state' = (IF timer = 1 THEN "READY" ELSE state)
      /\ pc' = pc /\ nap' = nap /\ stopping' = stopping
  BY <1>1 DEF Tick, NextTick
<1>3. v \in 0..Forever /\ v \in Int
  <2>1. PICK W \in Nat \ {0} : W = Wrap /\ Forever = W - 1
    BY Numbers
  <2>2. PICK j \in Int : j = tick + 1
    BY Facts
  <2>3. j % W \in 0..(W - 1)
    BY RemainderOfSum
  <2> QED BY <1>2, <2>1, <2>2, <2>3
<1>4. f \in [Node -> Int] /\ \A n \in Node : Contains(s.list, n) => f[n] = s.left[n] - 1
  BY <1>1, Facts DEF Listed
<1>5. i = WithTimes(s, s.out, f)
  BY <1>1, Facts DEF Tick, Queue, WithTimes
<1>6. i \in Queue /\ Alike(i, s) /\ i.list = s.list /\ i.out = s.out /\ i.left = f
  <2>1. s \in Queue /\ s.out \in [Node -> 0..Forever]
    BY Facts, QueueFields
  <2> QED BY <1>4, <1>5, <2>1, TimesReplaced
<1>7. timer \in Int /\ timer \in 0..MaxWait /\ timer' \in 0..MaxWait
  BY <1>2, Facts, Numbers, SMTT(20)
<1>8. ASSUME NEW n \in Node, Contains(s.list, n)
      PROVE  f[n] >= -Behind(pc, timer', f[n], v)
  <2>1. PICK a, b, c : /\ a = s.left[n] /\ b = Behind(pc, timer, a, tick)
                       /\ c = Behind(pc, timer', a - 1, v)
    OBVIOUS
  <2>2. a \in Int /\ b \in Late..MaxLate /\ c \in Late..MaxLate /\ f[n] = a - 1
    BY <1>4, <1>7, <1>8, <2>1, Facts, BehindBounds
  <2>3. a >= -b /\ a \in (-MaxLate)..MaxWait
    BY <1>8, <2>1, Facts DEF LateInv, Listed, Sound, OnTime
  <2>4. PICK x, y \in Int : /\ x = Cardinality(Passed(a, tick))
                           /\ y = Cardinality(Passed(a - 1, v)) /\ x >= 0 /\ y >= 0
    BY PassedFinite, Numbers
  <2>5. a - 1 >= -c
    <3>1. CASE timer > 0
      <4>1. pc = "check"
        BY <3>1, Facts DEF ThreadInv
      <4>2. b = Late + MaxWait - timer
        BY <2>1, <3>1, <4>1 DEF Behind
      <4>3. c = (IF timer' > 0 THEN Late + MaxWait - timer' ELSE Late + MaxWait + y)
        BY <2>1, <2>4, <4>1 DEF Behind
      <4>4. timer' = timer - 1
        BY <1>2, <3>1
      <4> QED BY <1>7, <2>2, <2>3, <2>4, <3>1, <4>2, <4>3, <4>4, Numbers
    <3>2. CASE a > -Late
      BY <2>2, <3>2, Numbers
    <3>3. CASE timer = 0 /\ ~(a > -Late)
      <4>1. a <= -Late
        BY <2>2, <3>3, Numbers
      <4>2. state = "READY" \/ stopping
        <5>1. s.list # <<>>
          BY <1>8, Facts, EmptyHasNone
        <5> QED BY <3>3, <5>1, Facts DEF ThreadInv
      <4>3. Blocked
        BY <1>2, <1>8, <2>1, <4>1, <4>2 DEF Overdue, Listed
      <4>4. PICK p : p = s.period[s.run]
        OBVIOUS
      <4>5. pc = "call" /\ p \in Periods \ {0} /\ (tick + p) % Wrap = Forever
        <5>1. pc = "call" /\ s.run # NoNode /\ p > 0 /\ ~Avoids(p)
          BY <4>3, <4>4 DEF Blocked
        <5>2. p \in Periods
          BY <4>4, <5>1, Facts
        <5> QED BY <5>1, <5>2 DEF Avoids
      <4>6. a \in (-MaxLate)..0
        BY <2>2, <2>3, <4>1, Numbers
      <4>7. y >= x + 1
        BY <1>2, <1>3, <2>2, <2>4, <4>5, <4>6, Facts, PassedGrows
      <4>8. b = Late + MaxWait + x
        BY <2>1, <2>4, <3>3, <4>5 DEF Behind
      <4>9. c = Late + MaxWait + y
        <5>1. ~(timer' > 0)
          BY <1>2, <3>3
        <5> QED BY <2>1, <2>4, <4>5, <5>1 DEF Behind
      <4> QED BY <2>2, <2>3, <2>4, <4>7, <4>8, <4>9, Numbers
    <3> QED BY <1>7, <3>1, <3>2, <3>3
  <2> QED BY <2>1, <2>2, <2>5
<1>9. LateInv'
  BY <1>1, <1>2, <1>6, <1>8 DEF LateInv, Listed
<1>10. ASSUME NEW n \in Node, Contains(i.list, n) PROVE OnTime(i, v, n)
  <2>1. OnTime(s, tick, n) /\ f[n] = s.left[n] - 1 /\ Contains(s.list, n)
    BY <1>4, <1>6, <1>10, Facts DEF Sound
  <2>2. PICK a, b, j, k \in Int : a = s.left[n] /\ b = f[n] /\ j = tick + 1 /\ k = tick + a
    BY <1>4, Facts
  <2>3. b = a - 1 /\ j + b = k
    BY <2>1, <2>2, Facts, SMTT(20)
  <2>4. (v + b) % Wrap = k % Wrap
    <3>1. Wrap \in Nat \ {0}
      BY Numbers
    <3>2. ((j % Wrap) + b) % Wrap = (j + b) % Wrap
      BY <3>1, RemainderOfSum, Zenon
    <3> QED BY <1>2, <2>2, <2>3, <3>2
  <2>5. b \in (-MaxLate)..MaxWait
    <3>1. PICK c : c = Behind(pc, timer', b, v)
      OBVIOUS
    <3>2. b >= -c /\ c \in Late..MaxLate
      BY <1>7, <1>8, <2>1, <2>2, <3>1, BehindBounds
    <3>3. a <= MaxWait /\ a \in Int
      BY <2>1, <2>2, Numbers DEF OnTime
    <3> QED BY <2>3, <3>2, <3>3, Numbers
  <2> QED BY <1>6, <2>1, <2>2, <2>4, <2>5 DEF OnTime
<1>11. Sound(i, v)
  <2>1. Ascends(s.list, f)
    <3>1. \A j \in DOMAIN s.list : f[s.list[j]] = s.left[s.list[j]] - 1 /\ s.left[s.list[j]] \in Int
      BY <1>4, Facts, LenProperties, ElementOfSeq DEF Contains
    <3>2. Ascends(s.list, s.left)
      BY Facts DEF Sound
    <3> QED BY <3>1, <3>2 DEF Ascends
  <2>2. Distinct(i.list) /\ ~Contains(i.list, i.run)
    BY <1>6, Facts DEF Sound, Alike
  <2> QED BY <1>6, <1>10, <2>1, <2>2 DEF Sound
<1>12. TypeOK'
  <2>1. /\ Sound(i, tick') /\ tick' \in 0..Forever /\ timer' \in 0..(TimerMax - 1)
        /\ state' \in {"INACTIVED", "READY", "SUSPENDED"}
    BY <1>1, <1>2, <1>3, <1>7, <1>11, Facts, Numbers
  <2> QED BY <1>1, <1>2, <2>1, Facts, TypedNext
<1>13. ThreadInv'
  <2>1. s'.run = s.run /\ s'.list = s.list
    BY <1>1, <1>6 DEF Alike
  <2>2. timer > 0 => pc = "check" /\ state \notin {"READY", "INACTIVED"}
    BY Facts DEF ThreadInv
  <2>3. timer' > 0 => timer > 0 /\ timer # 1 /\ timer' <= MaxWait
    BY <1>2, <1>7, Numbers
  <2>4. timer' = 0 => timer \in {0, 1}
    BY <1>2, <1>7
  <2>5. timer' \in Nat
    BY <1>2, <1>7
  <2> QED BY <1>2, <2>1, <2>2, <2>3, <2>4, <2>5, Facts DEF ThreadInv
<1>14. Sound(s, tick)'
  BY <1>1, <1>11
<1> QED BY <1>9, <1>12, <1>13, <1>14 DEF QueueInv

\* An empty queue that was not started is in order.
LEMMA InitQueueInv == Init => QueueInv
<1> SUFFICES ASSUME Init PROVE QueueInv
  OBVIOUS
<1>1. /\ tick \in 0..Forever /\ pc = "check" /\ nap = 0 /\ state = "INACTIVED" /\ timer = 0
      /\ stopping = FALSE
  BY DEF Init
<1>2. s \in Queue /\ s.list = <<>> /\ s.run = NoNode
  <2>1. 0 \in 0..Forever /\ 0 \in Periods
    BY Numbers, WorkQueueAssumption
  <2> QED BY <2>1 DEF Init, Queue
<1>3. Sound(s, tick)
  <2>1. \A n : ~Contains(s.list, n)
    BY <1>2, QueueFields, EmptyHasNone
  <2>2. Distinct(s.list) /\ Ascends(s.list, s.left)
    BY <1>2 DEF Distinct, Ascends
  <2> QED BY <1>2, <2>1, <2>2 DEF Sound
<1>4. TypeOK
  <2>1. 0 \in 0..Forever /\ 0 \in 0..(TimerMax - 1)
    BY Numbers
  <2> QED BY <1>1, <1>2, <1>3, <2>1, QueueFields DEF TypeOK, Sound
<1>5. ThreadInv
  BY <1>1, <1>2 DEF ThreadInv
<1>6. LateInv
  BY <1>2, QueueFields, EmptyHasNone DEF LateInv, Listed
<1> QED BY <1>3, <1>4, <1>5, <1>6 DEF QueueInv

\* Every step keeps the invariant.
LEMMA NextQueueInv ==
  ASSUME AvoidForever = TRUE
  PROVE  QueueInv /\ [Next]_vars => QueueInv'
<1> SUFFICES ASSUME QueueInv, [Next]_vars PROVE QueueInv'
  OBVIOUS
<1>1. ASSUME NEW n \in Node, NEW d \in Durations, NEW p \in Periods, Submit(n, d, p)
      PROVE  QueueInv'
  BY <1>1, SubmitKeeps
<1>2. ASSUME NEW n \in Node, Cancel(n) PROVE QueueInv'
  BY <1>2, CancelKeeps
<1>3. CASE Check
  BY <1>3, CheckKeeps
<1>4. CASE CallReturn
  BY <1>4, CallReturnKeeps
<1>5. CASE Delay
  BY <1>5, DelayKeeps
<1>6. CASE Start
  BY <1>6, StartKeeps
<1>7. CASE Stop
  BY <1>7, StopKeeps
<1>8. CASE StopReturn
  BY <1>8, StopReturnKeeps
<1>9. CASE Tick
  BY <1>9, TickKeeps
<1>10. CASE UNCHANGED vars
  BY <1>10 DEF vars, QueueInv, TypeOK, ThreadInv, LateInv, Listed
<1> QED BY <1>1, <1>2, <1>3, <1>4, <1>5, <1>6, <1>7, <1>8, <1>9, <1>10 DEF Next

\* The queue is always in order.
LEMMA QueueInvHolds ==
  ASSUME AvoidForever = TRUE
  PROVE  Spec => []QueueInv
<1>1. QueueInv /\ [Next]_vars => QueueInv'
  BY NextQueueInv
<1> QED BY <1>1, InitQueueInv, PTL DEF Spec

-----------------------------------------------------------------------------
(* What a step does to a node                                              *)

\* From the queue of this state to the queue q of the next one: a node that
\* leaves the list is called, drained or cancelled, a periodic one whose
\* callback is over is listed or cancelled, and one that is called is due.
Fair(n, q) ==
  /\ Contains(s.list, n) /\ ~Contains(q.list, n) => n \in {q.run, q.drain} \/ ~q.queued[n]
  /\ s.run = n /\ q.run # n /\ s.period[n] > 0 => Contains(q.list, n) \/ ~q.queued[n]
  /\ Contains(s.list, n) /\ s.run # n /\ q.run = n => s.left[n] <= 0

\* The thread goes on with the list q.
LEMMA ProceedIsFair ==
  ASSUME QueueInv, NEW q, Sound(q, tick), q.run = NoNode, Proceed(q), NEW n \in Node,
         Contains(s.list, n) => Contains(q.list, n) /\ q.left[n] = s.left[n],
         s.run = n /\ s.period[n] > 0 => Contains(q.list, n)
  PROVE  Fair(n, s')
<1>1. CASE IsDue(q)
  <2>1. PICK h, i : h = Head(q.list) /\ i = s'
    OBVIOUS
  <2>2. i = Called(q, h) /\ q.list # <<>>
    BY <1>1, <2>1 DEF Proceed, Called, IsDue
  <2>3. h \in Node /\ q.left[h] <= 0
    BY <1>1, <2>1, <2>2, Facts, HeadFirst
  <2>4. /\ Sound(i, tick) /\ i.run = h /\ i.left = [q.left EXCEPT ![h] = 0]
        /\ \A u : Contains(i.list, u) <=> Contains(q.list, u) /\ u # h
    BY <2>2, <2>3, TakenSound
  <2>5. Fair(n, i)
    BY <2>3, <2>4 DEF Fair
  <2> QED BY <2>1, <2>5
<1>2. CASE ~IsDue(q)
  <2>1. s' = q
    BY <1>2 DEF Proceed
  <2> QED BY <2>1, WorkQueueAssumption DEF Fair
<1> QED BY <1>1, <1>2

\* A drain leaves the list as it should.
LEMMA DrainIsFair ==
  ASSUME QueueInv, NEW q, Sound(q, tick), SameNodes(q), Drain(q), NEW n \in Node
  PROVE  Fair(n, s')
<1>1. CASE q.list = <<>>
  BY <1>1, Facts DEF Drain, Fair, SameNodes
<1>2. CASE q.list # <<>>
  <2>1. PICK h, i : h = Head(q.list) /\ i = s'
    OBVIOUS
  <2>2. h \in Node
    BY <1>2, <2>1, Facts, HeadFirst
  <2>3. i = Drained(q, h)
    BY <1>2, <2>1 DEF Drain, Drained
  <2>4. /\ Sound(i, tick) /\ i.run = q.run /\ i.drain = h /\ i.left = [q.left EXCEPT ![h] = 0]
        /\ \A u : Contains(i.list, u) <=> Contains(q.list, u) /\ u # h
    BY <2>2, <2>3, TakenSound
  <2>5. Fair(n, i)
    BY <2>4 DEF Fair, SameNodes
  <2> QED BY <2>1, <2>5
<1> QED BY <1>1, <1>2

\* Every step takes a node out of the list as it should.
LEMMA StepsAreFair ==
  ASSUME AvoidForever = TRUE, QueueInv, Next, NEW n \in Node
  PROVE  Fair(n, s')
<1>1. ASSUME NEW m \in Node, NEW d \in Durations, NEW p \in Periods, Submit(m, d, p)
      PROVE  Fair(n, s')
  <2>1. PICK q : q = s'
    OBVIOUS
  <2>2. q = Submitted(s, m, d, p) /\ ~Contains(s.list, m) /\ s.run # m
    BY <1>1, <2>1 DEF Submit, Submitted, Listed
  <2>3. d \in 0..MaxWait /\ (tick + d) % Wrap # Forever
    BY <1>1, Numbers DEF Submit, Avoids
  <2>4. Sound(s, tick) /\ tick \in 0..Forever
    BY Facts
  <2>5. /\ Sound(q, tick) /\ q.run = s.run /\ q.left = [s.left EXCEPT ![m] = d]
        /\ \A u : Contains(q.list, u) <=> Contains(s.list, u) \/ u = m
    BY <2>2, <2>3, <2>4, SubmitSound
  <2> QED BY <2>1, <2>5 DEF Fair
<1>2. ASSUME NEW m \in Node, Cancel(m) PROVE Fair(n, s')
  <2>1. PICK q : q = s'
    OBVIOUS
  <2>2. q = Cancelled(s, m) /\ Sound(s, tick)
    BY <1>2, <2>1, Facts DEF Cancel, Cancelled
  <2>3. /\ ~q.queued[m] /\ q.run = (IF s.run = m THEN NoNode ELSE s.run)
        /\ \A u : Contains(q.list, u) <=> Contains(s.list, u) /\ u # m
    BY <2>2, CancelSound, ZenonT(30)
  <2>4. n # NoNode
    BY WorkQueueAssumption
  <2> QED BY <2>1, <2>3, <2>4 DEF Fair
<1>3. CASE Check
  BY <1>3, Facts, WorkQueueAssumption, ProceedIsFair DEF Check, ThreadInv
<1>4. CASE CallReturn
  <2>1. PICK q : q = AfterCall(s)
    OBVIOUS
  <2>2. Sound(s, tick) /\ tick \in 0..Forever /\ MayReturn(s)
    BY <1>4, Facts DEF CallReturn, Blocked, Avoids, MayReturn
  <2>3. /\ Sound(q, tick) /\ q.run = NoNode
        /\ \A u : Contains(q.list, u)
                     <=> Contains(s.list, u) \/ (u = s.run /\ u \in Node /\ s.period[u] > 0)
        /\ \A u \in Node : Contains(s.list, u) => q.left[u] = s.left[u]
    BY <2>1, <2>2, AfterCallSound
  <2> QED BY <1>4, <2>1, <2>3, ProceedIsFair DEF CallReturn
<1>5. CASE Delay \/ Start
  BY <1>5 DEF Delay, Start, Fair
<1>6. CASE Stop
  BY <1>6, Facts, DrainIsFair DEF Stop, SameNodes
<1>7. CASE StopReturn
  <2>1. PICK q : q = [s EXCEPT !.drain = NoNode]
    OBVIOUS
  <2>2. Sound(q, tick) /\ SameNodes(q)
    BY <2>1, DrainOver
  <2> QED BY <1>7, <2>1, <2>2, DrainIsFair DEF StopReturn
<1>8. CASE Tick
  <2>1. s'.list = s.list /\ s'.run = s.run
    BY <1>8, Facts DEF Tick, Queue
  <2> QED BY <2>1 DEF Fair
<1> QED BY <1>1, <1>2, <1>3, <1>4, <1>5, <1>6, <1>7, <1>8 DEF Next

-----------------------------------------------------------------------------
(* The theorems.  They are about programs in which no node is due at the   *)
(* tick MDS_CLOCK_TICK_FOREVER: the others are refuted by TLC.             *)

\* Every variable has its type, and no node is linked twice into the list of
\* the queue (WORKQ_SkipListInsert, WORKQ_SkipListRemove).
THEOREM QueueTypeCorrect ==
  ASSUME AvoidForever = TRUE
  PROVE  Spec => []TypeOK
<1>1. QueueInv => TypeOK
  BY DEF QueueInv
<1> QED BY <1>1, QueueInvHolds, PTL

\* The list stays in the order in which its nodes are due while the tick
\* counter wraps, though WORKQ_SkipListCompare only sees remainders: what is
\* on the list at one time is never further apart than it can tell.
THEOREM NodesInDueOrder ==
  ASSUME AvoidForever = TRUE
  PROVE  Spec => []DueOrder
<1>1. QueueInv => DueOrder
  BY DEF QueueInv, Sound, Ascends, DueOrder
<1> QED BY <1>1, QueueInvHolds, PTL

\* The thread of a queue that holds a node runs, or its timer will wake it:
\* it does not wait for a submission (WorkQueueThreadEntry, MDS_WorkNodeSubmit).
THEOREM SleepsOnlyForATime ==
  ASSUME AvoidForever = TRUE
  PROVE  Spec => []ParkedOnlyWhenEmpty
<1>1. QueueInv => ParkedOnlyWhenEmpty
  BY DEF QueueInv, ThreadInv, ParkedOnlyWhenEmpty
<1> QED BY <1>1, QueueInvHolds, PTL

\* A node is late by the longest wait, the time the thread takes to run and a
\* tick for each period, and no more: nextTick, which WorkQueueThreadEntry uses
\* after it has unlocked the queue, costs a node submitted in between at most
\* the sleep that was computed without it.
THEOREM LatenessIsBounded ==
  ASSUME AvoidForever = TRUE
  PROVE  Spec => []BoundedLateness
<1>1. QueueInv => BoundedLateness
  <2> SUFFICES ASSUME QueueInv, NEW n \in Node, Listed(n) PROVE s.left[n] >= -MaxLate
    BY DEF BoundedLateness
  <2>1. s.left[n] \in (-MaxLate)..MaxWait
    BY DEF QueueInv, Sound, OnTime, Listed
  <2> QED BY <2>1, Numbers
<1> QED BY <1>1, QueueInvHolds, PTL

\* MDS_WorkQueueCheck calls no callback before its time.
THEOREM NoCallbackIsEarly ==
  ASSUME AvoidForever = TRUE
  PROVE  Spec => NeverEarly
<1>1. QueueInv /\ [Next]_vars
        => [\A n \in Node : Listed(n) /\ s.run # n /\ s'.run = n => s.left[n] <= 0]_vars
  <2> SUFFICES ASSUME QueueInv, Next, NEW n \in Node, Listed(n), s.run # n, s'.run = n
               PROVE  s.left[n] <= 0
    OBVIOUS
  <2>1. Fair(n, s')
    BY StepsAreFair
  <2> QED BY <2>1 DEF Fair, Listed
<1> QED BY <1>1, QueueInvHolds, PTL DEF Spec, NeverEarly

\* A node leaves the list only to be called (MDS_WorkQueueCheck), to be drained
\* (WORKQ_SkipListDrain) or because it was cancelled, and a periodic one is back
\* on it when its callback is over, unless it was cancelled.
THEOREM NoNodeIsLost ==
  ASSUME AvoidForever = TRUE
  PROVE  Spec => NodesKept
<1>1. QueueInv /\ [Next]_vars
        => [\A n \in Node :
              /\ Listed(n) /\ ~Contains(s'.list, n) => n \in {s'.run, s'.drain} \/ ~s'.queued[n]
              /\ s.run = n /\ s'.run # n /\ s.period[n] > 0
                   => Contains(s'.list, n) \/ ~s'.queued[n]]_vars
  <2> SUFFICES ASSUME QueueInv, Next, NEW n \in Node
               PROVE  /\ Listed(n) /\ ~Contains(s'.list, n)
                            => n \in {s'.run, s'.drain} \/ ~s'.queued[n]
                      /\ s.run = n /\ s'.run # n /\ s.period[n] > 0
                            => Contains(s'.list, n) \/ ~s'.queued[n]
    OBVIOUS
  <2>1. Fair(n, s')
    BY StepsAreFair
  <2> QED BY <2>1 DEF Fair, Listed
<1> QED BY <1>1, QueueInvHolds, PTL DEF Spec, NodesKept
=============================================================================
