------------------------- MODULE MsgQueueTheorems -------------------------
(***************************************************************************)
(* The message queue for any number of threads, blocks, priorities and     *)
(* timeouts.  Its invariant has two parts that need nothing of each other: *)
(* where the waiting threads are, which rests on the lemmas about the wait *)
(* queues of the kernel, and where the blocks are.                         *)
(***************************************************************************)
EXTENDS MsgQueue, MdsKernelTheorems, FiniteSetTheorems

\* The wait queues of the message queue.
Queues == {RecvQ, SendQ}

\* Where a thread of wait queue w stands.
Waits(w) == IF w = RecvQ THEN {"recvwait", "recvback"} ELSE {"sendwait", "sendback"}

\* Thread t of the kernel state s, which is at at with timeout d: who is
\* queued or armed is in a wait, and the current thread executes unless it is
\* on its way to the scheduler check of its wait.
Sleeps(s, at, d, t) ==
  /\ \A w \in Queues : On(s, w, t) => at \in Waits(w) /\ (Armed(s, t) <=> d < TimerMax)
  /\ Armed(s, t) => \E w \in Queues : On(s, w, t)
  /\ s.curr = t => \/ s.st[t] = "RUNNING"
                   \/ s.st[t] = "SUSPENDED" /\ at \in {"recvwait", "sendwait"}

\* The waiters are in the order of their priorities.
Sorted(s) == \A w \in Queues : Ascends(s.list[w], s.prio)

\* The inductive invariant of the waiting threads.
WaitInv ==
  /\ Orderly(k) /\ k.nest = 0 /\ Sorted(k)
  /\ isr \in BOOLEAN /\ (isr => k.curr # NoThread)
  /\ pc \in [Thread -> Pc]
  /\ tmo \in [Thread -> Timeouts \cup {0}] /\ waited \in [Thread -> 0..TimerMax]
  /\ \A t \in User : Sleeps(k, pc[t], tmo[t], t)

-----------------------------------------------------------------------------
(* What keeps a waiting thread in its place                                *)

\* The two wait queues are lists of their own: neither levels nor the defunct
\* queue.
LEMMA QueuesAreLists ==
  /\ Queues \subseteq WaitQ /\ Queues \subseteq Lists \ Prio
  /\ \A w \in Queues : w # Defunct
BY KernelAssumption, MsgQueueAssumption DEF Queues, Lists

\* Nothing happened to t.
LEMMA SleepsFrame ==
  ASSUME NEW s, NEW n, NEW at, NEW d, NEW t, Sleeps(s, at, d, t),
         Armed(n, t) <=> Armed(s, t), \A w \in Queues : On(n, w, t) <=> On(s, w, t),
         n.curr = t => n.st[t] = "RUNNING" \/ (s.curr = t /\ n.st[t] = s.st[t])
  PROVE  Sleeps(n, at, d, t)
BY DEF Sleeps

\* Thread t waits for nothing.
LEMMA SleepsNowhere ==
  ASSUME NEW n, NEW at, NEW d, NEW t, ~Armed(n, t), \A w \in Queues : ~On(n, w, t),
         n.curr = t => n.st[t] = "RUNNING"
  PROVE  Sleeps(n, at, d, t)
BY DEF Sleeps

\* The scheduler check moves nobody in or out of a wait; a thread that was
\* before it may be behind it.
LEMMA SleepsRescheduled ==
  ASSUME NEW s, NEW n, Rescheduled(s, n), NEW at, NEW to, NEW d, NEW t, Sleeps(s, at, d, t),
         \A w \in Queues : at \in Waits(w) => to \in Waits(w)
  PROVE  Sleeps(n, to, d, t)
<1>1. /\ \A w \in Queues : On(n, w, t) <=> On(s, w, t)
      /\ Armed(n, t) <=> Armed(s, t)
  BY QueuesAreLists DEF Rescheduled, On, Armed
<1>2. n.curr = t => n.st[t] = "RUNNING"
  BY DEF Rescheduled
<1> QED BY <1>1, <1>2 DEF Sleeps

\* The order of the waiters stays when their queues stay.
LEMMA SortedFrame ==
  ASSUME NEW s, NEW n, Sorted(s), n.prio = s.prio, \A w \in Queues : n.list[w] = s.list[w]
  PROVE  Sorted(n)
BY DEF Sorted

\* It stays when a waiter leaves its queue.
LEMMA SortedUnlinked ==
  ASSUME NEW s, s \in KernelState, NEW n, NEW h, Sorted(s), n.prio = s.prio,
         \A w \in Queues : n.list[w] = Unlink(s.list[w], h)
  PROVE  Sorted(n)
<1>1. s.prio \in [Thread -> Int] /\ \A w \in Queues : s.list[w] \in Seq(Thread)
  BY QueuesAreLists, KernelAssumption DEF KernelState, Level
<1> QED BY <1>1, UnlinkAscends DEF Sorted

\* It stays when a waiter is queued by its priority.
LEMMA SortedQueued ==
  ASSUME NEW s, s \in KernelState, NEW n, NEW q0 \in Queues, NEW t \in Thread, NEW d,
         Sorted(s), Queued(s, n, q0, t, d, TRUE)
  PROVE  Sorted(n)
<1>1. s.prio \in [Thread -> Int] /\ \A w \in Queues : s.list[w] \in Seq(Thread)
  BY QueuesAreLists, KernelAssumption DEF KernelState, Level
<1>2. n.list[q0] = InsertBefore(s.list[q0], t, {u \in Thread : s.prio[t] < s.prio[u]})
  BY DEF Queued, Behind
<1>3. Ascends(n.list[q0], s.prio)
  BY <1>1, <1>2, InsertAscends DEF Sorted
<1>4. n.prio = s.prio /\ \A w \in Queues \ {q0} : n.list[w] = s.list[w]
  BY QueuesAreLists DEF Queued
<1> QED BY <1>3, <1>4 DEF Sorted

-----------------------------------------------------------------------------
(* The calls of a thread                                                   *)

\* Where WaitInv holds, a thread that calls the queue is the current one, and
\* it executes unless it is before the scheduler check of a wait.
LEMMA Caller ==
  ASSUME WaitInv, NEW t \in User, Executes(t)
  PROVE  /\ t = k.curr /\ t \in Thread \ {Idle} /\ ~isr /\ k \in KernelState
         /\ Orderly(k) /\ Sleeps(k, pc[t], tmo[t], t)
         /\ pc[t] \notin {"recvwait", "sendwait"} =>
              k.st[t] = "RUNNING" /\ ~Armed(k, t) /\ \A w \in Queues : ~On(k, w, t)
<1>1. /\ t = k.curr /\ t \in Thread \ {Idle} /\ ~isr /\ k \in KernelState
      /\ Orderly(k) /\ Sleeps(k, pc[t], tmo[t], t) /\ Placed(k, t)
  BY DEF WaitInv, Orderly, Settled, Sound, Executes, User
<1>2. k.st[t] = "RUNNING" => ~Armed(k, t) /\ \A w \in Queues : ~On(k, w, t)
  BY <1>1, QueuesAreLists DEF Placed
<1> QED BY <1>1, <1>2 DEF Sleeps

\* A call of thread t that moves at most thread u, and ends at to.
LEMMA CallKeepsInv ==
  ASSUME WaitInv, NEW t \in User, Executes(t), NEW to \in Pc, NEW u \in Thread,
         Orderly(k'), Sorted(k'), Others(k, k', u), SameProcessor(k, k'),
         u # t => ~Armed(k', u) /\ \A w \in Queues : ~On(k', w, u),
         u # t => pc[t] \notin {"recvwait", "sendwait"},
         Sleeps(k', to, tmo'[t], t),
         pc' = [pc EXCEPT ![t] = to], isr' = isr,
         tmo' \in [Thread -> Timeouts \cup {0}], \A v \in Thread \ {t} : tmo'[v] = tmo[v],
         waited' \in [Thread -> 0..TimerMax]
  PROVE  WaitInv'
<1>1. t = k.curr /\ t \in Thread /\ ~isr /\ pc \in [Thread -> Pc]
  BY Caller DEF WaitInv
<1>2. k'.curr = t /\ k'.nest = 0
  BY <1>1 DEF WaitInv, SameProcessor
<1>3. pc' \in [Thread -> Pc] /\ pc'[t] = to /\ \A v \in Thread \ {t} : pc'[v] = pc[v]
  BY <1>1
<1>4. ASSUME NEW v \in User PROVE Sleeps(k', pc'[v], tmo'[v], v)
  <2>0. v \in Thread
    BY DEF User
  <2>1. CASE v = t
    BY <1>3, <2>1
  <2>2. CASE v # t /\ v = u
    BY <1>2, <2>2, SleepsNowhere
  <2>3. CASE v # t /\ v # u
    <3>1. Sleeps(k, pc'[v], tmo'[v], v)
      BY <1>3, <2>0, <2>3 DEF WaitInv
    <3>2. /\ Armed(k', v) <=> Armed(k, v)
          /\ \A w \in Queues : On(k', w, v) <=> On(k, w, v)
      BY <2>0, <2>3, QueuesAreLists DEF Others
    <3> QED BY <1>2, <2>3, <3>1, <3>2, SleepsFrame
  <2> QED BY <2>1, <2>2, <2>3
<1> QED BY <1>1, <1>2, <1>3, <1>4 DEF WaitInv

\* The end of a wait or of a reservation: the thread goes on to to.
LEMMA GoOnKeepsInv ==
  ASSUME WaitInv, NEW t \in User, Executes(t), pc[t] \notin {"recvwait", "sendwait"},
         NEW to \in Pc, k' = k, isr' = isr, pc' = [pc EXCEPT ![t] = to],
         UNCHANGED <<tmo, waited>> \/ Awake(t, to)
  PROVE  WaitInv'
<1>1. /\ t = k.curr /\ t \in Thread /\ k.st[t] = "RUNNING" /\ Orderly(k) /\ Sorted(k)
      /\ ~Armed(k, t) /\ \A w \in Queues : ~On(k, w, t)
  BY Caller DEF WaitInv
<1>2. Others(k, k', t) /\ SameProcessor(k, k')
  BY DEF Others, SameProcessor
<1>3. Sleeps(k', to, tmo'[t], t)
  BY <1>1, SleepsNowhere
<1>4. /\ tmo' \in [Thread -> Timeouts \cup {0}] /\ \A v \in Thread \ {t} : tmo'[v] = tmo[v]
      /\ waited' \in [Thread -> 0..TimerMax]
  BY <1>1, KernelAssumption DEF WaitInv, Awake
<1> QED BY <1>1, <1>2, <1>3, <1>4, CallKeepsInv

\* MDS_KernelWaitQueueUntil up to its scheduler check.
LEMMA WaitKeepsInv ==
  ASSUME WaitInv, NEW t \in User, Executes(t), pc[t] \notin {"recvwait", "sendwait"},
         NEW w \in Queues, NEW d \in Timeouts \cup {0}, NEW to, Wait(t, w, d, to),
         to = IF w = RecvQ THEN "recvwait" ELSE "sendwait"
  PROVE  WaitInv'
<1>1. /\ t = k.curr /\ t \in Thread \ {Idle} /\ k.st[t] = "RUNNING" /\ Orderly(k) /\ Sorted(k)
      /\ k \in KernelState
  BY Caller DEF WaitInv
<1>2. /\ k' = WaitQueueSuspend(k, w, t, d, TRUE) /\ isr' = isr /\ pc' = [pc EXCEPT ![t] = to]
      /\ tmo' = [tmo EXCEPT ![t] = d] /\ waited' = [waited EXCEPT ![t] = 0]
  BY DEF Wait, Goto
<1>3. d \in Nat /\ w \in WaitQ /\ ThreadSuspendErr(k, t) = "EOK" /\ to \in Pc
  BY <1>1, MsgQueueAssumption, QueuesAreLists DEF ThreadSuspendErr, Pc
<1>4. Orderly(k') /\ Queued(k, k', w, t, d, TRUE)
  BY <1>1, <1>2, <1>3, WaitQueueSuspendOrderly
<1>5. Sorted(k')
  BY <1>1, <1>4, SortedQueued
<1>6. /\ tmo' \in [Thread -> Timeouts \cup {0}] /\ \A v \in Thread \ {t} : tmo'[v] = tmo[v]
      /\ waited' \in [Thread -> 0..TimerMax] /\ tmo'[t] = d
  BY <1>1, <1>2, KernelAssumption DEF WaitInv
<1>7. Sleeps(k', to, d, t)
  <2>1. /\ \A l \in Lists : On(k', l, t) <=> l = w
        /\ Armed(k', t) <=> d < TimerMax
        /\ k'.st[t] = "SUSPENDED"
    BY <1>4 DEF Queued
  <2>2. \A v \in Queues : On(k', v, t) <=> v = w
    BY <2>1, QueuesAreLists
  <2> QED BY <2>1, <2>2 DEF Sleeps, Waits
<1>8. Others(k, k', t) /\ SameProcessor(k, k')
  BY <1>4 DEF Queued
<1> QED BY <1>1, <1>2, <1>3, <1>4, <1>5, <1>6, <1>7, <1>8, CallKeepsInv

\* A call that ends by waking the first waiter of w.
LEMMA ResumeKeepsInv ==
  ASSUME WaitInv, NEW t \in User, Executes(t), pc[t] \notin {"recvwait", "sendwait"},
         NEW w \in Queues, AndResume(t, w)
  PROVE  WaitInv'
<1>1. /\ t = k.curr /\ t \in Thread /\ k.st[t] = "RUNNING" /\ Orderly(k) /\ Sorted(k)
      /\ ~Armed(k, t) /\ \A l \in Queues : ~On(k, l, t)
      /\ k \in KernelState /\ w \in WaitQ
  BY Caller, QueuesAreLists DEF WaitInv
<1>2. PICK to \in {"run", "check"} : pc' = [pc EXCEPT ![t] = to]
  BY DEF AndResume, Goto
<1>3. to \in Pc
  BY DEF Pc
<1>4. /\ k' = WaitQueueResume(k, w) /\ isr' = isr /\ tmo' = tmo /\ waited' = waited
  BY DEF AndResume
<1>5. CASE k.list[w] = <<>>
  <2>1. k' = k
    BY <1>1, <1>4, <1>5, WaitQueueResumeOrderly
  <2> QED BY <1>2, <1>3, <1>4, <2>1, GoOnKeepsInv
<1>6. CASE k.list[w] # <<>>
  <2>1. PICK h \in Thread : Woken(k, k', w, h)
    BY <1>1, <1>4, <1>6, WaitQueueResumeOrderly
  <2>2. Orderly(k') /\ SameProcessor(k, k') /\ k'.prio = k.prio
    BY <1>1, <1>4, WaitQueueResumeOrderly
  <2>3. /\ h # t /\ Others(k, k', h) /\ ~Armed(k', h)
        /\ \A l \in Queues : ~On(k', l, h) /\ k'.list[l] = Unlink(k.list[l], h)
    BY <1>1, <2>1, QueuesAreLists DEF Woken
  <2>4. Sorted(k')
    BY <1>1, <2>2, <2>3, SortedUnlinked
  <2>5. Sleeps(k', to, tmo'[t], t)
    <3>1. ~Armed(k', t) /\ k'.st[t] = "RUNNING" /\ \A l \in Queues : ~On(k', l, t)
      BY <1>1, <2>3, QueuesAreLists DEF Others
    <3> QED BY <3>1, SleepsNowhere
  <2>6. tmo' \in [Thread -> Timeouts \cup {0}] /\ waited' \in [Thread -> 0..TimerMax]
    BY <1>4 DEF WaitInv
  <2> QED BY <1>2, <1>3, <1>4, <2>2, <2>3, <2>4, <2>5, <2>6, CallKeepsInv
<1> QED BY <1>5, <1>6

-----------------------------------------------------------------------------
(* The processor                                                           *)

\* The invariant after a scheduler check from s, where only thread t moves
\* on in its code.
LEMMA ReschedulingKeepsInv ==
  ASSUME WaitInv, NEW s, Rescheduled(s, k'), s.nest = 0, Sorted(s), Orderly(k'),
         \A v \in User : Sleeps(s, pc[v], tmo[v], v),
         pc' \in [Thread -> Pc],
         \A v \in User : \A w \in Queues : pc[v] \in Waits(w) => pc'[v] \in Waits(w),
         isr' \in BOOLEAN, tmo' = tmo, waited' \in [Thread -> 0..TimerMax]
  PROVE  WaitInv'
<1>1. k'.nest = 0 /\ k'.curr # NoThread
  BY KernelAssumption DEF Rescheduled
<1>2. Sorted(k')
  BY QueuesAreLists, SortedFrame DEF Rescheduled
<1>3. \A v \in User : Sleeps(k', pc'[v], tmo'[v], v)
  BY SleepsRescheduled
<1> QED BY <1>1, <1>2, <1>3 DEF WaitInv

\* The scheduler check of a wait, or of a call that woke somebody.
LEMMA CheckKeepsInv ==
  ASSUME WaitInv, NEW t \in User, Check(t)
  PROVE  WaitInv'
<1>1. /\ Executes(t) /\ k' = SchedulerCheck(k) /\ isr' = isr /\ tmo' = tmo /\ waited' = waited
      /\ pc[t] \in {"recvwait", "sendwait", "check"}
      /\ pc' = [pc EXCEPT ![t] = CASE pc[t] = "recvwait" -> "recvback"
                                   [] pc[t] = "sendwait" -> "sendback"
                                   [] pc[t] = "check" -> "run"]
  BY DEF Check, At, Goto, local
<1>2. t = k.curr /\ t \in Thread /\ Orderly(k) /\ Sound(k) /\ Settled(k) /\ k.nest = 0
  BY <1>1, Caller DEF WaitInv, Orderly
<1>3. Orderly(k') /\ Rescheduled(k, k')
  BY <1>1, <1>2, SchedulerCheckOrderly
<1>4. pc' \in [Thread -> Pc]
  BY <1>1, <1>2 DEF WaitInv, Pc
<1>5. ASSUME NEW v \in User, NEW w \in Queues, pc[v] \in Waits(w)
      PROVE  pc'[v] \in Waits(w)
  <2>1. v \in Thread /\ pc \in [Thread -> Pc]
    BY DEF User, WaitInv
  <2> QED BY <1>1, <1>2, <1>5, <2>1 DEF Waits
<1> QED BY <1>1, <1>2, <1>3, <1>4, <1>5, ReschedulingKeepsInv DEF WaitInv

\* The tick interrupt up to its timers: the time of every wait goes on.
LEMMA TickKeepsInv ==
  ASSUME WaitInv, Tick
  PROVE  WaitInv'
<1>1. /\ k' = ClockTick(k) /\ isr' = TRUE /\ pc' = pc /\ tmo' = tmo
      /\ Orderly(k) /\ k.nest = 0 /\ pc' \in [Thread -> Pc] /\ isr' \in BOOLEAN
  BY DEF Tick, TickInterrupt, WaitInv
<1>2. k.curr \in Thread
  BY DEF Tick, TickInterrupt, WaitInv, Orderly, Sound, KernelState
<1>3. /\ Orderly(k') /\ k'.nest = k.nest
      /\ SameThreads(k, k') \/ Rescheduled(k, k')
  BY <1>1, <1>2, ClockTickOrderly
<1>4. waited' \in [Thread -> 0..TimerMax]
  BY KernelAssumption DEF Tick, WaitInv
<1>5. CASE SameThreads(k, k')
  <2>1. Sorted(k') /\ k'.curr # NoThread
    BY <1>2, <1>5, SortedFrame, KernelAssumption DEF SameThreads, WaitInv
  <2>2. ASSUME NEW v \in User PROVE Sleeps(k', pc'[v], tmo'[v], v)
    <3>1. /\ Armed(k', v) <=> Armed(k, v)
          /\ \A w \in Queues : On(k', w, v) <=> On(k, w, v)
          /\ k'.curr = k.curr /\ k'.st = k.st
      BY <1>5 DEF SameThreads, Armed, On
    <3> QED BY <1>1, <3>1, SleepsFrame DEF WaitInv
  <2> QED BY <1>1, <1>3, <1>4, <2>1, <2>2 DEF WaitInv
<1>6. CASE Rescheduled(k, k')
  BY <1>1, <1>3, <1>4, <1>6, ReschedulingKeepsInv DEF WaitInv
<1> QED BY <1>3, <1>5, <1>6

\* The timer of thread u expired: u leaves its wait queue.
LEMMA TimedOutLeavesQueue ==
  ASSUME WaitInv, NEW b, NEW u \in Thread, TimedOut(k, b, u)
  PROVE  /\ Sorted(b) /\ b.nest = 0
         /\ \A v \in User : Sleeps(b, pc[v], tmo[v], v)
<1>1. /\ k.st[u] = "SUSPENDED" /\ Others(k, b, u) /\ SameProcessor(k, b) /\ Unlinked(k, b, u)
      /\ b.st = k.st /\ b.prio = k.prio /\ ~Armed(b, u) /\ Armed(k, u)
      /\ \A l \in Lists : On(b, l, u) <=> l = k.prio[u]
  BY DEF TimedOut
<1>2. u # Idle /\ k.prio[u] \in Prio /\ k \in KernelState
  BY <1>1 DEF WaitInv, Orderly, Sound, Settled, Ranked
<1>3. \A w \in Queues : ~On(b, w, u) /\ b.list[w] = Unlink(k.list[w], u)
  BY <1>1, <1>2, QueuesAreLists DEF Unlinked
<1>4. Sorted(b)
  BY <1>1, <1>2, <1>3, SortedUnlinked DEF WaitInv
<1>5. ASSUME NEW v \in User PROVE Sleeps(b, pc[v], tmo[v], v)
  <2>1. v \in Thread /\ Sleeps(k, pc[v], tmo[v], v)
    BY DEF WaitInv, User
  <2>2. CASE v = u
    BY <1>1, <1>3, <2>1, <2>2 DEF Sleeps, SameProcessor
  <2>3. CASE v # u
    <3>1. /\ Armed(b, v) <=> Armed(k, v)
          /\ \A w \in Queues : On(b, w, v) <=> On(k, w, v)
          /\ b.curr = k.curr
      BY <1>1, <2>1, <2>3, QueuesAreLists DEF Others, SameProcessor
    <3> QED BY <1>1, <2>1, <3>1, SleepsFrame
  <2> QED BY <2>2, <2>3
<1> QED BY <1>1, <1>4, <1>5 DEF WaitInv, SameProcessor

\* The timer of a waiter expires: it leaves its wait queue.
LEMMA ExpireKeepsInv ==
  ASSUME WaitInv, TimerInterrupt, UNCHANGED <<pc, tmo, waited>>
  PROVE  WaitInv'
<1>1. /\ k' = TimerExpire(k) /\ isr' = isr /\ TimerDue(k) /\ Orderly(k) /\ k.nest = 0
      /\ k.curr \in Thread
  BY DEF TimerInterrupt, WaitInv, Orderly, Sound, KernelState
<1>2. PICK b : \E u \in Thread : TimedOut(k, b, u) /\ Rescheduled(b, k')
  BY <1>1, TimerExpireOrderly
<1>3. PICK u \in Thread : TimedOut(k, b, u) /\ Rescheduled(b, k')
  BY <1>2
<1>4. Orderly(k')
  BY <1>1, TimerExpireOrderly
<1>5. Sorted(b) /\ b.nest = 0 /\ \A v \in User : Sleeps(b, pc[v], tmo[v], v)
  BY <1>3, TimedOutLeavesQueue
<1> QED BY <1>1, <1>3, <1>4, <1>5, ReschedulingKeepsInv DEF WaitInv

\* Before the scheduler runs, threads are started and nobody waits.
LEMMA BootKeepsInv ==
  ASSUME WaitInv, Boot
  PROVE  WaitInv'
<1>1. /\ k.curr = NoThread /\ isr' = isr /\ pc' = pc /\ tmo' = tmo /\ waited' = waited
      /\ Orderly(k) /\ Sound(k) /\ Distinct(k.tq) /\ k.nest = 0 /\ ~isr /\ Sorted(k)
      /\ k \in KernelState
  BY DEF Boot, StartBeforeBoot, StartScheduler, local, WaitInv, Orderly, Settled, Sound
<1>2. ASSUME NEW t \in User, StartBeforeBoot(t)
      PROVE  WaitInv'
  <2>1. t \in Thread /\ k.st[t] = "INACTIVED" /\ k' = MakeReady(k, t)
    BY <1>2 DEF StartBeforeBoot, ThreadStartup, User
  <2>2. Orderly(k')
    BY <1>1, <2>1, MakeReadyOrderly
  <2>3. /\ Others(k, k', t) /\ SameProcessor(k, k') /\ Unlinked(k, k', t) /\ ~Armed(k', t)
        /\ k'.prio = k.prio
        /\ \A l \in Lists : On(k', l, t) <=> l = k.prio[t] /\ l \in Prio
    BY <1>1, <2>1, MakeReadyMoves
  <2>4. \A w \in Queues : ~On(k', w, t) /\ k'.list[w] = Unlink(k.list[w], t)
    BY <2>3, QueuesAreLists DEF Unlinked
  <2>5. Sorted(k')
    BY <1>1, <2>3, <2>4, SortedUnlinked
  <2>6. ASSUME NEW v \in User PROVE Sleeps(k', pc'[v], tmo'[v], v)
    <3>1. v \in Thread /\ Sleeps(k, pc'[v], tmo'[v], v) /\ k'.curr # v
      BY <1>1, <2>3, KernelAssumption DEF WaitInv, User, SameProcessor
    <3>2. CASE v = t
      BY <2>3, <2>4, <3>1, <3>2, SleepsNowhere
    <3>3. CASE v # t
      <4>1. /\ Armed(k', v) <=> Armed(k, v)
            /\ \A w \in Queues : On(k', w, v) <=> On(k, w, v)
        BY <2>3, <3>1, <3>3, QueuesAreLists DEF Others
      <4> QED BY <3>1, <4>1, SleepsFrame
    <3> QED BY <3>2, <3>3
  <2> QED BY <1>1, <2>2, <2>3, <2>5, <2>6 DEF WaitInv, SameProcessor
<1>3. CASE StartScheduler
  <2>1. k' = KernelStartup(k)
    BY <1>3 DEF StartScheduler
  <2>2. /\ Orderly(k') /\ k'.st[k'.curr] = "RUNNING"
        /\ k'.list = k.list /\ k'.prio = k.prio /\ k'.tq = k.tq /\ k'.nest = k.nest
    BY <1>1, <2>1, KernelStartupOrderly
  <2>3. Sorted(k')
    BY <1>1, <2>2, SortedFrame
  <2>4. ASSUME NEW v \in User PROVE Sleeps(k', pc'[v], tmo'[v], v)
    <3>1. /\ Armed(k', v) <=> Armed(k, v)
          /\ \A w \in Queues : On(k', w, v) <=> On(k, w, v)
      BY <2>2 DEF Armed, On
    <3> QED BY <1>1, <2>2, <3>1, SleepsFrame DEF WaitInv
  <2> QED BY <1>1, <2>2, <2>3, <2>4 DEF WaitInv
<1> QED BY <1>2, <1>3 DEF Boot

\* Before the first thread is started nobody waits.
LEMMA WaitInvInit == Init => WaitInv
<1> SUFFICES ASSUME Init PROVE WaitInv
  OBVIOUS
<1>1. PICK p \in [User -> Prio] :
        k = KernelInit([t \in Thread |-> IF t = Idle THEN PrioMax ELSE p[t]])
  BY DEF Init, ProcessorInit
<1> DEFINE ip == [t \in Thread |-> IF t = Idle THEN PrioMax ELSE p[t]]
<1>2. /\ ip \in [Thread -> Level] /\ ip[Idle] = PrioMax
      /\ \A t \in Thread \ {Idle} : ip[t] \in Prio
  BY KernelAssumption DEF User, Prio, Level
<1> HIDE DEF ip
<1>3. k = KernelInit(ip)
  BY <1>1 DEF ip
<1>4. /\ Orderly(k) /\ k.nest = 0 /\ k.curr = NoThread
      /\ \A l \in Lists : k.list[l] = <<>> /\ \A t : ~On(k, l, t)
      /\ \A t \in Thread : ~Armed(k, t)
  BY <1>2, <1>3, KernelInitOrderly
<1>5. Sorted(k)
  BY <1>4, QueuesAreLists DEF Sorted, Ascends
<1>6. /\ pc = [t \in Thread |-> "run"] /\ isr = FALSE
      /\ tmo = [t \in Thread |-> 0] /\ waited = [t \in Thread |-> 0]
  BY DEF Init, ProcessorInit
<1>7. \A t \in User : Sleeps(k, pc[t], tmo[t], t)
  BY <1>4, QueuesAreLists, KernelAssumption DEF Sleeps, User
<1>8. pc \in [Thread -> Pc] /\ isr \in BOOLEAN
  BY <1>6 DEF Pc
<1>9. tmo \in [Thread -> Timeouts \cup {0}] /\ waited \in [Thread -> 0..TimerMax]
  BY <1>6, KernelAssumption
<1> QED BY <1>4, <1>5, <1>6, <1>7, <1>8, <1>9 DEF WaitInv

\* Every step keeps the waiting threads in order: one case for each action.
LEMMA WaitInvNext ==
  ASSUME WaitInv, [Next]_vars
  PROVE  WaitInv'
<1> USE DEF Queues
<1>1. ASSUME NEW t \in User, Recv(t) \/ RecvBack(t) \/ Send(t) \/ SendBack(t)
      PROVE  WaitInv'
  <2>1. Executes(t) /\ pc[t] \notin {"recvwait", "sendwait"} /\ t \in Thread
    BY <1>1 DEF Recv, RecvBack, Send, SendBack, At, User
  <2>2. tmo[t] \in Timeouts \cup {0}
    BY <2>1 DEF WaitInv
  <2>3. CASE \E to \in {"run", "copy"} : k' = k /\ isr' = isr /\ Awake(t, to)
    <3>1. PICK to \in {"run", "copy"} : k' = k /\ isr' = isr /\ Awake(t, to)
      BY <2>3
    <3>2. to \in Pc
      BY DEF Pc
    <3> QED BY <2>1, <3>1, <3>2, GoOnKeepsInv DEF Awake, Goto
  <2>4. CASE \E d \in Timeouts \cup {0} : Wait(t, RecvQ, d, "recvwait")
    BY <2>1, <2>4, WaitKeepsInv
  <2>5. CASE \E d \in Timeouts \cup {0} : Wait(t, SendQ, d, "sendwait")
    BY <2>1, <2>5, WaitKeepsInv, MsgQueueAssumption
  <2> QED
    BY <1>1, <2>2, <2>3, <2>4, <2>5
       DEF Recv, RecvBack, Send, SendBack, Receive, Reserve, GiveUp
<1>2. ASSUME NEW t \in User, RecvRelease(t) PROVE WaitInv'
  BY <1>2, ResumeKeepsInv DEF RecvRelease, At
<1>3. ASSUME NEW t \in User, NEW m \in Msg, Deliver(t, m) PROVE WaitInv'
  BY <1>3, ResumeKeepsInv DEF Deliver, At
<1>4. ASSUME NEW t \in User, UrgentReserve(t) PROVE WaitInv'
  <2>1. "ucopy" \in Pc
    BY DEF Pc
  <2> QED BY <1>4, <2>1, GoOnKeepsInv DEF UrgentReserve, At, Goto
<1>5. ASSUME NEW t \in User, Step(t) PROVE WaitInv'
  BY <1>1, <1>2, <1>3, <1>4, <1>5, CheckKeepsInv DEF Step
<1>6. CASE Interrupted
  <2>1. CASE TimerInterrupt
    BY <1>6, <2>1, ExpireKeepsInv DEF Interrupted, local
  <2>2. CASE InterruptReturn
    BY <1>6, <2>2 DEF Interrupted, InterruptReturn, local, WaitInv
  <2> QED BY <1>6, <2>1, <2>2 DEF Interrupted
<1>7. CASE UNCHANGED vars
  BY <1>7 DEF vars, WaitInv
<1> QED BY <1>5, <1>6, <1>7, BootKeepsInv, TickKeepsInv DEF Next

\* The waiting threads are in order throughout.
LEMMA WaitAlwaysInOrder == Spec => []WaitInv
<1>1. WaitInv /\ [Next]_vars => WaitInv'
  BY WaitInvNext
<1> QED BY <1>1, WaitInvInit, PTL DEF Spec

\* Whoever is woken first is the one of the highest priority, however many
\* threads wait, time out and are woken (MDS_KernelWaitQueueSuspend inserts
\* by priority, everything else only takes waiters out).
THEOREM WokenByPriority == Spec => []WaitersByPriority
<1>1. WaitInv => WaitersByPriority
  BY DEF WaitInv, Sorted, Ascends, Queues, WaitersByPriority
<1> QED BY <1>1, WaitAlwaysInOrder, PTL

\* A thread in a wait queue of the message queue sleeps in its wait, with its
\* timer armed when the wait is limited, and a thread with an armed timer is
\* in a wait queue: no wait ends with the thread left queued or armed.
THEOREM WaitersAlwaysSleep == Spec => []WaitersSleep
<1>1. ASSUME WaitInv PROVE WaitersSleep
  <2> SUFFICES ASSUME NEW t \in User
               PROVE  /\ \A w \in {RecvQ, SendQ} :
                           On(k, w, t) =>
                             /\ k.st[t] = "SUSPENDED" /\ ~OnReadyLevel(k, t)
                             /\ pc[t] \in IF w = RecvQ THEN {"recvwait", "recvback"}
                                          ELSE {"sendwait", "sendback"}
                             /\ Armed(k, t) <=> tmo[t] < TimerMax
                      /\ Armed(k, t) => On(k, RecvQ, t) \/ On(k, SendQ, t)
    BY DEF WaitersSleep
  <2>1. /\ t \in Thread /\ Placed(k, t) /\ OneHome(k)
        /\ Sleeps(k, pc[t], tmo[t], t)
    BY <1>1 DEF WaitInv, Orderly, Sound, Settled, User
  <2>2. ASSUME NEW w \in Queues, On(k, w, t)
        PROVE  k.st[t] = "SUSPENDED" /\ ~OnReadyLevel(k, t)
    <3>1. w \in WaitQ /\ w \in Lists /\ w \notin Prio /\ Prio \subseteq Lists
      BY QueuesAreLists DEF Lists
    <3>2. ~OnReadyLevel(k, t)
      BY <2>1, <2>2, <3>1 DEF OnReadyLevel, OneHome
    <3> QED BY <2>1, <2>2, <3>1, <3>2 DEF Placed
  <2> QED BY <2>1, <2>2 DEF Sleeps, Waits, Queues
<1> QED BY <1>1, WaitAlwaysInOrder, PTL
-----------------------------------------------------------------------------
(* Linked blocks                                                           *)

\* The blocks of s are linked by next, in this order, from b on up to NULL.
Linked(p, b, s) ==
  /\ s \in Seq(Block) /\ Distinct(s)
  /\ b = IF s = <<>> THEN Null ELSE s[1]
  /\ \A i \in 1..Len(s) : p.next[s[i]] = IF i = Len(s) THEN Null ELSE s[i + 1]

\* A sequence without repetition is no longer than its elements are many.
LEMMA DistinctIsShort ==
  ASSUME NEW S, IsFiniteSet(S), NEW s \in Seq(S), Distinct(s)
  PROVE  Len(s) \in Nat /\ Len(s) <= Cardinality(S)
<1>1. Len(s) \in Nat /\ s \in [1..Len(s) -> S]
  OBVIOUS
<1>2. s \in Injection(1..Len(s), S)
  BY <1>1 DEF Distinct, Injection, IsInjective
<1>3. Cardinality(1..Len(s)) <= Cardinality(S)
  BY <1>2, FS_Injection
<1> QED BY <1>1, <1>3, FS_Interval, SMTT(20)

\* Chain follows the links of a list.
LEMMA ChainOfLinked ==
  ASSUME NEW p, NEW b, NEW s, Linked(p, b, s)
  PROVE  Chain(p, b) = s
<1> DEFINE N == Cardinality(Block)
           Walk(f) == f = [i \in 0..N |-> IF i = 0 THEN b
                                          ELSE IF f[i - 1] = Null THEN Null ELSE p.next[f[i - 1]]]
           at == CHOOSE f : Walk(f)
           L == {j \in 0..N : at[j] # Null}
           g == [i \in 0..N |-> IF i < Len(s) THEN s[i + 1] ELSE Null]
<1>1. Chain(p, b) = [i \in 1..Cardinality(L) |-> at[i - 1]]
  BY DEF Chain
<1>2. N \in Nat /\ Len(s) \in Nat /\ Len(s) <= N /\ s = [i \in 1..Len(s) |-> s[i]]
  BY DistinctIsShort, FS_CardinalityType, MsgQueueAssumption DEF Linked
<1>3. \A i \in 1..Len(s) : s[i] \in Block /\ s[i] # Null
  BY MsgQueueAssumption DEF Linked
<1> HIDE DEF N
<1>4. Walk(g)
  <2>1. \A i \in 0..N : g[i] = IF i = 0 THEN b
                               ELSE IF g[i - 1] = Null THEN Null ELSE p.next[g[i - 1]]
    <3> TAKE i \in 0..N
    <3>1. g[i] = IF i < Len(s) THEN s[i + 1] ELSE Null
      OBVIOUS
    <3>2. CASE i = 0
      BY <1>2, <3>1, <3>2 DEF Linked
    <3>3. CASE i # 0
      <4>1. i - 1 \in 0..N /\ g[i - 1] = IF i - 1 < Len(s) THEN s[i] ELSE Null
        BY <1>2, <3>3
      <4> QED BY <1>2, <1>3, <3>1, <3>3, <4>1 DEF Linked
    <3> QED BY <3>2, <3>3
  <2> QED BY <2>1
<1>5. Walk(at)
  BY <1>4
<1> HIDE DEF at
<1>6. ASSUME NEW i \in 0..N, at[i] # g[i]
      PROVE  FALSE
  <2> DEFINE D == {j \in 0..N : at[j] # g[j]}
  <2>1. D \in SUBSET Nat /\ D # {}
    BY <1>2, <1>6
  <2>2. PICK m \in D : \A n \in D : m <= n
    BY <2>1, LeastNatural
  <2>3. m \in 0..N /\ at[m] # g[m]
    BY <2>2
  <2>4. /\ at[m] = IF m = 0 THEN b ELSE IF at[m - 1] = Null THEN Null ELSE p.next[at[m - 1]]
        /\ g[m] = IF m = 0 THEN b ELSE IF g[m - 1] = Null THEN Null ELSE p.next[g[m - 1]]
    BY <1>4, <1>5, <2>3
  <2>5. CASE m # 0
    <3>1. m - 1 \in 0..N /\ ~(m <= m - 1)
      BY <1>2, <2>3, <2>5
    <3>2. at[m - 1] = g[m - 1]
      BY <2>2, <3>1
    <3> QED BY <2>3, <2>4, <3>2
  <2> QED BY <2>3, <2>4, <2>5
<1>7. L = 0..(Len(s) - 1)
  <2>1. \A i \in 0..N : at[i] = IF i < Len(s) THEN s[i + 1] ELSE Null
    BY <1>6
  <2>2. \A i \in 0..N : i < Len(s) => s[i + 1] # Null
    BY <1>2, <1>3
  <2>3. \A i \in 0..N : at[i] # Null <=> i < Len(s)
    BY <2>1, <2>2
  <2>4. \A i : i \in L <=> i \in 0..N /\ i < Len(s)
    BY <2>3
  <2> HIDE DEF L
  <2>5. \A i : i \in L <=> i \in 0..(Len(s) - 1)
    BY <1>2, <2>4
  <2> QED BY <2>5
<1>8. Cardinality(L) = Len(s)
  <2> HIDE DEF L
  <2>1. PICK z \in Int : z = Len(s) - 1
    BY <1>2
  <2>2. Cardinality(0..z) = IF 0 > z THEN 0 ELSE z - 0 + 1
    BY FS_Interval
  <2> QED BY <1>2, <1>7, <2>1, <2>2
<1>9. ASSUME NEW i \in 1..Len(s) PROVE at[i - 1] = s[i]
  <2>1. i - 1 \in 0..N /\ i - 1 < Len(s) /\ (i - 1) + 1 = i
    BY <1>2
  <2>2. at[i - 1] = g[i - 1]
    BY <1>6, <2>1
  <2> QED BY <2>1, <2>2
<1> HIDE DEF L
<1>10. Chain(p, b) = [i \in 1..Len(s) |-> s[i]]
  BY <1>1, <1>8, <1>9
<1> QED BY <1>2, <1>10

\* The pointers and the contents of the blocks.
QueueState ==
  [lfree : Pointer, lhead : Pointer, ltail : Pointer,
   next : [Block -> Pointer], content : [Block -> Msg]]

\* A list whose blocks keep their links keeps its order.
LEMMA LinkedFrame ==
  ASSUME NEW p, NEW b, NEW s, Linked(p, b, s),
         NEW n, \A c : Contains(s, c) => n.next[c] = p.next[c]
  PROVE  Linked(n, b, s)
<1>1. \A i \in 1..Len(s) : Contains(s, s[i])
  BY DEF Linked, Contains
<1> QED BY <1>1 DEF Linked

\* A list that begins with a block; NULL begins the empty list only.
LEMMA LinkedBegins ==
  ASSUME NEW p, NEW b, NEW s, Linked(p, b, s)
  PROVE  /\ b = Null <=> s = <<>>
         /\ s # <<>> => b \in Block /\ b = Head(s) /\ Contains(s, b)
<1>1. s \in Seq(Block) /\ Null \notin Block
  BY MsgQueueAssumption DEF Linked
<1>2. CASE s # <<>>
  <2>1. 1 \in 1..Len(s) /\ s[1] \in Block /\ b = s[1] /\ Head(s) = s[1]
    BY <1>1, <1>2, EmptyList, HeadTailProperties DEF Linked
  <2> QED BY <1>1, <1>2, <2>1 DEF Contains
<1> QED BY <1>1, <1>2 DEF Linked

\* The first block is taken.
LEMMA LinkedTail ==
  ASSUME NEW p, NEW b, NEW s, Linked(p, b, s), s # <<>>
  PROVE  /\ Linked(p, p.next[b], Tail(s))
         /\ \A c : Contains(Tail(s), c) <=> Contains(s, c) /\ c # b
<1>1. s \in Seq(Block) /\ Distinct(s) /\ b = Head(s)
  BY LinkedBegins DEF Linked
<1>2. PICK r : r = Tail(s)
  OBVIOUS
<1>3. /\ r \in Seq(Block) /\ Distinct(r)
      /\ \A c : Contains(r, c) <=> Contains(s, c) /\ c # b
  BY <1>1, <1>2, TailProperties
<1>4. /\ Len(s) \in Nat \ {0} /\ Len(r) = Len(s) - 1 /\ b = s[1]
      /\ \A i \in 1..Len(r) : r[i] = s[i + 1]
      /\ r = <<>> <=> Len(r) = 0
  <2>1. Len(s) \in Nat \ {0} /\ b = s[1]
    BY <1>1, EmptySeq
  <2>2. Len(r) = Len(s) - 1 /\ \A i \in 1..Len(r) : r[i] = s[i + 1]
    BY <1>1, <1>2, HeadTailProperties
  <2>3. r = <<>> <=> Len(r) = 0
    BY <1>3, EmptySeq
  <2> QED BY <2>1, <2>2, <2>3
<1>5. \A i \in 1..Len(s) : p.next[s[i]] = IF i = Len(s) THEN Null ELSE s[i + 1]
  BY DEF Linked
<1>6. p.next[b] = IF r = <<>> THEN Null ELSE r[1]
  BY <1>4, <1>5
<1>7. ASSUME NEW i \in 1..Len(r)
      PROVE  p.next[r[i]] = IF i = Len(r) THEN Null ELSE r[i + 1]
  <2>1. i + 1 \in 1..Len(s) /\ r[i] = s[i + 1] /\ (i + 1 = Len(s) <=> i = Len(r))
    BY <1>4
  <2>2. i # Len(r) => r[i + 1] = s[(i + 1) + 1]
    BY <1>4
  <2> QED BY <1>5, <2>1, <2>2
<1> QED BY <1>2, <1>3, <1>6, <1>7 DEF Linked

\* A block is linked in front.
LEMMA LinkedPush ==
  ASSUME NEW p, NEW b, NEW s, Linked(p, b, s), NEW c \in Block, ~Contains(s, c),
         p.next[c] = b
  PROVE  /\ Linked(p, c, <<c>> \o s)
         /\ \A x : Contains(<<c>> \o s, x) <=> Contains(s, x) \/ x = c
<1>1. s \in Seq(Block) /\ Distinct(s) /\ Len(s) \in Nat
  BY DEF Linked
<1> DEFINE r == <<c>> \o s
<1>2. /\ r \in Seq(Block) /\ Distinct(r) /\ r # <<>>
      /\ \A x : Contains(r, x) <=> Contains(s, x) \/ x = c
  BY <1>1, PushProperties DEF PushHead
<1>3. Len(r) = Len(s) + 1 /\ r[1] = c /\ \A i \in 1..Len(s) : r[i + 1] = s[i]
  BY <1>1
<1>4. \A i \in 1..Len(s) : p.next[s[i]] = IF i = Len(s) THEN Null ELSE s[i + 1]
  BY DEF Linked
<1> HIDE DEF r
<1>5. ASSUME NEW i \in 1..Len(r)
      PROVE  p.next[r[i]] = IF i = Len(r) THEN Null ELSE r[i + 1]
  <2>1. CASE i = 1
    <3>1. b = IF s = <<>> THEN Null ELSE s[1]
      BY DEF Linked
    <3>2. s = <<>> <=> Len(s) = 0
      BY <1>1
    <3>3. Len(s) # 0 => r[2] = s[1]
      BY <1>1, <1>3
    <3> QED BY <1>1, <1>3, <2>1, <3>1, <3>2, <3>3
  <2>2. CASE i # 1
    <3>1. i - 1 \in 1..Len(s) /\ (i - 1) + 1 = i
      BY <1>1, <1>3, <2>2
    <3>2. r[i] = s[i - 1] /\ (i = Len(r) <=> i - 1 = Len(s))
      BY <1>1, <1>3, <3>1
    <3>3. i # Len(r) => i \in 1..Len(s) /\ r[i + 1] = s[i]
      BY <1>1, <1>3
    <3> QED BY <1>4, <3>1, <3>2, <3>3
  <2> QED BY <2>1, <2>2
<1>6. Linked(p, c, r)
  BY <1>2, <1>3, <1>5 DEF Linked
<1> QED BY <1>2, <1>6 DEF r

\* A block is linked behind the last one.
LEMMA LinkedAppend ==
  ASSUME NEW p, NEW b, NEW s, Linked(p, b, s), NEW c \in Block, ~Contains(s, c),
         NEW n, n.next[c] = Null,
         s # <<>> => n.next[s[Len(s)]] = c,
         \A i \in 1..(Len(s) - 1) : n.next[s[i]] = p.next[s[i]]
  PROVE  /\ Linked(n, IF s = <<>> THEN c ELSE b, Append(s, c))
         /\ \A x : Contains(Append(s, c), x) <=> Contains(s, x) \/ x = c
<1>1. s \in Seq(Block) /\ Distinct(s) /\ Len(s) \in Nat /\ (s = <<>> <=> Len(s) = 0)
  BY DEF Linked
<1> DEFINE r == Append(s, c)
<1>2. /\ r \in Seq(Block) /\ Distinct(r) /\ r # <<>>
      /\ \A x : Contains(r, x) <=> Contains(s, x) \/ x = c
  BY <1>1, PushProperties DEF PushTail
<1>3. Len(r) = Len(s) + 1 /\ r[Len(s) + 1] = c /\ \A i \in 1..Len(s) : r[i] = s[i]
  BY <1>1
<1>4. \A i \in 1..Len(s) : p.next[s[i]] = IF i = Len(s) THEN Null ELSE s[i + 1]
  BY DEF Linked
<1>5. s # <<>> => b = s[1]
  BY DEF Linked
<1> HIDE DEF r
<1>6. r[1] = IF s = <<>> THEN c ELSE b
  BY <1>1, <1>3, <1>5
<1>7. ASSUME NEW i \in 1..Len(r)
      PROVE  n.next[r[i]] = IF i = Len(r) THEN Null ELSE r[i + 1]
  <2>1. CASE i = Len(r)
    BY <1>3, <2>1
  <2>2. CASE i = Len(s) /\ i # Len(r)
    BY <1>1, <1>3, <2>2
  <2>3. CASE i # Len(s) /\ i # Len(r)
    <3>1. i \in 1..(Len(s) - 1) /\ i \in 1..Len(s) /\ i + 1 \in 1..Len(s)
      BY <1>1, <1>3, <2>3
    <3> QED BY <1>3, <1>4, <2>3, <3>1
  <2> QED BY <2>1, <2>2, <2>3
<1>8. Linked(n, IF s = <<>> THEN c ELSE b, r)
  BY <1>2, <1>6, <1>7 DEF Linked
<1> QED BY <1>2, <1>8 DEF r
-----------------------------------------------------------------------------
(* The lists of the queue                                                  *)

\* The free blocks and the queued messages, by following the links.
FreeList(p) == Chain(p, p.lfree)
Messages(p) == Chain(p, p.lhead)

\* The pointers of p lay out two lists that share no block.
LaidOut(p) ==
  /\ p \in QueueState
  /\ Linked(p, p.lfree, FreeList(p)) /\ Linked(p, p.lhead, Messages(p))
  /\ p.ltail = IF Messages(p) = <<>> THEN Null ELSE Messages(p)[Len(Messages(p))]
  /\ \A b : ~(Contains(FreeList(p), b) /\ Contains(Messages(p), b))

\* To show that n is laid out, say what its lists are.
LEMMA LayOut ==
  ASSUME NEW n \in QueueState, NEW f, NEW m, Linked(n, n.lfree, f), Linked(n, n.lhead, m),
         n.ltail = IF m = <<>> THEN Null ELSE m[Len(m)],
         \A b : ~(Contains(f, b) /\ Contains(m, b))
  PROVE  LaidOut(n) /\ FreeList(n) = f /\ Messages(n) = m
<1>1. FreeList(n) = f /\ Messages(n) = m
  BY ChainOfLinked DEF FreeList, Messages
<1> QED BY <1>1 DEF LaidOut

\* The first free block is taken; its own link may be cleared.
LEMMA TakeFreeLays ==
  ASSUME NEW p, LaidOut(p), p.lfree # Null, NEW n,
         n \in {TakeFree(p), [TakeFree(p) EXCEPT !.next[p.lfree] = Null]}
  PROVE  /\ LaidOut(n) /\ p.lfree \in Block
         /\ FreeList(p) # <<>> /\ FreeList(n) = Tail(FreeList(p))
         /\ Messages(n) = Messages(p) /\ n.content = p.content
         /\ Contains(FreeList(p), p.lfree)
         /\ \A b : Contains(FreeList(n), b) <=> Contains(FreeList(p), b) /\ b # p.lfree
         /\ \A b \in Block : b # p.lfree => n.next[b] = p.next[b]
         /\ n # TakeFree(p) => n.next[p.lfree] = Null
<1>1. /\ p \in QueueState /\ Linked(p, p.lfree, FreeList(p)) /\ Linked(p, p.lhead, Messages(p))
      /\ p.ltail = IF Messages(p) = <<>> THEN Null ELSE Messages(p)[Len(Messages(p))]
      /\ \A b : ~(Contains(FreeList(p), b) /\ Contains(Messages(p), b))
  BY DEF LaidOut
<1>2. PICK f, m, a : f = FreeList(p) /\ m = Messages(p) /\ a = p.lfree
  OBVIOUS
<1>3. f # <<>> /\ a \in Block /\ Contains(f, a)
  BY <1>1, <1>2, LinkedBegins
<1>4. PICK r : r = Tail(f)
  OBVIOUS
<1>5. Linked(p, p.next[a], r) /\ \A b : Contains(r, b) <=> Contains(f, b) /\ b # a
  BY <1>1, <1>2, <1>3, <1>4, LinkedTail
<1>6. /\ n \in QueueState /\ n.lfree = p.next[a] /\ n.lhead = p.lhead /\ n.ltail = p.ltail
      /\ n.content = p.content /\ \A b \in Block : b # a => n.next[b] = p.next[b]
      /\ n # TakeFree(p) => n.next[a] = Null
  <2>1. p.next[a] \in Pointer
    BY <1>1, <1>3 DEF QueueState
  <2>2. CASE n = TakeFree(p)
    BY <1>1, <1>2, <2>1, <2>2 DEF TakeFree, QueueState
  <2>3. CASE n = [TakeFree(p) EXCEPT !.next[a] = Null]
    <3>1. Null \in Pointer
      BY DEF Pointer
    <3> QED BY <1>1, <1>2, <1>3, <2>1, <2>3, <3>1 DEF TakeFree, QueueState
  <2> QED BY <1>2, <2>2, <2>3
<1>7. (\A b : Contains(r, b) => b \in Block) /\ (\A b : Contains(m, b) => b \in Block)
  BY <1>1, <1>2, <1>5 DEF Linked, Contains
<1>8. Linked(n, n.lfree, r)
  BY <1>5, <1>6, <1>7, LinkedFrame
<1>9. Linked(n, n.lhead, m)
  BY <1>1, <1>2, <1>3, <1>6, <1>7, LinkedFrame
<1>10. LaidOut(n) /\ FreeList(n) = r /\ Messages(n) = m
  BY <1>1, <1>2, <1>5, <1>6, <1>8, <1>9, LayOut
<1> QED BY <1>2, <1>3, <1>4, <1>5, <1>6, <1>10

\* The first message is taken.
LEMMA TakeHeadLays ==
  ASSUME NEW p, LaidOut(p), p.lhead # Null, NEW n, n = TakeHead(p)
  PROVE  /\ LaidOut(n) /\ p.lhead \in Block
         /\ Messages(p) # <<>> /\ Messages(n) = Tail(Messages(p))
         /\ FreeList(n) = FreeList(p) /\ n.content = p.content /\ n.next = p.next
         /\ Contains(Messages(p), p.lhead)
         /\ \A b : Contains(Messages(n), b) <=> Contains(Messages(p), b) /\ b # p.lhead
<1>1. /\ p \in QueueState /\ Linked(p, p.lfree, FreeList(p)) /\ Linked(p, p.lhead, Messages(p))
      /\ p.ltail = IF Messages(p) = <<>> THEN Null ELSE Messages(p)[Len(Messages(p))]
      /\ \A b : ~(Contains(FreeList(p), b) /\ Contains(Messages(p), b))
  BY DEF LaidOut
<1>2. PICK f, m, a : f = FreeList(p) /\ m = Messages(p) /\ a = p.lhead
  OBVIOUS
<1>3. m # <<>> /\ a \in Block /\ Contains(m, a) /\ m \in Seq(Block)
  BY <1>1, <1>2, LinkedBegins DEF Linked
<1>4. PICK r : r = Tail(m)
  OBVIOUS
<1>5. Linked(p, p.next[a], r) /\ \A b : Contains(r, b) <=> Contains(m, b) /\ b # a
  BY <1>1, <1>2, <1>3, <1>4, LinkedTail
<1>6. /\ n \in QueueState /\ n.lfree = p.lfree /\ n.lhead = p.next[a] /\ n.next = p.next
      /\ n.ltail = (IF p.next[a] = Null THEN Null ELSE p.ltail) /\ n.content = p.content
  BY <1>1, <1>2, <1>3, MsgQueueAssumption DEF TakeHead, QueueState, Pointer
<1>7. Linked(n, n.lfree, f) /\ Linked(n, n.lhead, r)
  BY <1>1, <1>2, <1>5, <1>6, LinkedFrame
<1>8. n.ltail = IF r = <<>> THEN Null ELSE r[Len(r)]
  <2>1. p.next[a] = Null <=> r = <<>>
    BY <1>5, LinkedBegins
  <2>2. r # <<>> => r[Len(r)] = m[Len(m)]
    BY <1>3, <1>4
  <2> QED BY <1>1, <1>2, <1>3, <1>6, <2>1, <2>2
<1>9. LaidOut(n) /\ FreeList(n) = f /\ Messages(n) = r
  BY <1>1, <1>2, <1>5, <1>6, <1>7, <1>8, LayOut
<1> QED BY <1>2, <1>3, <1>4, <1>5, <1>6, <1>9

\* A block that is on no list is put on the free list.
LEMMA PutFreeLays ==
  ASSUME NEW p, LaidOut(p), NEW c \in Block, ~Contains(FreeList(p), c),
         ~Contains(Messages(p), c), NEW n, n = PutFree(p, c)
  PROVE  /\ LaidOut(n) /\ FreeList(n) = <<c>> \o FreeList(p)
         /\ Messages(n) = Messages(p) /\ n.content = p.content
         /\ \A b : Contains(FreeList(n), b) <=> Contains(FreeList(p), b) \/ b = c
<1>1. /\ p \in QueueState /\ Linked(p, p.lfree, FreeList(p)) /\ Linked(p, p.lhead, Messages(p))
      /\ p.ltail = IF Messages(p) = <<>> THEN Null ELSE Messages(p)[Len(Messages(p))]
      /\ \A b : ~(Contains(FreeList(p), b) /\ Contains(Messages(p), b))
  BY DEF LaidOut
<1>2. PICK f, m : f = FreeList(p) /\ m = Messages(p)
  OBVIOUS
<1>3. /\ n \in QueueState /\ n.lfree = c /\ n.lhead = p.lhead /\ n.ltail = p.ltail
      /\ n.content = p.content /\ n.next[c] = p.lfree
      /\ \A b \in Block : b # c => n.next[b] = p.next[b]
  BY <1>1 DEF PutFree, QueueState, Pointer
<1>4. (\A b : Contains(f, b) => b \in Block) /\ (\A b : Contains(m, b) => b \in Block)
  BY <1>1, <1>2 DEF Linked, Contains
<1>5. Linked(n, p.lfree, f)
  BY <1>1, <1>2, <1>3, <1>4, LinkedFrame
<1>6. Linked(n, n.lhead, m)
  BY <1>1, <1>2, <1>3, <1>4, LinkedFrame
<1>7. PICK r : r = <<c>> \o f
  OBVIOUS
<1>8. Linked(n, n.lfree, r) /\ \A b : Contains(r, b) <=> Contains(f, b) \/ b = c
  BY <1>2, <1>3, <1>5, <1>7, LinkedPush
<1>9. LaidOut(n) /\ FreeList(n) = r /\ Messages(n) = m
  BY <1>1, <1>2, <1>3, <1>6, <1>8, LayOut
<1> QED BY <1>2, <1>3, <1>7, <1>8, <1>9

\* A block that is on no list, with its link cleared, is put behind the messages.
LEMMA PutTailLays ==
  ASSUME NEW p, LaidOut(p), NEW c \in Block, ~Contains(FreeList(p), c),
         ~Contains(Messages(p), c), p.next[c] = Null, NEW n, n = PutTail(p, c)
  PROVE  /\ LaidOut(n) /\ FreeList(n) = FreeList(p)
         /\ Messages(n) = Append(Messages(p), c) /\ n.content = p.content
         /\ \A b : Contains(Messages(n), b) <=> Contains(Messages(p), b) \/ b = c
         /\ \A b \in Block : ~Contains(Messages(p), b) => n.next[b] = p.next[b]
<1>1. /\ p \in QueueState /\ Linked(p, p.lfree, FreeList(p)) /\ Linked(p, p.lhead, Messages(p))
      /\ p.ltail = IF Messages(p) = <<>> THEN Null ELSE Messages(p)[Len(Messages(p))]
      /\ \A b : ~(Contains(FreeList(p), b) /\ Contains(Messages(p), b))
  BY DEF LaidOut
<1>2. PICK f, m : f = FreeList(p) /\ m = Messages(p)
  OBVIOUS
<1>3. m \in Seq(Block) /\ Distinct(m) /\ Len(m) \in Nat /\ (m = <<>> <=> Len(m) = 0)
  BY <1>1, <1>2, EmptySeq DEF Linked
<1>4. (\A b : Contains(f, b) => b \in Block) /\ (\A b : Contains(m, b) => b \in Block)
  BY <1>1, <1>2 DEF Linked, Contains
<1>5. m # <<>> => p.ltail \in Block /\ p.ltail = m[Len(m)] /\ Contains(m, p.ltail)
  BY <1>1, <1>2, <1>3 DEF Contains
<1>6. m = <<>> <=> p.ltail = Null
  BY <1>1, <1>2, <1>5, MsgQueueAssumption
<1>7. m = <<>> <=> p.lhead = Null
  BY <1>1, <1>2, LinkedBegins
<1>8. /\ n \in QueueState /\ n.lfree = p.lfree /\ n.ltail = c /\ n.content = p.content
      /\ n.lhead = IF m = <<>> THEN c ELSE p.lhead
      /\ \A b \in Block : n.next[b] = IF m # <<>> /\ b = p.ltail THEN c ELSE p.next[b]
  <2>1. /\ n.lfree = p.lfree /\ n.ltail = c /\ n.content = p.content
        /\ n.lhead = (IF m = <<>> THEN c ELSE p.lhead)
        /\ n.next = (IF m = <<>> THEN p.next ELSE [p.next EXCEPT ![p.ltail] = c])
        /\ n = [lfree |-> n.lfree, lhead |-> n.lhead, ltail |-> n.ltail,
                next |-> n.next, content |-> n.content]
    BY <1>1, <1>6, <1>7 DEF PutTail, QueueState
  <2>2. p.next \in [Block -> Pointer] /\ p.lhead \in Pointer /\ p.lfree \in Pointer
        /\ p.content \in [Block -> Msg] /\ c \in Pointer
    BY <1>1 DEF QueueState, Pointer
  <2>3. n.next \in [Block -> Pointer]
    BY <2>1, <2>2
  <2>4. \A b \in Block : n.next[b] = IF m # <<>> /\ b = p.ltail THEN c ELSE p.next[b]
    BY <1>5, <2>1, <2>2
  <2>5. n \in QueueState
    BY <2>1, <2>2, <2>3 DEF QueueState
  <2> QED BY <2>1, <2>4, <2>5
<1>9. \A b \in Block : ~Contains(m, b) => n.next[b] = p.next[b]
  BY <1>5, <1>8
<1>10. Linked(n, n.lfree, f)
  BY <1>1, <1>2, <1>4, <1>8, <1>9, LinkedFrame
<1>11. PICK r : r = Append(m, c)
  OBVIOUS
<1>12. \A i \in 1..(Len(m) - 1) : n.next[m[i]] = p.next[m[i]]
  <2> TAKE i \in 1..(Len(m) - 1)
  <2>1. i \in DOMAIN m /\ Len(m) \in DOMAIN m /\ i # Len(m) /\ m # <<>> /\ m[i] \in Block
    BY <1>3
  <2>2. m[i] # p.ltail
    BY <1>3, <1>5, <2>1 DEF Distinct
  <2> QED BY <1>8, <2>1, <2>2
<1>13. n.next[c] = Null
  BY <1>2, <1>5, <1>8
<1>14. m # <<>> => n.next[m[Len(m)]] = c
  BY <1>5, <1>8
<1>15. /\ Linked(n, IF m = <<>> THEN c ELSE p.lhead, r)
       /\ \A b : Contains(r, b) <=> Contains(m, b) \/ b = c
  BY <1>1, <1>2, <1>11, <1>12, <1>13, <1>14, LinkedAppend
<1>16. r # <<>> /\ r[Len(r)] = c
  BY <1>3, <1>11
<1>17. \A b : ~(Contains(f, b) /\ Contains(r, b))
  BY <1>1, <1>2, <1>15
<1>18. LaidOut(n) /\ FreeList(n) = f /\ Messages(n) = r
  BY <1>8, <1>10, <1>15, <1>16, <1>17, LayOut
<1> QED BY <1>2, <1>8, <1>9, <1>11, <1>15, <1>18

\* A block that is on no list is put before the messages.
LEMMA PutHeadLays ==
  ASSUME NEW p, LaidOut(p), NEW c \in Block, ~Contains(FreeList(p), c),
         ~Contains(Messages(p), c), NEW n, n = PutHead(p, c)
  PROVE  /\ LaidOut(n) /\ FreeList(n) = FreeList(p)
         /\ Messages(n) = <<c>> \o Messages(p) /\ n.content = p.content
         /\ \A b : Contains(Messages(n), b) <=> Contains(Messages(p), b) \/ b = c
         /\ \A b \in Block : b # c => n.next[b] = p.next[b]
<1>1. /\ p \in QueueState /\ Linked(p, p.lfree, FreeList(p)) /\ Linked(p, p.lhead, Messages(p))
      /\ p.ltail = IF Messages(p) = <<>> THEN Null ELSE Messages(p)[Len(Messages(p))]
      /\ \A b : ~(Contains(FreeList(p), b) /\ Contains(Messages(p), b))
  BY DEF LaidOut
<1>2. PICK f, m : f = FreeList(p) /\ m = Messages(p)
  OBVIOUS
<1>3. m \in Seq(Block) /\ Len(m) \in Nat /\ (m = <<>> <=> Len(m) = 0)
  BY <1>1, <1>2, EmptySeq DEF Linked
<1>4. (\A b : Contains(f, b) => b \in Block) /\ (\A b : Contains(m, b) => b \in Block)
  BY <1>1, <1>2 DEF Linked, Contains
<1>5. m = <<>> <=> p.ltail = Null
  BY <1>1, <1>2, <1>3, MsgQueueAssumption
<1>6. /\ n \in QueueState /\ n.lfree = p.lfree /\ n.lhead = c /\ n.content = p.content
      /\ n.ltail = (IF p.ltail = Null THEN c ELSE p.ltail) /\ n.next[c] = p.lhead
      /\ \A b \in Block : b # c => n.next[b] = p.next[b]
  BY <1>1 DEF PutHead, QueueState, Pointer
<1>7. Linked(n, n.lfree, f)
  BY <1>1, <1>2, <1>4, <1>6, LinkedFrame
<1>8. Linked(n, p.lhead, m)
  BY <1>1, <1>2, <1>4, <1>6, LinkedFrame
<1>9. PICK r : r = <<c>> \o m
  OBVIOUS
<1>10. Linked(n, n.lhead, r) /\ \A b : Contains(r, b) <=> Contains(m, b) \/ b = c
  BY <1>2, <1>6, <1>8, <1>9, LinkedPush
<1>11. r # <<>> /\ n.ltail = r[Len(r)]
  <2>1. Len(r) = Len(m) + 1 /\ r[1] = c /\ \A i \in 1..Len(m) : r[i + 1] = m[i]
    BY <1>3, <1>9
  <2>2. r \in Seq(Block)
    BY <1>10 DEF Linked
  <2>3. r # <<>>
    BY <1>3, <2>1, <2>2, EmptySeq
  <2>4. CASE m = <<>>
    BY <1>3, <1>5, <1>6, <2>1, <2>3, <2>4
  <2>5. CASE m # <<>>
    <3>1. Len(m) \in 1..Len(m) /\ p.ltail = m[Len(m)]
      BY <1>1, <1>2, <1>3, <2>5
    <3> QED BY <1>3, <1>5, <1>6, <2>1, <2>3, <2>5, <3>1
  <2> QED BY <2>4, <2>5
<1>12. \A b : ~(Contains(f, b) /\ Contains(r, b))
  BY <1>1, <1>2, <1>10
<1>13. LaidOut(n) /\ FreeList(n) = f /\ Messages(n) = r
  BY <1>6, <1>7, <1>10, <1>11, <1>12, LayOut
<1> QED BY <1>2, <1>6, <1>9, <1>10, <1>13

\* MDS_MsgQueueListInit links all blocks into the free list.
LEMMA ListInitLays ==
  ASSUME NEW s \in [1..Cardinality(Block) -> Block],
         \A i, j \in DOMAIN s : s[i] = s[j] => i = j,
         NEW n, n = ListInit(s)
  PROVE  /\ LaidOut(n) /\ Messages(n) = <<>> /\ Len(FreeList(n)) = Cardinality(Block)
         /\ \A b \in Block : Contains(FreeList(n), b)
<1> DEFINE N == Cardinality(Block)
           index(b) == CHOOSE j \in 1..N : s[j] = b
<1>1. N \in Nat \ {0}
  BY FS_CardinalityType, FS_EmptySet, MsgQueueAssumption
<1>2. \A b \in Block : \E i \in 1..N : s[i] = b
  <2>1. Cardinality(1..N) = N
    <3>1. N \in Int /\ 1 \in Int
      BY <1>1
    <3>2. Cardinality(1..N) = IF 1 > N THEN 0 ELSE N - 1 + 1
      BY <3>1, FS_Interval
    <3> QED BY <1>1, <3>2
  <2>2. s \in Injection(1..N, Block)
    BY DEF Injection, IsInjective
  <2>3. s \in Surjection(1..N, Block)
    BY <2>1, <2>2, FS_Injection, MsgQueueAssumption
  <2> QED BY <2>3 DEF Surjection
<1>3. /\ n.lfree = s[N] /\ n.lhead = Null /\ n.ltail = Null
      /\ n.content = [b \in Block |-> CHOOSE m \in Msg : TRUE]
      /\ n.next = [b \in Block |-> IF index(b) = 1 THEN Null ELSE s[index(b) - 1]]
      /\ n = [lfree |-> n.lfree, lhead |-> n.lhead, ltail |-> n.ltail,
              next |-> n.next, content |-> n.content]
  BY DEF ListInit
<1> HIDE DEF N
<1>4. \A i \in 1..N : s[i] \in Block /\ index(s[i]) = i
  BY DEF N
<1>5. \A i \in 1..N : n.next[s[i]] = IF i = 1 THEN Null ELSE s[i - 1]
  <2> HIDE DEF index
  <2> QED BY <1>3, <1>4
<1>6. n \in QueueState
  <2>1. n.content \in [Block -> Msg]
    BY <1>3, MsgQueueAssumption
  <2>2. n.lfree \in Pointer /\ n.lhead \in Pointer /\ n.ltail \in Pointer
    BY <1>1, <1>3, <1>4 DEF Pointer
  <2>3. \A b \in Block : n.next[b] \in Pointer
    <3> TAKE b \in Block
    <3>1. PICK i \in 1..N : s[i] = b
      BY <1>2 DEF N
    <3>2. i # 1 => i - 1 \in 1..N
      BY <1>1
    <3> QED BY <1>4, <1>5, <3>1, <3>2 DEF Pointer
  <2>4. n.next \in [Block -> Pointer]
    BY <1>3, <2>3
  <2> QED BY <1>3, <2>1, <2>2, <2>4 DEF QueueState
<1>7. PICK f : f = [i \in 1..N |-> s[N + 1 - i]]
  OBVIOUS
<1>8. \A i \in 1..N : N + 1 - i \in 1..N /\ f[i] = s[N + 1 - i] /\ f[i] \in Block
  BY <1>1, <1>4, <1>7
<1>9. f \in Seq(Block) /\ Len(f) = N /\ f # <<>>
  BY <1>1, <1>7, <1>8
<1>10. Distinct(f)
  <2> SUFFICES ASSUME NEW i \in 1..N, NEW j \in 1..N, f[i] = f[j] PROVE i = j
    BY <1>7 DEF Distinct
  <2>1. s[N + 1 - i] = s[N + 1 - j]
    BY <1>8
  <2>2. N + 1 - i = N + 1 - j
    BY <1>8, <2>1 DEF N
  <2> QED BY <1>1, <2>2
<1>11. Linked(n, n.lfree, f)
  <2>1. n.lfree = f[1]
    BY <1>1, <1>3, <1>8 DEF N
  <2>2. ASSUME NEW i \in 1..Len(f)
        PROVE  n.next[f[i]] = IF i = Len(f) THEN Null ELSE f[i + 1]
    <3>1. i \in 1..N /\ N + 1 - i \in 1..N /\ (N + 1 - i = 1 <=> i = N)
      BY <1>1, <1>9
    <3>2. n.next[f[i]] = IF N + 1 - i = 1 THEN Null ELSE s[(N + 1 - i) - 1]
      BY <1>5, <1>8, <3>1
    <3>3. i # N => i + 1 \in 1..N /\ f[i + 1] = s[(N + 1 - i) - 1]
      <4>1. i # N => i + 1 \in 1..N /\ N + 1 - (i + 1) = (N + 1 - i) - 1
        BY <1>1, <3>1
      <4> QED BY <1>8, <4>1
    <3> QED BY <1>9, <3>1, <3>2, <3>3
  <2> QED BY <1>9, <1>10, <2>1, <2>2 DEF Linked
<1>12. PICK m \in Seq(Block) : m = <<>>
  BY EmptySeq
<1>13. Linked(n, n.lhead, m) /\ n.ltail = (IF m = <<>> THEN Null ELSE m[Len(m)])
       /\ \A b : ~Contains(m, b)
  BY <1>3, <1>12 DEF Linked, Distinct, Contains
<1>14. LaidOut(n) /\ FreeList(n) = f /\ Messages(n) = m
  BY <1>6, <1>11, <1>13, LayOut
<1>15. \A b \in Block : Contains(f, b)
  <2> TAKE b \in Block
  <2>1. PICK i \in 1..N : s[i] = b
    BY <1>2 DEF N
  <2>2. N + 1 - i \in 1..N /\ N + 1 - (N + 1 - i) = i
    BY <1>1
  <2>3. f[N + 1 - i] = b
    BY <1>8, <2>1, <2>2
  <2>4. N + 1 - i \in DOMAIN f
    BY <1>7, <2>2
  <2> HIDE DEF N
  <2> QED BY <2>3, <2>4 DEF Contains
<1> QED BY <1>9, <1>12, <1>14, <1>15 DEF N
-----------------------------------------------------------------------------
(* Where the blocks are                                                    *)

\* The pointers of f, one per thread, point to different blocks.
Unique(f) ==
  /\ f \in [Thread -> Pointer]
  /\ \A t, u \in Thread : f[t] = f[u] /\ f[t] # Null => t = u

\* Some thread of f has the block b.
Carried(f, b) == \E t \in Thread : f[t] = b

\* Block b is free, queued, with a sender of c, with a receiver of h, or peeked
\* (a member of s), and only one of these.
OnePlace(p, c, h, s, b) ==
  /\ \/ Contains(FreeList(p), b) \/ Contains(Messages(p), b)
     \/ Carried(c, b) \/ Carried(h, b) \/ b \in s
  /\ Contains(FreeList(p), b) =>
       ~Contains(Messages(p), b) /\ ~Carried(c, b) /\ ~Carried(h, b) /\ b \notin s
  /\ Contains(Messages(p), b) => ~Carried(c, b) /\ ~Carried(h, b) /\ b \notin s
  /\ Carried(c, b) => ~Carried(h, b) /\ b \notin s
  /\ Carried(h, b) => b \notin s

\* A thread at at has a block c of its own exactly while it copies, whose link
\* is cleared unless it is for an urgent message, and waits for a message only
\* without a received block h.
Holds(p, c, h, at) ==
  /\ c # Null <=> at \in {"copy", "ucopy"}
  /\ at = "copy" => p.next[c] = Null
  /\ at \in {"recvwait", "recvback"} => h = Null

\* The inductive invariant of the blocks.
BlockInv ==
  /\ LaidOut(q) /\ Unique(blk) /\ Unique(held) /\ peeked \subseteq Block
  /\ pc \in [Thread -> Pc]
  /\ \A b \in Block : OnePlace(q, blk, held, peeked, b)
  /\ \A t \in Thread : Holds(q, blk[t], held[t], pc[t])

\* The pointer of t is set to c.
Points(f, t, c) == [f EXCEPT ![t] = c]

\* One more pointer is set.
LEMMA UniqueGains ==
  ASSUME NEW f, Unique(f), NEW t \in Thread, f[t] = Null, NEW c \in Block, ~Carried(f, c),
         NEW g, g = Points(f, t, c)
  PROVE  /\ Unique(g) /\ g[t] = c /\ \A u \in Thread \ {t} : g[u] = f[u]
         /\ \A b \in Block : Carried(g, b) <=> Carried(f, b) \/ b = c
<1>1. f \in [Thread -> Pointer] /\ c \in Pointer /\ c # Null /\ \A b \in Block : b # Null
  BY MsgQueueAssumption DEF Unique, Pointer
<1>2. g \in [Thread -> Pointer] /\ g[t] = c /\ \A u \in Thread \ {t} : g[u] = f[u]
  BY <1>1 DEF Points
<1>3. Unique(g)
  BY <1>1, <1>2 DEF Unique, Carried
<1> QED BY <1>1, <1>2, <1>3 DEF Carried

\* One pointer is cleared.
LEMMA UniqueLoses ==
  ASSUME NEW f, Unique(f), NEW t \in Thread, f[t] # Null, NEW g, g = Points(f, t, Null)
  PROVE  /\ Unique(g) /\ g[t] = Null /\ \A u \in Thread \ {t} : g[u] = f[u]
         /\ f[t] \in Block /\ Carried(f, f[t])
         /\ \A b \in Block : Carried(g, b) <=> Carried(f, b) /\ b # f[t]
<1>1. f \in [Thread -> Pointer] /\ Null \in Pointer /\ f[t] \in Block
      /\ \A b \in Block : b # Null
  BY MsgQueueAssumption DEF Unique, Pointer
<1>2. g \in [Thread -> Pointer] /\ g[t] = Null /\ \A u \in Thread \ {t} : g[u] = f[u]
  BY <1>1 DEF Points
<1>3. Unique(g)
  BY <1>2 DEF Unique
<1>4. \A u \in Thread \ {t} : f[u] # f[t]
  BY DEF Unique
<1> QED BY <1>1, <1>2, <1>3, <1>4 DEF Carried

\* A step of thread t, which ends at to, that spoils the link of no other
\* sender's block.
LEMMA StepKeepsBlocks ==
  ASSUME BlockInv, NEW t \in Thread, NEW to \in Pc, pc' = [pc EXCEPT ![t] = to],
         LaidOut(q'), Unique(blk'), Unique(held'), peeked' \subseteq Block,
         \A b \in Block : OnePlace(q', blk', held', peeked', b),
         Holds(q', blk'[t], held'[t], to),
         \A u \in Thread \ {t} :
           /\ blk'[u] = blk[u] /\ held'[u] = held[u]
           /\ pc[u] = "copy" => q'.next[blk[u]] = q.next[blk[u]]
  PROVE  BlockInv'
<1>1. pc' \in [Thread -> Pc] /\ pc'[t] = to /\ \A u \in Thread \ {t} : pc'[u] = pc[u]
  BY DEF BlockInv
<1>2. ASSUME NEW u \in Thread PROVE Holds(q', blk'[u], held'[u], pc'[u])
  <2>1. CASE u = t
    BY <1>1, <2>1
  <2>2. CASE u # t
    BY <1>1, <2>2 DEF BlockInv, Holds
  <2> QED BY <2>1, <2>2
<1> QED BY <1>1, <1>2 DEF BlockInv

\* A step of thread t that moves no block.
LEMMA StayKeepsBlocks ==
  ASSUME BlockInv, NEW t \in Thread, NEW to \in Pc, pc' = [pc EXCEPT ![t] = to],
         to \notin {"copy", "ucopy"}, pc[t] \notin {"copy", "ucopy"},
         to \in {"recvwait", "recvback"} =>
           held[t] = Null,
         UNCHANGED <<q, blk, held, peeked>>
  PROVE  BlockInv'
<1>1. Holds(q, blk[t], held[t], to)
  BY DEF BlockInv, Holds
<1> QED BY <1>1, StepKeepsBlocks DEF BlockInv

\* A receiver takes the first message.
LEMMA ReceiveKeepsBlocks ==
  ASSUME BlockInv, NEW t \in Thread, held[t] = Null, pc[t] \notin {"copy", "ucopy"},
         Receive(t)
  PROVE  BlockInv'
<1>1. PICK c : c = q.lhead
  OBVIOUS
<1>2. /\ LaidOut(q') /\ c \in Block /\ Contains(Messages(q), c)
      /\ FreeList(q') = FreeList(q) /\ q'.next = q.next
      /\ \A b : Contains(Messages(q'), b) <=> Contains(Messages(q), b) /\ b # c
  BY <1>1, TakeHeadLays DEF Receive, BlockInv
<1>3. /\ \A b \in Block : OnePlace(q, blk, held, peeked, b)
      /\ Unique(blk) /\ Unique(held) /\ Holds(q, blk[t], held[t], pc[t])
  BY DEF BlockInv
<1>4. blk' = blk /\ pc' = [pc EXCEPT ![t] = "run"] /\ "run" \in Pc
  BY DEF Receive, Awake, Goto, Pc
<1>5. ~Carried(held, c) /\ ~Carried(blk, c) /\ c \notin peeked /\ ~Contains(FreeList(q), c)
  BY <1>2, <1>3 DEF OnePlace
<1>6. ASSUME held' = [held EXCEPT ![t] = c], peeked' = peeked
      PROVE  BlockInv'
  <2>1. /\ Unique(held') /\ \A u \in Thread \ {t} : held'[u] = held[u]
        /\ \A b \in Block : Carried(held', b) <=> Carried(held, b) \/ b = c
    <3>1. PICK f, g : f = held /\ g = held'
      OBVIOUS
    <3>2. Unique(f) /\ f[t] = Null /\ ~Carried(f, c) /\ c \in Block
          /\ g = Points(f, t, c)
      BY <1>2, <1>3, <1>5, <1>6, <3>1 DEF Points
    <3>3. /\ Unique(g) /\ g[t] = c /\ \A u \in Thread \ {t} : g[u] = f[u]
          /\ \A b \in Block : Carried(g, b) <=> Carried(f, b) \/ b = c
      BY <3>2, UniqueGains
    <3> QED BY <3>1, <3>3
  <2>2. \A b \in Block : OnePlace(q', blk', held', peeked', b)
    BY <1>2, <1>3, <1>4, <1>5, <1>6, <2>1 DEF OnePlace
  <2>3. Holds(q', blk'[t], held'[t], "run")
    BY <1>3, <1>4 DEF Holds
  <2> QED BY <1>2, <1>3, <1>4, <1>6, <2>1, <2>2, <2>3, StepKeepsBlocks DEF BlockInv
<1>7. ASSUME peeked' = peeked \cup {c}, held' = held
      PROVE  BlockInv'
  <2>1. \A b \in Block : OnePlace(q', blk', held', peeked', b)
    BY <1>2, <1>3, <1>4, <1>5, <1>7 DEF OnePlace
  <2>2. Holds(q', blk'[t], held'[t], "run")
    BY <1>3, <1>4 DEF Holds
  <2> QED BY <1>2, <1>3, <1>4, <1>7, <2>1, <2>2, StepKeepsBlocks DEF BlockInv
<1> QED BY <1>1, <1>6, <1>7 DEF Receive

\* A sender takes the first free block; for an urgent message it leaves the
\* link of the block as it is.
LEMMA ReserveKeepsBlocks ==
  ASSUME BlockInv, NEW t \in Thread, pc[t] \notin {"copy", "ucopy"},
         q.lfree # Null, NEW to \in {"copy", "ucopy"},
         q' = IF to = "copy" THEN [TakeFree(q) EXCEPT !.next[q.lfree] = Null] ELSE TakeFree(q),
         blk' = [blk EXCEPT ![t] = q.lfree], pc' = [pc EXCEPT ![t] = to],
         UNCHANGED <<held, peeked>>
  PROVE  BlockInv'
<1>1. PICK c : c = q.lfree
  OBVIOUS
<1>2. /\ LaidOut(q') /\ c \in Block /\ Contains(FreeList(q), c)
      /\ Messages(q') = Messages(q) /\ \A b \in Block : b # c => q'.next[b] = q.next[b]
      /\ \A b : Contains(FreeList(q'), b) <=> Contains(FreeList(q), b) /\ b # c
  BY <1>1, TakeFreeLays DEF BlockInv
<1>3. /\ \A b \in Block : OnePlace(q, blk, held, peeked, b)
      /\ Unique(blk) /\ Unique(held) /\ Holds(q, blk[t], held[t], pc[t])
  BY DEF BlockInv
<1>4. /\ ~Carried(held, c) /\ ~Carried(blk, c) /\ c \notin peeked
      /\ ~Contains(Messages(q), c) /\ blk[t] = Null
  BY <1>2, <1>3 DEF OnePlace, Holds
<1>5. /\ Unique(blk') /\ blk'[t] = c /\ \A u \in Thread \ {t} : blk'[u] = blk[u]
      /\ \A b \in Block : Carried(blk', b) <=> Carried(blk, b) \/ b = c
  <2>1. PICK f, g : f = blk /\ g = blk'
    OBVIOUS
  <2>2. Unique(f) /\ f[t] = Null /\ ~Carried(f, c) /\ c \in Block
          /\ g = Points(f, t, c)
    BY <1>1, <1>2, <1>3, <1>4, <2>1 DEF Points
  <2>3. /\ Unique(g) /\ g[t] = c /\ \A u \in Thread \ {t} : g[u] = f[u]
        /\ \A b \in Block : Carried(g, b) <=> Carried(f, b) \/ b = c
    BY <2>2, UniqueGains
  <2> QED BY <2>1, <2>3
<1>6. \A b \in Block : OnePlace(q', blk', held', peeked', b)
  BY <1>2, <1>3, <1>4, <1>5 DEF OnePlace
<1>7. to = "copy" => q'.next[c] = Null
  <2>1. q.next \in [Block -> Pointer] /\ q \in QueueState
    BY DEF BlockInv, LaidOut, QueueState
  <2> QED BY <1>1, <1>2, <2>1 DEF TakeFree, QueueState
<1>8. Holds(q', blk'[t], held'[t], to)
  BY <1>2, <1>5, <1>7, MsgQueueAssumption DEF Holds
<1>9. ASSUME NEW u \in Thread \ {t}, pc[u] = "copy" PROVE q'.next[blk[u]] = q.next[blk[u]]
  <2>1. blk[u] # Null /\ blk[u] \in Pointer
    BY <1>3, <1>9 DEF BlockInv, Holds, Unique
  <2>2. blk[u] \in Block /\ blk[u] # c
    BY <1>4, <2>1 DEF Pointer, Carried
  <2> QED BY <1>2, <2>2
<1>10. to \in Pc
  BY DEF Pc
<1> QED BY <1>2, <1>3, <1>5, <1>6, <1>8, <1>9, <1>10, StepKeepsBlocks DEF BlockInv

\* A block that a sender or a receiver has is on no list.
LEMMA CarriedIsOffLists ==
  ASSUME BlockInv, NEW t \in Thread, NEW f \in {blk, held}, f[t] # Null
  PROVE  /\ f[t] \in Block /\ Carried(f, f[t])
         /\ ~Contains(FreeList(q), f[t]) /\ ~Contains(Messages(q), f[t])
<1>1. f[t] \in Block /\ Carried(f, f[t])
  BY DEF BlockInv, Unique, Pointer, Carried
<1> QED BY <1>1 DEF BlockInv, OnePlace

\* A receiver gives its block back.
LEMMA RecvReleaseKeepsBlocks ==
  ASSUME BlockInv, NEW t \in Thread, pc[t] = "run", held[t] # Null,
         q' = PutFree(q, held[t]), held' = [held EXCEPT ![t] = Null],
         NEW to \in {"run", "check"}, pc' = [pc EXCEPT ![t] = to],
         UNCHANGED <<blk, peeked>>
  PROVE  BlockInv'
<1>1. PICK c, f, g : c = held[t] /\ f = held /\ g = held'
  OBVIOUS
<1>2. /\ \A b \in Block : OnePlace(q, blk, held, peeked, b)
      /\ Unique(blk) /\ Unique(held) /\ Holds(q, blk[t], held[t], pc[t])
  BY DEF BlockInv
<1>3. /\ c \in Block /\ Carried(held, c) /\ ~Contains(FreeList(q), c)
      /\ ~Contains(Messages(q), c)
  BY <1>1, CarriedIsOffLists
<1>4. /\ LaidOut(q') /\ Messages(q') = Messages(q)
      /\ \A b : Contains(FreeList(q'), b) <=> Contains(FreeList(q), b) \/ b = c
      /\ \A b \in Block : b # c => q'.next[b] = q.next[b]
  <2>1. PICK n : n = q'
    OBVIOUS
  <2>2. n = PutFree(q, c) /\ LaidOut(q) /\ q \in QueueState
    BY <1>1, <2>1 DEF BlockInv, LaidOut
  <2>3. /\ LaidOut(n) /\ Messages(n) = Messages(q)
        /\ \A b : Contains(FreeList(n), b) <=> Contains(FreeList(q), b) \/ b = c
    BY <1>3, <2>2, PutFreeLays
  <2>4. \A b \in Block : b # c => n.next[b] = q.next[b]
    BY <2>2 DEF PutFree, QueueState
  <2> QED BY <2>1, <2>3, <2>4
<1>5. /\ Unique(g) /\ g[t] = Null /\ \A u \in Thread \ {t} : g[u] = f[u]
      /\ \A b \in Block : Carried(g, b) <=> Carried(f, b) /\ b # c
  <2>1. Unique(f) /\ f[t] # Null /\ f[t] = c /\ g = Points(f, t, Null)
    BY <1>1, <1>2 DEF Points
  <2> QED BY <2>1, UniqueLoses
<1>6. \A b \in Block : OnePlace(q', blk', held', peeked', b)
  BY <1>1, <1>2, <1>3, <1>4, <1>5 DEF OnePlace
<1>7. Holds(q', blk'[t], held'[t], to)
  BY <1>2 DEF Holds
<1>8. ASSUME NEW u \in Thread \ {t}, pc[u] = "copy" PROVE q'.next[blk[u]] = q.next[blk[u]]
  <2>1. blk[u] # Null
    BY <1>8 DEF BlockInv, Holds
  <2>2. blk[u] \in Block /\ Carried(blk, blk[u])
    BY <2>1, CarriedIsOffLists
  <2>3. blk[u] # c
    BY <1>2, <1>3, <2>2 DEF OnePlace
  <2> QED BY <1>4, <2>2, <2>3
<1>9. to \in Pc /\ Unique(blk') /\ Unique(held') /\ peeked' \subseteq Block
  BY <1>1, <1>2, <1>5 DEF Pc, BlockInv
<1>10. \A u \in Thread \ {t} : blk'[u] = blk[u] /\ held'[u] = held[u]
  BY <1>1, <1>5
<1> QED BY <1>4, <1>6, <1>7, <1>8, <1>9, <1>10, StepKeepsBlocks

\* The block that thread t copies into, before it is put on the queue.
LEMMA FilledLays ==
  ASSUME BlockInv, NEW t \in Thread, blk[t] # Null, NEW m \in Msg
  PROVE  /\ LaidOut(Filled(t, m)) /\ FreeList(Filled(t, m)) = FreeList(q)
         /\ Messages(Filled(t, m)) = Messages(q) /\ Filled(t, m).next = q.next
         /\ Filled(t, m).content = [q.content EXCEPT ![blk[t]] = m]
<1>1. blk[t] \in Block
  BY CarriedIsOffLists
<1>2. /\ q \in QueueState /\ Linked(q, q.lfree, FreeList(q)) /\ Linked(q, q.lhead, Messages(q))
      /\ q.ltail = IF Messages(q) = <<>> THEN Null ELSE Messages(q)[Len(Messages(q))]
      /\ \A b : ~(Contains(FreeList(q), b) /\ Contains(Messages(q), b))
  BY DEF BlockInv, LaidOut
<1>3. PICK f, r, n : f = FreeList(q) /\ r = Messages(q) /\ n = Filled(t, m)
  OBVIOUS
<1>4. /\ n \in QueueState /\ n.lfree = q.lfree /\ n.lhead = q.lhead /\ n.ltail = q.ltail
      /\ n.next = q.next /\ n.content = [q.content EXCEPT ![blk[t]] = m]
  BY <1>1, <1>2, <1>3 DEF QueueState, Filled
<1>5. Linked(n, q.lfree, f)
  BY <1>2, <1>3, <1>4, LinkedFrame
<1>6. Linked(n, q.lhead, r)
  BY <1>2, <1>3, <1>4, LinkedFrame
<1>7. LaidOut(n) /\ FreeList(n) = f /\ Messages(n) = r
  BY <1>2, <1>3, <1>4, <1>5, <1>6, LayOut, ZenonT(30)
<1> QED BY <1>3, <1>4, <1>7

\* What a sender has copied becomes the last message, or the first.
LEMMA DeliverLays ==
  ASSUME BlockInv, NEW t \in Thread, NEW m \in Msg,
         \/ pc[t] = "copy" /\ q' = PutTail(Filled(t, m), blk[t])
         \/ pc[t] = "ucopy" /\ q' = PutHead(Filled(t, m), blk[t])
  PROVE  /\ blk[t] \in Block /\ LaidOut(q') /\ FreeList(q') = FreeList(q)
         /\ Messages(q') = IF pc[t] = "copy" THEN Append(Messages(q), blk[t])
                           ELSE <<blk[t]>> \o Messages(q)
         /\ q'.content = [q.content EXCEPT ![blk[t]] = m]
         /\ \A b : Contains(Messages(q'), b) <=> Contains(Messages(q), b) \/ b = blk[t]
         /\ \A b \in Block : b # blk[t] /\ ~Contains(Messages(q), b) => q'.next[b] = q.next[b]
<1>1. blk[t] # Null /\ (pc[t] = "copy" => q.next[blk[t]] = Null)
  BY DEF BlockInv, Holds
<1>2. PICK c, n : c = blk[t] /\ n = Filled(t, m)
  OBVIOUS
<1>3. c \in Block /\ ~Contains(FreeList(q), c) /\ ~Contains(Messages(q), c)
  BY <1>1, <1>2, CarriedIsOffLists
<1>4. /\ LaidOut(n) /\ FreeList(n) = FreeList(q) /\ Messages(n) = Messages(q)
      /\ n.next = q.next /\ n.content = [q.content EXCEPT ![c] = m]
  BY <1>1, <1>2, FilledLays
<1>5. CASE pc[t] = "copy" /\ q' = PutTail(n, c)
  <2>1. n.next[c] = Null
    BY <1>1, <1>2, <1>4, <1>5
  <2>2. ~Contains(FreeList(n), c) /\ ~Contains(Messages(n), c)
    BY <1>3, <1>4
  <2>3. PICK r : r = q'
    OBVIOUS
  <2>4. /\ LaidOut(r) /\ FreeList(r) = FreeList(n)
        /\ Messages(r) = Append(Messages(n), c) /\ r.content = n.content
        /\ \A b : Contains(Messages(r), b) <=> Contains(Messages(n), b) \/ b = c
        /\ \A b \in Block : ~Contains(Messages(n), b) => r.next[b] = n.next[b]
    BY <1>3, <1>4, <1>5, <2>1, <2>2, <2>3, PutTailLays
  <2> QED BY <1>2, <1>3, <1>4, <1>5, <2>3, <2>4
<1>6. CASE pc[t] = "ucopy" /\ q' = PutHead(n, c)
  <2>1. ~Contains(FreeList(n), c) /\ ~Contains(Messages(n), c)
    BY <1>3, <1>4
  <2>2. PICK r : r = q'
    OBVIOUS
  <2>3. /\ LaidOut(r) /\ FreeList(r) = FreeList(n)
        /\ Messages(r) = <<c>> \o Messages(n) /\ r.content = n.content
        /\ \A b : Contains(Messages(r), b) <=> Contains(Messages(n), b) \/ b = c
        /\ \A b \in Block : b # c => r.next[b] = n.next[b]
    BY <1>3, <1>4, <1>6, <2>1, <2>2, PutHeadLays
  <2> QED BY <1>2, <1>3, <1>4, <1>6, <2>2, <2>3
<1> QED BY <1>2, <1>5, <1>6

\* A sender puts its block on the queue.
LEMMA DeliverKeepsBlocks ==
  ASSUME BlockInv, NEW t \in Thread, NEW m \in Msg,
         \/ pc[t] = "copy" /\ q' = PutTail(Filled(t, m), blk[t])
         \/ pc[t] = "ucopy" /\ q' = PutHead(Filled(t, m), blk[t]),
         blk' = [blk EXCEPT ![t] = Null],
         NEW to \in {"run", "check"}, pc' = [pc EXCEPT ![t] = to],
         UNCHANGED <<held, peeked>>
  PROVE  BlockInv'
<1>1. PICK c, f, g : c = blk[t] /\ f = blk /\ g = blk'
  OBVIOUS
<1>2. /\ \A b \in Block : OnePlace(q, blk, held, peeked, b)
      /\ Unique(blk) /\ Unique(held) /\ Holds(q, blk[t], held[t], pc[t])
  BY DEF BlockInv
<1>3. /\ c \in Block /\ LaidOut(q') /\ FreeList(q') = FreeList(q)
      /\ \A b : Contains(Messages(q'), b) <=> Contains(Messages(q), b) \/ b = c
      /\ \A b \in Block : b # c /\ ~Contains(Messages(q), b) => q'.next[b] = q.next[b]
  BY <1>1, DeliverLays
<1>4. /\ Unique(g) /\ g[t] = Null /\ \A u \in Thread \ {t} : g[u] = f[u]
      /\ Carried(f, c) /\ \A b \in Block : Carried(g, b) <=> Carried(f, b) /\ b # c
  <2>1. Unique(f) /\ f[t] # Null /\ f[t] = c /\ g = Points(f, t, Null)
    BY <1>1, <1>2, <1>3, MsgQueueAssumption DEF Points
  <2> QED BY <2>1, UniqueLoses
<1>5. \A b \in Block : OnePlace(q', blk', held', peeked', b)
  BY <1>1, <1>2, <1>3, <1>4 DEF OnePlace
<1>6. Holds(q', blk'[t], held'[t], to)
  BY <1>1, <1>4 DEF Holds
<1>7. ASSUME NEW u \in Thread \ {t}, pc[u] = "copy" PROVE q'.next[blk[u]] = q.next[blk[u]]
  <2>1. blk[u] # Null
    BY <1>7 DEF BlockInv, Holds
  <2>2. /\ blk[u] \in Block /\ ~Contains(Messages(q), blk[u])
    BY <2>1, CarriedIsOffLists
  <2>3. blk[u] # c
    BY <1>1, <1>2, <2>1 DEF Unique
  <2> QED BY <1>3, <2>2, <2>3
<1>8. to \in Pc /\ Unique(blk') /\ Unique(held') /\ peeked' \subseteq Block
  BY <1>1, <1>2, <1>4 DEF Pc, BlockInv
<1>9. \A u \in Thread \ {t} : blk'[u] = blk[u] /\ held'[u] = held[u]
  BY <1>1, <1>4
<1> QED BY <1>3, <1>5, <1>6, <1>7, <1>8, <1>9, StepKeepsBlocks

\* At first all blocks are free (MDS_MsgQueueListInit).
LEMMA BlockInvInit == Init => BlockInv
<1> SUFFICES ASSUME Init PROVE BlockInv
  OBVIOUS
<1>1. PICK s \in [1..Cardinality(Block) -> Block] :
        (\A i, j \in DOMAIN s : s[i] = s[j] => i = j) /\ q = ListInit(s)
  BY DEF Init
<1>2. LaidOut(q) /\ Messages(q) = <<>> /\ \A b \in Block : Contains(FreeList(q), b)
  BY <1>1, ListInitLays
<1>3. /\ pc = [t \in Thread |-> "run"] /\ peeked = {}
      /\ blk = [t \in Thread |-> Null] /\ held = [t \in Thread |-> Null]
  BY DEF Init
<1>4. /\ Unique(blk) /\ Unique(held) /\ pc \in [Thread -> Pc]
      /\ \A t \in Thread : Holds(q, blk[t], held[t], pc[t])
  BY <1>3 DEF Unique, Pointer, Pc, Holds
<1>5. \A b \in Block : /\ ~Carried(blk, b) /\ ~Carried(held, b) /\ b \notin peeked
                       /\ ~Contains(Messages(q), b)
  <2>1. \A b : ~Contains(<<>>, b)
    BY DEF Contains
  <2> QED BY <1>2, <1>3, <2>1, MsgQueueAssumption DEF Carried
<1> QED BY <1>2, <1>3, <1>4, <1>5 DEF BlockInv, OnePlace

\* Every step keeps the blocks in their places: one case for each action.
LEMMA BlockInvNext ==
  ASSUME BlockInv, [Next]_vars
  PROVE  BlockInv'
<1>1. ASSUME NEW t \in User, Recv(t) \/ RecvBack(t) PROVE BlockInv'
  <2>1. /\ t \in Thread /\ held[t] = Null /\ pc[t] \notin {"copy", "ucopy"}
    BY <1>1 DEF Recv, RecvBack, At, User, BlockInv, Holds
  <2>2. CASE Receive(t)
    BY <2>1, <2>2, ReceiveKeepsBlocks
  <2>3. CASE \E d : Wait(t, RecvQ, d, "recvwait")
    BY <2>1, <2>3, StayKeepsBlocks DEF Wait, Goto, Pc
  <2>4. CASE GiveUp(t)
    BY <2>1, <2>4, StayKeepsBlocks DEF GiveUp, Awake, Goto, Pc
  <2> QED BY <1>1, <2>2, <2>3, <2>4 DEF Recv, RecvBack
<1>2. ASSUME NEW t \in User, Send(t) \/ SendBack(t) PROVE BlockInv'
  <2>1. t \in Thread /\ pc[t] \notin {"copy", "ucopy"}
    BY <1>2 DEF Send, SendBack, At, User
  <2>2. CASE Reserve(t)
    BY <2>1, <2>2, ReserveKeepsBlocks DEF Reserve, Awake, Goto
  <2>3. CASE \E d : Wait(t, SendQ, d, "sendwait")
    BY <2>1, <2>3, StayKeepsBlocks DEF Wait, Goto, Pc
  <2>4. CASE GiveUp(t)
    BY <2>1, <2>4, StayKeepsBlocks DEF GiveUp, Awake, Goto, Pc
  <2> QED BY <1>2, <2>2, <2>3, <2>4 DEF Send, SendBack
<1>3. ASSUME NEW t \in User, RecvRelease(t) PROVE BlockInv'
  <2>1. t \in Thread /\ pc[t] = "run" /\ held[t] # Null
    BY <1>3 DEF RecvRelease, At, User
  <2>2. PICK to \in {"run", "check"} : pc' = [pc EXCEPT ![t] = to]
    BY <1>3 DEF RecvRelease, AndResume, Goto
  <2> QED BY <1>3, <2>1, <2>2, RecvReleaseKeepsBlocks DEF RecvRelease, AndResume
<1>4. ASSUME NEW t \in User, UrgentReserve(t) PROVE BlockInv'
  <2>1. t \in Thread /\ pc[t] \notin {"copy", "ucopy"}
    BY <1>4 DEF UrgentReserve, At, User
  <2> QED BY <1>4, <2>1, ReserveKeepsBlocks DEF UrgentReserve, Goto
<1>5. ASSUME NEW t \in User, NEW m \in Msg, Deliver(t, m) PROVE BlockInv'
  <2>1. /\ t \in Thread
        /\ \/ pc[t] = "copy" /\ q' = PutTail(Filled(t, m), blk[t])
           \/ pc[t] = "ucopy" /\ q' = PutHead(Filled(t, m), blk[t])
    BY <1>5 DEF Deliver, At, User
  <2>2. PICK to \in {"run", "check"} : pc' = [pc EXCEPT ![t] = to]
    BY <1>5 DEF Deliver, AndResume, Goto
  <2> QED BY <1>5, <2>1, <2>2, DeliverKeepsBlocks DEF Deliver, AndResume
<1>6. ASSUME NEW t \in User, Check(t) PROVE BlockInv'
  <2>1. t \in Thread /\ pc[t] \in {"recvwait", "sendwait", "check"}
    BY <1>6 DEF Check, At, User
  <2>2. PICK to : to = CASE pc[t] = "recvwait" -> "recvback"
                         [] pc[t] = "sendwait" -> "sendback"
                         [] pc[t] = "check" -> "run"
    OBVIOUS
  <2>3. /\ to \in Pc /\ to \in {"recvback", "sendback", "run"}
        /\ to = "recvback" => pc[t] = "recvwait"
    BY <2>1, <2>2 DEF Pc
  <2>4. /\ pc' = [pc EXCEPT ![t] = to] /\ UNCHANGED <<q, blk, held, peeked>>
    BY <1>6, <2>2 DEF Check, Goto, local
  <2>5. to \in {"recvwait", "recvback"} => held[t] = Null
    BY <2>1, <2>3 DEF BlockInv, Holds
  <2> QED BY <2>1, <2>3, <2>4, <2>5, StayKeepsBlocks
<1>7. CASE UNCHANGED <<q, pc, blk, held, peeked>>
  BY <1>7 DEF BlockInv
<1>8. Boot \/ Tick \/ Interrupted \/ UNCHANGED vars => UNCHANGED <<q, pc, blk, held, peeked>>
  BY DEF Boot, Tick, Interrupted, vars, local
<1> QED BY <1>1, <1>2, <1>3, <1>4, <1>5, <1>6, <1>7, <1>8 DEF Next, Step

\* Both parts of the invariant hold throughout.
LEMMA QueueAlwaysInOrder == Spec => [](WaitInv /\ BlockInv)
<1>1. BlockInv /\ [Next]_vars => BlockInv'
  BY BlockInvNext
<1>2. Spec => []BlockInv
  BY <1>1, BlockInvInit, PTL DEF Spec
<1> QED BY <1>2, WaitAlwaysInOrder, PTL

\* Every variable keeps its type: the queue never follows a pointer that is
\* neither NULL nor one of its blocks, and no wait lasts longer than measured.
THEOREM TypeCorrect == Spec => []TypeOK
<1>1. WaitInv /\ BlockInv => TypeOK
  BY DEF WaitInv, BlockInv, Orderly, Sound, Settled, LaidOut, QueueState, Unique, TypeOK
<1> QED BY <1>1, QueueAlwaysInOrder, PTL

\* ltail is the last queued block, whatever receivers, senders and urgent
\* senders do to the queue in between: the next message is linked behind it
\* and not lost (MDS_MsgQueueRecvAcquire resets it with the last message).
THEOREM TailAlwaysLast == Spec => []TailIsLast
<1>1. BlockInv => TailIsLast
  BY DEF BlockInv, LaidOut, Messages, TailIsLast
<1> QED BY <1>1, QueueAlwaysInOrder, PTL

\* No block is lost and none has two owners: free, queued, being copied into,
\* received and not released, or peeked, for any number of blocks and threads.
THEOREM BlocksAlwaysConserved == Spec => []BlocksConserved
<1>1. ASSUME BlockInv PROVE BlocksConserved
  <2>1. PICK A, B, C, D, E :
          /\ A = InChain(q, q.lfree) /\ B = InChain(q, q.lhead) /\ C = CopiedBlocks
          /\ D = HeldBlocks /\ E = peeked
    OBVIOUS
  <2>2. /\ \A b : b \in A <=> Contains(FreeList(q), b)
        /\ \A b : b \in B <=> Contains(Messages(q), b)
    <3>1. PICK f, m : f = FreeList(q) /\ m = Messages(q)
      OBVIOUS
    <3>2. f \in Seq(Block) /\ m \in Seq(Block)
      BY <1>1, <3>1 DEF BlockInv, LaidOut, Linked
    <3>3. A = {f[i] : i \in DOMAIN f} /\ B = {m[i] : i \in DOMAIN m}
      BY <2>1, <3>1 DEF InChain, FreeList, Messages
    <3>4. DOMAIN f = 1..Len(f) /\ DOMAIN m = 1..Len(m)
      BY <3>2, LenProperties
    <3> QED BY <3>1, <3>3, <3>4 DEF Contains
  <2>3. /\ \A b \in Block : b \in C <=> Carried(blk, b)
        /\ \A b \in Block : b \in D <=> Carried(held, b)
    BY <2>1, MsgQueueAssumption DEF CopiedBlocks, HeldBlocks, Carried
  <2>4. A \subseteq Block /\ B \subseteq Block
    BY <1>1, <2>2 DEF BlockInv, LaidOut, Linked, Contains
  <2>5. C \subseteq Block /\ D \subseteq Block /\ E \subseteq Block
    BY <1>1, <2>1 DEF BlockInv, Unique, Pointer, CopiedBlocks, HeldBlocks
  <2>6. \A b \in Block :
          /\ b \in A \/ b \in B \/ b \in C \/ b \in D \/ b \in E
          /\ b \in A => b \notin B /\ b \notin C /\ b \notin D /\ b \notin E
          /\ b \in B => b \notin C /\ b \notin D /\ b \notin E
          /\ b \in C => b \notin D /\ b \notin E
          /\ b \in D => b \notin E
    BY <1>1, <2>1, <2>2, <2>3 DEF BlockInv, OnePlace
  <2>7. PICK places : places = <<A, B, C, D, E>>
    OBVIOUS
  <2>8. /\ DOMAIN places = 1..5 /\ places[1] = A /\ places[2] = B /\ places[3] = C
        /\ places[4] = D /\ places[5] = E
    BY <2>7
  <2>9. Block = UNION {places[i] : i \in DOMAIN places}
    <3>1. \A b : (\E i \in DOMAIN places : b \in places[i]) <=>
                   b \in A \/ b \in B \/ b \in C \/ b \in D \/ b \in E
      BY <2>8
    <3>2. \A b : b \in Block <=> \E i \in DOMAIN places : b \in places[i]
      BY <2>4, <2>5, <2>6, <3>1
    <3> QED BY <3>2
  <2>10. \A i, j \in DOMAIN places : i # j => places[i] \cap places[j] = {}
    <3>1. /\ A \cap B = {} /\ A \cap C = {} /\ A \cap D = {} /\ A \cap E = {}
          /\ B \cap C = {} /\ B \cap D = {} /\ B \cap E = {}
          /\ C \cap D = {} /\ C \cap E = {} /\ D \cap E = {}
      BY <2>4, <2>5, <2>6
    <3>2. \A X, Y : X \cap Y = Y \cap X
      OBVIOUS
    <3> QED BY <2>8, <3>1, <3>2
  <2>11. \A t, u \in Thread : t # u => /\ blk[t] = blk[u] => blk[t] = Null
                                       /\ held[t] = held[u] => held[t] = Null
    BY <1>1 DEF BlockInv, Unique
  <2> QED BY <2>1, <2>7, <2>9, <2>10, <2>11 DEF BlocksConserved
<1> QED BY <1>1, QueueAlwaysInOrder, PTL
-----------------------------------------------------------------------------
(* The queue implements the bounded channel                                *)

\* What the channel sees of the queue: the messages in the order in which they
\* are queued, how many threads are at a place, and how many blocks are out.
Contents(p) == [i \in DOMAIN Messages(p) |-> p.content[Messages(p)[i]]]
Count(at, where) == Cardinality({t \in User : at[t] = where})
Out(h, s) == Cardinality({t \in User : h[t] # Null}) + Cardinality(s)

\* The steps of the channel in these terms.
LEMMA SeenByChannel ==
  /\ Abstract!Init <=>
       /\ Contents(q) = <<>> /\ Len(FreeList(q)) = Cardinality(Block)
       /\ Count(pc, "copy") = 0 /\ Count(pc, "ucopy") = 0 /\ Out(held, peeked) = 0
  /\ Abstract!Reserve <=>
       /\ Len(FreeList(q)) > 0 /\ Len(FreeList(q')) = Len(FreeList(q)) - 1
       /\ \/ /\ Count(pc', "copy") = Count(pc, "copy") + 1
             /\ Count(pc', "ucopy") = Count(pc, "ucopy")
          \/ /\ Count(pc', "ucopy") = Count(pc, "ucopy") + 1
             /\ Count(pc', "copy") = Count(pc, "copy")
       /\ Contents(q') = Contents(q) /\ Out(held', peeked') = Out(held, peeked)
  /\ \A m : Abstract!Deliver(m) <=>
       /\ Count(pc, "copy") > 0 /\ Count(pc', "copy") = Count(pc, "copy") - 1
       /\ Contents(q') = Append(Contents(q), m)
       /\ Len(FreeList(q')) = Len(FreeList(q)) /\ Count(pc', "ucopy") = Count(pc, "ucopy")
       /\ Out(held', peeked') = Out(held, peeked)
  /\ \A m : Abstract!Push(m) <=>
       /\ Count(pc, "ucopy") > 0 /\ Count(pc', "ucopy") = Count(pc, "ucopy") - 1
       /\ Contents(q') = <<m>> \o Contents(q)
       /\ Len(FreeList(q')) = Len(FreeList(q)) /\ Count(pc', "copy") = Count(pc, "copy")
       /\ Out(held', peeked') = Out(held, peeked)
  /\ Abstract!Receive <=>
       /\ Contents(q) # <<>> /\ Contents(q') = Tail(Contents(q))
       /\ Out(held', peeked') = Out(held, peeked) + 1
       /\ Len(FreeList(q')) = Len(FreeList(q))
       /\ Count(pc', "copy") = Count(pc, "copy") /\ Count(pc', "ucopy") = Count(pc, "ucopy")
  /\ Abstract!GiveBack <=>
       /\ Out(held, peeked) > 0 /\ Out(held', peeked') = Out(held, peeked) - 1
       /\ Len(FreeList(q')) = Len(FreeList(q)) + 1 /\ Contents(q') = Contents(q)
       /\ Count(pc', "copy") = Count(pc, "copy") /\ Count(pc', "ucopy") = Count(pc, "ucopy")
  /\ UNCHANGED Abstract!channel <=>
       /\ Contents(q') = Contents(q) /\ Len(FreeList(q')) = Len(FreeList(q))
       /\ Count(pc', "copy") = Count(pc, "copy") /\ Count(pc', "ucopy") = Count(pc, "ucopy")
       /\ Out(held', peeked') = Out(held, peeked)
BY DEF Abstract!Init, Abstract!Reserve, Abstract!Deliver, Abstract!Push, Abstract!Receive,
       Abstract!GiveBack, Abstract!channel, Contents, Count, Out, Messages, FreeList

\* The contents c of a queue whose messages are s and whose blocks contain v.
LEMMA ContentsOf ==
  ASSUME NEW p, LaidOut(p), NEW s, s = Messages(p), NEW c, c = Contents(p),
         NEW v, v = p.content
  PROVE  /\ s \in Seq(Block) /\ v \in [Block -> Msg] /\ c \in Seq(Msg) /\ Len(c) = Len(s)
         /\ \A i \in 1..Len(s) : c[i] = v[s[i]] /\ s[i] \in Block /\ Contains(s, s[i])
<1>1. s \in Seq(Block) /\ v \in [Block -> Msg]
  BY DEF LaidOut, Linked, QueueState
<1>2. DOMAIN s = 1..Len(s) /\ Len(s) \in Nat /\ \A i \in 1..Len(s) : s[i] \in Block
  BY <1>1
<1>3. c = [i \in 1..Len(s) |-> v[s[i]]]
  BY <1>2 DEF Contents
<1>4. c \in Seq(Msg) /\ Len(c) = Len(s)
  BY <1>1, <1>2, <1>3
<1> QED BY <1>1, <1>2, <1>3, <1>4 DEF Contains

\* Two sequences of the same length with the same elements are the same.
LEMMA SameSequence ==
  ASSUME NEW S, NEW r \in Seq(S), NEW s \in Seq(S), Len(r) = Len(s),
         \A i \in 1..Len(s) : r[i] = s[i]
  PROVE  r = s
BY SeqEqual

\* The first message is taken.
LEMMA ContentsTail ==
  ASSUME NEW p, LaidOut(p), NEW n, LaidOut(n), NEW s, s = Messages(p), s # <<>>,
         NEW r, r = Messages(n), NEW v, p.content = v, n.content = v
  PROVE  r = Tail(s) => Contents(p) # <<>> /\ Contents(n) = Tail(Contents(p))
<1>1. PICK c, d : c = Contents(p) /\ d = Contents(n)
  OBVIOUS
<1>2. /\ s \in Seq(Block) /\ v \in [Block -> Msg] /\ c \in Seq(Msg) /\ Len(c) = Len(s)
      /\ \A i \in 1..Len(s) : c[i] = v[s[i]] /\ s[i] \in Block /\ Contains(s, s[i])
  BY <1>1, ContentsOf
<1>3. /\ r \in Seq(Block) /\ d \in Seq(Msg) /\ Len(d) = Len(r)
      /\ \A i \in 1..Len(r) : d[i] = v[r[i]]
  BY <1>1, ContentsOf
<1>4. HAVE r = Tail(s)
<1>5. /\ Len(s) \in Nat \ {0} /\ Len(r) = Len(s) - 1
      /\ \A i \in 1..Len(r) : r[i] = s[i + 1]
  BY <1>2, <1>4, HeadTailProperties, EmptySeq
<1>6. c # <<>>
  BY <1>2, <1>5, EmptySeq
<1>7. PICK e : e = Tail(c)
  OBVIOUS
<1>8. e \in Seq(Msg) /\ Len(e) = Len(r) /\ \A i \in 1..Len(r) : e[i] = c[i + 1]
  BY <1>2, <1>5, <1>6, <1>7, HeadTailProperties
<1>9. \A i \in 1..Len(r) : d[i] = e[i]
  <2> TAKE i \in 1..Len(r)
  <2>1. i + 1 \in 1..Len(s)
    BY <1>5
  <2> QED BY <1>2, <1>3, <1>4, <1>5, <1>8, <2>1
<1>10. d = e
  BY <1>3, <1>8, <1>9, SameSequence
<1> QED BY <1>1, <1>6, <1>7, <1>10

\* A block with message x is put behind the others.
LEMMA ContentsAppend ==
  ASSUME NEW p, LaidOut(p), NEW n, LaidOut(n), NEW b \in Block, ~Contains(Messages(p), b),
         Messages(n) = Append(Messages(p), b),
         NEW x \in Msg, n.content = [p.content EXCEPT ![b] = x]
  PROVE  Contents(n) = Append(Contents(p), x)
<1>1. PICK s, r, c, d, v, w :
        /\ s = Messages(p) /\ c = Contents(p) /\ v = p.content
        /\ r = Messages(n) /\ d = Contents(n) /\ w = n.content
  OBVIOUS
<1>2. /\ s \in Seq(Block) /\ v \in [Block -> Msg] /\ c \in Seq(Msg) /\ Len(c) = Len(s)
      /\ \A i \in 1..Len(s) : c[i] = v[s[i]] /\ s[i] \in Block /\ Contains(s, s[i])
  BY <1>1, ContentsOf
<1>3. /\ r \in Seq(Block) /\ d \in Seq(Msg) /\ Len(d) = Len(r)
      /\ \A i \in 1..Len(r) : d[i] = w[r[i]]
  BY <1>1, ContentsOf
<1>4. /\ Len(s) \in Nat /\ Len(r) = Len(s) + 1 /\ r[Len(s) + 1] = b
      /\ \A i \in 1..Len(s) : r[i] = s[i]
  BY <1>1, <1>2, AppendProperties
<1>5. PICK e : e = Append(c, x)
  OBVIOUS
<1>6. /\ e \in Seq(Msg) /\ Len(e) = Len(s) + 1 /\ e[Len(s) + 1] = x
      /\ \A i \in 1..Len(s) : e[i] = c[i]
  BY <1>2, <1>5, AppendProperties
<1>7. w = [v EXCEPT ![b] = x]
  BY <1>1
<1>8. w[b] = x /\ \A a \in Block : a # b => w[a] = v[a]
  BY <1>2, <1>7
<1>9. \A i \in 1..Len(s) : s[i] \in Block /\ s[i] # b
  BY <1>1, <1>2
<1>10. \A i \in 1..Len(r) : d[i] = e[i]
  <2> TAKE i \in 1..Len(r)
  <2>1. CASE i = Len(s) + 1
    BY <1>3, <1>4, <1>6, <1>8, <2>1
  <2>2. CASE i # Len(s) + 1
    <3>1. i \in 1..Len(s)
      BY <1>4, <2>2
    <3> QED BY <1>2, <1>3, <1>4, <1>6, <1>8, <1>9, <3>1
  <2> QED BY <2>1, <2>2
<1>11. d = e
  BY <1>3, <1>4, <1>6, <1>10, SameSequence
<1> QED BY <1>1, <1>5, <1>11

\* A block with message x is put before the others.
LEMMA ContentsPush ==
  ASSUME NEW p, LaidOut(p), NEW n, LaidOut(n), NEW b \in Block, ~Contains(Messages(p), b),
         Messages(n) = <<b>> \o Messages(p),
         NEW x \in Msg, n.content = [p.content EXCEPT ![b] = x]
  PROVE  Contents(n) = <<x>> \o Contents(p)
<1>1. PICK s, r, c, d, v, w :
        /\ s = Messages(p) /\ c = Contents(p) /\ v = p.content
        /\ r = Messages(n) /\ d = Contents(n) /\ w = n.content
  OBVIOUS
<1>2. /\ s \in Seq(Block) /\ v \in [Block -> Msg] /\ c \in Seq(Msg) /\ Len(c) = Len(s)
      /\ \A i \in 1..Len(s) : c[i] = v[s[i]] /\ s[i] \in Block /\ Contains(s, s[i])
  BY <1>1, ContentsOf
<1>3. /\ r \in Seq(Block) /\ d \in Seq(Msg) /\ Len(d) = Len(r)
      /\ \A i \in 1..Len(r) : d[i] = w[r[i]]
  BY <1>1, ContentsOf
<1>4. /\ Len(s) \in Nat /\ Len(r) = Len(s) + 1 /\ r[1] = b
      /\ \A i \in 1..Len(s) : r[i + 1] = s[i]
  BY <1>1, <1>2
<1>5. PICK e : e = <<x>> \o c
  OBVIOUS
<1>6. /\ e \in Seq(Msg) /\ Len(e) = Len(s) + 1 /\ e[1] = x
      /\ \A i \in 1..Len(s) : e[i + 1] = c[i]
  BY <1>2, <1>4, <1>5
<1>7. w = [v EXCEPT ![b] = x]
  BY <1>1
<1>8. w[b] = x /\ \A a \in Block : a # b => w[a] = v[a]
  BY <1>2, <1>7
<1>9. \A i \in 1..Len(s) : s[i] \in Block /\ s[i] # b
  BY <1>1, <1>2
<1>10. \A i \in 1..Len(r) : d[i] = e[i]
  <2> TAKE i \in 1..Len(r)
  <2>1. CASE i = 1
    BY <1>3, <1>4, <1>6, <1>8, <2>1
  <2>2. CASE i # 1
    <3>1. PICK j \in 1..Len(s) : i = j + 1
      BY <1>4, <2>2
    <3>2. d[i] = w[r[i]] /\ r[i] = s[j] /\ e[i] = c[j]
      BY <1>3, <1>4, <1>6, <3>1
    <3> QED BY <1>2, <1>8, <1>9, <3>1, <3>2
  <2> QED BY <2>1, <2>2
<1>11. d = e
  BY <1>3, <1>4, <1>6, <1>10, SameSequence
<1> QED BY <1>1, <1>5, <1>11

\* One thread goes from one place to another.
LEMMA CountMoves ==
  ASSUME NEW f \in [Thread -> Pc], NEW t \in User, NEW to \in Pc, NEW g, g = Points(f, t, to),
         NEW w
  PROVE  /\ Count(f, w) \in Nat /\ Count(g, w) \in Nat
         /\ f[t] = w /\ to # w => Count(f, w) > 0 /\ Count(g, w) = Count(f, w) - 1
         /\ f[t] # w /\ to = w => Count(g, w) = Count(f, w) + 1
         /\ (f[t] = w <=> to = w) => Count(g, w) = Count(f, w)
<1> DEFINE A == {u \in User : f[u] = w}
           B == {u \in User : g[u] = w}
<1>1. IsFiniteSet(User) /\ User \subseteq Thread
  <2>1. User \in SUBSET Thread
    BY DEF User
  <2> QED BY <2>1, FS_Subset, MsgQueueAssumption
<1>2. IsFiniteSet(A) /\ IsFiniteSet(B)
  BY <1>1, FS_Subset
<1>3. \A u \in User : g[u] = IF u = t THEN to ELSE f[u]
  BY <1>1 DEF Points
<1>4. /\ f[t] = w /\ to # w => B = A \ {t} /\ t \in A
      /\ f[t] # w /\ to = w => B = A \cup {t} /\ t \notin A
      /\ (f[t] = w <=> to = w) => B = A
  BY <1>3
<1>5. Count(f, w) = Cardinality(A) /\ Count(g, w) = Cardinality(B)
  BY DEF Count
<1> HIDE DEF A, B
<1>6. /\ Cardinality(A) \in Nat /\ Cardinality(B) \in Nat
      /\ t \in A => Cardinality(A) # 0
  BY <1>2, FS_CardinalityType, FS_EmptySet
<1>7. /\ t \in A => Cardinality(A \ {t}) = Cardinality(A) - 1
      /\ t \notin A => Cardinality(A \cup {t}) = Cardinality(A) + 1
  BY <1>2, FS_AddElement, FS_RemoveElement
<1> QED BY <1>4, <1>5, <1>6, <1>7

\* A receiver gets a block, or gives it back, or a block is peeked.
LEMMA OutMoves ==
  ASSUME NEW h \in [Thread -> Pointer], NEW s \in SUBSET Block, NEW t \in User
  PROVE  /\ Out(h, s) \in Nat
         /\ \A c \in Block : h[t] = Null => Out(Points(h, t, c), s) = Out(h, s) + 1
         /\ h[t] # Null => Out(h, s) > 0 /\ Out(Points(h, t, Null), s) = Out(h, s) - 1
         /\ \A c : c \notin s => Out(h, s \cup {c}) = Out(h, s) + 1
<1> DEFINE R(f) == {u \in User : f[u] # Null}
<1>1. IsFiniteSet(User) /\ User \subseteq Thread
  <2>1. User \in SUBSET Thread
    BY DEF User
  <2> QED BY <2>1, FS_Subset, MsgQueueAssumption
<1>2. \A f : IsFiniteSet(R(f))
  BY <1>1, FS_Subset
<1>3. IsFiniteSet(s) /\ Cardinality(s) \in Nat
  BY FS_Subset, FS_CardinalityType, MsgQueueAssumption
<1>4. /\ \A f : Cardinality(R(f)) \in Nat /\ \A x : x \in R(f) => Cardinality(R(f)) # 0
      /\ \A f, x : x \in R(f) => Cardinality(R(f) \ {x}) = Cardinality(R(f)) - 1
      /\ \A f, x : x \notin R(f) => Cardinality(R(f) \cup {x}) = Cardinality(R(f)) + 1
  <2> SUFFICES ASSUME NEW f, NEW x
               PROVE  /\ Cardinality(R(f)) \in Nat /\ (x \in R(f) => Cardinality(R(f)) # 0)
                      /\ x \in R(f) => Cardinality(R(f) \ {x}) = Cardinality(R(f)) - 1
                      /\ x \notin R(f) => Cardinality(R(f) \cup {x}) = Cardinality(R(f)) + 1
    OBVIOUS
  <2>1. PICK A : A = R(f)
    OBVIOUS
  <2>2. IsFiniteSet(A)
    BY <1>2, <2>1
  <2>3. /\ Cardinality(A) \in Nat /\ (x \in A => Cardinality(A) # 0)
        /\ x \in A => Cardinality(A \ {x}) = Cardinality(A) - 1
        /\ x \notin A => Cardinality(A \cup {x}) = Cardinality(A) + 1
    BY <2>2, FS_CardinalityType, FS_EmptySet, FS_AddElement, FS_RemoveElement
  <2> QED BY <2>1, <2>3
<1>5. \A f, z : Out(f, z) = Cardinality(R(f)) + Cardinality(z)
  BY DEF Out
<1>6. ASSUME NEW c \in Block, h[t] = Null
      PROVE  Out(Points(h, t, c), s) = Out(h, s) + 1
  <2>1. R(Points(h, t, c)) = R(h) \cup {t} /\ t \notin R(h)
    BY <1>1, <1>6, MsgQueueAssumption DEF Points
  <2> HIDE DEF R
  <2> QED BY <1>3, <1>4, <1>5, <2>1
<1>7. ASSUME h[t] # Null
      PROVE  Out(h, s) > 0 /\ Out(Points(h, t, Null), s) = Out(h, s) - 1
  <2>1. R(Points(h, t, Null)) = R(h) \ {t} /\ t \in R(h)
    BY <1>1, <1>7 DEF Points
  <2> HIDE DEF R
  <2> QED BY <1>3, <1>4, <1>5, <2>1
<1>8. ASSUME NEW c, c \notin s PROVE Out(h, s \cup {c}) = Out(h, s) + 1
  <2> HIDE DEF R
  <2>1. Cardinality(s \cup {c}) = Cardinality(s) + 1
    BY <1>3, <1>8, FS_AddElement
  <2> QED BY <1>3, <1>4, <1>5, <2>1
<1>9. Out(h, s) \in Nat
  <2> HIDE DEF R
  <2> QED BY <1>3, <1>4, <1>5
<1> QED BY <1>6, <1>7, <1>8, <1>9

\* The places of a thread that the channel does not see.
LEMMA UnseenMove ==
  ASSUME BlockInv, NEW t \in User, NEW to \in Pc \ {"copy", "ucopy"},
         pc[t] \notin {"copy", "ucopy"}, pc' = [pc EXCEPT ![t] = to]
  PROVE  Count(pc', "copy") = Count(pc, "copy") /\ Count(pc', "ucopy") = Count(pc, "ucopy")
<1>1. PICK f, g : f = pc /\ g = pc'
  OBVIOUS
<1>2. f \in [Thread -> Pc] /\ g = Points(f, t, to)
  BY <1>1 DEF BlockInv, Points
<1>3. ASSUME NEW w \in {"copy", "ucopy"} PROVE Count(g, w) = Count(f, w)
  <2>1. f[t] # w /\ to # w /\ to \in Pc
    BY <1>1
  <2> QED BY <1>2, <2>1, CountMoves
<1> QED BY <1>1, <1>3

\* MDS_MsgQueueRecvAcquire and MDS_MsgQueueRecvPeek receive.
LEMMA ReceiveImplements ==
  ASSUME BlockInv, BlockInv', NEW t \in User, held[t] = Null, pc[t] \notin {"copy", "ucopy"},
         q.lhead # Null, Receive(t)
  PROVE  Abstract!Receive
<1>1. PICK n, c : n = q' /\ c = q.lhead
  OBVIOUS
<1>2. /\ LaidOut(q) /\ LaidOut(n) /\ n = TakeHead(q) /\ peeked \in SUBSET Block
      /\ held \in [Thread -> Pointer] /\ \A b \in Block : OnePlace(q, blk, held, peeked, b)
  BY <1>1 DEF Receive, BlockInv, Unique
<1>3. /\ c \in Block /\ Contains(Messages(q), c) /\ FreeList(n) = FreeList(q)
      /\ Messages(q) # <<>> /\ Messages(n) = Tail(Messages(q)) /\ n.content = q.content
  BY <1>1, <1>2, TakeHeadLays
<1>4. Contents(q) # <<>> /\ Contents(n) = Tail(Contents(q))
  <2>1. PICK s, r, v : s = Messages(q) /\ r = Messages(n) /\ v = q.content
    OBVIOUS
  <2>2. s # <<>> /\ r = Tail(s) /\ n.content = v
    BY <1>3, <2>1
  <2> QED BY <1>2, <2>1, <2>2, ContentsTail
<1>5. Out(held', peeked') = Out(held, peeked) + 1
  <2>1. c \notin peeked
    BY <1>2, <1>3 DEF OnePlace
  <2>2. CASE held' = [held EXCEPT ![t] = c] /\ peeked' = peeked
    <3>1. PICK f, g, s : f = held /\ g = held' /\ s = peeked
      OBVIOUS
    <3>2. /\ g = Points(f, t, c) /\ f[t] = Null /\ f \in [Thread -> Pointer]
          /\ s \in SUBSET Block
      BY <1>2, <2>2, <3>1 DEF Points
    <3>3. Out(g, s) = Out(f, s) + 1
      BY <1>3, <3>2, OutMoves
    <3> QED BY <2>2, <3>1, <3>3
  <2>3. CASE peeked' = peeked \cup {c} /\ held' = held
    BY <1>2, <2>1, <2>3, OutMoves
  <2> QED BY <1>1, <2>2, <2>3 DEF Receive
<1>6. Count(pc', "copy") = Count(pc, "copy") /\ Count(pc', "ucopy") = Count(pc, "ucopy")
  BY UnseenMove DEF Receive, Awake, Goto, Pc
<1> QED BY <1>1, <1>3, <1>4, <1>5, <1>6, SeenByChannel

\* MDS_MsgQueueRecvRelease gives the room back.
LEMMA ReleaseImplements ==
  ASSUME BlockInv, NEW t \in User, RecvRelease(t)
  PROVE  Abstract!GiveBack
<1>1. PICK n, c : n = q' /\ c = held[t]
  OBVIOUS
<1>2. /\ LaidOut(q) /\ n = PutFree(q, c) /\ peeked \in SUBSET Block /\ t \in Thread
      /\ held \in [Thread -> Pointer] /\ c # Null /\ pc[t] = "run"
  BY <1>1 DEF RecvRelease, At, BlockInv, Unique, User
<1>3. c \in Block /\ ~Contains(FreeList(q), c) /\ ~Contains(Messages(q), c)
  BY <1>1, <1>2, CarriedIsOffLists
<1>4. /\ FreeList(n) = <<c>> \o FreeList(q) /\ Messages(n) = Messages(q)
      /\ n.content = q.content
  BY <1>2, <1>3, PutFreeLays
<1>5. Len(FreeList(n)) = Len(FreeList(q)) + 1
  <2>1. PICK f : f = FreeList(q)
    OBVIOUS
  <2>2. f \in Seq(Block)
    BY <1>2, <2>1 DEF LaidOut, Linked
  <2>3. Len(<<c>> \o f) = Len(f) + 1
    BY <1>3, <2>2
  <2> QED BY <1>4, <2>1, <2>3
<1>6. Contents(n) = Contents(q)
  BY <1>4 DEF Contents
<1>7. Out(held, peeked) > 0 /\ Out(held', peeked') = Out(held, peeked) - 1
  <2>1. held' = Points(held, t, Null) /\ peeked' = peeked
    BY DEF RecvRelease, AndResume, Points
  <2> QED BY <1>1, <1>2, <2>1, OutMoves
<1>8. Count(pc', "copy") = Count(pc, "copy") /\ Count(pc', "ucopy") = Count(pc, "ucopy")
  <2>1. PICK to \in {"run", "check"} : pc' = [pc EXCEPT ![t] = to]
    BY DEF RecvRelease, AndResume, Goto
  <2>2. to \in Pc \ {"copy", "ucopy"}
    BY DEF Pc
  <2> QED BY <1>2, <2>1, <2>2, UnseenMove
<1> QED BY <1>1, <1>5, <1>6, <1>7, <1>8, SeenByChannel

\* A sender takes room, to send or to push.
LEMMA ReserveImplements ==
  ASSUME BlockInv, NEW t \in User, pc[t] \notin {"copy", "ucopy"},
         q.lfree # Null, NEW to \in {"copy", "ucopy"},
         q' = IF to = "copy" THEN [TakeFree(q) EXCEPT !.next[q.lfree] = Null] ELSE TakeFree(q),
         pc' = [pc EXCEPT ![t] = to], UNCHANGED <<held, peeked>>
  PROVE  Abstract!Reserve
<1>1. PICK n, f, g : n = q' /\ f = pc /\ g = pc'
  OBVIOUS
<1>2. LaidOut(q) /\ f \in [Thread -> Pc] /\ g = Points(f, t, to)
  BY <1>1 DEF BlockInv, Points
<1>3. /\ FreeList(q) # <<>> /\ FreeList(n) = Tail(FreeList(q))
      /\ Messages(n) = Messages(q) /\ n.content = q.content
  BY <1>1, <1>2, TakeFreeLays
<1>4. Len(FreeList(q)) > 0 /\ Len(FreeList(n)) = Len(FreeList(q)) - 1
  <2>1. PICK s : s = FreeList(q)
    OBVIOUS
  <2>2. s \in Seq(Block) /\ s # <<>>
    BY <1>2, <1>3, <2>1 DEF LaidOut, Linked
  <2>3. Len(s) \in Nat \ {0} /\ Len(Tail(s)) = Len(s) - 1
    BY <2>2, HeadTailProperties, EmptySeq
  <2> QED BY <1>3, <2>1, <2>3
<1>5. Contents(n) = Contents(q)
  BY <1>3 DEF Contents
<1>6. ASSUME NEW w \in {"copy", "ucopy"}
      PROVE  Count(g, w) = IF w = to THEN Count(f, w) + 1 ELSE Count(f, w)
  <2>1. f[t] # w /\ to \in Pc
    BY <1>1 DEF Pc
  <2> QED BY <1>2, <2>1, CountMoves
<1>7. \/ Count(g, "copy") = Count(f, "copy") + 1 /\ Count(g, "ucopy") = Count(f, "ucopy")
      \/ Count(g, "ucopy") = Count(f, "ucopy") + 1 /\ Count(g, "copy") = Count(f, "copy")
  BY <1>6
<1> QED BY <1>1, <1>4, <1>5, <1>7, SeenByChannel

\* MDS_MsgQueueSendMsg delivers and MDS_MsgQueueUrgentMsg pushes.
LEMMA DeliverImplements ==
  ASSUME BlockInv, BlockInv', NEW t \in User, NEW m \in Msg, Deliver(t, m)
  PROVE  Abstract!Deliver(m) \/ Abstract!Push(m)
<1>1. PICK n, f, g, c : n = q' /\ f = pc /\ g = pc' /\ c = blk[t]
  OBVIOUS
<1>2. /\ LaidOut(q) /\ LaidOut(n) /\ f \in [Thread -> Pc] /\ t \in Thread
      /\ \/ f[t] = "copy" /\ n = PutTail(Filled(t, m), c)
         \/ f[t] = "ucopy" /\ n = PutHead(Filled(t, m), c)
  BY <1>1 DEF Deliver, At, BlockInv, User
<1>3. PICK to \in {"run", "check"} : g = Points(f, t, to)
  BY <1>1 DEF Deliver, AndResume, Goto, Points
<1>4. /\ c \in Block /\ FreeList(n) = FreeList(q)
      /\ Messages(n) = (IF f[t] = "copy" THEN Append(Messages(q), c) ELSE <<c>> \o Messages(q))
      /\ n.content = [q.content EXCEPT ![c] = m]
  <2>1. \/ pc[t] = "copy" /\ q' = PutTail(Filled(t, m), blk[t])
        \/ pc[t] = "ucopy" /\ q' = PutHead(Filled(t, m), blk[t])
    BY <1>1, <1>2
  <2>2. /\ blk[t] \in Block /\ FreeList(q') = FreeList(q)
        /\ Messages(q') = (IF pc[t] = "copy" THEN Append(Messages(q), blk[t])
                           ELSE <<blk[t]>> \o Messages(q))
        /\ q'.content = [q.content EXCEPT ![blk[t]] = m]
    BY <1>2, <2>1, DeliverLays
  <2> QED BY <1>1, <2>2
<1>5. ~Contains(Messages(q), c)
  BY <1>1, <1>2, <1>4, CarriedIsOffLists, MsgQueueAssumption
<1>6. Out(held', peeked') = Out(held, peeked)
  BY DEF Deliver, AndResume
<1>7. ASSUME NEW w \in {"copy", "ucopy"}
      PROVE  /\ f[t] = w => Count(f, w) > 0 /\ Count(g, w) = Count(f, w) - 1
             /\ f[t] # w => Count(g, w) = Count(f, w)
  <2>1. to # w /\ to \in Pc
    BY <1>3 DEF Pc
  <2> QED BY <1>2, <1>3, <2>1, CountMoves
<1>8. CASE f[t] = "copy"
  <2>1. Contents(n) = Append(Contents(q), m)
    BY <1>2, <1>4, <1>5, <1>8, ContentsAppend
  <2>2. Count(f, "copy") > 0 /\ Count(g, "copy") = Count(f, "copy") - 1
    BY <1>7, <1>8
  <2>3. Count(g, "ucopy") = Count(f, "ucopy")
    BY <1>7, <1>8
  <2> QED BY <1>1, <1>4, <1>6, <2>1, <2>2, <2>3, SeenByChannel
<1>9. CASE f[t] = "ucopy"
  <2>1. /\ LaidOut(q) /\ LaidOut(n) /\ c \in Block /\ ~Contains(Messages(q), c)
        /\ Messages(n) = <<c>> \o Messages(q) /\ n.content = [q.content EXCEPT ![c] = m]
    BY <1>2, <1>4, <1>5, <1>9
  <2>2. Contents(n) = <<m>> \o Contents(q)
    BY <2>1, ContentsPush
  <2>3. Count(f, "ucopy") > 0 /\ Count(g, "ucopy") = Count(f, "ucopy") - 1
    BY <1>7, <1>9
  <2>4. Count(g, "copy") = Count(f, "copy")
    BY <1>7, <1>9
  <2> QED BY <1>1, <1>4, <1>6, <2>2, <2>3, <2>4, SeenByChannel
<1> QED BY <1>2, <1>8, <1>9

\* A step that touches neither the blocks nor a copying thread is none of the
\* channel.
LEMMA StutterImplements ==
  ASSUME UNCHANGED <<q, held, peeked>>,
         Count(pc', "copy") = Count(pc, "copy") /\ Count(pc', "ucopy") = Count(pc, "ucopy")
  PROVE  UNCHANGED Abstract!channel
BY SeenByChannel

\* Every step of the queue is a step of the channel or none.
LEMMA StepImplements ==
  ASSUME BlockInv, BlockInv', [Next]_vars
  PROVE  [Abstract!Next]_(Abstract!channel)
<1>1. ASSUME NEW t \in User, Recv(t) \/ RecvBack(t)
      PROVE  Abstract!Receive \/ UNCHANGED Abstract!channel
  <2>1. /\ t \in Thread /\ held[t] = Null /\ pc[t] \notin {"copy", "ucopy"}
    BY <1>1 DEF Recv, RecvBack, At, User, BlockInv, Holds
  <2>2. CASE Receive(t)
    BY <2>1, <2>2, ReceiveImplements DEF Receive
  <2>3. CASE \E d : Wait(t, RecvQ, d, "recvwait")
    <3>1. "recvwait" \in Pc \ {"copy", "ucopy"}
      BY DEF Pc
    <3>2. /\ pc' = [pc EXCEPT ![t] = "recvwait"] /\ UNCHANGED <<q, held, peeked>>
      BY <2>3 DEF Wait, Goto
    <3> QED BY <2>1, <3>1, <3>2, UnseenMove, StutterImplements
  <2>4. CASE GiveUp(t)
    <3>1. "run" \in Pc \ {"copy", "ucopy"}
      BY DEF Pc
    <3>2. /\ pc' = [pc EXCEPT ![t] = "run"] /\ UNCHANGED <<q, held, peeked>>
      BY <2>4 DEF GiveUp, Awake, Goto
    <3> QED BY <2>1, <3>1, <3>2, UnseenMove, StutterImplements
  <2> QED BY <1>1, <2>2, <2>3, <2>4 DEF Recv, RecvBack
<1>2. ASSUME NEW t \in User, Send(t) \/ SendBack(t)
      PROVE  Abstract!Reserve \/ UNCHANGED Abstract!channel
  <2>1. t \in Thread /\ pc[t] \notin {"copy", "ucopy"}
    BY <1>2 DEF Send, SendBack, At, User
  <2>2. CASE Reserve(t)
    BY <2>1, <2>2, ReserveImplements DEF Reserve, Awake, Goto
  <2>3. CASE \E d : Wait(t, SendQ, d, "sendwait")
    <3>1. "sendwait" \in Pc \ {"copy", "ucopy"}
      BY DEF Pc
    <3>2. /\ pc' = [pc EXCEPT ![t] = "sendwait"] /\ UNCHANGED <<q, held, peeked>>
      BY <2>3 DEF Wait, Goto
    <3> QED BY <2>1, <3>1, <3>2, UnseenMove, StutterImplements
  <2>4. CASE GiveUp(t)
    <3>1. "run" \in Pc \ {"copy", "ucopy"}
      BY DEF Pc
    <3>2. /\ pc' = [pc EXCEPT ![t] = "run"] /\ UNCHANGED <<q, held, peeked>>
      BY <2>4 DEF GiveUp, Awake, Goto
    <3> QED BY <2>1, <3>1, <3>2, UnseenMove, StutterImplements
  <2> QED BY <1>2, <2>2, <2>3, <2>4 DEF Send, SendBack
<1>3. ASSUME NEW t \in User, UrgentReserve(t) PROVE Abstract!Reserve
  <2>1. pc[t] \notin {"copy", "ucopy"}
    BY <1>3 DEF UrgentReserve, At
  <2> QED BY <1>3, <2>1, ReserveImplements DEF UrgentReserve, Goto
<1>4. ASSUME NEW t \in User, Check(t) PROVE UNCHANGED Abstract!channel
  <2>1. pc[t] \in {"recvwait", "sendwait", "check"}
    BY <1>4 DEF Check, At
  <2>2. PICK to : to = CASE pc[t] = "recvwait" -> "recvback"
                         [] pc[t] = "sendwait" -> "sendback"
                         [] pc[t] = "check" -> "run"
    OBVIOUS
  <2>3. to \in Pc \ {"copy", "ucopy"}
    BY <2>1, <2>2 DEF Pc
  <2>4. pc' = [pc EXCEPT ![t] = to] /\ UNCHANGED <<q, held, peeked>>
    BY <1>4, <2>2 DEF Check, Goto, local
  <2>5. pc[t] \notin {"copy", "ucopy"}
    BY <2>1
  <2> QED BY <2>3, <2>4, <2>5, UnseenMove, StutterImplements
<1>5. CASE Boot \/ Tick \/ Interrupted \/ UNCHANGED vars
  <2>1. UNCHANGED <<q, pc, held, peeked>>
    BY <1>5 DEF Boot, Tick, Interrupted, vars, local
  <2> QED BY <2>1, StutterImplements
<1> QED
  BY <1>1, <1>2, <1>3, <1>4, <1>5, ReleaseImplements, DeliverImplements
     DEF Next, Step, Abstract!Next

\* The message queue, with its linked blocks and its waiting threads, is a
\* bounded channel with room for all its blocks, whatever the threads, the
\* priorities, the timeouts and the interrupts: messages are received in the
\* order they were sent, urgent ones first, none is lost and none twice.
THEOREM QueueImplementsChannel == Spec => ImplementsChannel
<1>1. ASSUME Init PROVE Abstract!Init
  <2>1. PICK s \in [1..Cardinality(Block) -> Block] :
          (\A i, j \in DOMAIN s : s[i] = s[j] => i = j) /\ q = ListInit(s)
    BY <1>1 DEF Init
  <2>2. Messages(q) = <<>> /\ Len(FreeList(q)) = Cardinality(Block)
    BY <2>1, ListInitLays
  <2>3. Contents(q) = <<>>
    BY <2>2 DEF Contents
  <2>4. /\ \A t \in User : pc[t] = "run" /\ held[t] = Null
        /\ peeked = {}
    BY <1>1 DEF Init, User
  <2>5. Count(pc, "copy") = 0 /\ Count(pc, "ucopy") = 0 /\ Out(held, peeked) = 0
    <3>1. PICK A, B, C : /\ A = {t \in User : pc[t] = "copy"}
                         /\ B = {t \in User : pc[t] = "ucopy"}
                         /\ C = {t \in User : held[t] # Null}
      OBVIOUS
    <3>2. A = {} /\ B = {} /\ C = {} /\ Cardinality({}) = 0
      BY <2>4, <3>1, FS_EmptySet
    <3>3. /\ Count(pc, "copy") = Cardinality(A) /\ Count(pc, "ucopy") = Cardinality(B)
          /\ Out(held, peeked) = Cardinality(C) + Cardinality(peeked)
      BY <3>1 DEF Count, Out
    <3> QED BY <2>4, <3>2, <3>3
  <2> QED BY <2>2, <2>3, <2>5, SeenByChannel
<1>2. BlockInv /\ BlockInv' /\ [Next]_vars => [Abstract!Next]_(Abstract!channel)
  BY StepImplements
<1> QED BY <1>1, <1>2, QueueAlwaysInOrder, PTL DEF Spec, ImplementsChannel, Abstract!Spec

\* What the channel promises, in the same terms: the sum of the room free, of
\* the room taken by senders, of the messages and of the blocks out is n.
Rooms(c, free, copies, ucopies, out, n) ==
  /\ c \in Seq(Msg) /\ free \in Nat /\ copies \in Nat /\ ucopies \in Nat /\ out \in Nat
  /\ free + copies + ucopies + Len(c) + out = n

LEMMA PromiseSeen ==
  /\ Abstract!TypeOK /\ Abstract!RoomConserved <=>
       Rooms(Contents(q), Len(FreeList(q)), Count(pc, "copy"), Count(pc, "ucopy"),
             Out(held, peeked), Cardinality(Block))
  /\ Abstract!TypeOK' /\ Abstract!RoomConserved' <=>
       Rooms(Contents(q'), Len(FreeList(q')), Count(pc', "copy"), Count(pc', "ucopy"),
             Out(held', peeked'), Cardinality(Block))
BY DEF Abstract!TypeOK, Abstract!RoomConserved, Rooms, Contents, Count, Out, Messages, FreeList

\* Every step of the channel moves room between its holders: free, with a
\* sender, queued, in hand.
LEMMA ChannelStep ==
  ASSUME Abstract!TypeOK, Abstract!RoomConserved, [Abstract!Next]_(Abstract!channel)
  PROVE  Abstract!TypeOK' /\ Abstract!RoomConserved'
<1>1. PICK c, f, s, u, o :
        /\ c = Contents(q) /\ f = Len(FreeList(q)) /\ s = Count(pc, "copy")
        /\ u = Count(pc, "ucopy") /\ o = Out(held, peeked)
  OBVIOUS
<1>2. PICK c1, f1, s1, u1, o1 :
        /\ c1 = Contents(q') /\ f1 = Len(FreeList(q')) /\ s1 = Count(pc', "copy")
        /\ u1 = Count(pc', "ucopy") /\ o1 = Out(held', peeked')
  OBVIOUS
<1>3. PICK n : n = Cardinality(Block)
  OBVIOUS
<1>4. Rooms(c, f, s, u, o, n)
  BY <1>1, <1>3, PromiseSeen
<1>5. SUFFICES Rooms(c1, f1, s1, u1, o1, n)
  BY <1>2, <1>3, PromiseSeen
<1>6. CASE Abstract!Reserve
  <2>1. /\ f > 0 /\ f1 = f - 1 /\ c1 = c /\ o1 = o
        /\ (s1 = s + 1 /\ u1 = u) \/ (u1 = u + 1 /\ s1 = s)
    BY <1>1, <1>2, <1>6, SeenByChannel
  <2> QED BY <1>4, <2>1 DEF Rooms
<1>7. CASE Abstract!Receive
  <2>1. c # <<>> /\ c1 = Tail(c) /\ o1 = o + 1 /\ f1 = f /\ s1 = s /\ u1 = u
    BY <1>1, <1>2, <1>7, SeenByChannel
  <2>2. Len(c1) = Len(c) - 1 /\ Len(c) \in Nat \ {0} /\ c1 \in Seq(Msg)
    BY <1>4, <2>1 DEF Rooms
  <2> QED BY <1>4, <2>1, <2>2 DEF Rooms
<1>8. CASE Abstract!GiveBack
  <2>1. o > 0 /\ o1 = o - 1 /\ f1 = f + 1 /\ c1 = c /\ s1 = s /\ u1 = u
    BY <1>1, <1>2, <1>8, SeenByChannel
  <2> QED BY <1>4, <2>1 DEF Rooms
<1>9. ASSUME NEW m \in Msg, Abstract!Deliver(m)
      PROVE  Rooms(c1, f1, s1, u1, o1, n)
  <2>1. s > 0 /\ s1 = s - 1 /\ c1 = Append(c, m) /\ f1 = f /\ u1 = u /\ o1 = o
    BY <1>1, <1>2, <1>9, SeenByChannel
  <2>2. Len(c1) = Len(c) + 1 /\ Len(c) \in Nat /\ c1 \in Seq(Msg)
    BY <1>4, <2>1 DEF Rooms
  <2> QED BY <1>4, <2>1, <2>2 DEF Rooms
<1>10. ASSUME NEW m \in Msg, Abstract!Push(m)
       PROVE  Rooms(c1, f1, s1, u1, o1, n)
  <2>1. u > 0 /\ u1 = u - 1 /\ c1 = <<m>> \o c /\ f1 = f /\ s1 = s /\ o1 = o
    BY <1>1, <1>2, <1>10, SeenByChannel
  <2>2. Len(c1) = Len(c) + 1 /\ Len(c) \in Nat /\ c1 \in Seq(Msg)
    BY <1>4, <2>1 DEF Rooms
  <2> QED BY <1>4, <2>1, <2>2 DEF Rooms
<1>11. CASE UNCHANGED Abstract!channel
  BY <1>1, <1>2, <1>4, <1>11, SeenByChannel
<1> QED BY <1>6, <1>7, <1>8, <1>9, <1>10, <1>11 DEF Abstract!Next

\* The queue neither loses nor gains room: the blocks MDS_MsgQueueInit lays out
\* are what is free, being written by a sender, queued and with a receiver
\* together, at all times.
THEOREM QueueConservesRoom == Spec => [](Abstract!TypeOK /\ Abstract!RoomConserved)
<1>1. Abstract!Init => Abstract!TypeOK /\ Abstract!RoomConserved
  <2>1. Cardinality(Block) \in Nat
    BY MsgQueueAssumption, FS_CardinalityType
  <2> QED BY <2>1 DEF Abstract!Init, Abstract!TypeOK, Abstract!RoomConserved
<1>2. /\ Abstract!TypeOK /\ Abstract!RoomConserved
      /\ [Abstract!Next]_(Abstract!channel)
      => (Abstract!TypeOK /\ Abstract!RoomConserved)'
  BY ChannelStep
<1>3. QED
  BY <1>1, <1>2, QueueImplementsChannel, PTL DEF ImplementsChannel, Abstract!Spec
-----------------------------------------------------------------------------
(* No wake-up is lost, while no wait is limited                            *)

\* The threads at the places at that a wake-up from wait queue w has reached.
Coming(at, s, w) == {t \in User : at[t] \in Waits(w) /\ ~On(s, w, t)}

\* What the threads of wait queue w wait for: messages, or free blocks.
Supply(p, w) == Len(IF w = RecvQ THEN Messages(p) ELSE FreeList(p))

\* No wait has a limit, so none is given up.
Endless(s, at, d, t) ==
  s.err[t] = "EOK" /\ \A w \in Queues : at \in Waits(w) => d > TimerMax

\* The inductive invariant of unlimited waits, with those above.
ForeverInv ==
  /\ \A t \in User : Endless(k, pc[t], tmo[t], t)
  /\ \A w \in Queues : k.list[w] # <<>> => Supply(q, w) <= Cardinality(Coming(pc, k, w))

\* There are finitely many threads on their way.
LEMMA ComingIsFinite ==
  ASSUME NEW at, NEW s, NEW w
  PROVE  IsFiniteSet(Coming(at, s, w)) /\ Cardinality(Coming(at, s, w)) \in Nat
<1>1. User \in SUBSET Thread
  BY DEF User
<1>2. IsFiniteSet(User)
  BY <1>1, FS_Subset, MsgQueueAssumption
<1>3. Coming(at, s, w) \in SUBSET User
  BY DEF Coming
<1> QED BY <1>2, <1>3, FS_Subset, FS_CardinalityType

\* One block more needs one thread more; a thread may go with its block.
LEMMA Matched ==
  ASSUME NEW C, IsFiniteSet(C), NEW D, IsFiniteSet(D), NEW a \in Nat, NEW b \in Nat, NEW x,
         a <= Cardinality(C),
         \/ b <= a /\ C \subseteq D
         \/ b = a - 1 /\ C \ {x} \subseteq D
         \/ b = a + 1 /\ C \cup {x} \subseteq D /\ x \notin C
  PROVE  b <= Cardinality(D)
<1>1. /\ Cardinality(C) \in Nat /\ Cardinality(D) \in Nat
      /\ IsFiniteSet(C \ {x}) /\ IsFiniteSet(C \cup {x})
      /\ Cardinality(C \ {x}) = IF x \in C THEN Cardinality(C) - 1 ELSE Cardinality(C)
      /\ Cardinality(C \cup {x}) = IF x \in C THEN Cardinality(C) ELSE Cardinality(C) + 1
  BY FS_CardinalityType, FS_AddElement, FS_RemoveElement
<1>2. CASE b <= a /\ C \subseteq D
  <2>1. Cardinality(C) <= Cardinality(D)
    BY <1>2, FS_Subset
  <2> QED BY <1>1, <1>2, <2>1
<1>3. CASE b = a - 1 /\ C \ {x} \subseteq D
  <2>1. Cardinality(C \ {x}) <= Cardinality(D)
    BY <1>3, FS_Subset
  <2> QED BY <1>1, <1>3, <2>1
<1>4. CASE b = a + 1 /\ C \cup {x} \subseteq D /\ x \notin C
  <2>1. Cardinality(C \cup {x}) <= Cardinality(D)
    BY <1>4, FS_Subset
  <2> QED BY <1>1, <1>4, <2>1
<1> QED BY <1>2, <1>3, <1>4

\* Both supplies are counts.
LEMMA SupplyIsCount ==
  ASSUME NEW p, LaidOut(p), NEW w \in Queues
  PROVE  Supply(p, w) \in Nat
BY DEF LaidOut, Linked, Supply

\* What a step may do to the threads of wait queue w: someone on the way takes
\* a block, or a waiter is woken for a new one.
LEMMA SupplyStaysMatched ==
  ASSUME BlockInv, BlockInv', NEW w \in Queues,
         k.list[w] # <<>> => Supply(q, w) <= Cardinality(Coming(pc, k, w)), NEW x,
         \/ Supply(q', w) = 0
         \/ k'.list[w] = <<>>
         \/ /\ k.list[w] # <<>>
            /\ \/ Supply(q', w) = Supply(q, w) /\ Coming(pc, k, w) \subseteq Coming(pc', k', w)
               \/ /\ Supply(q', w) = Supply(q, w) - 1
                  /\ Coming(pc, k, w) \ {x} \subseteq Coming(pc', k', w)
               \/ /\ Supply(q', w) = Supply(q, w) + 1
                  /\ Coming(pc, k, w) \cup {x} \subseteq Coming(pc', k', w)
                  /\ x \notin Coming(pc, k, w)
  PROVE  k'.list[w] # <<>> => Supply(q', w) <= Cardinality(Coming(pc', k', w))
<1>1. PICK C, D, a, b : /\ C = Coming(pc, k, w) /\ D = Coming(pc', k', w)
                        /\ a = Supply(q, w) /\ b = Supply(q', w)
  OBVIOUS
<1>2. /\ IsFiniteSet(C) /\ IsFiniteSet(D) /\ Cardinality(D) \in Nat
  BY <1>1, ComingIsFinite
<1>3. a \in Nat /\ b \in Nat
  BY <1>1, SupplyIsCount DEF BlockInv
<1>4. CASE b = 0
  BY <1>1, <1>2, <1>4
<1>5. CASE k'.list[w] = <<>>
  BY <1>5
<1>6. CASE k.list[w] # <<>> /\ b # 0 /\ k'.list[w] # <<>>
  <2>1. a <= Cardinality(C)
    BY <1>1, <1>6
  <2>2. \/ b <= a /\ C \subseteq D
        \/ b = a - 1 /\ C \ {x} \subseteq D
        \/ b = a + 1 /\ C \cup {x} \subseteq D /\ x \notin C
    BY <1>1, <1>3, <1>6
  <2>3. b <= Cardinality(D)
    BY <1>2, <1>3, <2>1, <2>2, Matched
  <2> QED BY <1>1, <2>3
<1> QED BY <1>1, <1>4, <1>5, <1>6

\* Nobody is armed, and no wait is given up.
LEMMA NeverExpires ==
  ASSUME WaitInv, ForeverInv
  PROVE  /\ \A t \in Thread : ~Armed(k, t)
         /\ \A t \in User : pc[t] \in {"recvback", "sendback"} => ~Expired(t)
<1>0. /\ tmo \in [Thread -> Timeouts \cup {0}] /\ waited \in [Thread -> 0..TimerMax]
      /\ TimerMax \in Nat /\ Timeouts \cup {0} \subseteq Nat
  BY KernelAssumption, MsgQueueAssumption DEF WaitInv
<1>1. ASSUME NEW t \in Thread PROVE ~Armed(k, t)
  <2>1. CASE t = Idle
    BY <2>1 DEF WaitInv, Orderly, Settled, Placed, Ranked
  <2>2. CASE t # Idle
    <3>1. t \in User /\ Sleeps(k, pc[t], tmo[t], t) /\ Endless(k, pc[t], tmo[t], t)
      BY <2>2 DEF User, WaitInv, ForeverInv
    <3>2. tmo[t] \in Nat
      BY <1>0
    <3>3. tmo[t] > TimerMax => ~(tmo[t] < TimerMax)
      BY <1>0, <3>2
    <3> QED BY <3>1, <3>3 DEF Sleeps, Endless
  <2> QED BY <2>1, <2>2
<1>2. ASSUME NEW t \in User, pc[t] \in {"recvback", "sendback"} PROVE ~Expired(t)
  <2>1. Endless(k, pc[t], tmo[t], t) /\ t \in Thread
    BY DEF ForeverInv, User
  <2>2. pc[t] \in Waits(RecvQ) \/ pc[t] \in Waits(SendQ)
    BY <1>2, MsgQueueAssumption DEF Waits
  <2>3. tmo[t] > TimerMax /\ k.err[t] = "EOK"
    BY <2>1, <2>2 DEF Endless, Queues
  <2>4. waited[t] \in 0..TimerMax /\ tmo[t] \in Nat
    BY <1>0, <2>1
  <2>5. ~(tmo[t] <= waited[t])
    BY <1>0, <2>3, <2>4
  <2> QED BY <2>3, <2>5 DEF Expired
<1> QED BY <1>1, <1>2

\* A step after which no wait queue has more waiters, which takes nobody off
\* the way and changes no supply.
LEMMA NothingSupplied ==
  ASSUME BlockInv, BlockInv', NEW w \in Queues,
         k.list[w] # <<>> => Supply(q, w) <= Cardinality(Coming(pc, k, w)),
         k'.list[w] # <<>> => k.list[w] # <<>>, Supply(q', w) = Supply(q, w),
         \A u \in User : /\ pc[u] \in Waits(w) => pc'[u] \in Waits(w)
                         /\ pc[u] \in Waits(w) /\ On(k', w, u) => On(k, w, u)
  PROVE  k'.list[w] # <<>> => Supply(q', w) <= Cardinality(Coming(pc', k', w))
<1>1. Coming(pc, k, w) \subseteq Coming(pc', k', w)
  BY DEF Coming
<1> QED BY <1>1, SupplyStaysMatched

\* The two ends of a wait.
LEMMA WaitsApart ==
  /\ \A at : ~(at \in Waits(RecvQ) /\ at \in Waits(SendQ))
  /\ \A w \in Queues : \A at \in {"run", "copy", "ucopy", "check"} : at \notin Waits(w)
BY MsgQueueAssumption DEF Waits, Queues

\* A thread that is not in a wait is endless if it has no error.
LEMMA EndlessNowhere ==
  ASSUME NEW s, NEW at \in {"run", "copy", "ucopy", "check"}, NEW d, NEW t, s.err[t] = "EOK"
  PROVE  Endless(s, at, d, t)
BY WaitsApart DEF Endless

\* MDS_MsgQueueRecvAcquire takes a message, MDS_MsgQueueSendMsg a free block:
\* thread t, which may have come for it, leaves with it.
LEMMA TakeKeepsForever ==
  ASSUME WaitInv, BlockInv, BlockInv', ForeverInv, NEW t \in User,
         NEW to \in {"run", "copy", "ucopy"},
         NEW w \in Queues, pc[t] = "run" \/ pc[t] \in Waits(w),
         k' = k, pc' = [pc EXCEPT ![t] = to], \A u \in Thread \ {t} : tmo'[u] = tmo[u],
         Supply(q', w) = Supply(q, w) - 1,
         \A l \in Queues \ {w} : Supply(q', l) = Supply(q, l)
  PROVE  ForeverInv'
<1>1. t \in Thread /\ pc'[t] = to /\ \A u \in Thread \ {t} : pc'[u] = pc[u]
  BY DEF User, WaitInv
<1>2. ASSUME NEW u \in User PROVE Endless(k', pc'[u], tmo'[u], u)
  <2>1. Endless(k, pc[u], tmo[u], u) /\ u \in Thread
    BY DEF ForeverInv, User
  <2>2. CASE u = t
    BY <1>1, <2>1, <2>2, EndlessNowhere DEF Endless
  <2>3. CASE u # t
    BY <1>1, <2>1, <2>3
  <2> QED BY <2>2, <2>3
<1>3. ASSUME NEW l \in Queues
      PROVE  k'.list[l] # <<>> => Supply(q', l) <= Cardinality(Coming(pc', k', l))
  <2>1. k.list[l] # <<>> => Supply(q, l) <= Cardinality(Coming(pc, k, l))
    BY DEF ForeverInv
  <2>2. CASE l = w
    <3>1. Coming(pc, k, w) \ {t} \subseteq Coming(pc', k', w)
      BY <1>1 DEF Coming, User
    <3> QED BY <2>1, <2>2, <3>1, SupplyStaysMatched
  <2>3. CASE l # w
    <3>1. pc[t] \notin Waits(l)
      BY <2>3, WaitsApart DEF Queues
    <3>2. \A u \in User : /\ pc[u] \in Waits(l) => pc'[u] \in Waits(l)
                          /\ pc[u] \in Waits(l) /\ On(k', l, u) => On(k, l, u)
      BY <1>1, <3>1 DEF User
    <3> QED BY <2>1, <2>3, <3>2, NothingSupplied
  <2> QED BY <2>2, <2>3
<1> QED BY <1>2, <1>3 DEF ForeverInv

\* A wait begins or goes on: nothing is there to wait for.
LEMMA WaitKeepsForever ==
  ASSUME WaitInv, BlockInv, BlockInv', ForeverInv, NEW t \in User, Executes(t),
         NEW w \in Queues, pc[t] = "run" \/ pc[t] = IF w = RecvQ THEN "recvback" ELSE "sendback",
         NEW d \in Timeouts, d > TimerMax, NEW to, Wait(t, w, d, to),
         to = (IF w = RecvQ THEN "recvwait" ELSE "sendwait"), Supply(q, w) = 0
  PROVE  ForeverInv'
<1>1. /\ t \in Thread \ {Idle} /\ k.st[t] = "RUNNING" /\ Orderly(k) /\ k \in KernelState
  <2>1. pc[t] \notin {"recvwait", "sendwait"}
    OBVIOUS
  <2> QED BY <2>1, Caller
<1>2. /\ k' = WaitQueueSuspend(k, w, t, d, TRUE) /\ pc' = [pc EXCEPT ![t] = to]
      /\ tmo' = [tmo EXCEPT ![t] = d] /\ q' = q
  BY DEF Wait, Goto
<1>3. d \in Nat /\ w \in WaitQ /\ ThreadSuspendErr(k, t) = "EOK"
  BY <1>1, MsgQueueAssumption, QueuesAreLists DEF ThreadSuspendErr
<1>4. Queued(k, k', w, t, d, TRUE)
  BY <1>1, <1>2, <1>3, WaitQueueSuspendOrderly
<1>5. /\ pc'[t] = to /\ tmo'[t] = d
      /\ \A u \in Thread \ {t} : pc'[u] = pc[u] /\ tmo'[u] = tmo[u]
  BY <1>1, <1>2 DEF WaitInv
<1>6. k'.err = k.err /\ \A l \in Queues \ {w} : k'.list[l] = k.list[l]
  BY <1>4, QueuesAreLists DEF Queued
<1>7. ASSUME NEW u \in User PROVE Endless(k', pc'[u], tmo'[u], u)
  <2>1. Endless(k, pc[u], tmo[u], u) /\ u \in Thread
    BY DEF ForeverInv, User
  <2>2. CASE u = t
    BY <1>5, <1>6, <2>1, <2>2 DEF Endless
  <2>3. CASE u # t
    BY <1>5, <1>6, <2>1, <2>3 DEF Endless
  <2> QED BY <2>2, <2>3
<1>8. ASSUME NEW l \in Queues
      PROVE  k'.list[l] # <<>> => Supply(q', l) <= Cardinality(Coming(pc', k', l))
  <2>1. k.list[l] # <<>> => Supply(q, l) <= Cardinality(Coming(pc, k, l))
    BY DEF ForeverInv
  <2>2. CASE l = w
    <3>1. Supply(q', l) = 0
      BY <1>2, <2>2
    <3> QED BY <2>1, <3>1, SupplyStaysMatched
  <2>3. CASE l # w
    <3>1. pc[t] \notin Waits(l)
      BY <2>3, MsgQueueAssumption DEF Queues, Waits
    <3>2. k'.list[l] = k.list[l] /\ Supply(q', l) = Supply(q, l)
      BY <1>2, <1>6, <2>3
    <3>3. \A u \in User : /\ pc[u] \in Waits(l) => pc'[u] \in Waits(l)
                          /\ pc[u] \in Waits(l) /\ On(k', l, u) => On(k, l, u)
      BY <1>5, <3>1, <3>2 DEF User, On
    <3> QED BY <2>1, <3>2, <3>3, NothingSupplied
  <2> QED BY <2>2, <2>3
<1> QED BY <1>7, <1>8 DEF ForeverInv

\* A step of the processor, or a call that moves nobody into or out of a wait
\* and nobody into a wait queue.
LEMMA FrameKeepsForever ==
  ASSUME BlockInv, BlockInv', ForeverInv, k'.err = k.err, q' = q, tmo' = tmo,
         \A w \in Queues : k'.list[w] # <<>> => k.list[w] # <<>>,
         \A u \in User : \A w \in Queues : /\ pc'[u] \in Waits(w) <=> pc[u] \in Waits(w)
                                           /\ On(k', w, u) => On(k, w, u)
  PROVE  ForeverInv'
<1>1. \A u \in User : Endless(k', pc'[u], tmo'[u], u)
  BY DEF ForeverInv, Endless
<1>2. ASSUME NEW w \in Queues
      PROVE  k'.list[w] # <<>> => Supply(q', w) <= Cardinality(Coming(pc', k', w))
  <2>1. k.list[w] # <<>> => Supply(q, w) <= Cardinality(Coming(pc, k, w))
    BY DEF ForeverInv
  <2> QED BY <2>1, NothingSupplied
<1> QED BY <1>1, <1>2 DEF ForeverInv

\* A message for the receivers, or a free block for the senders: the first of
\* those that wait for it is woken, in the same critical section.
LEMMA ResumeKeepsForever ==
  ASSUME WaitInv, BlockInv, BlockInv', ForeverInv, NEW t \in User, Executes(t),
         pc[t] \in {"run", "copy", "ucopy"}, NEW w \in Queues, AndResume(t, w),
         Supply(q', w) = Supply(q, w) + 1,
         \A l \in Queues \ {w} : Supply(q', l) = Supply(q, l)
  PROVE  ForeverInv'
<1>1. t \in Thread /\ Orderly(k) /\ k \in KernelState /\ w \in WaitQ
  BY Caller, QueuesAreLists
<1>2. PICK to \in {"run", "check"} : pc' = [pc EXCEPT ![t] = to]
  BY DEF AndResume, Goto
<1>3. /\ pc'[t] = to /\ \A u \in Thread \ {t} : pc'[u] = pc[u]
      /\ k' = WaitQueueResume(k, w) /\ tmo' = tmo
  BY <1>1, <1>2 DEF AndResume, WaitInv
<1>4. /\ k'.err = k.err
      /\ k.list[w] = <<>> => k' = k
      /\ k.list[w] # <<>> => \E h \in Thread : Woken(k, k', w, h)
  BY <1>1, <1>3, WaitQueueResumeOrderly
<1>5. ASSUME NEW u \in User PROVE Endless(k', pc'[u], tmo'[u], u)
  <2>1. Endless(k, pc[u], tmo[u], u) /\ u \in Thread
    BY DEF ForeverInv, User
  <2>2. CASE u = t
    <3>1. k'.err[u] = "EOK" /\ pc'[u] = to
      BY <1>3, <1>4, <2>1, <2>2 DEF Endless
    <3> QED BY <3>1, EndlessNowhere
  <2>3. CASE u # t
    BY <1>3, <1>4, <2>1, <2>3 DEF Endless
  <2> QED BY <2>2, <2>3
<1>6. ASSUME NEW l \in Queues PROVE pc[t] \notin Waits(l) /\ pc'[t] \notin Waits(l)
  BY <1>3, WaitsApart
<1>7. ASSUME k.list[w] = <<>>, NEW l \in Queues
      PROVE  k'.list[l] # <<>> => Supply(q', l) <= Cardinality(Coming(pc', k', l))
  <2>1. k.list[l] # <<>> => Supply(q, l) <= Cardinality(Coming(pc, k, l))
    BY DEF ForeverInv
  <2>2. CASE l = w
    <3>1. k'.list[l] = <<>>
      BY <1>4, <1>7, <2>2
    <3> QED BY <3>1
  <2>3. CASE l # w
    <3>1. k' = k /\ Supply(q', l) = Supply(q, l)
      BY <1>4, <1>7, <2>3
    <3>2. \A u \in User : /\ pc[u] \in Waits(l) => pc'[u] \in Waits(l)
                          /\ pc[u] \in Waits(l) /\ On(k', l, u) => On(k, l, u)
      BY <1>3, <1>6, <3>1 DEF User
    <3> QED BY <2>1, <3>1, <3>2, NothingSupplied
  <2> QED BY <2>2, <2>3
<1>8. ASSUME k.list[w] # <<>>, NEW l \in Queues
      PROVE  k'.list[l] # <<>> => Supply(q', l) <= Cardinality(Coming(pc', k', l))
  <2>1. PICK h \in Thread : Woken(k, k', w, h)
    BY <1>4, <1>8
  <2>2. /\ On(k, w, h) /\ h \in User /\ l \in WaitQ /\ l \in Lists
        /\ ~On(k', l, h) /\ k'.list[l] = Unlink(k.list[l], h)
        /\ \A u \in Thread \ {h} : On(k', l, u) <=> On(k, l, u)
    BY <2>1, QueuesAreLists DEF Woken, Others, User
  <2>3. k'.list[l] # <<>> => k.list[l] # <<>>
    <3>1. ~Contains(<<>>, h)
      BY DEF Contains
    <3> QED BY <2>2, <3>1 DEF Unlink
  <2>4. k.list[l] # <<>> => Supply(q, l) <= Cardinality(Coming(pc, k, l))
    BY DEF ForeverInv
  <2>5. \A u \in User : /\ pc[u] \in Waits(l) => pc'[u] \in Waits(l)
                        /\ pc[u] \in Waits(l) /\ On(k', l, u) => On(k, l, u)
    <3> TAKE u \in User
    <3>1. u \in Thread /\ (u = h => ~On(k', l, u)) /\ (u # h => (On(k', l, u) <=> On(k, l, u)))
      BY <2>2 DEF User
    <3>2. pc[u] \in Waits(l) => pc'[u] \in Waits(l)
      BY <1>3, <1>6, <3>1
    <3> QED BY <3>1, <3>2
  <2>6. CASE l = w
    <3>1. pc[h] \in Waits(w)
      BY <2>2 DEF WaitInv, Sleeps
    <3>2. Coming(pc, k, w) \cup {h} \subseteq Coming(pc', k', w) /\ h \notin Coming(pc, k, w)
      BY <2>2, <2>5, <2>6, <3>1 DEF Coming
    <3> QED BY <2>4, <2>6, <1>8, <3>2, SupplyStaysMatched
  <2>7. CASE l # w
    BY <2>3, <2>4, <2>5, <2>7, NothingSupplied
  <2> QED BY <2>6, <2>7
<1> QED BY <1>5, <1>7, <1>8 DEF ForeverInv

\* The processor takes nobody out of a wait: no timer is armed.
LEMMA ProcessorKeepsForever ==
  ASSUME WaitInv, BlockInv, BlockInv', ForeverInv, Boot \/ Tick \/ Interrupted
  PROVE  ForeverInv'
<1>1. q' = q /\ pc' = pc /\ tmo' = tmo /\ Orderly(k) /\ Sound(k) /\ k \in KernelState
  BY DEF Boot, Tick, Interrupted, local, WaitInv, Orderly, Sound
<1>2. CASE k'.err = k.err /\ \A w \in Queues : k'.list[w] = k.list[w]
  BY <1>1, <1>2, FrameKeepsForever DEF On
<1>3. ASSUME NEW t \in User, StartBeforeBoot(t)
      PROVE  ForeverInv'
  <2>1. /\ t \in Thread /\ k.st[t] = "INACTIVED" /\ k' = MakeReady(k, t) /\ Distinct(k.tq)
    BY <1>1, <1>3 DEF StartBeforeBoot, ThreadStartup, User, Orderly, Settled
  <2>2. /\ Others(k, k', t) /\ Unlinked(k, k', t) /\ k'.err = k.err
        /\ \A l \in Lists : On(k', l, t) <=> l = k.prio[t] /\ l \in Prio
    BY <1>1, <2>1, MakeReadyMoves
  <2>3. \A w \in Queues : ~On(k', w, t) /\ k'.list[w] = Unlink(k.list[w], t)
    BY <2>2, QueuesAreLists DEF Unlinked
  <2>4. \A w \in Queues : ~On(k, w, t)
    BY <1>1, <2>1, QueuesAreLists DEF Orderly, Settled, Placed
  <2>5. \A w \in Queues : k'.list[w] = k.list[w]
    BY <2>3, <2>4 DEF On, Unlink
  <2> QED BY <1>2, <2>2, <2>5
<1>4. CASE StartScheduler
  BY <1>1, <1>2, <1>4, KernelStartupOrderly DEF StartScheduler
<1>5. CASE Tick
  <2>1. k' = ClockTick(k) /\ k.curr \in Thread
    BY <1>1, <1>5 DEF Tick, TickInterrupt, KernelState
  <2>2. SameThreads(k, k') \/ Rescheduled(k, k')
    BY <1>1, <2>1, ClockTickOrderly
  <2> QED BY <1>2, <2>2, QueuesAreLists DEF SameThreads, Rescheduled
<1>6. ~TimerInterrupt
  <2> SUFFICES ASSUME TimerInterrupt PROVE FALSE
    OBVIOUS
  <2>1. TimerDue(k) /\ k.nest = 0 /\ k.curr \in Thread
    BY <1>1 DEF TimerInterrupt, WaitInv, KernelState
  <2>2. \E b : \E u \in Thread : TimedOut(k, b, u)
    BY <1>1, <2>1, TimerExpireOrderly
  <2> QED BY <2>2, NeverExpires DEF TimedOut
<1>7. CASE InterruptReturn
  BY <1>2, <1>7 DEF InterruptReturn
<1> QED BY <1>3, <1>4, <1>5, <1>6, <1>7 DEF Boot, Interrupted

\* Before the first call nobody waits.
LEMMA ForeverInvInit == Init => ForeverInv
<1> SUFFICES ASSUME Init PROVE ForeverInv
  OBVIOUS
<1>1. PICK p \in [User -> Prio] :
        k = KernelInit([t \in Thread |-> IF t = Idle THEN PrioMax ELSE p[t]])
  BY DEF Init, ProcessorInit
<1>2. /\ \A t \in User : k.err[t] = "EOK" /\ pc[t] = "run"
      /\ \A w \in Queues : k.list[w] = <<>>
  BY <1>1, QueuesAreLists DEF KernelInit, User, Init
<1>3. \A t \in User : Endless(k, pc[t], tmo[t], t)
  BY <1>2, EndlessNowhere
<1> QED BY <1>2, <1>3 DEF ForeverInv

\* Every step: each message that is queued while threads wait has a woken
\* receiver on its way, each free block a woken sender.
LEMMA ForeverInvNext ==
  ASSUME \A d \in Timeouts : d > TimerMax,
         WaitInv, BlockInv, BlockInv', ForeverInv, [Next]_vars
  PROVE  ForeverInv'
<1>0. /\ LaidOut(q) /\ pc \in [Thread -> Pc] /\ tmo \in [Thread -> Timeouts \cup {0}]
      /\ Queues = {RecvQ, SendQ} /\ RecvQ # SendQ
  BY MsgQueueAssumption DEF BlockInv, WaitInv, Queues
<1>1. ASSUME NEW t \in User, pc[t] = "run" \/ pc[t] = "recvback", Receive(t)
      PROVE  ForeverInv'
  <2>1. FreeList(q') = FreeList(q) /\ Messages(q) # <<>> /\ Messages(q') = Tail(Messages(q))
    BY <1>0, <1>1, TakeHeadLays DEF Receive
  <2>2. Messages(q) \in Seq(Block)
    BY <1>0 DEF LaidOut, Linked
  <2>3. Supply(q', RecvQ) = Supply(q, RecvQ) - 1 /\ Supply(q', SendQ) = Supply(q, SendQ)
    BY <1>0, <2>1, <2>2, HeadTailProperties DEF Supply
  <2>4. /\ k' = k /\ pc' = [pc EXCEPT ![t] = "run"]
        /\ \A u \in Thread \ {t} : tmo'[u] = tmo[u]
    BY <1>0, <1>1 DEF Receive, Awake, Goto
  <2>5. pc[t] = "run" \/ pc[t] \in Waits(RecvQ)
    BY <1>1 DEF Waits
  <2> QED BY <1>0, <2>3, <2>4, <2>5, TakeKeepsForever
<1>2. ASSUME NEW t \in User, pc[t] = "run" \/ pc[t] = "sendback", q.lfree # Null,
             q' \in {TakeFree(q), [TakeFree(q) EXCEPT !.next[q.lfree] = Null]},
             NEW to \in {"copy", "ucopy"}, k' = k, pc' = [pc EXCEPT ![t] = to],
             \A u \in Thread \ {t} : tmo'[u] = tmo[u]
      PROVE  ForeverInv'
  <2>1. FreeList(q') = Tail(FreeList(q)) /\ FreeList(q) # <<>> /\ Messages(q') = Messages(q)
    BY <1>0, <1>2, TakeFreeLays
  <2>2. FreeList(q) \in Seq(Block)
    BY <1>0 DEF LaidOut, Linked
  <2>3. Supply(q', SendQ) = Supply(q, SendQ) - 1 /\ Supply(q', RecvQ) = Supply(q, RecvQ)
    BY <1>0, <2>1, <2>2, HeadTailProperties DEF Supply
  <2>4. pc[t] = "run" \/ pc[t] \in Waits(SendQ)
    BY <1>0, <1>2 DEF Waits
  <2> QED BY <1>0, <1>2, <2>3, <2>4, TakeKeepsForever
<1>3. ASSUME NEW t \in User, NEW w \in Queues, NEW d \in Timeouts \cup {0},
             NEW to, Wait(t, w, d, to), Executes(t), Supply(q, w) = 0,
             to = (IF w = RecvQ THEN "recvwait" ELSE "sendwait"),
             \/ pc[t] = "run" /\ d \in Timeouts
             \/ pc[t] = (IF w = RecvQ THEN "recvback" ELSE "sendback") /\ d = tmo[t]
      PROVE  ForeverInv'
  <2>1. d > TimerMax
    <3>1. CASE d = tmo[t] /\ pc[t] = (IF w = RecvQ THEN "recvback" ELSE "sendback")
      <4>1. pc[t] \in Waits(w)
        BY <3>1 DEF Waits
      <4> QED BY <3>1, <4>1 DEF ForeverInv, Endless
    <3> QED BY <1>3, <3>1
  <2>2. d \in Timeouts
    BY <1>3, <2>1, KernelAssumption
  <2> QED BY <1>3, <2>1, <2>2, WaitKeepsForever
<1>4. /\ q.lhead = Null => Supply(q, RecvQ) = 0
      /\ q.lfree = Null => Supply(q, SendQ) = 0
  <2>1. /\ q.lhead = Null => Messages(q) = <<>>
        /\ q.lfree = Null => FreeList(q) = <<>>
    BY <1>0, LinkedBegins DEF LaidOut
  <2> QED BY <1>0, <2>1 DEF Supply
<1>5. ASSUME NEW t \in User PROVE tmo[t] \in Timeouts \cup {0}
  BY <1>0 DEF User
<1>6. ASSUME NEW t \in User, Recv(t) \/ RecvBack(t) PROVE ForeverInv'
  <2>1. CASE Receive(t)
    BY <1>1, <1>6, <2>1 DEF Recv, RecvBack, At
  <2>2. CASE Recv(t) /\ ~Receive(t)
    <3>1. PICK d \in Timeouts : Wait(t, RecvQ, d, "recvwait")
      BY <2>2 DEF Recv
    <3>2. Executes(t) /\ pc[t] = "run" /\ q.lhead = Null /\ RecvQ \in Queues
      BY <1>0, <2>2 DEF Recv, At
    <3> QED BY <1>3, <1>4, <3>1, <3>2
  <2>3. CASE RecvBack(t) /\ ~Receive(t)
    <3>1. Executes(t) /\ pc[t] = "recvback" /\ RecvQ \in Queues
      BY <1>0, <2>3 DEF RecvBack, At
    <3>2. ~Expired(t)
      BY <3>1, NeverExpires
    <3>3. Wait(t, RecvQ, tmo[t], "recvwait") /\ q.lhead = Null
      BY <2>3, <3>2 DEF RecvBack
    <3> QED BY <1>3, <1>4, <1>5, <3>1, <3>3
  <2> QED BY <1>6, <2>1, <2>2, <2>3
<1>7. ASSUME NEW t \in User, Send(t) \/ SendBack(t) PROVE ForeverInv'
  <2>1. CASE Reserve(t)
    BY <1>0, <1>2, <1>7, <2>1 DEF Send, SendBack, At, Reserve, Awake, Goto
  <2>2. CASE Send(t) /\ ~Reserve(t)
    <3>1. PICK d \in Timeouts : Wait(t, SendQ, d, "sendwait")
      BY <2>2 DEF Send
    <3>2. Executes(t) /\ pc[t] = "run" /\ q.lfree = Null /\ SendQ \in Queues
      BY <1>0, <2>2 DEF Send, At
    <3> QED BY <1>0, <1>3, <1>4, <3>1, <3>2
  <2>3. CASE SendBack(t) /\ ~Reserve(t)
    <3>1. Executes(t) /\ pc[t] = "sendback" /\ SendQ \in Queues
      BY <1>0, <2>3 DEF SendBack, At
    <3>2. ~Expired(t)
      BY <3>1, NeverExpires
    <3>3. Wait(t, SendQ, tmo[t], "sendwait") /\ q.lfree = Null
      BY <2>3, <3>2 DEF SendBack
    <3> QED BY <1>0, <1>3, <1>4, <1>5, <3>1, <3>3
  <2> QED BY <1>7, <2>1, <2>2, <2>3
<1>8. ASSUME NEW t \in User, UrgentReserve(t) PROVE ForeverInv'
  BY <1>2, <1>8 DEF UrgentReserve, At, Goto
<1>9. ASSUME NEW t \in User, RecvRelease(t) PROVE ForeverInv'
  <2>1. PICK c : c = held[t]
    OBVIOUS
  <2>2. /\ Executes(t) /\ pc[t] = "run" /\ AndResume(t, SendQ) /\ q' = PutFree(q, c)
        /\ c # Null /\ t \in Thread
    BY <1>9, <2>1 DEF RecvRelease, At, User
  <2>3. c \in Block /\ ~Contains(FreeList(q), c) /\ ~Contains(Messages(q), c)
    BY <2>1, <2>2, CarriedIsOffLists
  <2>4. FreeList(q') = <<c>> \o FreeList(q) /\ Messages(q') = Messages(q)
    BY <1>0, <2>2, <2>3, PutFreeLays
  <2>5. FreeList(q) \in Seq(Block)
    BY <1>0 DEF LaidOut, Linked
  <2>6. Len(<<c>> \o FreeList(q)) = Len(FreeList(q)) + 1
    BY <2>3, <2>5
  <2>7. Supply(q', SendQ) = Supply(q, SendQ) + 1 /\ Supply(q', RecvQ) = Supply(q, RecvQ)
    BY <1>0, <2>4, <2>6 DEF Supply
  <2> QED BY <1>0, <2>2, <2>7, ResumeKeepsForever
<1>10. ASSUME NEW t \in User, NEW m \in Msg, Deliver(t, m) PROVE ForeverInv'
  <2>1. PICK c : c = blk[t]
    OBVIOUS
  <2>2. /\ Executes(t) /\ pc[t] \in {"copy", "ucopy"} /\ AndResume(t, RecvQ) /\ t \in Thread
    BY <1>10 DEF Deliver, At, User
  <2>3. \/ pc[t] = "copy" /\ q' = PutTail(Filled(t, m), blk[t])
        \/ pc[t] = "ucopy" /\ q' = PutHead(Filled(t, m), blk[t])
    BY <1>10 DEF Deliver, At
  <2>4. /\ c \in Block /\ FreeList(q') = FreeList(q)
        /\ Messages(q') = IF pc[t] = "copy" THEN Append(Messages(q), c)
                          ELSE <<c>> \o Messages(q)
    BY <2>1, <2>2, <2>3, DeliverLays
  <2>5. Messages(q) \in Seq(Block)
    BY <1>0 DEF LaidOut, Linked
  <2>6. /\ Len(<<c>> \o Messages(q)) = Len(Messages(q)) + 1
        /\ Len(Append(Messages(q), c)) = Len(Messages(q)) + 1
    BY <2>4, <2>5
  <2>7. Supply(q', RecvQ) = Supply(q, RecvQ) + 1 /\ Supply(q', SendQ) = Supply(q, SendQ)
    BY <1>0, <2>4, <2>6 DEF Supply
  <2> QED BY <1>0, <2>2, <2>7, ResumeKeepsForever
<1>11. ASSUME NEW t \in User, Check(t) PROVE ForeverInv'
  <2>1. /\ Executes(t) /\ k' = SchedulerCheck(k) /\ q' = q /\ tmo' = tmo
        /\ pc[t] \in {"recvwait", "sendwait", "check"}
        /\ pc' = [pc EXCEPT ![t] = CASE pc[t] = "recvwait" -> "recvback"
                                     [] pc[t] = "sendwait" -> "sendback"
                                     [] pc[t] = "check" -> "run"]
    BY <1>11 DEF Check, At, Goto, local
  <2>2. t = k.curr /\ t \in Thread /\ Sound(k) /\ Settled(k) /\ k.nest = 0
    BY <2>1, Caller DEF WaitInv, Orderly
  <2>3. k'.err = k.err /\ \A w \in Queues : k'.list[w] = k.list[w]
    BY <2>1, <2>2, SchedulerCheckOrderly, QueuesAreLists DEF Rescheduled
  <2>4. ASSUME NEW u \in User, NEW w \in Queues
        PROVE  pc'[u] \in Waits(w) <=> pc[u] \in Waits(w)
    <3>1. CASE u = t
      BY <1>0, <2>1, <2>2, <3>1 DEF Waits
    <3>2. CASE u # t
      BY <1>0, <2>1, <3>2 DEF User
    <3> QED BY <3>1, <3>2
  <2> QED BY <2>1, <2>3, <2>4, FrameKeepsForever DEF On
<1>12. CASE UNCHANGED vars
  BY <1>12, FrameKeepsForever DEF vars
<1> QED
  BY <1>6, <1>7, <1>8, <1>9, <1>10, <1>11, <1>12, ProcessorKeepsForever DEF Next, Step

\* No wake-up is lost while waits have no limit: as long as a thread waits to
\* receive, every queued message has a woken receiver on its way to it, and the
\* same for senders and free blocks, however many threads send, receive, are
\* woken and come too late (MDS_KernelWaitQueueResume in the critical section
\* that queues the message, the loop around MDS_KernelWaitQueueUntil).
THEOREM WakeUpsNeverLost ==
  ASSUME \A d \in Timeouts : d > TimerMax
  PROVE  Spec => []NoLostWakeup
<1>1. WaitInv /\ BlockInv /\ BlockInv' /\ ForeverInv /\ [Next]_vars => ForeverInv'
  BY ForeverInvNext
<1>2. ForeverInv => NoLostWakeup
  <2> SUFFICES ASSUME ForeverInv PROVE NoLostWakeup
    OBVIOUS
  <2>1. /\ k.list[RecvQ] # <<>> => Supply(q, RecvQ) <= Cardinality(Coming(pc, k, RecvQ))
        /\ k.list[SendQ] # <<>> => Supply(q, SendQ) <= Cardinality(Coming(pc, k, SendQ))
    BY DEF ForeverInv, Queues
  <2>2. /\ Supply(q, RecvQ) = Len(Chain(q, q.lhead))
        /\ Supply(q, SendQ) = Len(Chain(q, q.lfree))
        /\ Coming(pc, k, RecvQ) =
             {t \in User : pc[t] \in {"recvwait", "recvback"} /\ ~On(k, RecvQ, t)}
        /\ Coming(pc, k, SendQ) =
             {t \in User : pc[t] \in {"sendwait", "sendback"} /\ ~On(k, SendQ, t)}
    BY MsgQueueAssumption DEF Supply, Coming, Waits, Messages, FreeList
  <2> QED BY <2>1, <2>2 DEF NoLostWakeup
<1> QED BY <1>1, <1>2, ForeverInvInit, QueueAlwaysInOrder, PTL DEF Spec
=============================================================================
