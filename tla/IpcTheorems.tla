---------------------------- MODULE IpcTheorems ----------------------------
(***************************************************************************)
(* What the threads that share a semaphore, a mutex, a condition, an event *)
(* or a memory pool can rely on, for any number of threads, priorities,    *)
(* permits, bits and blocks, whenever the object is retired and put to use *)
(* again.                                                                  *)
(***************************************************************************)
EXTENDS Ipc, MdsKernelTheorems, FiniteSetTheorems, TLAPS

-----------------------------------------------------------------------------
(* The kernel under the calls of the objects                               *)

\* No timer waits for as long as TimerMax.
Short(s) == \A t \in Thread : s.left[t] < TimerMax

\* Every waiter has its timer armed.
WaitersTimed(s) == \A t \in Thread : \A w \in WaitQ : On(s, w, t) => Armed(s, t)

\* The current thread, if it is suspended, is in a wait queue: the waits of
\* the objects go on in the caller.
CurrentWaits(s) ==
  s.curr # NoThread /\ s.st[s.curr] = "SUSPENDED" => \E w \in WaitQ : On(s, w, s.curr)

\* What every call finds and leaves of the kernel state s.
Steady(s) ==
  /\ Orderly(s) /\ s.nest = 0 /\ s.fault \notin {"broken_switch", "relinked_timer"}
  /\ Short(s) /\ WaitersTimed(s) /\ CurrentWaits(s)

\* From s to n nobody was given another priority, put in an empty wait queue
\* or to sleep.
Awakens(s, n) ==
  /\ n.prio = s.prio
  /\ \A w \in WaitQ : s.list[w] = <<>> => n.list[w] = <<>>
  /\ \A u \in Thread : n.st[u] = "SUSPENDED" => s.st[u] = "SUSPENDED"

\* Two calls in a row that put nobody to sleep are like one.
LEMMA AwakensCompose ==
  ASSUME NEW s, NEW m, NEW n, Awakens(s, m), Awakens(m, n)
  PROVE  Awakens(s, n)
BY DEF Awakens

\* The fields of a steady state, and where its current thread is.
LEMMA SteadyFields ==
  ASSUME NEW s, Steady(s)
  PROVE  /\ s \in KernelState /\ Sound(s) /\ Settled(s) /\ Orderly(s) /\ Distinct(s.tq)
         /\ s.nest = 0 /\ s.curr \in Thread \cup {NoThread}
         /\ WaitQ \subseteq Lists \ Prio /\ WaitQ \subseteq Lists /\ NoThread \notin Thread
         /\ s.prio \in [Thread -> Level] /\ s.st \in [Thread -> State]
         /\ \A t \in Thread : Placed(s, t) /\ Ranked(s, t)
         /\ s.curr # NoThread /\ s.st[s.curr] = "SUSPENDED" => ~OnReadyLevel(s, s.curr)
<1>1. Orderly(s) /\ s.nest = 0
  BY DEF Steady
<1>2. s \in KernelState
  BY <1>1 DEF Orderly, Sound
<1>3. s.curr \in Thread \cup {NoThread} /\ s.prio \in [Thread -> Level] /\ s.st \in [Thread -> State]
  BY <1>2 DEF KernelState
<1> QED BY <1>1, <1>2, <1>3, KernelAssumption DEF Orderly, Settled, CurrentKept, Lists

\* A state with the same threads in the same places.
LEMMA SteadyFrame ==
  ASSUME NEW s, Steady(s), NEW n, Orderly(n), Short(n), n.list = s.list, n.st = s.st,
         n.prio = s.prio, n.tq = s.tq, n.curr = s.curr, n.nest = s.nest,
         n.fault \notin {"broken_switch", "relinked_timer"}
  PROVE  Steady(n) /\ Awakens(s, n)
BY DEF Steady, Awakens, WaitersTimed, CurrentWaits, On, Armed

\* A step that moves one thread.
LEMMA SteadyStep ==
  ASSUME NEW s, Steady(s), NEW n, Orderly(n), Short(n), NEW t \in Thread,
         Others(s, n, t), SameProcessor(s, n),
         \A w \in WaitQ : On(n, w, t) => Armed(n, t),
         n.st[t] = "SUSPENDED" => \E w \in WaitQ : On(n, w, t)
  PROVE  Steady(n)
<1>1. WaitQ \subseteq Lists
  BY SteadyFields
<1>2. WaitersTimed(n)
  BY <1>1 DEF Steady, WaitersTimed, Others
<1>3. CurrentWaits(n)
  <2> SUFFICES ASSUME n.curr # NoThread, n.st[n.curr] = "SUSPENDED", n.curr # t
               PROVE  \E w \in WaitQ : On(n, w, n.curr)
    BY DEF CurrentWaits
  <2>1. n.curr = s.curr /\ s.curr \in Thread \ {t}
    BY SteadyFields DEF SameProcessor
  <2>2. n.st[s.curr] = s.st[s.curr] /\ \A l \in Lists : On(n, l, s.curr) <=> On(s, l, s.curr)
    BY <2>1 DEF Others
  <2> QED BY <1>1, <2>1, <2>2 DEF Steady, CurrentWaits
<1> QED BY <1>2, <1>3 DEF Steady, SameProcessor

\* The error of a thread that the timer did not wake.
SetErr(s, t, e) == [s EXCEPT !.err[t] = e]

\* Setting the error of a thread keeps the kernel steady.
LEMMA ErrSteady ==
  ASSUME NEW s, Steady(s), NEW t \in Thread, NEW e \in Err,
         s.st[t] = "SUSPENDED" => ~OnReadyLevel(s, t), NEW n, n = SetErr(s, t, e)
  PROVE  /\ Steady(n) /\ Awakens(s, n) /\ SameProcessor(s, n)
         /\ n.list = s.list /\ n.st = s.st
<1>1. /\ n \in KernelState /\ n.list = s.list /\ n.mask = s.mask /\ n.st = s.st
      /\ n.prio = s.prio /\ n.tq = s.tq /\ n.left = s.left /\ SameProcessor(s, n)
      /\ \A u \in Thread \ {t} : n.err[u] = s.err[u]
  <2>1. s \in KernelState
    BY SteadyFields
  <2> QED BY <2>1 DEF SetErr, KernelState, SameProcessor
<1>2. Sound(n)
  BY <1>1, SteadyFields, SoundFrame DEF SameTable
<1>3. Others(s, n, t)
  BY <1>1 DEF Others, Armed, On
<1>4. Placed(s, t) /\ Ranked(s, t) /\ Distinct(s.tq)
  BY SteadyFields
<1>5. Placed(n, t) /\ Ranked(n, t)
  <2>1. /\ \A l : On(n, l, t) <=> On(s, l, t)
        /\ OnReadyLevel(n, t) <=> OnReadyLevel(s, t)
        /\ Armed(n, t) <=> Armed(s, t)
    BY <1>1 DEF OnReadyLevel, On, Armed
  <2>2. n.st[t] = s.st[t] /\ n.prio[t] = s.prio[t] /\ n.curr = s.curr
    BY <1>1 DEF SameProcessor
  <2>3. Placed(n, t)
    BY <1>4, <2>1, <2>2 DEF Placed
  <2> QED BY <1>4, <2>1, <2>2, <2>3 DEF Ranked
<1>6. t = s.curr => n.st[t] \notin {"INACTIVED", "FREE"}
  BY <1>1, SteadyFields DEF Orderly, CurrentKept
<1>7. n.st[t] = "SUSPENDED" => ~OnReadyLevel(n, t)
  BY <1>1 DEF OnReadyLevel, On
<1>8. Orderly(n)
  BY <1>1, <1>2, <1>3, <1>4, <1>5, <1>6, <1>7, SteadyFields, OrderlyStep DEF SameProcessor
<1>9. Short(n) /\ n.fault \notin {"broken_switch", "relinked_timer"} /\ n.curr = s.curr /\ n.nest = s.nest
  BY <1>1 DEF Steady, Short, SameProcessor
<1> QED BY <1>1, <1>8, <1>9, SteadyFrame

\* A use of broken memory that is none of the lists'.
SetFault(s, f) == [s EXCEPT !.fault = f]

\* So does what goes wrong in a call of an object without breaking a list.
LEMMA FaultSteady ==
  ASSUME NEW s, Steady(s), NEW f \in {"left_masked", "null_owner", "wild_block"},
         NEW n, n = SetFault(s, f)
  PROVE  Steady(n) /\ Awakens(s, n) /\ n.list = s.list /\ n.st = s.st /\ n.curr = s.curr
<1>1. /\ n \in KernelState /\ n.list = s.list /\ n.mask = s.mask /\ n.st = s.st
      /\ n.prio = s.prio /\ n.tq = s.tq /\ n.left = s.left /\ n.curr = s.curr
      /\ n.nest = s.nest /\ n.fault = f /\ n.err = s.err
  <2>1. s \in KernelState
    BY SteadyFields
  <2> QED BY <2>1 DEF SetFault, KernelState, Fault
<1>2. Sound(n)
  BY <1>1, SteadyFields, SoundFrame DEF SameTable
<1>3. Orderly(n)
  <2>1. SameThreads(s, n) /\ Settled(s) /\ CurrentKept(s)
    BY <1>1, SteadyFields DEF SameThreads, Orderly
  <2> QED BY <1>2, <2>1, SameThreadsOrderly DEF Orderly
<1>4. Short(n)
  BY <1>1 DEF Steady, Short
<1> QED BY <1>1, <1>3, <1>4, SteadyFrame

-----------------------------------------------------------------------------
(* Threads are woken                                                       *)

\* What MDS_ThreadStartup and MDS_ThreadResume do to the times.
LEMMA MakeReadyShort ==
  ASSUME NEW s, Sound(s), Distinct(s.tq), Short(s), NEW t \in Thread, NEW n, n = MakeReady(s, t)
  PROVE  Short(n)
<1>1. PICK a : a = TimerStop(s, t)
  OBVIOUS
<1>2. Sound(a) /\ a.left = [s.left EXCEPT ![t] = 0] /\ s.left \in [Thread -> Nat]
  BY <1>1, TimerStopMoves DEF TimerStop, Sound, KernelState
<1>3. PICK b : b = RemoveThread(a, t)
  OBVIOUS
<1>4. Sound(b) /\ b.left = a.left
  BY <1>2, <1>3, RemoveThreadMoves
<1>5. PICK c : c = InsertThread(b, t)
  OBVIOUS
<1>6. Sound(c) /\ c.left = b.left
  BY <1>4, <1>5, InsertThreadMoves
<1>7. n = SetState(c, t, "READY") /\ "READY" \in State
  BY <1>1, <1>3, <1>5 DEF MakeReady, State
<1>8. n.left = c.left
  BY <1>6, <1>7, SetStateMoves
<1>9. n.left = [s.left EXCEPT ![t] = 0]
  BY <1>2, <1>4, <1>6, <1>8
<1>10. \A u \in Thread : n.left[u] = IF u = t THEN 0 ELSE s.left[u]
  BY <1>2, <1>9
<1>11. 0 < TimerMax
  BY KernelAssumption
<1> QED BY <1>10, <1>11 DEF Short

\* MDS_ThreadResume of a waiter, or MDS_ThreadStartup of a new thread.
LEMMA MakeReadySteady ==
  ASSUME NEW s, Steady(s), NEW t \in Thread, s.st[t] \in {"INACTIVED", "SUSPENDED"},
         NEW n, n = MakeReady(s, t)
  PROVE  Steady(n) /\ Awakens(s, n) /\ SameProcessor(s, n) /\ n.st[t] = "READY"
<1>1. Orderly(n) /\ Short(n)
  BY SteadyFields, MakeReadyOrderly, MakeReadyShort DEF Steady
<1>2. /\ Others(s, n, t) /\ SameProcessor(s, n) /\ Unlinked(s, n, t) /\ n.st[t] = "READY"
      /\ n.prio = s.prio /\ \A l \in Lists : On(n, l, t) <=> l = s.prio[t] /\ l \in Prio
  BY SteadyFields, MakeReadyMoves
<1>3. \A w \in WaitQ : ~On(n, w, t)
  BY <1>2, SteadyFields
<1>4. Steady(n)
  BY <1>1, <1>2, <1>3, SteadyStep
<1>5. ASSUME NEW w \in WaitQ, s.list[w] = <<>> PROVE n.list[w] = <<>>
  <2>1. n.list[w] = Unlink(s.list[w], t)
    BY <1>2, <1>3, SteadyFields DEF Unlinked
  <2>2. ~Contains(s.list[w], t)
    BY <1>5 DEF Contains
  <2> QED BY <1>5, <2>1, <2>2 DEF Unlink
<1>6. \A u \in Thread : n.st[u] = "SUSPENDED" => s.st[u] = "SUSPENDED"
  BY <1>2 DEF Others
<1> QED BY <1>2, <1>4, <1>5, <1>6 DEF Awakens

\* MDS_KernelWaitQueueResume.
LEMMA ResumeSteady ==
  ASSUME NEW s, Steady(s), NEW q \in WaitQ, NEW n, n = WaitQueueResume(s, q),
         NEW h, h = WaitQueuePeek(s, q)
  PROVE  /\ Steady(n) /\ Awakens(s, n) /\ SameProcessor(s, n)
         /\ h = NoThread <=> s.list[q] = <<>>
         /\ h = NoThread => n = s
         /\ h # NoThread =>
              /\ h \in User /\ n.st[h] = "READY" /\ h = Head(s.list[q]) /\ On(s, q, h)
              /\ n.list[q] = Unlink(s.list[q], h)
<1>1. CASE s.list[q] = <<>>
  <2>1. n = s /\ h = NoThread
    BY <1>1 DEF WaitQueueResume, WaitQueuePeek
  <2> QED BY <1>1, <2>1 DEF Awakens, SameProcessor
<1>2. CASE s.list[q] # <<>>
  <2>1. PICK g \in Thread : Woken(s, n, q, g)
    BY <1>2, SteadyFields, WaitQueueResumeOrderly
  <2>2. /\ g = Head(s.list[q]) /\ On(s, q, g) /\ s.st[g] = "SUSPENDED" /\ g # Idle
        /\ n.list[q] = Unlink(s.list[q], g)
    BY <2>1 DEF Woken
  <2>3. h = g /\ h # NoThread
    BY <1>2, <2>1, <2>2, KernelAssumption DEF WaitQueuePeek
  <2>4. n = MakeReady(s, h)
    BY <2>2, <2>3 DEF WaitQueueResume, ThreadResume
  <2>5. Steady(n) /\ Awakens(s, n) /\ SameProcessor(s, n) /\ n.st[h] = "READY"
    BY <2>1, <2>2, <2>3, <2>4, MakeReadySteady
  <2> QED BY <1>2, <2>1, <2>2, <2>3, <2>5 DEF User
<1> QED BY <1>1, <1>2

\* MDS_KernelWaitQueueDrain: the one waiter it wakes is told so.
LEMMA DrainSteady ==
  ASSUME NEW s, Steady(s), NEW q \in WaitQ, NEW n, n = WaitQueueDrain(s, q)
  PROVE  Steady(n) /\ Awakens(s, n) /\ SameProcessor(s, n)
<1>1. PICK h, m : h = WaitQueuePeek(s, q) /\ m = WaitQueueResume(s, q)
  OBVIOUS
<1>2. /\ Steady(m) /\ Awakens(s, m) /\ SameProcessor(s, m)
      /\ h # NoThread => h \in User /\ m.st[h] = "READY"
  BY <1>1, ResumeSteady
<1>3. CASE h = NoThread
  <2>1. n = s
    BY <1>1, <1>3 DEF WaitQueueDrain
  <2> QED BY <2>1 DEF Awakens, SameProcessor
<1>4. CASE h # NoThread
  <2>1. n = SetErr(m, h, "ENOENT") /\ "ENOENT" \in Err /\ h \in Thread /\ m.st[h] = "READY"
    BY <1>1, <1>2, <1>4 DEF WaitQueueDrain, SetErr, Err, User
  <2>2. Steady(n) /\ Awakens(m, n) /\ SameProcessor(m, n)
    BY <1>2, <2>1, ErrSteady
  <2> QED BY <1>2, <2>2, AwakensCompose DEF SameProcessor
<1> QED BY <1>3, <1>4

-----------------------------------------------------------------------------
(* Threads go to sleep                                                     *)

\* From s to n nobody but t fell asleep, in the wait queue q.
FallsAsleep(s, n, q, t) ==
  /\ n.prio = s.prio /\ SameProcessor(s, n)
  /\ \A w \in WaitQ \ {q} : n.list[w] = s.list[w]
  /\ \A u \in Thread \ {t} : n.st[u] = s.st[u]

\* What a wait does to the times.
LEMMA SuspendShort ==
  ASSUME NEW s, Sound(s), Distinct(s.tq), Short(s), NEW q, NEW t \in Thread, NEW d \in Nat,
         d < TimerMax, NEW isPrio, NEW n, n = WaitQueueSuspend(s, q, t, d, isPrio)
  PROVE  Short(n)
<1>1. CASE ThreadSuspendErr(s, t) # "EOK"
  BY <1>1 DEF WaitQueueSuspend
<1>2. CASE ThreadSuspendErr(s, t) = "EOK"
  <2>1. PICK a : a = TimerStop(s, t)
    OBVIOUS
  <2>2. Sound(a) /\ a.left = [s.left EXCEPT ![t] = 0] /\ s.left \in [Thread -> Nat]
    BY <2>1, TimerStopMoves DEF TimerStop, Sound, KernelState
  <2>3. PICK b : b = RemoveThread(a, t)
    OBVIOUS
  <2>4. Sound(b) /\ b.left = a.left
    BY <2>2, <2>3, RemoveThreadMoves
  <2>5. PICK c : c = SetState(b, t, "SUSPENDED")
    OBVIOUS
  <2>6. c.left = b.left /\ c \in KernelState
    <3>1. "SUSPENDED" \in State
      BY DEF State
    <3>2. Sound(c) /\ c.left = b.left
      BY <2>4, <2>5, <3>1, SetStateMoves
    <3> QED BY <3>2 DEF Sound
  <2>7. c = ThreadSuspend(s, t)
    BY <1>2, <2>1, <2>3, <2>5 DEF ThreadSuspend
  <2>8. PICK x : x = InsertBefore(c.list[q], t, Behind(s, t, isPrio))
    OBVIOUS
  <2>9. PICK e : e = QueueBecomes(c, q, x)
    OBVIOUS
  <2>10. n = TimerStart(e, t, d)
    BY <1>2, <2>7, <2>8, <2>9 DEF WaitQueueSuspend, Behind, QueueBecomes
  <2>11. e.left = c.left /\ DOMAIN e = DOMAIN c
    BY <2>6, <2>9 DEF QueueBecomes, KernelState
  <2>12. n.left \in {e.left, [e.left EXCEPT ![t] = d]}
    BY <2>6, <2>10, <2>11 DEF TimerStart, KernelState
  <2>13. e.left = [s.left EXCEPT ![t] = 0] /\ 0 < TimerMax
    BY <2>2, <2>4, <2>6, <2>11, KernelAssumption
  <2>14. ASSUME NEW u \in Thread PROVE n.left[u] \in {s.left[u], 0, d}
    <3>1. e.left \in [Thread -> Nat] /\ e.left[u] \in {s.left[u], 0}
      BY <2>2, <2>13
    <3>2. CASE n.left = e.left
      BY <3>1, <3>2
    <3>3. CASE n.left = [e.left EXCEPT ![t] = d]
      BY <3>1, <3>3
    <3> QED BY <2>12, <3>2, <3>3
  <2> QED BY <2>13, <2>14 DEF Short
<1> QED BY <1>1, <1>2

\* MDS_KernelWaitQueueSuspend of the caller, which may be asleep already.
LEMMA SuspendSteady ==
  ASSUME NEW s, Steady(s), NEW q \in WaitQ, NEW t \in User, t = s.curr, NEW d \in Nat,
         d < TimerMax, NEW isPrio, NEW n, n = WaitQueueSuspend(s, q, t, d, isPrio)
  PROVE  Steady(n) /\ FallsAsleep(s, n, q, t)
<1>1. CASE ThreadSuspendErr(s, t) # "EOK"
  <2>1. n = s
    BY <1>1 DEF WaitQueueSuspend
  <2> QED BY <2>1 DEF FallsAsleep, SameProcessor
<1>2. CASE ThreadSuspendErr(s, t) = "EOK"
  <2>1. t \in Thread \ {Idle}
    BY DEF User
  <2>2. Orderly(n) /\ Queued(s, n, q, t, d, isPrio)
    BY <1>2, <2>1, SteadyFields, WaitQueueSuspendOrderly
  <2>3. Short(n)
    BY <2>1, SteadyFields, SuspendShort DEF Steady
  <2>4. /\ Others(s, n, t) /\ SameProcessor(s, n) /\ Armed(n, t) /\ n.prio = s.prio
        /\ \A l \in Lists : On(n, l, t) <=> l = q
        /\ \A l \in WaitQ \ {q} : n.list[l] = s.list[l]
    BY <2>2 DEF Queued
  <2>5. On(n, q, t)
    BY <2>4, SteadyFields
  <2>6. Steady(n)
    BY <2>1, <2>2, <2>3, <2>4, <2>5, SteadyStep
  <2> QED BY <2>4, <2>6 DEF FallsAsleep, Others
<1> QED BY <1>1, <1>2

-----------------------------------------------------------------------------
(* The processor                                                           *)

\* The scheduler moves nobody in or out of a wait queue.
LEMMA RescheduledSteady ==
  ASSUME NEW s, s.nest = 0, s.fault \notin {"broken_switch", "relinked_timer"},
         WaitersTimed(s), NEW n, Orderly(n), Rescheduled(s, n), Short(n)
  PROVE  /\ Steady(n) /\ Awakens(s, n) /\ n.curr \in Thread
         /\ \A w \in WaitQ : n.list[w] = s.list[w]
<1>1. WaitQ \subseteq Lists \ Prio /\ NoThread \notin Thread
  BY KernelAssumption DEF Lists
<1>2. /\ n.curr \in Thread /\ n.nest = s.nest /\ n.fault = s.fault /\ n.st[n.curr] = "RUNNING"
      /\ \A w \in WaitQ : n.list[w] = s.list[w]
      /\ n.prio = s.prio /\ n.tq = s.tq
      /\ \A u \in Thread \ {n.curr} :
           n.st[u] = IF s.st[u] = "RUNNING" THEN "READY" ELSE s.st[u]
  BY <1>1 DEF Rescheduled
<1>3. WaitersTimed(n)
  BY <1>2 DEF WaitersTimed, On, Armed
<1>4. CurrentWaits(n)
  BY <1>2 DEF CurrentWaits
<1>5. Awakens(s, n)
  BY <1>2 DEF Awakens
<1> QED BY <1>2, <1>3, <1>4, <1>5 DEF Steady

\* MDS_KernelSchedulerCheck.
LEMMA CheckSteady ==
  ASSUME NEW s, Steady(s), s.curr # NoThread, NEW n, n = SchedulerCheck(s)
  PROVE  /\ Steady(n) /\ Awakens(s, n) /\ n.curr \in Thread
         /\ \A w \in WaitQ : n.list[w] = s.list[w]
<1>1. Orderly(n) /\ Rescheduled(s, n) /\ n.left = s.left
  BY SteadyFields, SchedulerCheckOrderly
<1>2. Short(n)
  BY <1>1 DEF Steady, Short
<1> QED BY <1>1, <1>2, RescheduledSteady DEF Steady

\* The tick interrupt up to its timers.
LEMMA TickSteady ==
  ASSUME NEW s, Steady(s), s.curr # NoThread, NEW n, n = ClockTick(s)
  PROVE  Steady(n) /\ Awakens(s, n) /\ n.curr \in Thread
<1>1. /\ Orderly(n) /\ n.nest = s.nest /\ n.fault = s.fault
      /\ SameThreads(s, n) \/ Rescheduled(s, n)
      /\ \A t \in Thread : n.left[t] = IF s.left[t] > 0 THEN s.left[t] - 1 ELSE 0
  BY SteadyFields, ClockTickOrderly
<1>2. Short(n)
  <2>1. \A t \in Thread : s.left[t] \in Nat /\ s.left[t] < TimerMax
    BY SteadyFields DEF KernelState, Steady, Short
  <2> QED BY <1>1, <2>1, KernelAssumption DEF Short
<1>3. CASE SameThreads(s, n)
  <2>1. n.curr \in Thread
    BY <1>3, SteadyFields DEF SameThreads
  <2> QED BY <1>1, <1>2, <1>3, <2>1, SteadyFrame DEF SameThreads, Steady
<1>4. CASE Rescheduled(s, n)
  BY <1>1, <1>2, <1>4, RescheduledSteady DEF Steady
<1> QED BY <1>1, <1>3, <1>4

\* One timer of MDS_WorkQueueCheck that is due.
LEMMA ExpireSteady ==
  ASSUME NEW s, Steady(s), s.curr # NoThread, TimerDue(s), NEW n, n = TimerExpire(s)
  PROVE  Steady(n) /\ Awakens(s, n) /\ n.curr \in Thread
<1>1. /\ Orderly(n) /\ n.left = s.left
      /\ \E b : \E u \in Thread : TimedOut(s, b, u) /\ Rescheduled(b, n)
  BY SteadyFields, TimerExpireOrderly
<1>2. PICK b : \E u \in Thread : TimedOut(s, b, u) /\ Rescheduled(b, n)
  BY <1>1
<1>3. PICK u \in Thread : TimedOut(s, b, u) /\ Rescheduled(b, n)
  BY <1>2
<1>4. /\ s.st[u] = "SUSPENDED" /\ Others(s, b, u) /\ SameProcessor(s, b) /\ Unlinked(s, b, u)
      /\ b.st = s.st /\ b.prio = s.prio /\ Armed(s, u)
      /\ \A l \in Lists : On(b, l, u) <=> l = s.prio[u]
  BY <1>3 DEF TimedOut
<1>5. s.prio[u] \in Prio
  BY <1>4, SteadyFields DEF Ranked
<1>6. \A w \in WaitQ : ~On(b, w, u) /\ b.list[w] = Unlink(s.list[w], u)
  BY <1>4, <1>5, SteadyFields DEF Unlinked
<1>7. WaitersTimed(b)
  BY <1>4, <1>6, SteadyFields DEF WaitersTimed, Others, Steady
<1>8. Awakens(s, b)
  <2>1. ASSUME NEW w \in WaitQ, s.list[w] = <<>> PROVE b.list[w] = <<>>
    <3>1. ~Contains(s.list[w], u)
      BY <2>1 DEF Contains
    <3> QED BY <1>6, <2>1, <3>1 DEF Unlink
  <2> QED BY <1>4, <2>1 DEF Awakens
<1>9. Short(n) /\ b.nest = 0 /\ b.fault \notin {"broken_switch", "relinked_timer"}
  BY <1>1, <1>4 DEF Steady, Short, SameProcessor
<1>10. Steady(n) /\ Awakens(b, n) /\ n.curr \in Thread
  BY <1>1, <1>3, <1>7, <1>9, RescheduledSteady
<1> QED BY <1>8, <1>10, AwakensCompose

\* MDS_KernelStartup.
LEMMA KernelStartupSteady ==
  ASSUME NEW s, Steady(s), s.curr = NoThread, NEW n, n = KernelStartup(s)
  PROVE  Steady(n) /\ Awakens(s, n) /\ n.curr \in Thread
<1>1. /\ Orderly(n) /\ n.curr \in Thread /\ n.st[n.curr] = "RUNNING"
      /\ \A u \in Thread \ {n.curr} : n.st[u] = s.st[u]
      /\ n.list = s.list /\ n.prio = s.prio /\ n.tq = s.tq
      /\ n.left = s.left /\ n.nest = s.nest /\ n.fault = s.fault
  BY SteadyFields, KernelStartupOrderly
<1>2. Short(n) /\ WaitersTimed(n) /\ CurrentWaits(n)
  BY <1>1 DEF Steady, Short, WaitersTimed, CurrentWaits, On, Armed
<1>3. Awakens(s, n)
  BY <1>1 DEF Awakens
<1> QED BY <1>1, <1>2, <1>3 DEF Steady

\* MDS_ThreadStartup up to its scheduler check.
LEMMA StartSteady ==
  ASSUME NEW s, Steady(s), NEW t \in Thread, NEW n, n = ThreadStartup(s, t)
  PROVE  Steady(n) /\ Awakens(s, n) /\ SameProcessor(s, n)
<1>1. CASE s.st[t] = "INACTIVED"
  BY <1>1, MakeReadySteady DEF ThreadStartup
<1>2. CASE s.st[t] # "INACTIVED"
  BY <1>2 DEF ThreadStartup, Awakens, SameProcessor
<1> QED BY <1>1, <1>2

\* The critical section of MDS_ThreadYield.
LEMMA YieldSteady ==
  ASSUME NEW s, Steady(s), NEW t \in Thread, NEW n, n = ThreadYield(s, t)
  PROVE  Steady(n) /\ Awakens(s, n) /\ SameProcessor(s, n)
<1>1. Sound(n)
  BY SteadyFields, ThreadYieldSound
<1>2. /\ n.list = s.list /\ n.st = s.st /\ n.err = s.err /\ n.prio = s.prio
      /\ n.tq = s.tq /\ n.curr = s.curr /\ n.nest = s.nest /\ n.fault = s.fault
      /\ n.left = s.left
  <2>1. s \in KernelState
    BY SteadyFields
  <2> QED BY <2>1 DEF ThreadYield, SetYield, KernelState
<1>3. Orderly(n)
  <2>1. SameThreads(s, n) /\ Settled(s) /\ CurrentKept(s)
    BY <1>2, SteadyFields DEF SameThreads, Orderly
  <2> QED BY <1>1, <2>1, SameThreadsOrderly DEF Orderly
<1>4. Short(n) /\ n.fault \notin {"broken_switch", "relinked_timer"}
  BY <1>2 DEF Steady, Short
<1> QED BY <1>2, <1>3, <1>4, SteadyFrame DEF SameProcessor

-----------------------------------------------------------------------------
(* The inductive invariant                                                 *)

\* The objects, of whatever value.
SemState == [life : Life, value : Nat, max : Nat]
MutexState == [life : Life, owner : Thread \cup {NoThread}, prio : Level,
               value : {0, 1}, nest : NestMin..NestMax]
EventState == [life : Life, value : SUBSET Bit,
               mask : [Thread -> SUBSET Bit], opt : [Thread -> EventOpt]]
PoolState == [life : Life, lfree : PoolBlock \cup {Pool},
              header : [PoolBlock -> PoolBlock \cup {Pool}], held : [PoolBlock -> Nat]]

\* Nobody waits for a semaphore x that has a value.
SemOK(s, x) == x \in SemState /\ (s.list[SemQ] # <<>> => x.value = 0)

\* A mutex m that has an owner has no value, and keeps the priority its owner
\* has.
MutexOK(s, m) ==
  /\ m \in MutexState
  /\ m.owner # NoThread => m.owner \in User /\ m.value = 0 /\ m.prio = s.prio[m.owner]

\* The owner of m can inherit a priority: it is not asleep.  Nobody waits
\* while m has a value.
Inherits(s, m) ==
  /\ m.owner # NoThread => s.st[m.owner] # "SUSPENDED"
  /\ m.value > 0 => \A w \in WaitQ : s.list[w] = <<>>

\* Only the calls of a condition take several critical sections.
CallsOK(c, what) ==
  c \in [Thread -> Pc] /\ \A t \in Thread : c[t] \notin {"run", "check"} => what = "cond"

\* The inductive invariant of the objects.
IpcInv ==
  /\ Steady(k) /\ SemOK(k, sem) /\ MutexOK(k, mutex)
  /\ kind = "mutex" => Inherits(k, mutex)
  /\ event \in EventState /\ pool \in PoolState
  /\ kind \in Kind /\ (mutex.life # "none" => kind \in {"mutex", "cond"})
  /\ isr \in BOOLEAN /\ (isr => k.curr # NoThread)
  /\ CallsOK(pc, kind) /\ granted \in [Thread -> Nat]

\* The permits of a semaphore in use are all accounted for.
PermitInv ==
  kind = "sem" /\ sem.life # "none" =>
    /\ sem.max = MaxPermits /\ IsFiniteSet(Given(granted))
    /\ sem.value + Cardinality(Given(granted)) = MaxPermits

\* The free list and the headers of the pool p lead to each block, but for
\* the first one, at most once, and to none that is in use.
BlocksLead(p) ==
  \A b \in PoolBlock \ {MemBuff} :
    /\ p.held[b] # 0 =>
         /\ p.held[b] = 1 /\ p.header[b] = Pool
         /\ p.lfree # b /\ \A c \in PoolBlock : p.header[c] # b
    /\ p.lfree = b => \A c \in PoolBlock : p.header[c] # b
    /\ \A c, e \in PoolBlock : p.header[c] = b /\ p.header[e] = b => c = e

PoolInv == BlocksLead(pool)

\* A set that is written with three elements has no more than three.
LEMMA FewElements ==
  ASSUME NEW a, NEW b, NEW c
  PROVE  Cardinality({a, b, c}) \in 0..3
<1>1. IsFiniteSet({a}) /\ Cardinality({a}) = 1
  BY FS_Singleton
<1>2. /\ IsFiniteSet({a} \cup {b})
      /\ Cardinality({a} \cup {b}) = IF b \in {a} THEN Cardinality({a}) ELSE Cardinality({a}) + 1
  BY <1>1, FS_AddElement
<1>3. {a} \cup {b} = {a, b} /\ {a, b} \cup {c} = {a, b, c}
  OBVIOUS
<1>4. Cardinality({a, b} \cup {c}) =
        IF c \in {a, b} THEN Cardinality({a, b}) ELSE Cardinality({a, b}) + 1
  BY <1>2, <1>3, FS_AddElement
<1>5. Cardinality({a, b}) \in 1..2
  BY <1>1, <1>2, <1>3
<1> QED BY <1>3, <1>4, <1>5

\* The wait queues of the objects are four different ones.
LEMMA QueuesDiffer ==
  /\ {SemQ, MutexQ, EventQ, PoolQ} = WaitQ
  /\ SemQ # MutexQ /\ SemQ # EventQ
<1>1. WaitQ = {SemQ, MutexQ, EventQ, PoolQ} /\ Cardinality(WaitQ) = 4
  BY IpcAssumption
<1>2. ASSUME NEW a, NEW b, NEW c, WaitQ = {a, b, c} PROVE FALSE
  <2>1. Cardinality(WaitQ) \in 0..3
    BY <1>2, FewElements
  <2> QED BY <1>1, <2>1
<1>3. SemQ = MutexQ => WaitQ = {MutexQ, EventQ, PoolQ}
  BY <1>1
<1>4. SemQ = EventQ => WaitQ = {MutexQ, EventQ, PoolQ}
  BY <1>1
<1> QED BY <1>1, <1>2, <1>3, <1>4

-----------------------------------------------------------------------------
(* Semaphores                                                              *)

\* A call that puts nobody to sleep leaves the object in order.
LEMMA SemFrame ==
  ASSUME NEW s, NEW n, NEW x, SemOK(s, x), Awakens(s, n)
  PROVE  SemOK(n, x)
BY QueuesDiffer DEF SemOK, Awakens

\* A semaphore with another value is a semaphore.
LEMMA SemValue ==
  ASSUME NEW x \in SemState, NEW v \in Nat, NEW y, y = [x EXCEPT !.value = v]
  PROVE  y \in SemState /\ y.life = x.life /\ y.max = x.max /\ y.value = v
BY DEF SemState

\* MDS_SemaphoreAcquire takes one permit or leaves the semaphore.
LEMMA AcquireKeeps ==
  ASSUME NEW s, Steady(s), NEW x, SemOK(s, x), NEW t \in User, t = s.curr, NEW d \in Nat,
         NEW r, r = SemaphoreAcquire(s, x, t, d)
  PROVE  /\ Steady(r.k) /\ SemOK(r.k, r.s) /\ FallsAsleep(s, r.k, SemQ, t)
         /\ d = 0 => Awakens(s, r.k)
         /\ r.s.life = x.life /\ r.s.max = x.max
         /\ IF r.err = "EOK" THEN x.value > 0 /\ r.s.value = x.value - 1 ELSE r.s = x
<1>0. t \in Thread /\ x \in SemState /\ x.value \in Nat /\ SemQ \in WaitQ /\ TimerMax \in Nat
  BY QueuesDiffer, KernelAssumption DEF User, SemOK, SemState
<1>1. CASE x.value > 0
  <2>1. PICK v, y : v = x.value - 1 /\ y = [x EXCEPT !.value = v]
    OBVIOUS
  <2>2. v \in Nat
    BY <1>0, <1>1, <2>1
  <2>3. r = [k |-> s, s |-> y, err |-> "EOK"]
    BY <1>1, <2>1 DEF SemaphoreAcquire
  <2>4. y \in SemState /\ y.life = x.life /\ y.max = x.max /\ y.value = v
    BY <1>0, <2>1, <2>2, SemValue
  <2>5. s.list[SemQ] = <<>> /\ FallsAsleep(s, s, SemQ, t) /\ Awakens(s, s)
    BY <1>1 DEF SemOK, FallsAsleep, SameProcessor, Awakens
  <2>6. r.k = s /\ r.s = y /\ r.err = "EOK"
    BY <2>3
  <2> QED BY <1>1, <2>1, <2>4, <2>5, <2>6 DEF SemOK
<1>2. CASE ~(x.value > 0) /\ d = 0
  <2>1. r = [k |-> SetErr(s, t, "ETIMEOUT"), s |-> x, err |-> "ETIMEOUT"]
    BY <1>2 DEF SemaphoreAcquire, SetErr
  <2>2. "ETIMEOUT" \in Err /\ (s.st[t] = "SUSPENDED" => ~OnReadyLevel(s, t))
    BY <1>0, SteadyFields DEF Err
  <2>3. Steady(r.k) /\ Awakens(s, r.k) /\ SameProcessor(s, r.k) /\ r.k.list = s.list /\ r.k.st = s.st
    BY <1>0, <2>1, <2>2, ErrSteady
  <2> QED BY <1>2, <2>1, <2>3, SemFrame DEF FallsAsleep, Awakens
<1>3. CASE ~(x.value > 0) /\ d # 0 /\ d < TimerMax
  <2>1. r = [k |-> WaitQueueSuspend(s, SemQ, t, d, TRUE), s |-> x, err |-> WaitQueueSuspendErr(s, t)]
    BY <1>3 DEF SemaphoreAcquire
  <2>2. /\ r.k = WaitQueueSuspend(s, SemQ, t, d, TRUE) /\ r.s = x
        /\ r.err = WaitQueueSuspendErr(s, t)
    BY <2>1
  <2>3. Steady(r.k) /\ FallsAsleep(s, r.k, SemQ, t)
    BY <1>0, <1>3, <2>2, SuspendSteady
  <2>4. x.value = 0 /\ r.err # "EOK"
    BY <1>0, <1>3, <2>2 DEF WaitQueueSuspendErr
  <2> QED BY <1>0, <1>3, <2>2, <2>3, <2>4 DEF SemOK
<1>4. CASE ~(x.value > 0) /\ d # 0 /\ ~(d < TimerMax)
  <2>1. r = [k |-> s, s |-> x, err |-> "EINVAL"]
    BY <1>4 DEF SemaphoreAcquire
  <2> QED BY <1>4, <2>1 DEF FallsAsleep, SameProcessor, Awakens
<1> QED BY <1>1, <1>2, <1>3, <1>4

\* MDS_SemaphoreRelease gives the permit to the first waiter or back.
LEMMA ReleaseKeeps ==
  ASSUME NEW s, Steady(s), NEW x, SemOK(s, x), NEW w, w = WaitQueuePeek(s, SemQ),
         NEW r, r = SemaphoreRelease(s, x)
  PROVE  /\ Steady(r.k) /\ SemOK(r.k, r.s) /\ Awakens(s, r.k) /\ SameProcessor(s, r.k)
         /\ r.s.life = x.life /\ r.s.max = x.max
         /\ w = NoThread /\ ~(x.value >= x.max) => r.s.value = x.value + 1
         /\ w # NoThread => w \in User /\ r.s = x
<1>0. x \in SemState /\ x.value \in Nat /\ SemQ \in WaitQ
  BY QueuesDiffer DEF SemOK, SemState
<1>1. PICK n : n = WaitQueueResume(s, SemQ)
  OBVIOUS
<1>2. /\ Steady(n) /\ Awakens(s, n) /\ SameProcessor(s, n)
      /\ w = NoThread <=> s.list[SemQ] = <<>>
      /\ w = NoThread => n = s
      /\ w # NoThread => w \in User
  BY <1>0, <1>1, ResumeSteady
<1>3. r.k = n
  BY <1>1 DEF SemaphoreRelease
<1>4. CASE w = NoThread /\ ~(x.value >= x.max)
  <2>1. PICK v, y : v = x.value + 1 /\ y = [x EXCEPT !.value = v]
    OBVIOUS
  <2>2. v \in Nat /\ r.s = y
    BY <1>0, <1>4, <2>1 DEF SemaphoreRelease
  <2>3. y \in SemState /\ y.life = x.life /\ y.max = x.max /\ y.value = v
    BY <1>0, <2>1, <2>2, SemValue
  <2> QED BY <1>2, <1>3, <1>4, <2>1, <2>2, <2>3 DEF SemOK
<1>5. CASE ~(w = NoThread /\ ~(x.value >= x.max))
  <2>1. r.s = x
    BY <1>5 DEF SemaphoreRelease
  <2>2. SemOK(n, x)
    BY <1>2, SemFrame
  <2> QED BY <1>2, <1>3, <1>5, <2>1, <2>2
<1> QED BY <1>4, <1>5

\* MDS_SemaphoreDeInit and MDS_SemaphoreDestroy keep the value.
LEMMA SemRetireKeeps ==
  ASSUME NEW s, Steady(s), NEW x, SemOK(s, x),
         NEW r, r \in {SemaphoreDeInit(s, x), SemaphoreDestroy(s, x)},
         x.life = "created" \/ r = SemaphoreDeInit(s, x)
  PROVE  Steady(r.k) /\ SemOK(r.k, r.s) /\ Awakens(s, r.k) /\ r.s.life = "none"
<1>0. x \in SemState /\ SemQ \in WaitQ
  BY QueuesDiffer DEF SemOK
<1>1. r.k = WaitQueueDrain(s, SemQ) /\ r.s = [x EXCEPT !.life = "none"]
  BY DEF SemaphoreDeInit, SemaphoreDestroy
<1>2. Steady(r.k) /\ Awakens(s, r.k)
  BY <1>0, <1>1, DrainSteady
<1>3. r.s \in SemState /\ r.s.value = x.value /\ r.s.life = "none"
  BY <1>0, <1>1 DEF SemState, Life
<1>4. SemOK(r.k, x)
  BY <1>2, SemFrame
<1> QED BY <1>2, <1>3, <1>4 DEF SemOK

\* MDS_ConditionDeInit and MDS_ConditionDestroy.
LEMMA CondRetireKeeps ==
  ASSUME NEW s, Steady(s), NEW x, SemOK(s, x), NEW t \in User, t = s.curr,
         NEW r, r = IF x.life = "created" THEN ConditionDestroy(s, x, t)
                    ELSE ConditionDeInit(s, x, t)
  PROVE  Steady(r.k) /\ SemOK(r.k, r.s) /\ Awakens(s, r.k)
<1>1. CASE WaitQueuePeek(s, SemQ) # NoThread
  <2>1. r = [k |-> s, s |-> x]
    BY <1>1 DEF ConditionDestroy, ConditionDeInit
  <2> QED BY <2>1 DEF Awakens
<1>2. CASE WaitQueuePeek(s, SemQ) = NoThread
  <2>1. PICK a : a = TakeBack(s, x, t)
    OBVIOUS
  <2>2. a = SemaphoreAcquire(s, x, t, 0) /\ 0 \in Nat
    BY <2>1 DEF TakeBack
  <2>3. Steady(a.k) /\ SemOK(a.k, a.s) /\ Awakens(s, a.k) /\ a.s.life = x.life
    BY <2>2, AcquireKeeps
  <2>4. r = IF x.life = "created" THEN SemaphoreDestroy(a.k, a.s) ELSE SemaphoreDeInit(a.k, a.s)
    BY <1>2, <2>1 DEF ConditionDestroy, ConditionDeInit
  <2>5. r \in {SemaphoreDeInit(a.k, a.s), SemaphoreDestroy(a.k, a.s)}
        /\ (a.s.life = "created" \/ r = SemaphoreDeInit(a.k, a.s))
    BY <2>3, <2>4
  <2>6. Steady(r.k) /\ SemOK(r.k, r.s) /\ Awakens(a.k, r.k)
    BY <2>3, <2>5, SemRetireKeeps
  <2> QED BY <2>3, <2>6, AwakensCompose
<1> QED BY <1>1, <1>2

-----------------------------------------------------------------------------
(* Mutexes                                                                 *)

\* The nesting counter is a signed integer.
LEMMA NestRange ==
  /\ NestMax \in Nat \ {0} /\ NestMin = -NestMax - 1
  /\ \A n \in NestMin..NestMax :
       /\ NestDown(n) \in NestMin..NestMax /\ (NestDown(n) = 0 => n = 1)
       /\ n < -1 => n + 1 \in NestMin..NestMax
<1>1. PICK x : x = 2^(NestWidth - 1)
  OBVIOUS
<1>2. x \in Int
  BY <1>1, MutexAssumption
<1>3. NestMax = x - 1 /\ NestMin = -x
  BY <1>1 DEF NestMax, NestMin
<1>4. NestMax \in Nat \ {0} /\ NestMin = -NestMax - 1
  BY <1>2, <1>3, MutexAssumption
<1> QED BY <1>4 DEF NestDown

\* The types of the fields of a mutex.
LEMMA MutexFields ==
  ASSUME NEW m \in MutexState
  PROVE  /\ m.life \in Life /\ m.owner \in Thread \cup {NoThread} /\ m.prio \in Level
         /\ m.value \in {0, 1} /\ m.nest \in NestMin..NestMax
BY DEF MutexState

\* The same mutex nested n deep, and with another owner.
Deep(m, n) == [m EXCEPT !.nest = n]
Owned(m, v, t, p) == [m EXCEPT !.value = v, !.owner = t, !.prio = p]

\* What the two changes of a mutex leave alone.
LEMMA MutexUpdates ==
  ASSUME NEW m \in MutexState
  PROVE  /\ \A n \in NestMin..NestMax :
              /\ Deep(m, n) \in MutexState /\ Deep(m, n).nest = n
              /\ Deep(m, n).life = m.life /\ Deep(m, n).owner = m.owner
              /\ Deep(m, n).prio = m.prio /\ Deep(m, n).value = m.value
         /\ \A v \in {0, 1} : \A t \in Thread \cup {NoThread} : \A p \in Level :
              /\ Owned(m, v, t, p) \in MutexState /\ Owned(m, v, t, p).nest = m.nest
              /\ Owned(m, v, t, p).life = m.life /\ Owned(m, v, t, p).owner = t
              /\ Owned(m, v, t, p).prio = p /\ Owned(m, v, t, p).value = v
<1>1. ASSUME NEW n \in NestMin..NestMax
      PROVE  /\ Deep(m, n) \in MutexState /\ Deep(m, n).nest = n
             /\ Deep(m, n).life = m.life /\ Deep(m, n).owner = m.owner
             /\ Deep(m, n).prio = m.prio /\ Deep(m, n).value = m.value
  BY DEF Deep, MutexState
<1>2. ASSUME NEW v \in {0, 1}, NEW t \in Thread \cup {NoThread}, NEW p \in Level
      PROVE  /\ Owned(m, v, t, p) \in MutexState /\ Owned(m, v, t, p).nest = m.nest
             /\ Owned(m, v, t, p).life = m.life /\ Owned(m, v, t, p).owner = t
             /\ Owned(m, v, t, p).prio = p /\ Owned(m, v, t, p).value = v
  BY DEF Owned, MutexState
<1> QED BY <1>1, <1>2

\* One more nesting, which is counted only below the limit of the code.
LEMMA NestedKeeps ==
  ASSUME NEW m \in MutexState
  PROVE  /\ Nested(m) \in MutexState
         /\ Nested(m).life = m.life /\ Nested(m).owner = m.owner
         /\ Nested(m).prio = m.prio /\ Nested(m).value = m.value
         /\ m.nest = 0 => Nested(m) = m
<1>1. CASE m.nest < -1
  <2>1. PICK n : n = m.nest + 1
    OBVIOUS
  <2>2. n \in NestMin..NestMax
    BY <1>1, <2>1, MutexFields, NestRange
  <2>3. Nested(m) = Deep(m, n) /\ m.nest # 0
    BY <1>1, <2>1 DEF Nested, Nestable, Deep
  <2> QED BY <2>2, <2>3, MutexUpdates
<1>2. CASE ~(m.nest < -1)
  BY <1>2 DEF Nested, Nestable
<1> QED BY <1>1, <1>2

\* A call that puts nobody to sleep leaves the mutex in order.
LEMMA MutexFrame ==
  ASSUME NEW s, NEW n, NEW m, Awakens(s, n)
  PROVE  /\ MutexOK(s, m) => MutexOK(n, m)
         /\ MutexOK(s, m) /\ Inherits(s, m) => Inherits(n, m)
<1>1. MutexOK(s, m) => MutexOK(n, m)
  BY DEF MutexOK, Awakens
<1>2. ASSUME MutexOK(s, m), Inherits(s, m) PROVE Inherits(n, m)
  <2>1. m.owner # NoThread => m.owner \in Thread
    BY <1>2 DEF MutexOK, User
  <2> QED BY <1>2, <2>1 DEF Inherits, Awakens
<1> QED BY <1>1, <1>2

\* MDS_ThreadSetPriority of a thread that is not asleep and not the caller.
LEMMA SetPrioritySteady ==
  ASSUME NEW s, Steady(s), NEW o \in User, s.st[o] # "SUSPENDED", o # s.curr, NEW p \in Prio,
         NEW n, n = ThreadSetPriority(s, o, p)
  PROVE  /\ Steady(n) /\ SameProcessor(s, n) /\ n.st = s.st
         /\ n.prio = [s.prio EXCEPT ![o] = p] /\ \A w \in WaitQ : n.list[w] = s.list[w]
<1>1. o \in Thread \ {Idle} /\ o \in Thread
  BY DEF User
<1>2. OnReadyLevel(s, o) => s.st[o] = "READY"
  BY <1>1, SteadyFields DEF Placed
<1>3. /\ Sound(n) /\ Others(s, n, o) /\ SameProcessor(s, n)
      /\ n.prio[o] = p /\ n.st = s.st /\ n.tq = s.tq /\ n.left = s.left
      /\ \A w \in WaitQ : (On(n, w, o) <=> On(s, w, o)) /\ n.list[w] = s.list[w]
  BY <1>1, <1>2, SteadyFields, ThreadSetPriorityMoves
<1>4. Orderly(n)
  BY <1>1, <1>2, SteadyFields, ThreadSetPriorityOrderly
<1>5. Short(n)
  BY <1>3 DEF Steady, Short
<1>6. \A w \in WaitQ : On(n, w, o) => Armed(n, o)
  BY <1>1, <1>3 DEF Steady, WaitersTimed, Armed
<1>7. Steady(n)
  BY <1>1, <1>3, <1>4, <1>5, <1>6, SteadyStep
<1>8. n.prio = [s.prio EXCEPT ![o] = p]
  <2>1. n.prio \in [Thread -> Level] /\ s.prio \in [Thread -> Level]
    BY <1>7, SteadyFields
  <2>2. \A u \in Thread \ {o} : n.prio[u] = s.prio[u]
    BY <1>3 DEF Others
  <2> QED BY <1>1, <1>3, <2>1, <2>2
<1> QED BY <1>3, <1>7, <1>8

\* The wait for a mutex: its owner inherits the priority of the caller t and
\* has its own back when the call returns.
LEMMA QueueForSteady ==
  ASSUME NEW s, Steady(s), NEW t \in User, t = s.curr, NEW m, NEW o \in User, m.owner = o, o # t,
         s.st[o] # "SUSPENDED", NEW d \in Nat, d < TimerMax, NEW n, n = QueueFor(s, m, t, d)
  PROVE  Steady(n) /\ FallsAsleep(s, n, MutexQ, t)
<1>0. o \in Thread /\ t \in Thread /\ s.prio[o] \in Prio /\ s.prio[t] \in Prio /\ MutexQ \in WaitQ
      /\ s.prio \in [Thread -> Level]
  BY SteadyFields, QueuesDiffer DEF User, Ranked
<1>1. PICK a : a = IF s.prio[t] < s.prio[o] THEN ThreadSetPriority(s, o, s.prio[t]) ELSE s
  OBVIOUS
<1>2. /\ Steady(a) /\ SameProcessor(s, a) /\ a.st = s.st /\ a.prio \in [Thread -> Level]
      /\ \A u \in Thread \ {o} : a.prio[u] = s.prio[u]
      /\ \A w \in WaitQ : a.list[w] = s.list[w]
  <2>1. CASE s.prio[t] < s.prio[o]
    <3>1. a = ThreadSetPriority(s, o, s.prio[t])
      BY <1>1, <2>1
    <3>2. /\ Steady(a) /\ SameProcessor(s, a) /\ a.st = s.st
          /\ a.prio = [s.prio EXCEPT ![o] = s.prio[t]]
          /\ \A w \in WaitQ : a.list[w] = s.list[w]
      BY <1>0, <3>1, SetPrioritySteady
    <3> QED BY <1>0, <3>2, SteadyFields
  <2>2. CASE ~(s.prio[t] < s.prio[o])
    BY <1>0, <1>1, <2>2 DEF SameProcessor
  <2> QED BY <2>1, <2>2
<1>3. PICK b : b = WaitQueueSuspend(a, MutexQ, t, d, TRUE)
  OBVIOUS
<1>4. Steady(b) /\ FallsAsleep(a, b, MutexQ, t)
  <2>1. t = a.curr
    BY <1>2 DEF SameProcessor
  <2> QED BY <1>0, <1>2, <1>3, <2>1, SuspendSteady
<1>5. /\ b.prio = a.prio /\ SameProcessor(a, b)
      /\ \A w \in WaitQ \ {MutexQ} : b.list[w] = a.list[w]
      /\ \A u \in Thread \ {t} : b.st[u] = a.st[u]
  BY <1>4 DEF FallsAsleep
<1>6. n = ThreadSetPriority(b, o, s.prio[o])
  BY <1>1, <1>3 DEF QueueFor
<1>7. b.st[o] # "SUSPENDED" /\ o # b.curr
  BY <1>0, <1>2, <1>5 DEF SameProcessor
<1>8. /\ Steady(n) /\ SameProcessor(b, n) /\ n.st = b.st
      /\ n.prio = [b.prio EXCEPT ![o] = s.prio[o]] /\ \A w \in WaitQ : n.list[w] = b.list[w]
  BY <1>0, <1>4, <1>6, <1>7, SetPrioritySteady
<1>9. n.prio = s.prio
  <2>1. \A u \in Thread : n.prio[u] = s.prio[u]
    BY <1>0, <1>2, <1>5, <1>8
  <2>2. n.prio \in [Thread -> Level]
    BY <1>8, SteadyFields
  <2> QED BY <1>0, <2>1, <2>2
<1>10. SameProcessor(s, n)
  BY <1>2, <1>5, <1>8 DEF SameProcessor
<1> QED BY <1>2, <1>5, <1>8, <1>9, <1>10 DEF FallsAsleep

\* MDS_MutexAcquire takes a mutex without owner, nests one of the caller's
\* and waits for any other; it takes none from its owner.
LEMMA LockKeeps ==
  ASSUME NEW s, Steady(s), NEW m, MutexOK(s, m), NEW t \in User, t = s.curr, NEW d \in 0..TimerMax,
         Inherits(s, m) \/ d \in {0, TimerMax}, NEW r, r = MutexAcquire(s, m, t, d)
  PROVE  /\ Steady(r.k) /\ MutexOK(r.k, r.m)
         /\ r.k.prio = s.prio /\ r.k.list[SemQ] = s.list[SemQ] /\ r.m.life = m.life
         /\ Inherits(s, m) => Inherits(r.k, r.m)
         /\ m.owner # NoThread => r.m.owner = m.owner
<1>0. /\ t \in Thread /\ m \in MutexState /\ MutexQ \in WaitQ /\ SemQ \in WaitQ \ {MutexQ}
      /\ TimerMax \in Nat \ {0} /\ d \in Nat /\ t # NoThread
      /\ m.owner # NoThread => m.owner \in User /\ m.value = 0 /\ m.prio = s.prio[m.owner]
  BY QueuesDiffer, KernelAssumption DEF MutexOK, User
<1>1. CASE t = m.owner
  <2>1. r.k = s /\ r.m = Nested(m)
    BY <1>1 DEF MutexAcquire
  <2>2. /\ Nested(m) \in MutexState /\ Nested(m).life = m.life /\ Nested(m).owner = m.owner
        /\ Nested(m).prio = m.prio /\ Nested(m).value = m.value
    BY <1>0, NestedKeeps
  <2> QED BY <1>0, <2>1, <2>2 DEF MutexOK, Inherits
<1>2. CASE t # m.owner /\ m.value > 0
  <2>1. r.k = s /\ r.m = Owned(Nested(m), Nested(m).value - 1, t, s.prio[t])
    BY <1>2 DEF MutexAcquire, Owned
  <2>2. /\ Nested(m) \in MutexState /\ Nested(m).life = m.life /\ Nested(m).value = m.value
    BY <1>0, NestedKeeps
  <2>3. m.value - 1 = 0 /\ s.prio[t] \in Level /\ m.owner = NoThread
    BY <1>0, <1>2, MutexFields, SteadyFields
  <2>4. r.m = Owned(Nested(m), 0, t, s.prio[t])
    BY <2>1, <2>2, <2>3
  <2>5. /\ r.m \in MutexState /\ r.m.life = m.life /\ r.m.owner = t
        /\ r.m.prio = s.prio[t] /\ r.m.value = 0
    BY <1>0, <2>2, <2>3, <2>4, MutexUpdates
  <2>6. ASSUME Inherits(s, m) PROVE s.st[t] # "SUSPENDED"
    <3>1. \A w \in WaitQ : s.list[w] = <<>>
      BY <1>2, <2>6 DEF Inherits
    <3>2. \A w \in WaitQ : ~On(s, w, t)
      BY <3>1 DEF On, Contains
    <3> QED BY <1>0, <3>2 DEF Steady, CurrentWaits
  <2> QED BY <1>0, <2>1, <2>3, <2>5, <2>6 DEF MutexOK, Inherits
<1>3. CASE t # m.owner /\ ~(m.value > 0) /\ d = 0
  <2>1. r.k = SetErr(s, t, "ETIMEOUT") /\ r.m = m
    BY <1>3 DEF MutexAcquire, SetErr
  <2>2. "ETIMEOUT" \in Err /\ (s.st[t] = "SUSPENDED" => ~OnReadyLevel(s, t))
    BY <1>0, SteadyFields DEF Err
  <2>3. Steady(r.k) /\ Awakens(s, r.k) /\ r.k.list = s.list
    BY <1>0, <2>1, <2>2, ErrSteady
  <2>4. MutexOK(r.k, m) /\ (Inherits(s, m) => Inherits(r.k, m))
    BY <2>3, MutexFrame
  <2> QED BY <2>1, <2>3, <2>4 DEF Awakens
<1>4. CASE t # m.owner /\ ~(m.value > 0) /\ d # 0 /\ d >= TimerMax
  <2>1. r.k = s /\ r.m = m
    BY <1>4 DEF MutexAcquire
  <2> QED BY <2>1
<1>5. CASE t # m.owner /\ ~(m.value > 0) /\ d # 0 /\ ~(d >= TimerMax) /\ m.owner = NoThread
  <2>1. r.k = SetFault(s, "null_owner") /\ r.m = m
    BY <1>5 DEF MutexAcquire, SetFault
  <2>2. Steady(r.k) /\ Awakens(s, r.k) /\ r.k.list = s.list
    BY <2>1, FaultSteady
  <2>3. MutexOK(r.k, m) /\ (Inherits(s, m) => Inherits(r.k, m))
    BY <2>2, MutexFrame
  <2> QED BY <2>1, <2>2, <2>3 DEF Awakens
<1>6. CASE t # m.owner /\ ~(m.value > 0) /\ d # 0 /\ ~(d >= TimerMax) /\ m.owner # NoThread
  <2>1. r.k = QueueFor(s, m, t, d) /\ r.m = m
    BY <1>6 DEF MutexAcquire
  <2>2. Inherits(s, m) /\ d < TimerMax
    BY <1>0, <1>6
  <2>3. m.owner \in User /\ s.st[m.owner] # "SUSPENDED"
    BY <1>0, <1>6, <2>2 DEF Inherits
  <2>4. Steady(r.k) /\ FallsAsleep(s, r.k, MutexQ, t)
    BY <1>0, <1>6, <2>1, <2>2, <2>3, QueueForSteady
  <2>5. /\ r.k.prio = s.prio /\ r.k.list[SemQ] = s.list[SemQ]
        /\ r.k.st[m.owner] = s.st[m.owner]
    BY <1>0, <1>6, <2>3, <2>4 DEF FallsAsleep, User
  <2>6. MutexOK(r.k, m) /\ Inherits(r.k, m)
    BY <1>6, <2>3, <2>5 DEF MutexOK, Inherits
  <2> QED BY <2>1, <2>4, <2>5, <2>6
<1> QED BY <1>1, <1>2, <1>3, <1>4, <1>5, <1>6

\* The last release: the mutex goes to the first waiter.
LEMMA HandOverKeeps ==
  ASSUME NEW s, Steady(s), NEW m, MutexOK(s, m), m.owner # NoThread, m.nest = 0,
         NEW r, r = HandOver(s, m)
  PROVE  /\ Steady(r.k) /\ Awakens(s, r.k) /\ SameProcessor(s, r.k)
         /\ MutexOK(r.k, r.m) /\ Inherits(r.k, r.m) /\ r.m.life = m.life
<1>0. /\ m \in MutexState /\ MutexQ \in WaitQ /\ m.value = 0 /\ m.prio = s.prio[m.owner]
  BY QueuesDiffer DEF MutexOK
<1>1. PICK w, n : w = WaitQueuePeek(s, MutexQ) /\ n = WaitQueueResume(s, MutexQ)
  OBVIOUS
<1>2. /\ Steady(n) /\ Awakens(s, n) /\ SameProcessor(s, n)
      /\ w # NoThread => w \in User /\ n.st[w] = "READY"
  BY <1>0, <1>1, ResumeSteady
<1>3. PICK p : p = IF w = NoThread THEN PrioMax ELSE s.prio[w]
  OBVIOUS
<1>4. r.k = n /\ r.m = [Nested(m) EXCEPT !.owner = w, !.prio = p]
  BY <1>0, <1>1, <1>3 DEF HandOver
<1>5. r.m = [m EXCEPT !.owner = w, !.prio = p]
  BY <1>0, <1>4, NestedKeeps
<1>6. w \in Thread \cup {NoThread} /\ p \in Level
  BY <1>2, <1>3, SteadyFields, KernelAssumption DEF User, Level
<1>7. /\ r.m \in MutexState /\ r.m.owner = w /\ r.m.prio = p /\ r.m.value = 0 /\ r.m.life = m.life
  BY <1>0, <1>5, <1>6 DEF MutexState
<1>8. n.prio = s.prio
  BY <1>2 DEF Awakens
<1> QED BY <1>2, <1>3, <1>4, <1>7, <1>8 DEF MutexOK, Inherits

\* MDS_MutexRelease: only the owner gives the mutex away.
LEMMA UnlockKeeps ==
  ASSUME NEW s, Steady(s), NEW m, MutexOK(s, m), NEW t \in User, t = s.curr,
         NEW r, r = MutexRelease(s, m, t)
  PROVE  /\ Steady(r.k) /\ Awakens(s, r.k) /\ r.k.curr = s.curr
         /\ MutexOK(r.k, r.m) /\ r.m.life = m.life
         /\ Inherits(s, m) => Inherits(r.k, r.m)
         /\ r.m.owner # m.owner => m.owner = t /\ m.nest = 1
<1>0. t \in Thread /\ t # NoThread /\ m \in MutexState
  BY KernelAssumption DEF User, MutexOK
<1>1. CASE t # m.owner
  <2>1. r.k = SetErr(s, t, "EACCES") /\ r.m = m
    BY <1>1 DEF MutexRelease, SetErr
  <2>2. "EACCES" \in Err /\ (s.st[t] = "SUSPENDED" => ~OnReadyLevel(s, t))
    BY <1>0, SteadyFields DEF Err
  <2>3. Steady(r.k) /\ Awakens(s, r.k) /\ SameProcessor(s, r.k)
    BY <1>0, <2>1, <2>2, ErrSteady
  <2>4. MutexOK(r.k, m) /\ (Inherits(s, m) => Inherits(r.k, m))
    BY <2>3, MutexFrame
  <2> QED BY <2>1, <2>3, <2>4 DEF SameProcessor
<1>2. CASE t = m.owner /\ NestDown(m.nest) # 0
  <2>1. r.k = s /\ r.m = Deep(m, NestDown(m.nest))
    BY <1>2 DEF MutexRelease, Deep
  <2>2. NestDown(m.nest) \in NestMin..NestMax
    BY <1>0, MutexFields, NestRange
  <2>3. /\ r.m \in MutexState /\ r.m.life = m.life /\ r.m.owner = m.owner
        /\ r.m.prio = m.prio /\ r.m.value = m.value
    BY <1>0, <2>1, <2>2, MutexUpdates
  <2> QED BY <2>1, <2>3 DEF MutexOK, Inherits, Awakens
<1>3. CASE t = m.owner /\ NestDown(m.nest) = 0
  <2>1. PICK o : o = Deep(m, 0)
    OBVIOUS
  <2>2. r = HandOver(s, o)
    BY <1>3, <2>1 DEF MutexRelease, Deep
  <2>3. m.nest = 1 /\ 0 \in NestMin..NestMax
    BY <1>0, <1>3, MutexFields, NestRange
  <2>4. /\ o \in MutexState /\ o.nest = 0 /\ o.life = m.life /\ o.owner = m.owner
        /\ o.prio = m.prio /\ o.value = m.value
    BY <1>0, <2>1, <2>3, MutexUpdates
  <2>5. MutexOK(s, o)
    BY <2>4 DEF MutexOK
  <2>6. /\ Steady(r.k) /\ Awakens(s, r.k) /\ SameProcessor(s, r.k)
        /\ MutexOK(r.k, r.m) /\ Inherits(r.k, r.m) /\ r.m.life = o.life
    BY <1>0, <1>3, <2>2, <2>4, <2>5, HandOverKeeps
  <2> QED BY <1>3, <2>3, <2>4, <2>6 DEF SameProcessor
<1> QED BY <1>1, <1>2, <1>3

\* MDS_MutexDeInit and MDS_MutexDestroy keep the owner.
LEMMA MutexRetireKeeps ==
  ASSUME NEW s, Steady(s), NEW m, MutexOK(s, m),
         NEW r, r = IF m.life = "created" THEN MutexDestroy(s, m) ELSE MutexDeInit(s, m)
  PROVE  /\ Steady(r.k) /\ Awakens(s, r.k) /\ MutexOK(r.k, r.m) /\ r.m.life = "none"
         /\ Inherits(s, m) => Inherits(r.k, r.m)
         /\ r.m.owner = m.owner
<1>0. m \in MutexState /\ MutexQ \in WaitQ
  BY QueuesDiffer DEF MutexOK
<1>1. r.k = WaitQueueDrain(s, MutexQ) /\ r.m = [m EXCEPT !.life = "none"]
  BY DEF MutexDestroy, MutexDeInit
<1>2. Steady(r.k) /\ Awakens(s, r.k)
  BY <1>0, <1>1, DrainSteady
<1>3. /\ r.m \in MutexState /\ r.m.life = "none" /\ r.m.owner = m.owner
      /\ r.m.prio = m.prio /\ r.m.value = m.value
  BY <1>0, <1>1 DEF MutexState, Life
<1>4. MutexOK(r.k, m) /\ (Inherits(s, m) => Inherits(r.k, m))
  BY <1>2, MutexFrame
<1> QED BY <1>2, <1>3, <1>4 DEF MutexOK, Inherits

-----------------------------------------------------------------------------
(* Conditions, events and memory pools                                     *)

\* A call that puts somebody to sleep elsewhere leaves the semaphore and the
\* mutex in order.
LEMMA SleepFrame ==
  ASSUME NEW s, NEW n, NEW x, SemOK(s, x), NEW m, MutexOK(s, m),
         NEW q \in WaitQ \ {SemQ}, NEW t, FallsAsleep(s, n, q, t)
  PROVE  SemOK(n, x) /\ MutexOK(n, m)
BY QueuesDiffer DEF SemOK, MutexOK, FallsAsleep

\* MDS_ConditionWait up to where it takes the mutex again.
LEMMA ConditionWaitKeeps ==
  ASSUME NEW s, Steady(s), NEW x, SemOK(s, x), NEW m, MutexOK(s, m), m.owner = s.curr,
         NEW t \in User, t = s.curr, NEW d \in Nat, NEW r, r = ConditionWait(s, x, m, t, d)
  PROVE  /\ Steady(r.k) /\ SemOK(r.k, r.s) /\ MutexOK(r.k, r.m)
         /\ r.m.life = m.life /\ r.k.prio = s.prio
         /\ r.m.owner # m.owner => m.nest = 1
<1>0. /\ t \in Thread /\ x \in SemState /\ x.value \in Nat /\ SemQ \in WaitQ /\ TimerMax \in Nat
      /\ s.st[t] = "SUSPENDED" => ~OnReadyLevel(s, t)
  BY SteadyFields, QueuesDiffer, KernelAssumption DEF User, SemOK, SemState
<1>1. CASE x.value > 0
  <2>1. PICK a, v, y : a = SetFault(s, "left_masked") /\ v = x.value - 1 /\ y = [x EXCEPT !.value = v]
    OBVIOUS
  <2>2. r.k = a /\ r.s = y /\ r.m = m
    BY <1>1, <2>1 DEF ConditionWait, SetFault
  <2>3. Steady(a) /\ Awakens(s, a) /\ a.list = s.list
    BY <2>1, FaultSteady
  <2>4. v \in Nat /\ y \in SemState /\ s.list[SemQ] = <<>>
    BY <1>0, <1>1, <2>1, SemValue DEF SemOK
  <2>5. MutexOK(a, m)
    BY <2>3, MutexFrame
  <2> QED BY <2>2, <2>3, <2>4, <2>5 DEF SemOK, Awakens
<1>2. CASE ~(x.value > 0) /\ d = 0
  <2>1. PICK a : a = SetErr(s, t, "ETIMEOUT")
    OBVIOUS
  <2>2. "ETIMEOUT" \in Err
    BY DEF Err
  <2>3. Steady(a) /\ Awakens(s, a)
    BY <1>0, <2>1, <2>2, ErrSteady
  <2>4. PICK b : b = SetFault(a, "left_masked")
    OBVIOUS
  <2>5. Steady(b) /\ Awakens(a, b)
    BY <2>3, <2>4, FaultSteady
  <2>6. r.k = b /\ r.s = x /\ r.m = m
    <3>1. s \in KernelState
      BY SteadyFields
    <3>2. b = [s EXCEPT !.fault = "left_masked", !.err[t] = "ETIMEOUT"]
      BY <3>1, <2>1, <2>4 DEF SetErr, SetFault, KernelState
    <3> QED BY <1>2, <3>2 DEF ConditionWait
  <2>7. Awakens(s, b)
    BY <2>3, <2>5, AwakensCompose
  <2>8. MutexOK(b, m) /\ SemOK(b, x)
    BY <2>7, MutexFrame, SemFrame
  <2> QED BY <2>5, <2>6, <2>7, <2>8 DEF Awakens
<1>3. CASE ~(x.value > 0) /\ d # 0 /\ d >= TimerMax
  <2>1. r.k = s /\ r.s = x /\ r.m = m
    BY <1>3 DEF ConditionWait
  <2> QED BY <2>1
<1>4. CASE ~(x.value > 0) /\ d # 0 /\ ~(d >= TimerMax)
  <2>1. PICK a : a = WaitQueueSuspend(s, SemQ, t, d, FALSE)
    OBVIOUS
  <2>2. Steady(a) /\ FallsAsleep(s, a, SemQ, t)
    <3>1. d < TimerMax
      BY <1>0, <1>4
    <3> QED BY <1>0, <2>1, <3>1, SuspendSteady
  <2>3. MutexOK(a, m) /\ a.curr = s.curr /\ a.prio = s.prio
    BY <2>2 DEF FallsAsleep, MutexOK, SameProcessor
  <2>4. PICK b : b = MutexRelease(a, m, t)
    OBVIOUS
  <2>5. /\ Steady(b.k) /\ Awakens(a, b.k) /\ b.k.curr = a.curr
        /\ MutexOK(b.k, b.m) /\ b.m.life = m.life
        /\ b.m.owner # m.owner => m.owner = t /\ m.nest = 1
    BY <2>2, <2>3, <2>4, UnlockKeeps
  <2>6. PICK c : c = IF b.check THEN SchedulerCheck(b.k) ELSE b.k
    OBVIOUS
  <2>7. r.k = c /\ r.s = x /\ r.m = b.m
    BY <1>4, <2>1, <2>4, <2>6 DEF ConditionWait
  <2>8. Steady(c) /\ Awakens(b.k, c)
    <3>1. CASE b.check
      <4>1. b.k.curr # NoThread
        BY <1>0, <2>3, <2>5, KernelAssumption
      <4> QED BY <2>5, <2>6, <3>1, <4>1, CheckSteady
    <3>2. CASE ~b.check
      BY <2>5, <2>6, <3>2 DEF Awakens
    <3> QED BY <3>1, <3>2
  <2>9. MutexOK(c, b.m)
    BY <2>5, <2>8, MutexFrame
  <2>10. SemOK(c, x)
    BY <1>0, <1>4 DEF SemOK
  <2> QED BY <2>3, <2>5, <2>7, <2>8, <2>9, <2>10 DEF Awakens
<1> QED BY <1>1, <1>2, <1>3, <1>4

\* MDS_EventWait.
LEMMA EventWaitKeeps ==
  ASSUME NEW s, Steady(s), NEW e \in EventState, NEW t \in User, t = s.curr,
         NEW b \in SUBSET Bit, NEW o \in EventOpt, NEW d \in Nat,
         NEW r, r = EventWait(s, e, t, b, o, d)
  PROVE  Steady(r.k) /\ r.e \in EventState /\ FallsAsleep(s, r.k, EventQ, t)
<1>0. /\ t \in Thread /\ EventQ \in WaitQ /\ TimerMax \in Nat
      /\ s.st[t] = "SUSPENDED" => ~OnReadyLevel(s, t)
  BY SteadyFields, QueuesDiffer, KernelAssumption DEF User
<1>1. CASE Holds(e.value, b, o)
  <2>1. PICK v, x : v = (IF o.keep THEN e.value ELSE e.value \ b) /\ x = e.value \cap b
    OBVIOUS
  <2>2. v \in SUBSET Bit /\ x \in SUBSET Bit
    BY <2>1 DEF EventState
  <2>3. r.k = s /\ r.e = [e EXCEPT !.mask = [e.mask EXCEPT ![t] = x],
                                   !.opt = [e.opt EXCEPT ![t] = o], !.value = v]
    BY <1>1, <2>1 DEF EventWait, EventState
  <2>4. r.e \in EventState
    <3>1. /\ [e.mask EXCEPT ![t] = x] \in [Thread -> SUBSET Bit]
          /\ [e.opt EXCEPT ![t] = o] \in [Thread -> EventOpt]
      BY <1>0, <2>2 DEF EventState
    <3> QED BY <2>2, <2>3, <3>1 DEF EventState
  <2> QED BY <2>3, <2>4 DEF FallsAsleep, SameProcessor
<1>2. CASE ~Holds(e.value, b, o) /\ d = 0
  <2>1. r.k = SetErr(s, t, "ETIMEOUT") /\ r.e = e /\ "ETIMEOUT" \in Err
    BY <1>2 DEF EventWait, SetErr, Err
  <2>2. Steady(r.k) /\ Awakens(s, r.k) /\ SameProcessor(s, r.k) /\ r.k.list = s.list /\ r.k.st = s.st
    BY <1>0, <2>1, ErrSteady
  <2> QED BY <2>1, <2>2 DEF FallsAsleep, Awakens
<1>3. CASE ~Holds(e.value, b, o) /\ d # 0 /\ d < TimerMax
  <2>1. r.k = WaitQueueSuspend(s, EventQ, t, d, TRUE)
    BY <1>3 DEF EventWait
  <2>4. r.e = [e EXCEPT !.mask = [e.mask EXCEPT ![t] = b], !.opt = [e.opt EXCEPT ![t] = o]]
    BY <1>3 DEF EventWait, EventState
  <2>2. Steady(r.k) /\ FallsAsleep(s, r.k, EventQ, t)
    <3>1. d < TimerMax
      BY <1>3
    <3> QED BY <1>0, <2>1, <3>1, SuspendSteady
  <2>3. r.e \in EventState
    <3>1. /\ [e.mask EXCEPT ![t] = b] \in [Thread -> SUBSET Bit]
          /\ [e.opt EXCEPT ![t] = o] \in [Thread -> EventOpt]
      BY <1>0 DEF EventState
    <3> QED BY <2>4, <3>1 DEF EventState
  <2> QED BY <2>2, <2>3
<1>4. CASE ~Holds(e.value, b, o) /\ d # 0 /\ ~(d < TimerMax)
  <2>1. r.k = s /\ r.e = e
    BY <1>4 DEF EventWait
  <2> QED BY <2>1 DEF FallsAsleep, SameProcessor
<1> QED BY <1>1, <1>2, <1>3, <1>4

\* Taking a thread off a list makes the list shorter by one.
LEMMA UnlinkShortens ==
  ASSUME NEW x \in Seq(Thread), NEW t, Contains(x, t)
  PROVE  Len(Unlink(x, t)) = Len(x) - 1
<1>1. PICK j : j = CHOOSE i \in DOMAIN x : x[i] = t
  OBVIOUS
<1>2. j \in 1..Len(x)
  BY <1>1, LenProperties DEF Contains
<1>3. Unlink(x, t) = RemoveAt(x, j)
  BY <1>1 DEF Unlink
<1> QED BY <1>2, <1>3, RemoveAtProperties

\* MDS_EventSet: bits that are taken wake one waiter.
LEMMA EventSetKeeps ==
  ASSUME NEW s, Steady(s), NEW e \in EventState, NEW b \in SUBSET Bit,
         NEW r, r = EventSet(s, e, b)
  PROVE  /\ Steady(r.k) /\ Awakens(s, r.k) /\ SameProcessor(s, r.k) /\ r.e \in EventState
         /\ ~(e.value \subseteq r.e.value) =>
              Len(r.k.list[EventQ]) = Len(s.list[EventQ]) - 1
<1>0. EventQ \in WaitQ /\ EventQ \in Lists /\ s \in KernelState
  BY SteadyFields, QueuesDiffer
<1>1. s.list[EventQ] \in Seq(Thread)
  BY <1>0 DEF KernelState
<1>2. PICK v, found : v = e.value \cup b /\ found = FirstSatisfied(s, e, v)
  OBVIOUS
<1>3. v \in SUBSET Bit
  BY <1>2 DEF EventState
<1>4. CASE found = {}
  <2>1. r.k = s /\ r.e = [e EXCEPT !.value = v]
    BY <1>2, <1>4 DEF EventSet
  <2>2. r.e \in EventState /\ e.value \subseteq r.e.value
    BY <1>2, <1>3, <2>1 DEF EventState
  <2> QED BY <2>1, <2>2 DEF Awakens, SameProcessor
<1>5. CASE found # {}
  <2>1. found \subseteq Thread /\ s.list[EventQ] # <<>>
    <3>1. DOMAIN s.list[EventQ] = 1..Len(s.list[EventQ])
      BY <1>1, LenProperties
    <3>2. \A i \in DOMAIN s.list[EventQ] : s.list[EventQ][i] \in Thread
      BY <1>1, <3>1, ElementOfSeq
    <3>3. found \subseteq {s.list[EventQ][i] : i \in DOMAIN s.list[EventQ]}
      BY <1>2 DEF FirstSatisfied
    <3>4. DOMAIN s.list[EventQ] # {}
      BY <1>5, <3>3
    <3>5. s.list[EventQ] # <<>>
      BY <3>1, <3>4
    <3> QED BY <3>2, <3>3, <3>5
  <2>2. PICK w : w = CHOOSE u \in found : TRUE
    OBVIOUS
  <2>3. w \in Thread
    BY <1>5, <2>1, <2>2
  <2>4. PICK g : g = IF e.opt[w].all THEN e.mask[w] ELSE e.mask[w] \cap v
    OBVIOUS
  <2>5. PICK y : y = IF e.opt[w].keep THEN v ELSE v \ g
    OBVIOUS
  <2>6. g \in SUBSET Bit /\ y \in SUBSET Bit
    BY <1>3, <2>3, <2>4, <2>5 DEF EventState
  <2>7. r.k = WaitQueueResume(s, EventQ) /\ r.e = [e EXCEPT !.mask[w] = g, !.value = y]
    BY <1>2, <1>5, <2>2, <2>4, <2>5 DEF EventSet
  <2>8. r.e \in EventState
    BY <2>3, <2>6, <2>7, ZenonT(30) DEF EventState
  <2>9. PICK h : h = WaitQueuePeek(s, EventQ)
    OBVIOUS
  <2>10. /\ Steady(r.k) /\ Awakens(s, r.k) /\ SameProcessor(s, r.k)
         /\ On(s, EventQ, h) /\ r.k.list[EventQ] = Unlink(s.list[EventQ], h)
    BY <1>0, <2>1, <2>7, <2>9, ResumeSteady
  <2>11. Len(r.k.list[EventQ]) = Len(s.list[EventQ]) - 1
    BY <1>1, <2>10, UnlinkShortens DEF On
  <2> QED BY <2>8, <2>10, <2>11
<1> QED BY <1>4, <1>5

\* MDS_EventDeInit and MDS_EventDestroy.
LEMMA EventRetireKeeps ==
  ASSUME NEW s, Steady(s), NEW e \in EventState,
         NEW r, r = IF e.life = "created" THEN EventDestroy(s, e) ELSE EventDeInit(s, e)
  PROVE  Steady(r.k) /\ Awakens(s, r.k) /\ r.e \in EventState
<1>0. EventQ \in WaitQ /\ "none" \in Life
  BY QueuesDiffer DEF Life
<1>1. r.k = WaitQueueDrain(s, EventQ) /\ r.e = [e EXCEPT !.life = "none"]
  BY DEF EventDestroy, EventDeInit
<1>2. r.e \in EventState
  BY <1>0, <1>1 DEF EventState
<1> QED BY <1>0, <1>1, <1>2, DrainSteady

\* MDS_MemPoolDeInit and MDS_MemPoolDestroy.
LEMMA PoolRetireKeeps ==
  ASSUME NEW s, Steady(s), NEW p \in PoolState,
         NEW r, r = IF p.life = "created" THEN MemPoolDestroy(s, p) ELSE MemPoolDeInit(s, p)
  PROVE  /\ Steady(r.k) /\ Awakens(s, r.k) /\ r.p \in PoolState
         /\ r.p.lfree = p.lfree /\ r.p.header = p.header /\ r.p.held = p.held
<1>0. PoolQ \in WaitQ
  BY QueuesDiffer
<1>1. r.k = WaitQueueDrain(s, PoolQ) /\ r.p = [p EXCEPT !.life = "none"]
  BY DEF MemPoolDestroy, MemPoolDeInit
<1>2. /\ r.p \in PoolState
      /\ r.p.lfree = p.lfree /\ r.p.header = p.header /\ r.p.held = p.held
  BY <1>1 DEF PoolState, Life
<1> QED BY <1>0, <1>1, <1>2, DrainSteady

\* MDS_MemPoolAlloc.
LEMMA AllocKeeps ==
  ASSUME NEW s, Steady(s), NEW p \in PoolState, NEW r, r = MemPoolAlloc(s, p)
  PROVE  Steady(r.k) /\ Awakens(s, r.k) /\ r.p \in PoolState
<1>1. CASE p.lfree = Pool
  <2>1. r.k = SetFault(s, "wild_block") /\ r.p = p
    BY <1>1 DEF MemPoolAlloc, SetFault
  <2> QED BY <2>1, FaultSteady
<1>2. CASE p.lfree # Pool
  <2>1. PICK b, c, h : b = p.lfree /\ c = p.header[b] /\ h = p.held[b] + 1
    OBVIOUS
  <2>2. r.k = s /\ r.p = [p EXCEPT !.lfree = c, !.header = [p.header EXCEPT ![b] = Pool],
                                   !.held = [p.held EXCEPT ![b] = h]]
    BY <1>2, <2>1 DEF MemPoolAlloc, PoolState
  <2>3. b \in PoolBlock /\ c \in PoolBlock \cup {Pool} /\ h \in Nat
    BY <1>2, <2>1 DEF PoolState
  <2>4. r.p \in PoolState
    <3>1. /\ [p.header EXCEPT ![b] = Pool] \in [PoolBlock -> PoolBlock \cup {Pool}]
          /\ [p.held EXCEPT ![b] = h] \in [PoolBlock -> Nat]
      BY <2>3 DEF PoolState
    <3> QED BY <2>2, <2>3, <3>1 DEF PoolState
  <2> QED BY <2>2, <2>4 DEF Awakens
<1> QED BY <1>1, <1>2

\* MDS_MemPoolFree of a block that is held.
LEMMA FreeKeeps ==
  ASSUME NEW s, Steady(s), NEW p \in PoolState, NEW b \in PoolBlock, p.held[b] > 0,
         NEW r, r = MemPoolFree(s, p, b)
  PROVE  Steady(r.k) /\ Awakens(s, r.k) /\ r.p \in PoolState
<1>1. CASE p.header[b] # Pool
  <2>1. r.k = SetFault(s, "wild_block") /\ r.p = p
    BY <1>1 DEF MemPoolFree, SetFault
  <2> QED BY <2>1, FaultSteady
<1>2. CASE p.header[b] = Pool
  <2>1. PICK c, g : c = p.lfree /\ g = p.held[b] - 1
    OBVIOUS
  <2>2. /\ r.k = WaitQueueResume(s, PoolQ)
        /\ r.p = [p EXCEPT !.header = [p.header EXCEPT ![b] = c], !.lfree = b,
                           !.held = [p.held EXCEPT ![b] = g]]
    BY <1>2, <2>1 DEF MemPoolFree, PoolState
  <2>3. c \in PoolBlock \cup {Pool} /\ g \in Nat /\ PoolQ \in WaitQ
    BY <2>1, QueuesDiffer DEF PoolState
  <2>5. r.p \in PoolState
    <3>1. /\ [p.header EXCEPT ![b] = c] \in [PoolBlock -> PoolBlock \cup {Pool}]
          /\ [p.held EXCEPT ![b] = g] \in [PoolBlock -> Nat]
      BY <2>3 DEF PoolState
    <3> QED BY <2>2, <2>3, <3>1 DEF PoolState
  <2>4. PICK h : h = WaitQueuePeek(s, PoolQ)
    OBVIOUS
  <2> QED BY <2>2, <2>3, <2>4, <2>5, ResumeSteady
<1> QED BY <1>1, <1>2

-----------------------------------------------------------------------------
(* The steps keep the invariant                                            *)

\* A step gives no thread another priority, and only the owner of a mutex
\* gives it to another thread, in the release that ends its nesting.
HandsOver ==
  /\ k'.prio = k.prio
  /\ mutex.owner \notin {NoThread, mutex'.owner} /\ mutex.life # "none" =>
       Executes(mutex.owner) /\ mutex.nest = 1

\* The thread whose code is executed.
LEMMA Acts ==
  ASSUME IpcInv, NEW t, NEW c, At(t, c)
  PROVE  /\ t \in User /\ t \in Thread /\ t = k.curr /\ t # NoThread
         /\ isr = FALSE /\ pc[t] = c /\ Executes(t)
BY KernelAssumption DEF IpcInv, At, Executes, User

\* Where a thread goes to in its call.
LEMMA Goes ==
  ASSUME CallsOK(pc, kind), NEW t \in Thread, NEW c \in Pc, Goto(t, c),
         c \in {"run", "check"} \/ kind = "cond"
  PROVE  CallsOK(pc', kind)
<1>1. pc \in [Thread -> Pc] /\ pc' = [pc EXCEPT ![t] = c]
  BY DEF CallsOK, Goto
<1>2. pc' \in [Thread -> Pc]
  BY <1>1
<1>3. ASSUME NEW u \in Thread, pc'[u] \notin {"run", "check"} PROVE kind = "cond"
  BY <1>1, <1>3 DEF CallsOK
<1> QED BY <1>2, <1>3 DEF CallsOK

\* The last step of a call, with or without a scheduler check after it.
LEMMA Returns ==
  ASSUME CallsOK(pc, kind), NEW t \in Thread, NEW b, CheckIf(t, b)
  PROVE  CallsOK(pc', kind)
<1>1. PICK c : c = IF b THEN "check" ELSE "run"
  OBVIOUS
<1>2. c \in Pc /\ c \in {"run", "check"}
  BY <1>1 DEF Pc
<1>3. Goto(t, c)
  BY <1>1 DEF CheckIf
<1> QED BY <1>2, <1>3, Goes

\* A step of the processor that touches no object.
LEMMA KernelStep ==
  ASSUME IpcInv, Steady(k'), Awakens(k, k'), isr' \in BOOLEAN, isr' => k'.curr # NoThread,
         UNCHANGED <<kind, objects>>, CallsOK(pc', kind)
  PROVE  IpcInv' /\ HandsOver
<1>1. sem' = sem /\ mutex' = mutex /\ event' = event /\ pool' = pool /\ granted' = granted
      /\ kind' = kind
  BY DEF objects
<1>2. SemOK(k', sem)
  BY SemFrame DEF IpcInv
<1>3. MutexOK(k', mutex) /\ (kind = "mutex" => Inherits(k', mutex))
  BY MutexFrame DEF IpcInv
<1> QED BY <1>1, <1>2, <1>3 DEF IpcInv, Awakens, HandsOver

\* A mutex that nobody owns yet.
LEMMA NewMutexOK ==
  ASSUME NEW s, \A w \in WaitQ : s.list[w] = <<>>, NEW l \in Life
  PROVE  MutexOK(s, NewMutex(l)) /\ Inherits(s, NewMutex(l)) /\ NewMutex(l).life = l
<1>1. 0 \in NestMin..NestMax /\ PrioMax \in Level
  BY NestRange, KernelAssumption DEF Level
<1> QED BY <1>1 DEF NewMutex, MutexOK, MutexState, Inherits

\* A pool whose blocks are all free.
LEMMA NewPoolOK ==
  ASSUME NEW l \in Life
  PROVE  /\ NewPool(l) \in PoolState
         /\ NewPool(l).lfree = BlkNums
         /\ \A b \in PoolBlock : /\ NewPool(l).held[b] = 0
                                 /\ NewPool(l).header[b] = IF b = 1 THEN 1 ELSE b - 1
<1>1. BlkNums \in PoolBlock /\ \A b \in PoolBlock : (IF b = 1 THEN 1 ELSE b - 1) \in PoolBlock
  BY MemPoolAssumption DEF PoolBlock
<1> QED BY <1>1 DEF NewPool, PoolListInit, PoolState, MemBuff

\* An object is put to use while no queue has a waiter.
LEMMA PutToUseKeeps ==
  ASSUME IpcInv, NEW t \in User, PutToUse(t)
  PROVE  IpcInv' /\ HandsOver
<1>0. /\ \A w \in WaitQ : k.list[w] = <<>>
      /\ k' = k /\ isr' = isr /\ kind' = kind /\ pc' = pc
      /\ {"none", "static", "created"} = Life
  BY DEF PutToUse, Life
<1>1. \A x \in SemState : SemOK(k, x)
  BY <1>0, QueuesDiffer DEF SemOK
<1>2. /\ Steady(k) /\ sem \in SemState /\ MutexOK(k, mutex) /\ event \in EventState
      /\ pool \in PoolState /\ granted \in [Thread -> Nat]
  BY DEF IpcInv, SemOK
<1>3. CASE /\ Shares("sem") /\ sem.life = "none"
           /\ sem' \in {SemaphoreInit(sem, MaxPermits, MaxPermits),
                        SemaphoreCreate(MaxPermits, MaxPermits)}
           /\ granted' = [u \in Thread |-> 0] /\ UNCHANGED mutex /\ UNCHANGED <<event, pool>>
  <2>1. sem' \in SemState
    BY <1>0, <1>3, IpcAssumption DEF SemaphoreInit, SemaphoreCreate, NewSemaphore, SemState
  <2>2. granted' \in [Thread -> Nat]
    BY <1>3
  <2> QED BY <1>0, <1>1, <1>3, <2>1, <2>2 DEF IpcInv, HandsOver
<1>4. CASE /\ Shares("mutex") /\ mutex.life = "none"
           /\ mutex' \in {MutexInit(mutex), MutexCreate}
           /\ UNCHANGED <<sem, event, pool, granted>>
  <2>1. \E l \in Life : mutex' = NewMutex(l)
    BY <1>0, <1>4 DEF MutexInit, MutexCreate
  <2>2. MutexOK(k, mutex') /\ Inherits(k, mutex')
    BY <1>0, <2>1, NewMutexOK
  <2> QED BY <1>0, <1>4, <2>2 DEF IpcInv, Shares, HandsOver
<1>5. CASE /\ Shares("cond") /\ sem.life = "none"
           /\ sem' \in {ConditionInit(sem), ConditionCreate}
           /\ mutex' = MutexInit(mutex)
           /\ UNCHANGED <<event, pool, granted>>
  <2>1. sem' \in SemState
    BY <1>0, <1>5, ConditionAssumption
    DEF ConditionInit, ConditionCreate, SemaphoreInit, SemaphoreCreate, NewSemaphore, SemState
  <2>2. MutexOK(k, mutex') /\ (mutex.life = "none" \/ mutex' = mutex)
    BY <1>0, <1>2, <1>5, NewMutexOK DEF MutexInit
  <2> QED BY <1>0, <1>1, <1>5, <2>1, <2>2 DEF IpcInv, Shares, HandsOver
<1>6. CASE /\ Shares("event") /\ event.life = "none"
           /\ event' \in {EventInit(event), EventCreate(event)}
           /\ UNCHANGED <<sem, mutex, pool, granted>>
  <2>1. event' \in EventState
    BY <1>0, <1>2, <1>6 DEF EventInit, EventCreate, EventState
  <2> QED BY <1>0, <1>6, <2>1 DEF IpcInv, HandsOver
<1>7. CASE /\ Shares("pool") /\ pool.life = "none"
           /\ pool' \in {MemPoolInit(pool)} \cup {MemPoolCreate(pool, e) : e \in BOOLEAN}
           /\ UNCHANGED <<sem, mutex, event, granted>>
  <2>1. pool' = pool \/ \E l \in Life : pool' = NewPool(l)
    BY <1>0, <1>7 DEF MemPoolInit, MemPoolCreate
  <2>2. pool' \in PoolState
    BY <1>2, <2>1, NewPoolOK
  <2> QED BY <1>0, <1>7, <2>2 DEF IpcInv, HandsOver
<1> QED BY <1>3, <1>4, <1>5, <1>6, <1>7 DEF PutToUse

\* An object that is retired lets its waiters go.
LEMMA RetireKeeps ==
  ASSUME IpcInv, NEW t \in User, Retire(t)
  PROVE  IpcInv' /\ HandsOver
<1>0. /\ Steady(k) /\ SemOK(k, sem) /\ MutexOK(k, mutex) /\ (kind = "mutex" => Inherits(k, mutex))
      /\ event \in EventState /\ pool \in PoolState /\ CallsOK(pc, kind)
      /\ t = k.curr /\ pc' = pc /\ isr = FALSE
  BY Acts DEF IpcInv, Retire
<1>1. CASE /\ Shares("sem") /\ UNCHANGED granted /\ OnlySem
           /\ \E r : /\ r = IF sem.life = "created" THEN SemaphoreDestroy(k, sem)
                            ELSE SemaphoreDeInit(k, sem)
                     /\ k' = r.k /\ sem' = r.s
  <2>1. PICK r : /\ r = IF sem.life = "created" THEN SemaphoreDestroy(k, sem)
                        ELSE SemaphoreDeInit(k, sem)
                 /\ k' = r.k /\ sem' = r.s
    BY <1>1
  <2>2. Steady(k') /\ SemOK(k', sem') /\ Awakens(k, k')
    <3>1. /\ r \in {SemaphoreDeInit(k, sem), SemaphoreDestroy(k, sem)}
          /\ sem.life = "created" \/ r = SemaphoreDeInit(k, sem)
      BY <2>1
    <3>2. Steady(r.k) /\ SemOK(r.k, r.s) /\ Awakens(k, r.k)
      BY <1>0, <3>1, SemRetireKeeps
    <3> QED BY <2>1, <3>2
  <2>3. MutexOK(k', mutex)
    BY <1>0, <2>2, MutexFrame
  <2> QED BY <1>0, <1>1, <2>2, <2>3 DEF IpcInv, OnlySem, Shares, HandsOver, Awakens
<1>2. CASE /\ Shares("mutex") /\ OnlyMutex
           /\ \E r : /\ r = IF mutex.life = "created" THEN MutexDestroy(k, mutex)
                            ELSE MutexDeInit(k, mutex)
                     /\ k' = r.k /\ mutex' = r.m
  <2>1. PICK r : /\ r = IF mutex.life = "created" THEN MutexDestroy(k, mutex)
                        ELSE MutexDeInit(k, mutex)
                 /\ k' = r.k /\ mutex' = r.m
    BY <1>2
  <2>2. /\ Steady(r.k) /\ Awakens(k, r.k) /\ MutexOK(r.k, r.m)
        /\ Inherits(k, mutex) => Inherits(r.k, r.m)
        /\ r.m.life = "none" /\ r.m.owner = mutex.owner
    BY <1>0, <2>1, MutexRetireKeeps
  <2>3. SemOK(k', sem)
    BY <1>0, <2>1, <2>2, SemFrame
  <2> QED BY <1>0, <1>2, <2>1, <2>2, <2>3 DEF IpcInv, OnlyMutex, Shares, HandsOver, Awakens
<1>3. CASE /\ Shares("cond") /\ UNCHANGED granted /\ OnlySem
           /\ \E r : /\ r = IF sem.life = "created" THEN ConditionDestroy(k, sem, t)
                            ELSE ConditionDeInit(k, sem, t)
                     /\ k' = r.k /\ sem' = r.s
  <2>1. PICK r : /\ r = IF sem.life = "created" THEN ConditionDestroy(k, sem, t)
                        ELSE ConditionDeInit(k, sem, t)
                 /\ k' = r.k /\ sem' = r.s
    BY <1>3
  <2>2. Steady(k') /\ SemOK(k', sem') /\ Awakens(k, k')
    <3>1. Steady(r.k) /\ SemOK(r.k, r.s) /\ Awakens(k, r.k)
      BY <1>0, <2>1, CondRetireKeeps
    <3> QED BY <2>1, <3>1
  <2>3. MutexOK(k', mutex)
    BY <1>0, <2>2, MutexFrame
  <2> QED BY <1>0, <1>3, <2>2, <2>3 DEF IpcInv, OnlySem, Shares, HandsOver, Awakens
<1>4. CASE /\ Shares("event") /\ OnlyEvent /\ UNCHANGED isr
           /\ \E r : /\ r = IF event.life = "created" THEN EventDestroy(k, event)
                            ELSE EventDeInit(k, event)
                     /\ k' = r.k /\ event' = r.e
  <2>1. PICK r : /\ r = IF event.life = "created" THEN EventDestroy(k, event)
                        ELSE EventDeInit(k, event)
                 /\ k' = r.k /\ event' = r.e
    BY <1>4
  <2>2. Steady(k') /\ Awakens(k, k') /\ event' \in EventState
    <3>1. Steady(r.k) /\ Awakens(k, r.k) /\ r.e \in EventState
      BY <1>0, <2>1, EventRetireKeeps
    <3> QED BY <2>1, <3>1
  <2>3. MutexOK(k', mutex) /\ SemOK(k', sem)
    BY <1>0, <2>2, MutexFrame, SemFrame
  <2> QED BY <1>0, <1>4, <2>2, <2>3 DEF IpcInv, OnlyEvent, Shares, HandsOver, Awakens
<1>5. CASE /\ Shares("pool") /\ OnlyPool
           /\ \E r : /\ r = IF pool.life = "created" THEN MemPoolDestroy(k, pool)
                            ELSE MemPoolDeInit(k, pool)
                     /\ k' = r.k /\ pool' = r.p
  <2>1. PICK r : /\ r = IF pool.life = "created" THEN MemPoolDestroy(k, pool)
                        ELSE MemPoolDeInit(k, pool)
                 /\ k' = r.k /\ pool' = r.p
    BY <1>5
  <2>2. Steady(k') /\ Awakens(k, k') /\ pool' \in PoolState
    <3>1. Steady(r.k) /\ Awakens(k, r.k) /\ r.p \in PoolState
      BY <1>0, <2>1, PoolRetireKeeps
    <3> QED BY <2>1, <3>1
  <2>3. MutexOK(k', mutex) /\ SemOK(k', sem)
    BY <1>0, <2>2, MutexFrame, SemFrame
  <2> QED BY <1>0, <1>5, <2>2, <2>3 DEF IpcInv, OnlyPool, Shares, HandsOver, Awakens
<1> QED BY <1>1, <1>2, <1>3, <1>4, <1>5 DEF Retire

\* The calls of a semaphore, of which those of a condition consist as well:
\* a permit is taken, or its caller goes to sleep.
LEMMA AcquireStep ==
  ASSUME IpcInv, NEW t \in User, t = k.curr, isr = FALSE, NEW d \in Nat,
         kind # "mutex", NEW r, r = SemaphoreAcquire(k, sem, t, d),
         k' = r.k, sem' = r.s, OnlySem, CallsOK(pc', kind), granted' \in [Thread -> Nat]
  PROVE  IpcInv' /\ HandsOver
<1>1. Steady(k) /\ SemOK(k, sem) /\ MutexOK(k, mutex)
  BY DEF IpcInv
<1>2. Steady(r.k) /\ SemOK(r.k, r.s) /\ FallsAsleep(k, r.k, SemQ, t)
  BY <1>1, AcquireKeeps
<1>3. MutexOK(r.k, mutex) /\ r.k.prio = k.prio
  BY <1>1, <1>2 DEF FallsAsleep, MutexOK
<1> QED BY <1>2, <1>3 DEF IpcInv, OnlySem, HandsOver

\* A permit given back goes to the first waiter or to the value.
LEMMA ReleaseStep ==
  ASSUME IpcInv, isr = FALSE, kind # "mutex", NEW r, r = SemaphoreRelease(k, sem),
         k' = r.k, sem' = r.s, OnlySem, CallsOK(pc', kind), granted' \in [Thread -> Nat]
  PROVE  IpcInv' /\ HandsOver
<1>1. Steady(k) /\ SemOK(k, sem) /\ MutexOK(k, mutex)
  BY DEF IpcInv
<1>2. PICK w : w = WaitQueuePeek(k, SemQ)
  OBVIOUS
<1>3. Steady(r.k) /\ SemOK(r.k, r.s) /\ Awakens(k, r.k)
  BY <1>1, <1>2, ReleaseKeeps
<1>4. MutexOK(r.k, mutex) /\ r.k.prio = k.prio
  BY <1>1, <1>3, MutexFrame DEF Awakens
<1> QED BY <1>3, <1>4 DEF IpcInv, OnlySem, HandsOver

\* MDS_SemaphoreAcquire as a step of a thread.
LEMMA AcquireNext ==
  ASSUME IpcInv, NEW t \in User, NEW d \in Waits, Acquire(t, d)
  PROVE  IpcInv' /\ HandsOver
<1>1. PICK r : /\ r = SemaphoreAcquire(k, sem, t, d) /\ k' = r.k /\ sem' = r.s
               /\ granted' = [granted EXCEPT ![t] = IF r.err = "EOK" THEN @ + 1 ELSE @]
  BY DEF Acquire
<1>2. t \in Thread /\ t = k.curr /\ isr = FALSE /\ kind = "sem" /\ pc' = pc /\ OnlySem
  BY Acts DEF Acquire, Shares
<1>3. d \in Nat /\ CallsOK(pc', kind)
  BY <1>2, IpcAssumption, KernelAssumption DEF IpcInv
<1>4. granted' \in [Thread -> Nat]
  BY <1>1, <1>2 DEF IpcInv
<1> QED BY <1>1, <1>2, <1>3, <1>4, AcquireStep

\* MDS_SemaphoreRelease as a step of a thread.
LEMMA ReleaseNext ==
  ASSUME IpcInv, NEW t \in User, Release(t)
  PROVE  IpcInv' /\ HandsOver
<1>1. PICK r, back, w :
        /\ r = SemaphoreRelease(k, sem) /\ back = [granted EXCEPT ![t] = granted[t] - 1]
        /\ w = WaitQueuePeek(k, SemQ) /\ k' = r.k /\ sem' = r.s /\ CheckIf(t, r.check)
        /\ granted' = IF w = NoThread THEN back ELSE [back EXCEPT ![w] = back[w] + 1]
  BY DEF Release
<1>2. t \in Thread /\ isr = FALSE /\ kind = "sem" /\ granted[t] > 0 /\ OnlySem
  BY Acts DEF Release, Shares
<1>3. CallsOK(pc', kind)
  BY <1>1, <1>2, Returns DEF IpcInv
<1>4. back \in [Thread -> Nat]
  <2>1. granted \in [Thread -> Nat]
    BY DEF IpcInv
  <2>2. granted[t] - 1 \in Nat
    BY <1>2, <2>1
  <2> QED BY <1>1, <2>1, <2>2
<1>5. granted' \in [Thread -> Nat]
  <2>1. Steady(k) /\ SemOK(k, sem)
    BY DEF IpcInv
  <2>2. w # NoThread => w \in Thread
    BY <1>1, <2>1, ReleaseKeeps DEF User
  <2>3. w # NoThread => back[w] + 1 \in Nat
    BY <1>4, <2>2
  <2> QED BY <1>1, <1>4, <2>2, <2>3
<1>6. r = SemaphoreRelease(k, sem) /\ k' = r.k /\ sem' = r.s
  BY <1>1
<1> QED BY <1>2, <1>3, <1>5, <1>6, ReleaseStep

\* The calls of a mutex.
LEMMA LockStep ==
  ASSUME IpcInv, NEW t \in User, t = k.curr, isr = FALSE, NEW d \in 0..TimerMax,
         kind = "mutex" \/ (kind = "cond" /\ d \in {0, TimerMax}),
         NEW r, r = MutexAcquire(k, mutex, t, d), k' = r.k, mutex' = r.m, OnlyMutex,
         CallsOK(pc', kind)
  PROVE  IpcInv' /\ HandsOver
<1>1. /\ Steady(k) /\ SemOK(k, sem) /\ MutexOK(k, mutex)
      /\ Inherits(k, mutex) \/ d \in {0, TimerMax}
  BY DEF IpcInv
<1>2. /\ Steady(r.k) /\ MutexOK(r.k, r.m)
      /\ r.k.list[SemQ] = k.list[SemQ] /\ r.m.life = mutex.life
      /\ Inherits(k, mutex) => Inherits(r.k, r.m)
      /\ r.k.prio = k.prio /\ (mutex.owner # NoThread => r.m.owner = mutex.owner)
  BY <1>1, LockKeeps
<1>3. SemOK(r.k, sem)
  BY <1>1, <1>2 DEF SemOK
<1> QED BY <1>2, <1>3 DEF IpcInv, OnlyMutex, HandsOver

\* MDS_MutexAcquire as a step of a thread.
LEMMA LockNext ==
  ASSUME IpcInv, NEW t \in User, NEW d \in Waits, Lock(t, d)
  PROVE  IpcInv' /\ HandsOver
<1>1. PICK r : r = MutexAcquire(k, mutex, t, d) /\ k' = r.k /\ mutex' = r.m
  BY DEF Lock
<1>2. t \in Thread /\ t = k.curr /\ isr = FALSE /\ mutex.life # "none" /\ pc' = pc /\ OnlyMutex
  BY Acts DEF Lock
<1>3. kind = "mutex" \/ (kind = "cond" /\ d \in {0, TimerMax})
  BY <1>2 DEF IpcInv, Lock, Shares
<1>4. d \in 0..TimerMax /\ CallsOK(pc', kind)
  BY <1>2, IpcAssumption DEF IpcInv
<1> QED BY <1>1, <1>2, <1>3, <1>4, LockStep

\* The end of MDS_ConditionWait, which takes the mutex again.
LEMMA RelockNext ==
  ASSUME IpcInv, NEW t \in User, Relock(t)
  PROVE  IpcInv' /\ HandsOver
<1>1. PICK r : r = MutexAcquire(k, mutex, t, TimerMax) /\ k' = r.k /\ mutex' = r.m
  BY DEF Relock
<1>2. /\ t \in Thread /\ t = k.curr /\ isr = FALSE /\ pc[t] = "relock"
      /\ Goto(t, "run") /\ OnlyMutex
  BY Acts DEF Relock
<1>3. kind = "cond"
  BY <1>2 DEF IpcInv, CallsOK
<1>4. CallsOK(pc', kind)
  BY <1>2, Goes DEF IpcInv, Pc
<1>5. TimerMax \in 0..TimerMax
  BY KernelAssumption
<1> QED BY <1>1, <1>2, <1>3, <1>4, <1>5, LockStep

\* MDS_MutexRelease as a step of a thread.
LEMMA UnlockNext ==
  ASSUME IpcInv, NEW t \in User, Unlock(t)
  PROVE  IpcInv' /\ HandsOver
<1>1. PICK r : r = MutexRelease(k, mutex, t) /\ k' = r.k /\ mutex' = r.m /\ CheckIf(t, r.check)
  BY DEF Unlock
<1>2. t \in Thread /\ t = k.curr /\ isr = FALSE /\ OnlyMutex /\ Executes(t)
  BY Acts DEF Unlock
<1>3. /\ Steady(k) /\ SemOK(k, sem) /\ MutexOK(k, mutex)
      /\ kind = "mutex" => Inherits(k, mutex)
  BY DEF IpcInv
<1>4. /\ Steady(r.k) /\ Awakens(k, r.k) /\ MutexOK(r.k, r.m) /\ r.m.life = mutex.life
      /\ Inherits(k, mutex) => Inherits(r.k, r.m)
      /\ r.m.owner # mutex.owner => mutex.owner = t /\ mutex.nest = 1
  BY <1>1, <1>2, <1>3, UnlockKeeps
<1>5. SemOK(r.k, sem) /\ r.k.prio = k.prio
  BY <1>3, <1>4, SemFrame DEF Awakens
<1>6. CallsOK(pc', kind)
  BY <1>1, <1>2, Returns DEF IpcInv
<1> QED BY <1>1, <1>2, <1>3, <1>4, <1>5, <1>6 DEF IpcInv, OnlyMutex, HandsOver

\* The calls of a condition.
LEMMA WaitNext ==
  ASSUME IpcInv, NEW t \in User, NEW d \in Waits, Wait(t, d)
  PROVE  IpcInv' /\ HandsOver
<1>1. PICK r : /\ r = ConditionWait(k, sem, mutex, t, d)
               /\ k' = r.k /\ sem' = r.s /\ mutex' = r.m
               /\ Goto(t, IF r.waits THEN "relock" ELSE "run")
  BY DEF Wait
<1>2. /\ t \in Thread /\ t = k.curr /\ isr = FALSE /\ kind = "cond" /\ mutex.owner = k.curr
      /\ Executes(t)
      /\ isr' = isr /\ kind' = kind /\ event' = event /\ pool' = pool /\ granted' = granted
  BY Acts DEF Wait, Shares
<1>3. d \in Nat /\ Steady(k) /\ SemOK(k, sem) /\ MutexOK(k, mutex)
  BY IpcAssumption, KernelAssumption DEF IpcInv
<1>4. /\ Steady(r.k) /\ SemOK(r.k, r.s) /\ MutexOK(r.k, r.m) /\ r.m.life = mutex.life
      /\ r.k.prio = k.prio /\ (r.m.owner # mutex.owner => mutex.nest = 1)
  BY <1>1, <1>2, <1>3, ConditionWaitKeeps
<1>5. CallsOK(pc', kind)
  <2>1. PICK c : c = IF r.waits THEN "relock" ELSE "run"
    OBVIOUS
  <2>2. c \in Pc
    BY <2>1 DEF Pc
  <2> QED BY <1>1, <1>2, <2>1, <2>2, Goes DEF IpcInv, HandsOver
<1> QED BY <1>1, <1>2, <1>4, <1>5 DEF IpcInv, HandsOver

\* The reads at the start of MDS_ConditionSignal and of MDS_ConditionBroadCast.
LEMMA SignalNext ==
  ASSUME IpcInv, NEW t \in User, Signal(t) \/ Broadcast(t)
  PROVE  IpcInv' /\ HandsOver
<1>1. /\ t \in Thread /\ kind = "cond" /\ k' = k /\ UNCHANGED <<isr, kind, objects>>
      /\ Goto(t, "signal") \/ Goto(t, "broadcast")
  BY Acts DEF Signal, Broadcast, Shares
<1>2. "signal" \in Pc /\ "broadcast" \in Pc
  BY DEF Pc
<1>3. CallsOK(pc', kind)
  BY <1>1, <1>2, Goes DEF IpcInv
<1>4. Steady(k') /\ Awakens(k, k') /\ isr' = isr
  BY <1>1 DEF IpcInv, Awakens
<1> QED BY <1>1, <1>3, <1>4, KernelStep DEF IpcInv, HandsOver

\* The release in a signal and those in a broadcast.
LEMMA SignalReleaseNext ==
  ASSUME IpcInv, NEW t \in User, SignalRelease(t) \/ BroadcastRelease(t)
  PROVE  IpcInv' /\ HandsOver
<1>1. PICK r, c : /\ r = SemaphoreRelease(k, sem) /\ k' = r.k /\ sem' = r.s
                  /\ Goto(t, c) /\ c \in {"check", "run", "checkmore", "broadcast"}
  <2>1. PICK r : /\ r = SemaphoreRelease(k, sem) /\ k' = r.k /\ sem' = r.s
                 /\ \/ Goto(t, IF r.check THEN "check" ELSE "run")
                    \/ Goto(t, IF r.check THEN "checkmore" ELSE "broadcast")
    BY DEF SignalRelease, BroadcastRelease, CheckIf
  <2>2. CASE r.check
    BY <2>1, <2>2
  <2>3. CASE ~r.check
    BY <2>1, <2>3
  <2> QED BY <2>2, <2>3
<1>2. /\ t \in Thread /\ isr = FALSE /\ granted' = granted /\ OnlySem
      /\ pc[t] \notin {"run", "check"}
  <2>1. granted' = granted /\ OnlySem /\ (At(t, "signal") \/ At(t, "more"))
    BY DEF SignalRelease, BroadcastRelease
  <2>2. t \in Thread /\ isr = FALSE /\ pc[t] \in {"signal", "more"}
    BY <2>1, Acts
  <2> QED BY <2>1, <2>2
<1>3. kind = "cond"
  BY <1>2 DEF IpcInv, CallsOK
<1>4. c \in Pc
  BY <1>1 DEF Pc
<1>5. CallsOK(pc', kind) /\ granted' \in [Thread -> Nat]
  BY <1>1, <1>2, <1>3, <1>4, Goes DEF IpcInv
<1> QED BY <1>1, <1>2, <1>3, <1>5, ReleaseStep

\* A broadcast tries the semaphore before each of its releases.
LEMMA BroadcastAcquireNext ==
  ASSUME IpcInv, NEW t \in User, BroadcastAcquire(t)
  PROVE  IpcInv' /\ HandsOver
<1>1. PICK r, c : /\ r = SemaphoreAcquire(k, sem, t, 0) /\ k' = r.k /\ sem' = r.s
                  /\ Goto(t, c) /\ c \in {"signal", "more"}
  BY DEF BroadcastAcquire
<1>2. /\ t \in Thread /\ t = k.curr /\ isr = FALSE /\ granted' = granted /\ OnlySem
      /\ pc[t] = "broadcast"
  BY Acts DEF BroadcastAcquire
<1>3. kind = "cond"
  BY <1>2 DEF IpcInv, CallsOK
<1>4. c \in Pc
  BY <1>1 DEF Pc
<1>5. CallsOK(pc', kind) /\ granted' \in [Thread -> Nat]
  BY <1>1, <1>2, <1>3, <1>4, Goes DEF IpcInv
<1> QED BY <1>1, <1>2, <1>3, <1>5, AcquireStep

\* The calls of an event and of a memory pool.
LEMMA EventNext ==
  ASSUME IpcInv, NEW t \in User, NEW b \in Mask,
         \/ \E opt \in EventOpts, d \in Waits : WaitEvent(t, b, opt, d)
         \/ SetEvent(t, b) \/ ClearEvent(t, b)
  PROVE  IpcInv' /\ HandsOver
<1>0. /\ Steady(k) /\ SemOK(k, sem) /\ MutexOK(k, mutex) /\ event \in EventState
      /\ b \in SUBSET Bit /\ CallsOK(pc, kind)
  BY DEF IpcInv, Mask
<1>1. CASE \E opt \in EventOpts, d \in Waits : WaitEvent(t, b, opt, d)
  <2>1. PICK opt \in EventOpts, d \in Waits : WaitEvent(t, b, opt, d)
    BY <1>1
  <2>2. PICK r : r = EventWait(k, event, t, b, opt, d) /\ k' = r.k /\ event' = r.e
    BY <2>1 DEF WaitEvent
  <2>3. t = k.curr /\ isr = FALSE /\ kind = "event" /\ isr' = isr /\ pc' = pc /\ OnlyEvent
    BY <2>1, Acts DEF WaitEvent, Shares
  <2>4. opt \in EventOpt /\ d \in Nat
    BY IpcAssumption, KernelAssumption
  <2>5. Steady(r.k) /\ r.e \in EventState /\ FallsAsleep(k, r.k, EventQ, t)
    BY <1>0, <2>2, <2>3, <2>4, EventWaitKeeps
  <2>6. EventQ \in WaitQ \ {SemQ}
    BY QueuesDiffer
  <2>7. SemOK(r.k, sem) /\ MutexOK(r.k, mutex) /\ r.k.prio = k.prio
    BY <1>0, <2>5, <2>6, SleepFrame DEF FallsAsleep
  <2> QED BY <2>2, <2>3, <2>5, <2>7 DEF IpcInv, OnlyEvent, HandsOver
<1>2. CASE SetEvent(t, b)
  <2>1. PICK r : r = EventSet(k, event, b) /\ k' = r.k /\ event' = r.e /\ CheckIf(t, r.check)
    BY <1>2 DEF SetEvent
  <2>2. t \in Thread /\ isr = FALSE /\ kind = "event" /\ isr' = isr /\ OnlyEvent
    BY <1>2, Acts DEF SetEvent, Shares
  <2>3. Steady(r.k) /\ Awakens(k, r.k) /\ r.e \in EventState
    BY <1>0, <2>1, EventSetKeeps
  <2>4. SemOK(r.k, sem) /\ MutexOK(r.k, mutex) /\ r.k.prio = k.prio
    BY <1>0, <2>3, SemFrame, MutexFrame DEF Awakens
  <2>5. CallsOK(pc', kind)
    BY <1>0, <2>1, <2>2, Returns
  <2> QED BY <2>1, <2>2, <2>3, <2>4, <2>5 DEF IpcInv, OnlyEvent, HandsOver
<1>3. CASE ClearEvent(t, b)
  <2>1. /\ k' = k /\ isr' = isr /\ pc' = pc /\ OnlyEvent
        /\ event' = [event EXCEPT !.value = event.value \ b]
    BY <1>3 DEF ClearEvent, EventClr
  <2>2. event' \in EventState
    BY <1>0, <2>1 DEF EventState
  <2> QED BY <2>1, <2>2 DEF IpcInv, OnlyEvent, HandsOver
<1> QED BY <1>1, <1>2, <1>3

\* A timer callback sets an event.
LEMMA InterruptSetNext ==
  ASSUME IpcInv, NEW b \in Mask, InterruptSet(b)
  PROVE  /\ IpcInv' /\ HandsOver
         /\ ~(event.value \subseteq event'.value) =>
              Len(k'.list[EventQ]) = Len(k.list[EventQ]) - 1
<1>0. /\ Steady(k) /\ SemOK(k, sem) /\ MutexOK(k, mutex) /\ event \in EventState
      /\ b \in SUBSET Bit /\ CallsOK(pc, kind) /\ EventQ \in WaitQ
  BY QueuesDiffer DEF IpcInv, Mask
<1>1. PICK r : /\ r = EventSet(k, event, b) /\ event' = r.e
               /\ k' = IF r.check THEN SchedulerCheck(r.k) ELSE r.k
  BY DEF InterruptSet
<1>2. isr = TRUE /\ k.curr # NoThread /\ kind = "event" /\ isr' = isr /\ pc' = pc /\ OnlyEvent
  BY DEF InterruptSet, IpcInv, Shares
<1>3. /\ Steady(r.k) /\ Awakens(k, r.k) /\ SameProcessor(k, r.k) /\ r.e \in EventState
      /\ ~(event.value \subseteq r.e.value) =>
           Len(r.k.list[EventQ]) = Len(k.list[EventQ]) - 1
  BY <1>0, <1>1, EventSetKeeps
<1>4. r.k.curr # NoThread
  BY <1>2, <1>3 DEF SameProcessor
<1>5. /\ Steady(k') /\ Awakens(r.k, k') /\ k'.curr # NoThread
      /\ k'.list[EventQ] = r.k.list[EventQ]
  <2>1. CASE r.check
    <3>1. PICK n : n = SchedulerCheck(r.k)
      OBVIOUS
    <3>2. /\ Steady(n) /\ Awakens(r.k, n) /\ n.curr \in Thread
          /\ \A w \in WaitQ : n.list[w] = r.k.list[w]
      BY <1>3, <1>4, <3>1, CheckSteady
    <3>3. k' = n
      BY <1>1, <2>1, <3>1
    <3> QED BY <1>0, <3>2, <3>3, KernelAssumption
  <2>2. CASE ~r.check
    BY <1>1, <1>3, <1>4, <2>2 DEF Awakens
  <2> QED BY <2>1, <2>2
<1>6. Awakens(k, k')
  BY <1>3, <1>5, AwakensCompose
<1>7. SemOK(k', sem) /\ MutexOK(k', mutex) /\ k'.prio = k.prio
  BY <1>0, <1>6, SemFrame, MutexFrame DEF Awakens
<1> QED BY <1>1, <1>2, <1>3, <1>5, <1>7 DEF IpcInv, OnlyEvent, HandsOver

\* MDS_MemPoolAlloc and MDS_MemPoolFree as steps of a thread.
LEMMA PoolNext ==
  ASSUME IpcInv, NEW t \in User, Alloc(t) \/ \E b \in PoolBlock : Free(t, b)
  PROVE  IpcInv' /\ HandsOver
<1>0. Steady(k) /\ SemOK(k, sem) /\ MutexOK(k, mutex) /\ pool \in PoolState /\ CallsOK(pc, kind)
  BY DEF IpcInv
<1>1. PICK r : /\ Steady(r.k) /\ Awakens(k, r.k) /\ r.p \in PoolState
               /\ k' = r.k /\ pool' = r.p
               /\ pc' = pc \/ CheckIf(t, r.check)
  <2>1. CASE Alloc(t)
    <3>1. PICK r : r = MemPoolAlloc(k, pool) /\ k' = r.k /\ pool' = r.p /\ pc' = pc
      BY <2>1 DEF Alloc
    <3>2. Steady(r.k) /\ Awakens(k, r.k) /\ r.p \in PoolState
      BY <1>0, <3>1, AllocKeeps
    <3> QED BY <3>1, <3>2
  <2>2. CASE \E b \in PoolBlock : Free(t, b)
    <3>1. PICK b \in PoolBlock : Free(t, b)
      BY <2>2
    <3>2. PICK r : /\ r = MemPoolFree(k, pool, b) /\ k' = r.k /\ pool' = r.p
                   /\ CheckIf(t, r.check) /\ pool.held[b] > 0
      BY <3>1 DEF Free
    <3>3. Steady(r.k) /\ Awakens(k, r.k) /\ r.p \in PoolState
      BY <1>0, <3>2, FreeKeeps
    <3> QED BY <3>2, <3>3
  <2> QED BY <2>1, <2>2
<1>2. t \in Thread /\ isr = FALSE /\ kind = "pool" /\ OnlyPool
  BY Acts DEF Alloc, Free, Shares
<1>3. CallsOK(pc', kind)
  BY <1>0, <1>1, <1>2, Returns
<1>4. SemOK(r.k, sem) /\ MutexOK(r.k, mutex) /\ r.k.prio = k.prio
  BY <1>0, <1>1, SemFrame, MutexFrame DEF Awakens
<1> QED BY <1>1, <1>2, <1>3, <1>4 DEF IpcInv, OnlyPool, HandsOver

\* The kernel steps between the calls.
LEMMA CheckNext ==
  ASSUME IpcInv, NEW t \in User, Check(t)
  PROVE  IpcInv' /\ HandsOver
<1>1. /\ k' = SchedulerCheck(k) /\ UNCHANGED <<isr, kind, objects>>
      /\ Goto(t, IF pc[t] = "check" THEN "run" ELSE "broadcast")
      /\ At(t, "check") \/ At(t, "checkmore")
  BY DEF Check
<1>2. t \in Thread /\ isr = FALSE /\ k.curr # NoThread /\ pc[t] \in {"check", "checkmore"}
  BY <1>1, Acts
<1>3. Steady(k') /\ Awakens(k, k')
  BY <1>1, <1>2, CheckSteady DEF IpcInv
<1>4. CallsOK(pc', kind)
  <2>1. PICK c : c = IF pc[t] = "check" THEN "run" ELSE "broadcast"
    OBVIOUS
  <2>2. c \in Pc /\ (c \in {"run", "check"} \/ pc[t] = "checkmore")
    BY <1>2, <2>1 DEF Pc
  <2>3. c \in {"run", "check"} \/ kind = "cond"
    BY <1>2, <2>2 DEF IpcInv, CallsOK
  <2> QED BY <1>1, <1>2, <2>1, <2>2, <2>3, Goes DEF IpcInv
<1>5. isr' = FALSE
  BY <1>1, <1>2
<1> QED BY <1>1, <1>3, <1>4, <1>5, KernelStep

\* MDS_ThreadYield and MDS_ThreadStartup.
LEMMA YieldNext ==
  ASSUME IpcInv, NEW t \in User, Yield(t) \/ \E u \in User : Start(t, u)
  PROVE  IpcInv' /\ HandsOver
<1>1. /\ UNCHANGED <<isr, kind, objects>> /\ Goto(t, "check") /\ At(t, "run")
      /\ k' = ThreadYield(k, t) \/ \E u \in Thread : k' = ThreadStartup(k, u)
  BY DEF Yield, Start, User
<1>2. t \in Thread /\ isr = FALSE /\ "check" \in Pc
  BY <1>1, Acts DEF Pc
<1>3. Steady(k') /\ Awakens(k, k')
  BY <1>1, <1>2, YieldSteady, StartSteady DEF IpcInv
<1>4. CallsOK(pc', kind)
  BY <1>1, <1>2, Goes DEF IpcInv
<1>5. isr' = FALSE
  BY <1>1, <1>2
<1> QED BY <1>1, <1>3, <1>4, <1>5, KernelStep

\* The threads that are started before the scheduler, and its start.
LEMMA BootNext ==
  ASSUME IpcInv, Boot
  PROVE  IpcInv' /\ HandsOver
<1>1. UNCHANGED <<kind, objects, pc>> /\ isr' = isr /\ k.curr = NoThread
  BY DEF Boot, StartBeforeBoot, StartScheduler
<1>2. isr = FALSE /\ CallsOK(pc', kind) /\ Steady(k)
  BY <1>1 DEF IpcInv
<1>3. Steady(k') /\ Awakens(k, k')
  <2>1. CASE \E t \in User : StartBeforeBoot(t)
    <3>1. PICK t \in User : k' = ThreadStartup(k, t)
      BY <2>1 DEF StartBeforeBoot
    <3> QED BY <1>2, <3>1, StartSteady DEF User
  <2>2. CASE StartScheduler
    BY <1>1, <1>2, <2>2, KernelStartupSteady DEF StartScheduler
  <2> QED BY <2>1, <2>2 DEF Boot
<1> QED BY <1>1, <1>2, <1>3, KernelStep

\* The tick, the expired timers, and the end of an interrupt.
LEMMA InterruptNext ==
  ASSUME IpcInv, Interrupt
  PROVE  IpcInv' /\ HandsOver
<1>1. UNCHANGED <<kind, objects, pc>> /\ CallsOK(pc', kind) /\ Steady(k)
  BY DEF Interrupt, IpcInv
<1>2. CASE TickInterrupt
  <2>1. k' = ClockTick(k) /\ k.curr # NoThread /\ isr' = TRUE
    BY <1>2 DEF TickInterrupt
  <2>2. Steady(k') /\ Awakens(k, k') /\ k'.curr \in Thread
    BY <1>1, <2>1, TickSteady
  <2> QED BY <1>1, <2>1, <2>2, KernelStep, KernelAssumption
<1>3. CASE TimerInterrupt
  <2>1. k' = TimerExpire(k) /\ k.curr # NoThread /\ isr' = TRUE /\ TimerDue(k)
    BY <1>3 DEF TimerInterrupt, IpcInv
  <2>2. Steady(k') /\ Awakens(k, k') /\ k'.curr \in Thread
    BY <1>1, <2>1, ExpireSteady
  <2> QED BY <1>1, <2>1, <2>2, KernelStep, KernelAssumption
<1>4. CASE InterruptReturn
  <2>1. k' = k /\ isr' = FALSE
    BY <1>4 DEF InterruptReturn
  <2>2. Steady(k') /\ Awakens(k, k')
    BY <1>1, <2>1 DEF Awakens
  <2> QED BY <1>1, <2>1, <2>2, KernelStep
<1> QED BY <1>2, <1>3, <1>4 DEF Interrupt

\* The objects before they are put to use, and the system before it runs.
LEMMA IpcInvInit == Init => IpcInv
<1> SUFFICES ASSUME Init PROVE IpcInv
  OBVIOUS
<1>1. PICK p \in [User -> Prio] :
        k = KernelInit([t \in Thread |-> IF t = Idle THEN PrioMax ELSE p[t]])
  BY DEF Init, ProcessorInit
<1>2. PICK a : a = [t \in Thread |-> IF t = Idle THEN PrioMax ELSE p[t]]
  OBVIOUS
<1>3. a \in [Thread -> Level] /\ a[Idle] = PrioMax /\ \A t \in Thread \ {Idle} : a[t] \in Prio
  <2>1. \A t \in Thread \ {Idle} : p[t] \in Prio
    BY DEF User
  <2>2. PrioMax \in Level /\ Prio \subseteq Level /\ Idle \in Thread
    BY KernelAssumption DEF Prio, Level
  <2> QED BY <1>2, <2>1, <2>2
<1>4. /\ Orderly(k) /\ k.fault = "none" /\ k.nest = 0 /\ k.curr = NoThread
      /\ \A l \in Lists : k.list[l] = <<>> /\ \A t : ~On(k, l, t)
      /\ \A t \in Thread : k.left[t] = 0
  <2>1. k = KernelInit(a)
    BY <1>1, <1>2
  <2> QED BY <1>3, <2>1, KernelInitOrderly
<1>5. WaitQ \subseteq Lists /\ 0 < TimerMax
  BY KernelAssumption DEF Lists
<1>6. Steady(k) /\ \A w \in WaitQ : k.list[w] = <<>>
  BY <1>4, <1>5 DEF Steady, Short, WaitersTimed, CurrentWaits
<1>7. {"none", "static", "created"} = Life
  BY DEF Life
<1>8. SemOK(k, sem)
  BY <1>6, <1>7, QueuesDiffer DEF Init, NewSemaphore, SemOK, SemState
<1>9. MutexOK(k, mutex) /\ Inherits(k, mutex) /\ mutex.life = "none"
  BY <1>6, <1>7, NewMutexOK DEF Init
<1>10. event \in EventState
  <2>1. /\ [t \in Thread |-> {}] \in [Thread -> SUBSET Bit]
        /\ [t \in Thread |-> [all |-> FALSE, keep |-> FALSE]] \in [Thread -> EventOpt]
        /\ {} \in SUBSET Bit
    BY DEF EventOpt
  <2> QED BY <1>7, <2>1 DEF Init, NewEvent, EventState
<1>11. pool \in PoolState
  BY <1>7, NewPoolOK DEF Init
<1>12. CallsOK(pc, kind) /\ granted \in [Thread -> Nat] /\ isr = FALSE /\ kind \in Kind
  BY DEF Init, CallsOK, Pc, ProcessorInit
<1> QED BY <1>6, <1>8, <1>9, <1>10, <1>11, <1>12 DEF IpcInv

\* Every step keeps the invariant and hands the mutex over as it should.
LEMMA IpcInvNext == IpcInv /\ [Next]_vars => IpcInv' /\ HandsOver
<1> SUFFICES ASSUME IpcInv, [Next]_vars PROVE IpcInv' /\ HandsOver
  OBVIOUS
<1>1. CASE UNCHANGED vars
  BY <1>1 DEF vars, IpcInv, HandsOver
<1>2. CASE Boot
  BY <1>2, BootNext
<1>3. CASE Interrupt
  BY <1>3, InterruptNext
<1>4. CASE \E b \in Mask : InterruptSet(b)
  BY <1>4, InterruptSetNext
<1>5. CASE \E t \in User : Step(t)
  <2>1. PICK t \in User : Step(t)
    BY <1>5
  <2>2. CASE PutToUse(t) \/ Retire(t) \/ Check(t) \/ Yield(t) \/ \E u \in User : Start(t, u)
    BY <2>2, PutToUseKeeps, RetireKeeps, CheckNext, YieldNext
  <2>3. CASE \E d \in Waits : Acquire(t, d) \/ Lock(t, d) \/ Wait(t, d)
    BY <2>3, AcquireNext, LockNext, WaitNext
  <2>4. CASE Release(t) \/ Unlock(t) \/ Relock(t)
    BY <2>4, ReleaseNext, UnlockNext, RelockNext
  <2>5. CASE \/ Signal(t) \/ SignalRelease(t)
             \/ Broadcast(t) \/ BroadcastAcquire(t) \/ BroadcastRelease(t)
    BY <2>5, SignalNext, SignalReleaseNext, BroadcastAcquireNext
  <2>6. CASE \E s \in Mask :
               \/ \E opt \in EventOpts, d \in Waits : WaitEvent(t, s, opt, d)
               \/ SetEvent(t, s) \/ ClearEvent(t, s)
    BY <2>6, EventNext
  <2>7. CASE Alloc(t) \/ \E b \in PoolBlock : Free(t, b)
    BY <2>7, PoolNext
  <2> QED BY <2>1, <2>2, <2>3, <2>4, <2>5, <2>6, <2>7 DEF Step
<1> QED BY <1>1, <1>2, <1>3, <1>4, <1>5 DEF Next

\* The objects are always in order.
LEMMA IpcAlwaysInOrder == Spec => []IpcInv
<1> QED BY IpcInvInit, IpcInvNext, PTL DEF Spec

\* Everything has its type, and no call of an object breaks the lists of the
\* scheduler and of the timers.
THEOREM TypeCorrect == Spec => []TypeOK
<1>1. IpcInv => TypeOK
  BY DEF IpcInv, TypeOK, Steady, Orderly, Sound, SemOK, SemState, MutexOK, MutexState,
         EventState, PoolState, CallsOK
<1> QED BY <1>1, IpcAlwaysInOrder, PTL

\* Whoever is queued for an object sleeps with its timer armed, whatever
\* became of the object (the waits of ipc/ go on in the caller, and a retired
\* object leaves its waiters queued).
THEOREM WaitersAlwaysArmed == Spec => []WaitersArmed
<1>1. ASSUME IpcInv PROVE WaitersArmed
  <2>1. \A t \in Thread : \A w \in WaitQ :
          On(k, w, t) => k.st[t] = "SUSPENDED" /\ Armed(k, t) /\ k.left[t] < TimerMax
    BY <1>1, SteadyFields DEF IpcInv, Steady, Short, WaitersTimed, Placed
  <2> QED BY <2>1 DEF WaitersArmed, User
<1> QED BY <1>1, IpcAlwaysInOrder, PTL

\* No call leaves a thread with another priority, and a mutex in use changes
\* hands only in the release by its owner that ends its nesting (the priority
\* of the owner is restored by MDS_MutexAcquire and MDS_MutexRelease).
THEOREM MutexStaysOwned == Spec => MutexOwnership
<1>1. IpcInv /\ [Next]_vars =>
        [/\ k'.prio = k.prio
         /\ mutex.owner \notin {NoThread, mutex'.owner} /\ mutex.life # "none"
              => Executes(mutex.owner) /\ mutex.nest = 1]_vars
  BY IpcInvNext DEF HandsOver
<1> QED BY <1>1, IpcAlwaysInOrder, PTL DEF Spec, MutexOwnership

\* When MDS_EventSet in an interrupt takes bits that were there before, it
\* takes a waiter off the queue.
THEOREM ConsumedAlwaysWakesOne == Spec => ConsumedWakesOne
<1>1. ASSUME IpcInv, [Next]_vars, isr, ~(event.value \subseteq event'.value)
      PROVE  Len(k'.list[EventQ]) = Len(k.list[EventQ]) - 1
  <2>1. event' # event
    BY <1>1
  <2>2. ~Boot /\ ~Interrupt /\ ~UNCHANGED vars
    BY <2>1 DEF Boot, Interrupt, objects, vars
  <2>3. ASSUME NEW t \in User, Step(t) PROVE FALSE
    <3>1. \E c : At(t, c)
      BY <2>3 DEF Step, PutToUse, Retire, Check, Yield, Start, Acquire, Lock, Wait, Release,
                  Unlock, Relock, Signal, SignalRelease, Broadcast, BroadcastAcquire,
                  BroadcastRelease, WaitEvent, SetEvent, ClearEvent, Alloc, Free
    <3> QED BY <1>1, <3>1, Acts
  <2>4. \E b \in Mask : InterruptSet(b)
    BY <1>1, <2>2, <2>3 DEF Next
  <2> QED BY <1>1, <2>4, InterruptSetNext
<1>2. IpcInv /\ [Next]_vars =>
        [isr /\ ~(event.value \subseteq event'.value)
           => Len(k'.list[EventQ]) = Len(k.list[EventQ]) - 1]_vars
  BY <1>1
<1> QED BY <1>2, IpcAlwaysInOrder, PTL DEF Spec, ConsumedWakesOne

-----------------------------------------------------------------------------
(* Permits                                                                 *)

\* One more permit for the thread t.
LEMMA GivenMore ==
  ASSUME NEW g \in [Thread -> Nat], NEW t \in Thread, NEW h, h = [g EXCEPT ![t] = g[t] + 1]
  PROVE  /\ Given(h) = Given(g) \cup {<<t, g[t] + 1>>} /\ <<t, g[t] + 1>> \notin Given(g)
         /\ IsFiniteSet(Given(g)) =>
              /\ IsFiniteSet(Given(h))
              /\ Cardinality(Given(h)) = Cardinality(Given(g)) + 1
<1>0. ASSUME NEW f, NEW x
      PROVE  x \in Given(f) <=> \E u \in Thread : \E i \in 1..f[u] : x = <<u, i>>
  BY DEF Given
<1>1. g[t] \in Nat /\ \A u \in Thread : h[u] = IF u = t THEN g[t] + 1 ELSE g[u]
  OBVIOUS
<1>2. PICK n : n = g[t] + 1
  OBVIOUS
<1>3. ASSUME NEW u \in Thread, NEW i
      PROVE  i \in 1..h[u] <=> i \in 1..g[u] \/ (u = t /\ i = n)
  <2>1. CASE u = t
    <3>1. h[u] = n /\ g[u] \in Nat /\ n = g[u] + 1
      BY <1>1, <1>2, <2>1
    <3> QED BY <2>1, <3>1
  <2>2. CASE u # t
    BY <1>1, <2>2
  <2> QED BY <2>1, <2>2
<1>4. Given(h) = Given(g) \cup {<<t, n>>}
  <2>1. ASSUME NEW x PROVE x \in Given(h) <=> x \in Given(g) \/ x = <<t, n>>
    <3>1. x \in Given(h) <=> \E u \in Thread : \E i \in 1..h[u] : x = <<u, i>>
      BY DEF Given
    <3>2. x \in Given(g) <=> \E u \in Thread : \E i \in 1..g[u] : x = <<u, i>>
      BY <1>0
    <3> QED BY <1>3, <3>1, <3>2
  <2> QED BY <2>1
<1>5. <<t, n>> \notin Given(g)
  <2>1. ASSUME NEW u \in Thread, NEW i \in 1..g[u], <<t, n>> = <<u, i>> PROVE FALSE
    BY <1>1, <1>2, <2>1
  <2>2. <<t, n>> \in Given(g) <=> \E u \in Thread : \E i \in 1..g[u] : <<t, n>> = <<u, i>>
    BY <1>0
  <2> QED BY <2>1, <2>2
<1>6. ASSUME IsFiniteSet(Given(g))
      PROVE  IsFiniteSet(Given(h)) /\ Cardinality(Given(h)) = Cardinality(Given(g)) + 1
  <2>1. PICK x, G : x = <<t, n>> /\ G = Given(g)
    OBVIOUS
  <2>2. IsFiniteSet(G) /\ x \notin G /\ Given(h) = G \cup {x}
    BY <1>4, <1>5, <1>6, <2>1
  <2>3. IsFiniteSet(G \cup {x}) /\ Cardinality(G \cup {x}) = Cardinality(G) + 1
    BY <2>2, FS_AddElement
  <2> QED BY <2>1, <2>2, <2>3
<1> QED BY <1>2, <1>4, <1>5, <1>6

\* One permit less.
LEMMA GivenLess ==
  ASSUME NEW g \in [Thread -> Nat], NEW t \in Thread, g[t] > 0, IsFiniteSet(Given(g)),
         NEW h, h = [g EXCEPT ![t] = g[t] - 1]
  PROVE  /\ IsFiniteSet(Given(h)) /\ Cardinality(Given(h)) \in Nat
         /\ Cardinality(Given(g)) = Cardinality(Given(h)) + 1
<1>1. g[t] - 1 \in Nat
  OBVIOUS
<1>2. h \in [Thread -> Nat] /\ h[t] + 1 = g[t]
  BY <1>1
<1>3. g = [h EXCEPT ![t] = h[t] + 1]
  BY <1>2
<1>4. Given(g) = Given(h) \cup {<<t, h[t] + 1>>} /\ <<t, h[t] + 1>> \notin Given(h)
  BY <1>2, <1>3, GivenMore
<1>5. Given(h) = Given(g) \ {<<t, h[t] + 1>>}
  BY <1>4
<1>6. IsFiniteSet(Given(h))
  <2>1. PICK x, G : x = <<t, h[t] + 1>> /\ G = Given(g)
    OBVIOUS
  <2>2. IsFiniteSet(G \ {x})
    BY <2>1, FS_RemoveElement
  <2> QED BY <1>5, <2>1, <2>2
<1>7. Cardinality(Given(h)) \in Nat
  BY <1>6, FS_CardinalityType
<1>8. Cardinality(Given(g)) = Cardinality(Given(h)) + 1
  BY <1>2, <1>3, <1>6, GivenMore
<1> QED BY <1>6, <1>7, <1>8

\* Which steps touch the permits of a semaphore, and the blocks of a pool.
LEMMA OtherSteps ==
  ASSUME IpcInv, [Next]_vars
  PROVE  /\ kind' = kind
         /\ \/ kind # "sem" \/ UNCHANGED <<sem, granted>>
            \/ \E t \in User : \/ PutToUse(t) \/ Retire(t) \/ Release(t)
                               \/ \E d \in Waits : Acquire(t, d)
         /\ \/ UNCHANGED pool
            \/ \E t \in User : \/ PutToUse(t) \/ Retire(t) \/ Alloc(t)
                               \/ \E b \in PoolBlock : Free(t, b)
<1>1. CASE UNCHANGED vars
  BY <1>1 DEF vars
<1>2. CASE Boot \/ Interrupt
  BY <1>2 DEF Boot, Interrupt, objects
<1>3. CASE \E b \in Mask : InterruptSet(b)
  BY <1>3 DEF InterruptSet, OnlyEvent
<1>4. CASE \E t \in User : Step(t)
  <2>1. PICK t \in User : Step(t)
    BY <1>4
  <2>2. CASE PutToUse(t) \/ Retire(t)
    BY <2>2 DEF PutToUse, Retire, OnlySem, OnlyMutex, OnlyEvent, OnlyPool
  <2>3. CASE Check(t) \/ Yield(t) \/ \E u \in User : Start(t, u)
    BY <2>3 DEF Check, Yield, Start, objects
  <2>4. CASE \E d \in Waits : Acquire(t, d) \/ Lock(t, d) \/ Wait(t, d)
    BY <2>4 DEF Acquire, Lock, Wait, OnlySem, OnlyMutex, Shares
  <2>5. CASE Release(t) \/ Unlock(t) \/ Relock(t)
    BY <2>5 DEF Release, Unlock, Relock, OnlySem, OnlyMutex
  <2>6. CASE Signal(t) \/ Broadcast(t)
    BY <2>6 DEF Signal, Broadcast, objects
  <2>7. CASE SignalRelease(t) \/ BroadcastAcquire(t) \/ BroadcastRelease(t)
    <3>1. \E c \in {"signal", "broadcast", "more"} : At(t, c)
      BY <2>7 DEF SignalRelease, BroadcastAcquire, BroadcastRelease
    <3>2. t \in Thread /\ pc[t] \in {"signal", "broadcast", "more"}
      BY <3>1, Acts
    <3>3. kind = "cond"
      BY <3>2 DEF IpcInv, CallsOK
    <3> QED BY <2>7, <3>3 DEF SignalRelease, BroadcastAcquire, BroadcastRelease, OnlySem
  <2>8. CASE \E s \in Mask :
               \/ \E opt \in EventOpts, d \in Waits : WaitEvent(t, s, opt, d)
               \/ SetEvent(t, s) \/ ClearEvent(t, s)
    BY <2>8 DEF WaitEvent, SetEvent, ClearEvent, OnlyEvent
  <2>9. CASE Alloc(t) \/ \E b \in PoolBlock : Free(t, b)
    BY <2>9 DEF Alloc, Free, OnlyPool
  <2> QED BY <2>1, <2>2, <2>3, <2>4, <2>5, <2>6, <2>7, <2>8, <2>9 DEF Step
<1> QED BY <1>1, <1>2, <1>3, <1>4 DEF Next

\* No step loses a permit or makes one up.
LEMMA PermitInvNext == IpcInv /\ PermitInv /\ [Next]_vars => PermitInv'
<1> SUFFICES ASSUME IpcInv, PermitInv, [Next]_vars, kind' = "sem", sem'.life # "none"
             PROVE  /\ sem'.max = MaxPermits /\ IsFiniteSet(Given(granted'))
                    /\ sem'.value + Cardinality(Given(granted')) = MaxPermits
  BY DEF PermitInv
<1>1. kind = "sem" /\ MaxPermits \in Nat
  BY OtherSteps, IpcAssumption
<1>2. Steady(k) /\ SemOK(k, sem) /\ sem \in SemState /\ sem.value \in Nat /\ granted \in [Thread -> Nat]
  BY DEF IpcInv, SemOK, SemState
<1>3. ASSUME sem.life # "none"
      PROVE  /\ sem.max = MaxPermits /\ IsFiniteSet(Given(granted))
             /\ sem.value + Cardinality(Given(granted)) = MaxPermits
             /\ Cardinality(Given(granted)) \in Nat
  <2>1. /\ sem.max = MaxPermits /\ IsFiniteSet(Given(granted))
        /\ sem.value + Cardinality(Given(granted)) = MaxPermits
    BY <1>1, <1>3 DEF PermitInv
  <2> QED BY <2>1, FS_CardinalityType
<1>4. CASE UNCHANGED <<sem, granted>>
  BY <1>3, <1>4
<1>5. CASE \E t \in User : PutToUse(t)
  <2>1. /\ sem.life = "none"
        /\ sem' \in {SemaphoreInit(sem, MaxPermits, MaxPermits),
                     SemaphoreCreate(MaxPermits, MaxPermits)}
        /\ granted' = [u \in Thread |-> 0]
    BY <1>1, <1>5 DEF PutToUse, Shares
  <2>2. sem'.value = MaxPermits /\ sem'.max = MaxPermits
    BY <2>1 DEF SemaphoreInit, SemaphoreCreate, NewSemaphore
  <2>3. Given(granted') = {}
    <3>1. \A u \in Thread : 1..granted'[u] = {}
      BY <2>1
    <3> QED BY <3>1 DEF Given
  <2>4. IsFiniteSet(Given(granted')) /\ Cardinality(Given(granted')) = 0
    BY <2>3, FS_EmptySet
  <2> QED BY <1>1, <2>2, <2>4
<1>6. CASE \E t \in User : Retire(t)
  <2>1. PICK r : /\ r \in {SemaphoreDeInit(k, sem), SemaphoreDestroy(k, sem)}
                 /\ sem.life = "created" \/ r = SemaphoreDeInit(k, sem)
                 /\ sem' = r.s
    BY <1>1, <1>6 DEF Retire, Shares
  <2>2. r.s.life = "none"
    BY <1>2, <2>1, SemRetireKeeps
  <2> QED BY <2>1, <2>2
<1>7. CASE \E t \in User : \E d \in Waits : Acquire(t, d)
  <2>1. PICK t \in User, d \in Waits : Acquire(t, d)
    BY <1>7
  <2>2. PICK r : /\ r = SemaphoreAcquire(k, sem, t, d) /\ sem' = r.s
                 /\ granted' = [granted EXCEPT ![t] = IF r.err = "EOK" THEN granted[t] + 1
                                                      ELSE granted[t]]
    BY <2>1 DEF Acquire
  <2>3. t \in Thread /\ t = k.curr /\ sem.life # "none" /\ d \in Nat
    <3>1. At(t, "run") /\ sem.life # "none"
      BY <2>1 DEF Acquire
    <3>2. t \in Thread /\ t = k.curr
      BY <1>1, <3>1, Acts
    <3>3. d \in Nat
      BY IpcAssumption, KernelAssumption
    <3> QED BY <3>1, <3>2, <3>3
  <2>4. /\ r.s.max = sem.max
        /\ IF r.err = "EOK" THEN sem.value > 0 /\ r.s.value = sem.value - 1 ELSE r.s = sem
    BY <1>2, <2>2, <2>3, AcquireKeeps
  <2>5. CASE r.err = "EOK"
    <3>1. granted' = [granted EXCEPT ![t] = granted[t] + 1]
      BY <2>2, <2>5
    <3>2. /\ IsFiniteSet(Given(granted'))
          /\ Cardinality(Given(granted')) = Cardinality(Given(granted)) + 1
      BY <1>2, <1>3, <2>3, <3>1, GivenMore
    <3>3. sem'.value = sem.value - 1 /\ sem'.max = sem.max
      BY <2>2, <2>4, <2>5
    <3> QED BY <1>2, <1>3, <2>3, <3>2, <3>3
  <2>6. CASE r.err # "EOK"
    <3>1. granted' = granted /\ sem' = sem
      BY <1>2, <2>2, <2>4, <2>6
    <3> QED BY <1>3, <2>3, <3>1
  <2> QED BY <2>5, <2>6
<1>8. CASE \E t \in User : Release(t)
  <2>1. PICK t \in User : Release(t)
    BY <1>8
  <2>2. PICK r, back, w :
          /\ r = SemaphoreRelease(k, sem) /\ back = [granted EXCEPT ![t] = granted[t] - 1]
          /\ w = WaitQueuePeek(k, SemQ) /\ sem' = r.s
          /\ granted' = IF w = NoThread THEN back ELSE [back EXCEPT ![w] = back[w] + 1]
    BY <2>1 DEF Release
  <2>3. t \in Thread /\ sem.life # "none" /\ granted[t] > 0
    BY <2>1, Acts DEF Release
  <2>4. /\ sem.max = MaxPermits /\ IsFiniteSet(Given(granted))
        /\ sem.value + Cardinality(Given(granted)) = MaxPermits
    BY <1>3, <2>3
  <2>5. /\ IsFiniteSet(Given(back)) /\ Cardinality(Given(back)) \in Nat
        /\ Cardinality(Given(granted)) = Cardinality(Given(back)) + 1
    BY <1>2, <2>2, <2>3, <2>4, GivenLess
  <2>6. ~(sem.value >= sem.max)
    BY <1>1, <1>2, <2>4, <2>5
  <2>7. /\ r.s.max = sem.max
        /\ w = NoThread => r.s.value = sem.value + 1
        /\ w # NoThread => w \in Thread /\ r.s = sem
    BY <1>2, <2>2, <2>6, ReleaseKeeps DEF User
  <2>8. CASE w = NoThread
    <3>1. granted' = back
      BY <2>2, <2>8
    <3> QED BY <1>1, <1>2, <2>2, <2>4, <2>5, <2>7, <2>8, <3>1
  <2>9. CASE w # NoThread
    <3>1. granted' = [back EXCEPT ![w] = back[w] + 1]
      BY <2>2, <2>9
    <3>2. back \in [Thread -> Nat]
      <4>1. granted[t] - 1 \in Nat
        BY <1>2, <2>3
      <4> QED BY <1>2, <2>2, <4>1
    <3>3. /\ IsFiniteSet(Given(granted'))
          /\ Cardinality(Given(granted')) = Cardinality(Given(back)) + 1
      BY <2>5, <2>7, <2>9, <3>1, <3>2, GivenMore
    <3> QED BY <2>2, <2>4, <2>5, <2>7, <2>9, <3>3
  <2> QED BY <2>8, <2>9
<1> QED BY <1>1, <1>4, <1>5, <1>6, <1>7, <1>8, OtherSteps

\* No permit of a semaphore is lost or doubled, for any number of threads and
\* permits, and nobody waits for one that is there (MDS_SemaphoreRelease gives
\* it to the first waiter or back to the value).
THEOREM PermitsAlwaysConserved == Spec => []PermitsConserved
<1>1. Init => PermitInv
  BY DEF Init, NewSemaphore, PermitInv
<1>2. Spec => []PermitInv
  BY <1>1, PermitInvNext, IpcAlwaysInOrder, PTL DEF Spec
<1>3. IpcInv /\ PermitInv => PermitsConserved
  BY DEF IpcInv, SemOK, PermitInv, PermitsConserved
<1> QED BY <1>2, <1>3, IpcAlwaysInOrder, PTL

-----------------------------------------------------------------------------
(* Blocks                                                                  *)

\* In a new pool each block leads to the one before it.
LEMMA NewPoolLeads ==
  ASSUME NEW l \in Life
  PROVE  BlocksLead(NewPool(l))
<1>1. PICK p : p = NewPool(l)
  OBVIOUS
<1>2. /\ p.lfree = BlkNums
      /\ \A b \in PoolBlock : p.held[b] = 0 /\ p.header[b] = IF b = 1 THEN 1 ELSE b - 1
  BY <1>1, NewPoolOK
<1>3. PoolBlock = 1..BlkNums /\ BlkNums \in Nat \ {0, 1} /\ MemBuff = 1
  BY MemPoolAssumption DEF PoolBlock, MemBuff
<1>4. ASSUME NEW b \in PoolBlock \ {1}, NEW c \in PoolBlock, p.header[c] = b
      PROVE  c = b + 1
  <2>1. c # 1
    BY <1>2, <1>4
  <2>2. p.header[c] = c - 1
    BY <1>2, <2>1
  <2> QED BY <1>3, <1>4, <2>2
<1>5. ASSUME NEW c \in PoolBlock PROVE p.header[c] # BlkNums
  <2>1. BlkNums \in PoolBlock \ {1}
    BY <1>3
  <2>2. p.header[c] = BlkNums => c = BlkNums + 1
    BY <1>4, <2>1
  <2> QED BY <1>3, <2>2
<1>6. BlocksLead(p)
  BY <1>2, <1>3, <1>4, <1>5 DEF BlocksLead
<1> QED BY <1>1, <1>6

\* MDS_MemPoolAlloc takes the first free block out of the chain.
LEMMA AllocLeads ==
  ASSUME NEW s, NEW p \in PoolState, BlocksLead(p), NEW n, n = MemPoolAlloc(s, p).p
  PROVE  BlocksLead(n)
<1>0. Pool \notin PoolBlock /\ MemPoolAssumption
  BY MemPoolAssumption DEF Pool, PoolBlock
<1>1. CASE p.lfree = Pool
  BY <1>1 DEF MemPoolAlloc
<1>2. CASE p.lfree # Pool
  <2>1. PICK b : b = p.lfree
    OBVIOUS
  <2>2. b \in PoolBlock /\ \A c \in PoolBlock : p.held[c] \in Nat /\ p.header[c] \in PoolBlock \cup {Pool}
    BY <1>2, <2>1 DEF PoolState
  <2>3. /\ n.lfree = p.header[b]
        /\ \A c \in PoolBlock : /\ n.header[c] = IF c = b THEN Pool ELSE p.header[c]
                                /\ n.held[c] = IF c = b THEN p.held[b] + 1 ELSE p.held[c]
    BY <1>2, <2>1, <2>2 DEF MemPoolAlloc, PoolState
  <2>4. ASSUME NEW x \in PoolBlock \ {MemBuff}
        PROVE  /\ n.held[x] # 0 =>
                    /\ n.held[x] = 1 /\ n.header[x] = Pool
                    /\ n.lfree # x /\ \A c \in PoolBlock : n.header[c] # x
               /\ n.lfree = x => \A c \in PoolBlock : n.header[c] # x
               /\ \A c, e \in PoolBlock : n.header[c] = x /\ n.header[e] = x => c = e
    <3>1. /\ p.held[x] # 0 =>
               /\ p.held[x] = 1 /\ p.header[x] = Pool
               /\ b # x /\ \A c \in PoolBlock : p.header[c] # x
          /\ b = x => \A c \in PoolBlock : p.header[c] # x
          /\ \A c, e \in PoolBlock : p.header[c] = x /\ p.header[e] = x => c = e
      BY <2>1 DEF BlocksLead
    <3>2. CASE x = b
      BY <1>0, <2>2, <2>3, <3>1, <3>2
    <3>3. CASE x # b
      BY <1>0, <2>2, <2>3, <3>1, <3>3
    <3> QED BY <3>2, <3>3
  <2> QED BY <2>4 DEF BlocksLead
<1> QED BY <1>1, <1>2

\* MDS_MemPoolFree puts a block in use at the head of the chain.
LEMMA FreeLeads ==
  ASSUME NEW s, NEW p \in PoolState, BlocksLead(p), NEW b \in PoolBlock, p.held[b] > 0,
         NEW n, n = MemPoolFree(s, p, b).p
  PROVE  BlocksLead(n)
<1>0. Pool \notin PoolBlock
  BY MemPoolAssumption DEF Pool, PoolBlock
<1>1. CASE p.header[b] # Pool
  BY <1>1 DEF MemPoolFree
<1>2. CASE p.header[b] = Pool
  <2>1. PICK f : f = p.lfree
    OBVIOUS
  <2>2. \A c \in PoolBlock : p.held[c] \in Nat
    BY DEF PoolState
  <2>3. /\ n.lfree = b
        /\ \A c \in PoolBlock : /\ n.header[c] = IF c = b THEN f ELSE p.header[c]
                                /\ n.held[c] = IF c = b THEN p.held[b] - 1 ELSE p.held[c]
    BY <1>2, <2>1 DEF MemPoolFree, PoolState
  <2>4. ASSUME NEW x \in PoolBlock \ {MemBuff}
        PROVE  /\ n.held[x] # 0 =>
                    /\ n.held[x] = 1 /\ n.header[x] = Pool
                    /\ n.lfree # x /\ \A c \in PoolBlock : n.header[c] # x
               /\ n.lfree = x => \A c \in PoolBlock : n.header[c] # x
               /\ \A c, e \in PoolBlock : n.header[c] = x /\ n.header[e] = x => c = e
    <3>1. /\ p.held[x] # 0 =>
               /\ p.held[x] = 1 /\ p.header[x] = Pool
               /\ f # x /\ \A c \in PoolBlock : p.header[c] # x
          /\ f = x => \A c \in PoolBlock : p.header[c] # x
          /\ \A c, e \in PoolBlock : p.header[c] = x /\ p.header[e] = x => c = e
      BY <2>1 DEF BlocksLead
    <3>2. CASE x = b
      BY <1>0, <2>2, <2>3, <3>1, <3>2
    <3>3. CASE x # b
      BY <1>0, <2>2, <2>3, <3>1, <3>3
    <3> QED BY <3>2, <3>3
  <2> QED BY <2>4 DEF BlocksLead
<1> QED BY <1>1, <1>2

\* Every step keeps the chain of free blocks.
LEMMA PoolInvNext == IpcInv /\ PoolInv /\ [Next]_vars => PoolInv'
<1> SUFFICES ASSUME IpcInv, BlocksLead(pool), [Next]_vars PROVE BlocksLead(pool')
  BY DEF PoolInv
<1>0. pool \in PoolState /\ Steady(k) /\ {"none", "static", "created"} = Life
  BY DEF IpcInv, Life
<1>1. CASE UNCHANGED pool
  BY <1>1
<1>2. CASE \E t \in User : PutToUse(t)
  <2>1. pool' = pool \/ pool' \in {MemPoolInit(pool)} \cup {MemPoolCreate(pool, e) : e \in BOOLEAN}
    BY <1>2 DEF PutToUse
  <2>2. pool' = pool \/ \E l \in Life : pool' = NewPool(l)
    BY <1>0, <2>1 DEF MemPoolInit, MemPoolCreate
  <2> QED BY <2>2, NewPoolLeads
<1>3. CASE \E t \in User : Retire(t)
  <2>1. \/ pool' = pool
        \/ pool' = (IF pool.life = "created" THEN MemPoolDestroy(k, pool) ELSE MemPoolDeInit(k, pool)).p
    BY <1>3 DEF Retire, OnlySem, OnlyMutex, OnlyEvent
  <2>2. pool'.lfree = pool.lfree /\ pool'.header = pool.header /\ pool'.held = pool.held
    BY <1>0, <2>1, PoolRetireKeeps
  <2> QED BY <2>2 DEF BlocksLead
<1>4. CASE \E t \in User : Alloc(t)
  BY <1>0, <1>4, AllocLeads DEF Alloc
<1>5. CASE \E t \in User : \E b \in PoolBlock : Free(t, b)
  BY <1>0, <1>5, FreeLeads DEF Free
<1> QED BY <1>1, <1>2, <1>3, <1>4, <1>5, OtherSteps

\* A block of a pool, but for the first, has one holder at most and is not on
\* the free list while it has one, for any number of blocks and threads
\* (MDS_MemPoolAlloc and MDS_MemPoolFree relink the headers of the blocks).
THEOREM BlocksAlwaysHaveOneHolder == Spec => []BlocksHaveOneHolder
<1>1. Init => PoolInv
  <2>1. Init => \E l \in Life : pool = NewPool(l)
    BY DEF Init, Life
  <2>2. \A l \in Life : BlocksLead(NewPool(l))
    BY NewPoolLeads
  <2> QED BY <2>1, <2>2 DEF PoolInv
<1>2. Spec => []PoolInv
  BY <1>1, PoolInvNext, IpcAlwaysInOrder, PTL DEF Spec
<1>3. ASSUME IpcInv, PoolInv PROVE BlocksHaveOneHolder
  <2>1. ASSUME NEW b \in PoolBlock \ {MemBuff}, pool.held[b] # 0
        PROVE  pool.held[b] = 1 /\ b \notin FreeChain(pool)
    <3>1. /\ pool.held[b] = 1 /\ pool.lfree # b
          /\ \A c \in PoolBlock : pool.header[c] # b
      BY <1>3, <2>1 DEF PoolInv, BlocksLead
    <3>2. PICK S : S = PoolBlock \ {b}
      OBVIOUS
    <3>3. ({pool.lfree} \cup {pool.header[c] : c \in S}) \ {Pool} \subseteq S
      BY <1>3, <3>1, <3>2 DEF IpcInv, PoolState
    <3>4. S \in SUBSET PoolBlock /\ b \notin S
      BY <3>2
    <3> QED BY <3>1, <3>3, <3>4 DEF FreeChain
  <2>2. \A b \in PoolBlock : pool.held[b] \in Nat
    BY <1>3 DEF IpcInv, PoolState
  <2> QED BY <2>1, <2>2 DEF BlocksHaveOneHolder
<1> QED BY <1>2, <1>3, IpcAlwaysInOrder, PTL
=============================================================================
