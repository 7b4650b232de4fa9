------------------------ MODULE ThreadSchedTheorems ------------------------
(***************************************************************************)
(* The scheduler of the running system, for any number of threads,         *)
(* priorities and ticks.  The parts of the invariant hold each other up:   *)
(* the switch is to a thread because the ready table and its bits agree;   *)
(* a thread is listed by its state because no timer and no list is left    *)
(* behind it; the timers are never linked twice because a thread that      *)
(* executes has none.  MDS_ThreadSetPriority can break the ready table, so *)
(* the theorems assume its callers respect SetPriorityAnyTime = FALSE.     *)
(***************************************************************************)
EXTENDS ThreadSched, MdsKernelTheorems

\* The thread that executes has no timer armed, except on the way from
\* MDS_ThreadDelay to its scheduler check, where the scheduler is not locked.
Awake(s, at) ==
  IF s.curr = NoThread
  THEN s.nest = 0
  ELSE /\ Armed(s, s.curr) => at[s.curr] = "slept"
       /\ s.nest > 0 => at[s.curr] \notin {"slept", "exit"}

\* How far the end of thread t, which is at at, has come when the idle thread
\* holds r; the last two conjuncts are DeadIsDetached.
Ended(s, at, r, t) ==
  /\ r = t => s.st[t] = "TERMINATED"
  /\ at \in {"exit", "panic"} => s.st[t] \in {"TERMINATED", "FREE"}
  /\ at = "panic" => s.curr # t
  /\ s.st[t] = "TERMINATED" =>
       ~OnReadyLevel(s, t) /\ ~Armed(s, t) /\ (On(s, Defunct, t) <=> r # t)
  /\ s.st[t] = "FREE" \/ r = t =>
       t # s.curr /\ ~Armed(s, t) /\ \A l \in Lists : ~On(s, l, t)

InOrder(s, at, r) ==
  /\ Orderly(s) /\ s.fault \notin {"broken_switch", "relinked_timer"}
  /\ Awake(s, at)
  /\ \A t \in Thread : Ended(s, at[t], r, t)

\* The inductive invariant: none of its parts is inductive without the others.
SchedInv ==
  /\ pc \in [Thread -> Pc] /\ isr \in BOOLEAN /\ reaping \in Thread \cup {NoThread}
  /\ isr => k.curr # NoThread
  /\ InOrder(k, pc, reaping)

\* What a step does with the processor: the two action properties.
Dispatches(s, n) ==
  /\ n.curr # s.curr => \A p \in Prio : n.list[p] # <<>> => n.prio[n.curr] <= p
  /\ s.nest > 0 => n.curr = s.curr

-----------------------------------------------------------------------------
(* What keeps a thread's end                                               *)

\* Nothing happened to t, except that the processor may have left it.
LEMMA EndedFrame ==
  ASSUME NEW s, NEW n, NEW t \in Thread, NEW at, NEW to, NEW r, Ended(s, at, r, t),
         n.st[t] = s.st[t], Armed(n, t) <=> Armed(s, t),
         \A l \in Lists : On(n, l, t) <=> On(s, l, t),
         n.curr = t => s.curr = t,
         to = at \/ to \notin {"exit", "panic"}
  PROVE  Ended(n, to, r, t)
<1>1. Prio \subseteq Lists /\ Defunct \in Lists
  BY DEF Lists
<1>2. OnReadyLevel(n, t) <=> OnReadyLevel(s, t)
  BY <1>1 DEF OnReadyLevel
<1> QED BY <1>1, <1>2 DEF Ended

\* A thread that was alive and is alive has no end to keep.
LEMMA EndedAlive ==
  ASSUME NEW s, NEW n, NEW t \in Thread, NEW at, NEW to, NEW r, Ended(s, at, r, t),
         s.st[t] \notin {"TERMINATED", "FREE"}, n.st[t] \notin {"TERMINATED", "FREE"},
         to = at \/ to \notin {"exit", "panic"}
  PROVE  Ended(n, to, r, t)
BY DEF Ended

\* The scheduler check gives the processor to a thread that is alive; one
\* that was in THREAD_Entry is left at its panic.
LEMMA EndedRescheduled ==
  ASSUME NEW s, NEW n, Rescheduled(s, n), Orderly(n), NEW t \in Thread,
         NEW at, NEW to, NEW r, Ended(s, at, r, t),
         s.st[n.curr] \notin {"TERMINATED", "FREE"},
         to = at \/ (at = "exit" /\ to = "panic") \/ to \notin {"exit", "panic"}
  PROVE  Ended(n, to, r, t)
<1>1. CASE t = n.curr
  <2>1. n.st[t] = "RUNNING" /\ s.st[t] \notin {"TERMINATED", "FREE"}
    BY <1>1 DEF Rescheduled
  <2> QED BY <2>1 DEF Ended
<1>2. CASE t # n.curr
  <2>1. /\ n.st[t] = IF s.st[t] = "RUNNING" THEN "READY" ELSE s.st[t]
        /\ \A l \in Lists \ Prio : On(n, l, t) <=> On(s, l, t)
        /\ Armed(n, t) <=> Armed(s, t)
    BY <1>2 DEF Rescheduled, On, Armed
  <2>2. OnReadyLevel(n, t) => n.st[t] \in {"READY", "RUNNING", "SUSPENDED"}
    BY DEF Orderly, Settled, Placed
  <2>3. n.st[t] \in {"TERMINATED", "FREE"} => \A p \in Prio : ~On(n, p, t)
    BY <2>2 DEF OnReadyLevel
  <2>4. n.st[t] \in {"TERMINATED", "FREE"} <=> s.st[t] \in {"TERMINATED", "FREE"}
    BY <2>1
  <2>5. Defunct \in Lists \ Prio
    BY KernelAssumption DEF Lists
  <2> QED BY <1>2, <2>1, <2>2, <2>3, <2>4, <2>5 DEF Ended
<1> QED BY <1>1, <1>2

\* The order after a scheduler check from s, with the caller moved to to.
LEMMA InOrderRescheduled ==
  ASSUME NEW s, NEW n, Rescheduled(s, n), Orderly(n), s.nest = 0,
         s.fault \notin {"broken_switch", "relinked_timer"},
         NEW at \in [Thread -> Pc], NEW to \in [Thread -> Pc], NEW r,
         \A t \in Thread : Ended(s, at[t], r, t),
         s.st[n.curr] \notin {"TERMINATED", "FREE"},
         \A t \in Thread : \/ to[t] = at[t]
                           \/ at[t] = "exit" /\ to[t] = "panic"
                           \/ to[t] \notin {"exit", "panic"}
  PROVE  InOrder(n, to, r)
<1>1. n.curr \in Thread /\ n.st[n.curr] = "RUNNING" /\ n.nest = 0 /\ n.fault = s.fault
  BY DEF Rescheduled
<1>2. ~Armed(n, n.curr)
  BY <1>1 DEF Orderly, Settled, Placed
<1>3. Awake(n, to)
  BY <1>1, <1>2, KernelAssumption DEF Awake
<1>4. ASSUME NEW t \in Thread PROVE Ended(n, to[t], r, t)
  BY EndedRescheduled
<1> QED BY <1>1, <1>3, <1>4 DEF InOrder

\* The order after a call of the current thread that moves at most thread u.
LEMMA InOrderCall ==
  ASSUME NEW s, NEW n, NEW at \in [Thread -> Pc], NEW to \in Pc, NEW r,
         InOrder(s, at, r), s.curr \in Thread, NEW u \in Thread,
         Orderly(n), Others(s, n, u), SameProcessor(s, n),
         at[s.curr] # "slept", to \notin {"slept", "exit", "panic"},
         u = s.curr => ~Armed(n, u),
         Ended(n, IF u = s.curr THEN to ELSE at[u], r, u)
  PROVE  InOrder(n, [at EXCEPT ![s.curr] = to], r)
<1> DEFINE ob == [at EXCEPT ![s.curr] = to]
<1>1. /\ n.curr = s.curr /\ n.nest = s.nest /\ n.fault = s.fault
      /\ n.fault \notin {"broken_switch", "relinked_timer"}
  BY DEF SameProcessor, InOrder
<1>2. \A t \in Thread : ob[t] = IF t = s.curr THEN to ELSE at[t]
  OBVIOUS
<1> HIDE DEF ob
<1>3. ~Armed(s, s.curr)
  BY KernelAssumption DEF InOrder, Awake
<1>4. ~Armed(n, n.curr)
  BY <1>1, <1>3 DEF Others
<1>5. Awake(n, ob)
  BY <1>1, <1>2, <1>4, KernelAssumption DEF Awake
<1>6. ASSUME NEW t \in Thread, t # u PROVE Ended(n, ob[t], r, t)
  <2>1. Ended(s, at[t], r, t)
    BY DEF InOrder
  <2>2. n.st[t] = s.st[t] /\ (Armed(n, t) <=> Armed(s, t))
        /\ \A l \in Lists : On(n, l, t) <=> On(s, l, t)
    BY <1>6 DEF Others
  <2>3. ob[t] = at[t] \/ ob[t] \notin {"exit", "panic"}
    BY <1>2
  <2> QED BY <1>1, <2>1, <2>2, <2>3, EndedFrame
<1>7. Ended(n, ob[u], r, u)
  BY <1>2
<1>8. InOrder(n, ob, r)
  BY <1>1, <1>5, <1>6, <1>7 DEF InOrder
<1> QED BY <1>8 DEF ob

-----------------------------------------------------------------------------
(* The actions                                                             *)

\* Where SchedInv holds, a thread that calls the kernel is the current one.
LEMMA Caller ==
  ASSUME SchedInv, NEW t \in User, Executes(t)
  PROVE  /\ t = k.curr /\ t \in Thread \ {Idle} /\ ~isr
         /\ Orderly(k) /\ Sound(k) /\ k \in KernelState
         /\ k.st[t] \notin {"INACTIVED", "FREE"}
         /\ k.st[t] = "SUSPENDED" => ~OnReadyLevel(k, t)
         /\ Armed(k, t) => pc[t] = "slept"
         /\ k.nest > 0 => pc[t] \notin {"slept", "exit"}
BY KernelAssumption
   DEF SchedInv, InOrder, Orderly, Sound, CurrentKept, Awake, Executes, User

\* A call of thread t that moves at most thread u and ends at to.
LEMMA CallKeepsInv ==
  ASSUME SchedInv, NEW t \in User, Executes(t), pc[t] # "slept",
         NEW to \in {"run", "check"}, NEW u \in Thread,
         Orderly(k'), Others(k, k', u), SameProcessor(k, k'),
         u = t => ~Armed(k', u),
         Ended(k', IF u = t THEN to ELSE pc[u], reaping, u),
         pc' = [pc EXCEPT ![t] = to], isr' = isr, reaping' = reaping
  PROVE  SchedInv' /\ Dispatches(k, k')
<1>1. t = k.curr /\ t \in Thread /\ ~isr
  BY Caller
<1>2. /\ pc \in [Thread -> Pc] /\ reaping \in Thread \cup {NoThread}
      /\ InOrder(k, pc, reaping)
  BY DEF SchedInv
<1>3. to \in Pc /\ to \notin {"slept", "exit", "panic"}
  BY DEF Pc
<1>4. InOrder(k', [pc EXCEPT ![k.curr] = to], reaping)
  BY <1>1, <1>2, <1>3, InOrderCall
<1>5. InOrder(k', pc', reaping')
  BY <1>1, <1>4
<1>6. pc' \in [Thread -> Pc]
  BY <1>2, <1>3
<1> QED BY <1>1, <1>2, <1>5, <1>6 DEF SchedInv, Dispatches, SameProcessor

\* A call that moves no thread at all.
LEMMA IdleCallKeepsInv ==
  ASSUME SchedInv, NEW t \in User, Executes(t), pc[t] # "slept",
         NEW to \in {"run", "check"},
         Sound(k'), SameThreads(k, k'), k'.fault = k.fault,
         pc' = [pc EXCEPT ![t] = to], isr' = isr, reaping' = reaping
  PROVE  SchedInv' /\ Dispatches(k, k')
<1>1. t = k.curr /\ t \in Thread /\ ~isr /\ Orderly(k) /\ ~Armed(k, t)
  BY Caller
<1>2. /\ pc \in [Thread -> Pc] /\ reaping \in Thread \cup {NoThread}
      /\ InOrder(k, pc, reaping)
  BY DEF SchedInv
<1>3. to \in Pc /\ to \notin {"slept", "exit", "panic"}
  BY DEF Pc
<1>4. Orderly(k')
  BY <1>1, SameThreadsOrderly DEF Orderly
<1>5. pc' \in [Thread -> Pc] /\ \A u \in Thread : pc'[u] = IF u = t THEN to ELSE pc[u]
  BY <1>1, <1>2, <1>3
<1>6. k'.curr = t /\ (Armed(k', t) <=> Armed(k, t))
  BY <1>1 DEF SameThreads, Armed
<1>7. Awake(k', pc')
  BY <1>1, <1>3, <1>5, <1>6, KernelAssumption DEF Awake
<1>8. ASSUME NEW u \in Thread PROVE Ended(k', pc'[u], reaping', u)
  <2>1. Ended(k, pc[u], reaping, u)
    BY <1>2 DEF InOrder
  <2>2. /\ k'.st[u] = k.st[u] /\ (Armed(k', u) <=> Armed(k, u)) /\ k'.curr = k.curr
        /\ \A l \in Lists : On(k', l, u) <=> On(k, l, u)
    BY DEF SameThreads, Armed, On
  <2>3. pc'[u] = pc[u] \/ pc'[u] \notin {"exit", "panic"}
    BY <1>3, <1>5
  <2> QED BY <2>1, <2>2, <2>3, EndedFrame
<1> QED BY <1>1, <1>2, <1>4, <1>5, <1>6, <1>7, <1>8 DEF SchedInv, InOrder, Dispatches

\* One lemma for each action.  A thread is started before the scheduler is.
LEMMA BootStartupKeepsInv ==
  ASSUME SchedInv, NEW t \in User, BootStartup(t)
  PROVE  SchedInv' /\ Dispatches(k, k')
<1>1. /\ Orderly(k) /\ Sound(k) /\ Distinct(k.tq) /\ t \in Thread
      /\ k.curr = NoThread /\ ~isr /\ k.nest = 0
      /\ k.st[t] = "INACTIVED" /\ k' = MakeReady(k, t)
      /\ pc' = pc /\ isr' = isr /\ reaping' = reaping
  BY DEF SchedInv, InOrder, Awake, Orderly, Settled, BootStartup, StartBeforeBoot,
         ThreadStartup, User
<1>2. Orderly(k')
  BY <1>1, MakeReadyOrderly
<1>3. Others(k, k', t) /\ SameProcessor(k, k') /\ k'.st[t] = "READY" /\ ~Armed(k', t)
  BY <1>1, MakeReadyMoves
<1>4. ASSUME NEW u \in Thread PROVE Ended(k', pc[u], reaping, u)
  <2>1. Ended(k, pc[u], reaping, u)
    BY DEF SchedInv, InOrder
  <2>2. CASE u = t
    BY <1>1, <1>3, <2>1, <2>2, EndedAlive
  <2>3. CASE u # t
    <3>1. /\ k'.st[u] = k.st[u] /\ (Armed(k', u) <=> Armed(k, u)) /\ k'.curr = k.curr
          /\ \A l \in Lists : On(k', l, u) <=> On(k, l, u)
      BY <1>3, <2>3 DEF Others, SameProcessor
    <3> QED BY <2>1, <3>1, EndedFrame
  <2> QED BY <2>2, <2>3
<1>5. Awake(k', pc)
  BY <1>1, <1>3 DEF Awake, SameProcessor
<1> QED BY <1>1, <1>2, <1>3, <1>4, <1>5 DEF SchedInv, InOrder, SameProcessor, Dispatches

\* A running thread makes u ready.
LEMMA MakeReadyKeepsInv ==
  ASSUME SchedInv, NEW t \in User, Executes(t), pc[t] = "run", NEW to \in {"run", "check"},
         NEW u \in User, k.st[u] \in {"INACTIVED", "SUSPENDED"}, k' = MakeReady(k, u),
         pc' = [pc EXCEPT ![t] = to], isr' = isr, reaping' = reaping
  PROVE  SchedInv' /\ Dispatches(k, k')
<1>1. Orderly(k) /\ Sound(k) /\ Distinct(k.tq) /\ u \in Thread
  BY Caller DEF Orderly, Settled, User
<1>2. Orderly(k')
  BY <1>1, MakeReadyOrderly
<1>3. Others(k, k', u) /\ SameProcessor(k, k') /\ k'.st[u] = "READY" /\ ~Armed(k', u)
  BY <1>1, MakeReadyMoves
<1>4. Ended(k, pc[u], reaping, u)
  BY <1>1 DEF SchedInv, InOrder
<1>5. Ended(k', IF u = t THEN to ELSE pc[u], reaping, u)
  BY <1>1, <1>3, <1>4, EndedAlive
<1> QED BY <1>1, <1>2, <1>3, <1>5, CallKeepsInv

\* MDS_ThreadStartup and MDS_ThreadResume, including those that are refused.
LEMMA StartupKeepsInv ==
  ASSUME SchedInv, NEW t \in User, NEW u \in User, Startup(t, u) \/ Resume(t, u)
  PROVE  SchedInv' /\ Dispatches(k, k')
<1>1. Executes(t) /\ pc[t] = "run" /\ isr' = isr /\ reaping' = reaping
  BY DEF Startup, Resume, Calls
<1>2. pc \in [Thread -> Pc] /\ t \in Thread /\ Sound(k)
  BY <1>1, Caller DEF SchedInv
<1>3. PICK to \in {"run", "check"} : pc' = [pc EXCEPT ![t] = to]
  BY <1>1, <1>2 DEF Startup, Resume, Goto
<1>4. CASE k.st[u] \in {"INACTIVED", "SUSPENDED"} /\ k' = MakeReady(k, u)
  BY <1>1, <1>3, <1>4, MakeReadyKeepsInv
<1>5. CASE k' = k
  BY <1>1, <1>2, <1>3, <1>5, IdleCallKeepsInv DEF SameThreads
<1> QED BY <1>4, <1>5 DEF Startup, Resume, ThreadStartup, ThreadResume

\* MDS_ThreadSuspend of another thread, or of the caller, which stays the
\* current thread until its scheduler check.
LEMMA SuspendKeepsInv ==
  ASSUME SchedInv, NEW t \in User, NEW u \in User, Suspend(t, u)
  PROVE  SchedInv' /\ Dispatches(k, k')
<1>1. /\ Executes(t) /\ pc[t] = "run" /\ ThreadSuspendErr(k, u) = "EOK"
      /\ k' = ThreadSuspend(k, u) /\ pc' = pc /\ isr' = isr /\ reaping' = reaping
  BY DEF Suspend, Calls
<1>2. /\ Orderly(k) /\ Sound(k) /\ Distinct(k.tq) /\ u \in Thread \ {Idle}
      /\ pc \in [Thread -> Pc] /\ t \in Thread
  BY <1>1, Caller DEF Orderly, Settled, User, SchedInv
<1>3. Orderly(k')
  BY <1>1, <1>2, ThreadSuspendOrderly
<1>4. Others(k, k', u) /\ SameProcessor(k, k') /\ k'.st[u] = "SUSPENDED" /\ ~Armed(k', u)
  BY <1>1, <1>2, ThreadSuspendMoves
<1>5. Ended(k, pc[u], reaping, u) /\ k.st[u] \in {"READY", "RUNNING"}
  BY <1>1, <1>2 DEF SchedInv, InOrder, ThreadSuspendErr
<1>6. Ended(k', IF u = t THEN "run" ELSE pc[u], reaping, u)
  BY <1>2, <1>4, <1>5, EndedAlive
<1>7. pc' = [pc EXCEPT ![t] = "run"]
  BY <1>1, <1>2
<1> QED BY <1>1, <1>2, <1>3, <1>4, <1>6, <1>7, CallKeepsInv

\* MDS_ThreadSetPriority where the kernel moves the thread.
LEMMA SetPriorityKeepsInv ==
  ASSUME SetPriorityAnyTime = FALSE, SchedInv, NEW t \in User, NEW u \in User,
         NEW p \in Prio, SetPriority(t, u, p)
  PROVE  SchedInv' /\ Dispatches(k, k')
<1>1. /\ Executes(t) /\ pc[t] = "run" /\ k.st[u] # "FREE"
      /\ OnReadyLevel(k, u) => k.st[u] = "READY"
      /\ k' = ThreadSetPriority(k, u, p) /\ pc' = pc /\ isr' = isr /\ reaping' = reaping
  BY DEF SetPriority, Calls
<1>2. /\ Orderly(k) /\ u \in Thread \ {Idle} /\ t = k.curr
      /\ pc \in [Thread -> Pc] /\ t \in Thread /\ ~Armed(k, t)
  BY <1>1, Caller DEF User, SchedInv
<1>3. Orderly(k')
  BY <1>1, <1>2, ThreadSetPriorityOrderly
<1>4. /\ Others(k, k', u) /\ SameProcessor(k, k') /\ k'.st = k.st /\ k'.tq = k.tq
      /\ \A l \in Lists \ Prio : On(k', l, u) <=> On(k, l, u)
      /\ k.st[u] # "READY" => ~OnReadyLevel(k', u)
  BY <1>1, <1>2, ThreadSetPriorityMoves
<1>5. Ended(k, pc[u], reaping, u)
  BY <1>2 DEF SchedInv, InOrder
<1>6. Armed(k', u) <=> Armed(k, u)
  BY <1>4 DEF Armed
<1>7. Ended(k', pc[u], reaping, u)
  <2>1. CASE k.st[u] = "TERMINATED"
    <3>1. Defunct \in Lists \ Prio /\ \A q \in Prio : ~On(k', q, u)
      BY <1>4, <2>1, KernelAssumption DEF Lists, OnReadyLevel
    <3> QED BY <1>4, <1>5, <1>6, <2>1, <3>1 DEF Ended, SameProcessor
  <2>2. CASE k.st[u] # "TERMINATED"
    BY <1>1, <1>2, <1>4, <1>5, <2>2, EndedAlive
  <2> QED BY <2>1, <2>2
<1>8. pc' = [pc EXCEPT ![t] = "run"] /\ pc[u] = IF u = t THEN "run" ELSE pc[u]
  BY <1>1, <1>2
<1> QED BY <1>1, <1>2, <1>3, <1>4, <1>6, <1>7, <1>8, CallKeepsInv

\* A thread that is terminated waits for the idle thread, whoever does it.
LEMMA EndedTerminated ==
  ASSUME NEW s, Orderly(s), NEW u \in Thread \ {Idle}, s.st[u] \notin {"TERMINATED", "FREE"},
         NEW n, n = ThreadTerminate(s, u), NEW at, NEW to, NEW r, Ended(s, at, r, u),
         to \notin {"panic"}
  PROVE  /\ Orderly(n) /\ Others(s, n, u) /\ SameProcessor(s, n) /\ ~Armed(n, u)
         /\ Ended(n, to, r, u)
<1>1. /\ Orderly(n) /\ Others(s, n, u) /\ SameProcessor(s, n) /\ ~Armed(n, u)
      /\ n.st[u] = "TERMINATED" /\ \A l \in Lists : On(n, l, u) <=> l = Defunct
  BY ThreadTerminateOrderly, ThreadTerminateMoves DEF Orderly, Settled
<1>2. Defunct \in Lists /\ Defunct \notin Prio /\ Prio \subseteq Lists
  BY KernelAssumption DEF Lists
<1>3. ~OnReadyLevel(n, u) /\ On(n, Defunct, u)
  BY <1>1, <1>2 DEF OnReadyLevel
<1>4. r # u
  BY DEF Ended
<1> QED BY <1>1, <1>3, <1>4 DEF Ended

\* MDS_ThreadClose of another thread or of the caller.
LEMMA CloseKeepsInv ==
  ASSUME SchedInv, NEW t \in User, NEW u \in User, Close(t, u)
  PROVE  SchedInv' /\ Dispatches(k, k')
<1>1. /\ Executes(t) /\ pc[t] = "run" /\ k.st[u] \notin {"FREE", "TERMINATED"}
      /\ k' = ThreadTerminate(k, u) /\ pc' = pc /\ isr' = isr /\ reaping' = reaping
  BY DEF Close, Calls
<1>2. /\ Orderly(k) /\ u \in Thread \ {Idle} /\ pc \in [Thread -> Pc] /\ t \in Thread
  BY <1>1, Caller DEF User, SchedInv
<1>3. Ended(k, pc[u], reaping, u) /\ pc[u] # "panic"
  BY <1>1, <1>2 DEF SchedInv, InOrder, Ended
<1>4. /\ Orderly(k') /\ Others(k, k', u) /\ SameProcessor(k, k') /\ ~Armed(k', u)
      /\ Ended(k', pc[u], reaping, u)
  BY <1>1, <1>2, <1>3, EndedTerminated
<1>5. pc' = [pc EXCEPT ![t] = "run"] /\ pc[u] = IF u = t THEN "run" ELSE pc[u]
  BY <1>1, <1>2
<1> QED BY <1>1, <1>2, <1>4, <1>5, CallKeepsInv

\* What Delay and Exit have in common: the scheduler is not locked, and the
\* current thread, which alone is moved, goes to its scheduler check.
LEMMA LastCallKeepsInv ==
  ASSUME SchedInv, NEW t \in User, Executes(t), k.nest = 0, NEW to \in {"slept", "exit"},
         Orderly(k'), Others(k, k', t), SameProcessor(k, k'), Ended(k', to, reaping, t),
         to = "exit" => ~Armed(k', t),
         pc' = [pc EXCEPT ![t] = to], isr' = isr, reaping' = reaping
  PROVE  SchedInv' /\ Dispatches(k, k')
<1>1. t = k.curr /\ t \in Thread /\ ~isr
  BY Caller
<1>2. /\ pc \in [Thread -> Pc] /\ reaping \in Thread \cup {NoThread}
      /\ InOrder(k, pc, reaping) /\ to \in Pc
  BY DEF SchedInv, Pc
<1>3. pc' \in [Thread -> Pc] /\ \A u \in Thread : pc'[u] = IF u = t THEN to ELSE pc[u]
  BY <1>1, <1>2
<1>4. Awake(k', pc')
  BY <1>1, <1>3, KernelAssumption DEF Awake, SameProcessor
<1>5. ASSUME NEW u \in Thread PROVE Ended(k', pc'[u], reaping', u)
  <2>1. CASE u = t
    BY <1>1, <1>3, <2>1
  <2>2. CASE u # t
    <3>1. Ended(k, pc[u], reaping, u)
      BY <1>2 DEF InOrder
    <3>2. /\ k'.st[u] = k.st[u] /\ (Armed(k', u) <=> Armed(k, u)) /\ k'.curr = k.curr
          /\ \A l \in Lists : On(k', l, u) <=> On(k, l, u)
      BY <2>2 DEF Others, SameProcessor
    <3> QED BY <1>3, <2>2, <3>1, <3>2, EndedFrame
  <2> QED BY <2>1, <2>2
<1> QED BY <1>1, <1>2, <1>3, <1>4, <1>5 DEF SchedInv, InOrder, Dispatches, SameProcessor

\* MDS_ThreadDelay up to its scheduler check: the timer of a running thread is
\* not linked, so arming it does not link it twice.
LEMMA DelayKeepsInv ==
  ASSUME SchedInv, NEW t \in User, NEW d \in 1..MaxDelay \cup {TimerMax}, Delay(t, d)
  PROVE  SchedInv' /\ Dispatches(k, k')
<1>1. /\ Executes(t) /\ pc[t] = "run" /\ k.st[t] # "TERMINATED" /\ k.nest = 0
      /\ k' = ThreadDelay(k, t, d) /\ pc' = [pc EXCEPT ![t] = "slept"]
      /\ isr' = isr /\ reaping' = reaping
  BY DEF Delay, Calls, Goto
<1>2. /\ Orderly(k) /\ t \in Thread \ {Idle} /\ t = k.curr /\ k \in KernelState
      /\ k.st[t] \notin {"INACTIVED", "FREE"} /\ ~Armed(k, t)
      /\ k.st[t] = "SUSPENDED" => ~OnReadyLevel(k, t)
  BY <1>1, Caller
<1>3. k.st[t] \in {"READY", "RUNNING", "SUSPENDED"}
  BY <1>1, <1>2 DEF KernelState, State
<1>4. d \in Nat
  BY KernelAssumption, SchedAssumption
<1>5. /\ Orderly(k') /\ Others(k, k', t) /\ SameProcessor(k, k')
      /\ k'.st[t] = "SUSPENDED"
  BY <1>1, <1>2, <1>3, <1>4, ThreadDelayOrderly
<1>6. Ended(k, pc[t], reaping, t)
  BY <1>2 DEF SchedInv, InOrder
<1>7. Ended(k', "slept", reaping, t)
  BY <1>2, <1>3, <1>5, <1>6, EndedAlive
<1> QED BY <1>1, <1>5, <1>7, LastCallKeepsInv

\* The thread function returns (THREAD_Entry).
LEMMA ExitKeepsInv ==
  ASSUME SchedInv, NEW t \in User, Exit(t)
  PROVE  SchedInv' /\ Dispatches(k, k')
<1>1. /\ Executes(t) /\ pc[t] = "run" /\ k.nest = 0
      /\ k' = ThreadTerminate(k, t) /\ pc' = [pc EXCEPT ![t] = "exit"]
      /\ isr' = isr /\ reaping' = reaping
  BY DEF Exit, Goto
<1>2. /\ Orderly(k) /\ t \in Thread \ {Idle} /\ t = k.curr /\ ~Armed(k, t)
      /\ k.st[t] # "FREE" /\ Ended(k, pc[t], reaping, t)
  BY <1>1, Caller DEF SchedInv, InOrder
<1>3. /\ Orderly(k') /\ Others(k, k', t) /\ SameProcessor(k, k') /\ ~Armed(k', t)
      /\ Ended(k', "exit", reaping, t)
  <2>1. CASE k.st[t] = "TERMINATED"
    <3>1. k' = k
      BY <1>1, <2>1 DEF ThreadTerminate
    <3>2. Ended(k', "exit", reaping, t)
      BY <1>2, <2>1, <3>1 DEF Ended
    <3> QED BY <1>2, <3>1, <3>2 DEF Others, SameProcessor
  <2>2. CASE k.st[t] # "TERMINATED"
    BY <1>1, <1>2, <2>2, EndedTerminated
  <2> QED BY <2>1, <2>2
<1> QED BY <1>1, <1>3, LastCallKeepsInv

\* The scheduler picks a thread that is alive.
LEMMA PickedAlive ==
  ASSUME NEW s, Settled(s), NEW n, Rescheduled(s, n)
  PROVE  s.st[n.curr] \notin {"TERMINATED", "FREE"}
<1>1. n.curr \in Thread /\ Placed(s, n.curr) /\ Ranked(s, n.curr)
  BY DEF Rescheduled, Settled
<1>2. CASE n.curr = Idle
  BY <1>1, <1>2 DEF Ranked
<1>3. CASE OnReadyLevel(s, n.curr)
  BY <1>1, <1>3 DEF Placed
<1>4. CASE n.curr = s.curr /\ s.st[s.curr] = "RUNNING"
  BY <1>4
<1> QED BY <1>2, <1>3, <1>4 DEF Rescheduled

\* The scheduler check that ends a call: the processor goes to the highest
\* ready thread, which is no list header, or stays while it is locked.
LEMMA CheckKeepsInv ==
  ASSUME SchedInv, NEW t \in User, Check(t)
  PROVE  SchedInv' /\ Dispatches(k, k')
<1>1. /\ Executes(t) /\ pc[t] \in {"check", "slept", "exit"} /\ k' = SchedulerCheck(k)
      /\ isr' = isr /\ reaping' = reaping
  BY DEF Check
<1>2. /\ t = k.curr /\ t \in Thread /\ Orderly(k) /\ Sound(k) /\ Settled(k) /\ ~isr
      /\ k.nest > 0 => pc[t] = "check"
  BY <1>1, Caller DEF Orderly
<1>3. /\ pc \in [Thread -> Pc] /\ InOrder(k, pc, reaping)
      /\ reaping \in Thread \cup {NoThread} /\ k.nest \in Nat
  BY <1>2 DEF SchedInv, Sound, KernelState
<1>4. PICK to \in {"run", "woken", "panic"} :
        /\ pc' = [pc EXCEPT ![t] = to]
        /\ pc[t] = "check" => to = "run"
        /\ to = "panic" => pc[t] = "exit"
  <2>1. CASE pc[t] = "check"
    BY <2>1 DEF Check, Goto
  <2>2. CASE pc[t] = "slept"
    BY <2>2 DEF Check, Goto
  <2>3. CASE pc[t] = "exit"
    BY <2>3 DEF Check, Goto
  <2> QED BY <1>1, <2>1, <2>2, <2>3
<1>5. CASE k.nest # 0
  <2>1. k' = k /\ pc[t] = "check" /\ to = "run"
    BY <1>1, <1>2, <1>3, <1>4, <1>5 DEF SchedulerCheck
  <2> QED BY <1>1, <1>2, <1>4, <2>1, IdleCallKeepsInv DEF SameThreads
<1>6. CASE k.nest = 0
  <2>1. Orderly(k') /\ Rescheduled(k, k')
    BY <1>1, <1>2, <1>6, SchedulerCheckOrderly
  <2>2. /\ pc' \in [Thread -> Pc]
        /\ \A u \in Thread : \/ pc'[u] = pc[u]
                             \/ pc[u] = "exit" /\ pc'[u] = "panic"
                             \/ pc'[u] \notin {"exit", "panic"}
    BY <1>2, <1>3, <1>4 DEF Pc
  <2>3. InOrder(k', pc', reaping)
    BY <1>3, <1>2, <1>6, <2>1, <2>2, PickedAlive, InOrderRescheduled DEF InOrder
  <2> QED BY <1>1, <1>2, <1>3, <1>6, <2>1, <2>2, <2>3 DEF SchedInv, Dispatches, Rescheduled
<1> QED BY <1>5, <1>6

\* The second half of MDS_ThreadDelay, which resets the error of the thread.
LEMMA DelayReturnKeepsInv ==
  ASSUME SchedInv, NEW t \in User, DelayReturn(t)
  PROVE  SchedInv' /\ Dispatches(k, k')
<1>1. /\ Executes(t) /\ pc[t] = "woken" /\ pc' = [pc EXCEPT ![t] = "run"]
      /\ k' = [k EXCEPT !.err[t] = IF @ = "ETIMEOUT" THEN "EOK" ELSE @]
      /\ isr' = isr /\ reaping' = reaping
  BY DEF DelayReturn, Goto
<1>2. /\ t = k.curr /\ t \in Thread /\ Orderly(k) /\ Sound(k) /\ k \in KernelState
      /\ k.st[t] = "SUSPENDED" => ~OnReadyLevel(k, t)
      /\ ~Armed(k, t) /\ k.st[t] \notin {"INACTIVED", "FREE"}
  BY <1>1, Caller
<1>3. /\ k' \in KernelState /\ SameTable(k, k') /\ SameProcessor(k, k')
      /\ k'.st = k.st /\ k'.list = k.list /\ k'.tq = k.tq /\ k'.prio = k.prio
      /\ \A u \in Thread \ {t} : k'.err[u] = k.err[u]
  BY <1>1, <1>2 DEF KernelState, SameTable, SameProcessor, Err
<1>4. Sound(k') /\ Others(k, k', t)
  BY <1>2, <1>3, SoundFrame DEF Others, Armed, On
<1>5. /\ \A l : On(k', l, t) <=> On(k, l, t)
      /\ OnReadyLevel(k', t) <=> OnReadyLevel(k, t)
      /\ Armed(k', t) <=> Armed(k, t)
  BY <1>3 DEF On, OnReadyLevel, Armed
<1>6. Placed(k, t) /\ Ranked(k, t) /\ Distinct(k.tq)
  BY <1>2 DEF Orderly, Settled
<1>7. Placed(k', t)
  BY <1>2, <1>3, <1>5, <1>6 DEF Placed, SameProcessor
<1>8. Ranked(k', t) /\ Distinct(k'.tq)
  BY <1>3, <1>5, <1>6 DEF Ranked
<1>9. Orderly(k')
  <2>1. k'.curr = k.curr /\ k'.st[t] = k.st[t]
    BY <1>3 DEF SameProcessor
  <2> QED BY <1>2, <1>4, <1>5, <1>7, <1>8, <2>1, OrderlyStep
<1>10. Ended(k, pc[t], reaping, t)
  BY <1>2 DEF SchedInv, InOrder
<1>11. Ended(k', "run", reaping, t)
  BY <1>2, <1>3, <1>5, <1>10, EndedFrame DEF SameProcessor
<1> QED BY <1>1, <1>2, <1>3, <1>4, <1>5, <1>9, <1>11, CallKeepsInv

\* MDS_KernelStartup picks the first thread.
LEMMA BootKeepsInv ==
  ASSUME SchedInv, Boot
  PROVE  SchedInv' /\ Dispatches(k, k')
<1>1. /\ k.curr = NoThread /\ k' = KernelStartup(k) /\ ~isr /\ k.nest = 0
      /\ pc' = pc /\ isr' = isr /\ reaping' = reaping
  BY DEF Boot, StartScheduler, SchedInv, InOrder, Awake
<1>2. /\ Orderly(k) /\ pc \in [Thread -> Pc] /\ reaping \in Thread \cup {NoThread}
      /\ InOrder(k, pc, reaping)
  BY DEF SchedInv, InOrder
<1>3. /\ Orderly(k') /\ k'.curr \in Thread /\ k'.st[k'.curr] = "RUNNING"
      /\ \A u \in Thread \ {k'.curr} : k'.st[u] = k.st[u]
      /\ k.st[k'.curr] \in {"READY", "SUSPENDED"}
      /\ k'.list = k.list /\ k'.tq = k.tq /\ k'.nest = k.nest /\ k'.fault = k.fault
      /\ \A p \in Prio : k'.list[p] # <<>> => k'.prio[k'.curr] <= p
  BY <1>1, <1>2, KernelStartupOrderly
<1>4. ~Armed(k', k'.curr)
  BY <1>3 DEF Orderly, Settled, Placed
<1>5. Awake(k', pc)
  BY <1>1, <1>3, <1>4, KernelAssumption DEF Awake
<1>6. ASSUME NEW u \in Thread PROVE Ended(k', pc[u], reaping, u)
  <2>1. Ended(k, pc[u], reaping, u)
    BY <1>2 DEF InOrder
  <2>2. CASE u = k'.curr
    BY <1>3, <2>1, <2>2, EndedAlive
  <2>3. CASE u # k'.curr
    <3>1. /\ k'.st[u] = k.st[u] /\ (Armed(k', u) <=> Armed(k, u))
          /\ \A l \in Lists : On(k', l, u) <=> On(k, l, u)
      BY <1>3, <2>3 DEF Armed, On
    <3> QED BY <2>1, <2>3, <3>1, EndedFrame
  <2> QED BY <2>2, <2>3
<1> QED BY <1>1, <1>2, <1>3, <1>5, <1>6 DEF SchedInv, InOrder, Dispatches

\* The idle thread takes a dead thread out of the defunct queue.
LEMMA IdlePopKeepsInv ==
  ASSUME SchedInv, IdlePop
  PROVE  SchedInv' /\ Dispatches(k, k')
<1>0. /\ Orderly(k) /\ Sound(k) /\ k \in KernelState /\ OneHome(k) /\ TableExact(k)
      /\ pc \in [Thread -> Pc] /\ InOrder(k, pc, reaping)
  BY DEF SchedInv, InOrder, Orderly, Sound
<1>1. /\ k.curr = Idle /\ ~isr /\ reaping = NoThread /\ k.list[Defunct] # <<>>
      /\ pc' = pc /\ isr' = isr
  BY DEF IdlePop, Executes
<1>2. PICK h : h = Head(k.list[Defunct])
  OBVIOUS
<1>3. k' = Detach(k, h) /\ reaping' = h
  BY <1>2 DEF IdlePop
<1>4. Defunct \in Lists /\ Defunct \notin Prio /\ Prio \subseteq Lists /\ WaitQ \subseteq Lists
  BY KernelAssumption DEF Lists
<1>5. h \in Thread /\ On(k, Defunct, h)
  BY <1>0, <1>1, <1>2, <1>4, EmptyList
<1>6. /\ Placed(k, h) /\ Ranked(k, h) /\ Distinct(k.tq)
      /\ Ended(k, pc[h], reaping, h)
  BY <1>0, <1>5 DEF Orderly, Settled, InOrder
<1>7. k.st[h] = "TERMINATED" /\ h # Idle /\ ~Armed(k, h) /\ ~OnReadyLevel(k, h)
  BY <1>5, <1>6 DEF Placed, Ranked, Ended
<1>8. /\ k' \in KernelState /\ OneHome(k')
      /\ \A l \in Lists : \A u : On(k', l, u) <=> On(k, l, u) /\ u # h
      /\ \A l \in Lists : ~On(k, l, h) => k'.list[l] = k.list[l]
      /\ k'.mask = k.mask /\ k'.prio = k.prio /\ k'.st = k.st /\ k'.tq = k.tq
      /\ k'.curr = k.curr /\ k'.fault = k.fault /\ k'.nest = k.nest
  BY <1>0, <1>3, DetachProperties
<1>9. k'.err = k.err
  BY <1>3 DEF Detach
<1>10. \A p \in Prio : k'.list[p] = k.list[p]
  BY <1>4, <1>7, <1>8 DEF OnReadyLevel
<1>11. TableExact(k')
  BY <1>0, <1>8, <1>10 DEF TableExact, On
<1>12. Sound(k') /\ Others(k, k', h)
  BY <1>8, <1>9, <1>11 DEF Sound, Others, Armed
<1>13. /\ \A l \in Lists : ~On(k', l, h)
       /\ ~OnReadyLevel(k', h) /\ ~Armed(k', h)
  BY <1>4, <1>7, <1>8 DEF OnReadyLevel, Armed
<1>14. Placed(k', h)
  BY <1>4, <1>7, <1>8, <1>13 DEF Placed
<1>15. Ranked(k', h)
  BY <1>6, <1>7, <1>8 DEF Ranked
<1>16. Orderly(k')
  BY <1>0, <1>1, <1>5, <1>6, <1>7, <1>8, <1>12, <1>14, <1>15, OrderlyStep
<1>17. ASSUME NEW u \in Thread PROVE Ended(k', pc[u], h, u)
  <2>1. Ended(k, pc[u], reaping, u)
    BY <1>0 DEF InOrder
  <2>2. CASE u = h
    BY <1>1, <1>4, <1>7, <1>8, <1>13, <2>1, <2>2 DEF Ended
  <2>3. CASE u # h
    <3>1. \A l \in Lists : On(k', l, u) <=> On(k, l, u)
      BY <1>8, <2>3
    <3>2. Armed(k', u) <=> Armed(k, u)
      BY <1>8 DEF Armed
    <3>3. Ended(k', pc[u], reaping, u)
      BY <1>8, <2>1, <3>1, <3>2, EndedFrame
    <3> QED BY <1>1, <2>3, <3>3, KernelAssumption DEF Ended
  <2> QED BY <2>2, <2>3
<1>18. Awake(k', pc)
  BY <1>0, <1>8 DEF InOrder, Awake, Armed
<1> QED BY <1>0, <1>1, <1>3, <1>5, <1>8, <1>16, <1>17, <1>18
        DEF SchedInv, InOrder, Dispatches

\* Then it releases the thread.
LEMMA IdleFreeKeepsInv ==
  ASSUME SchedInv, IdleFree
  PROVE  SchedInv' /\ Dispatches(k, k')
<1>0. /\ Orderly(k) /\ Sound(k) /\ k \in KernelState
      /\ pc \in [Thread -> Pc] /\ InOrder(k, pc, reaping)
  BY DEF SchedInv, InOrder, Orderly, Sound
<1>1. /\ k.curr = Idle /\ ~isr /\ reaping' = NoThread /\ pc' = pc /\ isr' = isr
      /\ k' = [k EXCEPT !.st[reaping] = "FREE"] /\ reaping \in Thread
  BY DEF IdleFree, Executes, SchedInv
<1>2. PICK h \in Thread : h = reaping
  BY <1>1
<1>3. Placed(k, h) /\ Ranked(k, h) /\ Distinct(k.tq) /\ Ended(k, pc[h], h, h)
  BY <1>0, <1>2 DEF Orderly, Settled, InOrder
<1>4. /\ k.st[h] = "TERMINATED" /\ h # k.curr /\ h # Idle /\ ~Armed(k, h)
      /\ \A l \in Lists : ~On(k, l, h)
  BY <1>3 DEF Ended, Ranked
<1>5. "FREE" \in State
  BY DEF State
<1>6. /\ k' \in KernelState /\ SameTable(k, k') /\ k'.st = [k.st EXCEPT ![h] = "FREE"]
      /\ k'.list = k.list /\ k'.tq = k.tq /\ k'.err = k.err /\ k'.prio = k.prio
      /\ k'.curr = k.curr /\ k'.nest = k.nest /\ k'.fault = k.fault
  BY <1>0, <1>1, <1>2, <1>5 DEF KernelState, SameTable
<1>7. k'.st[h] = "FREE" /\ \A u \in Thread \ {h} : k'.st[u] = k.st[u]
  BY <1>0, <1>6 DEF KernelState
<1>8. Sound(k') /\ Others(k, k', h)
  BY <1>0, <1>6, <1>7, SoundFrame DEF Others, Armed, On
<1>9. /\ \A l \in Lists : ~On(k', l, h)
      /\ ~OnReadyLevel(k', h) /\ ~Armed(k', h)
  BY <1>4, <1>6 DEF OnReadyLevel, Armed, On, Lists
<1>10. Placed(k', h)
  BY <1>7, <1>9 DEF Placed, Lists
<1>11. Ranked(k', h)
  BY <1>3, <1>4, <1>6 DEF Ranked
<1>12. Orderly(k')
  BY <1>0, <1>3, <1>4, <1>6, <1>8, <1>10, <1>11, OrderlyStep
<1>13. ASSUME NEW u \in Thread PROVE Ended(k', pc[u], NoThread, u)
  <2>1. Ended(k, pc[u], reaping, u)
    BY <1>0 DEF InOrder
  <2>2. CASE u = h
    BY <1>2, <1>4, <1>6, <1>7, <1>9, <2>1, <2>2, KernelAssumption DEF Ended
  <2>3. CASE u # h
    <3>1. \A l \in Lists : On(k', l, u) <=> On(k, l, u)
      BY <1>6 DEF On
    <3>2. Armed(k', u) <=> Armed(k, u)
      BY <1>6 DEF Armed
    <3>3. Ended(k', pc[u], reaping, u)
      BY <1>6, <1>7, <2>1, <2>3, <3>1, <3>2, EndedFrame
    <3> QED BY <1>2, <2>3, <3>3, KernelAssumption DEF Ended
  <2> QED BY <2>2, <2>3
<1>14. Awake(k', pc)
  BY <1>0, <1>6 DEF InOrder, Awake, Armed
<1> QED BY <1>0, <1>1, <1>6, <1>12, <1>13, <1>14 DEF SchedInv, InOrder, Dispatches

-----------------------------------------------------------------------------
(* The tick interrupt                                                      *)

\* The tick interrupt up to its timers.
LEMMA TickKeepsInv ==
  ASSUME SchedInv, Tick
  PROVE  SchedInv' /\ Dispatches(k, k')
<1>0. /\ Orderly(k) /\ Sound(k) /\ Settled(k) /\ k \in KernelState
      /\ pc \in [Thread -> Pc] /\ reaping \in Thread \cup {NoThread}
      /\ InOrder(k, pc, reaping)
  BY DEF SchedInv, InOrder, Orderly, Sound
<1>1. /\ k.curr \in Thread /\ k' = ClockTick(k) /\ isr' = TRUE
      /\ pc' = pc /\ reaping' = reaping
  BY <1>0 DEF Tick, TickInterrupt, KernelState
<1>2. /\ Orderly(k') /\ k'.nest = k.nest /\ k'.fault = k.fault
      /\ SameThreads(k, k') \/ (k.nest = 0 /\ Rescheduled(k, k'))
  BY <1>0, <1>1, ClockTickOrderly
<1>3. CASE SameThreads(k, k')
  <2>1. ASSUME NEW u \in Thread PROVE Ended(k', pc[u], reaping, u)
    <3>1. Ended(k, pc[u], reaping, u)
      BY <1>0 DEF InOrder
    <3>2. /\ k'.st[u] = k.st[u] /\ (Armed(k', u) <=> Armed(k, u)) /\ k'.curr = k.curr
          /\ \A l \in Lists : On(k', l, u) <=> On(k, l, u)
      BY <1>3 DEF SameThreads, Armed, On
    <3> QED BY <3>1, <3>2, EndedFrame
  <2>2. Awake(k', pc) /\ k'.curr = k.curr
    BY <1>0, <1>2, <1>3 DEF InOrder, Awake, Armed, SameThreads
  <2> QED BY <1>0, <1>1, <1>2, <2>1, <2>2, KernelAssumption
          DEF SchedInv, InOrder, Dispatches
<1>4. CASE k.nest = 0 /\ Rescheduled(k, k')
  <2>1. InOrder(k', pc, reaping)
    BY <1>0, <1>2, <1>4, PickedAlive, InOrderRescheduled DEF InOrder
  <2>2. k'.curr # NoThread
    BY <1>4, KernelAssumption DEF Rescheduled
  <2> QED BY <1>0, <1>1, <1>4, <2>1, <2>2 DEF SchedInv, Dispatches, Rescheduled
<1> QED BY <1>2, <1>3, <1>4

\* A timer expires in the tick interrupt.
LEMMA ExpireKeepsInv ==
  ASSUME SchedInv, Expire
  PROVE  SchedInv' /\ Dispatches(k, k')
<1>0. /\ Orderly(k) /\ Settled(k) /\ k \in KernelState
      /\ pc \in [Thread -> Pc] /\ reaping \in Thread \cup {NoThread}
      /\ InOrder(k, pc, reaping)
  BY DEF SchedInv, InOrder, Orderly, Sound
<1>1. /\ isr /\ TimerDue(k) /\ k' = TimerExpire(k) /\ isr' = isr
      /\ pc' = pc /\ reaping' = reaping
  BY DEF Expire, TimerInterrupt
<1>2. /\ k.curr \in Thread /\ k.nest \in Nat
      /\ Armed(k, k.curr) => k.nest = 0
  BY <1>0, <1>1, KernelAssumption DEF SchedInv, InOrder, Awake, KernelState
<1>3. PICK b : \E u \in Thread :
        /\ TimedOut(k, b, u)
        /\ IF k.nest = 0 THEN Rescheduled(b, k') ELSE k' = b
  BY <1>0, <1>1, <1>2, TimerExpireOrderly
<1>4. PICK u \in Thread : /\ TimedOut(k, b, u)
                          /\ IF k.nest = 0 THEN Rescheduled(b, k') ELSE k' = b
  BY <1>3
<1>5. Orderly(k')
  BY <1>0, <1>1, <1>2, TimerExpireOrderly
<1>6. /\ Others(k, b, u) /\ SameProcessor(k, b) /\ b.st = k.st
      /\ k.st[u] = "SUSPENDED" /\ ~Armed(b, u)
  BY <1>4 DEF TimedOut
<1>7. ASSUME NEW t \in Thread PROVE Ended(b, pc[t], reaping, t)
  <2>1. Ended(k, pc[t], reaping, t)
    BY <1>0 DEF InOrder
  <2>2. CASE t = u
    BY <1>6, <2>1, <2>2, EndedAlive
  <2>3. CASE t # u
    <3>1. /\ b.st[t] = k.st[t] /\ (Armed(b, t) <=> Armed(k, t)) /\ b.curr = k.curr
          /\ \A l \in Lists : On(b, l, t) <=> On(k, l, t)
      BY <1>6, <2>3 DEF Others, SameProcessor
    <3> QED BY <2>1, <3>1, EndedFrame
  <2> QED BY <2>2, <2>3
<1>8. CASE k.nest = 0
  <2>1. Rescheduled(b, k')
    BY <1>4, <1>8
  <2>2. b.st[k'.curr] \notin {"TERMINATED", "FREE"}
    <3>1. /\ k'.curr \in Thread /\ Placed(k, k'.curr) /\ Ranked(k, k'.curr)
      BY <1>0, <2>1 DEF Rescheduled, Settled
    <3>2. CASE k'.curr = Idle
      BY <1>6, <3>1, <3>2 DEF Ranked
    <3>3. CASE OnReadyLevel(b, k'.curr)
      <4>1. CASE k'.curr = u
        BY <1>6, <4>1
      <4>2. CASE k'.curr # u
        <5>1. OnReadyLevel(k, k'.curr)
          BY <1>6, <3>1, <3>3, <4>2 DEF OnReadyLevel, Others, Lists
        <5> QED BY <1>6, <3>1, <5>1 DEF Placed
      <4> QED BY <4>1, <4>2
    <3>4. CASE k'.curr = b.curr /\ b.st[b.curr] = "RUNNING"
      BY <3>4
    <3> QED BY <2>1, <3>2, <3>3, <3>4 DEF Rescheduled
  <2>3. b.nest = 0 /\ b.curr = k.curr /\ b.fault \notin {"broken_switch", "relinked_timer"}
    BY <1>0, <1>6, <1>8 DEF SameProcessor, InOrder
  <2>4. InOrder(k', pc, reaping)
    BY <1>0, <1>5, <1>7, <2>1, <2>2, <2>3, InOrderRescheduled
  <2>5. k'.curr # NoThread
    BY <2>1, KernelAssumption DEF Rescheduled
  <2> QED BY <1>0, <1>1, <1>8, <2>1, <2>3, <2>4, <2>5
          DEF SchedInv, Dispatches, Rescheduled
<1>9. CASE k.nest # 0
  <2>1. k' = b /\ k'.curr = k.curr /\ k'.nest = k.nest /\ k'.fault = k.fault
    BY <1>4, <1>6, <1>9 DEF SameProcessor
  <2>2. ~Armed(k', k'.curr)
    BY <1>2, <1>6, <1>9, <2>1 DEF Others
  <2>3. Awake(k', pc)
    BY <1>0, <2>1, <2>2 DEF InOrder, Awake
  <2> QED BY <1>0, <1>1, <1>2, <1>5, <1>7, <2>1, <2>3, KernelAssumption
          DEF SchedInv, InOrder, Dispatches
<1> QED BY <1>8, <1>9

-----------------------------------------------------------------------------
(* The theorems                                                            *)

\* Before the first thread is started no list, timer or call is in use.
LEMMA SchedInvInit == Init => SchedInv
<1> SUFFICES ASSUME Init PROVE SchedInv
  OBVIOUS
<1>1. PICK p \in [User -> Prio] :
        k = KernelInit([t \in Thread |-> IF t = Idle THEN PrioMax ELSE p[t]])
  BY DEF Init, ProcessorInit
<1> DEFINE ip == [t \in Thread |-> IF t = Idle THEN PrioMax ELSE p[t]]
<1>2. /\ ip \in [Thread -> Level] /\ ip[Idle] = PrioMax
      /\ \A t \in Thread \ {Idle} : ip[t] \in Prio
  BY KernelAssumption DEF User, Prio, Level
<1> HIDE DEF ip
<1>3. k = KernelInit(ip)
  BY <1>1 DEF ip
<1>4. /\ Orderly(k) /\ k.fault = "none" /\ k.nest = 0 /\ k.curr = NoThread
      /\ \A l \in Lists : \A t : ~On(k, l, t)
      /\ \A t \in Thread : k.st[t] = IF t = Idle THEN "READY" ELSE "INACTIVED"
  BY <1>2, <1>3, KernelInitOrderly
<1>5. /\ pc = [t \in Thread |-> "run"] /\ isr = FALSE /\ reaping = NoThread
  BY DEF Init, ProcessorInit
<1>6. \A t \in Thread : Ended(k, pc[t], reaping, t)
  BY <1>4, <1>5, KernelAssumption DEF Ended
<1> QED BY <1>4, <1>5, <1>6 DEF SchedInv, InOrder, Awake, Pc

\* Every step keeps the invariant and dispatches as the kernel promises: one
\* case for each action of Next.
LEMMA SchedInvNext ==
  ASSUME SetPriorityAnyTime = FALSE, SchedInv, [Next]_vars
  PROVE  SchedInv' /\ Dispatches(k, k')
<1>1. ASSUME NEW t \in User, Yield(t) \/ LockScheduler(t) \/ UnlockScheduler(t)
      PROVE  SchedInv' /\ Dispatches(k, k')
  <2>1. Executes(t) /\ pc[t] = "run" /\ isr' = isr /\ reaping' = reaping
    BY <1>1 DEF Yield, LockScheduler, UnlockScheduler, Calls
  <2>2. pc \in [Thread -> Pc] /\ t \in Thread /\ Sound(k) /\ k \in KernelState
    BY <2>1, Caller DEF SchedInv
  <2>3. PICK to \in {"run", "check"} : pc' = [pc EXCEPT ![t] = to]
    BY <1>1, <2>1, <2>2 DEF Yield, LockScheduler, UnlockScheduler, Goto
  <2>4. Sound(k') /\ k'.fault = k.fault
    BY <1>1, <2>2, ThreadYieldSound, LockSound DEF Yield, LockScheduler, UnlockScheduler
  <2>5. SameThreads(k, k')
    BY <1>1, <2>2 DEF Yield, LockScheduler, UnlockScheduler, ThreadYield, SetYield,
                      LockAcquire, LockRelease, SameThreads, KernelState
  <2> QED BY <2>1, <2>3, <2>4, <2>5, IdleCallKeepsInv
<1>2. ASSUME NEW t \in User, Call(t) PROVE SchedInv' /\ Dispatches(k, k')
  BY <1>1, <1>2, StartupKeepsInv, SuspendKeepsInv, SetPriorityKeepsInv, CloseKeepsInv,
     DelayKeepsInv, ExitKeepsInv DEF Call
<1>3. CASE \E t \in User : BootStartup(t) \/ Call(t) \/ Check(t) \/ DelayReturn(t)
  BY <1>2, <1>3, BootStartupKeepsInv, CheckKeepsInv, DelayReturnKeepsInv
<1>4. CASE Boot \/ IdlePop \/ IdleFree
  BY <1>4, BootKeepsInv, IdlePopKeepsInv, IdleFreeKeepsInv
<1>5. CASE Tick \/ Expire
  BY <1>5, TickKeepsInv, ExpireKeepsInv
<1>6. CASE TickReturn
  <2>1. k' = k /\ pc' = pc /\ reaping' = reaping /\ isr' = FALSE
    BY <1>6 DEF TickReturn, InterruptReturn
  <2> QED BY <2>1 DEF SchedInv, Dispatches
<1>7. CASE UNCHANGED vars
  BY <1>7 DEF vars, SchedInv, InOrder, Dispatches
<1> QED BY <1>3, <1>4, <1>5, <1>6, <1>7 DEF Next

\* The invariant of every run in which priorities are set only where the
\* thread is moved between levels.
THEOREM SchedAlwaysInOrder ==
  ASSUME SetPriorityAnyTime = FALSE
  PROVE  Spec => []SchedInv
<1>1. SchedInv /\ [Next]_vars => SchedInv'
  BY SchedInvNext
<1> QED BY <1>1, SchedInvInit, PTL DEF Spec

\* Type correctness of the kernel state, the scheduler lock count included.
THEOREM TypeCorrect ==
  ASSUME SetPriorityAnyTime = FALSE
  PROVE  Spec => []TypeOK
<1>1. SchedInv => TypeOK
  BY DEF SchedInv, InOrder, Orderly, Sound, TypeOK
<1> QED BY <1>1, SchedAlwaysInOrder, PTL

\* No thread's node is ever linked into two lists, or twice into one.
THEOREM OneHomeForEveryNode ==
  ASSUME SetPriorityAnyTime = FALSE
  PROVE  Spec => []NodeInOneList
<1>1. SchedInv => NodeInOneList
  BY DEF SchedInv, InOrder, Orderly, Sound, NodeInOneList
<1> QED BY <1>1, SchedAlwaysInOrder, PTL

\* The bits of g_sysThreadPrioMask always agree with the ready table.
THEOREM ReadyTableAlwaysExact ==
  ASSUME SetPriorityAnyTime = FALSE
  PROVE  Spec => []ReadyTableExact
<1>1. SchedInv => ReadyTableExact
  BY DEF SchedInv, InOrder, Orderly, Sound, ReadyTableExact
<1> QED BY <1>1, SchedAlwaysInOrder, PTL

\* MDS_KernelSchedulerCheck only ever switches to a thread.
THEOREM SwitchesOnlyToThreads ==
  ASSUME SetPriorityAnyTime = FALSE
  PROVE  Spec => []SwitchTargetIntact
<1>1. SchedInv => SwitchTargetIntact
  BY DEF SchedInv, InOrder, SwitchTargetIntact
<1> QED BY <1>1, SchedAlwaysInOrder, PTL

\* No thread timer is ever started while it is linked, by whichever thread
\* the sleeper was resumed, suspended again or closed.
THEOREM TimersLinkedOnce ==
  ASSUME SetPriorityAnyTime = FALSE
  PROVE  Spec => []TimerLinkedOnce
<1>1. SchedInv => TimerLinkedOnce
  BY DEF SchedInv, InOrder, TimerLinkedOnce
<1> QED BY <1>1, SchedAlwaysInOrder, PTL

\* The state of every thread agrees with its place in the ready table.
THEOREM ReadyAlwaysListed ==
  ASSUME SetPriorityAnyTime = FALSE
  PROVE  Spec => []ReadyIsListed
<1>1. SchedInv => ReadyIsListed
  <2> SUFFICES ASSUME SchedInv, NEW t \in Thread
               PROVE  /\ k.st[t] = "READY" /\ t # Idle => On(k, k.prio[t], t)
                      /\ k.st[t] = "RUNNING" => t = k.curr
                      /\ OnReadyLevel(k, t) =>
                           \/ k.st[t] = "READY"
                           \/ k.st[t] = "SUSPENDED" /\ k.err[t] = "ETIMEOUT"
                           \/ k.st[t] = "RUNNING" /\ t = k.curr
    BY DEF ReadyIsListed
  <2>1. Placed(k, t)
    BY DEF SchedInv, InOrder, Orderly, Settled
  <2> QED BY <2>1 DEF Placed
<1> QED BY <1>1, SchedAlwaysInOrder, PTL

\* Only a sleeping thread has its timer armed.
THEOREM ArmedAlwaysAsleep ==
  ASSUME SetPriorityAnyTime = FALSE
  PROVE  Spec => []ArmedIsAsleep
<1>1. SchedInv => ArmedIsAsleep
  BY DEF SchedInv, InOrder, Orderly, Settled, Placed, ArmedIsAsleep
<1> QED BY <1>1, SchedAlwaysInOrder, PTL

\* A dead thread waits for the idle thread and is then referred to by
\* nothing, so its object and its stack can be released.
THEOREM DeadAlwaysDetached ==
  ASSUME SetPriorityAnyTime = FALSE
  PROVE  Spec => []DeadIsDetached
<1>1. SchedInv => DeadIsDetached
  <2> SUFFICES ASSUME SchedInv, NEW t \in Thread
               PROVE  /\ k.st[t] = "TERMINATED" =>
                           /\ ~OnReadyLevel(k, t) /\ ~Armed(k, t)
                           /\ On(k, Defunct, t) # (reaping = t)
                      /\ k.st[t] = "FREE" \/ reaping = t =>
                           t # k.curr /\ ~Armed(k, t) /\ \A l \in Lists : ~On(k, l, t)
    BY DEF DeadIsDetached
  <2>1. Ended(k, pc[t], reaping, t)
    BY DEF SchedInv, InOrder
  <2>2. On(k, Defunct, t) \in BOOLEAN
    BY DEF On, Contains
  <2> QED BY <2>1, <2>2 DEF Ended
<1> QED BY <1>1, SchedAlwaysInOrder, PTL

\* No thread ever returns into THREAD_Entry after its last scheduler check.
THEOREM ExitAlwaysFinal ==
  ASSUME SetPriorityAnyTime = FALSE
  PROVE  Spec => []ExitIsFinal
<1>1. SchedInv => ExitIsFinal
  BY DEF SchedInv, InOrder, Ended, ExitIsFinal
<1> QED BY <1>1, SchedAlwaysInOrder, PTL

\* Every switch, in a thread's call or in the tick interrupt, is to a thread
\* of the highest priority that is ready.
THEOREM SwitchesToHighest ==
  ASSUME SetPriorityAnyTime = FALSE
  PROVE  Spec => SwitchToHighest
<1>1. SchedInv /\ [Next]_vars =>
        [k'.curr # k.curr =>
           \A p \in Prio : k'.list[p] # <<>> => k'.prio[k'.curr] <= p]_vars
  BY SchedInvNext DEF Dispatches
<1> QED BY <1>1, SchedAlwaysInOrder, PTL DEF Spec, SwitchToHighest

\* The lock of the scheduler is as good as its word: until it is released no
\* call and no interrupt takes the processor from the current thread.
THEOREM LockHoldsProcessor ==
  ASSUME SetPriorityAnyTime = FALSE
  PROVE  Spec => LockKeepsProcessor
<1>1. SchedInv /\ [Next]_vars => [k.nest > 0 => k'.curr = k.curr]_vars
  BY SchedInvNext DEF Dispatches
<1> QED BY <1>1, SchedAlwaysInOrder, PTL DEF Spec, LockKeepsProcessor
=============================================================================
