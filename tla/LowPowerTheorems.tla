-------------------------- MODULE LowPowerTheorems --------------------------
(***************************************************************************)
(* Low power control for any number of threads, devices, votes and ticks.  *)
(* Everything rests on the lock of the scheduler: the pass of the idle     *)
(* thread holds it from its first step to its last, so that in between no  *)
(* thread runs and only interrupts change what the pass has read.  The     *)
(* list of devices has no lock: what is said of the devices assumes that   *)
(* the calls which register and unregister them do not overlap.            *)
(***************************************************************************)
EXTENDS LowPower, MdsKernelTheorems

\* Where thread t holds the lock of the scheduler: in the pass of the idle
\* thread, and inside MDS_LPC_SleepModeForce.
PassPc == {"mode", "plan", "suspend", "sleep", "again", "run", "resume",
           "switch", "switchto", "unlock"}
Locks(at, t) == at[t] \in IF t = Idle THEN PassPc ELSE {"force"}

\* Where a thread may be.
AnyPc == IdlePc \cup {"force"} \cup Linking
Places(t) == IF t = Idle THEN IdlePc ELSE {"run", "force", "check"} \cup Linking

\* One thread at most holds the lock and it is the one that executes.  A
\* current thread that is asleep is on its way to its scheduler check.
LockInv(s, at, in) ==
  /\ Orderly(s)
  /\ in => s.curr # NoThread
  /\ \A t \in Thread : at[t] \in Places(t)
  /\ \A t \in Thread : Locks(at, t) => s.curr = t
  /\ s.nest = IF \E t \in Thread : Locks(at, t) THEN 1 ELSE 0
  /\ s.curr # NoThread =>
       \/ s.st[s.curr] = "RUNNING"
       \/ s.st[s.curr] = "SUSPENDED" /\ at[s.curr] = "check"

PassType == [mode : SleepMode, plan : Nat, tick : Nat, real : Nat, run : RunMode]

\* The variables of the pass have their types.
PassTypes ==
  /\ now \in Nat
  /\ sleep \in [default : SleepMode, vote : [SleepMode -> Nat]]
  /\ run \in [mode : RunMode, vote : [RunMode -> Nat]]
  /\ pass \in PassType
  /\ pc \in [Thread -> AnyPc]

\* The pointers in both directions.
Links == [next : [Node -> Node], prev : [Node -> Node]]

\* Along the nodes of S the two pointers of a node and of its neighbours agree.
Ring(l, S) ==
  \A x \in S : /\ l.next[x] \in S /\ l.prev[l.next[x]] = x
               /\ l.prev[x] \in S /\ l.next[l.prev[x]] = x

\* The list with d out of the way of prev.
Without(l, d) == [l EXCEPT !.prev[l.next[d]] = l.prev[d]]

\* Device d is on the way along prev and not on the way along next.
Half(l, d) ==
  /\ d \in Back(l) \ {DevList}
  /\ l.prev[l.next[d]] = d /\ l.next[l.prev[d]] = l.next[d]
  /\ l.next[d] # d /\ l.prev[d] # d /\ l.next[d] \in Back(l)
  /\ Ring(Without(l, d), Back(l) \ {d})

\* The list while a thread is at w with device d.
ListAt(l, w, d) ==
  /\ IF w \in {"publish", "unlink"} THEN Half(l, d) ELSE Ring(l, Back(l))
  /\ w \in {"link", "publish"} => l.prev[d] = DevList
  /\ w = "link" => l.next[d] = l.next[DevList]
  /\ w \in {"link", "clear"} => d \notin Back(l)
  /\ w = "wake" => d \in Back(l)
  /\ \A x \in Node \ Back(l) : x # d => l.next[x] = x

\* One thread at most is at work on the list, which is in order when none is.
ListInv ==
  /\ links \in Links /\ on \in [User -> Node]
  /\ \A t \in User : IF pc[t] \in Linking THEN on[t] \in Device /\ ListAt(links, pc[t], on[t])
                    ELSE on[t] = DevList
  /\ \A t, u \in User : pc[t] \in Linking /\ pc[u] \in Linking => t = u
  /\ (\A t \in User : pc[t] \notin Linking) => ListAt(links, "run", DevList)

\* Devices that sleep were suspended by a pass that will resume them, or by
\* MDS_LPC_SleepModeForce; the pass finds those of its own along prev.
DeviceInv ==
  /\ \/ asleep \subseteq forced
     \/ pc[Idle] \in {"suspend", "sleep", "again", "run", "resume"} /\ pass.mode > SleepIdle
  /\ pc[Idle] = "suspend" => pass.mode > SleepIdle
  /\ asleep \ forced \subseteq Back(links)
  /\ walk # DevList => pc[Idle] = "suspend" \/ \E t \in User : pc[t] = "force"
  /\ pc[Idle] = "suspend" => walk \in Back(links)

\* A sleep that began with a thread ready is the last one of its pass.
LateInv ==
  /\ late \in 0..1
  /\ pc[Idle] \in {"idle", "mode", "plan", "suspend", "sleep", "check"} => late = 0
  /\ pc[Idle] = "again" /\ late = 1 => k.mask # {}

\* As long as no interrupt votes, the run mode the pass asks for is the one
\* that is voted for, and so is the one it leaves behind.
VoteInv ==
  /\ pc[Idle] = "switchto" /\ ~voted => pass.run = RunModeUpdate(run)
  /\ VoteHonoured

\* The inductive invariant of low power control, whoever registers devices.
LowPowerInv == LockInv(k, pc, isr) /\ PassTypes /\ LateInv /\ VoteInv

-----------------------------------------------------------------------------
(* The kernel while the scheduler is locked                                *)

\* From s to n the same thread executes and none changes its state; threads
\* that were ready still are.
Ages(s, n) ==
  /\ Orderly(n) /\ n.curr = s.curr /\ n.nest = s.nest /\ n.st = s.st
  /\ s.mask # {} => n.mask # {}

LEMMA AgesCompose ==
  ASSUME NEW a, NEW b, NEW c, Ages(a, b), Ages(b, c)
  PROVE  Ages(a, c)
BY DEF Ages

\* An update that touches neither the threads nor the table.
LEMMA FrameAges ==
  ASSUME NEW s, Orderly(s), NEW n, Sound(n), SameThreads(s, n), n.nest = s.nest,
         n.mask = s.mask
  PROVE  Ages(s, n)
BY SameThreadsOrderly DEF Ages, SameThreads, Orderly

\* The lock is counted beside the threads.
LEMMA LockOrderly ==
  ASSUME NEW s, Orderly(s), NEW n, n = LockAcquire(s) \/ n = LockRelease(s)
  PROVE  /\ Orderly(n) /\ SameThreads(s, n) /\ n.mask = s.mask
         /\ n = LockAcquire(s) => n.nest = s.nest + 1
         /\ n = LockRelease(s) => n.nest = IF s.nest > 0 THEN s.nest - 1 ELSE 0
<1>1. Sound(s) /\ s \in KernelState
  BY DEF Orderly, Sound
<1>2. Sound(n)
  BY <1>1, LockSound
<1>3. /\ SameThreads(s, n) /\ n.mask = s.mask
      /\ n = LockAcquire(s) => n.nest = s.nest + 1
      /\ n = LockRelease(s) => n.nest = IF s.nest > 0 THEN s.nest - 1 ELSE 0
  BY <1>1 DEF LockAcquire, LockRelease, KernelState, SameThreads
<1> QED BY <1>2, <1>3, SameThreadsOrderly DEF Orderly

\* A wait that may not wait leaves its error in the thread and nothing else.
LEMMA TimeoutAges ==
  ASSUME NEW s, Orderly(s), NEW t \in Thread, NEW n, n = [s EXCEPT !.err[t] = "ETIMEOUT"]
  PROVE  Ages(s, n)
<1>1. Sound(s) /\ Settled(s) /\ CurrentKept(s) /\ s \in KernelState
  BY DEF Orderly, Sound
<1>2. /\ n \in KernelState /\ SameTable(s, n) /\ n.curr = s.curr /\ n.nest = s.nest
      /\ n.st = s.st /\ n.tq = s.tq /\ n.mask = s.mask
      /\ \A u \in Thread : n.err[u] = IF u = t THEN "ETIMEOUT" ELSE s.err[u]
  BY <1>1 DEF KernelState, SameTable, Err
<1>3. Sound(n)
  BY <1>1, <1>2, SoundFrame
<1>4. /\ \A u : Armed(n, u) <=> Armed(s, u)
      /\ \A u, l : On(n, l, u) <=> On(s, l, u)
      /\ \A u : OnReadyLevel(n, u) <=> OnReadyLevel(s, u)
  BY <1>2 DEF Armed, On, OnReadyLevel, SameTable
<1>5. \A u \in Thread : Placed(n, u) /\ Ranked(n, u)
  BY <1>1, <1>2, <1>4 DEF Settled, Placed, Ranked, SameTable
<1>6. Settled(n) /\ CurrentKept(n)
  BY <1>1, <1>2, <1>4, <1>5 DEF Settled, CurrentKept
<1> QED BY <1>2, <1>3, <1>6 DEF Ages, Orderly

\* MDS_ConditionBroadCast without waiters.
LEMMA ToldAges ==
  ASSUME NEW s, Orderly(s), s.curr \in Thread, NEW c
  PROVE  Ages(s, Told(s, c))
<1>1. Told(s, c) = s \/ Told(s, c) = [s EXCEPT !.err[s.curr] = "ETIMEOUT"]
  BY DEF Told, SemaphoreAcquire
<1> QED BY <1>1, TimeoutAges DEF Ages

\* A thread in the ready table shows in its mask.
LEMMA ReadyShows ==
  ASSUME NEW s, Sound(s)
  PROVE  s.mask # {} <=> \E t \in Thread : OnReadyLevel(s, t)
<1>1. s \in KernelState /\ s.mask = {p \in Prio : s.list[p] # <<>>} /\ Prio \subseteq Lists
  BY DEF Sound, TableExact, Lists
<1>2. \A p \in Prio : s.list[p] # <<>> <=> \E t \in Thread : On(s, p, t)
  <2> TAKE p \in Prio
  <2> QED BY <1>1, EmptyList
<1> QED BY <1>1, <1>2 DEF OnReadyLevel

\* A timer that expires while the scheduler is locked.
LEMMA ExpireAges ==
  ASSUME NEW s, Orderly(s), s.curr \in Thread, s.st[s.curr] = "RUNNING", s.nest # 0,
         TimerDue(s)
  PROVE  Ages(s, TimerExpire(s)) /\ TimerExpire(s).mask # {}
<1>1. PICK n : n = TimerExpire(s)
  OBVIOUS
<1>2. ~Armed(s, s.curr) /\ Sound(s)
  BY DEF Orderly, Settled, Placed
<1>3. /\ Orderly(n)
      /\ \E b : \E u \in Thread :
           TimedOut(s, b, u) /\ IF s.nest = 0 THEN Rescheduled(b, n) ELSE n = b
  BY <1>1, <1>2, TimerExpireOrderly
<1>4. PICK u \in Thread : TimedOut(s, n, u)
  BY <1>3
<1>5. Ranked(s, u) /\ Placed(s, u)
  BY DEF Orderly, Settled
<1>6. s.prio[u] \in Prio /\ Prio \subseteq Lists
  BY <1>4, <1>5 DEF TimedOut, Ranked, Lists
<1>7. OnReadyLevel(n, u)
  BY <1>4, <1>6 DEF TimedOut, OnReadyLevel
<1>8. n.mask # {}
  BY <1>3, <1>7, ReadyShows DEF Orderly
<1> QED BY <1>1, <1>3, <1>4, <1>8 DEF Ages, TimedOut, SameProcessor

\* One round of MDS_WorkQueueCheck.
LEMMA RoundAges ==
  ASSUME NEW s, Orderly(s), s.curr \in Thread, s.st[s.curr] = "RUNNING", s.nest # 0
  PROVE  Ages(s, Round(s))
BY ExpireAges DEF Round, Ages

\* The clock that jumps by d ticks while the scheduler is locked.
LEMMA CompensateAges ==
  ASSUME NEW s, Orderly(s), s.curr \in Thread, s.st[s.curr] = "RUNNING", s.nest # 0,
         NEW d \in Nat
  PROVE  Ages(s, CompensateTick(s, d))
<1> DEFINE aged == [s EXCEPT !.left = [t \in Thread |-> IF @[t] > d THEN @[t] - d ELSE 0]]
           lasts == aged.remain[aged.curr] > d
           worn == [aged EXCEPT !.remain[aged.curr] = IF lasts THEN @ - d ELSE Slice]
           ticked == IF lasts THEN worn ELSE SchedulerCheck(SetYield(worn, worn.curr))
           N == Len(s.tq)
           Walk(f) == f = [i \in 0..N |-> IF i = 0 THEN ticked ELSE Round(f[i - 1])]
           at == CHOOSE f : Walk(f)
<1>1. Ages(s, ticked)
  <2>1. Sound(s) /\ s \in KernelState
    BY DEF Orderly, Sound
  <2>2. /\ aged \in KernelState /\ SameTable(s, aged) /\ SameThreads(s, aged)
        /\ aged.nest = s.nest /\ aged.mask = s.mask /\ aged.remain = s.remain
    <3>1. [t \in Thread |-> IF s.left[t] > d THEN s.left[t] - d ELSE 0] \in [Thread -> Nat]
      BY <2>1 DEF KernelState
    <3> QED BY <2>1, <3>1 DEF KernelState, SameTable, SameThreads
  <2>3. Sound(aged)
    BY <2>1, <2>2, SoundFrame
  <2> HIDE DEF aged
  <2>4. aged.remain[aged.curr] \in 1..Slice /\ aged.curr = s.curr
    BY <2>1, <2>2 DEF KernelState, SameThreads
  <2>5. PICK r : r = IF lasts THEN aged.remain[aged.curr] - d ELSE Slice
    OBVIOUS
  <2>6. r \in 1..Slice
    BY <2>4, <2>5, KernelAssumption
  <2>7. worn = [aged EXCEPT !.remain[aged.curr] = r]
    BY <2>5
  <2>8. Sound(worn)
    BY <2>3, <2>4, <2>6, <2>7, RemainSound
  <2>9. SameThreads(s, worn) /\ worn.nest = s.nest /\ worn.mask = s.mask
    BY <2>2, <2>7 DEF KernelState, SameThreads
  <2> HIDE DEF worn, lasts
  <2>10. PICK y : y = SetYield(worn, worn.curr)
    OBVIOUS
  <2>11. Sound(y)
    BY <2>8, <2>9, <2>10, SetYieldSound DEF SameThreads
  <2>12. SameThreads(s, y) /\ y.nest = s.nest /\ y.mask = s.mask
    BY <2>8, <2>9, <2>10 DEF SetYield, Sound, KernelState, SameThreads
  <2>13. SchedulerCheck(y) = y
    BY <2>12 DEF SchedulerCheck
  <2> QED BY <2>8, <2>9, <2>10, <2>11, <2>12, <2>13, FrameAges
<1> HIDE DEF aged, lasts, worn, ticked
<1>2. N \in Nat
  BY DEF Orderly, Sound, KernelState
<1>3. CompensateTick(s, d) = at[N]
  BY DEF CompensateTick, aged, lasts, worn, ticked
<1>4. \E f : Walk(f)
  <2> DEFINE WalkTo(n, f) == f = [i \in 0..n |-> IF i = 0 THEN ticked ELSE Round(f[i - 1])]
             short == {n \in Nat : ~(\E f : WalkTo(n, f))}
  <2>1. ASSUME short # {} PROVE FALSE
    <3>1. PICK m \in short : \A n \in short : m <= n
      <4>1. short \in SUBSET Nat
        OBVIOUS
      <4> QED BY <2>1, <4>1, LeastNatural
    <3>2. m \in Nat /\ ~(\E f : WalkTo(m, f))
      BY <3>1
    <3>3. CASE m = 0
      <4>1. WalkTo(0, [i \in 0..0 |-> ticked])
        OBVIOUS
      <4> QED BY <3>2, <3>3, <4>1
    <3>4. CASE m # 0
      <4>1. m - 1 \in Nat /\ ~(m <= m - 1)
        BY <3>2, <3>4
      <4>2. m - 1 \notin short
        <5> HIDE DEF short
        <5> QED BY <3>1, <4>1
      <4>3. PICK f : WalkTo(m - 1, f)
        BY <4>1, <4>2
      <4> DEFINE g == [i \in 0..m |-> IF i < m THEN f[i] ELSE Round(f[m - 1])]
      <4>4. \A i \in 0..(m - 1) : f[i] = IF i = 0 THEN ticked ELSE Round(f[i - 1])
        BY <4>3
      <4>5. ASSUME NEW i \in 0..m
            PROVE  g[i] = IF i = 0 THEN ticked ELSE Round(g[i - 1])
        <5>1. CASE i < m
          <6>1. i \in 0..(m - 1) /\ (i # 0 => i - 1 \in 0..m /\ i - 1 < m)
            BY <3>2, <4>5, <5>1
          <6>2. g[i] = f[i] /\ (i # 0 => g[i - 1] = f[i - 1])
            BY <4>5, <5>1, <6>1
          <6> QED BY <4>4, <6>1, <6>2
        <5>2. CASE ~(i < m)
          <6>1. i = m /\ m - 1 \in 0..m /\ m - 1 < m
            BY <3>2, <3>4, <4>5, <5>2
          <6>2. g[m] = Round(f[m - 1]) /\ g[m - 1] = f[m - 1]
            BY <3>2, <6>1
          <6> QED BY <3>4, <6>1, <6>2
        <5> QED BY <5>1, <5>2
      <4>6. WalkTo(m, g)
        BY <4>5
      <4> QED BY <3>2, <4>6
    <3> QED BY <3>3, <3>4
  <2> QED BY <1>2, <2>1
<1>5. Walk(at)
  BY <1>4
<1> HIDE DEF at
<1>6. \A i \in 0..N : at[i] = IF i = 0 THEN ticked ELSE Round(at[i - 1])
  BY <1>5
<1> DEFINE young == {i \in 0..N : ~Ages(s, at[i])}
<1>7. ASSUME young # {} PROVE FALSE
  <2>1. PICK m \in young : \A n \in young : m <= n
    <3>1. young \in SUBSET Nat
      BY <1>2
    <3> QED BY <1>7, <3>1, LeastNatural
  <2>2. m \in 0..N /\ ~Ages(s, at[m])
    BY <2>1
  <2>3. CASE m = 0
    BY <1>1, <1>6, <2>2, <2>3
  <2>4. CASE m # 0
    <3>1. m - 1 \in 0..N /\ ~(m <= m - 1)
      BY <1>2, <2>2, <2>4
    <3>2. Ages(s, at[m - 1])
      BY <2>1, <3>1
    <3>3. at[m] = Round(at[m - 1])
      BY <1>6, <2>2, <2>4
    <3>4. Ages(at[m - 1], at[m])
      BY <3>2, <3>3, RoundAges DEF Ages
    <3> QED BY <2>2, <3>2, <3>4, AgesCompose
  <2> QED BY <2>3, <2>4
<1>8. N \in 0..N
  BY <1>2
<1> QED BY <1>3, <1>7, <1>8

-----------------------------------------------------------------------------
(* Who holds the lock                                                      *)

\* What the invariant says of the thread that executes.
LEMMA Executing ==
  ASSUME NEW t \in Thread, LockInv(k, pc, isr), Executes(t)
  PROVE  /\ Orderly(k) /\ k.curr = t /\ ~isr
         /\ pc[t] # "check" => k.st[t] = "RUNNING"
         /\ k.nest = IF Locks(pc, t) THEN 1 ELSE 0
         /\ \A u \in Thread \ {t} : ~Locks(pc, u)
BY KernelAssumption DEF Executes, LockInv

\* A step of the kernel under which every thread stays where it is.
LEMMA LockFrame ==
  ASSUME NEW s, NEW at, NEW in, LockInv(s, at, in), NEW n, Ages(s, n),
         NEW b, b => s.curr # NoThread
  PROVE  LockInv(n, at, b)
BY DEF LockInv, Ages

\* A step of the thread that executes: it goes to w, with or without the lock.
LEMMA LockGoes ==
  ASSUME NEW t \in Thread, LockInv(k, pc, isr), pc \in [Thread -> AnyPc],
         Executes(t), pc[t] # "check", NEW w \in Places(t), pc' = [pc EXCEPT ![t] = w],
         Orderly(k'), k'.curr = k.curr, k'.st = k.st, isr' = isr,
         k'.nest = IF Locks(pc', t) THEN 1 ELSE 0
  PROVE  LockInv(k', pc', isr')
<1>1. /\ k.curr = t /\ ~isr /\ k.st[t] = "RUNNING"
      /\ \A u \in Thread \ {t} : ~Locks(pc, u)
  BY Executing
<1>2. /\ \A u \in Thread \ {t} : pc'[u] = pc[u]
      /\ pc'[t] = w
  OBVIOUS
<1>3. \A u \in Thread \ {t} : ~Locks(pc', u)
  BY <1>1, <1>2 DEF Locks
<1>4. \A u \in Thread : pc'[u] \in Places(u)
  BY <1>2 DEF LockInv
<1> QED BY <1>1, <1>3, <1>4 DEF LockInv

\* A step of the pass that keeps the lock.
LEMMA PassGoes ==
  ASSUME LockInv(k, pc, isr), pc \in [Thread -> AnyPc], Executes(Idle),
         pc[Idle] \in PassPc, NEW w \in PassPc, pc' = [pc EXCEPT ![Idle] = w],
         Ages(k, k'), isr' = isr
  PROVE  LockInv(k', pc', isr')
<1>1. Idle \in Thread
  BY KernelAssumption
<1>2. w \in Places(Idle) /\ pc[Idle] # "check"
  BY DEF Places, PassPc, IdlePc
<1>3. pc'[Idle] = w
  BY <1>1
<1>4. Locks(pc, Idle) /\ Locks(pc', Idle)
  BY <1>3 DEF Locks
<1>5. k.nest = 1
  BY <1>1, <1>4, Executing
<1> QED BY <1>1, <1>2, <1>4, <1>5, LockGoes DEF Ages

\* A step after which another thread may execute: nobody holds the lock.
LEMMA LockSwitches ==
  ASSUME LockInv(k, pc, isr), k.curr \in Thread, k.nest = 0, Orderly(k'), Rescheduled(k, k'),
         NEW t \in Thread, NEW w \in Places(t), w \in {"idle", "run", "check"},
         \/ pc' = pc
         \/ (t # Idle \/ w # "run") /\ pc' = [pc EXCEPT ![t] = w],
         pc \in [Thread -> AnyPc]
  PROVE  LockInv(k', pc', isr')
<1>1. \A u \in Thread : ~Locks(pc, u)
  BY DEF LockInv
<1>2. \A u \in Thread : pc'[u] = pc[u] \/ (u = t /\ pc'[u] = w /\ (t # Idle \/ w # "run"))
  OBVIOUS
<1>3. \A u \in Thread : ~Locks(pc', u)
  BY <1>1, <1>2 DEF Locks, PassPc
<1>4. \A u \in Thread : pc'[u] \in Places(u)
  BY <1>2 DEF LockInv
<1>5. k'.curr \in Thread /\ k'.nest = 0 /\ k'.st[k'.curr] = "RUNNING"
  BY DEF Rescheduled
<1> QED BY <1>3, <1>4, <1>5, KernelAssumption DEF LockInv

\* MDS_KernelSchedulerCheck where a call or the pass ends.
LEMMA CheckKeepsLock ==
  ASSUME NEW t \in Thread, LockInv(k, pc, isr), pc \in [Thread -> AnyPc],
         Check(t)
  PROVE  LockInv(k', pc', isr')
<1>1. /\ Executes(t) /\ pc[t] = "check" /\ k' = SchedulerCheck(k) /\ isr' = isr
      /\ pc' = [pc EXCEPT ![t] = IF t = Idle THEN "idle" ELSE "run"]
  BY DEF Check, Goto
<1>2. ~Locks(pc, t)
  BY <1>1 DEF Locks, PassPc
<1>3. Orderly(k) /\ k.curr = t /\ k.nest = 0
  BY <1>1, <1>2, Executing
<1>4. Sound(k) /\ Settled(k)
  BY <1>3 DEF Orderly
<1>5. Orderly(k') /\ Rescheduled(k, k')
  BY <1>1, <1>3, <1>4, SchedulerCheckOrderly
<1>6. PICK w : w = IF t = Idle THEN "idle" ELSE "run"
  OBVIOUS
<1>7. w \in Places(t) /\ w \in {"idle", "run", "check"} /\ (t # Idle \/ w # "run")
  BY <1>6 DEF Places, IdlePc
<1> QED BY <1>1, <1>3, <1>5, <1>6, <1>7, LockSwitches

\* The tick interrupt switches to another thread only where the scheduler is
\* not locked, and so does a timer that expires in it.
LEMMA TickKeepsLock ==
  ASSUME LockInv(k, pc, isr), pc \in [Thread -> AnyPc],
         TickInterrupt \/ TimerInterrupt \/ InterruptReturn, pc' = pc
  PROVE  /\ LockInv(k', pc', isr')
         /\ k.nest # 0 => Ages(k, k')
<1>1. CASE TickInterrupt
  <2>1. k.curr \in Thread /\ k' = ClockTick(k) /\ Orderly(k) /\ isr' = TRUE
    BY <1>1 DEF TickInterrupt, LockInv, Orderly, Sound, KernelState
  <2>2. /\ Orderly(k') /\ k'.nest = k.nest
        /\ SameThreads(k, k') \/ (k.nest = 0 /\ Rescheduled(k, k'))
    BY <2>1, ClockTickOrderly
  <2>3. CASE SameThreads(k, k')
    <3>1. k'.mask = k.mask
      BY <2>1, <2>2, <2>3 DEF SameThreads, Orderly, Sound, TableExact
    <3>2. Ages(k, k')
      BY <2>2, <2>3, <3>1 DEF Ages, SameThreads
    <3> QED BY <2>1, <3>2, LockFrame, KernelAssumption
  <2>4. CASE k.nest = 0 /\ Rescheduled(k, k')
    <3>1. /\ "idle" \in Places(Idle) /\ Idle \in Thread
          /\ "idle" \in {"idle", "run", "check"} /\ k.nest = 0 /\ Rescheduled(k, k')
      BY <2>4, KernelAssumption DEF Places, IdlePc
    <3> QED BY <2>1, <2>2, <3>1, LockSwitches
  <2> QED BY <2>2, <2>3, <2>4
<1>2. CASE TimerInterrupt
  <2>1. /\ isr /\ isr' = isr /\ TimerDue(k) /\ k' = TimerExpire(k) /\ Orderly(k)
        /\ k.curr \in Thread
    BY <1>2 DEF TimerInterrupt, LockInv, Orderly, Sound, KernelState
  <2>2. CASE k.nest # 0
    <3>1. Locks(pc, k.curr)
      BY <2>2 DEF LockInv
    <3>2. pc[k.curr] # "check"
      BY <3>1 DEF Locks, PassPc
    <3>3. k.st[k.curr] = "RUNNING"
      BY <2>1, <3>2, KernelAssumption DEF LockInv
    <3>4. Ages(k, k')
      BY <2>1, <2>2, <3>3, ExpireAges
    <3> QED BY <2>1, <3>4, LockFrame, KernelAssumption
  <2>3. CASE k.nest = 0
    <3>1. /\ Orderly(k')
          /\ \E b : \E u \in Thread :
               TimedOut(k, b, u) /\ IF k.nest = 0 THEN Rescheduled(b, k') ELSE k' = b
      BY <2>1, <2>3, TimerExpireOrderly
    <3>2. PICK b : \E u \in Thread : TimedOut(k, b, u) /\ Rescheduled(b, k')
      BY <2>3, <3>1
    <3>3. k'.curr \in Thread /\ k'.nest = 0 /\ k'.st[k'.curr] = "RUNNING"
      BY <2>3, <3>2 DEF TimedOut, Rescheduled, SameProcessor
    <3> QED BY <2>3, <3>1, <3>3, KernelAssumption DEF LockInv
  <2> QED BY <2>2, <2>3
<1>3. CASE InterruptReturn
  BY <1>3 DEF InterruptReturn, LockInv, Ages
<1> QED BY <1>1, <1>2, <1>3

\* Board initialisation and the start of the scheduler.
LEMMA BootKeepsLock ==
  ASSUME LockInv(k, pc, isr), Boot
  PROVE  LockInv(k', pc', isr')
<1>1. pc' = pc /\ isr' = isr /\ k.curr = NoThread /\ Orderly(k) /\ ~isr
  BY DEF Boot, StartBeforeBoot, StartScheduler, LockInv
<1>2. \A u \in Thread : ~Locks(pc, u)
  BY <1>1, KernelAssumption DEF LockInv
<1>3. k.nest = 0
  BY <1>2 DEF LockInv
<1>4. CASE \E t \in User : StartBeforeBoot(t)
  <2>1. PICK t \in User : k.st[t] = "INACTIVED" /\ k' = MakeReady(k, t)
    BY <1>4 DEF StartBeforeBoot, ThreadStartup
  <2>2. t \in Thread /\ Sound(k) /\ Distinct(k.tq)
    BY <1>1 DEF User, Orderly, Settled
  <2>3. Orderly(k') /\ SameProcessor(k, k')
    BY <1>1, <2>1, <2>2, MakeReadyOrderly, MakeReadyMoves
  <2> QED BY <1>1, <2>3 DEF LockInv, SameProcessor
<1>5. CASE StartScheduler
  <2>1. k' = KernelStartup(k)
    BY <1>5 DEF StartScheduler
  <2>2. /\ Orderly(k') /\ k'.curr \in Thread /\ k'.st[k'.curr] = "RUNNING"
        /\ k'.nest = k.nest
    BY <1>1, <2>1, KernelStartupOrderly
  <2> QED BY <1>1, <1>2, <1>3, <2>2, KernelAssumption DEF LockInv
<1> QED BY <1>4, <1>5 DEF Boot

\* RunModeSwitch leaves the threads as they are.
LEMMA RunSwitchAges ==
  ASSUME Orderly(k), k.curr \in Thread, NEW m, NEW votes, RunModeSwitch(m, votes)
  PROVE  Ages(k, k')
<1>1. k' = k \/ k' = Told(k, cond)
  BY DEF RunModeSwitch
<1> QED BY <1>1, ToldAges DEF Ages

\* A step of LPC_DeviceSuspend stays in it or is its last.
LEMMA SuspendGoes ==
  ASSUME pc \in [Thread -> AnyPc], DeviceSuspend
  PROVE  \E w \in {"suspend", "sleep"} : pc' = [pc EXCEPT ![Idle] = w]
<1>1. pc = [pc EXCEPT ![Idle] = pc[Idle]] /\ pc[Idle] = "suspend"
  BY DEF DeviceSuspend, IdleAt
<1> QED BY <1>1 DEF DeviceSuspend, Goto

\* The steps of the pass between locking and unlocking the scheduler.
LEMMA PassKeepsLock ==
  ASSUME LockInv(k, pc, isr), PassTypes,
         Pass /\ ~LockPass /\ ~UnlockPass
  PROVE  /\ LockInv(k', pc', isr') /\ Ages(k, k')
         /\ Executes(Idle) /\ pc[Idle] \in PassPc
<1>1. Executes(Idle) /\ pc[Idle] \in PassPc /\ isr' = isr
  BY DEF Pass, ReadMode, Plan, DeviceSuspend, Sleep, Again, ReadRun, Resume, SwitchRun,
         IdleAt, PassPc
<1>2. \E w \in PassPc : pc' = [pc EXCEPT ![Idle] = w]
  BY SuspendGoes DEF PassTypes, Pass, ReadMode, Plan, Sleep, Again, ReadRun, Resume, SwitchRun,
         Goto, PassPc
<1>3. Orderly(k) /\ k.curr = Idle /\ Idle \in Thread /\ pc[Idle] # "check"
  BY <1>1, KernelAssumption, Executing DEF PassPc
<1>4. k.st[k.curr] = "RUNNING" /\ k.nest # 0
  BY <1>1, <1>3, Executing DEF Locks
<1>5. Ages(k, k')
  <2>1. CASE Sleep
    <3>1. PICK d \in 0..MaxSleep : k' = CompensateTick(k, d)
      BY <2>1 DEF Sleep
    <3>2. d \in Nat
      BY LowPowerAssumption
    <3> QED BY <1>3, <1>4, <3>1, <3>2, CompensateAges
  <2>2. CASE Resume
    BY <1>3, <2>2, ToldAges DEF Resume
  <2>3. CASE SwitchRun
    BY <1>3, <2>3, RunSwitchAges DEF SwitchRun
  <2>4. CASE ~Sleep /\ ~Resume /\ ~SwitchRun
    <3>1. k' = k
      BY <2>4 DEF Pass, ReadMode, Plan, DeviceSuspend, Again, ReadRun
    <3> QED BY <1>3, <3>1 DEF Ages
  <2> QED BY <2>1, <2>2, <2>3, <2>4
<1> QED BY <1>1, <1>2, <1>5, PassGoes DEF PassTypes

\* What the work on the list leaves alone.
LEMMA RegisteringFrame ==
  ASSUME NEW t \in User, Registering(t)
  PROVE  /\ Executes(t) /\ pc[t] \in {"run"} \cup Linking
         /\ UNCHANGED <<k, isr, now, sleep, run, pass, walk, late, voted, wait>>
         /\ \E w \in {"run"} \cup Linking : pc' = [pc EXCEPT ![t] = w]
<1>1. At(t, "run") \/ \E w \in Linking : At(t, w)
  BY DEF Registering, Register, LinkBack, Publish, Wake, Unregister, UnlinkBack, Clear,
         MayLink, Linking
<1>2. ListOnly /\ \E w \in {"run"} \cup Linking : Goto(t, w)
  BY DEF Registering, Register, LinkBack, Publish, Wake, Unregister, UnlinkBack, Clear,
         Written, Linking
<1> QED BY <1>1, <1>2 DEF At, ListOnly, Goto

\* The calls of the threads.
LEMMA CallKeepsLock ==
  ASSUME LockInv(k, pc, isr), PassTypes, NEW t \in User, Step(t)
  PROVE  /\ LockInv(k', pc', isr')
         /\ Executes(t) /\ \A u \in Thread \ {t} : pc'[u] = pc[u] /\ ~Locks(pc, u)
<1>1. t \in Thread /\ t # Idle /\ pc \in [Thread -> AnyPc]
  BY DEF User, PassTypes
<1>2. /\ Executes(t) /\ isr' = isr
      /\ \A u \in Thread \ {t} : pc'[u] = pc[u]
  BY <1>1, RegisteringFrame DEF Step, ThreadVotes, Votes, VoteSleep, RunRequest, RunRelease,
     SleepDefault, SleepForce, ForceSuspend, SleepForceReturn, RunWait, Delay, Check, At, Goto
<1>3. /\ Orderly(k) /\ k.curr = t /\ ~isr
      /\ pc[t] # "check" => k.st[t] = "RUNNING"
      /\ k.nest = IF Locks(pc, t) THEN 1 ELSE 0
      /\ \A u \in Thread \ {t} : ~Locks(pc, u)
  BY <1>1, <1>2, Executing
<1>4. Locks(pc, t) <=> pc[t] = "force"
  BY <1>1 DEF Locks
<1>5. LockInv(k', pc', isr')
  <2>1. CASE SleepForce(t) \/ SleepForceReturn(t)
    <3>1. PICK w \in {"force", "run", "check"} :
            /\ pc' = [pc EXCEPT ![t] = w]
            /\ w = "force" <=> SleepForce(t)
            /\ pc[t] # "check"
      <4>1. ~(SleepForce(t) /\ SleepForceReturn(t))
        BY DEF SleepForce, ForceSuspend, SleepForceReturn, At
      <4> QED BY <2>1, <4>1 DEF SleepForce, ForceSuspend, SleepForceReturn, At, Goto
    <3>2. /\ SleepForce(t) => k' = LockAcquire(k) /\ k.nest = 0
          /\ SleepForceReturn(t) => k' = LockRelease(k) /\ k.nest = 1
      BY <1>3, <1>4 DEF SleepForce, ForceSuspend, SleepForceReturn, At
    <3>3. /\ Orderly(k') /\ SameThreads(k, k')
          /\ k'.nest = IF SleepForce(t) THEN 1 ELSE 0
      BY <1>3, <2>1, <3>2, LockOrderly
    <3>4. w \in Places(t) /\ pc'[t] = w
      BY <1>1, <3>1 DEF Places
    <3>5. Locks(pc', t) <=> SleepForce(t)
      BY <1>1, <3>1, <3>4 DEF Locks
    <3> QED BY <1>1, <1>2, <3>1, <3>3, <3>4, <3>5, LockGoes DEF SameThreads
  <2>2. CASE Delay(t)
    <3>1. PICK d \in Delays : k' = ThreadDelay(k, t, d)
      BY <2>2 DEF Delay
    <3>2. d \in Nat /\ pc[t] = "run" /\ pc' = [pc EXCEPT ![t] = "check"]
      BY <2>2, LowPowerAssumption, KernelAssumption DEF Delay, At, Goto
    <3>3. k.nest = 0 /\ k.st[t] = "RUNNING" /\ t \in Thread \ {Idle}
      BY <1>1, <1>3, <1>4, <3>2
    <3>4. Orderly(k') /\ SameProcessor(k, k') /\ k'.st[t] = "SUSPENDED"
      BY <1>3, <3>1, <3>2, <3>3, ThreadDelayOrderly
    <3>5. \A u \in Thread : pc'[u] = IF u = t THEN "check" ELSE pc[u]
      BY <1>1, <3>2
    <3>6. \A u \in Thread : ~Locks(pc', u) /\ pc'[u] \in Places(u)
      BY <1>1, <1>3, <1>4, <3>2, <3>5 DEF Locks, LockInv, Places
    <3> QED BY <1>1, <1>2, <1>3, <3>3, <3>4, <3>5, <3>6 DEF LockInv, SameProcessor
  <2>3. CASE Check(t)
    BY <1>1, <2>3, CheckKeepsLock
  <2>4. CASE RunWait(t)
    <3>1. k' = MutexAcquire(k, mutex, t, 0).k /\ pc' = pc
      BY <2>4 DEF RunWait
    <3>2. k' = k \/ k' = [k EXCEPT !.err[t] = "ETIMEOUT"]
      BY <3>1 DEF MutexAcquire
    <3>3. Ages(k, k')
      BY <1>1, <1>3, <3>2, TimeoutAges DEF Ages
    <3> QED BY <1>2, <1>3, <3>1, <3>3, LockFrame
  <2>5. CASE ThreadVotes(t)
    <3>1. pc' = pc
      BY <2>5 DEF ThreadVotes, Votes, VoteSleep, RunRequest, RunRelease
    <3>2. Ages(k, k')
      <4>1. k' = k \/ \E m \in RunVotes : RunRequest(m)
        BY <2>5 DEF ThreadVotes, Votes, VoteSleep, RunRelease
      <4> QED BY <1>1, <1>3, <4>1, RunSwitchAges DEF RunRequest, Ages
    <3> QED BY <1>2, <1>3, <3>1, <3>2, LockFrame
  <2>6. CASE SleepDefault(t) \/ ForceSuspend(t)
    <3>1. k' = k /\ pc' = pc /\ isr' = isr
      BY <2>6 DEF SleepDefault, ForceSuspend
    <3> QED BY <3>1
  <2>7. CASE Registering(t)
    <3>1. PICK w \in {"run"} \cup Linking : pc' = [pc EXCEPT ![t] = w]
      BY <2>7, RegisteringFrame
    <3>2. k' = k /\ isr' = isr /\ pc[t] \notin {"check", "force"}
      BY <2>7, RegisteringFrame DEF Linking
    <3>3. w \in Places(t) /\ w # "force"
      BY <1>1 DEF Places, Linking
    <3>4. pc'[t] = w /\ ~Locks(pc', t) /\ k.nest = 0
      BY <1>1, <1>3, <1>4, <3>1, <3>2, <3>3 DEF Locks
    <3> QED BY <1>1, <1>2, <1>3, <3>1, <3>2, <3>3, <3>4, LockGoes
  <2> QED BY <2>1, <2>2, <2>3, <2>4, <2>5, <2>6, <2>7 DEF Step
<1> QED BY <1>2, <1>3, <1>5

\* The votes of interrupts, which come at any step of the pass.
LEMMA VotesKeepLock ==
  ASSUME LockInv(k, pc, isr), InterruptVotes
  PROVE  LockInv(k', pc', isr') /\ Ages(k, k') /\ pc' = pc
<1>1. pc' = pc /\ isr' = isr
  BY DEF InterruptVotes, Votes, VoteSleep, RunRequest, RunRelease
<1>2. Orderly(k) /\ k.curr \in Thread
  BY DEF InterruptVotes, LockInv, Orderly, Sound, KernelState
<1>3. Ages(k, k')
  <2>1. k' = k \/ \E m \in RunVotes : RunRequest(m)
    BY DEF InterruptVotes, Votes, VoteSleep, RunRelease
  <2> QED BY <1>2, <2>1, RunSwitchAges DEF RunRequest, Ages
<1> QED BY <1>1, <1>2, <1>3, LockFrame, KernelAssumption

\* Who holds the lock, at every step.
LEMMA LockInvNext ==
  ASSUME LockInv(k, pc, isr), PassTypes, [Next]_vars
  PROVE  LockInv(k', pc', isr')
<1>1. Idle \in Thread /\ pc \in [Thread -> AnyPc]
  BY KernelAssumption DEF PassTypes
<1>2. CASE LockPass \/ UnlockPass
  <2>1. PICK w \in {"mode", "check", "idle"} :
          /\ pc' = [pc EXCEPT ![Idle] = w]
          /\ w = "mode" <=> LockPass
          /\ pc[Idle] # "check" /\ Executes(Idle) /\ isr' = isr
    <3>1. ~(LockPass /\ UnlockPass)
      BY DEF LockPass, UnlockPass, IdleAt
    <3> QED BY <1>2, <3>1 DEF LockPass, UnlockPass, IdleAt, Goto
  <2>2. Orderly(k) /\ k.nest = IF Locks(pc, Idle) THEN 1 ELSE 0
    BY <1>1, <2>1, Executing
  <2>3. /\ LockPass => k' = LockAcquire(k) /\ k.nest = 0
        /\ UnlockPass => k' = LockRelease(k) /\ k.nest = 1
    BY <2>2 DEF LockPass, UnlockPass, IdleAt, Locks, PassPc
  <2>4. /\ Orderly(k') /\ SameThreads(k, k')
        /\ k'.nest = IF LockPass THEN 1 ELSE 0
    BY <1>2, <2>2, <2>3, LockOrderly
  <2>5. w \in Places(Idle) /\ pc'[Idle] = w
    BY <1>1, <2>1 DEF Places, IdlePc
  <2>6. Locks(pc', Idle) <=> LockPass
    BY <2>1, <2>5 DEF Locks, PassPc
  <2> QED BY <1>1, <2>1, <2>4, <2>5, <2>6, LockGoes DEF SameThreads
<1>3. CASE Pass /\ ~LockPass /\ ~UnlockPass
  BY <1>3, PassKeepsLock
<1>4. CASE Tick \/ Interrupted
  BY <1>1, <1>4, TickKeepsLock DEF Tick, Interrupted
<1>5. CASE UNCHANGED vars
  BY <1>5 DEF vars
<1> QED BY <1>1, <1>2, <1>3, <1>4, <1>5, BootKeepsLock, CheckKeepsLock, VotesKeepLock,
           CallKeepsLock DEF Next

-----------------------------------------------------------------------------
(* Modes, votes and ticks                                                  *)

\* The mode that is looked for exists: among a set of modes one is lowest.
LEMMA LowestMode ==
  ASSUME NEW S \in SUBSET SleepMode, S # {}
  PROVE  (CHOOSE m \in S : \A n \in S : m <= n) \in SleepMode
<1>1. S \in SUBSET Nat
  BY DEF SleepMode
<1>2. \E m \in S : \A n \in S : m <= n
  BY <1>1, LeastNatural
<1> QED BY <1>2

\* And one is highest.
LEMMA HighestMode ==
  ASSUME NEW S \in SUBSET RunMode, S # {}
  PROVE  (CHOOSE m \in S : \A n \in S : m >= n) \in RunMode
<1> DEFINE U == {3 - m : m \in S}
<1>1. U \in SUBSET Nat /\ U # {}
  BY DEF RunMode
<1>2. PICK u \in U : \A n \in U : u <= n
  BY <1>1, LeastNatural
<1>3. PICK m \in S : u = 3 - m
  BY <1>2
<1>4. \A n \in S : m >= n
  <2> TAKE n \in S
  <2>1. 3 - n \in U /\ n \in 0..3 /\ m \in 0..3
    BY DEF RunMode
  <2>2. 3 - m <= 3 - n
    BY <1>2, <1>3, <2>1
  <2> QED BY <2>1, <2>2
<1> QED BY <1>3, <1>4

LEMMA ModeUpdates ==
  /\ \A s : s.default \in SleepMode => SleepModeUpdate(s) \in SleepMode
  /\ \A r : RunModeUpdate(r) \in RunMode
  /\ \A r, q : r.vote = q.vote => RunModeUpdate(r) = RunModeUpdate(q)
<1>1. ASSUME NEW s, s.default \in SleepMode PROVE SleepModeUpdate(s) \in SleepMode
  <2> DEFINE asked == {m \in SleepMode : m < s.default /\ s.vote[m] > 0}
  <2>1. asked # {} => (CHOOSE m \in asked : \A n \in asked : m <= n) \in SleepMode
    BY LowestMode
  <2> QED BY <1>1, <2>1 DEF SleepModeUpdate
<1>2. ASSUME NEW r PROVE RunModeUpdate(r) \in RunMode
  <2> DEFINE asked == {m \in RunMode : m > RunDefault /\ r.vote[m] > 0}
  <2>1. asked # {} => (CHOOSE m \in asked : \A n \in asked : m >= n) \in RunMode
    BY HighestMode
  <2>2. RunDefault \in RunMode
    BY LowPowerAssumption
  <2>3. RunModeUpdate(r) = IF asked = {} THEN RunDefault
                           ELSE CHOOSE m \in asked : \A n \in asked : m >= n
    BY DEF RunModeUpdate
  <2> HIDE DEF asked
  <2> QED BY <2>1, <2>2, <2>3
<1>3. ASSUME NEW r, NEW q, r.vote = q.vote PROVE RunModeUpdate(r) = RunModeUpdate(q)
  BY <1>3 DEF RunModeUpdate
<1> QED BY <1>1, <1>2, <1>3

\* The sleep tick is a number of ticks.
LEMMA SleepTickType ==
  ASSUME now \in Nat, k \in KernelState
  PROVE  GetSleepTick \in Nat
<1>1. PICK next : next = IF k.tq = <<>> THEN TickMod - 1
                         ELSE (now + k.left[Head(k.tq)]) % TickMod
  OBVIOUS
<1>2. next \in Int
  <2>1. CASE k.tq = <<>>
    BY <1>1, <2>1, LowPowerAssumption
  <2>2. CASE k.tq # <<>>
    <3>1. Head(k.tq) \in Thread
      BY <2>2, HeadTailProperties DEF KernelState
    <3>2. k.left[Head(k.tq)] \in Nat
      BY <3>1 DEF KernelState
    <3> QED BY <1>1, <2>2, <3>2, LowPowerAssumption
  <2> QED BY <2>1, <2>2
<1>3. GetSleepTick = IF PeekThread(k) = Idle /\ next > now THEN next - now ELSE 0
  BY <1>1 DEF GetSleepTick
<1> QED BY <1>2, <1>3

\* Votes are counted from 0.
LEMMA VoteTypes ==
  ASSUME NEW S, NEW votes \in [S -> Nat], NEW m
  PROVE  VoteUp(votes, m) \in [S -> Nat] /\ VoteDown(votes, m) \in [S -> Nat]
<1>1. ASSUME NEW i \in S PROVE votes[i] \in Nat /\ votes[i] + 1 \in Nat
  OBVIOUS
<1>2. ASSUME NEW i \in S, votes[i] > 0 PROVE votes[i] - 1 \in Nat
  BY <1>1, <1>2
<1> QED BY <1>1, <1>2 DEF VoteUp, VoteDown

\* The types of the variables of low power control.
LEMMA PassTypesNext ==
  ASSUME k \in KernelState, PassTypes, [Next]_vars
  PROVE  PassTypes'
<1>0. Idle \in Thread
  BY KernelAssumption
<1>1. pc' \in [Thread -> AnyPc]
  <2>1. CASE Pass
    <3>1. \E w \in IdlePc : pc' = [pc EXCEPT ![Idle] = w]
      BY <2>1, SuspendGoes DEF PassTypes, Pass, LockPass, ReadMode, Plan, Sleep, Again, ReadRun,
                               Resume, SwitchRun, UnlockPass, Goto, IdlePc
    <3> QED BY <3>1 DEF PassTypes, AnyPc
  <2>2. CASE \E t \in Thread : Check(t)
    <3>1. \E t \in Thread : \E w \in {"idle", "run"} : pc' = [pc EXCEPT ![t] = w]
      BY <2>2 DEF Check, Goto
    <3> QED BY <3>1 DEF PassTypes, AnyPc, IdlePc
  <2>3. CASE \E t \in User : Step(t) /\ ~Check(t)
    <3>1. PICK t \in User : Step(t) /\ ~Check(t)
      BY <2>3
    <3>2. pc' = pc \/ \E w \in {"run", "force", "check"} \cup Linking : pc' = [pc EXCEPT ![t] = w]
      BY <3>1, RegisteringFrame DEF Step, ThreadVotes, Votes, VoteSleep, RunRequest, RunRelease,
         SleepDefault, SleepForce, ForceSuspend, SleepForceReturn, RunWait, Delay, Goto
    <3> QED BY <3>2 DEF PassTypes, AnyPc, IdlePc
  <2>4. CASE Boot \/ Tick \/ Interrupted \/ InterruptVotes \/ UNCHANGED vars
    BY <2>4 DEF Boot, Tick, Interrupted, InterruptVotes, Votes, VoteSleep, RunRequest,
                RunRelease, vars, PassTypes
  <2> QED BY <1>0, <2>1, <2>2, <2>3, <2>4 DEF Next, User
<1>2. now' \in Nat
  <2>1. CASE Sleep
    <3>1. PICK d \in 0..MaxSleep : now' = (now + d) % TickMod
      BY <2>1 DEF Sleep
    <3> QED BY <3>1, LowPowerAssumption DEF PassTypes
  <2>2. CASE Tick
    BY <2>2, LowPowerAssumption DEF Tick, PassTypes
  <2>3. CASE ~Sleep /\ ~Tick
    <3>1. now' = now
      BY <2>3, RegisteringFrame DEF Next, Boot, Pass, LockPass, ReadMode, Plan, DeviceSuspend,
         Again, ReadRun, Resume, SwitchRun, UnlockPass, Check, Interrupted, InterruptVotes,
         Votes, VoteSleep, RunRequest, RunRelease, Step, ThreadVotes, SleepDefault, SleepForce,
         ForceSuspend, SleepForceReturn, RunWait, Delay, vars
    <3> QED BY <3>1 DEF PassTypes
  <2> QED BY <2>1, <2>2, <2>3
<1>3. sleep' \in [default : SleepMode, vote : [SleepMode -> Nat]]
  <2>1. CASE \E m \in SleepVotes : VoteSleep(m)
    <3>1. PICK votes :
            /\ \E m : votes = VoteUp(sleep.vote, m) \/ votes = VoteDown(sleep.vote, m)
            /\ sleep' = [sleep EXCEPT !.vote = votes]
      BY <2>1 DEF VoteSleep, PassTypes
    <3>2. votes \in [SleepMode -> Nat]
      BY <3>1, VoteTypes DEF PassTypes
    <3> QED BY <3>1, <3>2 DEF PassTypes
  <2>2. CASE \E t \in User : SleepDefault(t)
    <3>1. PICK m \in SleepDefaults : sleep' = [sleep EXCEPT !.default = m]
      BY <2>2 DEF SleepDefault
    <3> QED BY <3>1, LowPowerAssumption DEF PassTypes
  <2>3. CASE ~(\E m \in SleepVotes : VoteSleep(m)) /\ ~(\E t \in User : SleepDefault(t))
    <3>1. sleep' = sleep
      BY <2>3, RegisteringFrame DEF Next, Boot, Pass, LockPass, ReadMode, Plan, DeviceSuspend,
         Sleep, Again, ReadRun, Resume, SwitchRun, UnlockPass, Check, Tick, Interrupted,
         InterruptVotes, Votes, RunRequest, RunRelease, Step, ThreadVotes, SleepForce,
         ForceSuspend, SleepForceReturn, RunWait, Delay, vars
    <3> QED BY <3>1 DEF PassTypes
  <2> QED BY <2>1, <2>2, <2>3
<1>4. ASSUME NEW m \in RunMode, NEW votes \in [RunMode -> Nat], RunModeSwitch(m, votes)
      PROVE  run' \in [mode : RunMode, vote : [RunMode -> Nat]]
  BY <1>4 DEF RunModeSwitch, PassTypes
<1>5. run' \in [mode : RunMode, vote : [RunMode -> Nat]]
  <2>1. CASE \E m \in RunVotes : RunRequest(m)
    <3>1. PICK votes :
            /\ \E m : votes = VoteUp(run.vote, m)
            /\ RunModeSwitch(RunModeUpdate([run EXCEPT !.vote = votes]), votes)
      BY <2>1 DEF RunRequest
    <3>2. votes \in [RunMode -> Nat]
      BY <3>1, VoteTypes DEF PassTypes
    <3> QED BY <1>4, <3>1, <3>2, ModeUpdates
  <2>2. CASE \E m \in RunVotes : RunRelease(m)
    <3>1. PICK votes :
            (\E m : votes = VoteDown(run.vote, m)) /\ run' = [run EXCEPT !.vote = votes]
      BY <2>2 DEF RunRelease, PassTypes
    <3>2. votes \in [RunMode -> Nat]
      BY <3>1, VoteTypes DEF PassTypes
    <3> QED BY <3>1, <3>2 DEF PassTypes
  <2>3. CASE SwitchRun
    BY <1>4, <2>3 DEF SwitchRun, PassTypes, PassType
  <2>4. CASE Resume
    BY <2>4 DEF Resume, PassTypes, PassType
  <2>5. CASE /\ ~(\E m \in RunVotes : RunRequest(m) \/ RunRelease(m))
             /\ ~SwitchRun /\ ~Resume
    <3>1. run' = run
      BY <2>5, RegisteringFrame DEF Next, Boot, Pass, LockPass, ReadMode, Plan, DeviceSuspend,
         Sleep, Again, ReadRun, UnlockPass, Check, Tick, Interrupted, InterruptVotes, Votes,
         VoteSleep, Step, ThreadVotes, SleepDefault, SleepForce, ForceSuspend, SleepForceReturn,
         RunWait, Delay, vars
    <3> QED BY <3>1 DEF PassTypes
  <2> QED BY <2>1, <2>2, <2>3, <2>4, <2>5
<1>6. pass' \in PassType
  <2>0. GetSleepTick \in Nat /\ NoPass \in PassType
    BY SleepTickType, LowPowerAssumption DEF PassTypes, NoPass, SleepMode, SleepIdle, PassType
  <2>1. CASE ReadMode
    <3>1. SleepModeUpdate(sleep) \in SleepMode
      BY ModeUpdates DEF PassTypes
    <3> QED BY <2>0, <2>1, <3>1 DEF ReadMode, PassType
  <2>2. CASE Plan
    <3>1. PICK m : /\ pass' = [pass EXCEPT !.mode = m, !.plan = GetSleepTick, !.tick = GetSleepTick]
                   /\ m = 0 \/ m = pass.mode
      BY <2>2 DEF Plan, SleepIdle, PassTypes
    <3>2. m \in SleepMode
      BY <3>1 DEF PassTypes, SleepMode, PassType
    <3> QED BY <2>0, <3>1, <3>2 DEF PassTypes, PassType
  <2>3. CASE Sleep
    <3>1. PICK d \in 0..MaxSleep : pass' = [pass EXCEPT !.real = @ + d, !.tick = d]
      BY <2>3 DEF Sleep
    <3>2. d \in Nat /\ pass.real + d \in Nat
      BY <3>1, LowPowerAssumption DEF PassTypes, PassType
    <3> QED BY <3>1, <3>2 DEF PassTypes, PassType
  <2>4. CASE Again
    <3>1. pass' = pass \/ pass' = [pass EXCEPT !.tick = GetSleepTick]
      BY <2>4 DEF Again
    <3> QED BY <2>0, <3>1 DEF PassTypes, PassType
  <2>5. CASE \E where, next : ReadRun(where, next)
    <3>1. pass' = [pass EXCEPT !.run = RunModeUpdate(run)]
      BY <2>5 DEF ReadRun
    <3> QED BY <3>1, ModeUpdates DEF PassTypes, PassType
  <2>6. CASE UnlockPass
    BY <2>0, <2>6 DEF UnlockPass
  <2>7. CASE ~ReadMode /\ ~Plan /\ ~Sleep /\ ~Again /\ ~UnlockPass
             /\ ~(\E where, next : ReadRun(where, next))
    <3>1. pass' = pass
      BY <2>7, RegisteringFrame DEF Next, Boot, Pass, LockPass, DeviceSuspend, Resume,
         SwitchRun, Check, Tick, Interrupted, InterruptVotes, Votes, VoteSleep, RunRequest,
         RunRelease, Step, ThreadVotes, SleepDefault, SleepForce, ForceSuspend,
         SleepForceReturn, RunWait, Delay, vars
    <3> QED BY <3>1 DEF PassTypes
  <2> QED BY <2>1, <2>2, <2>3, <2>4, <2>5, <2>6, <2>7
<1> QED BY <1>1, <1>2, <1>3, <1>5, <1>6 DEF PassTypes

-----------------------------------------------------------------------------
(* The sleeps and the votes                                                *)

\* What the steps outside the pass leave of it.
LEMMA OutsidePass ==
  ASSUME LowPowerInv, [Next]_vars, ~Pass
  PROVE  /\ pass' = pass /\ late' = late
         /\ \/ pc'[Idle] = pc[Idle]
            \/ pc[Idle] = "check" /\ pc'[Idle] = "idle"
         /\ pc[Idle] \in PassPc /\ k.mask # {} => k'.mask # {}
         /\ (\E t \in User : Step(t)) => pc[Idle] \notin PassPc
<1>0. Idle \in Thread /\ pc \in [Thread -> AnyPc]
  BY KernelAssumption DEF LowPowerInv, PassTypes
<1>1. pass' = pass /\ late' = late
  BY RegisteringFrame DEF Next, Boot, Check, Tick, Interrupted, InterruptVotes, Votes,
     VoteSleep, RunRequest, RunRelease, Step, ThreadVotes, SleepDefault, SleepForce,
     ForceSuspend, SleepForceReturn, RunWait, Delay, vars
<1>2. ASSUME NEW t \in User, Step(t)
      PROVE  pc'[Idle] = pc[Idle] /\ pc[Idle] \notin PassPc
  <2>1. \A u \in Thread \ {t} : pc'[u] = pc[u] /\ ~Locks(pc, u)
    BY <1>2, CallKeepsLock DEF LowPowerInv
  <2> QED BY <1>0, <2>1 DEF User, Locks
<1>3. CASE \E t \in User : Step(t)
  BY <1>1, <1>2, <1>3
<1>4. CASE Check(Idle)
  <2>1. pc[Idle] = "check" /\ pc'[Idle] = "idle"
    BY <1>0, <1>4 DEF Check, Goto
  <2> QED BY <1>1, <1>2, <2>1 DEF PassPc
<1>5. CASE Boot
  <2>1. pc' = pc /\ k.curr = NoThread
    BY <1>5 DEF Boot, StartBeforeBoot, StartScheduler
  <2>2. pc[Idle] \notin PassPc
    BY <1>0, <2>1, KernelAssumption DEF LowPowerInv, LockInv, Locks
  <2> QED BY <1>1, <2>1, <2>2
<1>6. CASE Tick \/ Interrupted
  <2>1. pc' = pc /\ (TickInterrupt \/ TimerInterrupt \/ InterruptReturn)
    BY <1>6 DEF Tick, Interrupted
  <2>2. k.nest # 0 => Ages(k, k')
    BY <1>0, <2>1, TickKeepsLock DEF LowPowerInv
  <2>3. pc[Idle] \in PassPc => k.nest = 1
    BY <1>0 DEF LowPowerInv, LockInv, Locks
  <2>4. ~(\E t \in User : Step(t)) \/ (\E t \in User : Step(t))
    OBVIOUS
  <2> QED BY <1>1, <1>2, <2>1, <2>2, <2>3 DEF Ages
<1>7. CASE InterruptVotes
  <2>1. Ages(k, k') /\ pc' = pc
    BY <1>7, VotesKeepLock DEF LowPowerInv
  <2> QED BY <1>1, <1>2, <2>1 DEF Ages
<1>8. CASE UNCHANGED vars
  BY <1>1, <1>2, <1>8 DEF vars
<1> QED BY <1>3, <1>4, <1>5, <1>6, <1>7, <1>8 DEF Next

\* A thread that is ready shortens the sleep to nothing.
LEMMA ReadyStopsSleep ==
  ASSUME LowPowerInv, k.mask # {}
  PROVE  GetSleepTick = 0
<1>1. Sound(k) /\ Ranked(k, Idle) /\ Prio \subseteq Lists
  BY KernelAssumption DEF LowPowerInv, LockInv, Orderly, Settled, Lists
<1>2. ~OnReadyLevel(k, Idle)
  BY <1>1 DEF Ranked, OnReadyLevel
<1>3. OnReadyLevel(k, PeekThread(k))
  BY <1>1, PeekThreadProperties
<1> QED BY <1>2, <1>3 DEF GetSleepTick

\* The sleeps that begin with a thread ready, at every step.
LEMMA LateInvNext ==
  ASSUME LowPowerInv, [Next]_vars
  PROVE  LateInv'
<1>0. /\ Idle \in Thread /\ pc \in [Thread -> AnyPc] /\ LateInv /\ PassTypes
  BY KernelAssumption DEF LowPowerInv, PassTypes
<1>1. CASE Sleep
  <2>1. /\ pc[Idle] = "sleep" /\ pc'[Idle] = "again" /\ late = 0
        /\ late' = IF pass.tick > 0 /\ PeekThread(k) # Idle THEN late + 1 ELSE late
    BY <1>0, <1>1 DEF Sleep, IdleAt, Goto, LateInv
  <2>2. Ages(k, k')
    <3>1. Pass /\ ~LockPass /\ ~UnlockPass
      BY <1>1 DEF Pass, LockPass, UnlockPass, Sleep, IdleAt
    <3> QED BY <1>0, <3>1, PassKeepsLock DEF LowPowerInv
  <2>3. late' = 1 => k.mask # {}
    BY <2>1 DEF PeekThread
  <2> QED BY <2>1, <2>2, <2>3 DEF LateInv, Ages
<1>2. CASE Again
  <2>1. pc[Idle] = "again" /\ late' = late
    BY <1>2 DEF Again, IdleAt
  <2>2. CASE late = 0
    <3>1. pc'[Idle] \in {"run", "sleep"}
      BY <1>0, <1>2 DEF Again, Goto
    <3> QED BY <2>1, <2>2, <3>1 DEF LateInv
  <2>3. CASE late = 1
    <3>1. GetSleepTick = 0
      BY <1>0, <2>1, <2>3, ReadyStopsSleep DEF LateInv
    <3>2. pc'[Idle] = "run"
      BY <1>0, <1>2, <3>1 DEF Again, Goto
    <3> QED BY <2>1, <2>3, <3>2 DEF LateInv
  <2> QED BY <1>0, <2>2, <2>3 DEF LateInv
<1>3. CASE UnlockPass
  <2>1. late' = 0 /\ pc'[Idle] \in {"check", "idle"}
    BY <1>0, <1>3 DEF UnlockPass, Goto
  <2> QED BY <2>1 DEF LateInv
<1>4. CASE Pass /\ ~Sleep /\ ~Again /\ ~UnlockPass
  <2>1. late' = late
    BY <1>4 DEF Pass, LockPass, ReadMode, Plan, DeviceSuspend, ReadRun, Resume, SwitchRun
  <2>2. \/ /\ pc[Idle] \in {"idle", "mode", "plan", "suspend"}
           /\ pc'[Idle] \in {"mode", "plan", "suspend", "sleep"}
        \/ pc'[Idle] \in {"resume", "switch", "switchto", "unlock"}
    BY <1>0, <1>4 DEF Pass, LockPass, ReadMode, Plan, DeviceSuspend, ReadRun, Resume,
                      SwitchRun, IdleAt, Goto
  <2> QED BY <1>0, <2>1, <2>2 DEF LateInv
<1>5. CASE ~Pass
  <2>1. /\ late' = late
        /\ pc'[Idle] = pc[Idle] \/ (pc[Idle] = "check" /\ pc'[Idle] = "idle")
        /\ pc[Idle] \in PassPc /\ k.mask # {} => k'.mask # {}
    BY <1>5, OutsidePass
  <2>2. pc[Idle] = "again" /\ k.mask # {} => k'.mask # {}
    BY <2>1 DEF PassPc
  <2> QED BY <1>0, <2>1, <2>2 DEF LateInv
<1> QED BY <1>1, <1>2, <1>3, <1>4, <1>5

\* The votes for the run mode, at every step.
LEMMA VoteInvNext ==
  ASSUME LowPowerInv, [Next]_vars
  PROVE  VoteInv'
<1>0. /\ Idle \in Thread /\ pc \in [Thread -> AnyPc] /\ VoteInv
      /\ pass \in PassType
      /\ run \in [mode : RunMode, vote : [RunMode -> Nat]]
  BY KernelAssumption DEF LowPowerInv, PassTypes
<1>1. CASE ReadRun("switch", "switchto")
  <2>1. pc'[Idle] = "switchto" /\ pass'.run = RunModeUpdate(run) /\ run' = run
    BY <1>0, <1>1 DEF ReadRun, Goto
  <2> QED BY <2>1 DEF VoteInv, VoteHonoured
<1>2. CASE SwitchRun
  <2>1. /\ pc[Idle] = "switchto" /\ pc'[Idle] = "unlock" /\ voted' = voted
        /\ RunModeSwitch(pass.run, run.vote)
    BY <1>0, <1>2 DEF SwitchRun, IdleAt, Goto
  <2>2. run'.vote = run.vote /\ (pass.run # RunLock => run'.mode = pass.run)
    BY <1>0, <2>1 DEF RunModeSwitch, SwitchesTo
  <2>3. RunModeUpdate(run') = RunModeUpdate(run)
    BY <2>2, ModeUpdates
  <2> QED BY <1>0, <2>1, <2>2, <2>3 DEF VoteInv, VoteHonoured
<1>3. CASE Pass /\ ~ReadRun("switch", "switchto") /\ ~SwitchRun
  <2>1. pc'[Idle] \notin {"switchto", "unlock"}
    BY <1>0, <1>3, SuspendGoes DEF Pass, LockPass, ReadMode, Plan, Sleep, Again, ReadRun,
                                   Resume, UnlockPass, Goto
  <2> QED BY <2>1 DEF VoteInv, VoteHonoured
<1>4. CASE ~Pass
  <2>1. /\ pass' = pass
        /\ pc'[Idle] = pc[Idle] \/ (pc[Idle] = "check" /\ pc'[Idle] = "idle")
        /\ (\E t \in User : Step(t)) => pc[Idle] \notin PassPc
    BY <1>4, OutsidePass
  <2>2. CASE run' = run /\ voted' = voted
    BY <1>0, <2>1, <2>2 DEF VoteInv, VoteHonoured
  <2>3. CASE \E t \in User : Step(t)
    <3>1. pc'[Idle] \notin {"switchto", "unlock"}
      BY <2>1, <2>3 DEF PassPc
    <3> QED BY <3>1 DEF VoteInv, VoteHonoured
  <2>4. CASE InterruptVotes
    <3>1. voted' = TRUE
      BY <2>4 DEF InterruptVotes
    <3> QED BY <3>1 DEF VoteInv, VoteHonoured
  <2>5. \/ run' = run /\ voted' = voted
        \/ \E t \in User : Step(t)
        \/ InterruptVotes
    BY <1>4 DEF Next, Boot, Check, Tick, Interrupted, vars
  <2> QED BY <2>2, <2>3, <2>4, <2>5
<1> QED BY <1>1, <1>2, <1>3, <1>4

\* The system before the scheduler runs.
LEMMA LowPowerInvInit == Init => LowPowerInv
<1> SUFFICES ASSUME Init PROVE LowPowerInv
  OBVIOUS
<1>1. PICK p \in [User -> Prio] :
        k = KernelInit([t \in Thread |-> IF t = Idle THEN PrioMax ELSE p[t]])
  BY DEF Init, ProcessorInit
<1>2. /\ Idle \in Thread /\ pc = [t \in Thread |-> IF t = Idle THEN "idle" ELSE "run"]
      /\ isr = FALSE
  BY KernelAssumption DEF Init, ProcessorInit
<1>3. PICK q : q = [t \in Thread |-> IF t = Idle THEN PrioMax ELSE p[t]]
  OBVIOUS
<1>4. q \in [Thread -> Level] /\ q[Idle] = PrioMax /\ \A t \in Thread \ {Idle} : q[t] \in Prio
  BY <1>2, <1>3, KernelAssumption DEF User, Level, Prio
<1>5. Orderly(k) /\ k.nest = 0 /\ k.curr = NoThread
  BY <1>1, <1>3, <1>4, KernelInitOrderly
<1>6. LockInv(k, pc, isr)
  <2>1. \A t \in Thread : pc[t] \in Places(t) /\ ~Locks(pc, t)
    BY <1>2 DEF Places, Locks, IdlePc, PassPc
  <2> QED BY <1>2, <1>5, <2>1 DEF LockInv
<1>7. PassTypes
  <2>1. now \in Nat /\ pc \in [Thread -> AnyPc]
    BY <1>2, LowPowerAssumption DEF Init, AnyPc, IdlePc, Linking
  <2>2. sleep \in [default : SleepMode, vote : [SleepMode -> Nat]]
    BY LowPowerAssumption DEF Init
  <2>3. run \in [mode : RunMode, vote : [RunMode -> Nat]]
    BY DEF Init, RunMode
  <2>4. pass \in PassType
    BY LowPowerAssumption DEF Init, NoPass, SleepMode, SleepIdle, PassType
  <2> QED BY <2>1, <2>2, <2>3, <2>4 DEF PassTypes
<1>8. LateInv /\ VoteInv
  BY <1>2 DEF Init, LateInv, VoteInv, VoteHonoured
<1> QED BY <1>6, <1>7, <1>8 DEF LowPowerInv

LEMMA LowPowerInvNext ==
  ASSUME LowPowerInv, [Next]_vars
  PROVE  LowPowerInv'
<1>1. LockInv(k', pc', isr')
  BY LockInvNext DEF LowPowerInv
<1>2. PassTypes'
  BY PassTypesNext DEF LowPowerInv, LockInv, Orderly, Sound
<1> QED BY <1>1, <1>2, LateInvNext, VoteInvNext DEF LowPowerInv

\* The lock of the scheduler is taken by one thread at a time and given back
\* by the thread that took it; every list and timer of the kernel stays in
\* order while the clock jumps and interrupts vote (MDS_IdleLowPowerControl,
\* MDS_LPC_SleepModeForce).
THEOREM PassHoldsLock == Spec => []LowPowerInv
<1>1. LowPowerInv /\ [Next]_vars => LowPowerInv'
  BY LowPowerInvNext
<1> QED BY <1>1, LowPowerInvInit, PTL DEF Spec

\* A thread that becomes ready between the plan of a sleep and its begin waits
\* for one sleep of the board at most, whatever the lengths of the sleeps: the
\* loop of LPC_SleepModeSwitch asks for the ticks again.
THEOREM OversleepBounded == Spec => []BoundedOversleep
<1>1. LowPowerInv => BoundedOversleep
  BY DEF LowPowerInv, LateInv, BoundedOversleep
<1> QED BY <1>1, PassHoldsLock, PTL

\* The run mode a pass leaves is the one voted for when it last read the
\* votes, whatever was voted before: LPC_RunModeSwitch after the resume.
THEOREM VotesHonoured == Spec => []VoteHonoured
<1>1. LowPowerInv => VoteHonoured
  BY DEF LowPowerInv, VoteInv
<1> QED BY <1>1, PassHoldsLock, PTL

-----------------------------------------------------------------------------
(* The list of devices                                                     *)

LEMMA Nodes == DevList \in Node /\ Device \subseteq Node /\ DevList \notin Device
BY LowPowerAssumption DEF Node

\* The way along prev from the list is the least set that is not left.
LEMMA BackLeast ==
  ASSUME NEW l, NEW S \in SUBSET Node, DevList \in S, \A x \in S : l.prev[x] \in S
  PROVE  Back(l) \subseteq S
BY DEF Back

\* The way along prev starts at the list and is not left.
LEMMA BackCloses ==
  ASSUME NEW l
  PROVE  /\ DevList \in Back(l) /\ Back(l) \subseteq Node
         /\ \A x \in Back(l) : l.prev[x] \in Node => l.prev[x] \in Back(l)
<1>1. DevList \in Back(l) /\ Back(l) \subseteq Node
  BY Nodes DEF Back
<1>2. ASSUME NEW x \in Back(l), l.prev[x] \in Node,
             NEW S \in SUBSET Node, DevList \in S, \A y \in S : l.prev[y] \in S
      PROVE  l.prev[x] \in S
  BY <1>2, BackLeast
<1>3. ASSUME NEW x \in Back(l), l.prev[x] \in Node PROVE l.prev[x] \in Back(l)
  BY <1>2, <1>3 DEF Back
<1> QED BY <1>1, <1>3

\* What is written along next leaves it as it is.
LEMMA BackSame ==
  ASSUME NEW l, NEW n, n.prev = l.prev
  PROVE  Back(n) = Back(l)
BY DEF Back

\* And so do the pointers of a node that is not on it.
LEMMA BackApart ==
  ASSUME NEW l \in Links, NEW n \in Links, NEW d \in Device, d \notin Back(l),
         \A x \in Node \ {d} : n.prev[x] = l.prev[x] /\ n.next[x] = l.next[x]
  PROVE  Back(n) = Back(l) /\ (Ring(l, Back(l)) => Ring(n, Back(n)))
<1>1. /\ DevList \in Back(l) /\ Back(l) \subseteq Node
      /\ \A x \in Back(l) : l.prev[x] \in Back(l) /\ x # d
  BY BackCloses DEF Links
<1>2. /\ DevList \in Back(n) /\ Back(n) \subseteq Node
      /\ \A x \in Back(n) : n.prev[x] \in Back(n)
  BY BackCloses DEF Links
<1>3. \A x \in Back(l) : n.prev[x] \in Back(l)
  BY <1>1
<1>4. Back(n) \subseteq Back(l)
  BY <1>1, <1>3, BackLeast
<1>5. \A x \in Back(n) : l.prev[x] \in Back(n)
  BY <1>1, <1>2, <1>4
<1>6. Back(l) \subseteq Back(n)
  BY <1>2, <1>5, BackLeast
<1>7. Back(n) = Back(l)
  BY <1>4, <1>6
<1>8. ASSUME Ring(l, Back(l)) PROVE Ring(n, Back(l))
  <2> SUFFICES ASSUME NEW x \in Back(l)
               PROVE  /\ n.next[x] \in Back(l) /\ n.prev[n.next[x]] = x
                      /\ n.prev[x] \in Back(l) /\ n.next[n.prev[x]] = x
    BY DEF Ring
  <2>1. x \in Node \ {d} /\ l.next[x] \in Node \ {d} /\ l.prev[x] \in Node \ {d}
    BY <1>1, <1>8 DEF Ring
  <2>2. n.next[x] = l.next[x] /\ n.prev[x] = l.prev[x]
    BY <2>1
  <2>3. n.prev[l.next[x]] = l.prev[l.next[x]] /\ n.next[l.prev[x]] = l.next[l.prev[x]]
    BY <2>1
  <2> QED BY <1>8, <2>2, <2>3 DEF Ring
<1> QED BY <1>7, <1>8

\* A device that is linked does not point to itself.
LEMMA LinkedPoints ==
  ASSUME NEW l \in Links, Ring(l, Back(l)), NEW d \in Device, d \in Back(l)
  PROVE  l.next[d] # d
<1> SUFFICES ASSUME l.next[d] = d PROVE FALSE
  OBVIOUS
<1>1. \A x \in Back(l) \ {d} : l.prev[x] \in Back(l) \ {d}
  BY DEF Ring
<1>2. DevList \in Back(l) \ {d} /\ Back(l) \ {d} \in SUBSET Node
  BY BackCloses, Nodes
<1> QED BY <1>1, <1>2, BackLeast

\* MDS_LPC_DeviceRegister writes the two pointers of the new node.
LEMMA RegisterKeepsList ==
  ASSUME NEW l \in Links, ListAt(l, "run", DevList), NEW d \in Device, l.next[d] = d,
         NEW n, n = [l EXCEPT !.prev[d] = DevList, !.next[d] = l.next[DevList]]
  PROVE  n \in Links /\ ListAt(n, "link", d)
<1>1. d \in Node /\ d # DevList /\ l.next[DevList] \in Node /\ DevList \in Node
  BY Nodes DEF Links
<1>2. /\ n \in Links /\ n.prev[d] = DevList /\ n.next[d] = l.next[DevList]
      /\ \A x \in Node \ {d} : n.prev[x] = l.prev[x] /\ n.next[x] = l.next[x]
  BY <1>1 DEF Links
<1>3. Ring(l, Back(l)) /\ \A x \in Node \ Back(l) : x # DevList => l.next[x] = x
  BY DEF ListAt
<1>4. d \notin Back(l)
  BY <1>3, LinkedPoints
<1>5. Back(n) = Back(l) /\ Ring(n, Back(n))
  BY <1>2, <1>3, <1>4, BackApart
<1>6. \A x \in Node \ Back(n) : x # d => n.next[x] = x
  BY <1>2, <1>3, <1>5, BackCloses
<1>7. n.next[d] = n.next[DevList]
  BY <1>1, <1>2
<1> QED BY <1>2, <1>4, <1>5, <1>6, <1>7 DEF ListAt

\* The node that was first points back to the new one.
LEMMA LinkBackKeepsList ==
  ASSUME NEW l \in Links, NEW d \in Device, ListAt(l, "link", d),
         NEW n, n = [l EXCEPT !.prev[l.next[DevList]] = d]
  PROVE  n \in Links /\ ListAt(n, "publish", d)
<1> DEFINE q == l.next[DevList]
<1>1. /\ Ring(l, Back(l)) /\ d \notin Back(l) /\ l.prev[d] = DevList /\ l.next[d] = q
      /\ \A x \in Node \ Back(l) : x # d => l.next[x] = x
  BY DEF ListAt
<1>2. /\ DevList \in Back(l) /\ Back(l) \subseteq Node /\ d \in Node
      /\ DevList # d /\ DevList \in Node
  BY BackCloses, Nodes
<1>3. q \in Back(l) /\ l.prev[q] = DevList /\ q # d /\ q \in Node
  BY <1>1, <1>2 DEF Ring
<1>4. /\ n \in Links /\ n.next = l.next /\ n.prev[q] = d
      /\ \A x \in Node \ {q} : n.prev[x] = l.prev[x]
  BY <1>2, <1>3 DEF Links
<1> HIDE DEF q
<1>5. Back(n) = Back(l) \cup {d}
  <2>1. \A x \in Back(l) \cup {d} : n.prev[x] \in Back(l) \cup {d}
    BY <1>1, <1>2, <1>3, <1>4 DEF Ring
  <2>2. Back(n) \subseteq Back(l) \cup {d}
    BY <1>2, <2>1, BackLeast
  <2>3. /\ DevList \in Back(n) /\ Back(n) \subseteq Node
        /\ \A x \in Back(n) : n.prev[x] \in Back(n)
    BY <1>4, BackCloses DEF Links
  <2>4. \A x \in Back(n) : l.prev[x] \in Back(n)
    BY <1>3, <1>4, <2>3
  <2>5. Back(l) \subseteq Back(n)
    BY <2>3, <2>4, BackLeast
  <2>6. d \in Back(n)
    BY <1>3, <1>4, <2>3, <2>5
  <2> QED BY <2>2, <2>5, <2>6
<1>6. n.prev[d] = DevList /\ n.next[d] = q /\ n.next[DevList] = q
  BY <1>1, <1>2, <1>3, <1>4 DEF q
<1>7. PICK m : m = Without(n, d)
  OBVIOUS
<1>8. m.next = l.next /\ \A x \in Node : m.prev[x] = l.prev[x]
  BY <1>3, <1>4, <1>6, <1>7 DEF Without, Links
<1>9. Ring(m, Back(l)) /\ Back(l) = Back(n) \ {d}
  BY <1>1, <1>2, <1>5, <1>8 DEF Ring
<1>10. Half(n, d)
  BY <1>2, <1>3, <1>4, <1>5, <1>6, <1>7, <1>9 DEF Half
<1>11. \A x \in Node \ Back(n) : x # d => n.next[x] = x
  BY <1>1, <1>4, <1>5
<1> QED BY <1>4, <1>6, <1>10, <1>11 DEF ListAt

\* The list points to the new device, which is now on both ways.
LEMMA PublishKeepsList ==
  ASSUME NEW l \in Links, NEW d \in Device, ListAt(l, "publish", d),
         NEW n, n = [l EXCEPT !.next[DevList] = d]
  PROVE  n \in Links /\ ListAt(n, "wake", d)
<1> DEFINE q == l.next[d]
           K == Back(l) \ {d}
<1>1. /\ Half(l, d) /\ l.prev[d] = DevList
      /\ \A x \in Node \ Back(l) : x # d => l.next[x] = x
  BY DEF ListAt
<1>2. /\ DevList \in Back(l) /\ Back(l) \subseteq Node /\ d \in Node
      /\ DevList # d /\ DevList \in Node
  BY BackCloses, Nodes
<1>3. /\ n \in Links /\ n.prev = l.prev /\ n.next[DevList] = d
      /\ \A x \in Node \ {DevList} : n.next[x] = l.next[x]
  BY <1>2 DEF Links
<1>4. Back(n) = Back(l)
  BY <1>3, BackSame
<1>5. PICK m : m = Without(l, d)
  OBVIOUS
<1>6. /\ d \in Back(l) /\ q \in K /\ l.prev[q] = d /\ l.next[DevList] = q /\ DevList \in K
      /\ Ring(m, K)
  BY <1>1, <1>2, <1>5 DEF Half
<1>7. /\ m.next = l.next /\ m.prev[q] = DevList
      /\ \A x \in Node \ {q} : m.prev[x] = l.prev[x]
  BY <1>1, <1>2, <1>5, <1>6 DEF Without, Links
<1>8. K \subseteq Node \ {d} /\ Back(n) = K \cup {d} /\ n.next[d] = q
  BY <1>2, <1>3, <1>4, <1>6
<1> HIDE DEF q, K
<1>9. Ring(n, K \cup {d})
  <2>1. ASSUME NEW x \in K, x # DevList
        PROVE  n.next[x] \in K /\ n.prev[n.next[x]] = x
    <3>1. n.next[x] = m.next[x] /\ m.next[x] \in K /\ m.prev[m.next[x]] = x
      BY <1>3, <1>6, <1>7, <1>8, <2>1 DEF Ring
    <3>2. m.next[x] # q
      BY <1>7, <2>1, <3>1
    <3> QED BY <1>3, <1>7, <1>8, <3>1, <3>2
  <2>2. ASSUME NEW x \in K, x # q
        PROVE  n.prev[x] \in K /\ n.next[n.prev[x]] = x
    <3>1. n.prev[x] = m.prev[x] /\ m.prev[x] \in K /\ m.next[m.prev[x]] = x
      BY <1>3, <1>6, <1>7, <1>8, <2>2 DEF Ring
    <3>2. m.prev[x] # DevList
      BY <1>6, <1>7, <2>2, <3>1
    <3> QED BY <1>3, <1>7, <1>8, <3>1, <3>2
  <2>3. n.next[DevList] = d /\ n.prev[d] = DevList /\ n.next[d] = q /\ n.prev[q] = d
    BY <1>1, <1>3, <1>6, <1>8
  <2> QED BY <1>6, <2>1, <2>2, <2>3 DEF Ring
<1>10. \A x \in Node \ Back(n) : x # d => n.next[x] = x
  BY <1>1, <1>2, <1>3, <1>4
<1> QED BY <1>3, <1>8, <1>9, <1>10 DEF ListAt

\* MDS_LPC_DeviceUnregister takes the device off the way along next.
LEMMA UnregisterKeepsList ==
  ASSUME NEW l \in Links, ListAt(l, "run", DevList), NEW d \in Device, l.next[d] # d,
         NEW n, n = [l EXCEPT !.next[l.prev[d]] = l.next[d]]
  PROVE  n \in Links /\ ListAt(n, "unlink", d)
<1> DEFINE p == l.prev[d]
           q == l.next[d]
           K == Back(l) \ {d}
<1>1. Ring(l, Back(l)) /\ \A x \in Node \ Back(l) : x # DevList => l.next[x] = x
  BY DEF ListAt
<1>2. DevList \in Back(l) /\ Back(l) \subseteq Node /\ d \in Node /\ DevList # d
  BY BackCloses, Nodes
<1>3. d \in Back(l)
  BY <1>1, <1>2
<1>4. /\ p \in K /\ q \in K /\ l.prev[q] = d /\ l.next[p] = d
      /\ \A x \in Back(l) : /\ l.next[x] \in Back(l) /\ l.prev[l.next[x]] = x
                            /\ l.prev[x] \in Back(l) /\ l.next[l.prev[x]] = x
  BY <1>1, <1>3 DEF Ring
<1>5. /\ n \in Links /\ n.prev = l.prev /\ n.next[p] = q
      /\ \A x \in Node \ {p} : n.next[x] = l.next[x]
  BY <1>2, <1>4 DEF Links
<1>6. Back(n) = Back(l)
  BY <1>5, BackSame
<1>7. PICK m : m = Without(n, d)
  OBVIOUS
<1>8. n.next[d] = q /\ n.prev[d] = p
  BY <1>2, <1>4, <1>5
<1>9. /\ m.next = n.next /\ m.prev[q] = p
      /\ \A x \in Node \ {q} : m.prev[x] = l.prev[x]
  BY <1>2, <1>4, <1>5, <1>7, <1>8 DEF Without, Links
<1>10. K \subseteq Node /\ K \subseteq Back(l) \ {d} /\ q # d /\ p # d
  BY <1>2, <1>4
<1>11. l.prev[d] = p /\ l.next[d] = q /\ Back(l) \ {d} \subseteq K
  OBVIOUS
<1> HIDE DEF p, q, K
<1>12. Ring(m, K)
  <2>1. ASSUME NEW x \in K, x # p
        PROVE  m.next[x] \in K /\ m.prev[m.next[x]] = x
    <3>1. m.next[x] = l.next[x] /\ l.next[x] \in Back(l) /\ l.prev[l.next[x]] = x
      BY <1>4, <1>5, <1>9, <1>10, <2>1
    <3>2. l.next[x] # d /\ l.next[x] # q
      BY <1>4, <1>10, <1>11, <2>1, <3>1
    <3>3. l.next[x] \in Node
      BY <1>2, <3>1
    <3> QED BY <1>9, <1>11, <3>1, <3>2, <3>3
  <2>2. ASSUME NEW x \in K, x # q
        PROVE  m.prev[x] \in K /\ m.next[m.prev[x]] = x
    <3>1. m.prev[x] = l.prev[x] /\ l.prev[x] \in Back(l) /\ l.next[l.prev[x]] = x
      BY <1>4, <1>9, <1>10, <2>2
    <3>2. l.prev[x] # d /\ l.prev[x] # p
      BY <1>4, <1>10, <1>11, <2>2, <3>1
    <3>3. l.prev[x] \in Node
      BY <1>2, <3>1
    <3> QED BY <1>5, <1>9, <1>11, <3>1, <3>2, <3>3
  <2>3. m.next[p] = q /\ m.prev[q] = p
    BY <1>5, <1>9
  <2> QED BY <1>4, <2>1, <2>2, <2>3 DEF Ring
<1>13. n.prev[q] = d /\ n.next[p] = n.next[d] /\ K = Back(n) \ {d} /\ q \in Back(n)
  BY <1>4, <1>5, <1>6, <1>8, <1>10, <1>11
<1>14. Half(n, d)
  BY <1>2, <1>3, <1>6, <1>7, <1>8, <1>10, <1>12, <1>13 DEF Half
<1>15. \A x \in Node \ Back(n) : x # d => n.next[x] = x
  BY <1>1, <1>2, <1>4, <1>5, <1>6, <1>10
<1> QED BY <1>5, <1>14, <1>15 DEF ListAt

\* And off the way along prev.
LEMMA UnlinkBackKeepsList ==
  ASSUME NEW l \in Links, NEW d \in Device, ListAt(l, "unlink", d), NEW n, n = Without(l, d)
  PROVE  n \in Links /\ ListAt(n, "clear", d)
<1> DEFINE p == l.prev[d]
           q == l.next[d]
           K == Back(l) \ {d}
<1>1. Half(l, d) /\ \A x \in Node \ Back(l) : x # d => l.next[x] = x
  BY DEF ListAt
<1>2. /\ DevList \in Back(l) /\ Back(l) \subseteq Node /\ d \in Node /\ DevList # d
      /\ \A x \in Back(l) : l.prev[x] \in Back(l)
  BY BackCloses, Nodes DEF Links
<1>3. d \in Back(l) /\ q \in K /\ p \in K /\ l.prev[q] = d /\ DevList \in K /\ Ring(n, K)
  BY <1>1, <1>2 DEF Half
<1>4. /\ n \in Links /\ n.next = l.next /\ n.prev[q] = p
      /\ \A x \in Node \ {q} : n.prev[x] = l.prev[x]
  BY <1>2, <1>3 DEF Without, Links
<1>5. Back(l) = K \cup {d} /\ d \notin K /\ K \in SUBSET Node /\ l.prev[d] = p
  BY <1>2, <1>3
<1> HIDE DEF p, q, K
<1>6. Back(n) \subseteq K
  <2>1. \A x \in K : n.prev[x] \in K
    BY <1>3 DEF Ring
  <2> QED BY <1>3, <1>5, <2>1, BackLeast
<1>7. K \subseteq Back(n)
  <2> DEFINE T == Back(n) \cup {x \in {d} : q \in Back(n)}
  <2>1. /\ DevList \in Back(n) /\ Back(n) \subseteq Node
        /\ \A x \in Back(n) : n.prev[x] \in Back(n)
    BY <1>4, BackCloses DEF Links
  <2>2. ASSUME NEW x \in T PROVE l.prev[x] \in T
    <3>1. CASE x = d
      BY <1>4, <1>5, <1>6, <2>1, <2>2, <3>1
    <3>2. CASE x # d /\ x = q
      BY <1>3, <2>2, <3>2
    <3>3. CASE x # d /\ x # q
      BY <1>4, <2>1, <2>2, <3>3
    <3> QED BY <3>1, <3>2, <3>3
  <2>3. T \in SUBSET Node /\ DevList \in T
    BY <1>2, <2>1
  <2>4. Back(l) \subseteq T
    <3> HIDE DEF T
    <3> QED BY <2>2, <2>3, BackLeast
  <2> QED BY <1>5, <2>4
<1>8. Back(n) = K
  BY <1>6, <1>7
<1>9. \A x \in Node \ Back(n) : x # d => n.next[x] = x
  BY <1>1, <1>4, <1>5, <1>8
<1> QED BY <1>3, <1>4, <1>5, <1>8, <1>9 DEF ListAt

\* The node that is off both ways points to itself again.
LEMMA ClearKeepsList ==
  ASSUME NEW l \in Links, NEW d \in Device, ListAt(l, "clear", d),
         NEW n, n = [l EXCEPT !.prev[d] = d, !.next[d] = d]
  PROVE  n \in Links /\ ListAt(n, "run", DevList)
<1>1. /\ Ring(l, Back(l)) /\ d \notin Back(l)
      /\ \A x \in Node \ Back(l) : x # d => l.next[x] = x
  BY DEF ListAt
<1>2. /\ n \in Links /\ n.next[d] = d
      /\ \A x \in Node \ {d} : n.prev[x] = l.prev[x] /\ n.next[x] = l.next[x]
  BY Nodes DEF Links
<1>3. Back(n) = Back(l) /\ Ring(n, Back(n))
  BY <1>1, <1>2, BackApart
<1>4. \A x \in Node \ Back(n) : n.next[x] = x
  BY <1>1, <1>2, <1>3
<1> QED BY <1>2, <1>3, <1>4 DEF ListAt

-----------------------------------------------------------------------------
(* The devices, where the calls that change the list are kept apart        *)

ListedInv == ListInv /\ DeviceInv

\* Between two writes to the list, too, next leads nowhere prev does not come.
LEMMA NextStaysOnList ==
  ASSUME ListInv, NEW x \in Back(links)
  PROVE  links.next[x] \in Back(links)
<1>1. PICK w, d : ListAt(links, w, d)
  BY DEF ListInv
<1>2. CASE Ring(links, Back(links))
  BY <1>2 DEF Ring
<1>3. CASE Half(links, d)
  <2>1. CASE x = d
    BY <1>3, <2>1 DEF Half
  <2>2. CASE x # d
    <3>1. Ring(Without(links, d), Back(links) \ {d}) /\ x \in Back(links) \ {d}
      BY <1>3, <2>2 DEF Half
    <3>2. Without(links, d).next = links.next
      BY DEF Without, ListInv, Links
    <3> QED BY <3>1, <3>2 DEF Ring
  <2> QED BY <2>1, <2>2
<1> QED BY <1>1, <1>2, <1>3 DEF ListAt

\* Thread t alone works on the list, or did, and goes to w with device d.
LEMMA ListMoves ==
  ASSUME ListInv, pc \in [Thread -> AnyPc], NEW t \in User,
         \A u \in User \ {t} : pc[u] \notin Linking,
         NEW w, pc' = [pc EXCEPT ![t] = w], NEW d \in Node, on' = [on EXCEPT ![t] = d],
         IF w \in Linking THEN d \in Device ELSE w = "run" /\ d = DevList,
         links' \in Links, ListAt(links', w, d)
  PROVE  ListInv'
<1>1. /\ \A u \in User \ {t} : pc'[u] = pc[u] /\ on'[u] = on[u]
      /\ pc'[t] = w /\ on'[t] = d /\ on' \in [User -> Node]
  BY DEF ListInv, User
<1>2. \A u \in User \ {t} : pc'[u] \notin Linking /\ on'[u] = DevList
  BY <1>1 DEF ListInv
<1>3. \A u \in User : IF pc'[u] \in Linking
                      THEN on'[u] \in Device /\ ListAt(links', pc'[u], on'[u])
                      ELSE on'[u] = DevList
  BY <1>1, <1>2
<1>4. (\A u \in User : pc'[u] \notin Linking) => ListAt(links', "run", DevList)
  BY <1>1
<1>5. \A u, v \in User : pc'[u] \in Linking /\ pc'[v] \in Linking => u = v
  BY <1>2
<1> QED BY <1>1, <1>3, <1>4, <1>5 DEF ListInv

\* Steps that do not work on the list.
LEMMA ListRests ==
  ASSUME ListInv, links' = links, on' = on,
         \A t \in User : pc'[t] = pc[t] \/ (pc[t] \notin Linking /\ pc'[t] \notin Linking)
  PROVE  ListInv'
<1>1. \A t \in User : /\ pc'[t] \in Linking <=> pc[t] \in Linking
                      /\ pc'[t] \in Linking => pc'[t] = pc[t]
  OBVIOUS
<1>2. /\ links' \in Links /\ on' \in [User -> Node]
      /\ \A t \in User : IF pc'[t] \in Linking
                         THEN on'[t] \in Device /\ ListAt(links', pc'[t], on'[t])
                         ELSE on'[t] = DevList
      /\ (\A t \in User : pc'[t] \notin Linking) => ListAt(links', "run", DevList)
  BY <1>1 DEF ListInv
<1>3. \A t, u \in User : pc'[t] \in Linking /\ pc'[u] \in Linking => t = u
  BY <1>1 DEF ListInv
<1> QED BY <1>2, <1>3 DEF ListInv

\* The calls that work on the list, one write at a time.
LEMMA RegisteringKeepsList ==
  ASSUME RegisterAnyTime = FALSE, ListInv, pc \in [Thread -> AnyPc],
         NEW t \in User, Registering(t)
  PROVE  ListInv'
<1>0. links \in Links /\ on \in [User -> Node] /\ Device \subseteq Node /\ DevList \in Node
  BY Nodes DEF ListInv
<1>1. ASSUME NEW d \in Device, Register(t, d) \/ Unregister(t, d) PROVE ListInv'
  <2>1. \A u \in User : pc[u] \notin Linking
    BY <1>1 DEF Register, Unregister, MayLink
  <2>2. ListAt(links, "run", DevList)
    BY <2>1 DEF ListInv
  <2>3. on' = [on EXCEPT ![t] = d]
    BY <1>1 DEF Register, Unregister
  <2>4. CASE Register(t, d)
    <3>1. links' \in Links /\ ListAt(links', "link", d) /\ pc' = [pc EXCEPT ![t] = "link"]
      BY <1>0, <2>2, <2>4, RegisterKeepsList DEF Register, Written, Goto
    <3> QED BY <1>0, <2>1, <2>3, <3>1, ListMoves DEF Linking
  <2>5. CASE Unregister(t, d)
    <3>1. links' \in Links /\ ListAt(links', "unlink", d) /\ pc' = [pc EXCEPT ![t] = "unlink"]
      BY <1>0, <2>2, <2>5, UnregisterKeepsList DEF Unregister, Written, Goto
    <3> QED BY <1>0, <2>1, <2>3, <3>1, ListMoves DEF Linking
  <2> QED BY <1>1, <2>4, <2>5
<1>2. ASSUME LinkBack(t) \/ Publish(t) \/ Wake(t) \/ UnlinkBack(t) \/ Clear(t) PROVE ListInv'
  <2>1. pc[t] \in Linking
    BY <1>2 DEF LinkBack, Publish, Wake, UnlinkBack, Clear, At, Linking
  <2>2. /\ on[t] \in Device /\ ListAt(links, pc[t], on[t])
        /\ \A u \in User \ {t} : pc[u] \notin Linking
    BY <2>1 DEF ListInv
  <2>3. on = [on EXCEPT ![t] = on[t]]
    BY <1>0
  <2>4. CASE LinkBack(t)
    <3>1. pc[t] = "link" /\ pc' = [pc EXCEPT ![t] = "publish"] /\ on' = on
      BY <2>4 DEF LinkBack, At, Written, Goto
    <3>2. links' = [links EXCEPT !.prev[links.next[DevList]] = on[t]]
      BY <2>2, <2>4, <3>1 DEF LinkBack, Written, ListAt
    <3>3. links' \in Links /\ ListAt(links', "publish", on[t])
      BY <1>0, <2>2, <3>1, <3>2, LinkBackKeepsList
    <3> QED BY <1>0, <2>2, <2>3, <3>1, <3>3, ListMoves DEF Linking
  <2>5. CASE Publish(t)
    <3>1. pc[t] = "publish" /\ pc' = [pc EXCEPT ![t] = "wake"] /\ on' = on
      BY <2>5 DEF Publish, At, Written, Goto
    <3>2. links' \in Links /\ ListAt(links', "wake", on[t])
      BY <1>0, <2>2, <2>5, <3>1, PublishKeepsList DEF Publish, Written
    <3> QED BY <1>0, <2>2, <2>3, <3>1, <3>2, ListMoves DEF Linking
  <2>6. CASE Wake(t)
    <3>1. /\ pc[t] = "wake" /\ pc' = [pc EXCEPT ![t] = "run"] /\ links' = links
          /\ on' = [on EXCEPT ![t] = DevList]
      BY <2>6 DEF Wake, At, Written, Goto
    <3>2. ListAt(links, "run", DevList)
      BY <2>2, <3>1 DEF ListAt
    <3> QED BY <1>0, <2>2, <3>1, <3>2, ListMoves DEF Linking
  <2>7. CASE UnlinkBack(t)
    <3>1. pc[t] = "unlink" /\ pc' = [pc EXCEPT ![t] = "clear"] /\ on' = on
      BY <2>7 DEF UnlinkBack, At, Written, Goto
    <3>2. links' \in Links /\ ListAt(links', "clear", on[t])
      BY <1>0, <2>2, <2>7, <3>1, UnlinkBackKeepsList DEF UnlinkBack, Written, Without
    <3> QED BY <1>0, <2>2, <2>3, <3>1, <3>2, ListMoves DEF Linking
  <2>8. CASE Clear(t)
    <3>1. /\ pc[t] = "clear" /\ pc' = [pc EXCEPT ![t] = "run"]
          /\ on' = [on EXCEPT ![t] = DevList]
      BY <2>8 DEF Clear, At, Written, Goto
    <3>2. links' \in Links /\ ListAt(links', "run", DevList)
      BY <1>0, <2>2, <2>8, <3>1, ClearKeepsList DEF Clear, Written
    <3> QED BY <1>0, <2>2, <3>1, <3>2, ListMoves DEF Linking
  <2> QED BY <1>2, <2>4, <2>5, <2>6, <2>7, <2>8
<1> QED BY <1>1, <1>2 DEF Registering

\* Every other step leaves the list alone.
LEMMA OthersLeaveList ==
  ASSUME LowPowerInv, [Next]_vars, ~(\E t \in User : Registering(t))
  PROVE  /\ links' = links /\ on' = on
         /\ \A t \in User : pc'[t] = pc[t] \/ (pc[t] \notin Linking /\ pc'[t] \notin Linking)
<1>0. pc \in [Thread -> AnyPc] /\ Idle \in Thread /\ User = Thread \ {Idle}
  BY KernelAssumption DEF LowPowerInv, PassTypes, User
<1>1. links' = links /\ on' = on
  BY DEF Next, Boot, Pass, LockPass, ReadMode, Plan, DeviceSuspend, Sleep, Again, ReadRun,
     Resume, SwitchRun, UnlockPass, Check, Tick, Interrupted, InterruptVotes, Votes, VoteSleep,
     RunRequest, RunRelease, Step, ThreadVotes, SleepDefault, SleepForce, ForceSuspend,
     SleepForceReturn, RunWait, Delay, vars, devices, list
<1>2. CASE Pass
  <2>1. \E w : pc' = [pc EXCEPT ![Idle] = w]
    BY <1>0, <1>2, SuspendGoes DEF Pass, LockPass, ReadMode, Plan, Sleep, Again, ReadRun,
       Resume, SwitchRun, UnlockPass, Goto
  <2> QED BY <1>0, <1>1, <2>1
<1>3. CASE \E t \in Thread : Check(t)
  <2>1. PICK t \in Thread : Check(t)
    BY <1>3
  <2>2. pc[t] = "check" /\ \E w \in {"idle", "run"} : pc' = [pc EXCEPT ![t] = w]
    BY <2>1 DEF Check, Goto
  <2> QED BY <1>0, <1>1, <2>1, <2>2 DEF Linking
<1>4. CASE \E t \in User : Step(t) /\ ~Check(t) /\ ~Registering(t)
  <2>1. PICK t \in User : Step(t) /\ ~Check(t) /\ ~Registering(t)
    BY <1>4
  <2>2. \/ pc' = pc
        \/ /\ pc[t] \in {"run", "force"}
           /\ \E w \in {"run", "force", "check"} : pc' = [pc EXCEPT ![t] = w]
    BY <2>1 DEF Step, ThreadVotes, Votes, VoteSleep, RunRequest, RunRelease, SleepDefault,
       SleepForce, ForceSuspend, SleepForceReturn, RunWait, Delay, At, Goto
  <2> QED BY <1>0, <1>1, <2>1, <2>2 DEF Linking
<1>5. CASE Boot \/ Tick \/ Interrupted \/ InterruptVotes \/ UNCHANGED vars
  <2>1. pc' = pc
    BY <1>5 DEF Boot, Tick, Interrupted, InterruptVotes, Votes, VoteSleep, RunRequest,
                RunRelease, vars
  <2> QED BY <1>1, <2>1
<1> QED BY <1>0, <1>2, <1>3, <1>4, <1>5 DEF Next, Step

\* Nobody is on the way through the list where another step is taken.
LEMMA NobodyWalks ==
  ASSUME LowPowerInv, DeviceInv, NEW t \in Thread, Executes(t),
         pc[t] \notin {"suspend", "force"}
  PROVE  walk = DevList
<1>1. \A u \in Thread \ {t} : ~Locks(pc, u)
  BY Executing DEF LowPowerInv
<1>2. ASSUME NEW u \in Thread, u # Idle => pc[u] = "force", u = Idle => pc[u] = "suspend"
      PROVE  FALSE
  BY <1>1, <1>2 DEF Locks, PassPc
<1> QED BY <1>2, KernelAssumption DEF DeviceInv, User

\* A switch of the run mode resumes what is on the way along prev.
LEMMA SwitchWakes ==
  ASSUME NEW m, NEW votes, RunModeSwitch(m, votes)
  PROVE  /\ asleep \subseteq forced => asleep' \subseteq forced'
         /\ asleep' \ forced' \subseteq asleep \ forced
BY DEF RunModeSwitch, DeviceResume

\* The steps of the pass.
LEMMA PassKeepsDevices ==
  ASSUME LowPowerInv, ListInv, DeviceInv, Pass
  PROVE  DeviceInv'
<1>0. /\ Idle \in Thread /\ pc \in [Thread -> AnyPc] /\ pass \in PassType
      /\ User = Thread \ {Idle} /\ DevList \in Back(links)
  BY KernelAssumption, BackCloses DEF LowPowerInv, PassTypes, User
<1>1. Executes(Idle) /\ links' = links
  BY DEF Pass, LockPass, ReadMode, Plan, DeviceSuspend, Sleep, Again, ReadRun, Resume,
         SwitchRun, UnlockPass, IdleAt, devices, list
<1>2. CASE DeviceSuspend
  <2>1. pc[Idle] = "suspend" /\ pass' = pass /\ forced' = forced /\ walk \in Back(links)
    BY <1>2 DEF DeviceSuspend, IdleAt, DeviceInv
  <2>2. CASE Walked
    <3>1. pc'[Idle] = "sleep" /\ walk' = DevList /\ asleep' = asleep
      BY <1>0, <1>2, <2>2 DEF DeviceSuspend, Goto
    <3> QED BY <1>1, <2>1, <3>1 DEF DeviceInv
  <2>3. CASE ~Walked
    <3>1. /\ pc' = pc /\ walk' = links.next[walk] /\ asleep' = asleep \cup {walk'}
          /\ walk' \in Back(links)
      BY <1>2, <2>1, <2>3, NextStaysOnList DEF DeviceSuspend, WalkOn
    <3> QED BY <1>1, <2>1, <3>1 DEF DeviceInv
  <2> QED BY <2>2, <2>3
<1>3. CASE ~DeviceSuspend
  <2>1. walk' = walk /\ pc[Idle] \notin {"suspend", "force"}
    BY <1>3 DEF Pass, LockPass, ReadMode, Plan, Sleep, Again, ReadRun, Resume,
                SwitchRun, UnlockPass, IdleAt, devices
  <2>2. walk' = DevList /\ walk' \in Back(links')
    BY <1>0, <1>1, <2>1, NobodyWalks
  <2>3. CASE Resume
    <3>1. /\ pc[Idle] = "resume" /\ pc'[Idle] = "switch"
          /\ IF pass.mode > SleepIdle THEN DeviceResume ELSE UNCHANGED <<asleep, forced>>
      BY <1>0, <2>3 DEF Resume, IdleAt, Goto
    <3>2. asleep' \subseteq forced'
      BY <3>1 DEF DeviceInv, DeviceResume
    <3> QED BY <2>2, <3>1, <3>2 DEF DeviceInv
  <2>4. CASE SwitchRun
    <3>1. /\ pc[Idle] = "switchto" /\ pc'[Idle] = "unlock"
          /\ asleep \subseteq forced => asleep' \subseteq forced'
      BY <1>0, <2>4, SwitchWakes DEF SwitchRun, IdleAt, Goto
    <3>2. asleep' \subseteq forced'
      BY <3>1 DEF DeviceInv
    <3> QED BY <2>2, <3>1, <3>2 DEF DeviceInv
  <2>5. CASE Plan
    <3>1. /\ asleep' = asleep /\ forced' = forced /\ pc[Idle] = "plan"
          /\ pc'[Idle] = "suspend" => pass'.mode > SleepIdle
      BY <1>0, <2>5 DEF Plan, IdleAt, Goto, SleepIdle, SleepMode, PassType, devices
    <3> QED BY <1>1, <2>2, <3>1 DEF DeviceInv
  <2>6. CASE ~Resume /\ ~SwitchRun /\ ~Plan
    <3>1. asleep' = asleep /\ forced' = forced
      BY <1>3, <2>6 DEF Pass, LockPass, ReadMode, Sleep, Again, ReadRun, UnlockPass, devices
    <3>2. \/ /\ pc[Idle] \in {"sleep", "again", "run"}
             /\ pc'[Idle] \in {"sleep", "again", "run", "resume"} /\ pass'.mode = pass.mode
          \/ /\ pc[Idle] \notin {"suspend", "sleep", "again", "run", "resume"}
             /\ pc'[Idle] # "suspend"
      BY <1>0, <1>3, <2>6 DEF Pass, LockPass, ReadMode, Sleep, Again, ReadRun, UnlockPass,
                              IdleAt, Goto, PassType
    <3> QED BY <1>1, <2>2, <3>1, <3>2 DEF DeviceInv
  <2> QED BY <2>3, <2>4, <2>5, <2>6
<1> QED BY <1>2, <1>3

\* The calls of threads, which come between two passes.
LEMMA CallKeepsDevices ==
  ASSUME LowPowerInv, DeviceInv, NEW t \in User, Step(t), ~Pass, [Next]_vars
  PROVE  DeviceInv'
<1>1. pc[Idle] \notin PassPc /\ pc'[Idle] \notin PassPc
  BY OutsidePass DEF PassPc
<1>2. asleep \subseteq forced
  BY <1>1 DEF DeviceInv, PassPc
<1>3. asleep' \subseteq forced'
  <2>1. ASSUME NEW m \in RunVotes, RunRequest(m) PROVE asleep' \subseteq forced'
    BY <1>2, <2>1, SwitchWakes DEF RunRequest
  <2>2. CASE ForceSuspend(t)
    BY <1>2, <2>2 DEF ForceSuspend, WalkOn
  <2>3. CASE Registering(t)
    BY <1>2, <2>3 DEF Registering, Register, LinkBack, Publish, Wake, Unregister, UnlinkBack,
                      Clear
  <2>4. CASE ~(\E m \in RunVotes : RunRequest(m)) /\ ~ForceSuspend(t) /\ ~Registering(t)
    BY <1>2, <2>4 DEF Step, ThreadVotes, Votes, VoteSleep, RunRelease, SleepDefault, SleepForce,
                      SleepForceReturn, RunWait, Delay, Check, devices
  <2> QED BY <2>1, <2>2, <2>3, <2>4
<1>4. walk' # DevList => \E u \in User : pc'[u] = "force"
  <2>1. CASE ForceSuspend(t)
    BY <2>1 DEF ForceSuspend, At
  <2>2. CASE SleepForceReturn(t)
    BY <2>2 DEF SleepForceReturn
  <2>3. CASE ~ForceSuspend(t) /\ ~SleepForceReturn(t)
    <3>1. walk' = walk /\ Executes(t) /\ pc[t] \notin {"suspend", "force"}
      BY <2>3, RegisteringFrame DEF Step, ThreadVotes, Votes, VoteSleep, RunRequest, RunRelease,
         SleepDefault, SleepForce, RunWait, Delay, Check, At, devices, Linking
    <3> QED BY <3>1, NobodyWalks DEF User
  <2> QED BY <2>1, <2>2, <2>3
<1> QED BY <1>1, <1>3, <1>4 DEF DeviceInv, PassPc

\* The devices that sleep, at every step.
LEMMA DeviceInvNext ==
  ASSUME LowPowerInv, ListInv, DeviceInv, [Next]_vars
  PROVE  DeviceInv'
<1>1. CASE ~Pass /\ ~(\E t \in User : Step(t))
  <2>1. /\ pass' = pass
        /\ pc'[Idle] = pc[Idle] \/ (pc[Idle] = "check" /\ pc'[Idle] = "idle")
    BY <1>1, OutsidePass
  <2>2. links' = links /\ walk' = walk /\ \A u \in User : pc'[u] = pc[u]
    <3>1. links' = links /\ walk' = walk
      BY <1>1 DEF Next, Boot, Check, Tick, Interrupted, InterruptVotes, Votes, VoteSleep,
         RunRequest, RunRelease, vars, devices, list
    <3>2. pc' = pc \/ pc' = [pc EXCEPT ![Idle] = "idle"]
      BY <1>1 DEF Next, Boot, Check, Tick, Interrupted, InterruptVotes, Votes, VoteSleep,
         RunRequest, RunRelease, Goto, vars
    <3>3. pc \in [Thread -> AnyPc] /\ \A u \in User : u \in Thread /\ u # Idle
      BY DEF LowPowerInv, PassTypes, User
    <3> QED BY <3>1, <3>2, <3>3
  <2>3. /\ asleep \subseteq forced => asleep' \subseteq forced'
        /\ asleep' \ forced' \subseteq asleep \ forced
    <3>1. ASSUME NEW m \in RunVotes, RunRequest(m)
          PROVE  /\ asleep \subseteq forced => asleep' \subseteq forced'
                 /\ asleep' \ forced' \subseteq asleep \ forced
      BY <3>1, SwitchWakes DEF RunRequest
    <3>2. CASE ~(\E m \in RunVotes : RunRequest(m))
      <4>1. asleep' = asleep /\ forced' = forced
        BY <1>1, <3>2 DEF Next, Boot, Check, Tick, Interrupted, InterruptVotes, Votes, VoteSleep,
           RunRelease, vars, devices
      <4> QED BY <4>1
    <3> QED BY <3>1, <3>2
  <2> QED BY <2>1, <2>2, <2>3 DEF DeviceInv
<1>2. CASE Pass
  BY <1>2, PassKeepsDevices
<1>3. CASE ~Pass /\ \E t \in User : Step(t)
  BY <1>3, CallKeepsDevices
<1> QED BY <1>1, <1>2, <1>3

\* The list and the devices before the scheduler runs.
LEMMA ListedInvInit == Init => ListedInv
<1> SUFFICES ASSUME Init PROVE ListInv /\ DeviceInv
  BY DEF ListedInv
<1>1. /\ links = [next |-> Alone, prev |-> Alone] /\ on = [t \in User |-> DevList]
      /\ walk = DevList /\ asleep = {} /\ Idle \in Thread
      /\ pc = [t \in Thread |-> IF t = Idle THEN "idle" ELSE "run"]
  BY KernelAssumption DEF Init
<1>2. /\ links \in Links /\ on \in [User -> Node]
      /\ \A x \in Node : links.next[x] = x /\ links.prev[x] = x
  BY <1>1, Nodes DEF Alone, Links
<1>3. \A t \in User : pc[t] \notin Linking /\ on[t] = DevList
  BY <1>1 DEF User, Linking
<1>4. Ring(links, Back(links)) /\ DevList \in Back(links)
  BY <1>2, BackCloses DEF Ring
<1>5. ListAt(links, "run", DevList)
  BY <1>2, <1>4 DEF ListAt
<1>6. ListInv
  BY <1>2, <1>3, <1>5 DEF ListInv
<1>7. DeviceInv
  BY <1>1 DEF DeviceInv
<1> QED BY <1>6, <1>7

LEMMA ListedInvNext ==
  ASSUME RegisterAnyTime = FALSE, LowPowerInv, ListedInv, [Next]_vars
  PROVE  ListedInv'
<1>1. ListInv'
  <2>1. CASE \E t \in User : Registering(t)
    BY <2>1, RegisteringKeepsList DEF ListedInv, LowPowerInv, PassTypes
  <2>2. CASE ~(\E t \in User : Registering(t))
    BY <2>2, OthersLeaveList, ListRests DEF ListedInv
  <2> QED BY <2>1, <2>2
<1> QED BY <1>1, DeviceInvNext DEF ListedInv

\* Where calls that register and unregister devices do not overlap, no thread
\* executes while devices are suspended by the pass of the idle thread:
\* LPC_DeviceSuspend, which follows the one pointer of each node, never reaches
\* a device that LPC_DeviceResume, which follows the other, does not come back
\* for, also when the pass begins between two writes of a call, and the resume
\* comes before MDS_KernelSchedulerUnlock in every pass that suspended them.
THEOREM DevicesAwakeAlways ==
  ASSUME RegisterAnyTime = FALSE
  PROVE  Spec => []DevicesAwake
<1>1. LowPowerInv /\ ListedInv => DevicesAwake
  <2> SUFFICES ASSUME LowPowerInv, ListedInv, k.curr \in User, ~(asleep \subseteq forced)
               PROVE  FALSE
    BY DEF DevicesAwake
  <2>1. pc[Idle] \in PassPc
    BY DEF ListedInv, DeviceInv, PassPc
  <2>2. k.curr = Idle
    BY <2>1, KernelAssumption DEF LowPowerInv, LockInv, Locks
  <2> QED BY <2>2 DEF User
<1>2. LowPowerInv /\ ListedInv /\ [Next]_vars => ListedInv'
  BY ListedInvNext
<1> QED BY <1>1, <1>2, ListedInvInit, PassHoldsLock, PTL DEF Spec
=============================================================================
