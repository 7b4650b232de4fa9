------------------------------ MODULE LowPower ------------------------------
(***************************************************************************)
(* Low power control (lpc.c): the pass the idle thread makes through       *)
(* MDS_IdleLowPowerControl, and the calls that vote for sleep and run      *)
(* modes meanwhile, from threads and from interrupts.                      *)
(*                                                                         *)
(* A critical section, or a stretch without one that touches nothing the   *)
(* others touch, is one step.  pc[Idle] goes round                         *)
(*   "idle" "mode" "plan" "suspend" "sleep" "again" "run" "resume"         *)
(*   "switch" "switchto" "unlock" "check"                                  *)
(* and a thread is at "run", at "force" inside MDS_LPC_SleepModeForce, at  *)
(* "check" before the scheduler check that ends its call, or between two   *)
(* writes to the list of devices, which no lock protects: at "link",       *)
(* "publish" and "wake" in MDS_LPC_DeviceRegister, at "unlink" and "clear" *)
(* in MDS_LPC_DeviceUnregister.                                            *)
(* The operations sleep and run of the board are external: sleep returns   *)
(* after at most the ticks it was given, run enters the mode asked for.    *)
(***************************************************************************)
EXTENDS Processor, Condition

CONSTANTS TickMod,     \* MDS_CLOCK_TICK_FOREVER + 1, where the tick count wraps
          MaxSleep,    \* the longest the board sleeps in one call, in ticks
          Threshold,   \* sleepThreshold
          RunDefault,  \* runDefault
          SleepDefaults,  \* what sleepDefault is set to
          SleepVotes, RunVotes,   \* the modes that are voted for
          VoteMax,     \* MDS_LPC_Vote_t of -1
          Device,      \* the devices that take part
          DevList,     \* g_lpcDevList
          RegisterAnyTime,   \* threads register and unregister at any time, or
                             \* the application keeps these calls apart
          Delays       \* the delays of threads, in ticks

\* MDS_LPC_Sleep_t and MDS_LPC_Run_t, in the order of the enumerations.
SleepMode == 0..4   \* IDLE, LIGHT, DEEP, RESET, SHUTDOWN
RunMode == 0..3     \* LOW, NORMAL, HIGH, LOCK
SleepIdle == 0
RunLock == 3

ASSUME LowPowerAssumption ==
  /\ TickMod \in Nat \ {0, 1} /\ MaxSleep \in Nat /\ Threshold \in Nat
  /\ VoteMax \in Nat \ {0} /\ RunDefault \in RunMode \ {RunLock}
  /\ SleepDefaults \subseteq SleepMode
  /\ SleepVotes \subseteq SleepMode /\ RunVotes \subseteq RunMode
  /\ Delays \subseteq 1..(TimerMax - 1)
  /\ DevList \notin Device /\ RegisterAnyTime \in BOOLEAN

VARIABLES now,      \* g_sysTick.tickcount
          sleep,    \* sleepDefault and sleepVote
          run,      \* runMode and runVote
          pass,     \* the local variables of the pass of the idle thread
          links,    \* the pointers of g_lpcDevList and of the nodes of devices
          on,       \* the device each thread registers or unregisters, or DevList
          walk,     \* how far LPC_DeviceSuspend is, DevList where none is on its way
          asleep,   \* the devices that were suspended and not resumed
          forced,   \* those of them that MDS_LPC_SleepModeForce suspended
          late,     \* sleeps of this pass that began with a thread ready
          voted,    \* an interrupt voted since the pass last read the run mode
          cond, mutex,   \* runCond and runMutex
          pc

wait == <<cond, mutex>>
list == <<links, on>>
devices == <<links, on, walk, asleep, forced>>
vars == <<k, isr, now, sleep, run, pass, links, on, walk, asleep, forced, late, voted,
          cond, mutex, pc>>

IdlePc == {"idle", "mode", "plan", "suspend", "sleep", "again", "run", "resume",
           "switch", "switchto", "unlock", "check"}
Linking == {"link", "publish", "wake", "unlink", "clear"}
NoPass == [mode |-> SleepIdle, plan |-> 0, tick |-> 0, real |-> 0, run |-> RunDefault]

\* A node of the list points to itself while it is not linked.
Node == Device \cup {DevList}
Alone == [x \in Node |-> x]

\* MDS_LPC_Init before the scheduler runs.
Init ==
  /\ ProcessorInit
  /\ now \in 0..(TickMod - 1)
  /\ sleep \in [default : SleepDefaults, vote : {[m \in SleepMode |-> 0]}]
  /\ run = [mode |-> 0, vote |-> [m \in RunMode |-> 0]]
  /\ pass = NoPass
  /\ links = [next |-> Alone, prev |-> Alone] /\ on = [t \in User |-> DevList]
  /\ walk = DevList /\ asleep = {} /\ forced = {} /\ late = 0 /\ voted = FALSE
  /\ cond = ConditionInit(NewSemaphore("none", 0, 0)) /\ mutex = MutexInit(NewMutex("none"))
  /\ pc = [t \in Thread |-> IF t = Idle THEN "idle" ELSE "run"]

Goto(t, where) == pc' = [pc EXCEPT ![t] = where]
IdleAt(where) == Executes(Idle) /\ pc[Idle] = where
At(t, where) == t \in User /\ Executes(t) /\ pc[t] = where

-----------------------------------------------------------------------------
(* Modes and votes                                                         *)

\* LPC_SleepModeUpdate: the lightest mode below the default with a vote.
SleepModeUpdate(s) ==
  LET asked == {m \in SleepMode : m < s.default /\ s.vote[m] > 0} IN
  IF asked = {} THEN s.default ELSE CHOOSE m \in asked : \A n \in asked : m <= n

\* LPC_RunModeUpdate: the highest mode above the default with a vote.
RunModeUpdate(r) ==
  LET asked == {m \in RunMode : m > RunDefault /\ r.vote[m] > 0} IN
  IF asked = {} THEN RunDefault ELSE CHOOSE m \in asked : \A n \in asked : m >= n

VoteUp(votes, m) == [votes EXCEPT ![m] = IF @ < VoteMax THEN @ + 1 ELSE @]
VoteDown(votes, m) == [votes EXCEPT ![m] = IF @ > 0 THEN @ - 1 ELSE @]

\* MDS_ConditionBroadCast of runCond, where nobody ever waits: its loop ends
\* with the value 1, and the current thread keeps the error of a first round.
Told(state, c) == SemaphoreAcquire(state, c, state.curr, 0).k

-----------------------------------------------------------------------------
(* The devices                                                             *)

\* What is reached from the list along prev: the least set that holds the list
\* and goes back from each of its nodes.
Back(l) ==
  {x \in Node : \A S \in SUBSET Node :
     DevList \in S /\ (\A y \in S : l.prev[y] \in S) => x \in S}

\* LPC_DeviceResume walks along prev, where nothing that is suspended meanwhile
\* comes in between.
DeviceResume == asleep' = asleep \ Back(links) /\ forced' = forced \ Back(links)

\* One step of LPC_DeviceSuspend, which walks along next.
Walked == links.next[walk] = DevList
WalkOn == walk' = links.next[walk] /\ asleep' = asleep \cup {links.next[walk]}

\* LPC_RunModeSwitch to the mode m, and what it leaves alone.
SwitchesTo(m) == m # run.mode /\ m # RunLock

RunModeSwitch(m, votes) ==
  IF SwitchesTo(m)
  THEN /\ run' = [mode |-> m, vote |-> votes]
       /\ DeviceResume
       /\ k' = Told(k, cond) /\ cond' = [cond EXCEPT !.value = 1]
  ELSE /\ run' = [run EXCEPT !.vote = votes]
       /\ UNCHANGED <<k, asleep, forced, cond>>

\* MDS_KernelGetSleepTick: the two tick counts are compared as they are.
GetSleepTick ==
  LET next == IF k.tq = <<>> THEN TickMod - 1 ELSE (now + k.left[Head(k.tq)]) % TickMod IN
  IF PeekThread(k) = Idle /\ next > now THEN next - now ELSE 0

-----------------------------------------------------------------------------
(* The pass of the idle thread                                             *)

\* A defect: the scheduler is not locked.
LockPassNothing ==
  /\ IdleAt("idle")
  /\ Goto(Idle, "mode")
  /\ UNCHANGED <<k, isr, now, sleep, run, pass, devices, late, voted, wait>>

LockPass ==
  /\ IdleAt("idle")
  /\ k' = LockAcquire(k)
  /\ Goto(Idle, "mode")
  /\ UNCHANGED <<isr, now, sleep, run, pass, devices, late, voted, wait>>

ReadMode ==
  /\ IdleAt("mode")
  /\ pass' = [NoPass EXCEPT !.mode = SleepModeUpdate(sleep)]
  /\ Goto(Idle, "plan")
  /\ UNCHANGED <<k, isr, now, sleep, run, devices, late, voted, wait>>

\* A sleep that is too short is spent in IDLE.
Plan ==
  LET light == pass.mode <= SleepIdle \/ GetSleepTick <= Threshold IN
  /\ IdleAt("plan")
  /\ pass' = [pass EXCEPT !.mode = IF light THEN SleepIdle ELSE @,
                          !.plan = GetSleepTick, !.tick = GetSleepTick]
  /\ Goto(Idle, IF light THEN "sleep" ELSE "suspend")
  /\ UNCHANGED <<k, isr, now, sleep, run, devices, late, voted, wait>>

\* An interrupt may resume the devices between two of its steps.
DeviceSuspend ==
  /\ IdleAt("suspend")
  /\ IF Walked THEN Goto(Idle, "sleep") /\ walk' = DevList /\ UNCHANGED asleep
     ELSE WalkOn /\ UNCHANGED pc
  /\ UNCHANGED <<k, isr, now, sleep, run, pass, list, forced, late, voted, wait>>

\* One round of the loop of MDS_WorkQueueCheck, which ends at a timer that is
\* not due.
Round(state) == IF TimerDue(state) THEN TimerExpire(state) ELSE state

\* MDS_KernelCompensateTick: the clock advances by d ticks at once, which the
\* time slice of the current thread wears by, and every timer that is due by
\* then expires.
CompensateTick(state, d) ==
  LET aged == [state EXCEPT !.left = [t \in Thread |-> IF @[t] > d THEN @[t] - d ELSE 0]]
      lasts == aged.remain[aged.curr] > d
      worn == [aged EXCEPT !.remain[aged.curr] = IF lasts THEN @ - d ELSE Slice]
      ticked == IF lasts THEN worn ELSE SchedulerCheck(SetYield(worn, worn.curr))
      round[i \in 0..Len(state.tq)] == IF i = 0 THEN ticked ELSE Round(round[i - 1])
  IN  round[Len(state.tq)]

\* With the interrupts masked the board sleeps for what was planned, also
\* when a thread became ready since.
Sleep ==
  /\ IdleAt("sleep")
  /\ \E d \in 0..MaxSleep :
       /\ d <= pass.tick
       /\ pass' = [pass EXCEPT !.real = @ + d, !.tick = d]
       /\ k' = CompensateTick(k, d)
       /\ now' = (now + d) % TickMod
  /\ late' = IF pass.tick > 0 /\ PeekThread(k) # Idle THEN late + 1 ELSE late
  /\ Goto(Idle, "again")
  /\ UNCHANGED <<isr, sleep, run, devices, voted, wait>>

\* A defect: the sleep goes on for what is left of the plan.
AgainAsPlanned ==
  /\ IdleAt("again")
  /\ IF pass.tick = 0 \/ pass.real >= pass.plan \/ pass.mode # SleepModeUpdate(sleep)
     THEN Goto(Idle, "run") /\ UNCHANGED pass
     ELSE Goto(Idle, "sleep") /\ pass' = [pass EXCEPT !.tick = pass.plan - pass.real]
  /\ UNCHANGED <<k, isr, now, sleep, run, devices, late, voted, wait>>

\* The loop sleeps again while no thread is ready and the mode is the same.
Again ==
  /\ IdleAt("again")
  /\ IF \/ pass.tick = 0 \/ pass.real >= pass.plan
        \/ GetSleepTick = 0 \/ pass.mode # SleepModeUpdate(sleep)
     THEN Goto(Idle, "run") /\ UNCHANGED pass
     ELSE Goto(Idle, "sleep") /\ pass' = [pass EXCEPT !.tick = GetSleepTick]
  /\ UNCHANGED <<k, isr, now, sleep, run, devices, late, voted, wait>>

\* The run mode is read in a critical section and entered after it.
ReadRun(where, next) ==
  /\ IdleAt(where)
  /\ pass' = [pass EXCEPT !.run = RunModeUpdate(run)] /\ voted' = FALSE
  /\ Goto(Idle, next)
  /\ UNCHANGED <<k, isr, now, sleep, run, devices, late, wait>>

Resume ==
  /\ IdleAt("resume")
  /\ run' = [run EXCEPT !.mode = pass.run]
  /\ IF pass.mode > SleepIdle THEN DeviceResume ELSE UNCHANGED <<asleep, forced>>
  /\ k' = Told(k, cond) /\ cond' = [cond EXCEPT !.value = 1]
  /\ Goto(Idle, "switch")
  /\ UNCHANGED <<isr, now, sleep, pass, list, walk, late, voted, mutex>>

\* A defect: the run mode is left for the next request.
SwitchRunNothing ==
  /\ IdleAt("switchto")
  /\ Goto(Idle, "unlock")
  /\ UNCHANGED <<k, isr, now, sleep, run, pass, devices, late, voted, wait>>

SwitchRun ==
  /\ IdleAt("switchto")
  /\ RunModeSwitch(pass.run, run.vote)
  /\ Goto(Idle, "unlock")
  /\ UNCHANGED <<isr, now, sleep, pass, list, walk, late, voted, mutex>>

UnlockPass ==
  /\ IdleAt("unlock")
  /\ k' = LockRelease(k)
  /\ pass' = NoPass /\ late' = 0
  /\ Goto(Idle, IF k.nest <= 1 THEN "check" ELSE "idle")
  /\ UNCHANGED <<isr, now, sleep, run, devices, voted, wait>>

Pass ==
  \/ LockPass \/ ReadMode \/ Plan \/ DeviceSuspend \/ Sleep \/ Again
  \/ ReadRun("run", "resume") \/ Resume \/ ReadRun("switch", "switchto") \/ SwitchRun
  \/ UnlockPass

-----------------------------------------------------------------------------
(* The calls of threads and interrupts                                     *)

\* MDS_LPC_SleepModeRequest, MDS_LPC_SleepModeRelease
VoteSleep(m) ==
  /\ \E up \in BOOLEAN :
       sleep' = [sleep EXCEPT !.vote = IF up THEN VoteUp(@, m) ELSE VoteDown(@, m)]
  /\ UNCHANGED <<k, isr, now, run, pass, devices, late, wait, pc>>

\* MDS_LPC_RunModeRequest switches in the critical section of its vote.
RunRequest(m) ==
  /\ LET votes == VoteUp(run.vote, m) IN
     RunModeSwitch(RunModeUpdate([run EXCEPT !.vote = votes]), votes)
  /\ UNCHANGED <<isr, now, sleep, pass, list, walk, late, mutex, pc>>

\* MDS_LPC_RunModeRelease leaves the switch to the next idle pass.
RunRelease(m) ==
  /\ run' = [run EXCEPT !.vote = VoteDown(@, m)]
  /\ UNCHANGED <<k, isr, now, sleep, pass, devices, late, wait, pc>>

Votes ==
  \/ \E m \in SleepVotes : VoteSleep(m)
  \/ \E m \in RunVotes : RunRequest(m) \/ RunRelease(m)

ThreadVotes(t) == At(t, "run") /\ Votes /\ UNCHANGED voted
InterruptVotes == isr /\ k.fault = "none" /\ Votes /\ voted' = TRUE

\* MDS_LPC_SleepModeDefault
SleepDefault(t) ==
  /\ At(t, "run")
  /\ \E m \in SleepDefaults : sleep' = [sleep EXCEPT !.default = m]
  /\ UNCHANGED <<k, isr, now, run, pass, devices, late, voted, wait, pc>>

\* MDS_LPC_SleepModeForce suspends the devices and resumes none of them; the
\* ticks it sleeps are not added to the clock.
SleepForce(t) ==
  /\ At(t, "run")
  /\ k' = LockAcquire(k)
  /\ Goto(t, "force")
  /\ UNCHANGED <<isr, now, sleep, run, pass, devices, late, voted, wait>>

ForceSuspend(t) ==
  /\ At(t, "force") /\ ~Walked
  /\ WalkOn /\ forced' = forced \cup {links.next[walk]}
  /\ UNCHANGED <<k, isr, now, sleep, run, pass, list, late, voted, wait, pc>>

SleepForceReturn(t) ==
  /\ At(t, "force") /\ Walked
  /\ walk' = DevList
  /\ k' = LockRelease(k)
  /\ Goto(t, IF k.nest <= 1 THEN "check" ELSE "run")
  /\ UNCHANGED <<isr, now, sleep, run, pass, list, asleep, forced, late, voted, wait>>

\* MDS_LPC_RunModeWait: the mutex never lets a caller in, so that it returns
\* the error of the first acquisition; callers do not wait for the mutex.
RunWait(t) ==
  LET r == MutexAcquire(k, mutex, t, 0) IN
  /\ At(t, "run")
  /\ k' = r.k /\ mutex' = r.m
  /\ UNCHANGED <<isr, now, sleep, run, pass, devices, late, voted, cond, pc>>

-----------------------------------------------------------------------------
(* Registration of devices, one write to a linked node at a time           *)

MayLink(t, d) ==
  /\ At(t, "run") /\ \A u \in User : on[u] # d
  /\ RegisterAnyTime \/ \A u \in User : pc[u] \notin Linking

Written(t, l, where) == links' = l /\ Goto(t, where)
ListOnly == UNCHANGED <<k, isr, now, sleep, run, pass, walk, late, voted, wait>>

\* MDS_LPC_DeviceRegister up to the two pointers of the new node.
Register(t, d) ==
  /\ MayLink(t, d) /\ links.next[d] = d
  /\ Written(t, [links EXCEPT !.prev[d] = DevList, !.next[d] = links.next[DevList]], "link")
  /\ on' = [on EXCEPT ![t] = d]
  /\ ListOnly /\ UNCHANGED <<asleep, forced>>

\* The build may read the first node again or keep what it read.
LinkBack(t) ==
  /\ At(t, "link")
  /\ \E x \in {links.next[on[t]], links.next[DevList]} :
       Written(t, [links EXCEPT !.prev[x] = on[t]], "publish")
  /\ ListOnly /\ UNCHANGED <<on, asleep, forced>>

Publish(t) ==
  /\ At(t, "publish")
  /\ Written(t, [links EXCEPT !.next[DevList] = on[t]], "wake")
  /\ ListOnly /\ UNCHANGED <<on, asleep, forced>>

\* The new device is resumed.
Wake(t) ==
  /\ At(t, "wake")
  /\ asleep' = asleep \ {on[t]} /\ forced' = forced \ {on[t]}
  /\ Written(t, links, "run") /\ on' = [on EXCEPT ![t] = DevList]
  /\ ListOnly

\* MDS_LPC_DeviceUnregister: what state the device is in is now up to the caller.
Unregister(t, d) ==
  /\ MayLink(t, d) /\ links.next[d] # d
  /\ Written(t, [links EXCEPT !.next[links.prev[d]] = links.next[d]], "unlink")
  /\ on' = [on EXCEPT ![t] = d]
  /\ asleep' = asleep \ {d} /\ forced' = forced \ {d}
  /\ ListOnly

UnlinkBack(t) ==
  /\ At(t, "unlink")
  /\ Written(t, [links EXCEPT !.prev[links.next[on[t]]] = links.prev[on[t]]], "clear")
  /\ ListOnly /\ UNCHANGED <<on, asleep, forced>>

Clear(t) ==
  /\ At(t, "clear")
  /\ Written(t, [links EXCEPT !.prev[on[t]] = on[t], !.next[on[t]] = on[t]], "run")
  /\ on' = [on EXCEPT ![t] = DevList]
  /\ ListOnly /\ UNCHANGED <<asleep, forced>>

Registering(t) ==
  \/ \E d \in Device : Register(t, d) \/ Unregister(t, d)
  \/ LinkBack(t) \/ Publish(t) \/ Wake(t) \/ UnlinkBack(t) \/ Clear(t)

-----------------------------------------------------------------------------
(* Delays, and the processor                                               *)

Delay(t) ==
  /\ At(t, "run")
  /\ \E d \in Delays : k' = ThreadDelay(k, t, d)
  /\ Goto(t, "check")
  /\ UNCHANGED <<isr, now, sleep, run, pass, devices, late, voted, wait>>

Check(t) ==
  /\ Executes(t) /\ pc[t] = "check"
  /\ k' = SchedulerCheck(k)
  /\ Goto(t, IF t = Idle THEN "idle" ELSE "run")
  /\ UNCHANGED <<isr, now, sleep, run, pass, devices, late, voted, wait>>

Boot ==
  /\ \/ \E t \in User : StartBeforeBoot(t)
     \/ (\A t \in User : k.st[t] = "READY") /\ StartScheduler
  /\ UNCHANGED <<now, sleep, run, pass, devices, late, voted, wait, pc>>

Tick ==
  /\ TickInterrupt
  /\ now' = (now + 1) % TickMod
  /\ UNCHANGED <<sleep, run, pass, devices, late, voted, wait, pc>>

Interrupted ==
  /\ TimerInterrupt \/ InterruptReturn
  /\ UNCHANGED <<now, sleep, run, pass, devices, late, voted, wait, pc>>

Step(t) ==
  \/ ThreadVotes(t) \/ SleepDefault(t) \/ SleepForce(t) \/ ForceSuspend(t) \/ SleepForceReturn(t)
  \/ RunWait(t) \/ Delay(t) \/ Check(t) \/ Registering(t)

Next ==
  \/ Boot \/ Pass \/ Check(Idle) \/ Tick \/ Interrupted \/ InterruptVotes
  \/ \E t \in User : Step(t)

Spec == Init /\ [][Next]_vars

-----------------------------------------------------------------------------
(* What low power control promises                                         *)

\* While a thread executes no device is suspended but those that were forced to
\* sleep: what the pass of the idle thread suspends along the list it resumes
\* before the scheduler is unlocked (lpc.c:52, lpc.c:63, lpc.c:212).
DevicesAwake == k.curr \in User => asleep \subseteq forced

\* A thread that becomes ready between the plan and the sleep waits for one
\* sleep of the board at most.
BoundedOversleep == late <= 1

\* A vote that came while the pass was entering another run mode is picked
\* up before the pass ends, unless it asks for LOCK.
VoteHonoured ==
  pc[Idle] = "unlock" /\ ~voted /\ RunModeUpdate(run) # RunLock
    => run.mode = RunModeUpdate(run)
=============================================================================
