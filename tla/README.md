# A TLA+ verification of mds_kernel

mds_kernel is a small real-time kernel in C: priority threads on one
processor, thread timers, wait queues and the objects built on them, a device
layer and low power control.  This directory holds TLA+ models of it, the TLC
configurations that check them and proofs for TLAPS.

## Inventory

| part | source | state it keeps | operations | what makes it correct |
|---|---|---|---|---|
| intrusive lists | `inc/mds_def.h` | the two pointers of each node | insert before and after, remove | a node is on one list at most |
| scheduler | `sys/scheduler.c`, `sys/kernel.c` | ready table (lists and bits), current thread, scheduler lock | insert, remove, peek, check, lock, unlock, startup | bits agree with lists, the highest ready priority runs, a locked scheduler does not switch |
| threads | `sys/thread.c` | state and yield flag, priority, slice, error, timer | startup, resume, suspend, priority, delay, yield, close, exit | a thread is in the place its state says; the dead are freed once |
| clock | `sys/clock.c` | tick count | tick interrupt | every tick is counted once, slices end |
| timers, work queues | `sys/timer.c`, `sys/workq.c` | a skip list ordered by due tick | submit, cancel, check, drain | each node fires once, when due, in order |
| wait queues | `sys/kernel.c` | the threads that wait, by priority | suspend, resume, until, drain | a wake-up goes to a waiter and is not lost |
| semaphore, mutex, event, condition, read-write lock | `sys/ipc/` | a value, an owner, a mask; wait queues | acquire, release, set, wait, signal, broadcast | permits are conserved, one owner, priorities are given back, waiters are woken |
| message queue, memory pool | `sys/ipc/` | blocks on a free list and a queue; wait queues | send, urgent, receive, release; alloc, free | a block has one holder, messages stay in order |
| idle thread | `sys/idle.c` | defunct queue, hooks | free the dead, low power | what is freed is referred to by nothing |
| low power control | `sys/lpc.c` | votes, run and sleep mode | request, release, force, switch | the mode is one that is voted for |
| object registry | `object.c` | a list per type | init, deinit, create, destroy, find | an object is registered once |
| device layer | `device.c` | owner and flags of each adapter | open, close, force, mount | one peripheral uses an adapter |
| heap | `mem/memory.c`, `mem/llff.c` | a doubly linked list of nodes | alloc, free, realloc | no overlap, neighbours that are free are joined |
| build without a scheduler | `nosys.c` | counters, polled | the same calls | as above, without waiting |
| library | `lib/` | none, or the caller's | skip list, tree, time, text | pure algorithms |

The parts meet in four ways.  Application threads call the kernel; a critical
section masks the interrupts.  The tick interrupt counts the tick, ends slices
and expires timers, whose callbacks call the scheduler.  A context switch asked
for in a critical section or an interrupt is taken when interrupts are enabled
again.  All waiting goes through one node of the thread, `nodeWait`, and one
timer of the thread.

What is hard is that order: a call often leaves its critical section and only
then checks the scheduler, and the tick interrupt, other threads and the end of
a time slice come in between.  PROJECT.json lists the hazards line by line.

## Modules

| module | models |
|---|---|
| `DList` | the list operations of `mds_def.h` on sequences of threads |
| `MdsKernel` | kernel states, and each function of `scheduler.c`, `kernel.c`, `thread.c`, `clock.c` and the thread timers as an operator on them |
| `Processor` | the processor the threads share: start of the scheduler, tick interrupt, timers that expire in it; extended by every state machine of threads |
| `ThreadSched` | threads, idle thread and tick interrupt; their properties |
| `MsgQueue` | threads that send to and receive from a message queue of `ipc/msgqueue.c`, with the waits of `MDS_KernelWaitQueueUntil` |
| `Channel` | what the message queue promises: a bounded channel |
| `WorkQueue` | a work queue of `workq.c` with its thread, callbacks and a tick counter that wraps |
| `Semaphore`, `Mutex`, `Condition`, `Event`, `MemPool` | each object of `ipc/` as operators on its state and the kernel state |
| `Ipc` | threads that share one such object, its creation and destruction, timeouts and an interrupt |
| `LowPower` | the low power pass of the idle thread in `lpc.c`, with the votes of threads and interrupts and the list of devices, which has no lock |
| `Heap`, `Object`, `NoSys`, `Device` | `mem/`, `object.c`, the polled objects of `nosys.c`, and `device.c`, as operators |
| `BareMetal` | main code and interrupts of a program on the build without a scheduler, over those four |
| `MCThreadSched`, `MCMsgQueue`, `MCWorkQueue`, `MCIpc`, `MCLowPower`, `MCBareMetal` | the instances TLC checks |
| `DListTheorems`, `MdsKernelTheorems` | lemmas on the lists and on each kernel operator |
| `ThreadSchedTheorems`, `MsgQueueTheorems`, `WorkQueueTheorems`, `IpcTheorems`, `LowPowerTheorems`, `BareMetalTheorems` | the theorems of these modules |

### MdsKernel

The kernel state is a record `k`; the comment at the top of the module says
which C variable each field is.  A C function is an operator from kernel states
to kernel states, so a critical section that calls several functions is one
composed expression and every function has one definition, used by all parts.

* A list is the sequence of the threads on it, from `next` of its header.
  `MDS_DListRemoveNode` knows no list, so `Detach` removes the thread from all
  of them; inserting does not remove, exactly as in C, and a thread inserted
  twice shows up twice (`NodeInOneList` would fail).
* The FFS table search is the least element of the mask.
* A wait of a timer is the number of ticks left, the list is kept in the order
  of the insertions and expiries of the code.  The comparison of wrapped
  tick counts is in `WorkQueue`.
* Memory the C code would misuse (a list header taken for a thread, a linked
  timer linked again) sets `k.fault`, which stops the machine and which the
  properties forbid.
* The flag `YIELD` that `MDS_ThreadClose` leaves on a dead thread is dropped:
  nothing reads it before the object is initialised again.

### ThreadSched

A critical section is one step.  A call that ends with a scheduler check outside
its critical section is two steps, and `pc` says which half a thread is in.
The tick interrupt is a step for the tick, a step for each timer that expires,
and a return; no thread code runs in between, and threads run between any two
of their own steps.  The context switch itself (PendSV) is external: it follows
the scheduler check at once because the interrupts are enabled there.

The calls a thread may make are those of an application that keeps three rules
of the API, which are guards of the model:

* it does not give up the processor (delay, exit, close itself) while it holds
  the scheduler lock, since the check would be skipped and the thread would run
  on while suspended or dead;
* after closing itself it makes no call but its return;
* with `SetPriorityAnyTime = FALSE` it changes the priority of a thread only
  where the kernel moves the thread, see the finding below.

### MsgQueue

The queue is modelled with its pointers: `q` holds `lfree`, `lhead`, `ltail` and
the `next` and content of each block, so that a wrong link shows.  A critical
section is a step, and `pc` says where a thread stands: before or after the
scheduler check inside a wait, copying into the block it took, before the
scheduler check that ends its call.  `Wait` is the wait up to that check,
`Expired` the two tests behind it, and `RecvBack` and `SendBack` the loop of
the callers, which wait again with the whole timeout.

* `waited` is the ticks since the wait began, counted up to `TimerMax`.  A
  timeout of more than `TimerMax` stands for `MDS_CLOCK_TICK_FOREVER`: no timer
  is armed for it (`workq.c:382-385`), and it never compares as passed.
* `MDS_MsgQueueRecvPeek` takes the block as `MDS_MsgQueueRecvAcquire` does and
  nobody can give it back; `peeked` collects those blocks.
* Such a block counts as a place of its own in `BlocksConserved`, and the channel
  has a step that loses its room: a peek that never gives back is taken as what
  the code does, and breaks neither.
* The processor is that of `Processor`; here all threads are started before the
  scheduler, do not end, and do not lock it.  A receiver keeps one block at a
  time, a bound of the model.
* The trace hooks, the copy of the bytes and the length checks are left out.

`Channel` has the messages in order, free room, plain and urgent senders that
hold room, and messages whose room is not given back.  The refinement reads the
queue along its links.

### WorkQueue

Of the scheduler this module keeps only whether the thread of the queue is
`READY` or `SUSPENDED`, and its timer; a thread that is READY takes its next
step at any time, between any steps of others and any ticks.  The record `s` is
the queue: the sorted list, the nodes on `runList` and `stopList`, and the
fields of the nodes.  Tick counts have `Width` bits, as `MDS_Tick_t` has 32 or
64; `left` is a count that never wraps, kept beside `tickout` to say what the
wrapped comparison should say.

A callback runs while `pc = "call"`, and `Submit` and `Cancel` stand for calls
from it and from other threads alike.  The upper levels of the skip list only
shorten the search and are left out.  The uses the model allows:

* a node that is linked is cancelled before it is submitted again.  A callback
  that submits its own one-shot node without that loses it: the node is still on
  `runList`, whose header is found not empty, and the round unlinks it
  (`workq.c:125-129`);
* the queue is started before it is used;
* a READY thread runs before a due node has waited `Late` ticks;
* with `AvoidForever`, no node is due at tick `MDS_CLOCK_TICK_FOREVER`, see the
  finding below.

### Ipc and the objects

`Semaphore`, `Mutex`, `Event` and `MemPool` extend `MdsKernel` in the same
style: a call is an operator from a kernel state `k` and an object to a record
with the new ones, the error, and whether the call ends with a scheduler check.
`Condition` is a semaphore and a mutex, as in the code.  `Ipc` has the threads.
`kind` chooses the object they share; it is put to use, retired with threads
waiting for it, and put to use again once those are gone.

* A waiter's timer is submitted to a queue that has no thread, so
  `MDS_WorkNodeSubmit` returns `MDS_EACCES` (`workq.c:387`) and every wait of
  these objects returns an error while its thread is suspended and queued.  The
  thread goes on until its next scheduler check.  The model does the same: the
  calls return `EACCES`, the thread keeps the processor, and `Yield` lets an
  application give it up.  `WaitersArmed` says that each of these threads has a
  timer that ends it, also after the object went away.  It is about waits with a
  limit.  One without a limit has no timer; the drain of a destroyed object wakes
  one waiter only (`kernel.c:200`), and the others stay asleep, in the model too.
* A condition's broadcast may give a permit to a thread that came in between
  (`condition.c:83`); `PermitsConserved` counts the permits and does not say
  that every waiter is woken.  `ConsumedWakesOne` counts the waiters that a set of
  event bits wakes and does not say which: the code resumes the head of the
  queue, whichever waiter its search stopped at (`event.c:172`).
* The nesting counter of a mutex is signed and has `NestWidth` bits (16 in the
  code); the limit it is compared with is -1, see the finding below.  After an
  acquisition that returned `MDS_ERANGE` the caller owns the mutex, and the
  properties of the mutex are about that owner.
* A `MDS_ConditionWait` that finds a value or may not wait returns without
  leaving its critical section (`condition.c:129`); the state records the
  fault `left_masked` and stops.  A wait for a mutex that has lost its owner
  reads a NULL owner (`mutex.c:121`): fault `null_owner`.
* The free list of a pool is a circle through its own first block
  (`mempool.c:26`).  A block that has a holder has its link overwritten; an
  allocation that follows such a link is the fault `wild_block`.
* Bounds: two threads and the idle one on three levels, waits of no, one tick
  and the limit, one permit, two event bits, three blocks, 3 bits of nesting, a
  condition value of 1.  A condition and its mutex are used with the mutex
  acquired without waiting.

### LowPower

The pass of the idle thread goes from `idle` through `mode`, `plan`, `suspend`,
`sleep`, `again`, `run`, `resume`, `switch` and `switchto` to `unlock`; between any
two of its steps interrupts tick and vote and make threads ready, which run only
when the pass gives the scheduler back.  `sleep` and `run` of the board are
external: it sleeps at most what it was told, and enters the run mode it was
told.  A sleep compensates the clock by several ticks at once; `CompensateTick`
then expires the timers that are due, one in each round of its loop, of which
there can be no more than timers in the queue.  `late`, `voted`, `asleep` and
`forced` only observe.

* The devices are on a list with two pointers each, `links`.  Suspending walks
  along `next` (`lpc.c:52`), one device in a step of `DeviceSuspend`, and an
  interrupt that changes the run mode may resume devices in between.  Resuming
  walks along `prev` (`lpc.c:63`), to the devices of `Back`.
* No lock protects this list.  `MDS_LPC_DeviceRegister` and
  `MDS_LPC_DeviceUnregister` write one pointer of a linked node in a step
  (`Register`, `LinkBack`, `Publish`, `Wake`; `Unregister`, `UnlinkBack`, `Clear`); between
  two of them the thread may be preempted, and a pass or a forced sleep finds
  the list half written.  A device is registered only while it is not, and
  unregistered only while it is.
* Two of these calls that preempt each other break the list.  Two interleaved
  insertions leave a device on the way along `next` and off the way along
  `prev`: it is suspended and never resumed.  With two devices, two threads and
  `RegisterAnyTime = TRUE`, TLC finds this violation of `DevicesAwake`.
  Nothing in the repository says who keeps these calls apart, so there is no
  line for a finding to quote, and both the run and the theorem assume that the
  application does: with `RegisterAnyTime = FALSE` a call begins only while no
  other is under way.
* `MDS_LPC_SleepModeForce` suspends the devices and resumes none
  (`lpc.c:297`): `forced` is the set of those, and `DevicesAwake` leaves them out.
* `MDS_LPC_RunModeWait` acquires a mutex first and so returns the error of the
  acquisition; nobody ever waits on `runCond`.
* `GetSleepTick` compares tick counts as they are (`kernel.c:271`): once the
  next due tick has wrapped, the idle processor does not sleep at all.
* Bounds: two threads beside the idle one, one device, a tick count modulo 3,
  sleeps of up to two ticks, a delay of two, votes up to one.

### BareMetal

In the scheduler build no `MDS_DevPeriphOpen` succeeds, since it acquires the
mutex of its adaptr and gives up on any error.  The device layer is therefore
composed with the build of `nosys.c`, where `MDS_MutexAcquire` always succeeds
(`nosys.c:178`), also after a timeout.  There is one main program and interrupts.
A call whose state no interrupt touches is one step, and an acquisition is split
into the rounds of its loop.

Interrupts open periphs by force, each in one step, which writes the owner and
the flags and calls the driver.  So main code may be interrupted between any
two of its own accesses to these, and its calls are split there: an update into
the reading of the owner (`device.c:273-276`) and the call to the driver with
what it read; an open into driver, owner and flags; a close into driver, flag and
owner; an open by force of main code into owner, the driver's close and open,
owner and flags (`device.c:418-443`).  Neighbouring accesses are one step where
the order with an interrupt makes no difference; the header of the module
lists them.

* The heap is the set of its nodes by address; a created object or handle is
  the node it lives in, so that a node freed too early or twice, or kept, shows
  in `HeapExact`.
* Drivers are external and may fail; `hw` is the periph a driver was last
  successfully opened for, which the code keeps in the hardware alone.
* A forced open in one of these windows leaves one periph accessible and the
  driver opened for another: main code reads the owner p1, an interrupt opens p2
  by force, and the driver is then opened for p1.  The model reaches this in an
  update, an open, a close and an open by force of main code, as the code does,
  and no document promises otherwise.  What does hold is `DriverServesMounted`:
  neither the driver nor an open adaptr is ever left with a periph that is gone
  or is mounted elsewhere, though each of these calls goes on with a periph it
  chose before the interrupt.
* One rule is asked of the interrupts: they do not open by force the periph that
  main code is giving up at that moment.
* What the code does with broken memory ends the program: destroying an adaptr
  that was created without a driver takes a mutex off a list it was never on
  (`device.c:259`), and a forced open writes the flags of an owner that was
  destroyed (`device.c:429`).  Both are reachable, and are why this run does not
  check for deadlock.
* Freeing NULL (`device.c:129`) is refused by `memory.c:80`; the assertion two
  lines above is off here, as all are.
* Interrupts tick, release the semaphore, set the event and open by force; they
  do not allocate or register, which the code has no lock against.
* Polls, memory of main code and devices are explored one after the other
  (`PollsFirst`, `Room`), as they share no state but the heap, which devices use
  too.  Seven units of memory hold three nodes of the smallest size, four
  devices a module, an adaptr and two periphs of it; the tick count has two bits and starts
  anywhere.  At most one tick comes in a round of a poll.

## Runs

| run | instance | shows |
|---|---|---|
| `sched_safety` | three threads and the idle thread, two levels, slice 1, delays 1, 2 and too long, lock nesting 1; 1.1 million states up to symmetry | type, lists, ready table, timers, defunct queue, and the two action properties of the scheduler |
| `sched_live` | two threads on one level, fair ticks | a sleeper wakes, a ready thread runs, the dead are freed |
| `msgqueue_forever` | three threads, two levels, two blocks, two messages, waits without limit, peeks; 657000 states | the queue is a bounded channel, its tail is its last block, waiters are in order, and no wake-up is lost |
| `msgqueue_timed` | three threads of one level, one message, waits of one tick and without limit; 792000 states | types, every block in one place, waiters asleep with their timers |
| `msgqueue_stale_timeout` | the same | a wait that is woken in time returns a timeout: see below |
| `workqueue_safety` | three nodes, 4-bit ticks, delays 0 to 2, one-shot or with period 2; up to symmetry | order, lateness, nothing early, nothing lost, no parked thread with work |
| `workqueue_parks_with_work` | two nodes, any due tick | the thread parks although a node is due later: see below |
| `ipc_objects` | two threads and the idle one, each object of `ipc/` in turn; 1.03 million states | types and lists, waiters armed, permits and blocks conserved, mutex ownership and priorities, event bits |
| `low_power` | two threads and the idle one, interrupts; 9.0 million states up to symmetry | no thread runs on suspended devices, at most one sleep with a thread ready, votes are honoured; devices are suspended one at a time, their list is written pointer by pointer |
| `bare_metal` | main code and interrupts; 1.7 million states | the heap is exact, a busy device is known as such, the driver and an open adaptr have a live periph of it, polls end in time |
| `mutex_range` | the mutex of `ipc_objects` | the first acquisition is out of range: see below |
| `set_priority_breaks_table` | as the first, priorities changed at any time | the panic of `kernel.c:103` is reached: see below |

Three threads are the fewest with a current thread, a ready one and one that
sleeps, dies or is timed out at the same time; two levels the fewest with a
choice; delays of one and two ticks give timers that expire together and apart.
`Perms` permutes the threads other than the idle one, which the model treats
alike; runs with liveness use no symmetry.

Two blocks and three threads let two senders copy at the same time, or a sender,
a receiver that holds a block and one that waits.  Two messages tell an order
from its reverse.  Three threads on two levels put a waiter in front of another.

A work node can go before, between and behind two others; ticks of four bits
wrap within the waits, and half their range is just above the distance of the
latest node (`MaxLate`) from the newest.  `BoundedLateness` holds with the
bound `MaxLate` and no smaller one: the thread computes its sleep, unlocks, and a
node submitted before it sleeps does not wake it (`workq.c:164-168`).

Deadlock is checked wherever no memory is broken, while the tick goes on; it is
not in `ipc_objects`, `mutex_range` and `bare_metal`, where a fault stops the system.

`NoLostWakeup` is checked with unlimited waits only.  A limited wait that is
woken but runs after its time gives up (`kernel.c:170`) and swallows the wake-up;
the code does not pass it on, and nothing in the repository says that it should.

### Fairness

Ticks go on and an interrupt returns (weak fairness of `Tick`, `Expire`,
`TickReturn`).  The code a thread is executing is strongly fair: a thread is
interrupted again and again, but between two ticks the processor has time for
it.  An application that locks the scheduler unlocks it.  Nothing is assumed of
the other calls: a thread may spin for ever, and the time slice is what gives
the processor to its peers.  `FairSpec` leaves out a thread that suspends itself
and resumes itself before it reaches a scheduler check, which puts it in front
of its level each time.

### Finding: a priority change that moves nothing

`MDS_ThreadSetPriority` moves the thread between levels only in state READY
(`thread.c:295-301`).  Two kinds of threads are linked in the ready table in
another state: the first thread, which `MDS_KernelStartup` runs without taking
it out (`kernel.c:242-253`), and a timed out one (`thread.c:69-71`).  After the
change the bit of the old level outlives the last thread on it, and
`MDS_SchedulerPeekThread` returns the header of the list.  The run gets there
in six steps: boot, the boot thread changes its priority, closes itself, tick.

### Finding: a timeout that is never forgotten

`MDS_KernelWaitQueueUntil` returns the error of the thread when there is one
(`kernel.c:164`).  A timeout sets it (`thread.c:71`), and only
`MDS_ThreadDelay` resets it (`thread.c:341`).  After one receive that timed
out, the next one that has to wait fails with `MDS_ETIMEOUT` even when a message
woke it in time, and leaves the message in the queue.  `TimeoutMeansExpired`
says that a wait is given up only after its time.  The memory pool waits the
same way.

### Finding: a due tick that means never

The thread of a work queue takes the due tick of the first node and compares it
with `MDS_CLOCK_TICK_FOREVER`, which stands for an empty queue
(`workq.c:148-154`).  A node due at exactly that tick parks the thread, and its
callback waits for a later submission.

### Finding: a limit below every count

`MDS_MutexAcquire` compares the nesting with the cast of -1 to its type
(`mutex.c:104`, `mutex.c:113`).  The type is signed (`mds_sys.h:381`), so a
nesting of 0 is not below the limit: the first acquisition writes the owner and
returns `MDS_ERANGE`, and one that is counted never happens to a mutex that is
released only by who acquired it.  `RangeMeansLimit` says what the name of the
error says.

## Proofs

Every safety property that a passing run checks is a theorem, as is the
refinement of `Channel`, for any number of threads, levels, wait queues, ticks,
blocks, messages, permits, event bits, work nodes, devices and memory.  Some
assume of a constant what their run does: `SetPriorityAnyTime = FALSE`,
`AvoidForever = TRUE`, unlimited timeouts and `RegisterAnyTime = FALSE`; each is
explained with its module.

### From the lists up

`DListTheorems` says what an insertion or a removal does to a sequence without
duplicates, and that both keep a sorted list sorted.  `MdsKernelTheorems` shows
that each kernel operator keeps a kernel state `Sound`: types, every node on one
list at most, the bits of the ready table exact.  The last two need each other:
a scheduler check may rely on the head of a level only if the bits are exact, and
removing a thread keeps them exact only if it is on no other level and its level
is its priority.

Its second half adds where each operator leaves a thread: `Placed` makes
state, list, timer and error of a thread agree, `Ranked` sets the idle thread
apart, `CurrentKept` says that a current thread that is suspended is not in the
ready table.  `Orderly` is all of it.  The lemma of an operator says that
`Orderly` is kept, what happened to the one thread the operator is about
(`Queued`, `Woken`, `TimedOut`, `Rescheduled`) and, with `Others`, that nothing
happened to any other.

### ThreadSched

`SchedInv` is the inductive invariant.  Its parts hold each other up.
`TimerLinkedOnce` needs that a thread that executes has no timer: `Awake` says
when the current thread may be armed, namely between its suspension and the
scheduler check that follows.  `ArmedIsAsleep` needs `Placed`, since a timer that
expires puts its thread on a level: it must not be on one already.
`DeadIsDetached` and `ExitIsFinal` need `Ended`, which goes with a thread from
`MDS_ThreadClose` to the idle thread that frees it; `r # t` in it tells the two
hands it passes through apart.  The two action properties follow from
`Dispatches`, which is proved of each step beside the invariant.

The theorems assume `SetPriorityAnyTime = FALSE`: without that the invariant is
false, as the run `set_priority_breaks_table` shows.

### MsgQueue

The invariant has two parts that need nothing of each other.  `WaitInv` is about
the threads: who is in a wait queue or has a timer is in the wait of that queue
(`Sleeps`), and the queue is in the order of priorities (`Sorted`).  `BlockInv` is
about the blocks: each is in one place (`OnePlace`), nobody holds two (`Unique`),
and the pointers lay out two lists (`LaidOut`).

The model reads a list by following its links, `Chain`, as the code does.  A
proof cannot follow links for a length it does not know, so `Linked` says of a
given sequence that the links are its own, and `ChainOfLinked` that such a
sequence is what `Chain` finds: the least position at which the two differ
would be one at which they agree.  Each pointer operation of the queue then has a
lemma of the form: the list was this sequence, now it is that one.

`QueueImplementsChannel` maps the queue to the channel (messages in order, room,
senders and receivers that hold room) and shows for each action the step of the
channel it is, or that it changes nothing there.  `QueueConservesRoom` follows
from the refinement: a step of the channel neither loses nor gains room
(`ChannelStep`), so neither does the queue, whose free blocks, senders, messages
and receivers add up to the blocks it was laid out with.

`WakeUpsNeverLost` assumes that every timeout is above `TimerMax`, as the run
`msgqueue_forever` does: a limited wait may give up after it was woken, and then
the wake-up is lost.  Its invariant `ForeverInv` says that no wait has failed
(`Endless`; an error left behind would end the next wait) and that of the
messages, or free blocks, for which a thread waits in a queue each has a woken
thread on its way (`Coming`).  That is a statement on numbers, and each step
changes one of them by one.

### WorkQueue

The proofs are about tick counters of any width; `WorkQueueAssumption` says that
the waits fit into less than half of the range.  `DueTick` and `LaterTick` turn a
comparison of wrapped ticks into one of `left`.  The invariant `QueueInv` has the
list sorted by `left`, the due tick of each listed node equal to `tick + left`
wrapped (`OnTime`), what the thread does next (`ThreadInv`), and a bound on how far
each node is past its time (`LateInv`).  They need each other in a circle: the
comparison is right only while `left` is within half the range, that is while no
node is too late, and no node is too late because the thread looks at the first
of the list and the list is in order.  The bound itself depends on where the
thread is: while it is about to sleep a node is late by `Late` only, while it
sleeps the timer tells how long still, and after that every period may cost a
tick, the tick in which a callback may not end (`Passed`).

The theorems assume `AvoidForever = TRUE`: the run `workqueue_parks_with_work`
refutes `ParkedOnlyWhenEmpty` without it.

### Ipc

`IpcInv` is the inductive invariant of the threads that share an object.  Its core
is `Steady`, what each call finds and leaves of the kernel: `Orderly`, no timer
with `TimerMax` ticks or more (the code refuses to start one), every waiter
armed, and a current thread that is suspended in a wait queue.  The last is
what a wait that goes on in its caller leads to: a thread that is suspended calls
the next function.  `SteadyStep` and `SteadyFrame` say what a kernel operator has to
show to keep it.  An operator either puts its caller to sleep or only awakens
others, and each object needs one lemma for either (`SemFrame`, `MutexFrame`).

* `SemOK`: nobody waits while a semaphore has a value.  `PermitInv` counts the
  permits given, numbered for each thread so that a finite set can be counted,
  and needs `IpcInv` for the hand-over: a release with a waiter leaves the value.
* `MutexOK`: an owned mutex has no value, and keeps the priority its owner has.
  A mutex of its own also needs `Inherits`: while it has a value nobody waits, and
  its owner is not asleep.  Otherwise the wait and the release, which set the
  priority of the owner and set it back, would find it changed.  The mutex of a
  condition is never waited for, so its owner may be asleep.
* `HandsOver` is the step of `MutexOwnership`, proved of each action beside the
  invariant, because the priorities change and change back inside a call.
* `BlocksLead`: at most one link leads to a block, none to one that is held, and
  the link of a block that is held is the pool.  The free list is the least set
  that has its head and follows the links, `FreeChain`; the set of all
  other blocks is one that follows them, so a held block is not in the least.
  The first block is left out: `mempool.c:26` makes it its own successor.

Two assumptions on constants are there for the provers.  `MutexAssumption` says
that the highest count is positive, which follows from a width of two bits or
more, but no prover knows the powers of 2.  `ConditionAssumption` says that the
bound of a condition is a number.

### LowPower

`LowPowerInv` rests on the lock of the scheduler.  `LockInv` says that one thread
at most holds it, the idle thread through its pass or a thread that forces a
sleep, that the one that holds it executes, and that the kernel is `Orderly`.
Without it nothing read at one step of the pass would be true at the next.

* `Ages` is what an interrupt, or a compensation of any length, does to the
  kernel meanwhile: the same thread executes, no thread changes its state, and
  a ready table that had a thread still has one.  It composes, so it has to be
  proved of one expiry only.  The rounds of `CompensateTick` are a recursive
  function, and both that there is such a function and that it only ages the
  kernel are shown at the least number for which they would fail (`CompensateAges`).
* `LateInv` gives `BoundedOversleep`: the loop of sleeps goes on only with the
  ready mask empty, so a sleep that began late is the last of its pass.
* `VoteInv` gives `VoteHonoured`: the mode read from the votes is still voted for
  when the board is told, unless an interrupt voted.

`DevicesAwake` needs the list of devices, which no lock protects, and is proved
under `RegisterAnyTime = FALSE` only.  `ListedInv` is what it adds to
`LowPowerInv`.

* `ListInv` gives the list at each write of a registration or removal
  (`ListAt`): a `Ring`, in which the pointers of neighbours agree, or a ring
  but for one device that is only on the way along `prev` (`Half`).  At every
  one of them `next` never leads where `prev` does not come
  (`NextStaysOnList`), so that whatever a pass suspends it also resumes, even
  if it finds a call half done.  A walk has no length the provers know, so
  `Back` is a least set, and a set closed under `prev` shows what is in it or not.
* `DeviceInv` says that devices sleep only between their suspension and their
  resumption, in a pass that will come to it, or after a forced sleep, and are
  then on the way along `prev`.

### BareMetal

`BareMetalInv` has three parts that need little of each other.

`Consistent` is about the heap, the registry and the devices together.  `Exact`
is the property of the heap: the search starts before every free node, no two free
nodes lie side by side, and the used ones are those of main code, the created
devices and their handles.  It needs `Apart`, since a node with two owners would
stay an owner's after its first free, and `Registered`, since a device that was
given up must be on no list and have no handle, and a created one must be linked
to be found.  `Behind` says that between an adaptr and a periph of it there are
only periphs of it.  It makes the look at one neighbour in `MDS_DeviceIsBusy`
exact (`BusyIsMounted`).  The property alone is not inductive: that the one next
to the adaptr is a periph of it says nothing of the one behind, which is next to
it after the first was retired.

`LoopInv` is the loop of an acquisition: the tick count is the start and the time
waited, modulo the width (`ClockReads`), and the last round saw less than the
timeout.  `PollInTime` alone would not be inductive, since a tick could follow a
tick.

`Serving` is `DriverServesMounted` and the same of every other structure: the
periph its driver was last opened for, and the owner of one that is open, are
mounted on it.  It is not inductive, since a call of main code brings back
periphs it chose before an interrupt.  `CallInv` says what is left of that
choice: the owner an update read is still mounted there; after an open has
written the owner, some periph of the adaptr owns it, be it another one; and
the periph that is being given up comes back neither to the driver nor as the
owner, so that it can be retired.

The theorems assume of the constants what the memory of a program gives: NULL and
the static structures are no addresses of the heap, a timeout fits into a tick
count, sizes are numbers.

Each of the invariants was checked by TLC on the instances of the runs before it
was proved.

### Only model-checked

Liveness and the progress properties under fairness, which are beyond this
prover, and the refuted properties, of which the runs show a counterexample.
No invariant is left to TLC alone.

## Not modelled

* A wait that returned `MDS_EACCES` with its thread suspended, followed by
  `MDS_ThreadDelay`: `ThreadSched` has the delays and `Ipc` the waits.
* In `sched_safety` and its theorems a priority change of a thread that is linked
  without being READY: only `set_priority_breaks_table` makes one.
* Text formatting, logging and strings: no state of the kernel depends on them.
* The processor ports, whose promise (critical sections are atomic, the switch
  follows at once) is built into the steps.
* The read-write lock: each of its calls first acquires its mutex and gives up
  when that returns an error, which it always does in this build.
* The timers of `nosys.c`: with independent timers the list that holds them is
  never initialised, so starting one follows a NULL link; without them they are
  not compiled.  `MDS_KernelCompensateTick` there adds the tick count to itself
  (`nosys.c:605`), which doubles it.
* The independent timers of `timer.c:52`, which start a queue without a thread.
* The copies of bytes, the pointers of the skip list, the tree and the calendar.
* Creation and destruction of work queues, work nodes, message queues and thread
  objects, and the heaps of applications.  An object of a thread whose timer was
  never armed keeps its timer registered (`thread.c:26`).
* Two threads in the heap: its lock is released by who failed to take it
  (`memory.c:91`).
* The hooks, statistics, searches by name, probing and dumps.

## Plan

1. The destruction of a message queue and of a work queue.
2. `WorkQueue` refined to the countdown list that `MdsKernel` uses for the
   thread timers.
