# A TLA+ model of the YP-R0 kernel's synchronisation core

The repository is the Linux 2.6.24 kernel of the Samsung YP-R0 player: upstream
2.6.24, the Freescale i.MX board support package, and Samsung's drivers, under
`src/linux-2.6.24-2.4.2-base/` (paths below are relative to it). The shipped
`.config` selects an ARMv6 i.MX37, one CPU (no `CONFIG_SMP`), a preemptible
kernel (`CONFIG_PREEMPT=y`), `HZ=100`, `CONFIG_RWSEM_GENERIC_SPINLOCK=y` and no
lock debugging. This project models what every driver of that image leans on
and a test can hardly exercise: the sleeping locks, the machinery for deferred
work (workqueues, softirqs, kernel threads), SRCU, and the one driver whose own
threading is as intricate, the USB mass storage gadget the player presents to a
host.

## Inventory

| part | state it keeps | operations | what makes it hard |
|---|---|---|---|
| blocking mutex, `kernel/mutex.c`, `include/asm-arm/mutex.h`, `include/asm-generic/mutex-*.h` | `count`, `wait_lock`, `wait_list` | lock, lock_interruptible, trylock, unlock | fast paths touch `count` without `wait_lock`; blind stores to `count`; signals |
| reader/writer semaphore, `lib/rwsem-spinlock.c` | `activity`, `wait_list`, waiters on stacks, task references | down/up read/write, trylocks, downgrade | a granted waiter runs on before its waker has finished with it |
| counting semaphore, `arch/arm/kernel/semaphore.c`, `include/asm-arm/locks.h` | `count`, `sleepers`, exclusive wait queue | down, down_interruptible, down_trylock, up | everybody's debt folded into two counters, one of them unlocked; wake-one |
| workqueue, `kernel/workqueue.c` | PENDING bit and cwq of each work, worklist, `current_work`, timers, barriers on stacks | queue, queue delayed, flush, destroy, cancel, cancel_sync | self-requeueing works, cancel against queue against timer, recursion |
| kernel threads, `kernel/kthread.c` | creation list, `kthread_stop_info`, references to tasks | create, wake, stop, exit | three handshakes, one global record of who is to stop, tasks that die under their stopper |
| softirqs and tasklets, `kernel/softirq.c`, `include/linux/interrupt.h` | pending mask and tasklet lists of each CPU, SCHED and RUN bits, disable count, ksoftirqd | schedule, run, disable, enable, kill, bh sections, irq exit | everything reschedules itself; nobody may be left to run what is pending |
| SRCU, `kernel/srcu.c` | `completed`, two ranks of counters per CPU, a mutex | read lock and unlock, synchronize | readers between reading the rank and counting themselves; helping; wrap-around; weak memory |
| USB mass storage gadget, `drivers/usb/gadget/file_storage.c`, `msclib.c` | `state`, tags, buffers and requests, `thread_wakeup_needed`, REGISTERED, a completion | commands, ep0 requests or ioctls, disconnect, signals, unbind, cleanup | exceptions during exceptions, cancelled transfers, two ways to end |
| wait queues and completions, `kernel/wait.c`, `kernel/sched.c` | list of waiters, `done` | prepare/finish, wake, complete, timeouts | wake against sleep |
| timers, `kernel/timer.c` | wheel, running timer | add, mod, del | deletion against expiry, wheel cascades |
| classic RCU, `kernel/rcupdate.c` | callback lists, quiescent states | read lock, synchronize, call | grace periods |
| interrupts, `kernel/irq/` | depth, status bits, action list | request, free, disable, enable | depth, replay |
| board code: clocks, bus frequency, I2C, regulators | use counts, state machines | | callbacks against threads |
| scheduler, mm, fs, block, net, sound, other drivers, other architectures | | | left out, see below |

How they interact: the locks sleep in `schedule()` and are woken through
`wake_up_process` or a wait queue; the workqueue uses timers (delayed work),
completions (barriers), wait queues (`more_work`) and kthreads (its worker);
ksoftirqd is a kthread too; SRCU stands on a mutex and on `synchronize_sched`;
the gadget on a kthread, signals, a completion and the callbacks of the USB
controller. Each module models the neighbours it needs by what they promise.
Drivers call all of them from tasks, timers and callbacks. `PROJECT.json` lists
every part with its status, and under `hazards` each line that is exposed.

## Modules

| module | models | run by |
|---|---|---|
| `AbstractLock` | what callers of a mutex may rely on: a free lock is acquired by one task, which releases it | through `Mutex` |
| `Mutex` | the mutex over four fast paths: `armv6` (this build), `xchg`, `dec`, `null` | `mutex` |
| `AbstractRWLock` | what callers of an rwsem may rely on | through `Rwsem` |
| `Rwsem` | the generic rwsem with task exit and reuse | `rwsem` |
| `Semaphore` | the ARM counting semaphore | `semaphore` |
| `Workqueue`, `MCWorkqueue` | works, delayed works, workers, flush, cancel, destroy; the MC module adds symmetry | `workqueue_*` |
| `AbstractGracePeriod` | what a synchronize primitive of the RCU family promises | through `Srcu` |
| `Srcu`, `MCSrcu` | SRCU; the MC module adds symmetry | `srcu_*` |
| `Kthread` | kernel threads, kthreadd and their clients | `kthread`, `kthread_comments` |
| `Softirq` | softirqs, tasklets, ksoftirqd | `softirq` |
| `FileStorage` | the mass storage gadget, in both of its builds | `file_storage` |
| `KernelLemmas` | facts about sequences and cardinality the proofs share | |
| `MutexProofs`, `SemaphoreProofs`, `RwsemProofs`, `SrcuProofs`, `SoftirqProofs`, `KthreadProofs`, `WorkqueueProofs` | theorems about the module of that name | |

The operators named `Faulty...` are deliberately wrong variants of the
definition they precede. They record, for each property, a slip in the code that
the property catches; no specification uses them.

### Conventions

* Each task, worker or client has a program counter `pc`, whose values are the
  places where another actor can come in between. A step is a section that
  nobody can see the inside of: one atomic access to a shared word, or
  everything done under a spinlock. Where a word is also accessed without the
  lock (the mutex's and the semaphore's `count`), each access to it is a step.
* `schedule()` is a step that is enabled when the task is runnable: its state is
  `RUNNING`, or it is `INTERRUPTIBLE` with a signal pending, as `schedule` in
  `kernel/sched.c` decides. A task that set its state and was preempted is not
  put to sleep (`PREEMPT_ACTIVE`), which the models keep: only `schedule()` sleeps.
* Each module has a `TypeOK`; where it is worth a theorem it is proved, and it is
  not among the properties of the runs.
* The models allow more interleavings than one CPU does (a step of anybody may
  come between two steps of anybody). What holds in them holds on that CPU.

### Mutex

`count`, `wait_lock`, `wait_list` are the fields of `struct mutex`; `state` and
`sig` are the task's state and pending signal; `prev` is the local of the
trylocks. `MutexLock`, `MutexTrylock` and `MutexUnlock` choose the fast path by
the constant-valued variable `asm`. `LockSlowpath`, `LockLoop`, `Schedule` and
`LockDone` are `__mutex_lock_common`; `UnlockSlowpath` and `WakeFirst` are
`__mutex_unlock_common_slowpath`; `TrylockRestore` is the second `xchg` of
mutex-xchg's trylock.

Run `mutex` (3 tasks, all fast paths): `MutualExclusion`; `CountTellsOwner`
(`count` is 1 exactly when there is no owner: none of the blind stores frees an
owned mutex or wipes out an unlock); `NoLostWakeup` (everybody asleep means an
owner with a negative count); `NoDanglingWaiter` (no on-stack waiter outlives its
function, `-EINTR` included); `ImplementsLock` (refinement of `AbstractLock`);
`NoHang`. The mutex is not fair, so the last says that a task waits for ever only
if the mutex changes hands for ever.

### Rwsem

`waiter[t]` is the on-stack `waiter->task` (not NULL), `usage` the reference
count of the task structure, `tsk` the local of the waker. Tasks may exit and be
replaced, so that a late `wake_up_process` would hit a freed or a new task if
the reference were missing.

Run `rwsem` (4 tasks): `WriterExcludes`, `ActivityCounts`, `HeadIsWriter` (what
`__up_read` relies on when it wakes the head as a writer without looking),
`ReferencesExact`, `ImplementsRWLock` (refinement of `AbstractRWLock`), and
`WaitersServed`, which is full starvation freedom: the hand-over is FIFO.

### Semaphore

`count` and `sleepers` are the fields; `wait` is the wait queue; `Units` the
initial count. `DownLoop` is one turn of the loop of `__down` and
`__down_interruptible` under `semaphore_lock`. `schedule()` takes a task off the
runqueue in a step of its own (`DeactivateTask`), since `try_to_wake_up`
(`TryToWakeUp`) counts only such a task as woken. `WakeUp` is `__wake_up_common`
with one exclusive task: it makes every waiter `RUNNING` up to and including the
first that was off the runqueue; the ones before it do not use the wake-up up.

Run `semaphore` (3 tasks, 1 unit, signals for two): `UnitsBound`, `Accounting`
(the equation behind the comments in `semaphore.c`), `NoLostWakeup`,
`QueueMatches`, `NoHang`. Failing trylocks and interrupted downs lower `count` for
a moment and can, by bad luck for ever, make a retry fail; `NoHang` says that this
and a busy semaphore are the only reasons to wait for ever.

### Workqueue

`pending` and `data` are the two parts of `work->data`; `worklist`, `current`
are fields of the cwq; `frames` is the stack of callbacks a worker is inside,
which the code does not keep; a client's name stands for its `wq_barrier`. Two
history variables: `snap` is what a flush found queued or running, `nested` says
whether a worker's innermost callback has flushed its own queue. Callers keep to
the documented contracts: nobody queues on or cancels a work of a queue that is
being destroyed (`Unused`, the guards of `QueueWork` and `CancelWork`). A
callback may requeue its own work, and flush its own queue `MaxDepth` deep.

* `workqueue_safety` (2 queues, a delayed work that moves between them, 2 clients,
  `MaxDepth = 2`): `OneOwner` (the PENDING bit means exactly one owner),
  `DataIsRight` (the `BUG_ON` of `run_workqueue`), `CancelStops`, `FlushWaits`,
  `StopClean` (a worker exits with nothing left, the comment of
  `cleanup_workqueue_thread`), `BarrierOnStack`. With two queues
  `try_to_grab_pending` may lock the wrong cwq. `CancelStops` and `FlushWaits` make
  one exception, for a callback that has flushed its own queue (`RunningFlat`,
  `SelfFlushing`); the next run shows that they must.
* `workqueue_nested` (`MaxDepth = 2`, a violation). When a callback flushes its own
  queue, the inner `run_workqueue` overwrites `current_work`, resets it to NULL and
  runs the barriers of others. A flush whose barrier it ran, or that finds the list
  empty, then returns while the outer callback runs, although the comment of
  `flush_workqueue` promises to "ensure that any scheduled work has run to
  completion" (`workqueue.c:380`); and `cancel_work_sync` no longer sees that
  callback and returns while it runs, although its comment says that it blocks
  "until a work_struct's callback has terminated" (`workqueue.c:501`).
  `WaitsAsDocumented` says that one of the two comments is true; the state TLC ends
  in refutes both.
* `workqueue_live` (1 queue, 1 delayed work, callbacks that may flush their own
  queue): `FlushReturns`, `QueuedRuns`. New
  flushes of a queue that is being destroyed can keep its worker in
  `run_workqueue`, so the last part of `FlushReturns` allows for them. That
  `__cancel_work_timer` leaves its loop is not claimed: against a work requeued
  for ever, fair scheduling does not promise it.

These runs switch the deadlock check off because the system may stop: when every
queue is destroyed no call is left to make.

### Srcu

`completed`, `c` and `mutex` are the fields of `struct srcu_struct`; `cpu` and
`sum` the loop of `srcu_readers_active_idx`; `waitFor` a history variable. The
memory model is the one the comments of `synchronize_srcu` argue about: accesses
may leave the critical section at either end, but not the `preempt_disable`
sections of the two reader functions; so a reader holds references from the first
`preempt_disable` to the last `preempt_enable`. `synchronize_sched` is what
`include/linux/rcupdate.h` promises of it: `inSched` is whom it still waits for. The
counters wrap at `CountMod`, which only has to exceed the number of readers, and
`completed` at twice `HalfInt`. The model is for any number of CPUs, the build's one
included.

* `srcu_safety` (2 readers, 2 updaters, 2 CPUs): `IdleRankEmpty` (what the next
  flip relies on), `ImplementsGracePeriod` (refinement of `AbstractGracePeriod`,
  the early exit included).
* `srcu_live` (1 CPU): `GracePeriodEnds`, although readers keep coming.

### Kthread

`kthreadd`, the threads and the clients that create and stop them are actors of
their own. A client's name stands for the `kthread_create_info` on its stack, a
thread's name for its `task_struct`, and also for what its `threadfn` returns.
kthreadd can be woken out of any sleep by another `kthread_create`, so its waits
are modelled step by step; the other completions have one undisturbed waiter.
Clients stop a thread at most once, and a thread somebody will stop does not
return by itself, which is the contract `kthread_stop`'s comment states.

A task structure without references is handed out again at once, as the slab
allocator may. The history variable `misled` is set when a thread skips its
`threadfn` although the stop it saw is not its owner's.

* `kthread` (2 clients, 2 task structures): `CreatedParked`, `NoDangling`,
  `StopResult`, `HandshakesEnd`. All but `NoDangling` hold until a thread is misled,
  which the next run shows to happen; a misled thread exits behind its owner's back,
  and nothing its owner was promised is true of it any more. `StopResult` says when
  `-EINTR` is returned: exactly when `threadfn` never ran.
* `kthread_comments` (a violation). `kthread_stop` drops its reference right after
  the wake-up, but `kthread_stop_info.k` keeps the address until the completion is
  consumed. In between the thread can exit and its `task_struct` go to a new thread,
  which then finds `kthread_should_stop()` true and exits without having run
  `threadfn`; `kthread.c:115` says "When woken, the thread will run @threadfn()". And
  a thread that was woken but stopped before it got the CPU gives its stopper
  `-EINTR`, which `kthread.c:186-187` reserves for "if wake_up_process() was never
  called". `ThreadsAsDocumented` says that one of the two comments is true
  (`WokenRuns`, `StopComment`); the state TLC ends in refutes both.

### Softirq

The state of each CPU is its pending mask, its two tasklet lists, its softirq
context (`spc`, at most one) and its ksoftirqd. Hardware interrupts come at any
step; tasks schedule, disable, enable and kill tasklets and have
`local_bh_disable` sections. The two tasklet softirqs, of which one has priority,
stand for the others too. On one CPU `tasklet_trylock` never fails, which is the
build; the run has two CPUs.

Run `softirq` (2 CPUs, 2 tasklets, one of them `_hi_`, 1 task,
`MaxSoftirqRestart = 2`): `SchedHeldOnce` (the SCHED bit means exactly one holder,
so the `BUG()` of `tasklet_action` is unreachable), `Excluded` (serialised with
itself, not running while disabled or killed), `PendingServed` (there is always
somebody who will look at the mask), `ScheduledRuns`.

### FileStorage

`state`, `ep0Tag`, `excTag`, `config`, `running`, `buf`, `busy`, `wakeup` are fields of
`struct fsg_dev`; `udc` and `dequeued` are the requests the controller driver
(`arcotg_udc.c`) owns and those it is giving back. `usb_ep_queue` takes or refuses
any request, whatever it did with the one before (`-ENOMEM` without a transfer
descriptor, `-ESHUTDOWN` without a speed); a bus reset gives every request back
(`reset_queues`) and does not stop later ones from being taken. The thread's `tpc`
follows `fsg_main_thread` through the command (`cmd`, `cbw`, `data`, `read` or
`write`, `reply`, `halt`, `pad`, `throw`, `status`), through `sleep_thread`, whose
return goes to `cont`, and through `handle_exception` (`h_...`). `usr` is the build:
with `CONFIG_USB_USR_MSC`, which the shipped `.config` sets, the ioctls of `msclib.c`
raise the exceptions and end the gadget; without it, ep0 requests and the module's
exit do. A command transfers nothing, or `MaxBlocks` buffers in or out; the host may
want one buffer more than the command has (`surplus`), which is padded or thrown
away, or ended by a halt; `residue` counts what is left, a short packet's rest
included. Errors and refused commands end a command early. Left out: the CB and CBI
transports, what a halt does to the pipe, the contents of commands, sense data and
the backing file, and binding again.

Run `file_storage` (both builds, `MaxBlocks = 2`, `MaxTag = 2`): `TransfersOwned`,
`UnbindSafe`, `SleepsSoundly`, `ExceptionsHandled`. The deadlock check is off: when
the gadget is gone nothing moves.

`SleepsSoundly` has an exception, kept by the history variable `refused`. After a
refused request the thread can sleep at `file_storage.c:3072` on a buffer that is
FULL and that nobody drains: the first of two requests of a write is refused, the
second taken and completed, `do_write` and `throw_away_data` end at the empty first
buffer, and after the status the next buffer to fill is the full one. The code says
of a failed `usb_ep_queue` that it can do no more than wait for a reset, and a reset
empties the buffers, so that this is what its author accepts; the property says that
nothing else leads to such a sleep. `ExceptionsHandled` has no exception.

The model also shows what is not claimed: `handle_exception` compares
`ep0_req_tag` and then queues the status without holding the lock, so a SETUP
packet between the two gets the status of its predecessor, against the comment
"Thus only the most recently received ep0 request will get a status-stage
response"; and a request of lower priority than a pending disconnect is dropped.

## Bounds

Three tasks are the fewest with an owner, a sleeper and a third that races with
both; the rwsem run uses four, for a writer, two readers that are granted together
and a reader or writer behind them. Two clients of a queue or of kthreadd are a
cancel against a flush, a stop against a create. Two readers are one that moves
between the CPUs and one that hides it in the sum; two updaters are needed for the
early exit, and `CountMod = 4` and `HalfInt = 4` make every counter wrap. Two tasklets
of different priority let one keep the CPU busy while the other waits;
`MaxSoftirqRestart = 2` makes both outcomes of the restart test happen. `MaxBlocks =
2` fills both buffers; `MaxTag = 2` allows an ep0 request that overtakes another
(user mode has no tags and is not bounded by it). `MaxDepth` bounds recursion in
the workqueue, where 2 is one callback that runs others from inside; the code itself
only warns beyond three, and the proofs are for any depth. Sequences and counters are
bounded by the number of actors; nothing else is capped. 32-bit overflow of the
locks' counters needs 2^31 tasks and is out of scope.

## Fairness

`FairSpec` assumes weak fairness of the steps of a task that is inside an
operation (the scheduler runs runnable tasks; callers are never obliged to make
a call) and of timers (they expire). Strong fairness is assumed for steps that
take a spinlock: on this one-CPU build a spinlock is a preemption or interrupt
disable, so it is free whenever the task that wants it runs; and for
`CallbackReturn`, as a callback finishes although it may queue its work first.
In the rwsem run holders also release what they hold. In `Srcu` readers leave
their critical sections (strongly fair: they need a CPU that others use for short
sections again and again). In `Softirq` a CPU goes on with its softirqs, else with
ksoftirqd; bh sections end; no interrupt is promised. In `FileStorage` the thread
and the cleanup run and the controller gives back what was dequeued; the host owes
nothing, and `ExceptionsHandled` is about runs in which requests stop coming.

## Proofs

Where a run checks a module on one small instance, these theorems hold for every
value of the constants that the module's named `ASSUME` allows: any finite set of
tasks, readers or clients, any number of CPUs, units, tasklets or task structures.
The runs evaluate those assumptions. Each inductive invariant was first checked by
TLC on the instance of its run.

`KernelLemmas` has what the kernel's lists and counters need: what appending,
prepending, removing and taking the head do to the elements of a list, to the places
of those that stay, and to its being free of duplicates, that a non-empty set of
natural numbers has a least element, and how the cardinality of a set of tasks
changes when one joins or leaves.

* `MutexProofs`: `TypeCorrect`, `Exclusion`, `CountMeaning`, `WaitersQueued`,
  `WakeupsKept`, `Refinement`. Neither exclusion nor the meaning of `count` is
  inductive: a trylock between its two accesses to `count` may restore a stale
  value. `IInv` adds `LockDiscipline` (the holder of `wait_lock` is where the lock
  is held, and only it), `TrylockShape` (what `prev` can be at each point) and
  `TrylockStoreSafe` (a pending store of a trylock cannot free an owned mutex).
  For the waiters, `QueueExact` says that a task is queued exactly from its entry
  into the slow path to its exit. `NoLostWakeup` speaks of moments when everybody
  is outside the code or asleep, which no step preserves; `Wakeful` says what every
  step does preserve: while somebody sleeps `count` is negative, or somebody is at
  a place (`Stirring`) from which it will wake a waiter, mark the mutex contended,
  or try for it.
* `SemaphoreProofs`: `TypeCorrect`, `BooksBalance`, `NeverTooMany`, `EntriesQueued`,
  `WakeupsKept`. `UnitsBound` alone is not inductive; with `Accounting` it is,
  because a task gets a unit only when `count` is not negative after its own
  operation. `RetvalShape` ties the error return to the exit path. The wake-ups
  are proved as for the mutex (`Dozing` is a task in `schedule()` that nobody has made
  runnable, on the runqueue or off it); that `wake_up` finds a sleeper behind entries
  that are still on the runqueue is by the least index of one.
* `RwsemProofs`: `TypeCorrect`, `Exclusion`, `ActivityMeaning`, `WriterHeadsQueue`,
  `References`, `Refinement`. During a hand-over `activity` is not the number of
  readers: those already granted run while the waker still counts them. `Phase`
  gives the value of `activity` at each place of the waker, `ListShape` ties the
  list to `waiter->task`, and both with `LockDiscipline` make the meaning of
  `activity` inductive. The refinement maps a step to the abstract one by what it
  does to the sets of readers and writers.
* `SrcuProofs`: `TypeCorrect`, `IdleRank`, `Refinement`. The sum over the CPUs is
  stated without recursion: `Tally` asks for partial sums `T` whose differences are
  the counters up to wrapping and whose first is the number of readers inside;
  `Summed` says that the scan's sum and what it has yet to add make a number that is
  never too small. So a zero sum means that the rank is empty, since fewer than
  `CountMod` readers exist. `Ranks` says who may still enter the rank being
  drained; `Grace` says, by `OneAdvance` and `Covered`, how much the flips since an
  updater read `completed` have done for it, which justifies its early exit.
* `SoftirqProofs`: `TypeCorrect`, `ScheduledOnce`, `Exclusion`, `NothingForgotten`.
  `SchedHeldOnce` counts holders; the proof uses `SchedMeans` (SCHED is set exactly
  when the tasklet is somewhere), `OnePlace` (then it is nowhere else) and `Listed`
  (no list has it twice). `Excluded` needs `RunOwner` (the RUN bit belongs to the
  CPU between trylock and unlock), `CountExact` (`count` is the number of disablers)
  and `Quiet` (who disabled or killed has waited for the function to end).
  `PendingServed` needs only `Awake`, which says where ksoftirqd may be asleep.
* `KthreadProofs`: `TypeCorrect`, `NothingDangles`, `StartsParked`,
  `StopReturnsResult`, `WokenThreadsRun`. `Creation` follows a
  `kthread_create_info` from the list through kthreadd (`Hands`, `Infos`) to the new
  thread (`Newborn`) and counts the references to task structures. The invariant of
  the other theorems, `Ownership`, says whose a thread is before its owner wakes it or
  tells it to stop (`Kept`), what `kthread_stop_info` means while its lock is held,
  the stopped thread's structure being perhaps a new thread's by then (`StopInfo`,
  `Ending`), and how the local `ret` and the recorded result agree (`Results`). None
  of these theorems assumes anything of the reuse of task structures:
  `StartsParked` and `StopReturnsResult` are the properties of the run, which hold
  until a thread is misled. `WokenThreadsRun` says how that comes about: in
  behaviours in which no new thread gets the structure `kthread_stop_info.k` points to
  (`NoEarlyReuse`, which nothing in the code enforces), `WokenRuns` holds, so early
  reuse is the only way it can fail.

* `WorkqueueProofs`: `TypeCorrect`, `OwnerCorrect`, `CwqCorrect`, `BarrierSafety`,
  `StopSafety`, `FlushSafety`, `CancelSafety`. `OneOwner` counts places; the proof
  speaks of one relation `At` of kinds, things and works, and of `Listed` (no
  worklist has an entry twice): each step moves a work to a new owner (`Moved`),
  releases it (`Released`) or leaves it alone (`Still`). `DataSet` adds to
  `DataIsRight` the moment before the timer is added. `Barriers` says that a
  barrier is in one place, on the queue its task flushes; with `FrameShape` (only
  the innermost callback can be a barrier) `BarrierOnStack` becomes inductive.
  `StopClean` needs `Closing`: after `destroy_workqueue` was called nobody queues
  (`Contract`, which rests on the caller's `Unused`), one task destroys
  (`Destroyers`), and once its barrier has run the worker leaves its loop only with
  an empty list, to which nothing but the barriers of a busy queue is ever added
  (`Drained`). For the last two theorems `Framed` says how
  `current_work` and the stack of callbacks agree: it is the innermost callback, unless
  that one has flushed its own queue; a cancel that has grabbed its work looks at the
  queue the work was last on and nobody starts it again (`Cancels`), and what a flush
  awaits is in front of its barrier or running, or in a callback that has flushed its
  own queue (`Snaps`). Together they are `Promises`. All the theorems hold for any
  `MaxDepth`: what `workqueue_nested` shows is the only way in which the two comments
  can be wrong.

Only model-checked: all liveness properties (fairness is beyond the prover), and the
invariants of `FileStorage`, whose proof has not been written.

## Not modelled

Memory management, file systems, block layer, network, crypto, sound and the
register-level drivers: upstream code, data transformations or hardware I/O.
Other architectures, and code the configuration leaves out (SMP, lockdep, mutex
debugging, the xadd rwsem). Classic RCU, the timer wheel, interrupt descriptors,
kfifo, rt-mutex and futex, clocks, bus frequency, I2C and regulators are within
reach of models of this kind and are left. Of the workqueue: creation and its failure, CPU
hotplug, the freezer, `schedule_on_each_cpu`, `execute_in_process_context`.

## Plan

1. Proofs: the invariants of `FileStorage` (`TransfersOwned`, `UnbindSafe`,
   `SleepsSoundly`).
2. `Timer` (deletion against expiry, `mod_timer`) and an abstract timer that
   delayed work is checked against; `Irq` (depth, pending and in-progress bits);
   the clock tree's use counts and the bus-frequency state machine.
