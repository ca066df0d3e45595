------------------------------- MODULE Rwsem -------------------------------
(***************************************************************************)
(* lib/rwsem-spinlock.c: the reader/writer semaphore of this kernel        *)
(* (CONFIG_RWSEM_GENERIC_SPINLOCK).  A release hands the semaphore over:   *)
(* it unlinks the first waiter, or the first run of readers, and clears    *)
(* waiter->task, which is the grant.  The granted task polls that field    *)
(* without wait_lock, so it may go on, return, take the semaphore again or *)
(* exit before the waker has called wake_up_process() on it.               *)
(*                                                                         *)
(* A section under wait_lock that wakes nobody is one step.  A section     *)
(* that wakes is one step per store to waiter->task.                       *)
(*                                                                         *)
(* The operators named Faulty... are deliberately wrong variants of the    *)
(* definition that follows them; no specification uses them.               *)
(***************************************************************************)
EXTENDS Integers, Sequences, FiniteSets, SequencesExt

CONSTANTS Tasks, NoTask

ASSUME RwsemAssumption == NoTask \notin Tasks /\ IsFiniteSet(Tasks)

VARIABLES
  activity,   \* sem->activity: -1 a writer, n > 0 readers, 0 nobody
  wait_lock,  \* the task holding sem->wait_lock, or NoTask
  wait_list,  \* sem->wait_list: the queued tasks, FIFO
  waiter,     \* waiter.task of each task: TRUE while not NULL
  flags,      \* waiter.flags of each task
  pc,         \* where each task is
  state,      \* task->state
  usage,      \* task->usage, the reference count of the task structure
  tsk,        \* the local "tsk" of the waker, NoTask when it has none
  woken       \* the local "woken" of __rwsem_do_wake

vars == <<activity, wait_lock, wait_list, waiter, flags, pc, state, usage, tsk, woken>>

READ  == "WAITING_FOR_READ"
WRITE == "WAITING_FOR_WRITE"

Pcs == { "idle",     \* does not hold the semaphore
         "reader", "writer",
         "check",    \* in the wait loop: look at waiter.task
         "sched",    \* in schedule()
         "wake_one", \* __up_read, holding wait_lock: wake a writer
         "do_wake1", \* __up_write, holding wait_lock: __rwsem_do_wake(sem, 1)
         "do_wake0", \* __downgrade_write: __rwsem_do_wake(sem, 0)
         "woke_w",   \* granted a writer, has to wake it up
         "woke_r1",  \* granted a reader for __up_write
         "woke_r0",  \* granted a reader for __downgrade_write
         "dead" }    \* exited

WakerPcs == {"wake_one", "do_wake1", "do_wake0", "woke_w", "woke_r1", "woke_r0"}

Goto(t, l) == pc' = [pc EXCEPT ![t] = l]

-----------------------------------------------------------------------------
(* __init_rwsem; a running task holds one reference to itself.             *)
Init ==
  /\ activity = 0
  /\ wait_lock = NoTask
  /\ wait_list = <<>>
  /\ waiter = [t \in Tasks |-> FALSE]
  /\ flags = [t \in Tasks |-> READ]
  /\ pc = [t \in Tasks |-> "idle"]
  /\ state = [t \in Tasks |-> "RUNNING"]
  /\ usage = [t \in Tasks |-> 1]
  /\ tsk = NoTask
  /\ woken = 0

(* Faulty: a reader is let in beside the writer.                           *)
FaultyGrantReadExcl(t) ==
  /\ wait_list = <<>>
  /\ activity' = activity + 1
  /\ Goto(t, "reader")
  /\ UNCHANGED <<wait_lock, wait_list, waiter, flags, state, usage, tsk, woken>>

(* Faulty: a reader is let in although somebody waits.                     *)
FaultyGrantReadBarge(t) ==
  /\ activity >= 0
  /\ activity' = activity + 1
  /\ Goto(t, "reader")
  /\ UNCHANGED <<wait_lock, wait_list, waiter, flags, state, usage, tsk, woken>>

(* The granted branches of __down_read and __down_read_trylock, and of     *)
(* __down_write_nested and __down_write_trylock.                           *)
GrantRead(t) ==
  /\ activity >= 0 /\ wait_list = <<>>
  /\ activity' = activity + 1
  /\ Goto(t, "reader")
  /\ UNCHANGED <<wait_lock, wait_list, waiter, flags, state, usage, tsk, woken>>

GrantWrite(t) ==
  /\ activity = 0 /\ wait_list = <<>>
  /\ activity' = -1
  /\ Goto(t, "writer")
  /\ UNCHANGED <<wait_lock, wait_list, waiter, flags, state, usage, tsk, woken>>

(* Faulty: no get_task_struct.                                             *)
FaultyEnqueue(t, f) ==
  /\ state' = [state EXCEPT ![t] = "UNINTERRUPTIBLE"]
  /\ waiter' = [waiter EXCEPT ![t] = TRUE]
  /\ flags' = [flags EXCEPT ![t] = f]
  /\ wait_list' = Append(wait_list, t)
  /\ Goto(t, "check")
  /\ UNCHANGED <<activity, wait_lock, usage, tsk, woken>>

(* The waiting branch of __down_read and __down_write_nested.              *)
Enqueue(t, f) ==
  /\ state' = [state EXCEPT ![t] = "UNINTERRUPTIBLE"]
  /\ waiter' = [waiter EXCEPT ![t] = TRUE]
  /\ flags' = [flags EXCEPT ![t] = f]
  /\ usage' = [usage EXCEPT ![t] = @ + 1]
  /\ wait_list' = Append(wait_list, t)
  /\ Goto(t, "check")
  /\ UNCHANGED <<activity, wait_lock, tsk, woken>>

DownRead(t) ==
  /\ pc[t] = "idle" /\ wait_lock = NoTask
  /\ \/ GrantRead(t)
     \/ ~(activity >= 0 /\ wait_list = <<>>) /\ Enqueue(t, READ)

DownWrite(t) ==
  /\ pc[t] = "idle" /\ wait_lock = NoTask
  /\ \/ GrantWrite(t)
     \/ ~(activity = 0 /\ wait_list = <<>>) /\ Enqueue(t, WRITE)

(* The trylocks that succeed; one that fails changes nothing.              *)
DownReadTrylock(t) == pc[t] = "idle" /\ wait_lock = NoTask /\ GrantRead(t)
DownWriteTrylock(t) == pc[t] = "idle" /\ wait_lock = NoTask /\ GrantWrite(t)

(* The wait loop: leave when granted, else sleep, and look again when      *)
(* woken, for whatever reason.                                             *)
CheckGranted(t) ==
  /\ pc[t] = "check"
  /\ \/ /\ ~waiter[t]
        /\ state' = [state EXCEPT ![t] = "RUNNING"]
        /\ Goto(t, IF flags[t] = READ THEN "reader" ELSE "writer")
     \/ /\ waiter[t]
        /\ Goto(t, "sched")
        /\ UNCHANGED state
  /\ UNCHANGED <<activity, wait_lock, wait_list, waiter, flags, usage, tsk, woken>>

Schedule(t) ==
  /\ pc[t] = "sched"
  /\ state[t] = "RUNNING"
  /\ state' = [state EXCEPT ![t] = "UNINTERRUPTIBLE"]
  /\ Goto(t, "check")
  /\ UNCHANGED <<activity, wait_lock, wait_list, waiter, flags, usage, tsk, woken>>

-----------------------------------------------------------------------------
(* Releases, up to the decision to wake somebody.                          *)
UpRead(t) ==
  /\ pc[t] = "reader" /\ wait_lock = NoTask
  /\ activity' = activity - 1
  /\ \/ /\ activity' = 0 /\ wait_list # <<>>
        /\ wait_lock' = t
        /\ Goto(t, "wake_one")
     \/ /\ ~(activity' = 0 /\ wait_list # <<>>)
        /\ Goto(t, "idle")
        /\ UNCHANGED wait_lock
  /\ UNCHANGED <<wait_list, waiter, flags, state, usage, tsk, woken>>

Release(t, act, l, quiet) ==
  /\ pc[t] = "writer" /\ wait_lock = NoTask
  /\ activity' = act
  /\ \/ /\ wait_list # <<>>
        /\ wait_lock' = t
        /\ Goto(t, l)
     \/ /\ wait_list = <<>>
        /\ Goto(t, quiet)
        /\ UNCHANGED wait_lock
  /\ UNCHANGED <<wait_list, waiter, flags, state, usage, tsk, woken>>

UpWrite(t) == Release(t, 0, "do_wake1", "idle")
DowngradeWrite(t) == Release(t, 1, "do_wake0", "reader")

(* list_del(&waiter->list); tsk = waiter->task; waiter->task = NULL of the *)
(* first waiter.  From here on the waiter is its owner's dead stack.       *)
GrantHead ==
  /\ wait_list' = Tail(wait_list)
  /\ waiter' = [waiter EXCEPT ![Head(wait_list)] = FALSE]
  /\ tsk' = Head(wait_list)

(* __rwsem_wake_one_writer: does not look at the flags of the waiter.      *)
WakeOneWriter(t) ==
  /\ pc[t] = "wake_one"
  /\ activity' = -1
  /\ GrantHead
  /\ Goto(t, "woke_w")
  /\ UNCHANGED <<wait_lock, flags, state, usage, woken>>

(* __rwsem_do_wake up to the first grant.                                  *)
DoWake(t) ==
  \/ /\ pc[t] = "do_wake1" /\ flags[Head(wait_list)] = WRITE
     /\ activity' = -1
     /\ GrantHead
     /\ Goto(t, "woke_w")
     /\ UNCHANGED <<wait_lock, flags, state, usage, woken>>
  \/ /\ pc[t] = "do_wake0" /\ flags[Head(wait_list)] = WRITE
     /\ wait_lock' = NoTask
     /\ Goto(t, "reader")
     /\ UNCHANGED <<activity, wait_list, waiter, flags, state, usage, tsk, woken>>
  \/ /\ pc[t] \in {"do_wake0", "do_wake1"} /\ flags[Head(wait_list)] = READ
     /\ woken' = 0
     /\ GrantHead
     /\ Goto(t, IF pc[t] = "do_wake1" THEN "woke_r1" ELSE "woke_r0")
     /\ UNCHANGED <<activity, wait_lock, flags, state, usage>>

(* wake_up_process(tsk); put_task_struct(tsk).                             *)
WakeUpAndPut ==
  /\ state' = [state EXCEPT ![tsk] = "RUNNING"]
  /\ usage' = [usage EXCEPT ![tsk] = @ - 1]

WakeWriter(t) ==
  /\ pc[t] = "woke_w"
  /\ WakeUpAndPut
  /\ tsk' = NoTask
  /\ wait_lock' = NoTask
  /\ Goto(t, "idle")
  /\ UNCHANGED <<activity, wait_list, waiter, flags, woken>>

(* Faulty: the last grant of the loop is not counted.                      *)
FaultyWakeReaderCount(t) ==
  /\ pc[t] \in {"woke_r0", "woke_r1"}
  /\ WakeUpAndPut
  /\ \/ /\ wait_list # <<>> /\ flags[Head(wait_list)] = READ
        /\ woken' = woken + 1
        /\ GrantHead
        /\ UNCHANGED <<activity, wait_lock, pc>>
     \/ /\ ~(wait_list # <<>> /\ flags[Head(wait_list)] = READ)
        /\ activity' = activity + woken
        /\ woken' = 0
        /\ tsk' = NoTask
        /\ wait_lock' = NoTask
        /\ Goto(t, IF pc[t] = "woke_r1" THEN "idle" ELSE "reader")
        /\ UNCHANGED <<wait_list, waiter>>
  /\ UNCHANGED flags

(* Faulty: the loop grants whoever is next.                                *)
FaultyWakeReaderAll(t) ==
  /\ pc[t] \in {"woke_r0", "woke_r1"}
  /\ WakeUpAndPut
  /\ \/ /\ wait_list # <<>>
        /\ woken' = woken + 1
        /\ GrantHead
        /\ UNCHANGED <<activity, wait_lock, pc>>
     \/ /\ wait_list = <<>>
        /\ activity' = activity + woken + 1
        /\ woken' = 0
        /\ tsk' = NoTask
        /\ wait_lock' = NoTask
        /\ Goto(t, IF pc[t] = "woke_r1" THEN "idle" ELSE "reader")
        /\ UNCHANGED <<wait_list, waiter>>
  /\ UNCHANGED flags

(* Faulty: one reader is granted instead of all the readers in front.      *)
FaultyWakeReaderOne(t) ==
  /\ pc[t] \in {"woke_r0", "woke_r1"}
  /\ WakeUpAndPut
  /\ activity' = activity + woken + 1
  /\ woken' = 0
  /\ tsk' = NoTask
  /\ wait_lock' = NoTask
  /\ Goto(t, IF pc[t] = "woke_r1" THEN "idle" ELSE "reader")
  /\ UNCHANGED <<wait_list, waiter, flags>>

(* The loop of __rwsem_do_wake: wake the granted reader, then grant the    *)
(* next one, or add the grants to activity and return.                     *)
WakeReader(t) ==
  /\ pc[t] \in {"woke_r0", "woke_r1"}
  /\ WakeUpAndPut
  /\ \/ /\ wait_list # <<>> /\ flags[Head(wait_list)] = READ
        /\ woken' = woken + 1
        /\ GrantHead
        /\ UNCHANGED <<activity, wait_lock, pc>>
     \/ /\ ~(wait_list # <<>> /\ flags[Head(wait_list)] = READ)
        /\ activity' = activity + woken + 1
        /\ woken' = 0
        /\ tsk' = NoTask
        /\ wait_lock' = NoTask
        /\ Goto(t, IF pc[t] = "woke_r1" THEN "idle" ELSE "reader")
        /\ UNCHANGED <<wait_list, waiter>>
  /\ UNCHANGED flags

-----------------------------------------------------------------------------
(* A task exits and its own reference is dropped; its slot is used again   *)
(* for a new task once nobody refers to the old one.  The two references a *)
(* task starts with, both gone when it is released, count as one.          *)
Exit(t) ==
  /\ pc[t] = "idle"
  /\ usage' = [usage EXCEPT ![t] = @ - 1]
  /\ Goto(t, "dead")
  /\ UNCHANGED <<activity, wait_lock, wait_list, waiter, flags, state, tsk, woken>>

Fork(t) ==
  /\ pc[t] = "dead" /\ usage[t] = 0
  /\ usage' = [usage EXCEPT ![t] = 1]
  /\ state' = [state EXCEPT ![t] = "RUNNING"]
  /\ Goto(t, "idle")
  /\ UNCHANGED <<activity, wait_lock, wait_list, waiter, flags, tsk, woken>>

Call(t) ==
  \/ DownRead(t) \/ DownWrite(t) \/ DownReadTrylock(t) \/ DownWriteTrylock(t)
  \/ DowngradeWrite(t) \/ Exit(t) \/ Fork(t)

Up(t) == UpRead(t) \/ UpWrite(t)

Continue(t) ==
  \/ CheckGranted(t) \/ Schedule(t)
  \/ WakeOneWriter(t) \/ DoWake(t) \/ WakeWriter(t) \/ WakeReader(t)

Next == \E t \in Tasks : Call(t) \/ Up(t) \/ Continue(t)

Spec == Init /\ [][Next]_vars

(* Tasks keep running and a holder releases in the end.  A release that    *)
(* keeps trying for wait_lock gets it: in this UP build the spinlock is    *)
(* free whenever its taker runs.                                           *)
Fairness == \A t \in Tasks : WF_vars(Continue(t)) /\ SF_vars(Up(t))

FairSpec == Spec /\ Fairness
-----------------------------------------------------------------------------
TypeOK ==
  /\ activity \in -1..Cardinality(Tasks)
  /\ wait_lock \in Tasks \cup {NoTask}
  /\ wait_list \in Seq(Tasks)
  /\ waiter \in [Tasks -> BOOLEAN]
  /\ flags \in [Tasks -> {READ, WRITE}]
  /\ pc \in [Tasks -> Pcs]
  /\ state \in [Tasks -> {"RUNNING", "UNINTERRUPTIBLE"}]
  /\ usage \in [Tasks -> Nat]
  /\ tsk \in Tasks \cup {NoTask}
  /\ woken \in Nat

(* A task holds the semaphore from the store that grants it.               *)
Granted(t, f) == pc[t] \in {"check", "sched"} /\ ~waiter[t] /\ flags[t] = f

Reads(t)  == pc[t] \in {"reader", "do_wake0", "woke_r0"} \/ Granted(t, READ)
Writes(t) == pc[t] = "writer" \/ Granted(t, WRITE)

(* A writer excludes every other holder, also while a release is handing   *)
(* the semaphore to waiters that already run.                              *)
WriterExcludes ==
  \A s, t \in Tasks : Writes(s) /\ (Reads(t) \/ Writes(t)) => s = t

Readers == {t \in Tasks : Reads(t)}

(* Outside the critical sections, activity is what struct rw_semaphore's   *)
(* comment says: the number of readers, -1 for a writer, 0 for nobody.     *)
ActivityCounts ==
  wait_lock = NoTask =>
    activity = IF \E t \in Tasks : Writes(t) THEN -1 ELSE Cardinality(Readers)

(* What __up_read relies on when it wakes "a single writer" without        *)
(* looking: behind active readers, the queue begins with a writer; and     *)
(* nobody waits for a free semaphore.                                      *)
HeadIsWriter ==
  wait_lock = NoTask /\ wait_list # <<>> =>
    /\ activity # 0
    /\ activity > 0 => flags[Head(wait_list)] = WRITE

(* The reference taken by get_task_struct covers the late wake-up: a       *)
(* queued waiter, or the one being woken, is never a freed task, and no    *)
(* reference is leaked.                                                    *)
ReferencesExact ==
  \A t \in Tasks :
    usage[t] = (IF pc[t] = "dead" THEN 0 ELSE 1)
             + (IF t \in ToSet(wait_list) THEN 1 ELSE 0)
             + (IF t = tsk THEN 1 ELSE 0)

(* Everybody who queues gets the semaphore: FIFO hand-over leaves nobody   *)
(* behind, and no wake-up is lost or spent on a task that sleeps again.    *)
WaitersServed ==
  \A t \in Tasks : (pc[t] \in {"check", "sched"}) ~> (pc[t] \in {"reader", "writer"})

Writer == IF \E t \in Tasks : Writes(t) THEN CHOOSE t \in Tasks : Writes(t) ELSE NoTask

ARW == INSTANCE AbstractRWLock WITH readers <- Readers, writer <- Writer, Tasks <- Tasks, NoTask <- NoTask

(* Callers see a reader/writer lock.                                       *)
ImplementsRWLock == ARW!Spec
=============================================================================
