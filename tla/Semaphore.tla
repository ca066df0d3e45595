----------------------------- MODULE Semaphore -----------------------------
(***************************************************************************)
(* arch/arm/kernel/semaphore.c and include/asm-arm/{semaphore,locks}.h:    *)
(* the counting semaphore.  down() and up() touch count with one atomic    *)
(* operation; a down() that made it negative goes through __down(), which  *)
(* queues the task, folds everybody's debt into "sleepers" under the       *)
(* global semaphore_lock and sleeps.                                       *)
(*                                                                         *)
(* A section under semaphore_lock accesses count once and is one step,     *)
(* except that of __down_trylock, which wakes a waiter inside it.          *)
(*                                                                         *)
(* The operators named Faulty... are deliberately wrong variants of the    *)
(* definition that follows them; no specification uses them.               *)
(***************************************************************************)
EXTENDS Integers, Sequences, FiniteSets, SequencesExt

CONSTANTS
  Tasks, NoTask,
  Units,      \* the units the semaphore is made with
  Signalled   \* the tasks signals are sent to; the others are kernel threads

ASSUME SemaphoreAssumption ==
  /\ NoTask \notin Tasks
  /\ IsFiniteSet(Tasks)
  /\ Units \in Nat
  /\ Signalled \subseteq Tasks

VARIABLES
  count,     \* sem->count
  sleepers,  \* sem->sleepers
  wait,      \* sem->wait: the tasks with an exclusive entry queued, FIFO
  semlock,   \* the task holding semaphore_lock across steps, or NoTask
  pc,        \* where each task is
  mode,      \* the state the task sleeps in
  state,     \* task->state
  sig,       \* signal_pending(task)
  retval     \* the local "retval" of __down_interruptible

vars == <<count, sleepers, wait, semlock, pc, mode, state, sig, retval>>

Modes == {"INTERRUPTIBLE", "UNINTERRUPTIBLE"}

Pcs == { "idle",   \* holds no unit
         "held",   \* holds a unit
         "enq",    \* down made count negative: join the wait queue
         "first",  \* __down: take semaphore_lock, sleepers++
         "again",  \* __down: back from schedule(), take semaphore_lock
         "sched",  \* in schedule(), still on the runqueue
         "off",    \* schedule() took it off the runqueue; RUNNING: it is back
         "leave",  \* out of the loop, on the wait queue, state not yet reset
         "rem",    \* __down_interruptible: RUNNING again, on the wait queue
         "wake",   \* off the wait queue: wake_up() the next one and return
         "tfail",  \* down_trylock made count negative: __down_trylock
         "twake",  \* __down_trylock, holding semaphore_lock: wake_up()
         "upw" }   \* up() found count <= 0: __up()

Goto(t, l) == pc' = [pc EXCEPT ![t] = l]

-----------------------------------------------------------------------------
(* sema_init(sem, Units - #H), with the tasks H holding a unit from the    *)
(* start: H = {} is an ordinary semaphore, init_MUTEX_LOCKED is Units = 1  *)
(* with a holder.                                                          *)
Init ==
  \E H \in SUBSET Tasks :
    /\ Cardinality(H) <= Units
    /\ count = Units - Cardinality(H)
    /\ sleepers = 0
    /\ wait = <<>>
    /\ semlock = NoTask
    /\ pc = [t \in Tasks |-> IF t \in H THEN "held" ELSE "idle"]
    /\ mode = [t \in Tasks |-> "UNINTERRUPTIBLE"]
    /\ state = [t \in Tasks |-> "RUNNING"]
    /\ sig = [t \in Tasks |-> FALSE]
    /\ retval = [t \in Tasks |-> 0]

(* Faulty: the slow path is entered one too late.                          *)
FaultyDownOp(t, slow) ==
  /\ pc[t] = "idle"
  /\ count' = count - 1
  /\ Goto(t, IF count' < -1 THEN slow ELSE "held")

(* __down_op and __down_op_ret: decrement, and call the slow path when the *)
(* result is negative.                                                     *)
DownOp(t, slow) ==
  /\ pc[t] = "idle"
  /\ count' = count - 1
  /\ Goto(t, IF count' < 0 THEN slow ELSE "held")

(* down and down_interruptible.                                            *)
Down(t, m) ==
  /\ DownOp(t, "enq")
  /\ mode' = [mode EXCEPT ![t] = m]
  /\ UNCHANGED <<sleepers, wait, semlock, state, sig, retval>>

DownTrylock(t) ==
  /\ DownOp(t, "tfail")
  /\ UNCHANGED <<sleepers, wait, semlock, mode, state, sig, retval>>

(* tsk->state = ...; add_wait_queue_exclusive().                           *)
AddWaitQueueExclusive(t) ==
  /\ pc[t] = "enq"
  /\ state' = [state EXCEPT ![t] = mode[t]]
  /\ wait' = Append(wait, t)
  /\ Goto(t, "first")
  /\ UNCHANGED <<count, sleepers, semlock, mode, sig, retval>>

(* The section under semaphore_lock of __down and __down_interruptible,    *)
(* from the ++ or the return of schedule() to the unlock; s is "sleepers". *)
Interrupted(t) == mode[t] = "INTERRUPTIBLE" /\ sig[t]

(* Faulty: an interrupted down corrects count by one too little.           *)
FaultyDownLoopEintr(t) ==
  LET s == IF pc[t] = "first" THEN sleepers + 1 ELSE sleepers IN
  /\ pc[t] \in {"first", "again"}
  /\ semlock = NoTask
  /\ \/ /\ Interrupted(t)
        /\ retval' = [retval EXCEPT ![t] = -4]
        /\ sleepers' = 0
        /\ count' = count + s - 1
        /\ Goto(t, "leave")
     \/ /\ ~Interrupted(t)
        /\ count' = count + s - 1
        /\ sleepers' = IF count' < 0 THEN 1 ELSE 0
        /\ Goto(t, IF count' < 0 THEN "sched" ELSE "leave")
        /\ UNCHANGED retval
  /\ UNCHANGED <<wait, semlock, mode, state, sig>>

DownLoop(t) ==
  LET s == IF pc[t] = "first" THEN sleepers + 1 ELSE sleepers IN
  /\ pc[t] \in {"first", "again"}
  /\ semlock = NoTask
  /\ \/ /\ Interrupted(t)
        /\ retval' = [retval EXCEPT ![t] = -4]
        /\ sleepers' = 0
        /\ count' = count + s
        /\ Goto(t, "leave")
     \/ /\ ~Interrupted(t)
        /\ count' = count + s - 1
        /\ sleepers' = IF count' < 0 THEN 1 ELSE 0
        /\ Goto(t, IF count' < 0 THEN "sched" ELSE "leave")
        /\ UNCHANGED retval
  /\ UNCHANGED <<wait, semlock, mode, state, sig>>

(* schedule() takes a task that is not RUNNING off the runqueue, except an *)
(* interruptible one with a signal pending, and returns when the task is   *)
(* on it and runs again.                                                   *)
Runnable(t) ==
  \/ state[t] = "RUNNING"
  \/ state[t] = "INTERRUPTIBLE" /\ sig[t]

DeactivateTask(t) ==
  /\ pc[t] = "sched"
  /\ ~Runnable(t)
  /\ Goto(t, "off")
  /\ UNCHANGED <<count, sleepers, wait, semlock, mode, state, sig, retval>>

Schedule(t) ==
  /\ pc[t] \in {"sched", "off"}
  /\ Runnable(t)
  /\ state' = [state EXCEPT ![t] = mode[t]]
  /\ Goto(t, "again")
  /\ UNCHANGED <<count, sleepers, wait, semlock, mode, sig, retval>>

(* Leaving: __down first leaves the queue, __down_interruptible first sets *)
(* its state.                                                              *)
RemoveWaitQueue(t) ==
  \E i \in 1..Len(wait) : wait[i] = t /\ wait' = RemoveAt(wait, i)

(* Faulty: __down does not leave the wait queue.                           *)
FaultyLeaveLoop(t) ==
  /\ pc[t] = "leave"
  /\ state' = [state EXCEPT ![t] = "RUNNING"]
  /\ Goto(t, IF mode[t] = "UNINTERRUPTIBLE" THEN "wake" ELSE "rem")
  /\ UNCHANGED <<count, sleepers, wait, semlock, mode, sig, retval>>

LeaveLoop(t) ==
  /\ pc[t] = "leave"
  /\ state' = [state EXCEPT ![t] = "RUNNING"]
  /\ \/ /\ mode[t] = "UNINTERRUPTIBLE"
        /\ RemoveWaitQueue(t)
        /\ Goto(t, "wake")
     \/ /\ mode[t] = "INTERRUPTIBLE"
        /\ Goto(t, "rem")
        /\ UNCHANGED wait
  /\ UNCHANGED <<count, sleepers, semlock, mode, sig, retval>>

LeaveQueue(t) ==
  /\ pc[t] = "rem"
  /\ RemoveWaitQueue(t)
  /\ Goto(t, "wake")
  /\ UNCHANGED <<count, sleepers, semlock, mode, state, sig, retval>>

(* What makes try_to_wake_up return 1: the task is off the runqueue.  One  *)
(* that is still on it is only made RUNNING.                               *)
TryToWakeUp(t) == pc[t] = "off" /\ state[t] # "RUNNING"

(* wake_up(&sem->wait): __wake_up_common stops behind the first exclusive  *)
(* waiter that try_to_wake_up put back on the runqueue.                    *)
WakeUp ==
  LET off   == {i \in 1..Len(wait) : TryToWakeUp(wait[i])}
      woken == {wait[i] : i \in {j \in 1..Len(wait) : \A k \in off : j <= k}} IN
  state' = [t \in Tasks |-> IF t \in woken THEN "RUNNING" ELSE state[t]]

(* Faulty: the winner does not pass the wake-up on.                        *)
FaultyDownReturn(t) ==
  /\ pc[t] = "wake"
  /\ Goto(t, IF retval[t] = 0 THEN "held" ELSE "idle")
  /\ retval' = [retval EXCEPT ![t] = 0]
  /\ mode' = [mode EXCEPT ![t] = "UNINTERRUPTIBLE"]
  /\ UNCHANGED <<count, sleepers, wait, semlock, state, sig>>

DownReturn(t) ==
  /\ pc[t] = "wake"
  /\ WakeUp
  /\ Goto(t, IF retval[t] = 0 THEN "held" ELSE "idle")
  /\ retval' = [retval EXCEPT ![t] = 0]
  /\ mode' = [mode EXCEPT ![t] = "UNINTERRUPTIBLE"]
  /\ UNCHANGED <<count, sleepers, wait, semlock, sig>>

-----------------------------------------------------------------------------
(* __down_trylock: give the unit back together with the sleepers' debt,    *)
(* which a woken sleeper takes on again.                                   *)
DownTrylockFailed(t) ==
  /\ pc[t] = "tfail"
  /\ semlock = NoTask
  /\ sleepers' = 0
  /\ count' = count + sleepers + 1
  /\ \/ /\ count' >= 0
        /\ semlock' = t
        /\ Goto(t, "twake")
     \/ /\ count' < 0
        /\ Goto(t, "idle")
        /\ UNCHANGED semlock
  /\ UNCHANGED <<wait, mode, state, sig, retval>>

DownTrylockWake(t) ==
  /\ pc[t] = "twake"
  /\ WakeUp
  /\ semlock' = NoTask
  /\ Goto(t, "idle")
  /\ UNCHANGED <<count, sleepers, wait, mode, sig, retval>>

(* Faulty: no wake-up when count comes back to 0.                          *)
FaultyUp(t) ==
  /\ pc[t] = "held"
  /\ count' = count + 1
  /\ Goto(t, IF count' < 0 THEN "upw" ELSE "idle")
  /\ UNCHANGED <<sleepers, wait, semlock, mode, state, sig, retval>>

(* up.                                                                     *)
Up(t) ==
  /\ pc[t] = "held"
  /\ count' = count + 1
  /\ Goto(t, IF count' <= 0 THEN "upw" ELSE "idle")
  /\ UNCHANGED <<sleepers, wait, semlock, mode, state, sig, retval>>

(* __up.                                                                   *)
UpWakeup(t) ==
  /\ pc[t] = "upw"
  /\ WakeUp
  /\ Goto(t, "idle")
  /\ UNCHANGED <<count, sleepers, wait, semlock, mode, sig, retval>>

(* signal_wake_up(), and the return to user space that consumes a signal.  *)
Signal(t) ==
  /\ t \in Signalled /\ ~sig[t]
  /\ sig' = [sig EXCEPT ![t] = TRUE]
  /\ state' = IF state[t] = "INTERRUPTIBLE"
              THEN [state EXCEPT ![t] = "RUNNING"] ELSE state
  /\ UNCHANGED <<count, sleepers, wait, semlock, pc, mode, retval>>

HandleSignal(t) ==
  /\ pc[t] = "idle" /\ sig[t]
  /\ sig' = [sig EXCEPT ![t] = FALSE]
  /\ UNCHANGED <<count, sleepers, wait, semlock, pc, mode, state, retval>>

Call(t) == (\E m \in Modes : Down(t, m)) \/ DownTrylock(t)

Continue(t) ==
  \/ AddWaitQueueExclusive(t) \/ DownLoop(t) \/ DeactivateTask(t) \/ Schedule(t)
  \/ LeaveLoop(t) \/ LeaveQueue(t) \/ DownReturn(t) \/ DownTrylockFailed(t) \/ DownTrylockWake(t)
  \/ Up(t) \/ UpWakeup(t)

Next == \E t \in Tasks : Call(t) \/ Continue(t) \/ Signal(t) \/ HandleSignal(t)

Spec == Init /\ [][Next]_vars

(* Tasks keep running, a holder calls up() in the end, and who keeps       *)
(* trying for semaphore_lock gets it: in this UP build it is free whenever *)
(* its taker runs.                                                         *)
Fairness ==
  \A t \in Tasks : WF_vars(Continue(t)) /\ SF_vars(DownLoop(t) \/ DownTrylockFailed(t))

FairSpec == Spec /\ Fairness
-----------------------------------------------------------------------------
TypeOK ==
  /\ count \in Int
  /\ sleepers \in {0, 1}
  /\ wait \in Seq(Tasks)
  /\ semlock \in Tasks \cup {NoTask}
  /\ pc \in [Tasks -> Pcs]
  /\ mode \in [Tasks -> Modes]
  /\ state \in [Tasks -> Modes \cup {"RUNNING"}]
  /\ sig \in [Tasks -> BOOLEAN]
  /\ retval \in [Tasks -> {0, -4}]

(* The tasks that have a unit, and those that have taken one off count and *)
(* not settled it under semaphore_lock yet.                                *)
HasUnit(t) == pc[t] = "held" \/ (pc[t] \in {"leave", "rem", "wake"} /\ retval[t] = 0)
Owing(t)   == pc[t] \in {"enq", "first", "tfail"}

Holders == {t \in Tasks : HasUnit(t)}
Debtors == {t \in Tasks : Owing(t)}

(* No more units are out than the semaphore was made with.                 *)
UnitsBound == Cardinality(Holders) <= Units

(* The two-way counter: count is what is left of the units after the       *)
(* holders, the downs in flight and the one debt that stands for all the   *)
(* sleepers; down, the trylock failure, -EINTR and up all keep the books.  *)
Accounting == count = Units - Cardinality(Holders) - Cardinality(Debtors) - sleepers

Asleep(t) == pc[t] = "off" /\ ~Runnable(t)

(* No wakeup is lost: when everybody is outside the semaphore code or      *)
(* asleep in it, nobody sleeps while a unit is free.                       *)
NoLostWakeup ==
  (\A t \in Tasks : pc[t] \in {"idle", "held"} \/ Asleep(t))
    => ((\E t \in Tasks : Asleep(t)) => Cardinality(Holders) = Units)

(* A wait queue entry lives on the stack of __down: it is queued exactly   *)
(* while its task is between the queueing and the removal.                 *)
QueueMatches ==
  /\ ToSet(wait) = {t \in Tasks : pc[t] \in {"first", "again", "sched", "off", "leave", "rem"}}
  /\ IsInjective(wait)

(* A task waits for ever only if others for ever keep the semaphore busy:  *)
(* all units are taken, or calls that will fail (a trylock, an interrupted *)
(* down) have count down for a moment, again and again.  The wake-up that  *)
(* a winner, an interrupted down or a failed trylock passes on arrives.    *)
NoHang ==
  \A t \in Tasks :
    <>[](pc[t] \in {"enq", "first", "again", "sched", "off"})
      => []<>(Cardinality(Holders) = Units \/ \E u \in Tasks : Owing(u))
=============================================================================
