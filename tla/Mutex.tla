------------------------------- MODULE Mutex -------------------------------
(***************************************************************************)
(* kernel/mutex.c: the blocking mutex, with the four lock/unlock fast      *)
(* paths it can be built with:                                             *)
(*   "armv6"  include/asm-arm/mutex.h, the one of this kernel's i.MX37     *)
(*            build: one ldrex/strex attempt, the slow path on any doubt   *)
(*   "xchg"   include/asm-generic/mutex-xchg.h (ARM before v6)             *)
(*   "dec"    include/asm-generic/mutex-dec.h, without cmpxchg             *)
(*   "null"   include/asm-generic/mutex-null.h (CONFIG_DEBUG_MUTEXES)      *)
(*                                                                         *)
(* Every access to lock->count is one step, because the fast paths touch   *)
(* count without wait_lock.  What a task does under wait_lock between two  *)
(* such accesses is not visible to the others and belongs to the step.     *)
(***************************************************************************)
EXTENDS Integers, Sequences, SequencesExt

(* The operators named Faulty... are deliberately wrong variants of the    *)
(* definition that follows them, one plausible slip each; no specification *)
(* uses them.  They document what the properties at the end would catch.   *)

CONSTANTS Tasks, NoTask, FastPaths

AllFastPaths == {"armv6", "xchg", "dec", "null"}

ASSUME MutexAssumption ==
  /\ NoTask \notin Tasks
  /\ FastPaths \subseteq AllFastPaths

VARIABLES
  asm,        \* the fast path the kernel was built with; never changes
  count,      \* lock->count: 1 unlocked, 0 locked, negative: maybe waiters
  wait_lock,  \* the task holding lock->wait_lock, or NoTask
  wait_list,  \* lock->wait_list: the tasks whose waiter is queued, FIFO
  pc,         \* where each task is in the mutex code
  mode,       \* the "state" argument of __mutex_lock_common
  state,      \* task->state
  sig,        \* signal_pending(task)
  prev        \* the local "prev" of the trylock paths, 0 outside them

vars == <<asm, count, wait_lock, wait_list, pc, mode, state, sig, prev>>

Modes == {"INTERRUPTIBLE", "UNINTERRUPTIBLE"}

(* Program counters, by what the task does next.                           *)
Pcs == { "idle",    \* outside the mutex code, not the owner
         "held",    \* outside the mutex code, the owner
         "slow",    \* lock fast path failed: take wait_lock
         "loop",    \* queued and holding wait_lock: retry the xchg
         "sched",   \* in schedule()
         "relock",  \* back from schedule(): take wait_lock again
         "got",     \* won, still holding wait_lock: leave the queue
         "unlk",    \* unlock fast path failed: take wait_lock
         "wake",    \* holding wait_lock: wake the first waiter
         "try2",    \* mutex-xchg trylock: put the contended value back
         "tslow",   \* trylock slow path: take wait_lock
         "tset" }   \* trylock slow path, holding wait_lock: set count to 0

(* Inside __mutex_lock_common with a waiter on the stack.                  *)
WaiterPcs == {"loop", "sched", "relock", "got"}

(* Program counters at which wait_lock is held.                            *)
LockedPcs == {"loop", "got", "wake", "tset"}

Goto(t, l) == pc' = [pc EXCEPT ![t] = l]

-----------------------------------------------------------------------------
(* __mutex_init: unlocked, no waiters.                                     *)
Init ==
  /\ asm \in FastPaths
  /\ count = 1
  /\ wait_lock = NoTask
  /\ wait_list = <<>>
  /\ pc = [t \in Tasks |-> "idle"]
  /\ mode = [t \in Tasks |-> "UNINTERRUPTIBLE"]
  /\ state = [t \in Tasks |-> "RUNNING"]
  /\ sig = [t \in Tasks |-> FALSE]
  /\ prev = [t \in Tasks |-> 0]

(* Faulty: the store-exclusive flag is not or-ed into the result.          *)
FaultyFastpathLockV6(t) ==
  /\ asm = "armv6"
  /\ \/ /\ count' = count - 1
        /\ Goto(t, IF count' = 0 THEN "held" ELSE "slow")
     \/ /\ Goto(t, IF count - 1 = 0 THEN "held" ELSE "slow")
        /\ UNCHANGED count

(* The lock fast paths.  On ARMv6 the decrement is tried once and its      *)
(* store-exclusive may fail without a reason (__ex_flag = 1).              *)
FastpathLockV6(t) ==
  /\ asm = "armv6"
  /\ \/ /\ count' = count - 1
        /\ Goto(t, IF count' = 0 THEN "held" ELSE "slow")
     \/ /\ Goto(t, "slow")
        /\ UNCHANGED count

FastpathLockXchg(t) ==
  /\ asm = "xchg"
  /\ count' = 0
  /\ Goto(t, IF count = 1 THEN "held" ELSE "slow")

FastpathLockDec(t) ==
  /\ asm = "dec"
  /\ count' = count - 1
  /\ Goto(t, IF count' < 0 THEN "slow" ELSE "held")

FastpathLockNull(t) ==
  /\ asm = "null"
  /\ Goto(t, "slow")
  /\ UNCHANGED count

(* mutex_lock and mutex_lock_interruptible.                                *)
MutexLock(t, m) ==
  /\ pc[t] = "idle"
  /\ mode' = [mode EXCEPT ![t] = m]
  /\ FastpathLockV6(t) \/ FastpathLockXchg(t) \/ FastpathLockDec(t) \/ FastpathLockNull(t)
  /\ UNCHANGED <<asm, wait_lock, wait_list, state, sig, prev>>

(* __mutex_lock_common up to the first xchg: queue the waiter, then mark   *)
(* the lock contended.  An old value of 1 means the lock was free.         *)
LockSlowpath(t) ==
  /\ pc[t] = "slow"
  /\ wait_lock = NoTask
  /\ wait_lock' = t
  /\ wait_list' = Append(wait_list, t)
  /\ count' = -1
  /\ Goto(t, IF count = 1 THEN "got" ELSE "loop")
  /\ UNCHANGED <<asm, mode, state, sig, prev>>

(* mutex_remove_waiter.                                                    *)
RemoveWaiter(t) ==
  \E i \in 1..Len(wait_list) :
    /\ wait_list[i] = t
    /\ wait_list' = RemoveAt(wait_list, i)

(* Faulty: the -EINTR return leaves the waiter queued.                     *)
FaultyLockLoopEintr(t) ==
  /\ \/ pc[t] = "loop" /\ wait_lock = t
     \/ pc[t] = "relock" /\ wait_lock = NoTask
  /\ count' = -1
  /\ \/ /\ count = 1
        /\ wait_lock' = t
        /\ Goto(t, "got")
        /\ UNCHANGED state
     \/ /\ count # 1 /\ mode[t] = "INTERRUPTIBLE" /\ sig[t]
        /\ wait_lock' = NoTask
        /\ Goto(t, "idle")
        /\ UNCHANGED state
     \/ /\ count # 1 /\ ~(mode[t] = "INTERRUPTIBLE" /\ sig[t])
        /\ state' = [state EXCEPT ![t] = mode[t]]
        /\ wait_lock' = NoTask
        /\ Goto(t, "sched")
  /\ UNCHANGED <<asm, wait_list, mode, sig, prev>>

(* The body of the for loop of __mutex_lock_common, from the xchg to the   *)
(* next schedule(): the lock is won, given up for a signal (-EINTR), or    *)
(* waited for.                                                             *)
LockLoop(t) ==
  /\ \/ pc[t] = "loop" /\ wait_lock = t
     \/ pc[t] = "relock" /\ wait_lock = NoTask
  /\ count' = -1
  /\ \/ /\ count = 1
        /\ wait_lock' = t
        /\ Goto(t, "got")
        /\ UNCHANGED <<wait_list, state>>
     \/ /\ count # 1 /\ mode[t] = "INTERRUPTIBLE" /\ sig[t]
        /\ RemoveWaiter(t)
        /\ wait_lock' = NoTask
        /\ Goto(t, "idle")
        /\ UNCHANGED state
     \/ /\ count # 1 /\ ~(mode[t] = "INTERRUPTIBLE" /\ sig[t])
        /\ state' = [state EXCEPT ![t] = mode[t]]
        /\ wait_lock' = NoTask
        /\ Goto(t, "sched")
        /\ UNCHANGED wait_list
  /\ UNCHANGED <<asm, mode, sig, prev>>

(* schedule() runs the task again once something made it runnable; it does *)
(* not put an interruptible task with a signal pending to sleep at all.    *)
Runnable(t) ==
  \/ state[t] = "RUNNING"
  \/ state[t] = "INTERRUPTIBLE" /\ sig[t]

Schedule(t) ==
  /\ pc[t] = "sched"
  /\ Runnable(t)
  /\ state' = [state EXCEPT ![t] = "RUNNING"]
  /\ Goto(t, "relock")
  /\ UNCHANGED <<asm, count, wait_lock, wait_list, mode, sig, prev>>

(* Faulty: count is set to 0 although waiters are left.                    *)
FaultyLockDone(t) ==
  /\ pc[t] = "got"
  /\ RemoveWaiter(t)
  /\ count' = 0
  /\ wait_lock' = NoTask
  /\ Goto(t, "held")
  /\ UNCHANGED <<asm, mode, state, sig, prev>>

(* The "done" label of __mutex_lock_common.                                *)
LockDone(t) ==
  /\ pc[t] = "got"
  /\ RemoveWaiter(t)
  /\ count' = IF wait_list' = <<>> THEN 0 ELSE count
  /\ wait_lock' = NoTask
  /\ Goto(t, "held")
  /\ UNCHANGED <<asm, mode, state, sig, prev>>

-----------------------------------------------------------------------------
(* Faulty: the slow path unlocks in every build.                           *)
FaultyNeedsToUnlock == TRUE

(* __mutex_slowpath_needs_to_unlock().                                     *)
NeedsToUnlock == asm # "xchg"

FastpathUnlockV6(t) ==
  /\ asm = "armv6"
  /\ \/ /\ count' = count + 1
        /\ Goto(t, IF count = 0 THEN "idle" ELSE "unlk")
     \/ /\ Goto(t, "unlk")
        /\ UNCHANGED count

FastpathUnlockXchg(t) ==
  /\ asm = "xchg"
  /\ count' = 1
  /\ Goto(t, IF count = 0 THEN "idle" ELSE "unlk")

FastpathUnlockDec(t) ==
  /\ asm = "dec"
  /\ count' = count + 1
  /\ Goto(t, IF count' <= 0 THEN "unlk" ELSE "idle")

FastpathUnlockNull(t) ==
  /\ asm = "null"
  /\ Goto(t, "unlk")
  /\ UNCHANGED count

MutexUnlock(t) ==
  /\ pc[t] = "held"
  /\ \/ FastpathUnlockV6(t)
     \/ FastpathUnlockXchg(t)
     \/ FastpathUnlockDec(t)
     \/ FastpathUnlockNull(t)
  /\ UNCHANGED <<asm, wait_lock, wait_list, mode, state, sig, prev>>

(* Faulty: the first waiter is woken only if the lock was contended twice. *)
FaultyWakeFirst(t) ==
  /\ pc[t] = "wake"
  /\ state' = IF Len(wait_list) > 1
              THEN [state EXCEPT ![Head(wait_list)] = "RUNNING"]
              ELSE state
  /\ wait_lock' = NoTask
  /\ Goto(t, "idle")
  /\ UNCHANGED <<asm, count, wait_list, mode, sig, prev>>

(* __mutex_unlock_common_slowpath: free the lock if the fast path did not, *)
(* then wake the first waiter, which stays queued until it has the lock.   *)
UnlockSlowpath(t) ==
  /\ pc[t] = "unlk"
  /\ wait_lock = NoTask
  /\ wait_lock' = t
  /\ count' = IF NeedsToUnlock THEN 1 ELSE count
  /\ Goto(t, "wake")
  /\ UNCHANGED <<asm, wait_list, mode, state, sig, prev>>

WakeFirst(t) ==
  /\ pc[t] = "wake"
  /\ state' = IF wait_list # <<>>
              THEN [state EXCEPT ![Head(wait_list)] = "RUNNING"]
              ELSE state
  /\ wait_lock' = NoTask
  /\ Goto(t, "idle")
  /\ UNCHANGED <<asm, count, wait_list, mode, sig, prev>>

-----------------------------------------------------------------------------
(* mutex_trylock.  A trylock that fails at once changes nothing and is not *)
(* a step.                                                                 *)
FastpathTrylockV6(t) ==
  /\ asm = "armv6"
  /\ count = 1
  /\ count' = 0
  /\ Goto(t, "held")
  /\ UNCHANGED prev

FastpathTrylockXchg(t) ==
  /\ asm = "xchg"
  /\ count # 0
  /\ count' = 0
  /\ prev' = [prev EXCEPT ![t] = IF count = 1 THEN 0 ELSE count]
  /\ Goto(t, IF count = 1 THEN "held" ELSE "try2")

FastpathTrylockSlow(t) ==
  /\ asm \in {"dec", "null"}
  /\ Goto(t, "tslow")
  /\ UNCHANGED <<count, prev>>

MutexTrylock(t) ==
  /\ pc[t] = "idle"
  /\ FastpathTrylockV6(t) \/ FastpathTrylockXchg(t) \/ FastpathTrylockSlow(t)
  /\ UNCHANGED <<asm, wait_lock, wait_list, mode, state, sig>>

(* Faulty: the value found by the second xchg is ignored.                  *)
FaultyTrylockRestore(t) ==
  /\ pc[t] = "try2"
  /\ count' = prev[t]
  /\ Goto(t, "idle")
  /\ prev' = [prev EXCEPT ![t] = 0]
  /\ UNCHANGED <<asm, wait_lock, wait_list, mode, state, sig>>

(* mutex-xchg.h: the lock was contended; restore that, and own the lock    *)
(* after all if it was unlocked meanwhile.                                 *)
TrylockRestore(t) ==
  /\ pc[t] = "try2"
  /\ count' = prev[t]
  /\ Goto(t, IF count = 1 THEN "held" ELSE "idle")
  /\ prev' = [prev EXCEPT ![t] = 0]
  /\ UNCHANGED <<asm, wait_lock, wait_list, mode, state, sig>>

(* __mutex_trylock_slowpath.                                               *)
TrylockSlowpath(t) ==
  /\ pc[t] = "tslow"
  /\ wait_lock = NoTask
  /\ wait_lock' = t
  /\ prev' = [prev EXCEPT ![t] = count]
  /\ count' = -1
  /\ Goto(t, "tset")
  /\ UNCHANGED <<asm, wait_list, mode, state, sig>>

TrylockDone(t) ==
  /\ pc[t] = "tset"
  /\ count' = IF wait_list = <<>> THEN 0 ELSE count
  /\ wait_lock' = NoTask
  /\ Goto(t, IF prev[t] = 1 THEN "held" ELSE "idle")
  /\ prev' = [prev EXCEPT ![t] = 0]
  /\ UNCHANGED <<asm, wait_list, mode, state, sig>>

-----------------------------------------------------------------------------
(* A signal is sent to a task: signal_wake_up() marks it pending and makes *)
(* an interruptible sleeper runnable.  It is consumed outside the mutex.   *)
Signal(t) ==
  /\ ~sig[t]
  /\ sig' = [sig EXCEPT ![t] = TRUE]
  /\ state' = IF state[t] = "INTERRUPTIBLE"
              THEN [state EXCEPT ![t] = "RUNNING"] ELSE state
  /\ UNCHANGED <<asm, count, wait_lock, wait_list, pc, mode, prev>>

HandleSignal(t) ==
  /\ pc[t] = "idle"
  /\ sig[t]
  /\ sig' = [sig EXCEPT ![t] = FALSE]
  /\ UNCHANGED <<asm, count, wait_lock, wait_list, pc, mode, state, prev>>

(* The calls a task may make, and the steps that carry on a call.          *)
Call(t) ==
  \/ \E m \in Modes : MutexLock(t, m)
  \/ MutexTrylock(t)

Continue(t) ==
  \/ LockSlowpath(t) \/ LockLoop(t) \/ Schedule(t) \/ LockDone(t)
  \/ MutexUnlock(t) \/ UnlockSlowpath(t) \/ WakeFirst(t)
  \/ TrylockRestore(t) \/ TrylockSlowpath(t) \/ TrylockDone(t)

Next ==
  \E t \in Tasks : Call(t) \/ Continue(t) \/ Signal(t) \/ HandleSignal(t)

Spec == Init /\ [][Next]_vars

(* The steps that begin by taking wait_lock.                               *)
TakesWaitLock(t) ==
  LockSlowpath(t) \/ LockLoop(t) \/ UnlockSlowpath(t) \/ TrylockSlowpath(t)

(* A task inside the mutex code keeps running, and an owner unlocks the    *)
(* mutex in the end; nobody has to call anything.  A task that keeps       *)
(* trying for wait_lock gets it: this kernel is built without CONFIG_SMP,  *)
(* where a spinlock only disables preemption and is free whenever its      *)
(* taker runs.                                                             *)
Fairness == \A t \in Tasks : WF_vars(Continue(t)) /\ SF_vars(TakesWaitLock(t))

FairSpec == Spec /\ Fairness

-----------------------------------------------------------------------------
TypeOK ==
  /\ asm \in FastPaths
  /\ count \in Int /\ count <= 1
  /\ wait_lock \in Tasks \cup {NoTask}
  /\ wait_list \in Seq(Tasks)
  /\ pc \in [Tasks -> Pcs]
  /\ mode \in [Tasks -> Modes]
  /\ state \in [Tasks -> Modes \cup {"RUNNING"}]
  /\ sig \in [Tasks -> BOOLEAN]
  /\ prev \in [Tasks -> Int]

(* The task owns the mutex: from the atomic operation on count that won it *)
(* to the one that gives it up.                                            *)
Owns(t) ==
  \/ pc[t] \in {"held", "got"}
  \/ pc[t] = "unlk" /\ NeedsToUnlock
  \/ pc[t] = "tset" /\ prev[t] = 1

(* At most one task owns the mutex, whatever races the fast paths, the     *)
(* slow paths, the trylocks and the signals run (mutex_lock's "Lock the    *)
(* mutex exclusively for this task").                                      *)
MutualExclusion == \A s, t \in Tasks : Owns(s) /\ Owns(t) => s = t

(* lock->count is 1 exactly when nobody owns the mutex: the stores to      *)
(* count that are made without looking (the xchg to -1, the atomic_set to  *)
(* 0 of the done label and of the trylock slow path, the trylock's         *)
(* restore) never wipe out an unlock and never free an owned mutex.        *)
CountTellsOwner == (count = 1) <=> \A t \in Tasks : ~Owns(t)

Asleep(t) == pc[t] = "sched" /\ ~Runnable(t)

(* No wakeup is lost: when every task is outside the mutex code or asleep  *)
(* in it, a sleeper implies an owner whose unlock will take the slow path  *)
(* (count is negative), the only one that wakes anybody.                   *)
NoLostWakeup ==
  (\A t \in Tasks : pc[t] \in {"idle", "held"} \/ Asleep(t))
    => \A t \in Tasks : Asleep(t) => \E u \in Tasks : pc[u] = "held" /\ count < 0

(* The wait list holds exactly the tasks inside __mutex_lock_common, each  *)
(* once: no waiter structure survives on the list after the function that  *)
(* has it on its stack returned, in particular with -EINTR.                *)
NoDanglingWaiter ==
  /\ ToSet(wait_list) = {t \in Tasks : pc[t] \in WaiterPcs}
  /\ IsInjective(wait_list)

(* A task waits for ever only if the mutex is handed round among others    *)
(* for ever (the mutex is not fair: a fast path may barge in).             *)
NoHang ==
  \A t \in Tasks :
    <>[](pc[t] \in {"slow"} \cup WaiterPcs)
      => /\ []<>(\E u \in Tasks : Owns(u))
         /\ []<>(\A u \in Tasks : ~Owns(u))

(* The mutex implements the abstract lock.                                 *)
owner == IF \E t \in Tasks : Owns(t) THEN CHOOSE t \in Tasks : Owns(t) ELSE NoTask

AL == INSTANCE AbstractLock WITH Tasks <- Tasks, NoTask <- NoTask, owner <- owner

(* Every step of the mutex acquires a free lock for one task, is the       *)
(* owner's release, or is invisible to the callers.                        *)
ImplementsLock == AL!Spec
=============================================================================
