---------------------------- MODULE MutexProofs ----------------------------
(***************************************************************************)
(* Proofs about the mutex of kernel/mutex.c for any number of tasks and    *)
(* every fast path: type correctness, mutual exclusion, the meaning of     *)
(* count, and that the mutex implements the abstract lock.                 *)
(***************************************************************************)
EXTENDS Mutex, KernelLemmas

(* A task is at a program counter under wait_lock exactly while it holds   *)
(* wait_lock.                                                              *)
LockDiscipline == \A t \in Tasks : pc[t] \in LockedPcs <=> wait_lock = t

(* Which build each trylock program counter belongs to, and the contended  *)
(* value that mutex-xchg's trylock puts back.                              *)
TrylockShape ==
  \A t \in Tasks :
    /\ pc[t] = "try2" => asm = "xchg" /\ prev[t] < 0
    /\ pc[t] \in {"tslow", "tset"} => asm \in {"dec", "null"}

(* While a trylock slow path is about to store 0, count stays negative, or *)
(* the owner is already committed to the unlock slow path: the store does  *)
(* not wipe out an unlock.                                                 *)
TrylockStoreSafe ==
  \A t \in Tasks :
    pc[t] = "tset" => count < 0 \/ \E u \in Tasks : pc[u] = "unlk"

(* The inductive invariant.                                                *)
IInv ==
  /\ TypeOK
  /\ MutualExclusion
  /\ CountTellsOwner
  /\ LockDiscipline
  /\ TrylockShape
  /\ TrylockStoreSafe

-----------------------------------------------------------------------------
(* Type correctness: every variable keeps the shape of the C object it     *)
(* models, and count never exceeds 1.                                      *)
LEMMA TypeStep == ASSUME TypeOK, CountTellsOwner, TrylockShape, [Next]_vars PROVE TypeOK'
<1> USE DEF TypeOK, Pcs, Modes, Goto
<1>1. CASE UNCHANGED vars
  BY <1>1 DEF vars
<1>2. ASSUME NEW t \in Tasks, NEW m \in Modes, MutexLock(t, m) PROVE TypeOK'
  <2>1. CASE FastpathLockV6(t)
    BY <1>2, <2>1 DEF MutexLock, FastpathLockV6
  <2>2. CASE FastpathLockXchg(t)
    BY <1>2, <2>2 DEF MutexLock, FastpathLockXchg
  <2>3. CASE FastpathLockDec(t)
    BY <1>2, <2>3 DEF MutexLock, FastpathLockDec
  <2>4. CASE FastpathLockNull(t)
    BY <1>2, <2>4 DEF MutexLock, FastpathLockNull
  <2> QED
    BY <1>2, <2>1, <2>2, <2>3, <2>4 DEF MutexLock
<1>3. ASSUME NEW t \in Tasks, MutexTrylock(t) PROVE TypeOK'
  <2>1. CASE FastpathTrylockV6(t)
    BY <1>3, <2>1 DEF MutexTrylock, FastpathTrylockV6
  <2>2. CASE FastpathTrylockXchg(t)
    BY <1>3, <2>2 DEF MutexTrylock, FastpathTrylockXchg
  <2>3. CASE FastpathTrylockSlow(t)
    BY <1>3, <2>3 DEF MutexTrylock, FastpathTrylockSlow
  <2> QED
    BY <1>3, <2>1, <2>2, <2>3 DEF MutexTrylock
<1>4. ASSUME NEW t \in Tasks, LockSlowpath(t) PROVE TypeOK'
  <2>1. wait_list' \in Seq(Tasks)
    BY <1>4, AppendProperties DEF LockSlowpath
  <2> QED
    BY <1>4, <2>1 DEF LockSlowpath
<1>5. ASSUME NEW t \in Tasks, RemoveWaiter(t) PROVE wait_list' \in Seq(Tasks)
  BY <1>5, RemoveAtType DEF RemoveWaiter
<1>6. ASSUME NEW t \in Tasks, LockLoop(t) PROVE TypeOK'
  <2>1. wait_list' \in Seq(Tasks)
    BY <1>5, <1>6 DEF LockLoop
  <2> QED
    <3>1. pc' \in [Tasks -> Pcs] /\ count' = -1 /\ wait_lock' \in Tasks \cup {NoTask}
      BY <1>6 DEF LockLoop
    <3>2. state' \in [Tasks -> Modes \cup {"RUNNING"}]
      BY <1>6 DEF LockLoop
    <3> QED
      BY <1>6, <2>1, <3>1, <3>2 DEF LockLoop
<1>7. ASSUME NEW t \in Tasks, Schedule(t) PROVE TypeOK'
  BY <1>7 DEF Schedule
<1>8. ASSUME NEW t \in Tasks, LockDone(t) PROVE TypeOK'
  <2>1. wait_list' \in Seq(Tasks)
    BY <1>5, <1>8 DEF LockDone
  <2> QED
    BY <1>8, <2>1 DEF LockDone
<1>9. ASSUME NEW t \in Tasks, MutexUnlock(t) PROVE TypeOK'
  <2>1. count # 1
    BY <1>9 DEF MutexUnlock, CountTellsOwner, Owns
  <2> QED
    <3>1. CASE FastpathUnlockV6(t)
      <4>1. count' \in Int /\ count' <= 1
        BY <2>1, <3>1 DEF FastpathUnlockV6
      <4>2. pc' \in [Tasks -> Pcs]
        BY <3>1 DEF FastpathUnlockV6
      <4> QED
        BY <1>9, <4>1, <4>2 DEF MutexUnlock
    <3>2. CASE FastpathUnlockXchg(t)
      BY <1>9, <3>2 DEF MutexUnlock, FastpathUnlockXchg
    <3>3. CASE FastpathUnlockDec(t)
      BY <1>9, <2>1, <3>3 DEF MutexUnlock, FastpathUnlockDec
    <3>4. CASE FastpathUnlockNull(t)
      BY <1>9, <3>4 DEF MutexUnlock, FastpathUnlockNull
    <3> QED
      BY <1>9, <3>1, <3>2, <3>3, <3>4 DEF MutexUnlock
<1>10. ASSUME NEW t \in Tasks, UnlockSlowpath(t) PROVE TypeOK'
  BY <1>10 DEF UnlockSlowpath
<1>11. ASSUME NEW t \in Tasks, WakeFirst(t) PROVE TypeOK'
  <2>1. wait_list # <<>> => Head(wait_list) \in Tasks
    BY HeadTailProperties
  <2> QED
    BY <1>11, <2>1 DEF WakeFirst
<1>12. ASSUME NEW t \in Tasks, TrylockRestore(t) PROVE TypeOK'
  BY <1>12 DEF TrylockRestore, TrylockShape
<1>13. ASSUME NEW t \in Tasks, TrylockSlowpath(t) PROVE TypeOK'
  BY <1>13 DEF TrylockSlowpath
<1>14. ASSUME NEW t \in Tasks, TrylockDone(t) PROVE TypeOK'
  BY <1>14 DEF TrylockDone
<1>15. ASSUME NEW t \in Tasks, Signal(t) PROVE TypeOK'
  BY <1>15 DEF Signal
<1>16. ASSUME NEW t \in Tasks, HandleSignal(t) PROVE TypeOK'
  BY <1>16 DEF HandleSignal
<1> QED
  BY <1>1, <1>2, <1>3, <1>4, <1>6, <1>7, <1>8, <1>9, <1>10, <1>11, <1>12, <1>13,
     <1>14, <1>15, <1>16 DEF Next, Call, Continue

(* The initial states satisfy the invariant.                               *)
LEMMA InitInv == Init => IInv
<1> SUFFICES ASSUME Init PROVE IInv
  OBVIOUS
<1>1. TypeOK
  BY DEF Init, TypeOK, Pcs, Modes
<1>2. \A t \in Tasks : pc[t] = "idle" /\ ~Owns(t)
  BY DEF Init, Owns
<1>3. LockDiscipline
  BY <1>2, MutexAssumption DEF Init, LockDiscipline, LockedPcs
<1> QED
  BY <1>1, <1>2, <1>3 DEF Init, IInv, MutualExclusion, CountTellsOwner, TrylockShape, TrylockStoreSafe

(* What is left to show of a step once its types are known.                *)
StepGoal ==
  /\ MutualExclusion'
  /\ CountTellsOwner'
  /\ LockDiscipline'
  /\ TrylockShape'
  /\ TrylockStoreSafe'

(* Every step preserves the invariant.  Only the atomic operations on      *)
(* count and the steps that take or drop wait_lock can disturb it.         *)
LEMMA InvStep == ASSUME IInv, [Next]_vars PROVE IInv'
<1> USE MutexAssumption DEF StepGoal, TypeOK, Goto, Owns, NeedsToUnlock, LockedPcs,
        MutualExclusion, CountTellsOwner, LockDiscipline, TrylockShape, TrylockStoreSafe
<1>0. TypeOK /\ MutualExclusion /\ CountTellsOwner /\ LockDiscipline /\ TrylockShape /\ TrylockStoreSafe
  BY DEF IInv
<1>1. ASSUME NEW t \in Tasks, NEW m \in Modes, MutexLock(t, m) PROVE StepGoal
  <2>1. CASE FastpathLockV6(t)
    BY <1>0, <1>1, <2>1 DEF MutexLock, FastpathLockV6
  <2>2. CASE FastpathLockXchg(t)
    BY <1>0, <1>1, <2>2 DEF MutexLock, FastpathLockXchg
  <2>3. CASE FastpathLockDec(t)
    BY <1>0, <1>1, <2>3 DEF MutexLock, FastpathLockDec
  <2>4. CASE FastpathLockNull(t)
    BY <1>0, <1>1, <2>4 DEF MutexLock, FastpathLockNull
  <2> QED
    BY <1>1, <2>1, <2>2, <2>3, <2>4 DEF MutexLock
<1>2. ASSUME NEW t \in Tasks, MutexTrylock(t) PROVE StepGoal
  <2>1. CASE FastpathTrylockV6(t)
    BY <1>0, <1>2, <2>1 DEF MutexTrylock, FastpathTrylockV6
  <2>2. CASE FastpathTrylockXchg(t)
    BY <1>0, <1>2, <2>2 DEF MutexTrylock, FastpathTrylockXchg
  <2>3. CASE FastpathTrylockSlow(t)
    BY <1>0, <1>2, <2>3 DEF MutexTrylock, FastpathTrylockSlow
  <2> QED
    BY <1>2, <2>1, <2>2, <2>3 DEF MutexTrylock
<1>3. ASSUME NEW t \in Tasks, MutexUnlock(t) PROVE StepGoal
  <2>1. CASE FastpathUnlockV6(t)
    <3>1. Owns(t) /\ count # 1 /\ \A u \in Tasks \ {t} : ~Owns(u)
      BY <1>0, <1>3 DEF MutexUnlock
    <3>2. \A u \in Tasks \ {t} : pc'[u] = pc[u] /\ prev'[u] = prev[u] /\ ~Owns(u)'
      BY <1>0, <1>3, <2>1, <3>1 DEF MutexUnlock, FastpathUnlockV6
    <3>3. CASE pc'[t] = "idle"
      <4>1. count' = 1
        BY <1>0, <2>1, <3>3 DEF FastpathUnlockV6
      <4>2. ~Owns(t)'
        BY <3>3
      <4>3. MutualExclusion' /\ CountTellsOwner'
        <5> HIDE DEF Owns
        <5> QED
          BY <3>2, <4>1, <4>2
      <4>4. LockDiscipline' /\ TrylockShape' /\ TrylockStoreSafe'
        BY <1>0, <1>3, <2>1, <3>2, <3>3 DEF MutexUnlock, FastpathUnlockV6
      <4> QED
        BY <4>3, <4>4
    <3>4. CASE pc'[t] = "unlk"
      <4>1. count' # 1
        BY <1>0, <2>1, <3>1, <3>4 DEF FastpathUnlockV6
      <4>2. Owns(t)'
        BY <1>3, <2>1, <3>4 DEF MutexUnlock, FastpathUnlockV6
      <4>3. MutualExclusion' /\ CountTellsOwner'
        <5> HIDE DEF Owns
        <5> QED
          BY <3>2, <4>1, <4>2
      <4>4. LockDiscipline' /\ TrylockShape' /\ TrylockStoreSafe'
        BY <1>0, <1>3, <2>1, <3>2, <3>4 DEF MutexUnlock, FastpathUnlockV6
      <4> QED
        BY <4>3, <4>4
    <3> QED
      BY <1>0, <2>1, <3>3, <3>4 DEF FastpathUnlockV6
  <2>2. CASE FastpathUnlockXchg(t)
    BY <1>0, <1>3, <2>2 DEF MutexUnlock, FastpathUnlockXchg
  <2>3. CASE FastpathUnlockDec(t)
    BY <1>0, <1>3, <2>3 DEF MutexUnlock, FastpathUnlockDec
  <2>4. CASE FastpathUnlockNull(t)
    BY <1>0, <1>3, <2>4 DEF MutexUnlock, FastpathUnlockNull
  <2> QED
    BY <1>3, <2>1, <2>2, <2>3, <2>4 DEF MutexUnlock
<1>4. ASSUME NEW t \in Tasks, LockSlowpath(t) PROVE StepGoal
  BY <1>0, <1>4 DEF LockSlowpath
<1>5. ASSUME NEW t \in Tasks, LockLoop(t) PROVE StepGoal
  BY <1>0, <1>5 DEF LockLoop
<1>6. ASSUME NEW t \in Tasks, Schedule(t) PROVE StepGoal
  BY <1>0, <1>6 DEF Schedule
<1>7. ASSUME NEW t \in Tasks, LockDone(t) PROVE StepGoal
  BY <1>0, <1>7 DEF LockDone
<1>8. ASSUME NEW t \in Tasks, UnlockSlowpath(t) PROVE StepGoal
  BY <1>0, <1>8 DEF UnlockSlowpath
<1>9. ASSUME NEW t \in Tasks, WakeFirst(t) PROVE StepGoal
  BY <1>0, <1>9 DEF WakeFirst
<1>10. ASSUME NEW t \in Tasks, TrylockRestore(t) PROVE StepGoal
  BY <1>0, <1>10 DEF TrylockRestore
<1>11. ASSUME NEW t \in Tasks, TrylockSlowpath(t) PROVE StepGoal
  BY <1>0, <1>11 DEF TrylockSlowpath
<1>12. ASSUME NEW t \in Tasks, TrylockDone(t) PROVE StepGoal
  <2>0. pc[t] = "tset" /\ wait_lock = t /\ asm \in {"dec", "null"} /\ asm' = asm
    BY <1>0, <1>12 DEF TrylockDone
  <2>1. count # 1 /\ count' # 1
    <3>1. count # 1
      BY <1>0, <2>0
    <3> QED
      BY <1>12, <3>1 DEF TrylockDone
  <2>2. \A u \in Tasks \ {t} : pc'[u] = pc[u] /\ prev'[u] = prev[u] /\ (Owns(u)' <=> Owns(u))
    BY <1>0, <1>12 DEF TrylockDone
  <2>3. Owns(t)' <=> Owns(t)
    BY <1>0, <1>12 DEF TrylockDone
  <2>4. MutualExclusion' /\ CountTellsOwner'
    <3> HIDE DEF Owns
    <3> QED
      BY <1>0, <2>1, <2>2, <2>3
  <2>5. LockDiscipline' /\ TrylockShape' /\ TrylockStoreSafe'
    BY <1>0, <1>12, <2>2 DEF TrylockDone
  <2> QED
    BY <2>4, <2>5
<1>13. ASSUME NEW t \in Tasks, Signal(t) PROVE StepGoal
  BY <1>0, <1>13 DEF Signal
<1>14. ASSUME NEW t \in Tasks, HandleSignal(t) PROVE StepGoal
  BY <1>0, <1>14 DEF HandleSignal
<1>15. ASSUME UNCHANGED vars PROVE StepGoal
  BY <1>0, <1>15 DEF vars
<1>16. TypeOK'
  BY <1>0, TypeStep
<1> QED
  BY <1>1, <1>2, <1>3, <1>4, <1>5, <1>6, <1>7, <1>8, <1>9, <1>10, <1>11, <1>12, <1>13, <1>14, <1>15, <1>16 DEF Next, Call, Continue, IInv

(* IInv is an invariant.                                                   *)
LEMMA Invariance == Spec => []IInv
<1>1. IInv /\ [Next]_vars => IInv'
  BY InvStep
<1> QED
  BY InitInv, <1>1, PTL DEF Spec

(* Every variable keeps its type and lock->count never exceeds 1, for any  *)
(* set of tasks and every fast path the mutex can be built with.           *)
THEOREM TypeCorrect == Spec => []TypeOK
BY Invariance, PTL DEF IInv

(* mutex_lock, mutex_lock_interruptible and mutex_trylock never let two    *)
(* tasks own the mutex at once, for any set of tasks and every fast path.  *)
THEOREM Exclusion == Spec => []MutualExclusion
BY Invariance, PTL DEF IInv

(* lock->count is 1 exactly when nobody owns the mutex: no blind store to  *)
(* count in the fast or slow paths loses an unlock or frees an owned mutex.*)
THEOREM CountMeaning == Spec => []CountTellsOwner
BY Invariance, PTL DEF IInv

-----------------------------------------------------------------------------
(* The waiters.  Each is queued once, from its entry into the slow path to *)
(* its exit.                                                               *)
QueueExact ==
  /\ Unique(wait_list)
  /\ \A t \in Tasks : t \in ToSet(wait_list) <=> pc[t] \in WaiterPcs

(* Somebody in the mutex code is going to wake a waiter, to make count     *)
(* negative again, or is a waiter about to try for the lock.               *)
Stirring ==
  \E u \in Tasks : \/ pc[u] \in {"slow", "loop", "relock", "unlk", "wake", "try2"}
                   \/ pc[u] = "sched" /\ Runnable(u)

(* While a task sleeps the next unlock takes the slow path, or somebody    *)
(* stirs.  That this survives every step rests on the queue: the stores of *)
(* 0 are made only when it is empty, and the wake-up goes to its head.     *)
Wakeful == (\E t \in Tasks : Asleep(t)) => count < 0 \/ Stirring

(* mutex_remove_waiter takes one waiter off the list.                      *)
LEMMA RemoveWaiterElems ==
  ASSUME TypeOK, QueueExact, NEW t \in Tasks, RemoveWaiter(t)
  PROVE  Unique(wait_list') /\ ToSet(wait_list') = ToSet(wait_list) \ {t}
<1>1. PICK i \in 1..Len(wait_list) : wait_list[i] = t /\ wait_list' = RemoveAt(wait_list, i)
  BY DEF RemoveWaiter
<1> QED
  BY <1>1, RemoveAtElems DEF TypeOK, QueueExact

(* Every step keeps the list exact.                                        *)
LEMMA QueueStep ==
  ASSUME TypeOK, QueueExact, [Next]_vars
  PROVE  QueueExact'
<1> USE DEF TypeOK, QueueExact, WaiterPcs, Goto
<1>1. CASE UNCHANGED vars
  BY <1>1 DEF vars
<1>2. ASSUME NEW t \in Tasks, NEW m \in Modes, MutexLock(t, m) PROVE QueueExact'
  <2>1. CASE FastpathLockV6(t)
    BY <1>2, <2>1 DEF MutexLock, FastpathLockV6
  <2>2. CASE FastpathLockXchg(t)
    BY <1>2, <2>2 DEF MutexLock, FastpathLockXchg
  <2>3. CASE FastpathLockDec(t)
    BY <1>2, <2>3 DEF MutexLock, FastpathLockDec
  <2>4. CASE FastpathLockNull(t)
    BY <1>2, <2>4 DEF MutexLock, FastpathLockNull
  <2> QED
    BY <1>2, <2>1, <2>2, <2>3, <2>4 DEF MutexLock
<1>3. ASSUME NEW t \in Tasks, MutexTrylock(t) PROVE QueueExact'
  <2>1. CASE FastpathTrylockV6(t)
    BY <1>3, <2>1 DEF MutexTrylock, FastpathTrylockV6
  <2>2. CASE FastpathTrylockXchg(t)
    BY <1>3, <2>2 DEF MutexTrylock, FastpathTrylockXchg
  <2>3. CASE FastpathTrylockSlow(t)
    BY <1>3, <2>3 DEF MutexTrylock, FastpathTrylockSlow
  <2> QED
    BY <1>3, <2>1, <2>2, <2>3 DEF MutexTrylock
<1>4. ASSUME NEW t \in Tasks, MutexUnlock(t) PROVE QueueExact'
  <2>1. CASE FastpathUnlockV6(t)
    BY <1>4, <2>1 DEF MutexUnlock, FastpathUnlockV6
  <2>2. CASE FastpathUnlockXchg(t)
    BY <1>4, <2>2 DEF MutexUnlock, FastpathUnlockXchg
  <2>3. CASE FastpathUnlockDec(t)
    BY <1>4, <2>3 DEF MutexUnlock, FastpathUnlockDec
  <2>4. CASE FastpathUnlockNull(t)
    BY <1>4, <2>4 DEF MutexUnlock, FastpathUnlockNull
  <2> QED
    BY <1>4, <2>1, <2>2, <2>3, <2>4 DEF MutexUnlock
<1>5. ASSUME NEW t \in Tasks, LockSlowpath(t) PROVE QueueExact'
  <2>1. t \notin ToSet(wait_list) /\ wait_list' = Append(wait_list, t)
    BY <1>5 DEF LockSlowpath
  <2>2. Unique(wait_list') /\ ToSet(wait_list') = ToSet(wait_list) \cup {t}
    BY <2>1, AppendElems
  <2>3. pc'[t] \in WaiterPcs /\ \A u \in Tasks : u # t => pc'[u] = pc[u]
    BY <1>5 DEF LockSlowpath
  <2> QED
    BY <2>2, <2>3
<1>6. ASSUME NEW t \in Tasks, LockLoop(t) PROVE QueueExact'
  <2>1. pc[t] \in WaiterPcs /\ \A u \in Tasks : u # t => pc'[u] = pc[u]
    BY <1>6 DEF LockLoop
  <2>2. CASE wait_list' = wait_list /\ pc'[t] \in WaiterPcs
    BY <2>1, <2>2
  <2>3. CASE RemoveWaiter(t) /\ pc'[t] = "idle"
    <3>1. Unique(wait_list') /\ ToSet(wait_list') = ToSet(wait_list) \ {t}
      BY <2>3, RemoveWaiterElems
    <3> QED
      BY <2>1, <2>3, <3>1
  <2>4. \/ wait_list' = wait_list /\ pc'[t] \in WaiterPcs
        \/ RemoveWaiter(t) /\ pc'[t] = "idle"
    BY <1>6 DEF LockLoop
  <2> QED
    BY <2>2, <2>3, <2>4
<1>7. ASSUME NEW t \in Tasks, Schedule(t) PROVE QueueExact'
  BY <1>7 DEF Schedule
<1>8. ASSUME NEW t \in Tasks, LockDone(t) PROVE QueueExact'
  <2>1. pc'[t] = "held" /\ \A u \in Tasks : u # t => pc'[u] = pc[u]
    BY <1>8 DEF LockDone
  <2>2. Unique(wait_list') /\ ToSet(wait_list') = ToSet(wait_list) \ {t}
    BY <1>8, RemoveWaiterElems DEF LockDone
  <2> QED
    BY <2>1, <2>2
<1>9. ASSUME NEW t \in Tasks, UnlockSlowpath(t) PROVE QueueExact'
  BY <1>9 DEF UnlockSlowpath
<1>10. ASSUME NEW t \in Tasks, WakeFirst(t) PROVE QueueExact'
  BY <1>10 DEF WakeFirst
<1>11. ASSUME NEW t \in Tasks, TrylockRestore(t) PROVE QueueExact'
  BY <1>11 DEF TrylockRestore
<1>12. ASSUME NEW t \in Tasks, TrylockSlowpath(t) PROVE QueueExact'
  BY <1>12 DEF TrylockSlowpath
<1>13. ASSUME NEW t \in Tasks, TrylockDone(t) PROVE QueueExact'
  BY <1>13 DEF TrylockDone
<1>14. ASSUME NEW t \in Tasks, Signal(t) PROVE QueueExact'
  BY <1>14 DEF Signal
<1>15. ASSUME NEW t \in Tasks, HandleSignal(t) PROVE QueueExact'
  BY <1>15 DEF HandleSignal
<1> QED
  BY <1>1, <1>2, <1>3, <1>4, <1>5, <1>6, <1>7, <1>8,
     <1>9, <1>10, <1>11, <1>12, <1>13, <1>14, <1>15 DEF Next, Call, Continue

(* Every step keeps the wake-ups.                                          *)
LEMMA WakeStep ==
  ASSUME TypeOK, QueueExact, LockDiscipline, TrylockShape, Wakeful, [Next]_vars
  PROVE  Wakeful'
<1> USE DEF TypeOK, Wakeful, Asleep, Stirring, Runnable, Goto
<1>1. CASE UNCHANGED vars
  BY <1>1 DEF vars
<1>2. ASSUME NEW t \in Tasks, NEW m \in Modes, MutexLock(t, m) PROVE Wakeful'
  <2>1. CASE FastpathLockV6(t)
    BY <1>2, <2>1 DEF MutexLock, FastpathLockV6
  <2>2. CASE FastpathLockXchg(t)
    BY <1>2, <2>2 DEF MutexLock, FastpathLockXchg
  <2>3. CASE FastpathLockDec(t)
    BY <1>2, <2>3 DEF MutexLock, FastpathLockDec
  <2>4. CASE FastpathLockNull(t)
    BY <1>2, <2>4 DEF MutexLock, FastpathLockNull
  <2> QED
    BY <1>2, <2>1, <2>2, <2>3, <2>4 DEF MutexLock
<1>3. ASSUME NEW t \in Tasks, MutexTrylock(t) PROVE Wakeful'
  <2>1. CASE FastpathTrylockV6(t)
    BY <1>3, <2>1 DEF MutexTrylock, FastpathTrylockV6
  <2>2. CASE FastpathTrylockXchg(t)
    BY <1>3, <2>2 DEF MutexTrylock, FastpathTrylockXchg
  <2>3. CASE FastpathTrylockSlow(t)
    BY <1>3, <2>3 DEF MutexTrylock, FastpathTrylockSlow
  <2> QED
    BY <1>3, <2>1, <2>2, <2>3 DEF MutexTrylock
<1>4. ASSUME NEW t \in Tasks, MutexUnlock(t) PROVE Wakeful'
  <2>1. CASE FastpathUnlockV6(t)
    BY <1>4, <2>1 DEF MutexUnlock, FastpathUnlockV6
  <2>2. CASE FastpathUnlockXchg(t)
    BY <1>4, <2>2 DEF MutexUnlock, FastpathUnlockXchg
  <2>3. CASE FastpathUnlockDec(t)
    BY <1>4, <2>3 DEF MutexUnlock, FastpathUnlockDec
  <2>4. CASE FastpathUnlockNull(t)
    BY <1>4, <2>4 DEF MutexUnlock, FastpathUnlockNull
  <2> QED
    BY <1>4, <2>1, <2>2, <2>3, <2>4 DEF MutexUnlock
<1>5. ASSUME NEW t \in Tasks, LockSlowpath(t) PROVE Wakeful'
  BY <1>5 DEF LockSlowpath
<1>6. ASSUME NEW t \in Tasks, LockLoop(t) PROVE Wakeful'
  BY <1>6 DEF LockLoop
<1>7. ASSUME NEW t \in Tasks, Schedule(t) PROVE Wakeful'
  BY <1>7 DEF Schedule
<1>8. ASSUME NEW t \in Tasks, LockDone(t) PROVE Wakeful'
  <2>1. ASSUME NEW u \in Tasks, Asleep(u) PROVE wait_list' # <<>>
    <3>1. u \in ToSet(wait_list) /\ u # t
      BY <1>8, <2>1 DEF LockDone, QueueExact, WaiterPcs
    <3>2. u \in ToSet(wait_list')
      BY <1>8, <3>1, RemoveWaiterElems DEF LockDone
    <3> QED
      BY <3>2, ToSetEmpty
  <2>2. (\E u \in Tasks : Asleep(u)) => count' = count
    BY <1>8, <2>1 DEF LockDone
  <2>3. \A u \in Tasks : Asleep(u)' => Asleep(u)
    BY <1>8 DEF LockDone
  <2>4. Stirring => Stirring'
    BY <1>8 DEF LockDone
  <2> QED
    BY <2>2, <2>3, <2>4
<1>9. ASSUME NEW t \in Tasks, UnlockSlowpath(t) PROVE Wakeful'
  BY <1>9 DEF UnlockSlowpath
<1>10. ASSUME NEW t \in Tasks, WakeFirst(t) PROVE Wakeful'
  <2> SUFFICES ASSUME NEW u \in Tasks, Asleep(u)' PROVE Stirring'
    OBVIOUS
  <2>1. pc[u] = "sched" /\ u \in ToSet(wait_list)
    BY <1>10 DEF WakeFirst, QueueExact, WaiterPcs
  <2>2. wait_list # <<>>
    BY <2>1, ToSetEmpty
  <2> DEFINE h == Head(wait_list)
  <2>3. h \in ToSet(wait_list) /\ h \in Tasks
    BY <2>2, TailElems, ToSetElems
  <2>4. pc[h] \in {"sched", "relock"}
    <3>1. wait_lock = t /\ t # h
      BY <1>10, <2>3 DEF WakeFirst, LockDiscipline, LockedPcs, QueueExact, WaiterPcs
    <3>2. pc[h] \in WaiterPcs /\ pc[h] \notin LockedPcs
      BY <2>3, <3>1 DEF QueueExact, LockDiscipline
    <3> QED
      BY <3>2 DEF WaiterPcs, LockedPcs
  <2>5. state'[h] = "RUNNING" /\ pc'[h] = pc[h]
    BY <1>10, <2>2, <2>3, <2>4 DEF WakeFirst
  <2> HIDE DEF h
  <2> QED
    BY <2>3, <2>4, <2>5
<1>11. ASSUME NEW t \in Tasks, TrylockRestore(t) PROVE Wakeful'
  BY <1>11 DEF TrylockRestore, TrylockShape
<1>12. ASSUME NEW t \in Tasks, TrylockSlowpath(t) PROVE Wakeful'
  BY <1>12 DEF TrylockSlowpath
<1>13. ASSUME NEW t \in Tasks, TrylockDone(t) PROVE Wakeful'
  <2>1. ASSUME NEW u \in Tasks, Asleep(u) PROVE wait_list # <<>>
    <3>1. u \in ToSet(wait_list)
      BY <2>1 DEF QueueExact, WaiterPcs
    <3> QED
      BY <3>1, ToSetEmpty
  <2>2. (\E u \in Tasks : Asleep(u)) => count' = count
    BY <1>13, <2>1 DEF TrylockDone
  <2>3. \A u \in Tasks : Asleep(u)' => Asleep(u)
    BY <1>13 DEF TrylockDone
  <2>4. Stirring => Stirring'
    BY <1>13 DEF TrylockDone
  <2> QED
    BY <2>2, <2>3, <2>4
<1>14. ASSUME NEW t \in Tasks, Signal(t) PROVE Wakeful'
  BY <1>14 DEF Signal
<1>15. ASSUME NEW t \in Tasks, HandleSignal(t) PROVE Wakeful'
  BY <1>15 DEF HandleSignal
<1> QED
  BY <1>1, <1>2, <1>3, <1>4, <1>5, <1>6, <1>7, <1>8,
     <1>9, <1>10, <1>11, <1>12, <1>13, <1>14, <1>15 DEF Next, Call, Continue

(* The invariant about the waiters.                                        *)
LEMMA WaitersInvariance == Spec => [](QueueExact /\ Wakeful)
<1>1. Init => QueueExact /\ Wakeful
  <2>1. Init => ToSet(wait_list) = {} /\ Unique(wait_list)
    BY ToSetEmpty DEF Init
  <2> QED
    BY <2>1 DEF Init, QueueExact, Wakeful, Asleep, WaiterPcs
<1>2. IInv /\ QueueExact /\ Wakeful /\ [Next]_vars => QueueExact' /\ Wakeful'
  BY QueueStep, WakeStep DEF IInv
<1> QED
  BY <1>1, <1>2, Invariance, PTL DEF Spec

(* No waiter structure of __mutex_lock_common outlives the function on the *)
(* list, and none is queued twice, for any set of tasks.                   *)
THEOREM WaitersQueued == Spec => []NoDanglingWaiter
<1>1. TypeOK /\ QueueExact => NoDanglingWaiter
  <2> SUFFICES ASSUME TypeOK, QueueExact PROVE NoDanglingWaiter
    OBVIOUS
  <2>1. ToSet(wait_list) \subseteq Tasks /\ (IsInjective(wait_list) <=> Unique(wait_list))
    BY ToSetElems DEF TypeOK
  <2> QED
    BY <2>1 DEF NoDanglingWaiter, QueueExact
<1> QED
  BY <1>1, TypeCorrect, WaitersInvariance, PTL

(* When every task is outside the mutex code or asleep in it, a sleeper    *)
(* has an owner whose unlock will wake somebody, for any set of tasks and  *)
(* every fast path.                                                        *)
THEOREM WakeupsKept == Spec => []NoLostWakeup
<1>1. IInv /\ Wakeful => NoLostWakeup
  <2> SUFFICES ASSUME IInv, Wakeful, \A t \in Tasks : pc[t] \in {"idle", "held"} \/ Asleep(t),
                      NEW s \in Tasks, Asleep(s)
               PROVE  \E u \in Tasks : pc[u] = "held" /\ count < 0
    BY DEF NoLostWakeup
  <2>1. ~Stirring
    BY DEF Stirring, Asleep
  <2>2. count < 0 /\ count # 1
    BY <2>1 DEF Wakeful, IInv, TypeOK
  <2>3. PICK u \in Tasks : Owns(u)
    BY <2>2 DEF IInv, CountTellsOwner
  <2>4. pc[u] = "held"
    BY <2>3 DEF Owns, Asleep
  <2> QED
    BY <2>2, <2>4
<1> QED
  BY <1>1, Invariance, WaitersInvariance, PTL

-----------------------------------------------------------------------------
(* With at most one owner, the refinement mapping names it.                *)
OwnerFact ==
  /\ MutualExclusion => \A t \in Tasks : Owns(t) => owner = t
  /\ (\A t \in Tasks : ~Owns(t)) => owner = NoTask

(* The mapping is well defined.                                            *)
LEMMA OwnerIs == OwnerFact
<1>1. ASSUME MutualExclusion, NEW t \in Tasks, Owns(t) PROVE owner = t
  <2>1. owner = CHOOSE u \in Tasks : Owns(u)
    BY <1>1 DEF owner
  <2>2. owner \in Tasks /\ Owns(owner)
    BY <1>1, <2>1
  <2> QED
    BY <1>1, <2>2 DEF MutualExclusion
<1> QED
  BY <1>1 DEF owner, OwnerFact

(* A step of the mutex changes the ownership of one task at most.          *)
LEMMA OneMover ==
  ASSUME TypeOK, NEW t \in Tasks, Call(t) \/ Continue(t) \/ Signal(t) \/ HandleSignal(t)
  PROVE  \A u \in Tasks \ {t} : Owns(u)' <=> Owns(u)
<1>1. asm' = asm /\ \A u \in Tasks \ {t} : pc'[u] = pc[u] /\ prev'[u] = prev[u]
  <2> USE DEF TypeOK, Goto
  <2>1. CASE Call(t)
    BY <2>1 DEF Call, MutexLock, MutexTrylock, FastpathLockV6, FastpathLockXchg, FastpathLockDec,
                FastpathLockNull, FastpathTrylockV6, FastpathTrylockXchg, FastpathTrylockSlow
  <2>2. CASE LockSlowpath(t) \/ LockLoop(t) \/ Schedule(t) \/ LockDone(t) \/ UnlockSlowpath(t) \/ WakeFirst(t)
    BY <2>2 DEF LockSlowpath, LockLoop, Schedule, LockDone, UnlockSlowpath, WakeFirst
  <2>3. CASE MutexUnlock(t)
    BY <2>3 DEF MutexUnlock, FastpathUnlockV6, FastpathUnlockXchg, FastpathUnlockDec, FastpathUnlockNull
  <2>4. CASE TrylockRestore(t) \/ TrylockSlowpath(t) \/ TrylockDone(t)
    BY <2>4 DEF TrylockRestore, TrylockSlowpath, TrylockDone
  <2>5. CASE Signal(t) \/ HandleSignal(t)
    BY <2>5 DEF Signal, HandleSignal
  <2> QED
    BY <2>1, <2>2, <2>3, <2>4, <2>5 DEF Continue
<1> QED
  BY <1>1 DEF Owns, NeedsToUnlock

(* A step of the mutex that changes who owns it is an acquisition of a     *)
(* free lock or the release by the owner.                                  *)
LEMMA RefineStep == ASSUME IInv, IInv', [Next]_vars PROVE [AL!Next]_owner
<1>0. MutualExclusion /\ MutualExclusion'
  BY DEF IInv
<1>1. CASE UNCHANGED vars
  BY <1>1 DEF vars, owner, Owns, NeedsToUnlock
<1>2. ASSUME NEW t \in Tasks, Call(t) \/ Continue(t) \/ Signal(t) \/ HandleSignal(t)
      PROVE  [AL!Next]_owner
  <2>1. \A u \in Tasks \ {t} : Owns(u)' <=> Owns(u)
    BY <1>2, OneMover DEF IInv
  <2>0. OwnerFact /\ OwnerFact'
    BY OwnerIs, PTL
  <2>2. \A u \in Tasks : (Owns(u) => owner = u) /\ (Owns(u)' => owner' = u)
    BY <1>0, <2>0 DEF OwnerFact
  <2>3. /\ (\A u \in Tasks : ~Owns(u)) => owner = NoTask
        /\ (\A u \in Tasks : ~Owns(u)') => owner' = NoTask
    BY <2>0 DEF OwnerFact
  <2>4. CASE Owns(t) /\ ~Owns(t)'
    BY <1>0, <2>1, <2>2, <2>3, <2>4 DEF AL!Next, AL!Release, MutualExclusion
  <2>5. CASE ~Owns(t) /\ Owns(t)'
    BY <1>0, <2>1, <2>2, <2>3, <2>5 DEF AL!Next, AL!Acquire, MutualExclusion
  <2>6. CASE Owns(t) <=> Owns(t)'
    <3>1. \A u \in Tasks : Owns(u)' <=> Owns(u)
      BY <2>1, <2>6
    <3> QED
      BY <2>2, <2>3, <3>1
  <2> QED
    BY <2>4, <2>5, <2>6
<1> QED
  BY <1>1, <1>2 DEF Next

(* The mutex implements the abstract lock: whatever the fast paths, the    *)
(* slow paths and the signals do, callers see a lock that only a free      *)
(* acquisition or its owner's release changes.                             *)
THEOREM Refinement == Spec => ImplementsLock
<1>1. Init => AL!Init
  <2> SUFFICES ASSUME Init PROVE owner = NoTask
    BY DEF AL!Init
  <2>1. \A t \in Tasks : ~Owns(t)
    BY DEF Init, Owns
  <2> QED
    BY <2>1, OwnerIs DEF OwnerFact
<1>2. IInv /\ IInv' /\ [Next]_vars => [AL!Next]_owner
  BY RefineStep
<1> QED
  BY <1>1, <1>2, Invariance, PTL DEF Spec, ImplementsLock, AL!Spec
=============================================================================
