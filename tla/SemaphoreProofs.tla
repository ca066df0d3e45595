-------------------------- MODULE SemaphoreProofs --------------------------
(***************************************************************************)
(* Proofs about the counting semaphore of arch/arm/kernel/semaphore.c for  *)
(* any finite set of tasks and any number of units: the two-way counter    *)
(* keeps its books, and never hands out more units than there are.         *)
(***************************************************************************)
EXTENDS Semaphore, KernelLemmas

(* Only an interrupted down on its way out has an error to return.         *)
RetvalShape ==
  \A t \in Tasks : retval[t] # 0 => pc[t] \in {"leave", "rem", "wake"}

(* The inductive invariant.                                                *)
IInv ==
  /\ TypeOK
  /\ RetvalShape
  /\ Accounting
  /\ UnitsBound

-----------------------------------------------------------------------------
(* wake_up() makes queued tasks RUNNING and leaves the others alone.       *)
LEMMA WakeUpType ==
  ASSUME TypeOK, WakeUp
  PROVE  /\ state' \in [Tasks -> Modes \cup {"RUNNING"}]
         /\ \A t \in Tasks : state'[t] \in {state[t], "RUNNING"}
BY DEF WakeUp, TypeOK

(* Leaving the wait queue keeps it a queue of tasks.                       *)
LEMMA RemoveType ==
  ASSUME TypeOK, NEW t \in Tasks, RemoveWaitQueue(t)
  PROVE  wait' \in Seq(Tasks)
BY RemoveAtType DEF RemoveWaitQueue, TypeOK

(* The types of the variables after a step.                                *)
LEMMA TypeStep == ASSUME TypeOK, [Next]_vars PROVE TypeOK'
<1> USE DEF TypeOK, Pcs, Modes, Goto
<1>1. CASE UNCHANGED vars
  BY <1>1 DEF vars
<1>2. ASSUME NEW t \in Tasks, NEW m \in Modes, Down(t, m) PROVE TypeOK'
  BY <1>2 DEF Down, DownOp
<1>3. ASSUME NEW t \in Tasks, DownTrylock(t) PROVE TypeOK'
  BY <1>3 DEF DownTrylock, DownOp
<1>4. ASSUME NEW t \in Tasks, AddWaitQueueExclusive(t) PROVE TypeOK'
  <2>1. wait' \in Seq(Tasks)
    BY <1>4, AppendProperties DEF AddWaitQueueExclusive
  <2> QED
    BY <1>4, <2>1 DEF AddWaitQueueExclusive
<1>5. ASSUME NEW t \in Tasks, DownLoop(t) PROVE TypeOK'
  BY <1>5 DEF DownLoop
<1>6. ASSUME NEW t \in Tasks, Schedule(t) PROVE TypeOK'
  BY <1>6 DEF Schedule
<1>7. ASSUME NEW t \in Tasks, LeaveLoop(t) PROVE TypeOK'
  <2>1. wait' \in Seq(Tasks)
    BY <1>7, RemoveType DEF LeaveLoop
  <2> QED
    BY <1>7, <2>1 DEF LeaveLoop
<1>8. ASSUME NEW t \in Tasks, LeaveQueue(t) PROVE TypeOK'
  <2>1. wait' \in Seq(Tasks)
    BY <1>8, RemoveType DEF LeaveQueue
  <2> QED
    BY <1>8, <2>1 DEF LeaveQueue
<1>9. ASSUME NEW t \in Tasks, DownReturn(t) PROVE TypeOK'
  BY <1>9, WakeUpType DEF DownReturn
<1>10. ASSUME NEW t \in Tasks, DownTrylockFailed(t) PROVE TypeOK'
  BY <1>10 DEF DownTrylockFailed
<1>11. ASSUME NEW t \in Tasks, DownTrylockWake(t) PROVE TypeOK'
  BY <1>11, WakeUpType DEF DownTrylockWake
<1>12. ASSUME NEW t \in Tasks, Up(t) PROVE TypeOK'
  BY <1>12 DEF Up
<1>13. ASSUME NEW t \in Tasks, UpWakeup(t) PROVE TypeOK'
  BY <1>13, WakeUpType DEF UpWakeup
<1>14. ASSUME NEW t \in Tasks, Signal(t) PROVE TypeOK'
  BY <1>14 DEF Signal
<1>15. ASSUME NEW t \in Tasks, HandleSignal(t) PROVE TypeOK'
  BY <1>15 DEF HandleSignal
<1>16. ASSUME NEW t \in Tasks, DeactivateTask(t) PROVE TypeOK'
  BY <1>16 DEF DeactivateTask
<1> QED
  BY <1>1, <1>2, <1>3, <1>4, <1>5, <1>6, <1>7, <1>8, <1>9, <1>10, <1>11, <1>12, <1>13,
     <1>14, <1>15, <1>16 DEF Next, Call, Continue

-----------------------------------------------------------------------------
(* The sets that count is about are finite.                                *)
LEMMA FiniteSides ==
  /\ IsFiniteSet(Holders) /\ Cardinality(Holders) \in Nat
  /\ IsFiniteSet(Debtors) /\ Cardinality(Debtors) \in Nat
<1>1. Holders \subseteq Tasks /\ Debtors \subseteq Tasks
  BY DEF Holders, Debtors
<1> QED
  BY <1>1, SemaphoreAssumption, FS_Subset, FS_CardinalityType

(* The books, as what a step has to keep.                                  *)
Books == RetvalShape /\ Accounting /\ UnitsBound

(* A step that moves nobody in or out of the two sets keeps the books.     *)
LEMMA Unmoved ==
  ASSUME Accounting, UnitsBound, RetvalShape', UNCHANGED <<count, sleepers>>,
         Holders' = Holders, Debtors' = Debtors
  PROVE  Books'
BY DEF Accounting, UnitsBound, Books

(* The atomic decrement of down and down_trylock.                          *)
LEMMA DownOpStep ==
  ASSUME IInv, NEW t \in Tasks, NEW l \in {"enq", "tfail"}, DownOp(t, l),
         UNCHANGED <<sleepers, retval>>
  PROVE  Books'
<1> USE DEF IInv, TypeOK, Goto, HasUnit, Owing, RetvalShape
<1>1. t \notin Holders /\ t \notin Debtors /\ RetvalShape'
  BY DEF DownOp, Holders, Debtors
<1>2. CASE count' < 0
  <2>1. Debtors' = Debtors \cup {t} /\ Holders' = Holders
    BY <1>2 DEF DownOp, Holders, Debtors
  <2>2. Cardinality(Debtors') = Cardinality(Debtors) + 1
    BY <1>1, <2>1, CardAdd, FiniteSides
  <2> QED
    BY <1>1, <2>1, <2>2, FiniteSides, SemaphoreAssumption DEF DownOp, Accounting, UnitsBound, Books
<1>3. CASE ~(count' < 0)
  <2>1. Holders' = Holders \cup {t} /\ Debtors' = Debtors
    BY <1>1, <1>3 DEF DownOp, Holders, Debtors
  <2>2. Cardinality(Holders') = Cardinality(Holders) + 1
    BY <1>1, <2>1, CardAdd, FiniteSides
  <2> QED
    BY <1>1, <1>3, <2>1, <2>2, FiniteSides, SemaphoreAssumption DEF DownOp, Accounting, UnitsBound, Books
<1> QED
  BY <1>2, <1>3

(* The section under semaphore_lock of __down: the task's own debt joins   *)
(* sleepers the first time, and leaves it with the unit or the signal.     *)
LEMMA DownLoopStep ==
  ASSUME IInv, NEW t \in Tasks, DownLoop(t)
  PROVE  Books'
<1> USE DEF IInv, TypeOK, Goto, HasUnit, Owing, RetvalShape
<1> DEFINE s == IF pc[t] = "first" THEN sleepers + 1 ELSE sleepers
           d == IF pc[t] = "first" THEN 1 ELSE 0
<1>1. t \notin Holders /\ RetvalShape' /\ retval[t] = 0
  BY DEF DownLoop, Holders
<1>2. Debtors' = IF pc[t] = "first" THEN Debtors \ {t} ELSE Debtors
  BY DEF DownLoop, Debtors
<1>3. Cardinality(Debtors') = Cardinality(Debtors) - d
  <2>1. pc[t] = "first" => t \in Debtors
    BY DEF Debtors
  <2> QED
    BY <1>2, <2>1, CardRemove, FiniteSides
<1>4. CASE Interrupted(t)
  <2>1. Holders' = Holders /\ count' = count + s /\ sleepers' = 0
    BY <1>1, <1>4 DEF DownLoop, Holders
  <2> QED
    BY <1>1, <1>3, <2>1, FiniteSides, SemaphoreAssumption DEF Accounting, UnitsBound, Books
<1>5. CASE ~Interrupted(t) /\ count' < 0
  <2>1. Holders' = Holders /\ count' = count + s - 1 /\ sleepers' = 1
    BY <1>1, <1>5 DEF DownLoop, Holders
  <2> QED
    BY <1>1, <1>3, <2>1, FiniteSides, SemaphoreAssumption DEF Accounting, UnitsBound, Books
<1>6. CASE ~Interrupted(t) /\ ~(count' < 0)
  <2>1. Holders' = Holders \cup {t} /\ count' = count + s - 1 /\ sleepers' = 0
    BY <1>1, <1>6 DEF DownLoop, Holders
  <2>2. Cardinality(Holders') = Cardinality(Holders) + 1
    BY <1>1, <2>1, CardAdd, FiniteSides
  <2>3. Cardinality(Debtors') \in Nat
    <3>1. Debtors' \subseteq Tasks
      BY DEF Debtors
    <3> QED
      BY <3>1, SemaphoreAssumption, FS_Subset, FS_CardinalityType
  <2>4. /\ count \in Int /\ sleepers \in Int /\ s \in Int /\ d \in Int /\ s = sleepers + d
        /\ Units \in Nat /\ Cardinality(Holders) \in Nat /\ Cardinality(Debtors) \in Nat
    BY FiniteSides, SemaphoreAssumption
  <2>5. Accounting /\ ~(count' < 0)
    BY <1>6 DEF Books
  <2> HIDE DEF IInv, TypeOK, Goto, HasUnit, Owing, RetvalShape, s, d
  <2>6. Accounting'
    BY <1>3, <2>1, <2>2, <2>4, <2>5 DEF Accounting
  <2>7. UnitsBound'
    BY <1>3, <2>1, <2>2, <2>3, <2>4, <2>5, <2>6 DEF Accounting, UnitsBound
  <2> QED
    BY <1>1, <2>6, <2>7 DEF Books
<1> QED
  BY <1>4, <1>5, <1>6

(* Every step preserves the invariant.                                     *)
LEMMA InvStep == ASSUME IInv, [Next]_vars PROVE IInv'
<1>0. TypeOK'
  BY TypeStep DEF IInv
<1>1. Books'
  <2> USE DEF IInv, TypeOK, Goto, HasUnit, Owing, RetvalShape, Holders, Debtors
  <2>1. CASE UNCHANGED vars
    BY <2>1, Unmoved DEF vars
  <2>2. ASSUME NEW t \in Tasks, NEW m \in Modes, Down(t, m) PROVE Books'
    BY <2>2, DownOpStep DEF Down
  <2>3. ASSUME NEW t \in Tasks, DownTrylock(t) PROVE Books'
    BY <2>3, DownOpStep DEF DownTrylock
  <2>4. ASSUME NEW t \in Tasks, AddWaitQueueExclusive(t) PROVE Books'
    BY <2>4, Unmoved DEF AddWaitQueueExclusive
  <2>5. ASSUME NEW t \in Tasks, DownLoop(t) PROVE Books'
    BY <2>5, DownLoopStep
  <2>6. ASSUME NEW t \in Tasks, Schedule(t) PROVE Books'
    BY <2>6, Unmoved DEF Schedule
  <2>7. ASSUME NEW t \in Tasks, LeaveLoop(t) PROVE Books'
    BY <2>7, Unmoved DEF LeaveLoop
  <2>8. ASSUME NEW t \in Tasks, LeaveQueue(t) PROVE Books'
    BY <2>8, Unmoved DEF LeaveQueue
  <2>9. ASSUME NEW t \in Tasks, DownReturn(t) PROVE Books'
    BY <2>9, Unmoved DEF DownReturn
  <2>10. ASSUME NEW t \in Tasks, DownTrylockFailed(t) PROVE Books'
    <3>1. Holders' = Holders /\ Debtors' = Debtors \ {t} /\ t \in Debtors /\ RetvalShape'
      BY <2>10 DEF DownTrylockFailed
    <3> HIDE DEF Holders, Debtors, RetvalShape
    <3>2. Cardinality(Debtors') = Cardinality(Debtors) - 1
      BY <3>1, CardRemove, FiniteSides
    <3> QED
      BY <2>10, <3>1, <3>2, FiniteSides, SemaphoreAssumption
      DEF DownTrylockFailed, Accounting, UnitsBound, Books
  <2>11. ASSUME NEW t \in Tasks, DownTrylockWake(t) PROVE Books'
    BY <2>11, Unmoved DEF DownTrylockWake
  <2>12. ASSUME NEW t \in Tasks, Up(t) PROVE Books'
    <3>1. Debtors' = Debtors /\ Holders' = Holders \ {t} /\ t \in Holders /\ RetvalShape'
      BY <2>12 DEF Up
    <3> HIDE DEF Holders, Debtors, RetvalShape
    <3>2. Cardinality(Holders') = Cardinality(Holders) - 1
      BY <3>1, CardRemove, FiniteSides
    <3> QED
      BY <2>12, <3>1, <3>2, FiniteSides, SemaphoreAssumption DEF Up, Accounting, UnitsBound, Books
  <2>13. ASSUME NEW t \in Tasks, UpWakeup(t) PROVE Books'
    BY <2>13, Unmoved DEF UpWakeup
  <2>14. ASSUME NEW t \in Tasks, Signal(t) PROVE Books'
    BY <2>14, Unmoved DEF Signal
  <2>15. ASSUME NEW t \in Tasks, HandleSignal(t) PROVE Books'
    BY <2>15, Unmoved DEF HandleSignal
  <2>16. ASSUME NEW t \in Tasks, DeactivateTask(t) PROVE Books'
    BY <2>16, Unmoved DEF DeactivateTask
  <2> QED
    BY <2>1, <2>2, <2>3, <2>4, <2>5, <2>6, <2>7, <2>8, <2>9, <2>10, <2>11, <2>12, <2>13,
       <2>14, <2>15, <2>16 DEF Next, Call, Continue
<1> QED
  BY <1>0, <1>1 DEF IInv, Books

(* The initial states satisfy the invariant, however many units are out.   *)
LEMMA InitInv == Init => IInv
<1> SUFFICES ASSUME Init PROVE IInv
  OBVIOUS
<1>1. PICK H \in SUBSET Tasks :
        /\ Cardinality(H) <= Units
        /\ count = Units - Cardinality(H)
        /\ sleepers = 0
        /\ pc = [t \in Tasks |-> IF t \in H THEN "held" ELSE "idle"]
        /\ retval = [t \in Tasks |-> 0]
  BY DEF Init
<1>2. Holders = H /\ Debtors = {}
  BY <1>1 DEF Holders, Debtors, HasUnit, Owing
<1>3. TypeOK
  <2>1. Cardinality(H) \in Nat
    BY <1>2, FiniteSides
  <2> QED
    BY <1>1, <2>1, SemaphoreAssumption DEF Init, TypeOK, Pcs, Modes
<1>4. Accounting /\ UnitsBound
  BY <1>1, <1>2, FS_EmptySet, FiniteSides, SemaphoreAssumption DEF Accounting, UnitsBound
<1> QED
  BY <1>1, <1>3, <1>4 DEF IInv, RetvalShape

(* IInv is an invariant.                                                   *)
LEMMA Invariance == Spec => []IInv
<1>1. IInv /\ [Next]_vars => IInv'
  BY InvStep
<1> QED
  BY InitInv, <1>1, PTL DEF Spec

(* Every variable keeps its type; in particular sleepers is 0 or 1 outside *)
(* semaphore_lock, for any finite set of tasks and any number of units.    *)
THEOREM TypeCorrect == Spec => []TypeOK
BY Invariance, PTL DEF IInv

(* count always equals the units less the holders, the downs in flight and *)
(* the one debt of the sleepers.                                           *)
THEOREM BooksBalance == Spec => []Accounting
BY Invariance, PTL DEF IInv

(* down, down_interruptible and down_trylock never hand out more units     *)
(* than the semaphore has.                                                 *)
THEOREM NeverTooMany == Spec => []UnitsBound
BY Invariance, PTL DEF IInv

-----------------------------------------------------------------------------
(* The wait queue.  An entry is queued exactly while its task is between   *)
(* add_wait_queue_exclusive and remove_wait_queue.                         *)
QueuedPcs == {"first", "again", "sched", "off", "leave", "rem"}

QueueExact ==
  /\ Unique(wait)
  /\ \A t \in Tasks : t \in ToSet(wait) <=> pc[t] \in QueuedPcs

(* Somebody in the semaphore code is going to wake a sleeper, to find      *)
(* count negative, or is a sleeper that was woken.                         *)
Stirring ==
  \E u \in Tasks : \/ pc[u] \in Pcs \ {"idle", "held", "sched", "off"}
                   \/ pc[u] \in {"sched", "off"} /\ Runnable(u)

(* While a task sleeps or is about to, count is negative, so that the next *)
(* up() wakes, or somebody stirs.                                          *)
Dozing(t) == pc[t] \in {"sched", "off"} /\ ~Runnable(t)

Wakeful == (\E t \in Tasks : Dozing(t)) => count < 0 \/ Stirring

(* remove_wait_queue takes one entry off the queue.                        *)
LEMMA RemoveElems ==
  ASSUME TypeOK, QueueExact, NEW t \in Tasks, RemoveWaitQueue(t)
  PROVE  Unique(wait') /\ ToSet(wait') = ToSet(wait) \ {t}
<1>1. PICK i \in 1..Len(wait) : wait[i] = t /\ wait' = RemoveAt(wait, i)
  BY DEF RemoveWaitQueue
<1> QED
  BY <1>1, RemoveAtElems DEF TypeOK, QueueExact

(* wake_up() makes a queued task RUNNING if there is one: the first of     *)
(* those that are off the runqueue, or, when there is none, everyone.      *)
LEMMA WakeUpWakes ==
  ASSUME TypeOK, WakeUp, NEW u \in ToSet(wait)
  PROVE  \E w \in ToSet(wait) : w \in Tasks /\ state'[w] = "RUNNING"
<1> DEFINE off == {i \in 1..Len(wait) : TryToWakeUp(wait[i])}
           reached == {j \in 1..Len(wait) : \A k \in off : j <= k}
<1>1. /\ ToSet(wait) = {wait[i] : i \in 1..Len(wait)} /\ ToSet(wait) \subseteq Tasks
      /\ Len(wait) \in Nat
  BY ToSetElems, LenProperties DEF TypeOK
<1>2. off \subseteq Nat /\ off \subseteq 1..Len(wait)
  BY <1>1
<1>3. state' = [t \in Tasks |-> IF t \in {wait[i] : i \in reached} THEN "RUNNING" ELSE state[t]]
  BY DEF WakeUp
<1>4. PICK n \in 1..Len(wait) : n \in reached
  <2>1. CASE off = {}
    BY <1>1, <2>1
  <2>2. CASE off # {}
    <3>1. PICK n \in off : \A k \in off : n <= k
      <4> HIDE DEF off
      <4> QED
        BY <1>2, <2>2, LeastNat
    <3> QED
      BY <1>2, <3>1
  <2> QED
    BY <2>1, <2>2
<1> HIDE DEF reached
<1>5. wait[n] \in Tasks /\ wait[n] \in ToSet(wait)
  BY <1>1, <1>4
<1> QED
  BY <1>3, <1>4, <1>5

(* So a task stirs, unless nobody is queued.                               *)
LEMMA WakeUpStirs ==
  ASSUME TypeOK, QueueExact, WakeUp, NEW t \in Tasks, t \notin ToSet(wait),
         \A v \in Tasks : v # t => pc'[v] = pc[v],
         pc'[t] \notin {"sched", "off"}
  PROVE  (\E u \in Tasks : Dozing(u)') => Stirring'
<1> SUFFICES ASSUME NEW u \in Tasks, Dozing(u)' PROVE Stirring'
  OBVIOUS
<1>1. u # t /\ pc[u] \in {"sched", "off"}
  BY DEF Dozing
<1>2. u \in ToSet(wait)
  BY <1>1 DEF QueueExact, QueuedPcs
<1>3. PICK w \in ToSet(wait) : w \in Tasks /\ state'[w] = "RUNNING"
  BY <1>2, WakeUpWakes
<1>4. pc'[w] \in QueuedPcs
  BY <1>3 DEF QueueExact
<1> QED
  BY <1>3, <1>4 DEF Stirring, Runnable, QueuedPcs, Pcs

(* Every step keeps the queue exact.                                       *)
LEMMA QueueStep ==
  ASSUME TypeOK, QueueExact, [Next]_vars
  PROVE  QueueExact'
<1> USE DEF TypeOK, QueueExact, QueuedPcs, Goto
<1>1. CASE UNCHANGED vars
  BY <1>1 DEF vars
<1>2. ASSUME NEW t \in Tasks, NEW m \in Modes, Down(t, m) PROVE QueueExact'
  BY <1>2 DEF Down, DownOp
<1>3. ASSUME NEW t \in Tasks, DownTrylock(t) PROVE QueueExact'
  BY <1>3 DEF DownTrylock, DownOp
<1>4. ASSUME NEW t \in Tasks, AddWaitQueueExclusive(t) PROVE QueueExact'
  <2>1. t \notin ToSet(wait) /\ wait' = Append(wait, t)
    BY <1>4 DEF AddWaitQueueExclusive
  <2>2. Unique(wait') /\ ToSet(wait') = ToSet(wait) \cup {t}
    BY <2>1, AppendElems
  <2>3. pc'[t] \in QueuedPcs /\ \A u \in Tasks : u # t => pc'[u] = pc[u]
    BY <1>4 DEF AddWaitQueueExclusive
  <2> QED
    BY <2>2, <2>3
<1>5. ASSUME NEW t \in Tasks, DownLoop(t) PROVE QueueExact'
  BY <1>5 DEF DownLoop
<1>6. ASSUME NEW t \in Tasks, Schedule(t) PROVE QueueExact'
  BY <1>6 DEF Schedule
<1>7. ASSUME NEW t \in Tasks, LeaveLoop(t) PROVE QueueExact'
  <2>1. pc[t] = "leave" /\ \A u \in Tasks : u # t => pc'[u] = pc[u]
    BY <1>7 DEF LeaveLoop
  <2>2. CASE wait' = wait /\ pc'[t] = "rem"
    BY <2>1, <2>2
  <2>3. CASE RemoveWaitQueue(t) /\ pc'[t] = "wake"
    <3>1. Unique(wait') /\ ToSet(wait') = ToSet(wait) \ {t}
      BY <2>3, RemoveElems
    <3> QED
      BY <2>1, <2>3, <3>1
  <2> QED
    BY <1>7, <2>2, <2>3 DEF LeaveLoop
<1>8. ASSUME NEW t \in Tasks, LeaveQueue(t) PROVE QueueExact'
  <2>1. pc'[t] = "wake" /\ \A u \in Tasks : u # t => pc'[u] = pc[u]
    BY <1>8 DEF LeaveQueue
  <2>2. Unique(wait') /\ ToSet(wait') = ToSet(wait) \ {t}
    BY <1>8, RemoveElems DEF LeaveQueue
  <2> QED
    BY <2>1, <2>2
<1>9. ASSUME NEW t \in Tasks, DownReturn(t) PROVE QueueExact'
  BY <1>9 DEF DownReturn
<1>10. ASSUME NEW t \in Tasks, DownTrylockFailed(t) PROVE QueueExact'
  BY <1>10 DEF DownTrylockFailed
<1>11. ASSUME NEW t \in Tasks, DownTrylockWake(t) PROVE QueueExact'
  BY <1>11 DEF DownTrylockWake
<1>12. ASSUME NEW t \in Tasks, Up(t) PROVE QueueExact'
  BY <1>12 DEF Up
<1>13. ASSUME NEW t \in Tasks, UpWakeup(t) PROVE QueueExact'
  BY <1>13 DEF UpWakeup
<1>14. ASSUME NEW t \in Tasks, Signal(t) PROVE QueueExact'
  BY <1>14 DEF Signal
<1>15. ASSUME NEW t \in Tasks, HandleSignal(t) PROVE QueueExact'
  BY <1>15 DEF HandleSignal
<1>16. ASSUME NEW t \in Tasks, DeactivateTask(t) PROVE QueueExact'
  BY <1>16 DEF DeactivateTask
<1> QED
  BY <1>1, <1>2, <1>3, <1>4, <1>5, <1>6, <1>7, <1>8,
     <1>9, <1>10, <1>11, <1>12, <1>13, <1>14, <1>15, <1>16 DEF Next, Call, Continue

(* Every step keeps the wake-ups.                                          *)
LEMMA WakeStep ==
  ASSUME TypeOK, QueueExact, Wakeful, [Next]_vars
  PROVE  Wakeful'
<1>1. CASE UNCHANGED vars
  BY <1>1 DEF vars, Wakeful, Dozing, Stirring, Runnable
<1>2. ASSUME NEW t \in Tasks, NEW m \in Modes, Down(t, m) PROVE Wakeful'
  BY <1>2 DEF Down, DownOp, TypeOK, Wakeful, Dozing, Stirring, Runnable, Goto, Pcs
<1>3. ASSUME NEW t \in Tasks, DownTrylock(t) PROVE Wakeful'
  BY <1>3 DEF DownTrylock, DownOp, TypeOK, Wakeful, Dozing, Stirring, Runnable, Goto, Pcs
<1>4. ASSUME NEW t \in Tasks, AddWaitQueueExclusive(t) PROVE Wakeful'
  BY <1>4 DEF AddWaitQueueExclusive, TypeOK, Wakeful, Dozing, Stirring, Runnable, Goto, Pcs
<1>5. ASSUME NEW t \in Tasks, DownLoop(t) PROVE Wakeful'
  BY <1>5 DEF DownLoop, TypeOK, Wakeful, Dozing, Stirring, Runnable, Goto, Pcs
<1>6. ASSUME NEW t \in Tasks, Schedule(t) PROVE Wakeful'
  BY <1>6 DEF Schedule, TypeOK, Wakeful, Dozing, Stirring, Runnable, Goto, Pcs
<1>7. ASSUME NEW t \in Tasks, LeaveLoop(t) PROVE Wakeful'
  BY <1>7 DEF LeaveLoop, TypeOK, Wakeful, Dozing, Stirring, Runnable, Goto, Pcs
<1>8. ASSUME NEW t \in Tasks, LeaveQueue(t) PROVE Wakeful'
  BY <1>8 DEF LeaveQueue, TypeOK, Wakeful, Dozing, Stirring, Runnable, Goto, Pcs
<1>9. ASSUME NEW t \in Tasks, DownReturn(t) PROVE Wakeful'
  <2>1. t \notin ToSet(wait) /\ pc'[t] \notin {"sched", "off"} /\ WakeUp
        /\ \A v \in Tasks : v # t => pc'[v] = pc[v]
    BY <1>9 DEF DownReturn, QueueExact, QueuedPcs, Goto, TypeOK
  <2> QED
    BY <2>1, WakeUpStirs DEF Wakeful
<1>10. ASSUME NEW t \in Tasks, DownTrylockFailed(t) PROVE Wakeful'
  BY <1>10 DEF DownTrylockFailed, TypeOK, Wakeful, Dozing, Stirring, Runnable, Goto, Pcs
<1>11. ASSUME NEW t \in Tasks, DownTrylockWake(t) PROVE Wakeful'
  <2>1. t \notin ToSet(wait) /\ pc'[t] \notin {"sched", "off"} /\ WakeUp
        /\ \A v \in Tasks : v # t => pc'[v] = pc[v]
    BY <1>11 DEF DownTrylockWake, QueueExact, QueuedPcs, Goto, TypeOK
  <2> QED
    BY <2>1, WakeUpStirs DEF Wakeful
<1>12. ASSUME NEW t \in Tasks, Up(t) PROVE Wakeful'
  BY <1>12 DEF Up, TypeOK, Wakeful, Dozing, Stirring, Runnable, Goto, Pcs
<1>13. ASSUME NEW t \in Tasks, UpWakeup(t) PROVE Wakeful'
  <2>1. t \notin ToSet(wait) /\ pc'[t] \notin {"sched", "off"} /\ WakeUp
        /\ \A v \in Tasks : v # t => pc'[v] = pc[v]
    BY <1>13 DEF UpWakeup, QueueExact, QueuedPcs, Goto, TypeOK
  <2> QED
    BY <2>1, WakeUpStirs DEF Wakeful
<1>14. ASSUME NEW t \in Tasks, Signal(t) PROVE Wakeful'
  BY <1>14 DEF Signal, TypeOK, Wakeful, Dozing, Stirring, Runnable, Goto, Pcs
<1>15. ASSUME NEW t \in Tasks, HandleSignal(t) PROVE Wakeful'
  BY <1>15 DEF HandleSignal, TypeOK, Wakeful, Dozing, Stirring, Runnable, Goto, Pcs
<1>16. ASSUME NEW t \in Tasks, DeactivateTask(t) PROVE Wakeful'
  BY <1>16 DEF DeactivateTask, TypeOK, Wakeful, Dozing, Stirring, Runnable, Goto, Pcs
<1> QED
  BY <1>1, <1>2, <1>3, <1>4, <1>5, <1>6, <1>7, <1>8,
     <1>9, <1>10, <1>11, <1>12, <1>13, <1>14, <1>15, <1>16 DEF Next, Call, Continue

(* The invariant about the sleepers.                                       *)
LEMMA SleepersInvariance == Spec => [](QueueExact /\ Wakeful)
<1>1. Init => QueueExact /\ Wakeful
  <2>1. Init => ToSet(wait) = {} /\ Unique(wait)
    BY ToSetEmpty DEF Init
  <2>2. Init => \A t \in Tasks : pc[t] \in {"idle", "held"}
    BY DEF Init
  <2> QED
    BY <2>1, <2>2 DEF QueueExact, Wakeful, Dozing, QueuedPcs
<1>2. IInv /\ QueueExact /\ Wakeful /\ [Next]_vars => QueueExact' /\ Wakeful'
  BY QueueStep, WakeStep DEF IInv
<1> QED
  BY <1>1, <1>2, Invariance, PTL DEF Spec

(* The wait queue holds exactly the entries of the tasks inside the loop   *)
(* of __down and __down_interruptible, each once.                          *)
THEOREM EntriesQueued == Spec => []QueueMatches
<1>1. TypeOK /\ QueueExact => QueueMatches
  <2> SUFFICES ASSUME TypeOK, QueueExact PROVE QueueMatches
    OBVIOUS
  <2>1. ToSet(wait) \subseteq Tasks /\ (IsInjective(wait) <=> Unique(wait))
    BY ToSetElems DEF TypeOK
  <2> QED
    BY <2>1 DEF QueueMatches, QueueExact, QueuedPcs
<1> QED
  BY <1>1, TypeCorrect, SleepersInvariance, PTL

(* When every task is outside the semaphore code or asleep in it, nobody   *)
(* sleeps while a unit is free: up(), the winners, the interrupted downs   *)
(* and the failed trylocks pass the wake-up on, for any number of tasks.   *)
THEOREM WakeupsKept == Spec => []NoLostWakeup
<1>1. IInv /\ Wakeful => NoLostWakeup
  <2> SUFFICES ASSUME IInv, Wakeful, \A t \in Tasks : pc[t] \in {"idle", "held"} \/ Asleep(t),
                      NEW s \in Tasks, Asleep(s)
               PROVE  Cardinality(Holders) = Units
    BY DEF NoLostWakeup
  <2>1. ~Stirring
    BY DEF Stirring, Asleep
  <2>2. count < 0
    BY <2>1 DEF Wakeful, Dozing, Asleep
  <2>3. Debtors = {}
    BY DEF Debtors, Owing, Asleep
  <2>4. Cardinality(Debtors) = 0
    BY <2>3, FS_EmptySet
  <2>5. Cardinality(Holders) \in Nat
    BY FiniteSides
  <2> QED
    BY <2>2, <2>4, <2>5, SemaphoreAssumption DEF IInv, TypeOK, Accounting, UnitsBound
<1> QED
  BY <1>1, Invariance, SleepersInvariance, PTL
=============================================================================
