---------------------------- MODULE RwsemProofs ----------------------------
(***************************************************************************)
(* Proofs about the reader/writer semaphore of lib/rwsem-spinlock.c for    *)
(* any finite set of tasks: exclusion, the meaning of activity, what       *)
(* __up_read relies on, the references of the waiters, and that the        *)
(* hand-over implements the abstract reader/writer lock.                   *)
(***************************************************************************)
EXTENDS Rwsem, KernelLemmas

Writers == {t \in Tasks : Writes(t)}

(* The types, before the bounds that the accounts give.                    *)
Typed ==
  /\ activity \in Int
  /\ wait_lock \in Tasks \cup {NoTask}
  /\ wait_list \in Seq(Tasks)
  /\ waiter \in [Tasks -> BOOLEAN]
  /\ flags \in [Tasks -> {READ, WRITE}]
  /\ pc \in [Tasks -> Pcs]
  /\ state \in [Tasks -> {"RUNNING", "UNINTERRUPTIBLE"}]
  /\ usage \in [Tasks -> Int]
  /\ tsk \in Tasks \cup {NoTask}
  /\ woken \in Nat

(* A task is at a program counter of a waker exactly while it holds        *)
(* wait_lock.                                                              *)
LockDiscipline == \A t \in Tasks : pc[t] \in WakerPcs <=> wait_lock = t

(* waiter->task is set exactly while the waiter is queued, and its owner   *)
(* is in the wait loop then; nobody is queued twice.                       *)
ListShape ==
  /\ Unique(wait_list)
  /\ \A t \in Tasks :
       /\ t \in ToSet(wait_list) <=> waiter[t]
       /\ waiter[t] => pc[t] \in {"check", "sched"}

(* activity between the decision to wake somebody and the last grant: the  *)
(* readers granted so far are counted in woken, and added at the end.      *)
PhaseOf(t) ==
  /\ pc[t] \in {"wake_one", "do_wake1"}
       => activity = 0 /\ Readers = {} /\ Writers = {} /\ wait_list # <<>>
  /\ pc[t] = "wake_one" => flags[Head(wait_list)] = WRITE
  /\ pc[t] = "do_wake0"
       => activity = 1 /\ Readers = {t} /\ Writers = {} /\ wait_list # <<>>
  /\ pc[t] = "woke_w"  => activity = -1 /\ Writers # {}
  /\ pc[t] = "woke_r1" => activity = 0 /\ Writers = {} /\ Cardinality(Readers) = woken + 1
  /\ pc[t] = "woke_r0" => activity = 1 /\ Writers = {} /\ Cardinality(Readers) = woken + 2
  /\ pc[t] \in {"woke_w", "woke_r1", "woke_r0"} => tsk \in Tasks

Phase == \A t \in Tasks : PhaseOf(t)

(* Whoever wakes somebody has a waiter to wake.                            *)
Waking ==
  /\ \A t \in Tasks : pc[t] \in {"wake_one", "do_wake1", "do_wake0"} => wait_list # <<>>
  /\ \A t \in Tasks : pc[t] \in {"woke_w", "woke_r1", "woke_r0"} => tsk \in Tasks

(* tsk is set only between a grant and the wake-up.                        *)
TskShape ==
  tsk # NoTask => \E t \in Tasks : pc[t] \in {"woke_w", "woke_r1", "woke_r0"}

(* Readers and one writer, as sets.                                        *)
Exclusive ==
  /\ Writers # {} => Readers = {}
  /\ \A s, t \in Writers : s = t

(* activity when nobody holds wait_lock.                                   *)
Counts == wait_lock = NoTask => activity = IF Writers # {} THEN -1 ELSE Cardinality(Readers)

(* The inductive invariant.                                                *)
IInv ==
  /\ Typed /\ LockDiscipline /\ ListShape
  /\ Exclusive /\ Counts /\ Phase
  /\ HeadIsWriter /\ ReferencesExact /\ TskShape

-----------------------------------------------------------------------------
(* The branches of the operations, one by one.                             *)
TakeRead(t)  == pc[t] = "idle" /\ wait_lock = NoTask /\ GrantRead(t)
TakeWrite(t) == pc[t] = "idle" /\ wait_lock = NoTask /\ GrantWrite(t)

QueueRead(t) ==
  pc[t] = "idle" /\ wait_lock = NoTask /\ ~(activity >= 0 /\ wait_list = <<>>) /\ Enqueue(t, READ)

QueueWrite(t) ==
  pc[t] = "idle" /\ wait_lock = NoTask /\ ~(activity = 0 /\ wait_list = <<>>) /\ Enqueue(t, WRITE)

DoWakeWriter(t) ==
  /\ pc[t] = "do_wake1" /\ flags[Head(wait_list)] = WRITE
  /\ activity' = -1
  /\ GrantHead
  /\ Goto(t, "woke_w")
  /\ UNCHANGED <<wait_lock, flags, state, usage, woken>>

DoWakeNone(t) ==
  /\ pc[t] = "do_wake0" /\ flags[Head(wait_list)] = WRITE
  /\ wait_lock' = NoTask
  /\ Goto(t, "reader")
  /\ UNCHANGED <<activity, wait_list, waiter, flags, state, usage, tsk, woken>>

DoWakeReader(t) ==
  /\ pc[t] \in {"do_wake0", "do_wake1"} /\ flags[Head(wait_list)] = READ
  /\ woken' = 0
  /\ GrantHead
  /\ Goto(t, IF pc[t] = "do_wake1" THEN "woke_r1" ELSE "woke_r0")
  /\ UNCHANGED <<activity, wait_lock, flags, state, usage>>

WakeReaderNext(t) ==
  /\ pc[t] \in {"woke_r0", "woke_r1"}
  /\ wait_list # <<>> /\ flags[Head(wait_list)] = READ
  /\ WakeUpAndPut
  /\ woken' = woken + 1
  /\ GrantHead
  /\ UNCHANGED <<activity, wait_lock, pc, flags>>

WakeReaderLast(t) ==
  /\ pc[t] \in {"woke_r0", "woke_r1"}
  /\ ~(wait_list # <<>> /\ flags[Head(wait_list)] = READ)
  /\ WakeUpAndPut
  /\ activity' = activity + woken + 1
  /\ woken' = 0
  /\ tsk' = NoTask
  /\ wait_lock' = NoTask
  /\ Goto(t, IF pc[t] = "woke_r1" THEN "idle" ELSE "reader")
  /\ UNCHANGED <<wait_list, waiter, flags>>

Step(t) ==
  \/ TakeRead(t) \/ TakeWrite(t) \/ QueueRead(t) \/ QueueWrite(t) \/ CheckGranted(t)
  \/ Schedule(t) \/ UpRead(t) \/ UpWrite(t) \/ DowngradeWrite(t) \/ WakeOneWriter(t)
  \/ DoWakeWriter(t) \/ DoWakeNone(t) \/ DoWakeReader(t) \/ WakeWriter(t)
  \/ WakeReaderNext(t) \/ WakeReaderLast(t) \/ Exit(t) \/ Fork(t)

(* They are all there is.                                                  *)
LEMMA StepCases == ASSUME [Next]_vars PROVE UNCHANGED vars \/ \E t \in Tasks : Step(t)
<1>1. ASSUME NEW t \in Tasks, Call(t) PROVE Step(t)
  BY <1>1 DEF Call, DownRead, DownWrite, DownReadTrylock, DownWriteTrylock, Step, TakeRead,
              TakeWrite, QueueRead, QueueWrite
<1>2. ASSUME NEW t \in Tasks, DoWake(t) PROVE Step(t)
  BY <1>2 DEF DoWake, Step, DoWakeWriter, DoWakeNone, DoWakeReader
<1>3. ASSUME NEW t \in Tasks, WakeReader(t) PROVE Step(t)
  BY <1>3 DEF WakeReader, Step, WakeReaderNext, WakeReaderLast
<1>4. ASSUME NEW t \in Tasks, Up(t) \/ Continue(t) PROVE Step(t)
  BY <1>2, <1>3, <1>4 DEF Up, Continue, Step
<1> QED
  BY <1>1, <1>4 DEF Next

(* The first waiter.                                                       *)
LEMMA HeadFacts ==
  ASSUME Typed, ListShape, wait_list # <<>>
  PROVE  LET h == Head(wait_list) IN
         /\ h \in Tasks /\ waiter[h] /\ pc[h] \in {"check", "sched"}
         /\ Tail(wait_list) \in Seq(Tasks) /\ Unique(Tail(wait_list))
         /\ ToSet(Tail(wait_list)) = ToSet(wait_list) \ {h}
BY TailElems, ToSetElems DEF Typed, ListShape

LEMMA WakerHead ==
  ASSUME Typed, ListShape, Waking, NEW t \in Tasks, pc[t] \in {"wake_one", "do_wake1", "do_wake0"}
  PROVE  /\ wait_list # <<>> /\ Head(wait_list) \in Tasks /\ Head(wait_list) # t
         /\ waiter[Head(wait_list)] /\ pc[Head(wait_list)] \in {"check", "sched"}
         /\ Tail(wait_list) \in Seq(Tasks) /\ Unique(Tail(wait_list))
         /\ ToSet(Tail(wait_list)) = ToSet(wait_list) \ {Head(wait_list)}
BY HeadFacts DEF Waking

(* The types of the variables after a step.                                *)
LEMMA TypedStep ==
  ASSUME Typed, ListShape, Waking, [Next]_vars
  PROVE  Typed'
<1> USE DEF Typed, Pcs, Goto, READ, WRITE
<1>1. CASE UNCHANGED vars
  BY <1>1 DEF vars
<1>2. ASSUME NEW t \in Tasks, TakeRead(t) PROVE Typed'
  BY <1>2 DEF TakeRead, GrantRead
<1>3. ASSUME NEW t \in Tasks, TakeWrite(t) PROVE Typed'
  BY <1>3 DEF TakeWrite, GrantWrite
<1>4. ASSUME NEW t \in Tasks, QueueRead(t) PROVE Typed'
  <2>1. wait_list' \in Seq(Tasks)
    BY <1>4, AppendElems DEF QueueRead, Enqueue
  <2> QED
    BY <1>4, <2>1 DEF QueueRead, Enqueue
<1>5. ASSUME NEW t \in Tasks, QueueWrite(t) PROVE Typed'
  <2>1. wait_list' \in Seq(Tasks)
    BY <1>5, AppendElems DEF QueueWrite, Enqueue
  <2> QED
    BY <1>5, <2>1 DEF QueueWrite, Enqueue
<1>6. ASSUME NEW t \in Tasks, CheckGranted(t) PROVE Typed'
  BY <1>6 DEF CheckGranted
<1>7. ASSUME NEW t \in Tasks, Schedule(t) PROVE Typed'
  BY <1>7 DEF Schedule
<1>8. ASSUME NEW t \in Tasks, UpRead(t) PROVE Typed'
  <2>1. activity' \in Int
    BY <1>8 DEF UpRead
  <2>2. wait_lock' \in Tasks \cup {NoTask} /\ pc' \in [Tasks -> Pcs]
    BY <1>8 DEF UpRead
  <2> QED
    BY <1>8, <2>1, <2>2 DEF UpRead
<1>9. ASSUME NEW t \in Tasks, UpWrite(t) PROVE Typed'
  <2>1. activity' \in Int
    BY <1>9 DEF UpWrite, Release
  <2>2. wait_lock' \in Tasks \cup {NoTask} /\ pc' \in [Tasks -> Pcs]
    BY <1>9 DEF UpWrite, Release
  <2> QED
    BY <1>9, <2>1, <2>2 DEF UpWrite, Release
<1>10. ASSUME NEW t \in Tasks, DowngradeWrite(t) PROVE Typed'
  <2>1. activity' \in Int
    BY <1>10 DEF DowngradeWrite, Release
  <2>2. wait_lock' \in Tasks \cup {NoTask} /\ pc' \in [Tasks -> Pcs]
    BY <1>10 DEF DowngradeWrite, Release
  <2> QED
    BY <1>10, <2>1, <2>2 DEF DowngradeWrite, Release
<1>11. ASSUME NEW t \in Tasks, WakeOneWriter(t) PROVE Typed'
  BY <1>11, WakerHead DEF WakeOneWriter, GrantHead
<1>12. ASSUME NEW t \in Tasks, DoWakeWriter(t) PROVE Typed'
  BY <1>12, WakerHead DEF DoWakeWriter, GrantHead
<1>13. ASSUME NEW t \in Tasks, DoWakeNone(t) PROVE Typed'
  BY <1>13 DEF DoWakeNone
<1>14. ASSUME NEW t \in Tasks, DoWakeReader(t) PROVE Typed'
  BY <1>14, WakerHead DEF DoWakeReader, GrantHead
<1>15. ASSUME NEW t \in Tasks, WakeWriter(t) PROVE Typed'
  <2>1. tsk \in Tasks
    BY <1>15 DEF Waking, WakeWriter, WakeUpAndPut
  <2>2. state' \in [Tasks -> {"RUNNING", "UNINTERRUPTIBLE"}] /\ usage' \in [Tasks -> Int]
    BY <1>15, <2>1 DEF WakeWriter, WakeUpAndPut
  <2> QED
    BY <1>15, <2>2, HeadFacts DEF WakeWriter, WakeUpAndPut
<1>16. ASSUME NEW t \in Tasks, WakeReaderNext(t) PROVE Typed'
  <2>1. tsk \in Tasks
    BY <1>16 DEF Waking, WakeReaderNext, GrantHead, WakeUpAndPut
  <2>2. state' \in [Tasks -> {"RUNNING", "UNINTERRUPTIBLE"}] /\ usage' \in [Tasks -> Int]
    BY <1>16, <2>1 DEF WakeReaderNext, GrantHead, WakeUpAndPut
  <2> QED
    BY <1>16, <2>2, HeadFacts DEF WakeReaderNext, GrantHead, WakeUpAndPut
<1>17. ASSUME NEW t \in Tasks, WakeReaderLast(t) PROVE Typed'
  <2>1. tsk \in Tasks
    BY <1>17 DEF Waking, WakeReaderLast, WakeUpAndPut
  <2>2. state' \in [Tasks -> {"RUNNING", "UNINTERRUPTIBLE"}] /\ usage' \in [Tasks -> Int]
    BY <1>17, <2>1 DEF WakeReaderLast, WakeUpAndPut
  <2> QED
    BY <1>17, <2>2, HeadFacts DEF WakeReaderLast, WakeUpAndPut
<1>18. ASSUME NEW t \in Tasks, Exit(t) PROVE Typed'
  BY <1>18 DEF Exit
<1>19. ASSUME NEW t \in Tasks, Fork(t) PROVE Typed'
  BY <1>19 DEF Fork
<1> QED
  BY <1>1, <1>2, <1>3, <1>4, <1>5, <1>6, <1>7, <1>8, <1>9, <1>10, <1>11, <1>12,
     <1>13, <1>14, <1>15, <1>16, <1>17, <1>18, <1>19, StepCases DEF Step

(* wait_lock has one holder, at a program counter of a waker.              *)
LEMMA LockStep ==
  ASSUME Typed, LockDiscipline, [Next]_vars
  PROVE  LockDiscipline'
<1> USE DEF Typed, LockDiscipline, WakerPcs, Goto
<1>1. CASE UNCHANGED vars
  BY <1>1 DEF vars
<1>2. ASSUME NEW t \in Tasks, TakeRead(t) PROVE LockDiscipline'
  BY <1>2, RwsemAssumption DEF TakeRead, GrantRead
<1>3. ASSUME NEW t \in Tasks, TakeWrite(t) PROVE LockDiscipline'
  BY <1>3, RwsemAssumption DEF TakeWrite, GrantWrite
<1>4. ASSUME NEW t \in Tasks, QueueRead(t) PROVE LockDiscipline'
  BY <1>4, RwsemAssumption DEF QueueRead, Enqueue
<1>5. ASSUME NEW t \in Tasks, QueueWrite(t) PROVE LockDiscipline'
  BY <1>5, RwsemAssumption DEF QueueWrite, Enqueue
<1>6. ASSUME NEW t \in Tasks, CheckGranted(t) PROVE LockDiscipline'
  BY <1>6, RwsemAssumption DEF CheckGranted
<1>7. ASSUME NEW t \in Tasks, Schedule(t) PROVE LockDiscipline'
  BY <1>7, RwsemAssumption DEF Schedule
<1>8. ASSUME NEW t \in Tasks, UpRead(t) PROVE LockDiscipline'
  BY <1>8, RwsemAssumption DEF UpRead
<1>9. ASSUME NEW t \in Tasks, UpWrite(t) PROVE LockDiscipline'
  BY <1>9, RwsemAssumption DEF UpWrite, Release
<1>10. ASSUME NEW t \in Tasks, DowngradeWrite(t) PROVE LockDiscipline'
  BY <1>10, RwsemAssumption DEF DowngradeWrite, Release
<1>11. ASSUME NEW t \in Tasks, WakeOneWriter(t) PROVE LockDiscipline'
  BY <1>11, RwsemAssumption DEF WakeOneWriter, GrantHead
<1>12. ASSUME NEW t \in Tasks, DoWakeWriter(t) PROVE LockDiscipline'
  BY <1>12, RwsemAssumption DEF DoWakeWriter, GrantHead
<1>13. ASSUME NEW t \in Tasks, DoWakeNone(t) PROVE LockDiscipline'
  BY <1>13, RwsemAssumption DEF DoWakeNone
<1>14. ASSUME NEW t \in Tasks, DoWakeReader(t) PROVE LockDiscipline'
  BY <1>14, RwsemAssumption DEF DoWakeReader, GrantHead
<1>15. ASSUME NEW t \in Tasks, WakeWriter(t) PROVE LockDiscipline'
  BY <1>15, RwsemAssumption DEF WakeWriter, WakeUpAndPut
<1>16. ASSUME NEW t \in Tasks, WakeReaderNext(t) PROVE LockDiscipline'
  BY <1>16, RwsemAssumption DEF WakeReaderNext, GrantHead, WakeUpAndPut
<1>17. ASSUME NEW t \in Tasks, WakeReaderLast(t) PROVE LockDiscipline'
  BY <1>17, RwsemAssumption DEF WakeReaderLast, WakeUpAndPut
<1>18. ASSUME NEW t \in Tasks, Exit(t) PROVE LockDiscipline'
  BY <1>18, RwsemAssumption DEF Exit
<1>19. ASSUME NEW t \in Tasks, Fork(t) PROVE LockDiscipline'
  BY <1>19, RwsemAssumption DEF Fork
<1> QED
  BY <1>1, <1>2, <1>3, <1>4, <1>5, <1>6, <1>7, <1>8, <1>9, <1>10, <1>11, <1>12,
     <1>13, <1>14, <1>15, <1>16, <1>17, <1>18, <1>19, StepCases DEF Step

(* Queueing and granting keep waiter->task and the list together.          *)
LEMMA ListStep ==
  ASSUME Typed, ListShape, Waking, [Next]_vars
  PROVE  ListShape'
<1> USE DEF Typed, ListShape, Goto
<1>1. CASE UNCHANGED vars
  BY <1>1 DEF vars
<1>2. ASSUME NEW t \in Tasks, TakeRead(t) PROVE ListShape'
  BY <1>2 DEF TakeRead, GrantRead
<1>3. ASSUME NEW t \in Tasks, TakeWrite(t) PROVE ListShape'
  BY <1>3 DEF TakeWrite, GrantWrite
<1>4. ASSUME NEW t \in Tasks, QueueRead(t) PROVE ListShape'
  <2>1. t \notin ToSet(wait_list)
    BY <1>4 DEF QueueRead, Enqueue
  <2>2. ToSet(wait_list') = ToSet(wait_list) \cup {t} /\ Unique(wait_list')
    BY <1>4, <2>1, AppendElems DEF QueueRead, Enqueue
  <2> QED
    BY <1>4, <2>2 DEF QueueRead, Enqueue
<1>5. ASSUME NEW t \in Tasks, QueueWrite(t) PROVE ListShape'
  <2>1. t \notin ToSet(wait_list)
    BY <1>5 DEF QueueWrite, Enqueue
  <2>2. ToSet(wait_list') = ToSet(wait_list) \cup {t} /\ Unique(wait_list')
    BY <1>5, <2>1, AppendElems DEF QueueWrite, Enqueue
  <2> QED
    BY <1>5, <2>2 DEF QueueWrite, Enqueue
<1>6. ASSUME NEW t \in Tasks, CheckGranted(t) PROVE ListShape'
  BY <1>6 DEF CheckGranted
<1>7. ASSUME NEW t \in Tasks, Schedule(t) PROVE ListShape'
  BY <1>7 DEF Schedule
<1>8. ASSUME NEW t \in Tasks, UpRead(t) PROVE ListShape'
  BY <1>8 DEF UpRead
<1>9. ASSUME NEW t \in Tasks, UpWrite(t) PROVE ListShape'
  BY <1>9 DEF UpWrite, Release
<1>10. ASSUME NEW t \in Tasks, DowngradeWrite(t) PROVE ListShape'
  BY <1>10 DEF DowngradeWrite, Release
<1>11. ASSUME NEW t \in Tasks, WakeOneWriter(t) PROVE ListShape'
  <2>1. /\ Head(wait_list) \in Tasks
        /\ ToSet(wait_list') = ToSet(wait_list) \ {Head(wait_list)} /\ Unique(wait_list')
    BY <1>11, WakerHead DEF WakeOneWriter, GrantHead
  <2> QED
    BY <1>11, <2>1 DEF WakeOneWriter, GrantHead
<1>12. ASSUME NEW t \in Tasks, DoWakeWriter(t) PROVE ListShape'
  <2>1. /\ Head(wait_list) \in Tasks
        /\ ToSet(wait_list') = ToSet(wait_list) \ {Head(wait_list)} /\ Unique(wait_list')
    BY <1>12, WakerHead DEF DoWakeWriter, GrantHead
  <2> QED
    BY <1>12, <2>1 DEF DoWakeWriter, GrantHead
<1>13. ASSUME NEW t \in Tasks, DoWakeNone(t) PROVE ListShape'
  BY <1>13 DEF DoWakeNone
<1>14. ASSUME NEW t \in Tasks, DoWakeReader(t) PROVE ListShape'
  <2>1. /\ Head(wait_list) \in Tasks
        /\ ToSet(wait_list') = ToSet(wait_list) \ {Head(wait_list)} /\ Unique(wait_list')
    BY <1>14, WakerHead DEF DoWakeReader, GrantHead
  <2> QED
    BY <1>14, <2>1 DEF DoWakeReader, GrantHead
<1>15. ASSUME NEW t \in Tasks, WakeWriter(t) PROVE ListShape'
  BY <1>15 DEF WakeWriter, WakeUpAndPut
<1>16. ASSUME NEW t \in Tasks, WakeReaderNext(t) PROVE ListShape'
  <2>1. /\ Head(wait_list) \in Tasks
        /\ ToSet(wait_list') = ToSet(wait_list) \ {Head(wait_list)} /\ Unique(wait_list')
    BY <1>16, HeadFacts DEF WakeReaderNext, GrantHead, WakeUpAndPut
  <2> QED
    BY <1>16, <2>1 DEF WakeReaderNext, GrantHead, WakeUpAndPut
<1>17. ASSUME NEW t \in Tasks, WakeReaderLast(t) PROVE ListShape'
  BY <1>17 DEF WakeReaderLast, WakeUpAndPut
<1>18. ASSUME NEW t \in Tasks, Exit(t) PROVE ListShape'
  BY <1>18 DEF Exit
<1>19. ASSUME NEW t \in Tasks, Fork(t) PROVE ListShape'
  BY <1>19 DEF Fork
<1> QED
  BY <1>1, <1>2, <1>3, <1>4, <1>5, <1>6, <1>7, <1>8, <1>9, <1>10, <1>11, <1>12,
     <1>13, <1>14, <1>15, <1>16, <1>17, <1>18, <1>19, StepCases DEF Step

-----------------------------------------------------------------------------
(* What a step does to the sets of holders.                                *)
SameHolders    == Readers' = Readers /\ Writers' = Writers
NewReader(t)   == t \notin Readers /\ Readers' = Readers \cup {t} /\ Writers' = Writers
NewWriter(t)   == t \notin Writers /\ Readers' = Readers /\ Writers' = Writers \cup {t}
LessReader(t)  == t \in Readers /\ Readers' = Readers \ {t} /\ Writers' = Writers
LessWriter(t)  == t \in Writers /\ Readers' = Readers /\ Writers' = Writers \ {t}
ReaderAgain(t) == t \in Writers /\ Readers' = Readers \cup {t} /\ Writers' = Writers \ {t}

Base == Typed /\ LockDiscipline /\ ListShape /\ Waking

(* Which it is, for each branch.                                           *)
LEMMA Effects ==
  ASSUME Base, NEW t \in Tasks
  PROVE  /\ TakeRead(t) => NewReader(t)
         /\ TakeWrite(t) => NewWriter(t)
         /\ QueueRead(t) \/ QueueWrite(t) => SameHolders
         /\ CheckGranted(t) \/ Schedule(t) \/ Exit(t) \/ Fork(t) => SameHolders
         /\ UpRead(t) => LessReader(t)
         /\ UpWrite(t) => LessWriter(t)
         /\ DowngradeWrite(t) => ReaderAgain(t)
         /\ WakeOneWriter(t) /\ flags[Head(wait_list)] = WRITE => NewWriter(Head(wait_list))
         /\ DoWakeWriter(t) => NewWriter(Head(wait_list))
         /\ DoWakeReader(t) \/ WakeReaderNext(t) => NewReader(Head(wait_list))
         /\ DoWakeNone(t) \/ WakeWriter(t) \/ WakeReaderLast(t) => SameHolders
<1> USE DEF Base, Typed, Pcs, Goto, Readers, Writers, Reads, Writes, Granted, READ, WRITE,
            SameHolders, NewReader, NewWriter, LessReader, LessWriter, ReaderAgain
<1>1. TakeRead(t) => NewReader(t)
  BY DEF TakeRead, GrantRead
<1>2. TakeWrite(t) => NewWriter(t)
  BY DEF TakeWrite, GrantWrite
<1>3. QueueRead(t) \/ QueueWrite(t) => SameHolders
  BY DEF QueueRead, QueueWrite, Enqueue
<1>4. CheckGranted(t) => SameHolders
  BY DEF CheckGranted
<1>5. Schedule(t) \/ Exit(t) \/ Fork(t) => SameHolders
  BY DEF Schedule, Exit, Fork
<1>6. UpRead(t) => LessReader(t)
  BY DEF UpRead
<1>7. UpWrite(t) => LessWriter(t)
  BY DEF UpWrite, Release
<1>8. DowngradeWrite(t) => ReaderAgain(t)
  BY DEF DowngradeWrite, Release
<1>9. WakeOneWriter(t) /\ flags[Head(wait_list)] = WRITE => NewWriter(Head(wait_list))
  BY WakerHead DEF WakeOneWriter, GrantHead
<1>10. DoWakeWriter(t) => NewWriter(Head(wait_list))
  BY WakerHead DEF DoWakeWriter, GrantHead
<1>11. DoWakeReader(t) => NewReader(Head(wait_list))
  BY WakerHead DEF DoWakeReader, GrantHead
<1>12. WakeReaderNext(t) => NewReader(Head(wait_list))
  BY HeadFacts DEF WakeReaderNext, GrantHead
<1>13. DoWakeNone(t) \/ WakeWriter(t) \/ WakeReaderLast(t) => SameHolders
  BY DEF DoWakeNone, WakeWriter, WakeReaderLast
<1> QED
  BY <1>1, <1>2, <1>3, <1>4, <1>5, <1>6, <1>7, <1>8, <1>9, <1>10, <1>11, <1>12, <1>13

-----------------------------------------------------------------------------
(* Sets of tasks are finite.                                               *)
LEMMA TaskSets ==
  ASSUME NEW S, S \subseteq Tasks
  PROVE  /\ IsFiniteSet(S) /\ Cardinality(S) \in Nat /\ Cardinality(S) <= Cardinality(Tasks)
         /\ Cardinality(S) = 0 <=> S = {}
BY RwsemAssumption, FS_Subset, FS_CardinalityType, FS_EmptySet

LEMMA HoldersAreTasks ==
  /\ Readers \subseteq Tasks /\ Writers \subseteq Tasks
  /\ Readers' \subseteq Tasks /\ Writers' \subseteq Tasks
BY DEF Readers, Writers

(* One more reader, one reader less.                                       *)
LEMMA ReaderCount ==
  ASSUME NEW t \in Tasks
  PROVE  /\ NewReader(t) => Cardinality(Readers') = Cardinality(Readers) + 1
         /\ LessReader(t) => Cardinality(Readers') = Cardinality(Readers) - 1
BY TaskSets, HoldersAreTasks, CardAdd, CardRemove DEF NewReader, LessReader

(* With wait_lock free nobody is waking; with it held only its holder is.  *)
LEMMA NobodyWakes ==
  ASSUME LockDiscipline', wait_lock' = NoTask
  PROVE  Phase'
BY RwsemAssumption DEF LockDiscipline, Phase, PhaseOf, WakerPcs

LEMMA OneWakes ==
  ASSUME LockDiscipline', NEW t \in Tasks, wait_lock' = t, PhaseOf(t)'
  PROVE  Phase' /\ Counts' /\ HeadIsWriter'
<1>1. \A x \in Tasks : x # t => PhaseOf(x)'
  BY DEF LockDiscipline, PhaseOf, WakerPcs
<1> QED
  BY <1>1, RwsemAssumption DEF Phase, Counts, HeadIsWriter

Accounts == Exclusive /\ Counts /\ Phase /\ HeadIsWriter

(* Grants, releases and hand-overs keep the accounts.                      *)
LEMMA AccountStep ==
  ASSUME Base, LockDiscipline', Accounts, [Next]_vars
  PROVE  Accounts'
<1>1. CASE UNCHANGED vars
  <2>1. SameHolders /\ \A x \in Tasks : PhaseOf(x)'
    BY <1>1 DEF vars, SameHolders, Readers, Writers, Reads, Writes, Granted, Accounts, Phase, PhaseOf
  <2> QED
    BY <1>1, <2>1 DEF vars, SameHolders, Accounts, Exclusive, Counts, Phase, HeadIsWriter
<1>2. ASSUME NEW t \in Tasks, TakeRead(t) PROVE Accounts'
  <2>1. NewReader(t)
    BY <1>2, Effects
  <2>2. Writers = {} /\ activity = Cardinality(Readers)
    BY <1>2, TaskSets, HoldersAreTasks DEF TakeRead, GrantRead, Accounts, Counts
  <2>3. Exclusive' /\ Counts'
    BY <1>2, <2>1, <2>2, ReaderCount, TaskSets, HoldersAreTasks DEF TakeRead, GrantRead, Exclusive, Counts, NewReader
  <2>4. Phase' /\ HeadIsWriter'
    BY <1>2, NobodyWakes DEF TakeRead, GrantRead, HeadIsWriter
  <2> QED
    BY <2>3, <2>4 DEF Accounts
<1>3. ASSUME NEW t \in Tasks, TakeWrite(t) PROVE Accounts'
  <2>1. NewWriter(t)
    BY <1>3, Effects
  <2>2. Writers = {} /\ activity = Cardinality(Readers)
    BY <1>3, TaskSets, HoldersAreTasks DEF TakeWrite, GrantWrite, Accounts, Counts
  <2>3. Exclusive' /\ Counts'
    BY <1>3, <2>1, <2>2, ReaderCount, TaskSets, HoldersAreTasks DEF TakeWrite, GrantWrite, Exclusive, Counts, NewWriter
  <2>4. Phase' /\ HeadIsWriter'
    BY <1>3, NobodyWakes DEF TakeWrite, GrantWrite, HeadIsWriter
  <2> QED
    BY <2>3, <2>4 DEF Accounts
<1>4. ASSUME NEW t \in Tasks, QueueRead(t) PROVE Accounts'
  <2>1. SameHolders
    BY <1>4, Effects
  <2>2. UNCHANGED <<activity, wait_lock>> /\ wait_lock = NoTask
    BY <1>4 DEF QueueRead, Enqueue
  <2>3. Exclusive' /\ Counts' /\ Phase'
    BY <2>1, <2>2, NobodyWakes DEF Accounts, Exclusive, Counts, SameHolders
  <2>4. t \notin ToSet(wait_list)
    BY <1>4 DEF QueueRead, Enqueue, Base, ListShape
  <2>5. Head(wait_list') = IF wait_list = <<>> THEN t ELSE Head(wait_list)
    BY <1>4, AppendElems DEF QueueRead, Enqueue, Base, Typed
  <2>6. wait_list # <<>> => Head(wait_list) \in Tasks /\ Head(wait_list) # t
    BY <2>4, HeadFacts, TailElems DEF Base, Typed
  <2>7. HeadIsWriter'
    BY <1>4, <2>2, <2>5, <2>6, TaskSets, HoldersAreTasks DEF QueueRead, Enqueue, Accounts, HeadIsWriter, Counts, Base, Typed
  <2> QED
    BY <2>3, <2>7 DEF Accounts
<1>5. ASSUME NEW t \in Tasks, QueueWrite(t) PROVE Accounts'
  <2>1. SameHolders
    BY <1>5, Effects
  <2>2. UNCHANGED <<activity, wait_lock>> /\ wait_lock = NoTask
    BY <1>5 DEF QueueWrite, Enqueue
  <2>3. Exclusive' /\ Counts' /\ Phase'
    BY <2>1, <2>2, NobodyWakes DEF Accounts, Exclusive, Counts, SameHolders
  <2>4. t \notin ToSet(wait_list)
    BY <1>5 DEF QueueWrite, Enqueue, Base, ListShape
  <2>5. Head(wait_list') = IF wait_list = <<>> THEN t ELSE Head(wait_list)
    BY <1>5, AppendElems DEF QueueWrite, Enqueue, Base, Typed
  <2>6. wait_list # <<>> => Head(wait_list) \in Tasks /\ Head(wait_list) # t
    BY <2>4, HeadFacts, TailElems DEF Base, Typed
  <2>7. HeadIsWriter'
    BY <1>5, <2>2, <2>5, <2>6, TaskSets, HoldersAreTasks DEF QueueWrite, Enqueue, Accounts, HeadIsWriter, Counts, Base, Typed
  <2> QED
    BY <2>3, <2>7 DEF Accounts
<1>6. ASSUME NEW t \in Tasks, CheckGranted(t) PROVE Accounts'
  <2>1. SameHolders
    BY <1>6, Effects
  <2>2. UNCHANGED <<activity, wait_lock, wait_list, flags, tsk, woken>>
    BY <1>6 DEF CheckGranted
  <2>3. \A x \in Tasks : PhaseOf(x)'
    BY <1>6, <2>1, <2>2 DEF CheckGranted, Accounts, Phase, PhaseOf, SameHolders, Base, Typed, Goto
  <2> QED
    BY <2>1, <2>2, <2>3 DEF Accounts, Exclusive, Counts, Phase, HeadIsWriter, SameHolders
<1>7. ASSUME NEW t \in Tasks, Schedule(t) PROVE Accounts'
  <2>1. SameHolders
    BY <1>7, Effects
  <2>2. UNCHANGED <<activity, wait_lock, wait_list, flags, tsk, woken>>
    BY <1>7 DEF Schedule
  <2>3. \A x \in Tasks : PhaseOf(x)'
    BY <1>7, <2>1, <2>2 DEF Schedule, Accounts, Phase, PhaseOf, SameHolders, Base, Typed, Goto
  <2> QED
    BY <2>1, <2>2, <2>3 DEF Accounts, Exclusive, Counts, Phase, HeadIsWriter, SameHolders
<1>8. ASSUME NEW t \in Tasks, UpRead(t) PROVE Accounts'
  <2>1. LessReader(t) /\ wait_lock = NoTask /\ activity' = activity - 1
    BY <1>8, Effects DEF UpRead
  <2>2. Writers = {} /\ activity = Cardinality(Readers) /\ activity > 0 /\ Writers' = {}
    BY <2>1, TaskSets, HoldersAreTasks DEF LessReader, Accounts, Exclusive, Counts
  <2>3. Exclusive' /\ activity' = Cardinality(Readers') /\ (activity' = 0 <=> Readers' = {})
    BY <2>1, <2>2, ReaderCount, TaskSets, HoldersAreTasks DEF Exclusive
  <2>4. wait_list # <<>> => flags[Head(wait_list)] = WRITE
    BY <2>1, <2>2 DEF Accounts, HeadIsWriter
  <2>5. CASE activity' = 0 /\ wait_list # <<>>
    <3>1. wait_lock' = t /\ pc'[t] = "wake_one" /\ UNCHANGED <<wait_list, flags>>
      BY <1>8, <2>5 DEF UpRead, Goto, Base, Typed
    <3>2. PhaseOf(t)'
      BY <2>2, <2>3, <2>4, <2>5, <3>1 DEF PhaseOf
    <3> QED
      BY <2>3, <3>1, <3>2, OneWakes DEF Accounts
  <2>6. CASE ~(activity' = 0 /\ wait_list # <<>>)
    <3>1. wait_lock' = NoTask /\ UNCHANGED <<wait_list, flags>>
      BY <1>8, <2>1, <2>6 DEF UpRead
    <3>2. Counts' /\ HeadIsWriter'
      BY <2>2, <2>3, <2>4, <2>6, <3>1 DEF Counts, HeadIsWriter
    <3> QED
      BY <2>3, <3>1, <3>2, NobodyWakes DEF Accounts
  <2> QED
    BY <2>5, <2>6
<1>9. ASSUME NEW t \in Tasks, UpWrite(t) PROVE Accounts'
  <2>1. LessWriter(t)
    BY <1>9, Effects
  <2>2. Writers = {t} /\ Readers = {}
    BY <2>1 DEF LessWriter, Accounts, Exclusive
  <2>3. Exclusive' /\ Writers' = {} /\ Readers' = {}
    BY <2>1, <2>2 DEF LessWriter, Exclusive
  <2>4. CASE wait_list # <<>>
    <3>1. wait_lock' = t /\ pc'[t] = "do_wake1" /\ activity' = 0 /\ wait_list' = wait_list
      BY <1>9, <2>4 DEF UpWrite, Release, Goto, Base, Typed
    <3>2. PhaseOf(t)'
      BY <2>3, <2>4, <3>1 DEF PhaseOf
    <3> QED
      BY <2>3, <3>1, <3>2, OneWakes DEF Accounts
  <2>5. CASE wait_list = <<>>
    <3>1. wait_lock' = NoTask /\ activity' = 0 /\ wait_list' = <<>>
      BY <1>9, <2>5 DEF UpWrite, Release
    <3> QED
      BY <2>3, <3>1, NobodyWakes, FS_EmptySet, FS_Singleton DEF Accounts, Counts, HeadIsWriter
  <2> QED
    BY <2>4, <2>5
<1>10. ASSUME NEW t \in Tasks, DowngradeWrite(t) PROVE Accounts'
  <2>1. ReaderAgain(t)
    BY <1>10, Effects
  <2>2. Writers = {t} /\ Readers = {}
    BY <2>1 DEF ReaderAgain, Accounts, Exclusive
  <2>3. Exclusive' /\ Writers' = {} /\ Readers' = {t}
    BY <2>1, <2>2 DEF ReaderAgain, Exclusive
  <2>4. CASE wait_list # <<>>
    <3>1. wait_lock' = t /\ pc'[t] = "do_wake0" /\ activity' = 1 /\ wait_list' = wait_list
      BY <1>10, <2>4 DEF DowngradeWrite, Release, Goto, Base, Typed
    <3>2. PhaseOf(t)'
      BY <2>3, <2>4, <3>1 DEF PhaseOf
    <3> QED
      BY <2>3, <3>1, <3>2, OneWakes DEF Accounts
  <2>5. CASE wait_list = <<>>
    <3>1. wait_lock' = NoTask /\ activity' = 1 /\ wait_list' = <<>>
      BY <1>10, <2>5 DEF DowngradeWrite, Release
    <3> QED
      BY <2>3, <3>1, NobodyWakes, FS_EmptySet, FS_Singleton DEF Accounts, Counts, HeadIsWriter
  <2> QED
    BY <2>4, <2>5
<1>11. ASSUME NEW t \in Tasks, WakeOneWriter(t) PROVE Accounts'
  <2>0. wait_lock = t /\ PhaseOf(t)
    BY <1>11 DEF WakeOneWriter, GrantHead, Base, LockDiscipline, WakerPcs, Accounts, Phase
  <2>1. NewWriter(Head(wait_list)) /\ Writers = {} /\ Readers = {} /\ Head(wait_list) \in Tasks
    BY <1>11, <2>0, Effects, WakerHead DEF WakeOneWriter, GrantHead, PhaseOf, Base
  <2>2. wait_lock' = t /\ pc'[t] = "woke_w" /\ activity' = -1 /\ tsk' \in Tasks
    BY <1>11, <2>0, <2>1 DEF WakeOneWriter, GrantHead, Goto, Base, Typed
  <2>3. Exclusive' /\ PhaseOf(t)'
    BY <2>1, <2>2 DEF NewWriter, Exclusive, PhaseOf
  <2> QED
    BY <2>2, <2>3, OneWakes DEF Accounts
<1>12. ASSUME NEW t \in Tasks, DoWakeWriter(t) PROVE Accounts'
  <2>0. wait_lock = t /\ PhaseOf(t)
    BY <1>12 DEF DoWakeWriter, GrantHead, Base, LockDiscipline, WakerPcs, Accounts, Phase
  <2>1. NewWriter(Head(wait_list)) /\ Writers = {} /\ Readers = {} /\ Head(wait_list) \in Tasks
    BY <1>12, <2>0, Effects, WakerHead DEF DoWakeWriter, GrantHead, PhaseOf, Base
  <2>2. wait_lock' = t /\ pc'[t] = "woke_w" /\ activity' = -1 /\ tsk' \in Tasks
    BY <1>12, <2>0, <2>1 DEF DoWakeWriter, GrantHead, Goto, Base, Typed
  <2>3. Exclusive' /\ PhaseOf(t)'
    BY <2>1, <2>2 DEF NewWriter, Exclusive, PhaseOf
  <2> QED
    BY <2>2, <2>3, OneWakes DEF Accounts
<1>13. ASSUME NEW t \in Tasks, DoWakeNone(t) PROVE Accounts'
  <2>0. wait_lock = t /\ PhaseOf(t)
    BY <1>13 DEF DoWakeNone, Base, LockDiscipline, WakerPcs, Accounts, Phase
  <2>1. SameHolders /\ Writers = {} /\ Cardinality(Readers) = 1 /\ activity = 1
    BY <1>13, <2>0, Effects, FS_Singleton DEF DoWakeNone, PhaseOf
  <2>2. wait_lock' = NoTask /\ UNCHANGED <<activity, wait_list, flags>> /\ flags[Head(wait_list)] = WRITE
    BY <1>13 DEF DoWakeNone
  <2>3. Exclusive' /\ Counts' /\ HeadIsWriter'
    BY <2>1, <2>2 DEF SameHolders, Exclusive, Counts, HeadIsWriter
  <2> QED
    BY <2>2, <2>3, NobodyWakes DEF Accounts
<1>14. ASSUME NEW t \in Tasks, DoWakeReader(t) PROVE Accounts'
  <2>0. wait_lock = t /\ PhaseOf(t)
    BY <1>14 DEF DoWakeReader, GrantHead, Base, LockDiscipline, WakerPcs, Accounts, Phase
  <2>1. NewReader(Head(wait_list)) /\ Writers = {} /\ Head(wait_list) \in Tasks
    BY <1>14, <2>0, Effects, WakerHead, HeadFacts DEF DoWakeReader, GrantHead, PhaseOf, Base
  <2>2. Exclusive' /\ Writers' = {} /\ Cardinality(Readers') = Cardinality(Readers) + 1
    BY <2>1, ReaderCount DEF NewReader, Exclusive
  <2>3. /\ wait_lock' = t /\ activity' = activity /\ tsk' \in Tasks
    BY <1>14, <2>0, <2>1 DEF DoWakeReader, GrantHead
  <2>4. PhaseOf(t)'
    <3>1. CASE pc[t] = "do_wake1"
      <4>1. pc'[t] = "woke_r1" /\ woken' = 0
        BY <1>14, <3>1 DEF DoWakeReader, GrantHead, Goto, Base, Typed
      <4> QED
        BY <2>0, <2>2, <2>3, <3>1, <4>1, FS_EmptySet DEF PhaseOf
    <3>2. CASE pc[t] = "do_wake0"
      <4>1. pc'[t] = "woke_r0" /\ woken' = 0
        BY <1>14, <3>2 DEF DoWakeReader, GrantHead, Goto, Base, Typed
      <4> QED
        <5>1. Readers = {t} /\ activity = 1
          BY <2>0, <3>2 DEF PhaseOf
        <5>2. Cardinality(Readers) = 1
          BY <5>1, FS_Singleton
        <5> QED
          BY <2>2, <2>3, <4>1, <5>1, <5>2 DEF PhaseOf
    <3> QED
      BY <1>14, <3>1, <3>2 DEF DoWakeReader
  <2> QED
    BY <2>2, <2>3, <2>4, OneWakes DEF Accounts
<1>15. ASSUME NEW t \in Tasks, WakeWriter(t) PROVE Accounts'
  <2>0. wait_lock = t /\ PhaseOf(t)
    BY <1>15 DEF WakeWriter, WakeUpAndPut, Base, LockDiscipline, WakerPcs, Accounts, Phase
  <2>1. SameHolders /\ Writers # {} /\ activity = -1
    BY <1>15, <2>0, Effects DEF WakeWriter, WakeUpAndPut, PhaseOf
  <2>2. wait_lock' = NoTask /\ UNCHANGED <<activity, wait_list, flags>>
    BY <1>15 DEF WakeWriter, WakeUpAndPut
  <2>3. Exclusive' /\ Counts' /\ HeadIsWriter'
    BY <2>1, <2>2 DEF SameHolders, Accounts, Exclusive, Counts, HeadIsWriter
  <2> QED
    BY <2>2, <2>3, NobodyWakes DEF Accounts
<1>16. ASSUME NEW t \in Tasks, WakeReaderNext(t) PROVE Accounts'
  <2>0. wait_lock = t /\ PhaseOf(t)
    BY <1>16 DEF WakeReaderNext, GrantHead, WakeUpAndPut, Base, LockDiscipline, WakerPcs, Accounts, Phase
  <2>1. NewReader(Head(wait_list)) /\ Writers = {} /\ Head(wait_list) \in Tasks
    BY <1>16, <2>0, Effects, WakerHead, HeadFacts DEF WakeReaderNext, GrantHead, WakeUpAndPut, PhaseOf, Base
  <2>2. Exclusive' /\ Writers' = {} /\ Cardinality(Readers') = Cardinality(Readers) + 1
    BY <2>1, ReaderCount DEF NewReader, Exclusive
  <2>3. /\ wait_lock' = t /\ activity' = activity /\ tsk' \in Tasks
    BY <1>16, <2>0, <2>1 DEF WakeReaderNext, GrantHead, WakeUpAndPut
  <2>4. PhaseOf(t)'
    <3>1. pc'[t] = pc[t] /\ woken' = woken + 1 /\ woken \in Nat /\ pc[t] \in {"woke_r0", "woke_r1"}
      BY <1>16 DEF WakeReaderNext, GrantHead, WakeUpAndPut, Base, Typed
    <3> QED
      BY <2>0, <2>2, <2>3, <3>1, TaskSets, HoldersAreTasks DEF PhaseOf
  <2> QED
    BY <2>2, <2>3, <2>4, OneWakes DEF Accounts
<1>17. ASSUME NEW t \in Tasks, WakeReaderLast(t) PROVE Accounts'
  <2>0. wait_lock = t /\ PhaseOf(t)
    BY <1>17 DEF WakeReaderLast, WakeUpAndPut, Base, LockDiscipline, WakerPcs, Accounts, Phase
  <2>1. /\ SameHolders /\ Writers = {} /\ Cardinality(Readers) = activity + woken + 1
        /\ activity >= 0 /\ woken \in Nat /\ activity \in Int
    BY <1>17, <2>0, Effects DEF WakeReaderLast, WakeUpAndPut, PhaseOf, Base, Typed
  <2>2. /\ wait_lock' = NoTask /\ UNCHANGED <<wait_list, flags>> /\ activity' = activity + woken + 1
        /\ wait_list # <<>> => Head(wait_list) \in Tasks /\ flags[Head(wait_list)] # READ
    BY <1>17, HeadFacts DEF WakeReaderLast, WakeUpAndPut, Base
  <2>3. wait_list # <<>> => flags[Head(wait_list)] = WRITE
    BY <2>2 DEF Base, Typed
  <2>4. Exclusive' /\ Counts' /\ HeadIsWriter'
    BY <2>1, <2>2, <2>3 DEF SameHolders, Exclusive, Counts, HeadIsWriter
  <2> QED
    BY <2>2, <2>4, NobodyWakes DEF Accounts
<1>18. ASSUME NEW t \in Tasks, Exit(t) PROVE Accounts'
  <2>1. SameHolders
    BY <1>18, Effects
  <2>2. UNCHANGED <<activity, wait_lock, wait_list, flags, tsk, woken>>
    BY <1>18 DEF Exit
  <2>3. \A x \in Tasks : PhaseOf(x)'
    BY <1>18, <2>1, <2>2 DEF Exit, Accounts, Phase, PhaseOf, SameHolders, Base, Typed, Goto
  <2> QED
    BY <2>1, <2>2, <2>3 DEF Accounts, Exclusive, Counts, Phase, HeadIsWriter, SameHolders
<1>19. ASSUME NEW t \in Tasks, Fork(t) PROVE Accounts'
  <2>1. SameHolders
    BY <1>19, Effects
  <2>2. UNCHANGED <<activity, wait_lock, wait_list, flags, tsk, woken>>
    BY <1>19 DEF Fork
  <2>3. \A x \in Tasks : PhaseOf(x)'
    BY <1>19, <2>1, <2>2 DEF Fork, Accounts, Phase, PhaseOf, SameHolders, Base, Typed, Goto
  <2> QED
    BY <2>1, <2>2, <2>3 DEF Accounts, Exclusive, Counts, Phase, HeadIsWriter, SameHolders
<1> QED
  BY <1>1, <1>2, <1>3, <1>4, <1>5, <1>6, <1>7, <1>8, <1>9, <1>10, <1>11, <1>12,
     <1>13, <1>14, <1>15, <1>16, <1>17, <1>18, <1>19, StepCases DEF Step

(* get_task_struct, put_task_struct, exit and fork keep the references.    *)
LEMMA ReferenceStep ==
  ASSUME Typed, LockDiscipline, ListShape, Waking, TskShape, ReferencesExact, [Next]_vars
  PROVE  ReferencesExact'
<1> USE DEF Typed, Goto, ReferencesExact
<1>1. CASE UNCHANGED vars
  BY <1>1 DEF vars
<1>2. ASSUME NEW t \in Tasks, TakeRead(t) PROVE ReferencesExact'
  BY <1>2 DEF TakeRead, GrantRead
<1>3. ASSUME NEW t \in Tasks, TakeWrite(t) PROVE ReferencesExact'
  BY <1>3 DEF TakeWrite, GrantWrite
<1>4. ASSUME NEW t \in Tasks, QueueRead(t) PROVE ReferencesExact'
  <2>1. t \notin ToSet(wait_list)
    BY <1>4 DEF QueueRead, Enqueue, ListShape
  <2>2. ToSet(wait_list') = ToSet(wait_list) \cup {t}
    BY <1>4, AppendElems DEF QueueRead, Enqueue
  <2>3. \A x \in Tasks : usage'[x] = IF x = t THEN usage[x] + 1 ELSE usage[x]
    BY <1>4 DEF QueueRead, Enqueue
  <2>4. pc' = [pc EXCEPT ![t] = "check"] /\ pc[t] = "idle" /\ tsk' = tsk
    BY <1>4 DEF QueueRead, Enqueue
  <2> SUFFICES ASSUME NEW x \in Tasks PROVE ReferencesExact!(x)'
    OBVIOUS
  <2>9. ReferencesExact!(x) /\ usage[x] \in Int
    OBVIOUS
  <2> HIDE DEF Typed, ReferencesExact, Goto
  <2> QED
    BY <2>1, <2>2, <2>3, <2>4, <2>9
<1>5. ASSUME NEW t \in Tasks, QueueWrite(t) PROVE ReferencesExact'
  <2>1. t \notin ToSet(wait_list)
    BY <1>5 DEF QueueWrite, Enqueue, ListShape
  <2>2. ToSet(wait_list') = ToSet(wait_list) \cup {t}
    BY <1>5, AppendElems DEF QueueWrite, Enqueue
  <2>3. \A x \in Tasks : usage'[x] = IF x = t THEN usage[x] + 1 ELSE usage[x]
    BY <1>5 DEF QueueWrite, Enqueue
  <2>4. pc' = [pc EXCEPT ![t] = "check"] /\ pc[t] = "idle" /\ tsk' = tsk
    BY <1>5 DEF QueueWrite, Enqueue
  <2> SUFFICES ASSUME NEW x \in Tasks PROVE ReferencesExact!(x)'
    OBVIOUS
  <2>9. ReferencesExact!(x) /\ usage[x] \in Int
    OBVIOUS
  <2> HIDE DEF Typed, ReferencesExact, Goto
  <2> QED
    BY <2>1, <2>2, <2>3, <2>4, <2>9
<1>6. ASSUME NEW t \in Tasks, CheckGranted(t) PROVE ReferencesExact'
  BY <1>6 DEF CheckGranted
<1>7. ASSUME NEW t \in Tasks, Schedule(t) PROVE ReferencesExact'
  BY <1>7 DEF Schedule
<1>8. ASSUME NEW t \in Tasks, UpRead(t) PROVE ReferencesExact'
  BY <1>8 DEF UpRead
<1>9. ASSUME NEW t \in Tasks, UpWrite(t) PROVE ReferencesExact'
  BY <1>9 DEF UpWrite, Release
<1>10. ASSUME NEW t \in Tasks, DowngradeWrite(t) PROVE ReferencesExact'
  BY <1>10 DEF DowngradeWrite, Release
<1>11. ASSUME NEW t \in Tasks, WakeOneWriter(t) PROVE ReferencesExact'
  <2>1. ToSet(wait_list') = ToSet(wait_list) \ {Head(wait_list)} /\ Head(wait_list) \in ToSet(wait_list)
    BY <1>11, WakerHead DEF WakeOneWriter, GrantHead, ListShape
  <2>2. tsk = NoTask
    BY <1>11 DEF WakeOneWriter, GrantHead, TskShape, LockDiscipline, WakerPcs
  <2>3. tsk' = Head(wait_list) /\ UNCHANGED usage /\ \A x \in Tasks : pc'[x] = "dead" <=> pc[x] = "dead"
    BY <1>11 DEF WakeOneWriter, GrantHead
  <2> SUFFICES ASSUME NEW x \in Tasks PROVE ReferencesExact!(x)'
    OBVIOUS
  <2>9. ReferencesExact!(x) /\ usage[x] \in Int
    OBVIOUS
  <2> HIDE DEF Typed, ReferencesExact, Goto
  <2> QED
    BY <2>1, <2>2, <2>3, <2>9, RwsemAssumption
<1>12. ASSUME NEW t \in Tasks, DoWakeWriter(t) PROVE ReferencesExact'
  <2>1. ToSet(wait_list') = ToSet(wait_list) \ {Head(wait_list)} /\ Head(wait_list) \in ToSet(wait_list)
    BY <1>12, WakerHead DEF DoWakeWriter, GrantHead, ListShape
  <2>2. tsk = NoTask
    BY <1>12 DEF DoWakeWriter, GrantHead, TskShape, LockDiscipline, WakerPcs
  <2>3. tsk' = Head(wait_list) /\ UNCHANGED usage /\ \A x \in Tasks : pc'[x] = "dead" <=> pc[x] = "dead"
    BY <1>12 DEF DoWakeWriter, GrantHead
  <2> SUFFICES ASSUME NEW x \in Tasks PROVE ReferencesExact!(x)'
    OBVIOUS
  <2>9. ReferencesExact!(x) /\ usage[x] \in Int
    OBVIOUS
  <2> HIDE DEF Typed, ReferencesExact, Goto
  <2> QED
    BY <2>1, <2>2, <2>3, <2>9, RwsemAssumption
<1>13. ASSUME NEW t \in Tasks, DoWakeNone(t) PROVE ReferencesExact'
  BY <1>13 DEF DoWakeNone
<1>14. ASSUME NEW t \in Tasks, DoWakeReader(t) PROVE ReferencesExact'
  <2>1. ToSet(wait_list') = ToSet(wait_list) \ {Head(wait_list)} /\ Head(wait_list) \in ToSet(wait_list)
    BY <1>14, WakerHead DEF DoWakeReader, GrantHead, ListShape
  <2>2. tsk = NoTask
    BY <1>14 DEF DoWakeReader, GrantHead, TskShape, LockDiscipline, WakerPcs
  <2>3. tsk' = Head(wait_list) /\ UNCHANGED usage /\ \A x \in Tasks : pc'[x] = "dead" <=> pc[x] = "dead"
    BY <1>14 DEF DoWakeReader, GrantHead
  <2> SUFFICES ASSUME NEW x \in Tasks PROVE ReferencesExact!(x)'
    OBVIOUS
  <2>9. ReferencesExact!(x) /\ usage[x] \in Int
    OBVIOUS
  <2> HIDE DEF Typed, ReferencesExact, Goto
  <2> QED
    BY <2>1, <2>2, <2>3, <2>9, RwsemAssumption
<1>15. ASSUME NEW t \in Tasks, WakeWriter(t) PROVE ReferencesExact'
  <2>1. tsk \in Tasks
    BY <1>15 DEF WakeWriter, WakeUpAndPut, Waking
  <2>2. \A x \in Tasks : usage'[x] = IF x = tsk THEN usage[x] - 1 ELSE usage[x]
    BY <1>15, <2>1 DEF WakeWriter, WakeUpAndPut
  <2>3. tsk' = NoTask /\ wait_list' = wait_list /\ \A x \in Tasks : pc'[x] = "dead" <=> pc[x] = "dead"
    BY <1>15 DEF WakeWriter, WakeUpAndPut
  <2> SUFFICES ASSUME NEW x \in Tasks PROVE ReferencesExact!(x)'
    OBVIOUS
  <2>9. ReferencesExact!(x) /\ usage[x] \in Int
    OBVIOUS
  <2> HIDE DEF Typed, ReferencesExact, Goto
  <2> QED
    BY <2>1, <2>2, <2>3, <2>9, RwsemAssumption
<1>16. ASSUME NEW t \in Tasks, WakeReaderNext(t) PROVE ReferencesExact'
  <2>1. tsk \in Tasks
    BY <1>16 DEF WakeReaderNext, GrantHead, WakeUpAndPut, Waking
  <2>2. \A x \in Tasks : usage'[x] = IF x = tsk THEN usage[x] - 1 ELSE usage[x]
    BY <1>16, <2>1 DEF WakeReaderNext, GrantHead, WakeUpAndPut
  <2>3. ToSet(wait_list') = ToSet(wait_list) \ {Head(wait_list)} /\ Head(wait_list) \in ToSet(wait_list)
    BY <1>16, HeadFacts DEF WakeReaderNext, GrantHead, WakeUpAndPut, ListShape
  <2>4. tsk' = Head(wait_list) /\ UNCHANGED pc
    BY <1>16 DEF WakeReaderNext, GrantHead, WakeUpAndPut
  <2> SUFFICES ASSUME NEW x \in Tasks PROVE ReferencesExact!(x)'
    OBVIOUS
  <2>9. ReferencesExact!(x) /\ usage[x] \in Int
    OBVIOUS
  <2> HIDE DEF Typed, ReferencesExact, Goto
  <2> QED
    BY <2>1, <2>2, <2>3, <2>4, <2>9
<1>17. ASSUME NEW t \in Tasks, WakeReaderLast(t) PROVE ReferencesExact'
  <2>1. tsk \in Tasks
    BY <1>17 DEF WakeReaderLast, WakeUpAndPut, Waking
  <2>2. \A x \in Tasks : usage'[x] = IF x = tsk THEN usage[x] - 1 ELSE usage[x]
    BY <1>17, <2>1 DEF WakeReaderLast, WakeUpAndPut
  <2>3. tsk' = NoTask /\ wait_list' = wait_list /\ \A x \in Tasks : pc'[x] = "dead" <=> pc[x] = "dead"
    BY <1>17 DEF WakeReaderLast, WakeUpAndPut
  <2> SUFFICES ASSUME NEW x \in Tasks PROVE ReferencesExact!(x)'
    OBVIOUS
  <2>9. ReferencesExact!(x) /\ usage[x] \in Int
    OBVIOUS
  <2> HIDE DEF Typed, ReferencesExact, Goto
  <2> QED
    BY <2>1, <2>2, <2>3, <2>9, RwsemAssumption
<1>18. ASSUME NEW t \in Tasks, Exit(t) PROVE ReferencesExact'
  BY <1>18 DEF Exit
<1>19. ASSUME NEW t \in Tasks, Fork(t) PROVE ReferencesExact'
  BY <1>19 DEF Fork
<1> QED
  BY <1>1, <1>2, <1>3, <1>4, <1>5, <1>6, <1>7, <1>8, <1>9, <1>10, <1>11, <1>12,
     <1>13, <1>14, <1>15, <1>16, <1>17, <1>18, <1>19, StepCases DEF Step

(* tsk is set only between a grant and the wake-up.                        *)
LEMMA TskStep ==
  ASSUME Typed, LockDiscipline, TskShape, [Next]_vars
  PROVE  TskShape'
<1> USE DEF Typed, Goto, TskShape
<1>1. CASE UNCHANGED vars
  BY <1>1 DEF vars
<1>2. ASSUME NEW t \in Tasks, TakeRead(t) PROVE TskShape'
  BY <1>2, RwsemAssumption DEF TakeRead, GrantRead, LockDiscipline, WakerPcs
<1>3. ASSUME NEW t \in Tasks, TakeWrite(t) PROVE TskShape'
  BY <1>3, RwsemAssumption DEF TakeWrite, GrantWrite, LockDiscipline, WakerPcs
<1>4. ASSUME NEW t \in Tasks, QueueRead(t) PROVE TskShape'
  BY <1>4, RwsemAssumption DEF QueueRead, Enqueue, LockDiscipline, WakerPcs
<1>5. ASSUME NEW t \in Tasks, QueueWrite(t) PROVE TskShape'
  BY <1>5, RwsemAssumption DEF QueueWrite, Enqueue, LockDiscipline, WakerPcs
<1>6. ASSUME NEW t \in Tasks, CheckGranted(t) PROVE TskShape'
  BY <1>6, RwsemAssumption DEF CheckGranted, LockDiscipline, WakerPcs
<1>7. ASSUME NEW t \in Tasks, Schedule(t) PROVE TskShape'
  BY <1>7, RwsemAssumption DEF Schedule, LockDiscipline, WakerPcs
<1>8. ASSUME NEW t \in Tasks, UpRead(t) PROVE TskShape'
  BY <1>8, RwsemAssumption DEF UpRead, LockDiscipline, WakerPcs
<1>9. ASSUME NEW t \in Tasks, UpWrite(t) PROVE TskShape'
  BY <1>9, RwsemAssumption DEF UpWrite, Release, LockDiscipline, WakerPcs
<1>10. ASSUME NEW t \in Tasks, DowngradeWrite(t) PROVE TskShape'
  BY <1>10, RwsemAssumption DEF DowngradeWrite, Release, LockDiscipline, WakerPcs
<1>11. ASSUME NEW t \in Tasks, WakeOneWriter(t) PROVE TskShape'
  BY <1>11, RwsemAssumption DEF WakeOneWriter, GrantHead, LockDiscipline, WakerPcs
<1>12. ASSUME NEW t \in Tasks, DoWakeWriter(t) PROVE TskShape'
  BY <1>12, RwsemAssumption DEF DoWakeWriter, GrantHead, LockDiscipline, WakerPcs
<1>13. ASSUME NEW t \in Tasks, DoWakeNone(t) PROVE TskShape'
  BY <1>13, RwsemAssumption DEF DoWakeNone, LockDiscipline, WakerPcs
<1>14. ASSUME NEW t \in Tasks, DoWakeReader(t) PROVE TskShape'
  BY <1>14, RwsemAssumption DEF DoWakeReader, GrantHead, LockDiscipline, WakerPcs
<1>15. ASSUME NEW t \in Tasks, WakeWriter(t) PROVE TskShape'
  BY <1>15, RwsemAssumption DEF WakeWriter, WakeUpAndPut, LockDiscipline, WakerPcs
<1>16. ASSUME NEW t \in Tasks, WakeReaderNext(t) PROVE TskShape'
  BY <1>16, RwsemAssumption DEF WakeReaderNext, GrantHead, WakeUpAndPut, LockDiscipline, WakerPcs
<1>17. ASSUME NEW t \in Tasks, WakeReaderLast(t) PROVE TskShape'
  BY <1>17, RwsemAssumption DEF WakeReaderLast, WakeUpAndPut, LockDiscipline, WakerPcs
<1>18. ASSUME NEW t \in Tasks, Exit(t) PROVE TskShape'
  BY <1>18, RwsemAssumption DEF Exit, LockDiscipline, WakerPcs
<1>19. ASSUME NEW t \in Tasks, Fork(t) PROVE TskShape'
  BY <1>19, RwsemAssumption DEF Fork, LockDiscipline, WakerPcs
<1> QED
  BY <1>1, <1>2, <1>3, <1>4, <1>5, <1>6, <1>7, <1>8, <1>9, <1>10, <1>11, <1>12,
     <1>13, <1>14, <1>15, <1>16, <1>17, <1>18, <1>19, StepCases DEF Step

-----------------------------------------------------------------------------
LEMMA WakingHolds == ASSUME Phase PROVE Waking
BY DEF Phase, PhaseOf, Waking

(* Every step preserves the invariant.                                     *)
LEMMA InvStep == ASSUME IInv, [Next]_vars PROVE IInv'
<1>1. Waking
  BY WakingHolds DEF IInv
<1>2. Typed'
  BY <1>1, TypedStep DEF IInv
<1>3. LockDiscipline'
  BY LockStep DEF IInv
<1>4. ListShape'
  BY <1>1, ListStep DEF IInv
<1>5. Accounts'
  BY <1>1, <1>3, AccountStep DEF IInv, Base, Accounts
<1>6. ReferencesExact' /\ TskShape'
  BY <1>1, ReferenceStep, TskStep DEF IInv
<1> QED
  BY <1>2, <1>3, <1>4, <1>5, <1>6 DEF IInv, Accounts

(* The initial state satisfies the invariant.                              *)
LEMMA InitInv == Init => IInv
<1> SUFFICES ASSUME Init PROVE IInv
  OBVIOUS
<1>1. Typed
  BY DEF Init, Typed, Pcs, READ, WRITE
<1>2. LockDiscipline /\ Phase /\ TskShape
  BY RwsemAssumption DEF Init, LockDiscipline, WakerPcs, Phase, PhaseOf, TskShape
<1>3. ListShape /\ HeadIsWriter
  BY ToSetEmpty DEF Init, ListShape, HeadIsWriter
<1>4. Readers = {} /\ Writers = {}
  BY DEF Init, Readers, Writers, Reads, Writes, Granted
<1>5. Exclusive /\ Counts
  BY <1>4, FS_EmptySet DEF Init, Exclusive, Counts
<1>6. ReferencesExact
  BY ToSetEmpty, RwsemAssumption DEF Init, ReferencesExact
<1> QED
  BY <1>1, <1>2, <1>3, <1>5, <1>6 DEF IInv

(* IInv is an invariant.                                                   *)
LEMMA Invariance == Spec => []IInv
<1>1. IInv /\ [Next]_vars => IInv'
  BY InvStep
<1> QED
  BY InitInv, <1>1, PTL DEF Spec

(* The accounts bound activity by the number of tasks.                     *)
LEMMA TypeHolds == ASSUME IInv PROVE TypeOK
<1>1. activity \in -1..Cardinality(Tasks)
  <2>1. Cardinality(Readers) \in Nat /\ Cardinality(Readers) <= Cardinality(Tasks) /\ Cardinality(Tasks) \in Nat
    BY TaskSets, HoldersAreTasks
  <2>2. CASE wait_lock = NoTask
    BY <2>1, <2>2 DEF IInv, Counts
  <2>3. CASE wait_lock # NoTask
    <3>1. PICK t \in Tasks : pc[t] \in WakerPcs /\ PhaseOf(t)
      BY <2>3 DEF IInv, Typed, LockDiscipline, Phase
    <3>2. CASE pc[t] = "do_wake0"
      <4>1. Cardinality(Readers) = 1 /\ activity = 1
        BY <3>1, <3>2, FS_Singleton DEF PhaseOf
      <4> QED
        BY <2>1, <4>1
    <3>3. CASE pc[t] = "woke_r0"
      <4>1. Cardinality(Readers) = woken + 2 /\ activity = 1 /\ woken \in Nat
        BY <3>1, <3>3 DEF PhaseOf, IInv, Typed
      <4> QED
        BY <2>1, <4>1
    <3>4. CASE pc[t] \notin {"do_wake0", "woke_r0"}
      <4>1. activity \in {-1, 0}
        BY <3>1, <3>4 DEF PhaseOf, WakerPcs
      <4> QED
        BY <2>1, <4>1
    <3> QED
      BY <3>2, <3>3, <3>4
  <2> QED
    BY <2>2, <2>3
<1>2. \A t \in Tasks : usage[t] \in Nat
  BY DEF IInv, ReferencesExact
<1>3. usage \in [Tasks -> Nat]
  BY <1>2 DEF IInv, Typed
<1> QED
  BY <1>1, <1>3 DEF IInv, Typed, TypeOK

(* Every variable keeps its type: activity stays between -1 and the number *)
(* of tasks, and no reference count goes below 0.                          *)
THEOREM TypeCorrect == Spec => []TypeOK
<1>1. IInv => TypeOK
  BY TypeHolds
<1> QED
  BY Invariance, <1>1, PTL

(* A writer is alone, whatever the hand-over is doing, for any finite set  *)
(* of tasks.                                                               *)
THEOREM Exclusion == Spec => []WriterExcludes
<1>1. IInv => WriterExcludes
  BY DEF IInv, Exclusive, Readers, Writers, WriterExcludes
<1> QED
  BY Invariance, <1>1, PTL

(* activity counts the readers or marks the writer whenever wait_lock is   *)
(* free.                                                                   *)
THEOREM ActivityMeaning == Spec => []ActivityCounts
<1>1. IInv => ActivityCounts
  BY DEF IInv, Counts, Writers, ActivityCounts
<1> QED
  BY Invariance, <1>1, PTL

(* Behind active readers the queue begins with a writer, and nobody queues *)
(* for a free semaphore: what __up_read assumes without looking.           *)
THEOREM WriterHeadsQueue == Spec => []HeadIsWriter
BY Invariance, PTL DEF IInv

(* A waiter or the task being woken always has its reference, and none is  *)
(* leaked.                                                                 *)
THEOREM References == Spec => []ReferencesExact
BY Invariance, PTL DEF IInv

-----------------------------------------------------------------------------
(* With the invariant, the abstract writer is the member of Writers.       *)
LEMMA WriterIs ==
  ASSUME Exclusive
  PROVE  /\ Writers = {} => Writer = NoTask
         /\ \A t \in Tasks : Writers = {t} => Writer = t
BY DEF Exclusive, Writers, Writer

LEMMA WriterIsNext ==
  ASSUME Exclusive'
  PROVE  /\ Writers' = {} => Writer' = NoTask
         /\ \A t \in Tasks : Writers' = {t} => Writer' = t
BY DEF Exclusive, Writers, Writer

(* Same holders, same abstract writer.                                     *)
LEMMA SameWriter == ASSUME Writers' = Writers, Exclusive, Exclusive' PROVE Writer' = Writer
<1>1. Writers = {} \/ \E t \in Tasks : Writers = {t}
  BY DEF Exclusive, Writers
<1> QED
  BY <1>1, WriterIs, WriterIsNext

(* Every step is a step of the abstract lock or changes nothing there.     *)
LEMMA RefineStep ==
  ASSUME IInv, IInv', [Next]_vars
  PROVE  [ARW!Next]_<<Readers, Writer>>
<1>0. Base /\ Accounts /\ Exclusive /\ Exclusive'
  BY WakingHolds DEF IInv, Base, Accounts
<1>1. ASSUME SameHolders PROVE UNCHANGED <<Readers, Writer>>
  BY <1>0, <1>1, SameWriter DEF SameHolders
<1>2. ASSUME NEW t \in Tasks, NewReader(t) PROVE ARW!AcquireRead(t)
  <2>1. Writers = {}
    BY <1>0, <1>2 DEF NewReader, Exclusive
  <2> QED
    BY <1>0, <1>2, <2>1, WriterIs, SameWriter DEF NewReader, ARW!AcquireRead
<1>3. ASSUME NEW t \in Tasks, NewWriter(t) PROVE ARW!AcquireWrite(t)
  <2>1. Readers = {} /\ Writers = {} /\ Writers' = {t}
    BY <1>0, <1>3 DEF NewWriter, Exclusive
  <2> QED
    BY <1>0, <1>3, <2>1, WriterIs, WriterIsNext DEF NewWriter, ARW!AcquireWrite
<1>4. ASSUME NEW t \in Tasks, LessReader(t) PROVE ARW!ReleaseRead(t)
  BY <1>0, <1>4, SameWriter DEF LessReader, ARW!ReleaseRead
<1>5. ASSUME NEW t \in Tasks, LessWriter(t) PROVE ARW!ReleaseWrite(t)
  <2>1. Writers = {t} /\ Writers' = {}
    BY <1>0, <1>5 DEF LessWriter, Exclusive
  <2> QED
    BY <1>0, <1>5, <2>1, WriterIs, WriterIsNext DEF LessWriter, ARW!ReleaseWrite
<1>6. ASSUME NEW t \in Tasks, ReaderAgain(t) PROVE ARW!Downgrade(t)
  <2>1. Writers = {t} /\ Writers' = {} /\ Readers = {}
    BY <1>0, <1>6 DEF ReaderAgain, Exclusive
  <2> QED
    BY <1>0, <1>6, <2>1, WriterIs, WriterIsNext DEF ReaderAgain, ARW!Downgrade
<1>7. CASE UNCHANGED vars
  <2>1. SameHolders
    BY <1>7 DEF vars, SameHolders, Readers, Writers, Reads, Writes, Granted
  <2> QED
    BY <1>1, <2>1
<1>8. ASSUME NEW t \in Tasks, Step(t) PROVE [ARW!Next]_<<Readers, Writer>>
  <2>1. WakeOneWriter(t) => flags[Head(wait_list)] = WRITE
    BY <1>0 DEF WakeOneWriter, Accounts, Phase, PhaseOf
  <2>2. WakeOneWriter(t) \/ DoWakeWriter(t) \/ DoWakeReader(t) \/ WakeReaderNext(t) => Head(wait_list) \in Tasks
    BY <1>0, WakerHead, HeadFacts DEF Base, WakeOneWriter, DoWakeWriter, DoWakeReader, WakeReaderNext
  <2>3. \/ SameHolders
        \/ \E x \in Tasks : NewReader(x) \/ NewWriter(x) \/ LessReader(x) \/ LessWriter(x) \/ ReaderAgain(x)
    BY <1>0, <1>8, <2>1, <2>2, Effects DEF Step
  <2> QED
    BY <1>1, <1>2, <1>3, <1>4, <1>5, <1>6, <2>3 DEF ARW!Next
<1> QED
  BY <1>7, <1>8, StepCases

(* Callers of the semaphore, hand-over, downgrade and trylocks included,   *)
(* see a reader/writer lock, for any finite set of tasks.                  *)
THEOREM Refinement == Spec => ImplementsRWLock
<1>1. Init => ARW!Init
  <2> SUFFICES ASSUME Init PROVE ARW!Init
    OBVIOUS
  <2>1. Exclusive /\ Readers = {} /\ Writers = {}
    BY InitInv DEF IInv, Init, Readers, Writers, Reads, Writes, Granted
  <2> QED
    BY <2>1, WriterIs DEF ARW!Init
<1>2. IInv /\ IInv' /\ [Next]_vars => [ARW!Next]_<<Readers, Writer>>
  BY RefineStep
<1> QED
  BY <1>1, <1>2, Invariance, PTL DEF Spec, ImplementsRWLock, ARW!Spec
=============================================================================
