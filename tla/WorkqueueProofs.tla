--------------------------- MODULE WorkqueueProofs ---------------------------
(***************************************************************************)
(* Theorems about kernel/workqueue.c for any sets of workqueues, works and *)
(* clients.                                                                *)
(*                                                                         *)
(* Whoever owns a work has set its PENDING bit, so the proof follows each  *)
(* work from owner to owner (Ownership), each barrier from its task's      *)
(* stack to the worker and back (Barriers), and each workqueue to its end  *)
(* (Closing).  What flush and cancel promise rests on current_work: it is  *)
(* the innermost callback's until that callback flushes its own queue      *)
(* (Framed).  All theorems hold however deep such callbacks nest.          *)
(***************************************************************************)
EXTENDS Workqueue, KernelLemmas

Queuing    == {"insert", "arm", "add"}
Cancelling == {"c_timer", "c_grab", "c_steal", "c_wait", "c_look", "c_barr", "c_next"}
Destroying == {"d_wait", "d_stop", "d_join"}
Waiting    == {"f_wait", "d_wait", "c_barr"}
InCallback == {"func"} \cup Queuing
Asleep     == {"prep", "check", "sched", "finish", "dead"}
Looping    == {"run", "clear", "end"} \cup InCallback

ClientPcs == {"idle", "x_clear", "f_wait", "f_ret"} \cup Queuing \cup Cancelling \cup Destroying
WorkerPcs == Asleep \cup Looping

(* What the program counters say about the locals of clients and workers.  *)
ClientShape ==
  \A c \in Clients :
    /\ pc[c] \in ClientPcs
    /\ pc[c] \in Queuing \cup Cancelling \cup {"x_clear"} <=> arg[c] # None
    /\ pc[c] \in Queuing \cup Destroying \cup {"f_wait", "f_ret", "c_steal",
               "c_look"} <=> tq[c] # None
    /\ pc[c] = "c_steal" => ret[c] = -1

WorkerShape ==
  \A q \in Wqs :
    /\ pc[q] \in WorkerPcs
    /\ pc[q] \in Queuing <=> arg[q] # None
    /\ pc[q] \in Queuing <=> tq[q] # None

(* current_work and the callbacks of a worker.  Only the innermost         *)
(* callback can be a barrier, as a barrier does not flush.                 *)
FrameShape ==
  \A q \in Wqs :
    /\ pc[q] \in Asleep => frames[q] = <<>> /\ current[q] = None
    /\ pc[q] = "run" /\ frames[q] = <<>> => current[q] = None
    /\ pc[q] = "clear" => current[q] # None
    /\ pc[q] \in InCallback => frames[q] # <<>>
    /\ \A i \in 1..Len(frames[q]) :
         frames[q][i] \in Clients => i = Len(frames[q]) /\ pc[q] = "func"

Shape == ClientShape /\ WorkerShape /\ FrameShape

-----------------------------------------------------------------------------
(* Where an entry of a worklist, a work or a barrier, can be.              *)
On(q, e)     == e \in ToSet(worklist[q])
Taken(q, e)  == pc[q] = "clear" /\ current[q] = e
Queuer(x, w) == pc[x] \in Queuing /\ arg[x] = w

Kinds  == {"queueing", "timer", "listed", "taken", "grabbed"}
Things == Threads \cup Works

(* The owners of a work, as one relation.                                  *)
At(k, x, w) ==
  \/ k = "queueing" /\ x \in Threads /\ Queuer(x, w)
  \/ k = "timer" /\ x = w /\ timer[w] # "off"
  \/ k = "listed" /\ x \in Wqs /\ On(x, w)
  \/ k = "taken" /\ x \in Wqs /\ Taken(x, w)
  \/ k = "grabbed" /\ x \in Clients /\ Grabbed(x, w)

(* A work has at most one owner, and has one exactly while it is pending.  *)
OneAt ==
  \A w \in Works, k, l \in Kinds, x, y \in Things :
    At(k, x, w) /\ At(l, y, w) => k = l /\ x = y

PendingMeans ==
  \A w \in Works : pending[w] <=> \E k \in Kinds, x \in Things : At(k, x, w)

Ownership == OneAt /\ PendingMeans

(* No worklist has an entry twice.                                         *)
Listed == \A q \in Wqs : Unique(worklist[q])

(* work->data is right from the time the timer is about to be added.       *)
DataSet ==
  /\ DataIsRight
  /\ \A x \in Threads : pc[x] = "add" => data[arg[x]] = tq[x]

-----------------------------------------------------------------------------
(* A barrier is in one place, on the queue its task flushes, and only      *)
(* while that task waits.                                                  *)
Inside(q, c) == c \in ToSet(frames[q])
BarrierAt(q, c) == On(q, c) \/ Taken(q, c) \/ Inside(q, c)

OneBarrier ==
  \A c \in Clients, p, q \in Wqs :
    /\ BarrierAt(p, c) /\ BarrierAt(q, c) => p = q
    /\ On(q, c) => ~Taken(q, c) /\ ~Inside(q, c)
    /\ Taken(q, c) => ~Inside(q, c)

BarrierQueue ==
  \A c \in Clients, q \in Wqs :
    BarrierAt(q, c) /\ pc[c] \in {"f_wait", "d_wait"} => tq[c] = q

Barriers == BarrierOnStack /\ OneBarrier /\ BarrierQueue

-----------------------------------------------------------------------------
(* After destroy_workqueue was called nothing is queued any more, and one  *)
(* task is at it.                                                          *)
Contract ==
  \A q \in Wqs :
    /\ closing[q] => /\ \A x \in Threads : pc[x] \in Queuing => tq[x] # q
                     /\ \A w \in Works : data[w] = q => timer[w] = "off"
    /\ stop[q] => closing[q]
    /\ pc[q] = "dead" => stop[q]

Destroyers ==
  \A c \in Clients : pc[c] \in Destroying =>
    /\ closing[tq[c]]
    /\ \A d \in Clients : pc[d] \in Destroying /\ tq[d] = tq[c] => c = d

(* Once the destroyer's barrier has run, the worker does not go to sleep   *)
(* before the queue is empty, and a queue it does sleep on stays empty.    *)
Flushed(q) ==
  closing[q] /\ \A c \in Clients : pc[c] = "d_wait" /\ tq[c] = q => done[c]

Drained ==
  \A q \in Wqs :
    /\ stop[q] => Flushed(q)
    /\ Flushed(q) /\ Busy(q) => pc[q] \in Looping

Closing == Contract /\ Destroyers /\ Drained

(* The inductive invariant.                                                *)
IInv == TypeOK /\ Shape /\ Listed /\ Ownership /\ DataSet /\ Barriers /\ Closing

-----------------------------------------------------------------------------
(* The innermost callback is the current work, until it flushes its own    *)
(* queue: then run_workqueue runs inside it.                               *)
Framed ==
  \A q \in Wqs : frames[q] # <<>> /\ ~nested[q] =>
    current[q] = Last(frames[q]) /\ pc[q] \in InCallback

(* The two parts of RunningFlat: the innermost callback, and Taken.        *)
Top(q, w) == frames[q] # <<>> /\ Last(frames[q]) = w /\ ~nested[q]

(* A cancel that has the work waits on the queue the work was last on, and *)
(* once the barrier has run the work is not running there, unless its      *)
(* callback has flushed that queue.                                        *)
CancelOf(c) ==
  /\ pc[c] = "c_look" => tq[c] = data[arg[c]]
  /\ pc[c] = "c_barr" => \A q \in Wqs : BarrierAt(q, c) => data[arg[c]] = q
  /\ (pc[c] = "c_next" \/ (pc[c] = "c_barr" /\ done[c])) /\ data[arg[c]] # None
       => ~RunningFlat(data[arg[c]], arg[c])

Cancels == \A c \in Clients : ret[c] >= 0 => CancelOf(c)

(* What a flush has yet to wait for is in front of its barrier or running; *)
(* it misses only callbacks that have flushed the queue themselves.        *)
Before(s, a, b) == \E i, j \in 1..Len(s) : i < j /\ s[i] = a /\ s[j] = b

Awaited(c, i) ==
  /\ i[2] = "queued" => Before(worklist[tq[c]], i[1], c)
  /\ i[2] = "run" => Running(tq[c], i[1])

Flushers == {"f_wait", "d_wait", "f_ret", "d_stop", "d_join"}

SnapOf(c) ==
  \A i \in snap[c] :
    \/ pc[c] \in {"f_wait", "d_wait"} /\ On(tq[c], c) /\ Awaited(c, i)
    \/ pc[c] \in Flushers /\ i[2] = "run" /\ SelfFlushing(tq[c], i[1])

Snaps == \A c \in Clients : SnapOf(c)

Promises == Framed /\ Cancels /\ Snaps

(* All but the last element of a sequence.                                 *)
LEMMA FrontType ==
  ASSUME NEW S, NEW s \in Seq(S), s # <<>>
  PROVE  /\ Front(s) \in Seq(S) /\ Last(s) \in S
         /\ Len(Front(s)) = Len(s) - 1
         /\ \A i \in 1..(Len(s)-1) : Front(s)[i] = s[i]
         /\ Last(s) = s[Len(s)]
<1>1. Len(s) \in Nat /\ Len(s) # 0
  OBVIOUS
<1>2. Last(s) \in S /\ Last(s) = s[Len(s)]
  BY <1>1 DEF Last
<1> DEFINE n == Len(s) - 1
<1>3. n \in Nat /\ \A i \in 1..n : s[i] \in S
  BY <1>1
<1> HIDE DEF n
<1>4. /\ SubSeq(s, 1, n) \in Seq(S) /\ Len(SubSeq(s, 1, n)) = IF 1 <= n THEN n - 1 + 1 ELSE 0
      /\ \A i \in 1..(n - 1 + 1) : SubSeq(s, 1, n)[i] = s[1 + i - 1]
  BY <1>3, SubSeqProperties
<1>5. n - 1 + 1 = n /\ \A i \in 1..n : 1 + i - 1 = i
  BY <1>3
<1>6. Len(SubSeq(s, 1, n)) = n /\ \A i \in 1..n : SubSeq(s, 1, n)[i] = s[i]
  BY <1>3, <1>4, <1>5
<1> QED
  BY <1>2, <1>4, <1>6 DEF Front, n

(* Sequences of entries: what is inserted, taken and removed keeps the     *)
(* types.                                                                  *)
LEMMA ListTypes ==
  ASSUME TypeOK
  PROVE  /\ \A q \in Wqs, e \in Entries :
              Append(worklist[q], e) \in Seq(Entries) /\ <<e>> \o worklist[q] \in Seq(Entries)
         /\ \A q \in Wqs : worklist[q] # <<>> =>
              Head(worklist[q]) \in Entries /\ Tail(worklist[q]) \in Seq(Entries)
         /\ \A q \in Wqs : \A i \in 1..Len(worklist[q]) : RemoveAt(worklist[q], i) \in Seq(Entries)
         /\ \A q \in Wqs, e \in Entries : Append(frames[q], e) \in Seq(Entries)
         /\ \A q \in Wqs : frames[q] # <<>> =>
              Last(frames[q]) \in Entries /\ Front(frames[q]) \in Seq(Entries)
<1>1. ASSUME NEW q \in Wqs PROVE worklist[q] \in Seq(Entries) /\ frames[q] \in Seq(Entries)
  BY DEF TypeOK
<1>2. ASSUME NEW q \in Wqs, NEW e \in Entries
      PROVE  Append(worklist[q], e) \in Seq(Entries) /\ <<e>> \o worklist[q] \in Seq(Entries)
  BY <1>1, AppendElems, PrependElems
<1>3. ASSUME NEW q \in Wqs, worklist[q] # <<>>
      PROVE  Head(worklist[q]) \in Entries /\ Tail(worklist[q]) \in Seq(Entries)
  BY <1>1, <1>3
<1>4. ASSUME NEW q \in Wqs, NEW i \in 1..Len(worklist[q])
      PROVE  RemoveAt(worklist[q], i) \in Seq(Entries)
  BY <1>1, RemoveAtType
<1>5. ASSUME NEW q \in Wqs, NEW e \in Entries PROVE Append(frames[q], e) \in Seq(Entries)
  BY <1>1
<1>6. ASSUME NEW q \in Wqs, frames[q] # <<>>
      PROVE  Last(frames[q]) \in Entries /\ Front(frames[q]) \in Seq(Entries)
  BY <1>1, <1>6, FrontType
<1> QED
  BY <1>2, <1>3, <1>4, <1>5, <1>6

(* The locals of a call under way.                                         *)
LEMMA Locals ==
  ASSUME TypeOK, Shape
  PROVE  /\ \A x \in Threads : pc[x] \in Queuing => arg[x] \in Works /\ tq[x] \in Wqs
         /\ \A c \in Clients : pc[c] \in Cancelling \cup {"x_clear"} => arg[c] \in Works
         /\ \A c \in Clients : pc[c] \in Destroying \cup {"f_wait", "f_ret", "c_steal",
                    "c_look"} => tq[c] \in Wqs
         /\ \A q \in Wqs : pc[q] = "clear" => current[q] \in Entries
         /\ \A q \in Wqs : pc[q] \in InCallback => frames[q] # <<>> /\ Last(frames[q]) \in Entries
<1>1. \A x \in Threads : arg[x] \in Works \cup {None} /\ tq[x] \in Wqs \cup {None}
  BY DEF TypeOK
<1>2. ASSUME NEW x \in Threads, pc[x] \in Queuing PROVE arg[x] \in Works /\ tq[x] \in Wqs
  BY <1>1, <1>2 DEF Shape, ClientShape, WorkerShape, Threads
<1>3. ASSUME NEW c \in Clients, pc[c] \in Cancelling \cup {"x_clear"} PROVE arg[c] \in Works
  BY <1>1, <1>3 DEF Shape, ClientShape, Threads
<1>4. ASSUME NEW c \in Clients, pc[c] \in Destroying \cup {"f_wait", "f_ret", "c_steal", "c_look"}
      PROVE  tq[c] \in Wqs
  BY <1>1, <1>4 DEF Shape, ClientShape, Threads
<1>5. ASSUME NEW q \in Wqs, pc[q] = "clear" PROVE current[q] \in Entries
  BY <1>5 DEF Shape, FrameShape, TypeOK
<1>6. ASSUME NEW q \in Wqs, pc[q] \in InCallback
      PROVE  frames[q] # <<>> /\ Last(frames[q]) \in Entries
  BY <1>6, ListTypes DEF Shape, FrameShape
<1> QED
  BY <1>2, <1>3, <1>4, <1>5, <1>6

(* Types.                                                                  *)
LEMMA TypeStep ==
  ASSUME TypeOK, Shape, [Next]_vars
  PROVE  TypeOK'
<1>1. CASE UNCHANGED vars
  BY <1>1 DEF vars, TypeOK
<1>2. ASSUME NEW x \in Threads, NEW w \in Works, NEW q \in Wqs, QueueWork(x, w, q) PROVE TypeOK'
  BY <1>2, WorkqueueAssumption
  DEF QueueWork, MayQueue, Goto, queueVars, workerVars, TypeOK, Pcs, Threads, Entries, Base
<1>3. ASSUME NEW x \in Threads, NEW w \in Works, NEW q \in Wqs, QueueDelayedWork(x, w, q)
      PROVE  TypeOK'
  BY <1>3, WorkqueueAssumption
  DEF QueueDelayedWork, MayQueue, Goto, queueVars, workerVars, TypeOK, Pcs, Threads, Entries, Base
<1>4. ASSUME NEW x \in Threads, QueueWorkInsert(x) PROVE TypeOK'
  <2>1. arg[x] \in Works /\ tq[x] \in Wqs
    BY <1>4, Locals DEF QueueWorkInsert, Queuing
  <2>2. worklist' \in [Wqs -> Seq(Entries)]
    BY <1>4, <2>1, ListTypes DEF QueueWorkInsert, InsertWork, TypeOK, Entries
  <2> QED
    BY <1>4, <2>1, <2>2, WorkqueueAssumption
    DEF QueueWorkInsert, WakeWorker, InsertWork, Goto, TypeOK, Pcs, Threads, Entries, Base
<1>5. ASSUME NEW x \in Threads, SetWqData(x) PROVE TypeOK'
  BY <1>5, WorkqueueAssumption
  DEF SetWqData, Goto, queueVars, workerVars, localVars, TypeOK, Pcs, Threads, Entries, Base
<1>6. ASSUME NEW x \in Threads, AddTimer(x) PROVE TypeOK'
  BY <1>6, WorkqueueAssumption
  DEF AddTimer, Goto, queueVars, workerVars, TypeOK, Pcs, Threads, Entries, Base
<1>7. ASSUME NEW c \in Clients, NEW q \in Wqs, FlushWorkqueue(c, q) PROVE TypeOK'
  <2>1. Append(worklist[q], c) \in Seq(Entries)
    BY ListTypes DEF Entries
  <2>2. Outstanding(q) \in SUBSET (Works \X {"queued", "run"})
    BY DEF Outstanding
  <2>5. snap' \in [Clients -> SUBSET (Works \X {"queued", "run"})]
    BY <1>7, <2>1, <2>2 DEF FlushWorkqueue, InsertBarrier, FlushCpuWorkqueue, TypeOK
  <2>6. tq' \in [Threads -> Wqs \cup {None}]
    BY <1>7, <2>1, <2>2 DEF FlushWorkqueue, InsertBarrier, FlushCpuWorkqueue, TypeOK, Threads
  <2>7. worklist' \in [Wqs -> Seq(Entries)]
    BY <1>7, <2>1, <2>2 DEF FlushWorkqueue, InsertBarrier, FlushCpuWorkqueue, TypeOK
  <2>8. done' \in [Clients -> BOOLEAN]
    BY <1>7, <2>1, <2>2 DEF FlushWorkqueue, InsertBarrier, FlushCpuWorkqueue, TypeOK
  <2>9. wstate' \in [Wqs -> {"RUNNING", "INTERRUPTIBLE"}]
    BY <1>7, <2>1, <2>2 DEF FlushWorkqueue, WakeWorker, InsertBarrier, FlushCpuWorkqueue, TypeOK
  <2>10. pc' \in [Threads -> Pcs]
    <3>1. \E l \in {"f_wait", "f_ret"} : pc' = [pc EXCEPT ![c] = l]
      BY <1>7 DEF FlushWorkqueue, FlushCpuWorkqueue, Goto
    <3> QED
      BY <3>1 DEF TypeOK, Threads, Pcs
  <2>11. UNCHANGED <<pending, data, timer, current, frames, nested, stop, closing, arg,
             withTimer, ret>>
    BY <1>7 DEF FlushWorkqueue, WakeWorker, InsertBarrier, FlushCpuWorkqueue, Goto, itemVars
  <2> QED
    BY <2>5, <2>6, <2>7, <2>8, <2>9, <2>10, <2>11 DEF TypeOK
<1>8. ASSUME NEW c \in Clients, NEW q \in Wqs, DestroyWorkqueue(c, q) PROVE TypeOK'
  <2>1. Append(worklist[q], c) \in Seq(Entries)
    BY ListTypes DEF Entries
  <2>2. Outstanding(q) \in SUBSET (Works \X {"queued", "run"})
    BY DEF Outstanding
  <2>5. snap' \in [Clients -> SUBSET (Works \X {"queued", "run"})]
    BY <1>8, <2>1, <2>2 DEF DestroyWorkqueue, InsertBarrier, FlushCpuWorkqueue, TypeOK
  <2>6. tq' \in [Threads -> Wqs \cup {None}]
    BY <1>8, <2>1, <2>2 DEF DestroyWorkqueue, InsertBarrier, FlushCpuWorkqueue, TypeOK, Threads
  <2>7. worklist' \in [Wqs -> Seq(Entries)]
    BY <1>8, <2>1, <2>2 DEF DestroyWorkqueue, InsertBarrier, FlushCpuWorkqueue, TypeOK
  <2>8. done' \in [Clients -> BOOLEAN]
    BY <1>8, <2>1, <2>2 DEF DestroyWorkqueue, InsertBarrier, FlushCpuWorkqueue, TypeOK
  <2>9. wstate' \in [Wqs -> {"RUNNING", "INTERRUPTIBLE"}]
    BY <1>8, <2>1, <2>2 DEF DestroyWorkqueue, WakeWorker, InsertBarrier, FlushCpuWorkqueue, TypeOK
  <2>10. pc' \in [Threads -> Pcs]
    <3>1. \E l \in {"d_wait", "d_stop"} : pc' = [pc EXCEPT ![c] = l]
      BY <1>8 DEF DestroyWorkqueue, FlushCpuWorkqueue, Goto
    <3> QED
      BY <3>1 DEF TypeOK, Threads, Pcs
  <2>11. closing' \in [Wqs -> BOOLEAN]
    BY <1>8, <2>1, <2>2 DEF DestroyWorkqueue, InsertBarrier, FlushCpuWorkqueue, TypeOK
  <2>12. UNCHANGED <<pending, data, timer, current, frames, nested, stop, arg, withTimer, ret>>
    BY <1>8 DEF DestroyWorkqueue, WakeWorker, InsertBarrier, FlushCpuWorkqueue, Goto, itemVars
  <2> QED
    BY <2>5, <2>6, <2>7, <2>8, <2>9, <2>10, <2>11, <2>12 DEF TypeOK
<1>9. ASSUME NEW c \in Clients, NEW w \in Works, CancelDelayedWork(c, w) PROVE TypeOK'
  BY <1>9, WorkqueueAssumption
  DEF CancelDelayedWork, Goto, queueVars, workerVars, TypeOK, Pcs, Threads, Entries, Base
<1>10. ASSUME NEW c \in Clients, NEW w \in Works, NEW t \in BOOLEAN, CancelWork(c, w, t)
       PROVE  TypeOK'
  BY <1>10, WorkqueueAssumption
  DEF CancelWork, Goto, itemVars, queueVars, workerVars, TypeOK, Pcs, Threads, Entries, Base
<1>11. ASSUME NEW c \in Clients, FlushDone(c) PROVE TypeOK'
  BY <1>11, WorkqueueAssumption
  DEF FlushDone, Goto, itemVars, queueVars, workerVars, localVars, TypeOK, Pcs, Threads, Entries,
      Base
<1>12. ASSUME NEW c \in Clients, FlushReturn(c) PROVE TypeOK'
  BY <1>12, WorkqueueAssumption
  DEF FlushReturn, Goto, itemVars, queueVars, workerVars, TypeOK, Pcs, Threads, Entries, Base
<1>13. ASSUME NEW c \in Clients, KthreadStop(c) PROVE TypeOK'
  BY <1>13, WorkqueueAssumption
  DEF KthreadStop, WakeWorker, Goto, itemVars, queueVars, localVars, TypeOK, Pcs, Threads, Entries,
      Base
<1>14. ASSUME NEW c \in Clients, DestroyReturn(c) PROVE TypeOK'
  BY <1>14, WorkqueueAssumption
  DEF DestroyReturn, Goto, itemVars, queueVars, workerVars, TypeOK, Pcs, Threads, Entries, Base
<1>15. ASSUME NEW c \in Clients, DelTimer(c) PROVE TypeOK'
  <2>1. arg[c] \in Works
    BY <1>15, Locals DEF DelTimer, Cancelling
  <2>5. timer' \in [Works -> {"off", "armed", "firing"}]
    <3>1. UNCHANGED timer \/ \E b \in {"off"} : timer' = [timer EXCEPT ![arg[c]] = b]
      BY <1>15 DEF DelTimer
    <3> QED
      BY <3>1 DEF TypeOK, Threads
  <2>6. ret' \in [Clients -> {-1, 0, 1}]
    BY <1>15, <2>1 DEF DelTimer, TypeOK
  <2>7. pc' \in [Threads -> Pcs]
    <3>1. \E l \in {"c_wait", "c_grab"} : pc' = [pc EXCEPT ![c] = l]
      BY <1>15 DEF DelTimer, Goto
    <3> QED
      BY <3>1 DEF TypeOK, Threads, Pcs
  <2>8. UNCHANGED <<pending, data, worklist, current, frames, nested, wstate, stop, closing, arg,
             tq, withTimer, done, snap>>
    BY <1>15 DEF DelTimer, Goto, queueVars, workerVars
  <2> QED
    BY <2>5, <2>6, <2>7, <2>8 DEF TypeOK
<1>16. ASSUME NEW c \in Clients, TryToGrabPending(c) PROVE TypeOK'
  <2>1. arg[c] \in Works
    BY <1>16, Locals DEF TryToGrabPending, Cancelling
  <2>5. pending' \in [Works -> BOOLEAN]
    BY <1>16, <2>1 DEF TryToGrabPending, TypeOK
  <2>6. ret' \in [Clients -> {-1, 0, 1}]
    BY <1>16, <2>1 DEF TryToGrabPending, TypeOK
  <2>7. tq' \in [Threads -> Wqs \cup {None}]
    <3>1. UNCHANGED tq \/ \E b \in Wqs \cup {None} : tq' = [tq EXCEPT ![c] = b]
      BY <1>16, <2>1 DEF TryToGrabPending, TypeOK
    <3> QED
      BY <3>1 DEF TypeOK, Threads
  <2>8. pc' \in [Threads -> Pcs]
    <3>1. \E l \in {"c_wait", "c_steal"} : pc' = [pc EXCEPT ![c] = l]
      BY <1>16 DEF TryToGrabPending, Goto
    <3> QED
      BY <3>1 DEF TypeOK, Threads, Pcs
  <2>9. UNCHANGED <<data, timer, worklist, current, frames, nested, wstate, stop, closing, arg,
             withTimer, done, snap>>
    BY <1>16 DEF TryToGrabPending, Goto, queueVars, workerVars
  <2> QED
    BY <2>5, <2>6, <2>7, <2>8, <2>9 DEF TypeOK
<1>17. ASSUME NEW c \in Clients, StealWork(c) PROVE TypeOK'
  <2>1. arg[c] \in Works /\ tq[c] \in Wqs
    BY <1>17, Locals DEF StealWork, Cancelling
  <2>5. worklist' \in [Wqs -> Seq(Entries)]
    <3>1. CASE UNCHANGED worklist
      BY <3>1 DEF TypeOK
    <3>2. CASE worklist' # worklist
      <4>1. PICK i \in 1..Len(worklist[tq[c]]) : worklist' = [worklist EXCEPT ![tq[c]] = RemoveAt(@, i)]
        BY <1>17, <3>2 DEF StealWork
      <4>2. RemoveAt(worklist[tq[c]], i) \in Seq(Entries)
        BY <2>1, ListTypes
      <4> QED
        BY <2>1, <4>1, <4>2 DEF TypeOK
    <3> QED
      BY <3>1, <3>2
  <2>6. ret' \in [Clients -> {-1, 0, 1}]
    BY <1>17, <2>1 DEF StealWork, TypeOK
  <2>7. snap' \in [Clients -> SUBSET (Works \X {"queued", "run"})]
    BY <1>17, <2>1 DEF StealWork, TypeOK
  <2>8. tq' \in [Threads -> Wqs \cup {None}]
    BY <1>17, <2>1 DEF StealWork, TypeOK, Threads
  <2>9. pc' \in [Threads -> Pcs]
    BY <1>17, <2>1 DEF StealWork, Goto, TypeOK, Threads, Pcs
  <2>10. UNCHANGED <<pending, data, timer, current, frames, nested, wstate, stop, closing, arg,
             withTimer, done>>
    BY <1>17 DEF StealWork, Goto, itemVars, workerVars
  <2> QED
    BY <2>5, <2>6, <2>7, <2>8, <2>9, <2>10 DEF TypeOK
<1>18. ASSUME NEW c \in Clients, WaitOnWork(c) PROVE TypeOK'
  <2>1. arg[c] \in Works
    BY <1>18, Locals DEF WaitOnWork, Cancelling
  <2> QED
    BY <1>18, <2>1, WorkqueueAssumption
    DEF WaitOnWork, Goto, itemVars, queueVars, workerVars, TypeOK, Pcs, Threads, Entries, Base
<1>19. ASSUME NEW c \in Clients, WaitOnCpuWork(c) PROVE TypeOK'
  <2>1. tq[c] \in Wqs
    BY <1>19, Locals DEF WaitOnCpuWork
  <2>2. <<c>> \o worklist[tq[c]] \in Seq(Entries)
    BY <2>1, ListTypes DEF Entries
  <2>5. worklist' \in [Wqs -> Seq(Entries)]
    BY <1>19, <2>1, <2>2 DEF WaitOnCpuWork, InsertBarrier, TypeOK
  <2>6. done' \in [Clients -> BOOLEAN]
    BY <1>19, <2>1, <2>2 DEF WaitOnCpuWork, InsertBarrier, TypeOK
  <2>7. wstate' \in [Wqs -> {"RUNNING", "INTERRUPTIBLE"}]
    BY <1>19, <2>1, <2>2 DEF WaitOnCpuWork, WakeWorker, InsertBarrier, TypeOK
  <2>8. tq' \in [Threads -> Wqs \cup {None}]
    BY <1>19, <2>1, <2>2 DEF WaitOnCpuWork, InsertBarrier, TypeOK, Threads
  <2>9. pc' \in [Threads -> Pcs]
    <3>1. \E l \in {"c_barr", "c_next"} : pc' = [pc EXCEPT ![c] = l]
      BY <1>19 DEF WaitOnCpuWork, Goto
    <3> QED
      BY <3>1 DEF TypeOK, Threads, Pcs
  <2>10. UNCHANGED <<pending, data, timer, current, frames, nested, stop, closing, arg,
             withTimer, ret, snap>>
    BY <1>19 DEF WaitOnCpuWork, WakeWorker, InsertBarrier, Goto, itemVars
  <2> QED
    BY <2>5, <2>6, <2>7, <2>8, <2>9, <2>10 DEF TypeOK
<1>20. ASSUME NEW c \in Clients, WaitOnWorkDone(c) PROVE TypeOK'
  BY <1>20, WorkqueueAssumption
  DEF WaitOnWorkDone, Goto, itemVars, queueVars, workerVars, localVars, TypeOK, Pcs, Threads,
      Entries, Base
<1>21. ASSUME NEW c \in Clients, CancelNext(c) PROVE TypeOK'
  <2>1. arg[c] \in Works
    BY <1>21, Locals DEF CancelNext, Cancelling
  <2>5. pending' \in [Works -> BOOLEAN]
    BY <1>21, <2>1 DEF CancelNext, TypeOK
  <2>6. withTimer' \in [Clients -> BOOLEAN]
    BY <1>21, <2>1 DEF CancelNext, TypeOK
  <2>7. ret' \in [Clients -> {-1, 0, 1}]
    BY <1>21, <2>1 DEF CancelNext, TypeOK
  <2>8. arg' \in [Threads -> Works \cup {None}]
    <3>1. UNCHANGED arg \/ \E b \in Works \cup {None} : arg' = [arg EXCEPT ![c] = b]
      BY <1>21 DEF CancelNext
    <3> QED
      BY <3>1 DEF TypeOK, Threads
  <2>9. pc' \in [Threads -> Pcs]
    <3>1. \E l \in {"c_timer", "idle"} : pc' = [pc EXCEPT ![c] = l]
      BY <1>21 DEF CancelNext, Goto
    <3> QED
      BY <3>1 DEF TypeOK, Threads, Pcs
  <2>10. UNCHANGED <<data, timer, worklist, current, frames, nested, wstate, stop, closing, tq,
             done, snap>>
    BY <1>21 DEF CancelNext, Goto, queueVars, workerVars
  <2> QED
    BY <2>5, <2>6, <2>7, <2>8, <2>9, <2>10 DEF TypeOK
<1>22. ASSUME NEW c \in Clients, WorkClearPending(c) PROVE TypeOK'
  BY <1>22, WorkqueueAssumption
  DEF WorkClearPending, Goto, queueVars, workerVars, TypeOK, Pcs, Threads, Entries, Base
<1>23. ASSUME NEW q \in Wqs, PrepareToWait(q) PROVE TypeOK'
  BY <1>23, WorkqueueAssumption
  DEF PrepareToWait, Goto, itemVars, queueVars, localVars, TypeOK, Pcs, Threads, Entries, Base
<1>24. ASSUME NEW q \in Wqs, CheckWork(q) PROVE TypeOK'
  BY <1>24, WorkqueueAssumption
  DEF CheckWork, Goto, itemVars, queueVars, workerVars, localVars, TypeOK, Pcs, Threads, Entries,
      Base
<1>25. ASSUME NEW q \in Wqs, Schedule(q) PROVE TypeOK'
  BY <1>25, WorkqueueAssumption
  DEF Schedule, Goto, itemVars, queueVars, workerVars, localVars, TypeOK, Pcs, Threads, Entries,
      Base
<1>26. ASSUME NEW q \in Wqs, FinishWait(q) PROVE TypeOK'
  BY <1>26, WorkqueueAssumption
  DEF FinishWait, WakeWorker, Goto, itemVars, queueVars, localVars, TypeOK, Pcs, Threads, Entries,
      Base
<1>27. ASSUME NEW q \in Wqs, RunWorkqueue(q) PROVE TypeOK'
  <2>1. worklist[q] # <<>> => Head(worklist[q]) \in Entries /\ Tail(worklist[q]) \in Seq(Entries)
    BY ListTypes
  <2>5. worklist' \in [Wqs -> Seq(Entries)]
    BY <1>27, <2>1 DEF RunWorkqueue, TypeOK
  <2>6. current' \in [Wqs -> Entries \cup {None}]
    BY <1>27, <2>1 DEF RunWorkqueue, TypeOK
  <2>7. snap' \in [Clients -> SUBSET (Works \X {"queued", "run"})]
    BY <1>27, <2>1 DEF RunWorkqueue, TypeOK
  <2>8. pc' \in [Threads -> Pcs]
    <3>1. \E l \in {"clear", "prep", "func"} : pc' = [pc EXCEPT ![q] = l]
      BY <1>27 DEF RunWorkqueue, Goto
    <3> QED
      BY <3>1 DEF TypeOK, Threads, Pcs
  <2>9. UNCHANGED <<pending, data, timer, frames, nested, wstate, stop, closing, arg, tq,
             withTimer, ret, done>>
    BY <1>27 DEF RunWorkqueue, Goto, itemVars, workerVars, localVars
  <2> QED
    BY <2>5, <2>6, <2>7, <2>8, <2>9 DEF TypeOK
<1>28. ASSUME NEW q \in Wqs, ClearPending(q) PROVE TypeOK'
  <2>1. current[q] \in Entries
    BY <1>28, Locals DEF ClearPending
  <2>2. frames' \in [Wqs -> Seq(Entries)]
    BY <1>28, <2>1, ListTypes DEF ClearPending, TypeOK
  <2> QED
    BY <1>28, <2>1, <2>2, WorkqueueAssumption
    DEF ClearPending, Goto, workerVars, localVars, TypeOK, Pcs, Threads, Entries, Base
<1>29. ASSUME NEW q \in Wqs, BarrierFunc(q) PROVE TypeOK'
  <2>1. frames' \in [Wqs -> Seq(Entries)]
    BY <1>29, Locals, ListTypes DEF BarrierFunc, Return, TypeOK, InCallback
  <2> QED
    BY <1>29, <2>1, WorkqueueAssumption
    DEF BarrierFunc, Return, Goto, itemVars, workerVars, localVars, TypeOK, Pcs, Threads, Entries,
        Base
<1>30. ASSUME NEW q \in Wqs, CallbackReturn(q) PROVE TypeOK'
  <2>1. frames' \in [Wqs -> Seq(Entries)]
    BY <1>30, Locals, ListTypes DEF CallbackReturn, Return, TypeOK, InCallback
  <2>2. snap' \in [Clients -> SUBSET (Works \X {"queued", "run"})]
    BY <1>30 DEF CallbackReturn, Return, TypeOK
  <2> QED
    BY <1>30, <2>1, <2>2, WorkqueueAssumption
    DEF CallbackReturn, Return, Goto, itemVars, workerVars, localVars, TypeOK, Pcs, Threads,
        Entries, Base
<1>31. ASSUME NEW q \in Wqs, SelfFlush(q) PROVE TypeOK'
  BY <1>31, WorkqueueAssumption
  DEF SelfFlush, Goto, itemVars, workerVars, localVars, TypeOK, Pcs, Threads, Entries, Base
<1>32. ASSUME NEW w \in Works, TimerExpire(w) PROVE TypeOK'
  BY <1>32, WorkqueueAssumption
  DEF TimerExpire, queueVars, workerVars, localVars, TypeOK, Pcs, Threads, Entries, Base
<1>33. ASSUME NEW w \in Works, DelayedWorkTimerFn(w) PROVE TypeOK'
  <2>1. worklist' \in [Wqs -> Seq(Entries)]
    BY <1>33, ListTypes DEF DelayedWorkTimerFn, InsertWork, TypeOK, Entries
  <2> QED
    BY <1>33, <2>1, WorkqueueAssumption
    DEF DelayedWorkTimerFn, WakeWorker, InsertWork, localVars, TypeOK, Pcs, Threads, Entries, Base
<1> QED
  BY <1>1, <1>2, <1>3, <1>4, <1>5, <1>6, <1>7, <1>8, <1>9, <1>10,
     <1>11, <1>12, <1>13, <1>14, <1>15, <1>16, <1>17, <1>18, <1>19, <1>20,
     <1>21, <1>22, <1>23, <1>24, <1>25, <1>26, <1>27, <1>28, <1>29, <1>30,
     <1>31, <1>32, <1>33
  DEF Next, Queueing, Insertion, ClientCall, ClientStep, WorkerStep, TimerStep

(* What a client's place says about its locals.                            *)
LEMMA ClientShapeStep ==
  ASSUME TypeOK, Shape, [Next]_vars
  PROVE  ClientShape'
<1>1. CASE UNCHANGED vars
  BY <1>1 DEF vars, Shape, ClientShape
<1>2. ASSUME NEW x \in Threads, NEW w \in Works, NEW q \in Wqs, QueueWork(x, w, q)
      PROVE  ClientShape'
  BY <1>2, WorkqueueAssumption
  DEF QueueWork, MayQueue, Goto, queueVars, workerVars, Shape, TypeOK, Threads, Base, ClientShape,
      ClientPcs, Queuing, Cancelling, Destroying
<1>3. ASSUME NEW x \in Threads, NEW w \in Works, NEW q \in Wqs, QueueDelayedWork(x, w, q)
      PROVE  ClientShape'
  BY <1>3, WorkqueueAssumption
  DEF QueueDelayedWork, MayQueue, Goto, queueVars, workerVars, Shape, TypeOK, Threads, Base,
      ClientShape, ClientPcs, Queuing, Cancelling, Destroying
<1>4. ASSUME NEW x \in Threads, QueueWorkInsert(x) PROVE ClientShape'
  BY <1>4, WorkqueueAssumption
  DEF QueueWorkInsert, WakeWorker, InsertWork, Goto, Shape, TypeOK, Threads, Base, ClientShape,
      ClientPcs, Queuing, Cancelling, Destroying
<1>5. ASSUME NEW x \in Threads, SetWqData(x) PROVE ClientShape'
  BY <1>5, WorkqueueAssumption
  DEF SetWqData, Goto, queueVars, workerVars, localVars, Shape, TypeOK, Threads, Base, ClientShape,
      ClientPcs, Queuing, Cancelling, Destroying
<1>6. ASSUME NEW x \in Threads, AddTimer(x) PROVE ClientShape'
  BY <1>6, WorkqueueAssumption
  DEF AddTimer, Goto, queueVars, workerVars, Shape, TypeOK, Threads, Base, ClientShape, ClientPcs,
      Queuing, Cancelling, Destroying
<1>7. ASSUME NEW c \in Clients, NEW q \in Wqs, FlushWorkqueue(c, q) PROVE ClientShape'
  BY <1>7, WorkqueueAssumption
  DEF FlushWorkqueue, WakeWorker, InsertBarrier, FlushCpuWorkqueue, Goto, itemVars, Shape, TypeOK,
      Threads, Base, ClientShape, ClientPcs, Queuing, Cancelling, Destroying
<1>8. ASSUME NEW c \in Clients, NEW q \in Wqs, DestroyWorkqueue(c, q) PROVE ClientShape'
  BY <1>8, WorkqueueAssumption
  DEF DestroyWorkqueue, WakeWorker, InsertBarrier, FlushCpuWorkqueue, Goto, itemVars, Shape,
      TypeOK, Threads, Base, ClientShape, ClientPcs, Queuing, Cancelling, Destroying
<1>9. ASSUME NEW c \in Clients, NEW w \in Works, CancelDelayedWork(c, w) PROVE ClientShape'
  BY <1>9, WorkqueueAssumption
  DEF CancelDelayedWork, Goto, queueVars, workerVars, Shape, TypeOK, Threads, Base, ClientShape,
      ClientPcs, Queuing, Cancelling, Destroying
<1>10. ASSUME NEW c \in Clients, NEW w \in Works, NEW t \in BOOLEAN, CancelWork(c, w, t)
       PROVE  ClientShape'
  BY <1>10, WorkqueueAssumption
  DEF CancelWork, Goto, itemVars, queueVars, workerVars, Shape, TypeOK, Threads, Base, ClientShape,
      ClientPcs, Queuing, Cancelling, Destroying
<1>11. ASSUME NEW c \in Clients, FlushDone(c) PROVE ClientShape'
  BY <1>11, WorkqueueAssumption
  DEF FlushDone, Goto, itemVars, queueVars, workerVars, localVars, Shape, TypeOK, Threads, Base,
      ClientShape, ClientPcs, Queuing, Cancelling, Destroying
<1>12. ASSUME NEW c \in Clients, FlushReturn(c) PROVE ClientShape'
  BY <1>12, WorkqueueAssumption
  DEF FlushReturn, Goto, itemVars, queueVars, workerVars, Shape, TypeOK, Threads, Base,
      ClientShape, ClientPcs, Queuing, Cancelling, Destroying
<1>13. ASSUME NEW c \in Clients, KthreadStop(c) PROVE ClientShape'
  BY <1>13, WorkqueueAssumption
  DEF KthreadStop, WakeWorker, Goto, itemVars, queueVars, localVars, Shape, TypeOK, Threads, Base,
      ClientShape, ClientPcs, Queuing, Cancelling, Destroying
<1>14. ASSUME NEW c \in Clients, DestroyReturn(c) PROVE ClientShape'
  BY <1>14, WorkqueueAssumption
  DEF DestroyReturn, Goto, itemVars, queueVars, workerVars, Shape, TypeOK, Threads, Base,
      ClientShape, ClientPcs, Queuing, Cancelling, Destroying
<1>15. ASSUME NEW c \in Clients, DelTimer(c) PROVE ClientShape'
  BY <1>15, WorkqueueAssumption
  DEF DelTimer, Goto, queueVars, workerVars, Shape, TypeOK, Threads, Base, ClientShape, ClientPcs,
      Queuing, Cancelling, Destroying
<1>16. ASSUME NEW c \in Clients, TryToGrabPending(c) PROVE ClientShape'
  <2>1. arg[c] \in Works /\ data[arg[c]] \in Wqs \cup {None}
    BY <1>16, Locals DEF TryToGrabPending, Cancelling, TypeOK
  <2>2. CASE pending[arg[c]]
    <3>1. CASE data[arg[c]] = None
      <4>1. /\ pc' = [pc EXCEPT ![c] = "c_wait"] /\ tq' = [tq EXCEPT ![c] = None]
            /\ ret' = [ret EXCEPT ![c] = -1] /\ arg' = arg /\ pc[c] = "c_grab"
        BY <1>16, <2>2, <3>1 DEF TryToGrabPending, Goto
      <4> QED
        BY <4>1 DEF Shape, TypeOK, Threads, ClientShape, ClientPcs, Queuing, Cancelling, Destroying
    <3>2. CASE data[arg[c]] # None
      <4>1. /\ pc' = [pc EXCEPT ![c] = "c_steal"] /\ tq' = [tq EXCEPT ![c] = data[arg[c]]]
            /\ ret' = [ret EXCEPT ![c] = -1] /\ arg' = arg
        BY <1>16, <2>2, <3>2 DEF TryToGrabPending, Goto
      <4>2. pc[c] = "c_grab"
        BY <1>16 DEF TryToGrabPending
      <4> QED
        BY <3>2, <4>1, <4>2
        DEF Shape, TypeOK, Threads, ClientShape, ClientPcs, Queuing, Cancelling, Destroying
    <3> QED
      BY <3>1, <3>2
  <2>3. CASE ~pending[arg[c]]
    BY <1>16, <2>1, <2>3, WorkqueueAssumption
    DEF TryToGrabPending, Goto, Shape, TypeOK, Threads, ClientShape, ClientPcs, Queuing,
        Cancelling, Destroying
  <2> QED
    BY <2>2, <2>3
<1>17. ASSUME NEW c \in Clients, StealWork(c) PROVE ClientShape'
  BY <1>17, WorkqueueAssumption
  DEF StealWork, Goto, itemVars, workerVars, Shape, TypeOK, Threads, Base, ClientShape, ClientPcs,
      Queuing, Cancelling, Destroying
<1>18. ASSUME NEW c \in Clients, WaitOnWork(c) PROVE ClientShape'
  BY <1>18, WorkqueueAssumption
  DEF WaitOnWork, Goto, itemVars, queueVars, workerVars, Shape, TypeOK, Threads, Base, ClientShape,
      ClientPcs, Queuing, Cancelling, Destroying
<1>19. ASSUME NEW c \in Clients, WaitOnCpuWork(c) PROVE ClientShape'
  BY <1>19, WorkqueueAssumption
  DEF WaitOnCpuWork, WakeWorker, InsertBarrier, Goto, itemVars, Shape, TypeOK, Threads, Base,
      ClientShape, ClientPcs, Queuing, Cancelling, Destroying
<1>20. ASSUME NEW c \in Clients, WaitOnWorkDone(c) PROVE ClientShape'
  BY <1>20, WorkqueueAssumption
  DEF WaitOnWorkDone, Goto, itemVars, queueVars, workerVars, localVars, Shape, TypeOK, Threads,
      Base, ClientShape, ClientPcs, Queuing, Cancelling, Destroying
<1>21. ASSUME NEW c \in Clients, CancelNext(c) PROVE ClientShape'
  BY <1>21, WorkqueueAssumption
  DEF CancelNext, Goto, queueVars, workerVars, Shape, TypeOK, Threads, Base, ClientShape,
      ClientPcs, Queuing, Cancelling, Destroying
<1>22. ASSUME NEW c \in Clients, WorkClearPending(c) PROVE ClientShape'
  BY <1>22, WorkqueueAssumption
  DEF WorkClearPending, Goto, queueVars, workerVars, Shape, TypeOK, Threads, Base, ClientShape,
      ClientPcs, Queuing, Cancelling, Destroying
<1>23. ASSUME NEW q \in Wqs, PrepareToWait(q) PROVE ClientShape'
  BY <1>23, WorkqueueAssumption
  DEF PrepareToWait, Goto, itemVars, queueVars, localVars, Shape, TypeOK, Threads, Base,
      ClientShape, ClientPcs, Queuing, Cancelling, Destroying
<1>24. ASSUME NEW q \in Wqs, CheckWork(q) PROVE ClientShape'
  BY <1>24, WorkqueueAssumption
  DEF CheckWork, Goto, itemVars, queueVars, workerVars, localVars, Shape, TypeOK, Threads, Base,
      ClientShape, ClientPcs, Queuing, Cancelling, Destroying
<1>25. ASSUME NEW q \in Wqs, Schedule(q) PROVE ClientShape'
  BY <1>25, WorkqueueAssumption
  DEF Schedule, Goto, itemVars, queueVars, workerVars, localVars, Shape, TypeOK, Threads, Base,
      ClientShape, ClientPcs, Queuing, Cancelling, Destroying
<1>26. ASSUME NEW q \in Wqs, FinishWait(q) PROVE ClientShape'
  BY <1>26, WorkqueueAssumption
  DEF FinishWait, WakeWorker, Goto, itemVars, queueVars, localVars, Shape, TypeOK, Threads, Base,
      ClientShape, ClientPcs, Queuing, Cancelling, Destroying
<1>27. ASSUME NEW q \in Wqs, RunWorkqueue(q) PROVE ClientShape'
  BY <1>27, WorkqueueAssumption
  DEF RunWorkqueue, Goto, itemVars, workerVars, localVars, Shape, TypeOK, Threads, Base,
      ClientShape, ClientPcs, Queuing, Cancelling, Destroying
<1>28. ASSUME NEW q \in Wqs, ClearPending(q) PROVE ClientShape'
  BY <1>28, WorkqueueAssumption
  DEF ClearPending, Goto, workerVars, localVars, Shape, TypeOK, Threads, Base, ClientShape,
      ClientPcs, Queuing, Cancelling, Destroying
<1>29. ASSUME NEW q \in Wqs, BarrierFunc(q) PROVE ClientShape'
  BY <1>29, WorkqueueAssumption
  DEF BarrierFunc, Return, Goto, itemVars, workerVars, localVars, Shape, TypeOK, Threads, Base,
      ClientShape, ClientPcs, Queuing, Cancelling, Destroying
<1>30. ASSUME NEW q \in Wqs, CallbackReturn(q) PROVE ClientShape'
  BY <1>30, WorkqueueAssumption
  DEF CallbackReturn, Return, Goto, itemVars, workerVars, localVars, Shape, TypeOK, Threads, Base,
      ClientShape, ClientPcs, Queuing, Cancelling, Destroying
<1>31. ASSUME NEW q \in Wqs, SelfFlush(q) PROVE ClientShape'
  BY <1>31, WorkqueueAssumption
  DEF SelfFlush, Goto, itemVars, workerVars, localVars, Shape, TypeOK, Threads, Base, ClientShape,
      ClientPcs, Queuing, Cancelling, Destroying
<1>32. ASSUME NEW w \in Works, TimerExpire(w) PROVE ClientShape'
  BY <1>32, WorkqueueAssumption
  DEF TimerExpire, queueVars, workerVars, localVars, Shape, TypeOK, Threads, Base, ClientShape,
      ClientPcs, Queuing, Cancelling, Destroying
<1>33. ASSUME NEW w \in Works, DelayedWorkTimerFn(w) PROVE ClientShape'
  BY <1>33, WorkqueueAssumption
  DEF DelayedWorkTimerFn, WakeWorker, InsertWork, localVars, Shape, TypeOK, Threads, Base,
      ClientShape, ClientPcs, Queuing, Cancelling, Destroying
<1> QED
  BY <1>1, <1>2, <1>3, <1>4, <1>5, <1>6, <1>7, <1>8, <1>9, <1>10,
     <1>11, <1>12, <1>13, <1>14, <1>15, <1>16, <1>17, <1>18, <1>19, <1>20,
     <1>21, <1>22, <1>23, <1>24, <1>25, <1>26, <1>27, <1>28, <1>29, <1>30,
     <1>31, <1>32, <1>33
  DEF Next, Queueing, Insertion, ClientCall, ClientStep, WorkerStep, TimerStep

(* What a worker's place says about its locals.                            *)
LEMMA WorkerShapeStep ==
  ASSUME TypeOK, Shape, [Next]_vars
  PROVE  WorkerShape'
<1>1. CASE UNCHANGED vars
  BY <1>1 DEF vars, Shape, WorkerShape
<1>2. ASSUME NEW x \in Threads, NEW w \in Works, NEW q \in Wqs, QueueWork(x, w, q)
      PROVE  WorkerShape'
  BY <1>2, WorkqueueAssumption
  DEF QueueWork, MayQueue, Goto, queueVars, workerVars, Shape, TypeOK, Threads, Base, WorkerShape,
      WorkerPcs, Asleep, Looping, InCallback, Queuing
<1>3. ASSUME NEW x \in Threads, NEW w \in Works, NEW q \in Wqs, QueueDelayedWork(x, w, q)
      PROVE  WorkerShape'
  BY <1>3, WorkqueueAssumption
  DEF QueueDelayedWork, MayQueue, Goto, queueVars, workerVars, Shape, TypeOK, Threads, Base,
      WorkerShape, WorkerPcs, Asleep, Looping, InCallback, Queuing
<1>4. ASSUME NEW x \in Threads, QueueWorkInsert(x) PROVE WorkerShape'
  BY <1>4, WorkqueueAssumption
  DEF QueueWorkInsert, WakeWorker, InsertWork, Goto, Shape, TypeOK, Threads, Base, WorkerShape,
      WorkerPcs, Asleep, Looping, InCallback, Queuing
<1>5. ASSUME NEW x \in Threads, SetWqData(x) PROVE WorkerShape'
  BY <1>5, WorkqueueAssumption
  DEF SetWqData, Goto, queueVars, workerVars, localVars, Shape, TypeOK, Threads, Base, WorkerShape,
      WorkerPcs, Asleep, Looping, InCallback, Queuing
<1>6. ASSUME NEW x \in Threads, AddTimer(x) PROVE WorkerShape'
  BY <1>6, WorkqueueAssumption
  DEF AddTimer, Goto, queueVars, workerVars, Shape, TypeOK, Threads, Base, WorkerShape, WorkerPcs,
      Asleep, Looping, InCallback, Queuing
<1>7. ASSUME NEW c \in Clients, NEW q \in Wqs, FlushWorkqueue(c, q) PROVE WorkerShape'
  BY <1>7, WorkqueueAssumption
  DEF FlushWorkqueue, WakeWorker, InsertBarrier, FlushCpuWorkqueue, Goto, itemVars, Shape, TypeOK,
      Threads, Base, WorkerShape, WorkerPcs, Asleep, Looping, InCallback, Queuing
<1>8. ASSUME NEW c \in Clients, NEW q \in Wqs, DestroyWorkqueue(c, q) PROVE WorkerShape'
  BY <1>8, WorkqueueAssumption
  DEF DestroyWorkqueue, WakeWorker, InsertBarrier, FlushCpuWorkqueue, Goto, itemVars, Shape,
      TypeOK, Threads, Base, WorkerShape, WorkerPcs, Asleep, Looping, InCallback, Queuing
<1>9. ASSUME NEW c \in Clients, NEW w \in Works, CancelDelayedWork(c, w) PROVE WorkerShape'
  BY <1>9, WorkqueueAssumption
  DEF CancelDelayedWork, Goto, queueVars, workerVars, Shape, TypeOK, Threads, Base, WorkerShape,
      WorkerPcs, Asleep, Looping, InCallback, Queuing
<1>10. ASSUME NEW c \in Clients, NEW w \in Works, NEW t \in BOOLEAN, CancelWork(c, w, t)
       PROVE  WorkerShape'
  BY <1>10, WorkqueueAssumption
  DEF CancelWork, Goto, itemVars, queueVars, workerVars, Shape, TypeOK, Threads, Base, WorkerShape,
      WorkerPcs, Asleep, Looping, InCallback, Queuing
<1>11. ASSUME NEW c \in Clients, FlushDone(c) PROVE WorkerShape'
  BY <1>11, WorkqueueAssumption
  DEF FlushDone, Goto, itemVars, queueVars, workerVars, localVars, Shape, TypeOK, Threads, Base,
      WorkerShape, WorkerPcs, Asleep, Looping, InCallback, Queuing
<1>12. ASSUME NEW c \in Clients, FlushReturn(c) PROVE WorkerShape'
  BY <1>12, WorkqueueAssumption
  DEF FlushReturn, Goto, itemVars, queueVars, workerVars, Shape, TypeOK, Threads, Base,
      WorkerShape, WorkerPcs, Asleep, Looping, InCallback, Queuing
<1>13. ASSUME NEW c \in Clients, KthreadStop(c) PROVE WorkerShape'
  BY <1>13, WorkqueueAssumption
  DEF KthreadStop, WakeWorker, Goto, itemVars, queueVars, localVars, Shape, TypeOK, Threads, Base,
      WorkerShape, WorkerPcs, Asleep, Looping, InCallback, Queuing
<1>14. ASSUME NEW c \in Clients, DestroyReturn(c) PROVE WorkerShape'
  BY <1>14, WorkqueueAssumption
  DEF DestroyReturn, Goto, itemVars, queueVars, workerVars, Shape, TypeOK, Threads, Base,
      WorkerShape, WorkerPcs, Asleep, Looping, InCallback, Queuing
<1>15. ASSUME NEW c \in Clients, DelTimer(c) PROVE WorkerShape'
  <2>1. UNCHANGED <<arg, tq>> /\ \A p \in Wqs : pc'[p] = pc[p]
    BY <1>15, WorkqueueAssumption DEF DelTimer, Goto, queueVars, workerVars, TypeOK, Threads
  <2> QED
    BY <2>1 DEF Shape, WorkerShape
<1>16. ASSUME NEW c \in Clients, TryToGrabPending(c) PROVE WorkerShape'
  BY <1>16, WorkqueueAssumption
  DEF TryToGrabPending, Goto, queueVars, workerVars, Shape, TypeOK, Threads, Base, WorkerShape,
      WorkerPcs, Asleep, Looping, InCallback, Queuing
<1>17. ASSUME NEW c \in Clients, StealWork(c) PROVE WorkerShape'
  BY <1>17, WorkqueueAssumption
  DEF StealWork, Goto, itemVars, workerVars, Shape, TypeOK, Threads, Base, WorkerShape, WorkerPcs,
      Asleep, Looping, InCallback, Queuing
<1>18. ASSUME NEW c \in Clients, WaitOnWork(c) PROVE WorkerShape'
  BY <1>18, WorkqueueAssumption
  DEF WaitOnWork, Goto, itemVars, queueVars, workerVars, Shape, TypeOK, Threads, Base, WorkerShape,
      WorkerPcs, Asleep, Looping, InCallback, Queuing
<1>19. ASSUME NEW c \in Clients, WaitOnCpuWork(c) PROVE WorkerShape'
  BY <1>19, WorkqueueAssumption
  DEF WaitOnCpuWork, WakeWorker, InsertBarrier, Goto, itemVars, Shape, TypeOK, Threads, Base,
      WorkerShape, WorkerPcs, Asleep, Looping, InCallback, Queuing
<1>20. ASSUME NEW c \in Clients, WaitOnWorkDone(c) PROVE WorkerShape'
  BY <1>20, WorkqueueAssumption
  DEF WaitOnWorkDone, Goto, itemVars, queueVars, workerVars, localVars, Shape, TypeOK, Threads,
      Base, WorkerShape, WorkerPcs, Asleep, Looping, InCallback, Queuing
<1>21. ASSUME NEW c \in Clients, CancelNext(c) PROVE WorkerShape'
  BY <1>21, WorkqueueAssumption
  DEF CancelNext, Goto, queueVars, workerVars, Shape, TypeOK, Threads, Base, WorkerShape,
      WorkerPcs, Asleep, Looping, InCallback, Queuing
<1>22. ASSUME NEW c \in Clients, WorkClearPending(c) PROVE WorkerShape'
  BY <1>22, WorkqueueAssumption
  DEF WorkClearPending, Goto, queueVars, workerVars, Shape, TypeOK, Threads, Base, WorkerShape,
      WorkerPcs, Asleep, Looping, InCallback, Queuing
<1>23. ASSUME NEW q \in Wqs, PrepareToWait(q) PROVE WorkerShape'
  BY <1>23, WorkqueueAssumption
  DEF PrepareToWait, Goto, itemVars, queueVars, localVars, Shape, TypeOK, Threads, Base,
      WorkerShape, WorkerPcs, Asleep, Looping, InCallback, Queuing
<1>24. ASSUME NEW q \in Wqs, CheckWork(q) PROVE WorkerShape'
  BY <1>24, WorkqueueAssumption
  DEF CheckWork, Goto, itemVars, queueVars, workerVars, localVars, Shape, TypeOK, Threads, Base,
      WorkerShape, WorkerPcs, Asleep, Looping, InCallback, Queuing
<1>25. ASSUME NEW q \in Wqs, Schedule(q) PROVE WorkerShape'
  BY <1>25, WorkqueueAssumption
  DEF Schedule, Goto, itemVars, queueVars, workerVars, localVars, Shape, TypeOK, Threads, Base,
      WorkerShape, WorkerPcs, Asleep, Looping, InCallback, Queuing
<1>26. ASSUME NEW q \in Wqs, FinishWait(q) PROVE WorkerShape'
  BY <1>26, WorkqueueAssumption
  DEF FinishWait, WakeWorker, Goto, itemVars, queueVars, localVars, Shape, TypeOK, Threads, Base,
      WorkerShape, WorkerPcs, Asleep, Looping, InCallback, Queuing
<1>27. ASSUME NEW q \in Wqs, RunWorkqueue(q) PROVE WorkerShape'
  <2>1. /\ UNCHANGED <<arg, tq>> /\ pc'[q] \in {"clear", "prep", "func"} /\ pc[q] \in {"run", "end"}
        /\ \A p \in Wqs \ {q} : pc'[p] = pc[p]
    BY <1>27 DEF RunWorkqueue, Goto, itemVars, workerVars, localVars, TypeOK, Threads
  <2> QED
    BY <2>1 DEF Shape, WorkerShape, WorkerPcs, Asleep, Looping, InCallback, Queuing
<1>28. ASSUME NEW q \in Wqs, ClearPending(q) PROVE WorkerShape'
  BY <1>28, WorkqueueAssumption
  DEF ClearPending, Goto, workerVars, localVars, Shape, TypeOK, Threads, Base, WorkerShape,
      WorkerPcs, Asleep, Looping, InCallback, Queuing
<1>29. ASSUME NEW q \in Wqs, BarrierFunc(q) PROVE WorkerShape'
  BY <1>29, WorkqueueAssumption
  DEF BarrierFunc, Return, Goto, itemVars, workerVars, localVars, Shape, TypeOK, Threads, Base,
      WorkerShape, WorkerPcs, Asleep, Looping, InCallback, Queuing
<1>30. ASSUME NEW q \in Wqs, CallbackReturn(q) PROVE WorkerShape'
  BY <1>30, WorkqueueAssumption
  DEF CallbackReturn, Return, Goto, itemVars, workerVars, localVars, Shape, TypeOK, Threads, Base,
      WorkerShape, WorkerPcs, Asleep, Looping, InCallback, Queuing
<1>31. ASSUME NEW q \in Wqs, SelfFlush(q) PROVE WorkerShape'
  BY <1>31, WorkqueueAssumption
  DEF SelfFlush, Goto, itemVars, workerVars, localVars, Shape, TypeOK, Threads, Base, WorkerShape,
      WorkerPcs, Asleep, Looping, InCallback, Queuing
<1>32. ASSUME NEW w \in Works, TimerExpire(w) PROVE WorkerShape'
  BY <1>32, WorkqueueAssumption
  DEF TimerExpire, queueVars, workerVars, localVars, Shape, TypeOK, Threads, Base, WorkerShape,
      WorkerPcs, Asleep, Looping, InCallback, Queuing
<1>33. ASSUME NEW w \in Works, DelayedWorkTimerFn(w) PROVE WorkerShape'
  BY <1>33, WorkqueueAssumption
  DEF DelayedWorkTimerFn, WakeWorker, InsertWork, localVars, Shape, TypeOK, Threads, Base,
      WorkerShape, WorkerPcs, Asleep, Looping, InCallback, Queuing
<1> QED
  BY <1>1, <1>2, <1>3, <1>4, <1>5, <1>6, <1>7, <1>8, <1>9, <1>10,
     <1>11, <1>12, <1>13, <1>14, <1>15, <1>16, <1>17, <1>18, <1>19, <1>20,
     <1>21, <1>22, <1>23, <1>24, <1>25, <1>26, <1>27, <1>28, <1>29, <1>30,
     <1>31, <1>32, <1>33
  DEF Next, Queueing, Insertion, ClientCall, ClientStep, WorkerStep, TimerStep

(* What a worker's place says about its callbacks.                         *)
LEMMA FrameShapeStep ==
  ASSUME TypeOK, Shape, [Next]_vars
  PROVE  FrameShape'
<1>1. CASE UNCHANGED vars
  BY <1>1 DEF vars, Shape, FrameShape
<1>2. ASSUME NEW x \in Threads, NEW w \in Works, NEW q \in Wqs, QueueWork(x, w, q) PROVE FrameShape'
  <2>1. pc' = [pc EXCEPT ![x] = "insert"] /\ UNCHANGED <<frames, current>>
    BY <1>2 DEF QueueWork, Goto, queueVars
  <2>2. CASE x \in Clients
    <3>1. \A p \in Wqs : pc'[p] = pc[p]
      BY <2>1, <2>2, WorkqueueAssumption DEF TypeOK, Threads
    <3> QED
      BY <2>1, <3>1 DEF Shape, FrameShape
  <2>3. CASE x \in Wqs
    <3>1. pc[x] = "func" /\ Last(frames[x]) = w /\ frames[x] # <<>> /\ frames[x] \in Seq(Entries)
      BY <1>2, <2>3, Locals, WorkqueueAssumption DEF QueueWork, MayQueue, Base, InCallback, TypeOK
    <3>2. \A i \in 1..Len(frames[x]) : frames[x][i] \notin Clients
      <4>1. frames[x][Len(frames[x])] = w /\ w \notin Clients
        BY <3>1, FrontType, WorkqueueAssumption
      <4> QED
        BY <2>3, <4>1 DEF Shape, FrameShape
    <3> QED
      BY <2>1, <2>3, <3>1, <3>2
      DEF Shape, FrameShape, WorkerShape, TypeOK, Threads, Base, Queuing, InCallback, Asleep,
          WorkerPcs, Looping
  <2> QED
    BY <2>2, <2>3 DEF Threads
<1>3. ASSUME NEW x \in Threads, NEW w \in Works, NEW q \in Wqs, QueueDelayedWork(x, w, q)
      PROVE  FrameShape'
  <2>1. pc' = [pc EXCEPT ![x] = "arm"] /\ UNCHANGED <<frames, current>>
    BY <1>3 DEF QueueDelayedWork, Goto, queueVars
  <2>2. CASE x \in Clients
    <3>1. \A p \in Wqs : pc'[p] = pc[p]
      BY <2>1, <2>2, WorkqueueAssumption DEF TypeOK, Threads
    <3> QED
      BY <2>1, <3>1 DEF Shape, FrameShape
  <2>3. CASE x \in Wqs
    <3>1. pc[x] = "func" /\ Last(frames[x]) = w /\ frames[x] # <<>> /\ frames[x] \in Seq(Entries)
      BY <1>3, <2>3, Locals, WorkqueueAssumption
      DEF QueueDelayedWork, MayQueue, Base, InCallback, TypeOK
    <3>2. \A i \in 1..Len(frames[x]) : frames[x][i] \notin Clients
      <4>1. frames[x][Len(frames[x])] = w /\ w \notin Clients
        BY <3>1, FrontType, WorkqueueAssumption
      <4> QED
        BY <2>3, <4>1 DEF Shape, FrameShape
    <3> QED
      BY <2>1, <2>3, <3>1, <3>2
      DEF Shape, FrameShape, WorkerShape, TypeOK, Threads, Base, Queuing, InCallback, Asleep,
          WorkerPcs, Looping
  <2> QED
    BY <2>2, <2>3 DEF Threads
<1>4. ASSUME NEW x \in Threads, QueueWorkInsert(x) PROVE FrameShape'
  BY <1>4, WorkqueueAssumption
  DEF QueueWorkInsert, WakeWorker, InsertWork, Goto, Shape, FrameShape, WorkerShape, TypeOK,
      Threads, Base, Queuing, InCallback, Asleep, WorkerPcs, Looping
<1>5. ASSUME NEW x \in Threads, SetWqData(x) PROVE FrameShape'
  BY <1>5, WorkqueueAssumption
  DEF SetWqData, Goto, queueVars, workerVars, localVars, Shape, FrameShape, WorkerShape, TypeOK,
      Threads, Base, Queuing, InCallback, Asleep, WorkerPcs, Looping
<1>6. ASSUME NEW x \in Threads, AddTimer(x) PROVE FrameShape'
  BY <1>6, WorkqueueAssumption
  DEF AddTimer, Goto, queueVars, workerVars, Shape, FrameShape, WorkerShape, TypeOK, Threads, Base,
      Queuing, InCallback, Asleep, WorkerPcs, Looping
<1>7. ASSUME NEW c \in Clients, NEW q \in Wqs, FlushWorkqueue(c, q) PROVE FrameShape'
  BY <1>7, WorkqueueAssumption
  DEF FlushWorkqueue, WakeWorker, InsertBarrier, FlushCpuWorkqueue, Goto, itemVars, Shape,
      FrameShape, WorkerShape, TypeOK, Threads, Base, Queuing, InCallback, Asleep, WorkerPcs,
                 Looping
<1>8. ASSUME NEW c \in Clients, NEW q \in Wqs, DestroyWorkqueue(c, q) PROVE FrameShape'
  BY <1>8, WorkqueueAssumption
  DEF DestroyWorkqueue, WakeWorker, InsertBarrier, FlushCpuWorkqueue, Goto, itemVars, Shape,
      FrameShape, WorkerShape, TypeOK, Threads, Base, Queuing, InCallback, Asleep, WorkerPcs,
                 Looping
<1>9. ASSUME NEW c \in Clients, NEW w \in Works, CancelDelayedWork(c, w) PROVE FrameShape'
  BY <1>9, WorkqueueAssumption
  DEF CancelDelayedWork, Goto, queueVars, workerVars, Shape, FrameShape, WorkerShape, TypeOK,
      Threads, Base, Queuing, InCallback, Asleep, WorkerPcs, Looping
<1>10. ASSUME NEW c \in Clients, NEW w \in Works, NEW t \in BOOLEAN, CancelWork(c, w, t)
       PROVE  FrameShape'
  BY <1>10, WorkqueueAssumption
  DEF CancelWork, Goto, itemVars, queueVars, workerVars, Shape, FrameShape, WorkerShape, TypeOK,
      Threads, Base, Queuing, InCallback, Asleep, WorkerPcs, Looping
<1>11. ASSUME NEW c \in Clients, FlushDone(c) PROVE FrameShape'
  BY <1>11, WorkqueueAssumption
  DEF FlushDone, Goto, itemVars, queueVars, workerVars, localVars, Shape, FrameShape, WorkerShape,
      TypeOK, Threads, Base, Queuing, InCallback, Asleep, WorkerPcs, Looping
<1>12. ASSUME NEW c \in Clients, FlushReturn(c) PROVE FrameShape'
  BY <1>12, WorkqueueAssumption
  DEF FlushReturn, Goto, itemVars, queueVars, workerVars, Shape, FrameShape, WorkerShape, TypeOK,
      Threads, Base, Queuing, InCallback, Asleep, WorkerPcs, Looping
<1>13. ASSUME NEW c \in Clients, KthreadStop(c) PROVE FrameShape'
  BY <1>13, WorkqueueAssumption
  DEF KthreadStop, WakeWorker, Goto, itemVars, queueVars, localVars, Shape, FrameShape,
      WorkerShape, TypeOK, Threads, Base, Queuing, InCallback, Asleep, WorkerPcs, Looping
<1>14. ASSUME NEW c \in Clients, DestroyReturn(c) PROVE FrameShape'
  BY <1>14, WorkqueueAssumption
  DEF DestroyReturn, Goto, itemVars, queueVars, workerVars, Shape, FrameShape, WorkerShape, TypeOK,
      Threads, Base, Queuing, InCallback, Asleep, WorkerPcs, Looping
<1>15. ASSUME NEW c \in Clients, DelTimer(c) PROVE FrameShape'
  BY <1>15, WorkqueueAssumption
  DEF DelTimer, Goto, queueVars, workerVars, Shape, FrameShape, WorkerShape, TypeOK, Threads, Base,
      Queuing, InCallback, Asleep, WorkerPcs, Looping
<1>16. ASSUME NEW c \in Clients, TryToGrabPending(c) PROVE FrameShape'
  BY <1>16, WorkqueueAssumption
  DEF TryToGrabPending, Goto, queueVars, workerVars, Shape, FrameShape, WorkerShape, TypeOK,
      Threads, Base, Queuing, InCallback, Asleep, WorkerPcs, Looping
<1>17. ASSUME NEW c \in Clients, StealWork(c) PROVE FrameShape'
  BY <1>17, WorkqueueAssumption
  DEF StealWork, Goto, itemVars, workerVars, Shape, FrameShape, WorkerShape, TypeOK, Threads, Base,
      Queuing, InCallback, Asleep, WorkerPcs, Looping
<1>18. ASSUME NEW c \in Clients, WaitOnWork(c) PROVE FrameShape'
  BY <1>18, WorkqueueAssumption
  DEF WaitOnWork, Goto, itemVars, queueVars, workerVars, Shape, FrameShape, WorkerShape, TypeOK,
      Threads, Base, Queuing, InCallback, Asleep, WorkerPcs, Looping
<1>19. ASSUME NEW c \in Clients, WaitOnCpuWork(c) PROVE FrameShape'
  BY <1>19, WorkqueueAssumption
  DEF WaitOnCpuWork, WakeWorker, InsertBarrier, Goto, itemVars, Shape, FrameShape, WorkerShape,
      TypeOK, Threads, Base, Queuing, InCallback, Asleep, WorkerPcs, Looping
<1>20. ASSUME NEW c \in Clients, WaitOnWorkDone(c) PROVE FrameShape'
  BY <1>20, WorkqueueAssumption
  DEF WaitOnWorkDone, Goto, itemVars, queueVars, workerVars, localVars, Shape, FrameShape,
      WorkerShape, TypeOK, Threads, Base, Queuing, InCallback, Asleep, WorkerPcs, Looping
<1>21. ASSUME NEW c \in Clients, CancelNext(c) PROVE FrameShape'
  BY <1>21, WorkqueueAssumption
  DEF CancelNext, Goto, queueVars, workerVars, Shape, FrameShape, WorkerShape, TypeOK, Threads,
      Base, Queuing, InCallback, Asleep, WorkerPcs, Looping
<1>22. ASSUME NEW c \in Clients, WorkClearPending(c) PROVE FrameShape'
  BY <1>22, WorkqueueAssumption
  DEF WorkClearPending, Goto, queueVars, workerVars, Shape, FrameShape, WorkerShape, TypeOK,
      Threads, Base, Queuing, InCallback, Asleep, WorkerPcs, Looping
<1>23. ASSUME NEW q \in Wqs, PrepareToWait(q) PROVE FrameShape'
  BY <1>23, WorkqueueAssumption
  DEF PrepareToWait, Goto, itemVars, queueVars, localVars, Shape, FrameShape, WorkerShape, TypeOK,
      Threads, Base, Queuing, InCallback, Asleep, WorkerPcs, Looping
<1>24. ASSUME NEW q \in Wqs, CheckWork(q) PROVE FrameShape'
  BY <1>24, WorkqueueAssumption
  DEF CheckWork, Goto, itemVars, queueVars, workerVars, localVars, Shape, FrameShape, WorkerShape,
      TypeOK, Threads, Base, Queuing, InCallback, Asleep, WorkerPcs, Looping
<1>25. ASSUME NEW q \in Wqs, Schedule(q) PROVE FrameShape'
  BY <1>25, WorkqueueAssumption
  DEF Schedule, Goto, itemVars, queueVars, workerVars, localVars, Shape, FrameShape, WorkerShape,
      TypeOK, Threads, Base, Queuing, InCallback, Asleep, WorkerPcs, Looping
<1>26. ASSUME NEW q \in Wqs, FinishWait(q) PROVE FrameShape'
  BY <1>26, WorkqueueAssumption
  DEF FinishWait, WakeWorker, Goto, itemVars, queueVars, localVars, Shape, FrameShape, WorkerShape,
      TypeOK, Threads, Base, Queuing, InCallback, Asleep, WorkerPcs, Looping
<1>27. ASSUME NEW q \in Wqs, RunWorkqueue(q) PROVE FrameShape'
  <2>1. CASE worklist[q] # <<>>
    <3>1. Head(worklist[q]) # None
      BY <2>1, ListTypes, WorkqueueAssumption DEF Entries
    <3> QED
      BY <1>27, <2>1, <3>1
      DEF RunWorkqueue, Goto, Shape, FrameShape, WorkerShape, TypeOK, Threads, Base, Queuing,
          InCallback, Asleep, WorkerPcs, Looping
  <2>2. CASE worklist[q] = <<>> /\ frames[q] = <<>>
    BY <1>27, <2>2
    DEF RunWorkqueue, Goto, Shape, FrameShape, WorkerShape, TypeOK, Threads, Base, Queuing,
        InCallback, Asleep, WorkerPcs, Looping
  <2>3. CASE worklist[q] = <<>> /\ frames[q] # <<>>
    BY <1>27, <2>3
    DEF RunWorkqueue, Goto, Shape, FrameShape, WorkerShape, TypeOK, Threads, Base, Queuing,
        InCallback, Asleep, WorkerPcs, Looping
  <2> QED
    BY <2>1, <2>2, <2>3
<1>28. ASSUME NEW q \in Wqs, ClearPending(q) PROVE FrameShape'
  <2>1. frames[q] \in Seq(Entries) /\ current[q] \in Entries
    BY <1>28, Locals DEF ClearPending, TypeOK
  <2>2. /\ frames' = [frames EXCEPT ![q] = Append(frames[q], current[q])]
        /\ pc' = [pc EXCEPT ![q] = "func"] /\ current' = current
    BY <1>28 DEF ClearPending, Goto
  <2>3. \A i \in 1..Len(frames[q]) : frames[q][i] \notin Clients
    BY <1>28 DEF ClearPending, Shape, FrameShape
  <2>4. /\ Len(Append(frames[q], current[q])) = Len(frames[q]) + 1 /\ Len(frames[q]) \in Nat
        /\ \A i \in 1..Len(frames[q]) : Append(frames[q], current[q])[i] = frames[q][i]
        /\ Append(frames[q], current[q]) # <<>>
    BY <2>1
  <2>5. \A i \in 1..Len(Append(frames[q], current[q])) :
          Append(frames[q], current[q])[i] \in Clients => i = Len(Append(frames[q], current[q]))
    BY <2>3, <2>4
  <2> QED
    BY <2>2, <2>4, <2>5
    DEF Shape, FrameShape, WorkerShape, TypeOK, Threads, Base, Queuing, InCallback, Asleep,
        WorkerPcs, Looping
<1>29. ASSUME NEW q \in Wqs, BarrierFunc(q) PROVE FrameShape'
  <2>1. frames[q] # <<>> /\ frames[q] \in Seq(Entries)
    BY <1>29, Locals DEF BarrierFunc, Return, InCallback, TypeOK
  <2>2. /\ Len(Front(frames[q])) = Len(frames[q]) - 1 /\ Len(frames[q]) \in Nat
        /\ \A i \in 1..(Len(frames[q]) - 1) : Front(frames[q])[i] = frames[q][i]
    BY <2>1, FrontType
  <2>3. \A i \in 1..Len(Front(frames[q])) : Front(frames[q])[i] \notin Clients
    BY <2>2 DEF Shape, FrameShape
  <2>4. /\ frames' = [frames EXCEPT ![q] = Front(frames[q])] /\ pc' = [pc EXCEPT ![q] = "end"]
        /\ current' = current
    BY <1>29 DEF BarrierFunc, Return, Goto
  <2> QED
    BY <2>3, <2>4
    DEF Shape, FrameShape, WorkerShape, TypeOK, Threads, Base, Queuing, InCallback, Asleep,
        WorkerPcs, Looping
<1>30. ASSUME NEW q \in Wqs, CallbackReturn(q) PROVE FrameShape'
  <2>1. frames[q] # <<>> /\ frames[q] \in Seq(Entries)
    BY <1>30, Locals DEF CallbackReturn, Return, InCallback, TypeOK
  <2>2. /\ Len(Front(frames[q])) = Len(frames[q]) - 1 /\ Len(frames[q]) \in Nat
        /\ \A i \in 1..(Len(frames[q]) - 1) : Front(frames[q])[i] = frames[q][i]
    BY <2>1, FrontType
  <2>3. \A i \in 1..Len(Front(frames[q])) : Front(frames[q])[i] \notin Clients
    BY <2>2 DEF Shape, FrameShape
  <2>4. /\ frames' = [frames EXCEPT ![q] = Front(frames[q])] /\ pc' = [pc EXCEPT ![q] = "end"]
        /\ current' = current
    BY <1>30 DEF CallbackReturn, Return, Goto
  <2> QED
    BY <2>3, <2>4
    DEF Shape, FrameShape, WorkerShape, TypeOK, Threads, Base, Queuing, InCallback, Asleep,
        WorkerPcs, Looping
<1>31. ASSUME NEW q \in Wqs, SelfFlush(q) PROVE FrameShape'
  <2>1. frames[q] # <<>> /\ frames[q] \in Seq(Entries) /\ Last(frames[q]) \notin Clients
    BY <1>31, Locals, WorkqueueAssumption DEF SelfFlush, InCallback, TypeOK
  <2>2. \A i \in 1..Len(frames[q]) : frames[q][i] \notin Clients
    <3>1. Last(frames[q]) = frames[q][Len(frames[q])]
      BY <2>1, FrontType
    <3> QED
      BY <2>1, <3>1 DEF Shape, FrameShape
  <2> QED
    BY <1>31, <2>1, <2>2
    DEF SelfFlush, Goto, itemVars, workerVars, localVars, Shape, FrameShape, WorkerShape, TypeOK,
        Threads, Base, Queuing, InCallback, Asleep, WorkerPcs, Looping
<1>32. ASSUME NEW w \in Works, TimerExpire(w) PROVE FrameShape'
  BY <1>32, WorkqueueAssumption
  DEF TimerExpire, queueVars, workerVars, localVars, Shape, FrameShape, WorkerShape, TypeOK,
      Threads, Base, Queuing, InCallback, Asleep, WorkerPcs, Looping
<1>33. ASSUME NEW w \in Works, DelayedWorkTimerFn(w) PROVE FrameShape'
  BY <1>33, WorkqueueAssumption
  DEF DelayedWorkTimerFn, WakeWorker, InsertWork, localVars, Shape, FrameShape, WorkerShape,
      TypeOK, Threads, Base, Queuing, InCallback, Asleep, WorkerPcs, Looping
<1> QED
  BY <1>1, <1>2, <1>3, <1>4, <1>5, <1>6, <1>7, <1>8, <1>9, <1>10,
     <1>11, <1>12, <1>13, <1>14, <1>15, <1>16, <1>17, <1>18, <1>19, <1>20,
     <1>21, <1>22, <1>23, <1>24, <1>25, <1>26, <1>27, <1>28, <1>29, <1>30,
     <1>31, <1>32, <1>33
  DEF Next, Queueing, Insertion, ClientCall, ClientStep, WorkerStep, TimerStep

-----------------------------------------------------------------------------
(* insert_work and insert_wq_barrier, at either end of the list.           *)
LEMMA Inserted ==
  ASSUME TypeOK, NEW q \in Wqs, NEW e \in Entries, NEW s,
         s = Append(worklist[q], e) \/ s = <<e>> \o worklist[q],
         worklist' = [worklist EXCEPT ![q] = s]
  PROVE  /\ \A p \in Wqs, f \in Entries : On(p, f)' <=> On(p, f) \/ (p = q /\ f = e)
         /\ Listed /\ ~On(q, e) => Listed'
<1>1. ToSet(s) = ToSet(worklist[q]) \cup {e} /\ (Unique(worklist[q]) /\ ~On(q, e) => Unique(s))
  <2>1. worklist[q] \in Seq(Entries)
    BY DEF TypeOK
  <2>2. CASE s = Append(worklist[q], e)
    BY <2>1, <2>2, AppendElems DEF On
  <2>3. CASE s = <<e>> \o worklist[q]
    BY <2>1, <2>3, PrependElems DEF On
  <2> QED
    BY <2>2, <2>3
<1>2. \A p \in Wqs : worklist'[p] = IF p = q THEN s ELSE worklist[p]
  BY DEF TypeOK
<1>3. \A p \in Wqs, f \in Entries : On(p, f)' <=> On(p, f) \/ (p = q /\ f = e)
  BY <1>1, <1>2 DEF On
<1>4. Listed /\ ~On(q, e) => Listed'
  BY <1>1, <1>2 DEF Listed
<1> QED
  BY <1>3, <1>4

(* list_del of an entry: run_workqueue's first, or the work of a cancel.   *)
LEMMA Deleted ==
  ASSUME TypeOK, Listed, NEW q \in Wqs, NEW e \in Entries, NEW s,
         ToSet(s) = ToSet(worklist[q]) \ {e}, Unique(s),
         worklist' = [worklist EXCEPT ![q] = s]
  PROVE  /\ \A p \in Wqs, f \in Entries : On(p, f)' <=> On(p, f) /\ ~(p = q /\ f = e)
         /\ Listed'
<1>1. \A p \in Wqs : worklist'[p] = IF p = q THEN s ELSE worklist[p]
  BY DEF TypeOK
<1>2. \A p \in Wqs, f \in Entries : On(p, f)' <=> On(p, f) /\ ~(p = q /\ f = e)
  BY <1>1 DEF On
<1> QED
  BY <1>1, <1>2 DEF Listed

LEMMA HeadDeleted ==
  ASSUME TypeOK, Listed, NEW q \in Wqs, worklist[q] # <<>>,
         worklist' = [worklist EXCEPT ![q] = Tail(@)]
  PROVE  /\ \A p \in Wqs, f \in Entries : On(p, f)' <=> On(p, f) /\ ~(p = q /\
             f = Head(worklist[q]))
         /\ Listed'
         /\ On(q, Head(worklist[q])) /\ Head(worklist[q]) \in Entries
<1> DEFINE s == Tail(worklist[q])
           e == Head(worklist[q])
<1>1. worklist[q] \in Seq(Entries) /\ Unique(worklist[q]) /\ e \in Entries
  BY ListTypes DEF TypeOK, Listed
<1>2. ToSet(s) = ToSet(worklist[q]) \ {e} /\ Unique(s) /\ e \in ToSet(worklist[q])
  BY <1>1, TailElems
<1>3. worklist' = [worklist EXCEPT ![q] = s]
  OBVIOUS
<1> HIDE DEF s, e
<1>4. (\A p \in Wqs, f \in Entries : On(p, f)' <=> On(p, f) /\ ~(p = q /\ f = e)) /\ Listed'
  BY <1>1, <1>2, <1>3, Deleted
<1>5. On(q, e)
  BY <1>2 DEF On
<1> QED
  BY <1>1, <1>4, <1>5 DEF e

LEMMA WorkDeleted ==
  ASSUME TypeOK, Listed, NEW q \in Wqs, NEW w \in Works, NEW i \in 1..Len(worklist[q]),
         worklist[q][i] = w, worklist' = [worklist EXCEPT ![q] = RemoveAt(@, i)]
  PROVE  /\ \A p \in Wqs, f \in Entries : On(p, f)' <=> On(p, f) /\ ~(p = q /\ f = w)
         /\ Listed'
         /\ On(q, w)
<1> DEFINE s == RemoveAt(worklist[q], i)
<1>1. worklist[q] \in Seq(Entries) /\ Unique(worklist[q]) /\ w \in Entries
  BY DEF TypeOK, Listed, Entries
<1>2. ToSet(s) = ToSet(worklist[q]) \ {w} /\ Unique(s)
  BY <1>1, RemoveAtElems
<1>3. worklist' = [worklist EXCEPT ![q] = s]
  OBVIOUS
<1> HIDE DEF s
<1>4. (\A p \in Wqs, f \in Entries : On(p, f)' <=> On(p, f) /\ ~(p = q /\ f = w)) /\ Listed'
  BY <1>1, <1>2, <1>3, Deleted
<1>5. On(q, w)
  BY <1>1, ToSetElems DEF On
<1> QED
  BY <1>4, <1>5

(* Who owns a work is alone ...                                            *)
LEMMA Sole ==
  ASSUME OneAt, NEW w \in Works, NEW k \in Kinds, NEW x \in Things, At(k, x, w)
  PROVE  /\ \A y \in Threads : Queuer(y, w) => k = "queueing" /\ y = x
         /\ timer[w] # "off" => k = "timer"
         /\ \A q \in Wqs : On(q, w) => k = "listed" /\ q = x
         /\ \A q \in Wqs : Taken(q, w) => k = "taken" /\ q = x
         /\ \A d \in Clients : Grabbed(d, w) => k = "grabbed" /\ d = x
<1>1. /\ \A y \in Threads : Queuer(y, w) => At("queueing", y, w)
      /\ timer[w] # "off" => At("timer", w, w)
      /\ \A q \in Wqs : On(q, w) => At("listed", q, w)
      /\ \A q \in Wqs : Taken(q, w) => At("taken", q, w)
      /\ \A d \in Clients : Grabbed(d, w) => At("grabbed", d, w)
  BY DEF At
<1> QED
  BY <1>1 DEF OneAt, Kinds, Things, Threads

(* ... and nobody owns a work that is not pending.                         *)
LEMMA Free ==
  ASSUME PendingMeans, NEW w \in Works, ~pending[w]
  PROVE  /\ \A y \in Threads : ~Queuer(y, w)
         /\ timer[w] = "off"
         /\ \A q \in Wqs : ~On(q, w) /\ ~Taken(q, w)
         /\ \A d \in Clients : ~Grabbed(d, w)
<1>1. /\ \A y \in Threads : Queuer(y, w) => At("queueing", y, w)
      /\ timer[w] # "off" => At("timer", w, w)
      /\ \A q \in Wqs : On(q, w) => At("listed", q, w)
      /\ \A q \in Wqs : Taken(q, w) => At("taken", q, w)
      /\ \A d \in Clients : Grabbed(d, w) => At("grabbed", d, w)
  BY DEF At
<1> QED
  BY <1>1 DEF PendingMeans, Kinds, Things, Threads

(* The other way round: a work stays where it is, ...                      *)
SameWork(v) ==
  /\ pending'[v] = pending[v]
  /\ \A y \in Threads : Queuer(y, v)' <=> Queuer(y, v)
  /\ timer'[v] # "off" <=> timer[v] # "off"
  /\ \A q \in Wqs : (On(q, v)' <=> On(q, v)) /\ (Taken(q, v)' <=> Taken(q, v))
  /\ \A d \in Clients : Grabbed(d, v)' <=> Grabbed(d, v)

LEMMA SameAt ==
  ASSUME NEW v \in Works, SameWork(v)
  PROVE  \A k \in Kinds, x \in Things : At(k, x, v)' <=> At(k, x, v)
BY DEF SameWork, At

LEMMA Still ==
  ASSUME Ownership, \A v \in Works : SameWork(v)
  PROVE  Ownership'
<1>1. \A v \in Works, k \in Kinds, x \in Things : At(k, x, v)' <=> At(k, x, v)
  BY SameAt
<1>2. \A v \in Works : pending'[v] = pending[v]
  BY DEF SameWork
<1> QED
  BY <1>1, <1>2 DEF Ownership, OneAt, PendingMeans

(* ... gets a new owner, ...                                               *)
LEMMA Moved ==
  ASSUME Ownership, NEW w \in Works, \A v \in Works \ {w} : SameWork(v),
         pending'[w], NEW k \in Kinds, NEW x \in Things,
         \A l \in Kinds, y \in Things : At(l, y, w)' <=> l = k /\ y = x
  PROVE  Ownership'
<1>1. \A v \in Works \ {w}, l \in Kinds, y \in Things : At(l, y, v)' <=> At(l, y, v)
  BY SameAt
<1>2. \A v \in Works \ {w} : pending'[v] = pending[v]
  BY DEF SameWork
<1>3. OneAt'
  BY <1>1 DEF Ownership, OneAt
<1>4. PendingMeans'
  BY <1>1, <1>2 DEF Ownership, PendingMeans
<1> QED
  BY <1>3, <1>4 DEF Ownership

(* ... or loses its owner and the bit.                                     *)
LEMMA Released ==
  ASSUME Ownership, NEW w \in Works, \A v \in Works \ {w} : SameWork(v),
         pending'[w] = FALSE, \A l \in Kinds, y \in Things : ~At(l, y, w)'
  PROVE  Ownership'
<1>1. \A v \in Works \ {w}, l \in Kinds, y \in Things : At(l, y, v)' <=> At(l, y, v)
  BY SameAt
<1>2. \A v \in Works \ {w} : pending'[v] = pending[v]
  BY DEF SameWork
<1>3. OneAt'
  BY <1>1 DEF Ownership, OneAt
<1>4. PendingMeans'
  BY <1>1, <1>2 DEF Ownership, PendingMeans
<1> QED
  BY <1>3, <1>4 DEF Ownership

(* What the operations do to the worklists.                                *)
LEMMA WorkInserted ==
  ASSUME TypeOK, NEW w \in Works, NEW q \in Wqs, InsertWork(w, q)
  PROVE  /\ \A p \in Wqs, f \in Entries : On(p, f)' <=> On(p, f) \/ (p = q /\ f = w)
         /\ Listed /\ ~On(q, w) => Listed'
<1>1. worklist' = [worklist EXCEPT ![q] = Append(worklist[q], w)] /\ w \in Entries
  BY DEF InsertWork, Entries
<1> QED
  BY <1>1, Inserted

LEMMA BarrierInserted ==
  ASSUME TypeOK, NEW c \in Clients, NEW q \in Wqs, NEW tail \in BOOLEAN, InsertBarrier(c, q, tail)
  PROVE  /\ \A p \in Wqs, f \in Entries : On(p, f)' <=> On(p, f) \/ (p = q /\ f = c)
         /\ Listed /\ ~On(q, c) => Listed'
<1>1. c \in Entries
  BY DEF Entries
<1>2. CASE tail
  <2>1. worklist' = [worklist EXCEPT ![q] = Append(worklist[q], c)]
    BY <1>2 DEF InsertBarrier
  <2> QED
    BY <1>1, <2>1, Inserted
<1>3. CASE ~tail
  <2>1. worklist' = [worklist EXCEPT ![q] = <<c>> \o worklist[q]]
    BY <1>3 DEF InsertBarrier
  <2> QED
    BY <1>1, <2>1, Inserted
<1> QED
  BY <1>2, <1>3

(* flush_cpu_workqueue and wait_on_cpu_work insert a barrier or change     *)
(* nothing.                                                                *)
FlushInserts(c, q) ==
  \/ ~Busy(q) /\ UNCHANGED <<worklist, done, wstate>>
  \/ Busy(q) /\ InsertBarrier(c, q, TRUE)

WaitInserts(c, q) ==
  \/ current[q] # arg[c] /\ UNCHANGED <<worklist, done, wstate>>
  \/ current[q] = arg[c] /\ InsertBarrier(c, q, FALSE)

LEMMA WorksStay ==
  ASSUME TypeOK, NEW c \in Clients, NEW q \in Wqs, FlushInserts(c, q) \/ WaitInserts(c, q)
  PROVE  \A p \in Wqs, v \in Works : On(p, v)' <=> On(p, v)
<1>1. CASE UNCHANGED worklist
  BY <1>1 DEF On
<1>2. ASSUME NEW tail \in BOOLEAN, InsertBarrier(c, q, tail)
      PROVE  \A p \in Wqs, v \in Works : On(p, v)' <=> On(p, v)
  BY <1>2, BarrierInserted, WorkqueueAssumption DEF Entries
<1> QED
  BY <1>1, <1>2 DEF FlushInserts, WaitInserts

(* Every step keeps a work's one owner.                                    *)
LEMMA OwnershipStep ==
  ASSUME TypeOK, Shape, Listed, Ownership, DataSet, [Next]_vars
  PROVE  Ownership'
<1>1. CASE UNCHANGED vars
  BY <1>1, Still DEF vars, SameWork, Queuer, On, Taken, Grabbed
<1>2. ASSUME NEW x \in Threads, NEW w \in Works, NEW q \in Wqs, QueueWork(x, w, q) PROVE Ownership'
  <2>1. w \in Works
    OBVIOUS
  <2>11. \A y \in Threads, v \in Works : Queuer(y, v)' <=> Queuer(y, v) \/ (y = x /\ v = w)
    BY <1>2, WorkqueueAssumption
    DEF QueueWork, MayQueue, Goto, queueVars, workerVars, Queuer, Queuing, TypeOK, Threads, Base
  <2>12. \A v \in Works : timer'[v] # "off" <=> timer[v] # "off"
    BY <1>2 DEF QueueWork, MayQueue, Goto, queueVars, workerVars, TypeOK
  <2>13. \A p \in Wqs, v \in Works : On(p, v)' <=> On(p, v)
    BY <1>2 DEF QueueWork, MayQueue, Goto, queueVars, workerVars, On
  <2>14. \A p \in Wqs, v \in Works : Taken(p, v)' <=> Taken(p, v)
    BY <1>2, WorkqueueAssumption
    DEF QueueWork, MayQueue, Goto, queueVars, workerVars, Taken, TypeOK, Threads, Base
  <2>15. \A d \in Clients, v \in Works : Grabbed(d, v)' <=> Grabbed(d, v)
    BY <1>2, WorkqueueAssumption
    DEF QueueWork, MayQueue, Goto, queueVars, workerVars, Grabbed, TypeOK, Threads, Base
  <2>16. \A v \in Works : pending'[v] = IF v = w THEN TRUE ELSE pending[v]
    BY <1>2 DEF QueueWork, MayQueue, Goto, queueVars, workerVars, TypeOK
  <2>17. ~pending[w]
    BY <2>1, <1>2 DEF QueueWork
  <2>18. \A v \in Works \ {w} : SameWork(v)
    BY <2>11, <2>12, <2>13, <2>14, <2>15, <2>16 DEF SameWork
  <2>19. /\ \A y \in Threads : Queuer(y, w) => FALSE
         /\ timer[w] # "off" => FALSE
         /\ \A p \in Wqs : (On(p, w) => FALSE) /\ (Taken(p, w) => FALSE)
         /\ \A d \in Clients : Grabbed(d, w) => FALSE
    BY <2>17, <2>1, Free DEF Ownership, Kinds, Things, Threads
  <2>20. \A l \in Kinds, y \in Things : At(l, y, w)' <=> l = "queueing" /\ y = x
    BY <2>1, <2>11, <2>12, <2>13, <2>14, <2>15, <2>16, <2>19 DEF At, Threads
  <2>21. pending'[w]
    BY <2>1, <2>16
  <2> QED
    BY <2>1, <2>18, <2>20, <2>21, Moved DEF Kinds, Things, Threads
<1>3. ASSUME NEW x \in Threads, NEW w \in Works, NEW q \in Wqs, QueueDelayedWork(x, w, q)
      PROVE  Ownership'
  <2>1. w \in Works
    OBVIOUS
  <2>11. \A y \in Threads, v \in Works : Queuer(y, v)' <=> Queuer(y, v) \/ (y = x /\ v = w)
    BY <1>3, WorkqueueAssumption
    DEF QueueDelayedWork, MayQueue, Goto, queueVars, workerVars, Queuer, Queuing, TypeOK, Threads,
        Base
  <2>12. \A v \in Works : timer'[v] # "off" <=> timer[v] # "off"
    BY <1>3 DEF QueueDelayedWork, MayQueue, Goto, queueVars, workerVars, TypeOK
  <2>13. \A p \in Wqs, v \in Works : On(p, v)' <=> On(p, v)
    BY <1>3 DEF QueueDelayedWork, MayQueue, Goto, queueVars, workerVars, On
  <2>14. \A p \in Wqs, v \in Works : Taken(p, v)' <=> Taken(p, v)
    BY <1>3, WorkqueueAssumption
    DEF QueueDelayedWork, MayQueue, Goto, queueVars, workerVars, Taken, TypeOK, Threads, Base
  <2>15. \A d \in Clients, v \in Works : Grabbed(d, v)' <=> Grabbed(d, v)
    BY <1>3, WorkqueueAssumption
    DEF QueueDelayedWork, MayQueue, Goto, queueVars, workerVars, Grabbed, TypeOK, Threads, Base
  <2>16. \A v \in Works : pending'[v] = IF v = w THEN TRUE ELSE pending[v]
    BY <1>3 DEF QueueDelayedWork, MayQueue, Goto, queueVars, workerVars, TypeOK
  <2>17. ~pending[w]
    BY <2>1, <1>3 DEF QueueDelayedWork
  <2>18. \A v \in Works \ {w} : SameWork(v)
    BY <2>11, <2>12, <2>13, <2>14, <2>15, <2>16 DEF SameWork
  <2>19. /\ \A y \in Threads : Queuer(y, w) => FALSE
         /\ timer[w] # "off" => FALSE
         /\ \A p \in Wqs : (On(p, w) => FALSE) /\ (Taken(p, w) => FALSE)
         /\ \A d \in Clients : Grabbed(d, w) => FALSE
    BY <2>17, <2>1, Free DEF Ownership, Kinds, Things, Threads
  <2>20. \A l \in Kinds, y \in Things : At(l, y, w)' <=> l = "queueing" /\ y = x
    BY <2>1, <2>11, <2>12, <2>13, <2>14, <2>15, <2>16, <2>19 DEF At, Threads
  <2>21. pending'[w]
    BY <2>1, <2>16
  <2> QED
    BY <2>1, <2>18, <2>20, <2>21, Moved DEF Kinds, Things, Threads
<1>4. ASSUME NEW x \in Threads, QueueWorkInsert(x) PROVE Ownership'
  <2>1. PICK a \in Works, b \in Wqs : a = arg[x] /\ b = tq[x] /\ Queuer(x, a)
    BY <1>4, Locals DEF QueueWorkInsert, Queuing, Queuer
  <2>11. \A y \in Threads, v \in Works : Queuer(y, v)' <=> Queuer(y, v) /\ ~(y = x /\ v = a)
    BY <1>4, <2>1, WorkqueueAssumption
    DEF QueueWorkInsert, WakeWorker, InsertWork, Goto, Queuer, Queuing, TypeOK, Threads, Base
  <2>12. \A v \in Works : timer'[v] # "off" <=> timer[v] # "off"
    BY <1>4, <2>1 DEF QueueWorkInsert, WakeWorker, InsertWork, Goto, TypeOK
  <2>13. \A p \in Wqs, v \in Works : On(p, v)' <=> On(p, v) \/ (p = b /\ v = a)
    BY <1>4, <2>1, WorkInserted DEF QueueWorkInsert, Entries
  <2>14. \A p \in Wqs, v \in Works : Taken(p, v)' <=> Taken(p, v)
    BY <1>4, <2>1, WorkqueueAssumption
    DEF QueueWorkInsert, WakeWorker, InsertWork, Goto, Taken, TypeOK, Threads, Base
  <2>15. \A d \in Clients, v \in Works : Grabbed(d, v)' <=> Grabbed(d, v)
    BY <1>4, <2>1, WorkqueueAssumption
    DEF QueueWorkInsert, WakeWorker, InsertWork, Goto, Grabbed, TypeOK, Threads, Base
  <2>16. \A v \in Works : pending'[v] = pending[v]
    BY <1>4, <2>1 DEF QueueWorkInsert, WakeWorker, InsertWork, Goto, TypeOK
  <2>17. At("queueing", x, a)
    BY <2>1, <2>1 DEF At
  <2>18. \A v \in Works \ {a} : SameWork(v)
    BY <2>11, <2>12, <2>13, <2>14, <2>15, <2>16 DEF SameWork
  <2>19. /\ \A y \in Threads : Queuer(y, a) => y = x
         /\ timer[a] # "off" => FALSE
         /\ \A p \in Wqs : (On(p, a) => FALSE) /\ (Taken(p, a) => FALSE)
         /\ \A d \in Clients : Grabbed(d, a) => FALSE
    BY <2>17, <2>1, Sole DEF Ownership, Kinds, Things, Threads
  <2>20. \A l \in Kinds, y \in Things : At(l, y, a)' <=> l = "listed" /\ y = b
    BY <2>1, <2>11, <2>12, <2>13, <2>14, <2>15, <2>16, <2>19 DEF At, Threads
  <2>21. pending'[a]
    BY <2>1, <2>16, <2>17 DEF Ownership, PendingMeans, Kinds, Things, Threads
  <2> QED
    BY <2>1, <2>18, <2>20, <2>21, Moved DEF Kinds, Things, Threads
<1>5. ASSUME NEW x \in Threads, SetWqData(x) PROVE Ownership'
  <2>9. \A v \in Works : SameWork(v)
    BY <1>5, WorkqueueAssumption
    DEF SetWqData, Goto, queueVars, workerVars, localVars, SameWork, Queuer, Queuing, On, Taken,
        Grabbed, TypeOK, Threads, Base
  <2> QED
    BY <2>9, Still
<1>6. ASSUME NEW x \in Threads, AddTimer(x) PROVE Ownership'
  <2>1. PICK a \in Works, b \in Wqs : a = arg[x] /\ b = tq[x] /\ Queuer(x, a)
    BY <1>6, Locals DEF AddTimer, Queuing, Queuer
  <2>11. \A y \in Threads, v \in Works : Queuer(y, v)' <=> Queuer(y, v) /\ ~(y = x /\ v = a)
    BY <1>6, <2>1, WorkqueueAssumption
    DEF AddTimer, Goto, queueVars, workerVars, Queuer, Queuing, TypeOK, Threads, Base
  <2>12. \A v \in Works : timer'[v] # "off" <=> timer[v] # "off" \/ v = a
    BY <1>6, <2>1 DEF AddTimer, Goto, queueVars, workerVars, TypeOK
  <2>13. \A p \in Wqs, v \in Works : On(p, v)' <=> On(p, v)
    BY <1>6, <2>1 DEF AddTimer, Goto, queueVars, workerVars, On
  <2>14. \A p \in Wqs, v \in Works : Taken(p, v)' <=> Taken(p, v)
    BY <1>6, <2>1, WorkqueueAssumption
    DEF AddTimer, Goto, queueVars, workerVars, Taken, TypeOK, Threads, Base
  <2>15. \A d \in Clients, v \in Works : Grabbed(d, v)' <=> Grabbed(d, v)
    BY <1>6, <2>1, WorkqueueAssumption
    DEF AddTimer, Goto, queueVars, workerVars, Grabbed, TypeOK, Threads, Base
  <2>16. \A v \in Works : pending'[v] = pending[v]
    BY <1>6, <2>1 DEF AddTimer, Goto, queueVars, workerVars, TypeOK
  <2>17. At("queueing", x, a)
    BY <2>1, <2>1 DEF At
  <2>18. \A v \in Works \ {a} : SameWork(v)
    BY <2>11, <2>12, <2>13, <2>14, <2>15, <2>16 DEF SameWork
  <2>19. /\ \A y \in Threads : Queuer(y, a) => y = x
         /\ timer[a] # "off" => FALSE
         /\ \A p \in Wqs : (On(p, a) => FALSE) /\ (Taken(p, a) => FALSE)
         /\ \A d \in Clients : Grabbed(d, a) => FALSE
    BY <2>17, <2>1, Sole DEF Ownership, Kinds, Things, Threads
  <2>20. \A l \in Kinds, y \in Things : At(l, y, a)' <=> l = "timer" /\ y = a
    BY <2>1, <2>11, <2>12, <2>13, <2>14, <2>15, <2>16, <2>19 DEF At, Threads
  <2>21. pending'[a]
    BY <2>1, <2>16, <2>17 DEF Ownership, PendingMeans, Kinds, Things, Threads
  <2> QED
    BY <2>1, <2>18, <2>20, <2>21, Moved DEF Kinds, Things, Threads
<1>7. ASSUME NEW c \in Clients, NEW q \in Wqs, FlushWorkqueue(c, q) PROVE Ownership'
  <2>1. FlushInserts(c, q)
    BY <1>7 DEF FlushWorkqueue, FlushCpuWorkqueue, FlushInserts
  <2>11. \A y \in Threads, v \in Works : Queuer(y, v)' <=> Queuer(y, v)
    BY <1>7, WorkqueueAssumption
    DEF FlushWorkqueue, WakeWorker, InsertBarrier, FlushCpuWorkqueue, Goto, itemVars, Queuer,
        Queuing, TypeOK, Threads, Base
  <2>12. \A v \in Works : timer'[v] # "off" <=> timer[v] # "off"
    BY <1>7 DEF FlushWorkqueue, WakeWorker, InsertBarrier, FlushCpuWorkqueue, Goto, itemVars, TypeOK
  <2>13. \A p \in Wqs, v \in Works : On(p, v)' <=> On(p, v)
    BY <2>1, WorksStay
  <2>14. \A p \in Wqs, v \in Works : Taken(p, v)' <=> Taken(p, v)
    BY <1>7, WorkqueueAssumption
    DEF FlushWorkqueue, WakeWorker, InsertBarrier, FlushCpuWorkqueue, Goto, itemVars, Taken,
        TypeOK, Threads, Base
  <2>15. \A d \in Clients, v \in Works : Grabbed(d, v)' <=> Grabbed(d, v)
    BY <1>7, WorkqueueAssumption
    DEF FlushWorkqueue, WakeWorker, InsertBarrier, FlushCpuWorkqueue, Goto, itemVars, Grabbed,
        TypeOK, Threads, Base
  <2>16. \A v \in Works : pending'[v] = pending[v]
    BY <1>7 DEF FlushWorkqueue, WakeWorker, InsertBarrier, FlushCpuWorkqueue, Goto, itemVars, TypeOK
  <2> QED
    BY <2>11, <2>12, <2>13, <2>14, <2>15, <2>16, Still DEF SameWork
<1>8. ASSUME NEW c \in Clients, NEW q \in Wqs, DestroyWorkqueue(c, q) PROVE Ownership'
  <2>1. FlushInserts(c, q)
    BY <1>8 DEF DestroyWorkqueue, FlushCpuWorkqueue, FlushInserts
  <2>11. \A y \in Threads, v \in Works : Queuer(y, v)' <=> Queuer(y, v)
    BY <1>8, WorkqueueAssumption
    DEF DestroyWorkqueue, WakeWorker, InsertBarrier, FlushCpuWorkqueue, Goto, itemVars, Queuer,
        Queuing, TypeOK, Threads, Base
  <2>12. \A v \in Works : timer'[v] # "off" <=> timer[v] # "off"
    BY <1>8
    DEF DestroyWorkqueue, WakeWorker, InsertBarrier, FlushCpuWorkqueue, Goto, itemVars, TypeOK
  <2>13. \A p \in Wqs, v \in Works : On(p, v)' <=> On(p, v)
    BY <2>1, WorksStay
  <2>14. \A p \in Wqs, v \in Works : Taken(p, v)' <=> Taken(p, v)
    BY <1>8, WorkqueueAssumption
    DEF DestroyWorkqueue, WakeWorker, InsertBarrier, FlushCpuWorkqueue, Goto, itemVars, Taken,
        TypeOK, Threads, Base
  <2>15. \A d \in Clients, v \in Works : Grabbed(d, v)' <=> Grabbed(d, v)
    BY <1>8, WorkqueueAssumption
    DEF DestroyWorkqueue, WakeWorker, InsertBarrier, FlushCpuWorkqueue, Goto, itemVars, Grabbed,
        TypeOK, Threads, Base
  <2>16. \A v \in Works : pending'[v] = pending[v]
    BY <1>8
    DEF DestroyWorkqueue, WakeWorker, InsertBarrier, FlushCpuWorkqueue, Goto, itemVars, TypeOK
  <2> QED
    BY <2>11, <2>12, <2>13, <2>14, <2>15, <2>16, Still DEF SameWork
<1>9. ASSUME NEW c \in Clients, NEW w \in Works, CancelDelayedWork(c, w) PROVE Ownership'
  <2>1. w \in Works
    OBVIOUS
  <2>11. \A y \in Threads, v \in Works : Queuer(y, v)' <=> Queuer(y, v)
    BY <1>9, WorkqueueAssumption
    DEF CancelDelayedWork, Goto, queueVars, workerVars, Queuer, Queuing, TypeOK, Threads, Base
  <2>12. \A v \in Works : timer'[v] # "off" <=> timer[v] # "off" /\ v # w
    BY <1>9 DEF CancelDelayedWork, Goto, queueVars, workerVars, TypeOK
  <2>13. \A p \in Wqs, v \in Works : On(p, v)' <=> On(p, v)
    BY <1>9 DEF CancelDelayedWork, Goto, queueVars, workerVars, On
  <2>14. \A p \in Wqs, v \in Works : Taken(p, v)' <=> Taken(p, v)
    BY <1>9, WorkqueueAssumption
    DEF CancelDelayedWork, Goto, queueVars, workerVars, Taken, TypeOK, Threads, Base
  <2>15. \A d \in Clients, v \in Works : Grabbed(d, v)' <=> Grabbed(d, v) \/ (d = c /\ v = w)
    BY <1>9, WorkqueueAssumption
    DEF CancelDelayedWork, Goto, queueVars, workerVars, Grabbed, TypeOK, Threads, Base
  <2>16. \A v \in Works : pending'[v] = pending[v]
    BY <1>9 DEF CancelDelayedWork, Goto, queueVars, workerVars, TypeOK
  <2>17. At("timer", w, w)
    BY <2>1, <1>9 DEF CancelDelayedWork, At
  <2>18. \A v \in Works \ {w} : SameWork(v)
    BY <2>11, <2>12, <2>13, <2>14, <2>15, <2>16 DEF SameWork
  <2>19. /\ \A y \in Threads : Queuer(y, w) => FALSE
         /\ timer[w] # "off" => TRUE
         /\ \A p \in Wqs : (On(p, w) => FALSE) /\ (Taken(p, w) => FALSE)
         /\ \A d \in Clients : Grabbed(d, w) => FALSE
    BY <2>17, <2>1, Sole DEF Ownership, Kinds, Things, Threads
  <2>20. \A l \in Kinds, y \in Things : At(l, y, w)' <=> l = "grabbed" /\ y = c
    BY <2>1, <2>11, <2>12, <2>13, <2>14, <2>15, <2>16, <2>19 DEF At, Threads
  <2>21. pending'[w]
    BY <2>1, <2>16, <2>17 DEF Ownership, PendingMeans, Kinds, Things, Threads
  <2> QED
    BY <2>1, <2>18, <2>20, <2>21, Moved DEF Kinds, Things, Threads
<1>10. ASSUME NEW c \in Clients, NEW w \in Works, NEW t \in BOOLEAN, CancelWork(c, w, t)
       PROVE  Ownership'
  <2>9. \A v \in Works : SameWork(v)
    BY <1>10, WorkqueueAssumption
    DEF CancelWork, Goto, itemVars, queueVars, workerVars, SameWork, Queuer, Queuing, On, Taken,
        Grabbed, TypeOK, Threads, Base
  <2> QED
    BY <2>9, Still
<1>11. ASSUME NEW c \in Clients, FlushDone(c) PROVE Ownership'
  <2>9. \A v \in Works : SameWork(v)
    BY <1>11, WorkqueueAssumption
    DEF FlushDone, Goto, itemVars, queueVars, workerVars, localVars, SameWork, Queuer, Queuing, On,
        Taken, Grabbed, TypeOK, Threads, Base
  <2> QED
    BY <2>9, Still
<1>12. ASSUME NEW c \in Clients, FlushReturn(c) PROVE Ownership'
  <2>9. \A v \in Works : SameWork(v)
    BY <1>12, WorkqueueAssumption
    DEF FlushReturn, Goto, itemVars, queueVars, workerVars, SameWork, Queuer, Queuing, On, Taken,
        Grabbed, TypeOK, Threads, Base
  <2> QED
    BY <2>9, Still
<1>13. ASSUME NEW c \in Clients, KthreadStop(c) PROVE Ownership'
  <2>9. \A v \in Works : SameWork(v)
    BY <1>13, WorkqueueAssumption
    DEF KthreadStop, WakeWorker, Goto, itemVars, queueVars, localVars, SameWork, Queuer, Queuing,
        On, Taken, Grabbed, TypeOK, Threads, Base
  <2> QED
    BY <2>9, Still
<1>14. ASSUME NEW c \in Clients, DestroyReturn(c) PROVE Ownership'
  <2>9. \A v \in Works : SameWork(v)
    BY <1>14, WorkqueueAssumption
    DEF DestroyReturn, Goto, itemVars, queueVars, workerVars, SameWork, Queuer, Queuing, On, Taken,
        Grabbed, TypeOK, Threads, Base
  <2> QED
    BY <2>9, Still
<1>15. ASSUME NEW c \in Clients, DelTimer(c) PROVE Ownership'
  <2>30. CASE withTimer[c] /\ timer[arg[c]] = "armed"
    <3>1. PICK a \in Works : a = arg[c]
      BY <1>15, <2>30, Locals DEF DelTimer, Cancelling
    <3>11. \A y \in Threads, v \in Works : Queuer(y, v)' <=> Queuer(y, v)
      BY <1>15, <2>30, <3>1, WorkqueueAssumption
      DEF DelTimer, Goto, queueVars, workerVars, Queuer, Queuing, TypeOK, Threads, Base
    <3>12. \A v \in Works : timer'[v] # "off" <=> timer[v] # "off" /\ v # a
      BY <1>15, <2>30, <3>1 DEF DelTimer, Goto, queueVars, workerVars, TypeOK
    <3>13. \A p \in Wqs, v \in Works : On(p, v)' <=> On(p, v)
      BY <1>15, <2>30, <3>1 DEF DelTimer, Goto, queueVars, workerVars, On
    <3>14. \A p \in Wqs, v \in Works : Taken(p, v)' <=> Taken(p, v)
      BY <1>15, <2>30, <3>1, WorkqueueAssumption
      DEF DelTimer, Goto, queueVars, workerVars, Taken, TypeOK, Threads, Base
    <3>15. \A d \in Clients, v \in Works : Grabbed(d, v)' <=> Grabbed(d, v) \/ (d = c /\ v = a)
      BY <1>15, <2>30, <3>1, WorkqueueAssumption
      DEF DelTimer, Goto, queueVars, workerVars, Grabbed, TypeOK, Threads, Base
    <3>16. \A v \in Works : pending'[v] = pending[v]
      BY <1>15, <2>30, <3>1 DEF DelTimer, Goto, queueVars, workerVars, TypeOK
    <3>17. At("timer", a, a)
      BY <3>1, <1>15, <2>30, <3>1 DEF At
    <3>18. \A v \in Works \ {a} : SameWork(v)
      BY <3>11, <3>12, <3>13, <3>14, <3>15, <3>16 DEF SameWork
    <3>19. /\ \A y \in Threads : Queuer(y, a) => FALSE
           /\ timer[a] # "off" => TRUE
           /\ \A p \in Wqs : (On(p, a) => FALSE) /\ (Taken(p, a) => FALSE)
           /\ \A d \in Clients : Grabbed(d, a) => FALSE
      BY <3>17, <3>1, Sole DEF Ownership, Kinds, Things, Threads
    <3>20. \A l \in Kinds, y \in Things : At(l, y, a)' <=> l = "grabbed" /\ y = c
      BY <3>1, <3>11, <3>12, <3>13, <3>14, <3>15, <3>16, <3>19 DEF At, Threads
    <3>21. pending'[a]
      BY <3>1, <3>16, <3>17 DEF Ownership, PendingMeans, Kinds, Things, Threads
    <3> QED
      BY <3>1, <3>18, <3>20, <3>21, Moved DEF Kinds, Things, Threads
  <2>31. CASE ~(withTimer[c] /\ timer[arg[c]] = "armed")
    <3>9. \A v \in Works : SameWork(v)
      BY <1>15, <2>31, WorkqueueAssumption
      DEF DelTimer, Goto, queueVars, workerVars, SameWork, Queuer, Queuing, On, Taken, Grabbed,
          TypeOK, Threads, Base
    <3> QED
      BY <3>9, Still
  <2> QED
    BY <2>30, <2>31
<1>16. ASSUME NEW c \in Clients, TryToGrabPending(c) PROVE Ownership'
  <2>30. CASE ~pending[arg[c]]
    <3>1. PICK a \in Works : a = arg[c]
      BY <1>16, <2>30, Locals DEF TryToGrabPending, Cancelling
    <3>11. \A y \in Threads, v \in Works : Queuer(y, v)' <=> Queuer(y, v)
      BY <1>16, <2>30, <3>1, WorkqueueAssumption
      DEF TryToGrabPending, Goto, queueVars, workerVars, Queuer, Queuing, TypeOK, Threads, Base
    <3>12. \A v \in Works : timer'[v] # "off" <=> timer[v] # "off"
      BY <1>16, <2>30, <3>1 DEF TryToGrabPending, Goto, queueVars, workerVars, TypeOK
    <3>13. \A p \in Wqs, v \in Works : On(p, v)' <=> On(p, v)
      BY <1>16, <2>30, <3>1 DEF TryToGrabPending, Goto, queueVars, workerVars, On
    <3>14. \A p \in Wqs, v \in Works : Taken(p, v)' <=> Taken(p, v)
      BY <1>16, <2>30, <3>1, WorkqueueAssumption
      DEF TryToGrabPending, Goto, queueVars, workerVars, Taken, TypeOK, Threads, Base
    <3>15. \A d \in Clients, v \in Works : Grabbed(d, v)' <=> Grabbed(d, v) \/ (d = c /\ v = a)
      BY <1>16, <2>30, <3>1, WorkqueueAssumption
      DEF TryToGrabPending, Goto, queueVars, workerVars, Grabbed, TypeOK, Threads, Base
    <3>16. \A v \in Works : pending'[v] = IF v = a THEN TRUE ELSE pending[v]
      BY <1>16, <2>30, <3>1 DEF TryToGrabPending, Goto, queueVars, workerVars, TypeOK
    <3>17. ~pending[a]
      BY <3>1, <1>16, <2>30
    <3>18. \A v \in Works \ {a} : SameWork(v)
      BY <3>11, <3>12, <3>13, <3>14, <3>15, <3>16 DEF SameWork
    <3>19. /\ \A y \in Threads : Queuer(y, a) => FALSE
           /\ timer[a] # "off" => FALSE
           /\ \A p \in Wqs : (On(p, a) => FALSE) /\ (Taken(p, a) => FALSE)
           /\ \A d \in Clients : Grabbed(d, a) => FALSE
      BY <3>17, <3>1, Free DEF Ownership, Kinds, Things, Threads
    <3>20. \A l \in Kinds, y \in Things : At(l, y, a)' <=> l = "grabbed" /\ y = c
      BY <3>1, <3>11, <3>12, <3>13, <3>14, <3>15, <3>16, <3>19 DEF At, Threads
    <3>21. pending'[a]
      BY <3>1, <3>16
    <3> QED
      BY <3>1, <3>18, <3>20, <3>21, Moved DEF Kinds, Things, Threads
  <2>31. CASE pending[arg[c]]
    <3>9. \A v \in Works : SameWork(v)
      BY <1>16, <2>31, WorkqueueAssumption
      DEF TryToGrabPending, Goto, queueVars, workerVars, SameWork, Queuer, Queuing, On, Taken,
          Grabbed, TypeOK, Threads, Base
    <3> QED
      BY <3>9, Still
  <2> QED
    BY <2>30, <2>31
<1>17. ASSUME NEW c \in Clients, StealWork(c) PROVE Ownership'
  <2>30. CASE \E i \in 1..Len(worklist[tq[c]]) : data[arg[c]] = tq[c] /\ worklist[tq[c]][i] = arg[c]
    <3>1. PICK a \in Works, b \in Wqs : a = arg[c] /\ b = tq[c]
      BY <1>17, <2>30, Locals DEF StealWork, Cancelling
    <3>5. data[a] = b /\ \E q \in Wqs : a \in ToSet(worklist[q])
      <4>1. worklist[b] \in Seq(Entries)
        BY DEF TypeOK
      <4> QED
        BY <1>17, <2>30, <3>1, <4>1, ToSetElems
    <3>2. PICK i \in 1..Len(worklist[b]) : worklist[b][i] = a /\
               worklist' = [worklist EXCEPT ![b] = RemoveAt(@, i)]
      BY <1>17, <2>30, <3>1, <3>5 DEF StealWork
    <3>3. On(b, a) /\ \A p \in Wqs, f \in Entries : On(p, f)' <=> On(p, f) /\ ~(p = b /\ f = a)
      BY <3>2, WorkDeleted
    <3>4. ret' = [ret EXCEPT ![c] = 1]
      BY <1>17, <2>30, <3>1, <3>5 DEF StealWork
    <3>11. \A y \in Threads, v \in Works : Queuer(y, v)' <=> Queuer(y, v)
      BY <1>17, <2>30, <3>1, <3>2, <3>4, WorkqueueAssumption
      DEF StealWork, Goto, itemVars, workerVars, Queuer, Queuing, TypeOK, Threads, Base
    <3>12. \A v \in Works : timer'[v] # "off" <=> timer[v] # "off"
      BY <1>17, <2>30, <3>1, <3>2, <3>4 DEF StealWork, Goto, itemVars, workerVars, TypeOK
    <3>13. \A p \in Wqs, v \in Works : On(p, v)' <=> On(p, v) /\ ~(p = b /\ v = a)
      BY <3>3 DEF Entries
    <3>14. \A p \in Wqs, v \in Works : Taken(p, v)' <=> Taken(p, v)
      BY <1>17, <2>30, <3>1, <3>2, <3>4, WorkqueueAssumption
      DEF StealWork, Goto, itemVars, workerVars, Taken, TypeOK, Threads, Base
    <3>15. \A d \in Clients, v \in Works : Grabbed(d, v)' <=> Grabbed(d, v) \/ (d = c /\ v = a)
      BY <1>17, <2>30, <3>1, <3>2, <3>4, WorkqueueAssumption
      DEF StealWork, Goto, itemVars, workerVars, Grabbed, TypeOK, Threads, Base
    <3>16. \A v \in Works : pending'[v] = pending[v]
      BY <1>17, <2>30, <3>1, <3>2, <3>4 DEF StealWork, Goto, itemVars, workerVars, TypeOK
    <3>17. At("listed", b, a)
      BY <3>1, <3>3 DEF At
    <3>18. \A v \in Works \ {a} : SameWork(v)
      BY <3>11, <3>12, <3>13, <3>14, <3>15, <3>16 DEF SameWork
    <3>19. /\ \A y \in Threads : Queuer(y, a) => FALSE
           /\ timer[a] # "off" => FALSE
           /\ \A p \in Wqs : (On(p, a) => p = b) /\ (Taken(p, a) => FALSE)
           /\ \A d \in Clients : Grabbed(d, a) => FALSE
      BY <3>17, <3>1, Sole DEF Ownership, Kinds, Things, Threads
    <3>20. \A l \in Kinds, y \in Things : At(l, y, a)' <=> l = "grabbed" /\ y = c
      BY <3>1, <3>11, <3>12, <3>13, <3>14, <3>15, <3>16, <3>19 DEF At, Threads
    <3>21. pending'[a]
      BY <3>1, <3>16, <3>17 DEF Ownership, PendingMeans, Kinds, Things, Threads
    <3> QED
      BY <3>1, <3>18, <3>20, <3>21, Moved DEF Kinds, Things, Threads
  <2>31. CASE ~(\E i \in 1..Len(worklist[tq[c]]) : data[arg[c]] = tq[c] /\
             worklist[tq[c]][i] = arg[c])
    <3>1. /\ pc[c] = "c_steal" /\ pc' = [pc EXCEPT ![c] = "c_wait"] /\ ret[c] = -1
          /\ UNCHANGED <<pending, timer, arg, ret, worklist, current>>
      BY <1>17, <2>31 DEF StealWork, Goto, itemVars, workerVars, Shape, ClientShape
    <3>9. \A v \in Works : SameWork(v)
      BY <3>1, WorkqueueAssumption
      DEF SameWork, Queuer, Queuing, On, Taken, Grabbed, TypeOK, Threads
    <3> QED
      BY <3>9, Still
  <2> QED
    BY <2>30, <2>31
<1>18. ASSUME NEW c \in Clients, WaitOnWork(c) PROVE Ownership'
  <2>9. \A v \in Works : SameWork(v)
    BY <1>18, WorkqueueAssumption
    DEF WaitOnWork, Goto, itemVars, queueVars, workerVars, SameWork, Queuer, Queuing, On, Taken,
        Grabbed, TypeOK, Threads, Base
  <2> QED
    BY <2>9, Still
<1>19. ASSUME NEW c \in Clients, WaitOnCpuWork(c) PROVE Ownership'
  <2>1. tq[c] \in Wqs /\ WaitInserts(c, tq[c])
    BY <1>19, Locals DEF WaitOnCpuWork, WaitInserts
  <2>11. \A y \in Threads, v \in Works : Queuer(y, v)' <=> Queuer(y, v)
    BY <1>19, WorkqueueAssumption
    DEF WaitOnCpuWork, WakeWorker, InsertBarrier, Goto, itemVars, Queuer, Queuing, TypeOK, Threads,
        Base
  <2>12. \A v \in Works : timer'[v] # "off" <=> timer[v] # "off"
    BY <1>19 DEF WaitOnCpuWork, WakeWorker, InsertBarrier, Goto, itemVars, TypeOK
  <2>13. \A p \in Wqs, v \in Works : On(p, v)' <=> On(p, v)
    BY <2>1, WorksStay
  <2>14. \A p \in Wqs, v \in Works : Taken(p, v)' <=> Taken(p, v)
    BY <1>19, WorkqueueAssumption
    DEF WaitOnCpuWork, WakeWorker, InsertBarrier, Goto, itemVars, Taken, TypeOK, Threads, Base
  <2>15. \A d \in Clients, v \in Works : Grabbed(d, v)' <=> Grabbed(d, v)
    BY <1>19, WorkqueueAssumption
    DEF WaitOnCpuWork, WakeWorker, InsertBarrier, Goto, itemVars, Grabbed, TypeOK, Threads, Base
  <2>16. \A v \in Works : pending'[v] = pending[v]
    BY <1>19 DEF WaitOnCpuWork, WakeWorker, InsertBarrier, Goto, itemVars, TypeOK
  <2> QED
    BY <2>11, <2>12, <2>13, <2>14, <2>15, <2>16, Still DEF SameWork
<1>20. ASSUME NEW c \in Clients, WaitOnWorkDone(c) PROVE Ownership'
  <2>9. \A v \in Works : SameWork(v)
    BY <1>20, WorkqueueAssumption
    DEF WaitOnWorkDone, Goto, itemVars, queueVars, workerVars, localVars, SameWork, Queuer,
        Queuing, On, Taken, Grabbed, TypeOK, Threads, Base
  <2> QED
    BY <2>9, Still
<1>21. ASSUME NEW c \in Clients, CancelNext(c) PROVE Ownership'
  <2>1. ret[c] \in {-1, 0, 1}
    BY DEF TypeOK
  <2>30. CASE ret[c] \in {0, 1}
    <3>1. PICK a \in Works : a = arg[c] /\ Grabbed(c, a)
      BY <1>21, <2>30, Locals DEF CancelNext, Cancelling, Grabbed, TypeOK
    <3>2. pending' = [pending EXCEPT ![a] = FALSE]
      BY <1>21, <2>30, <3>1 DEF CancelNext
    <3>11. \A y \in Threads, v \in Works : Queuer(y, v)' <=> Queuer(y, v)
      BY <1>21, <2>30, <3>1, <3>2, WorkqueueAssumption
      DEF CancelNext, Goto, queueVars, workerVars, Queuer, Queuing, TypeOK, Threads, Base
    <3>12. \A v \in Works : timer'[v] # "off" <=> timer[v] # "off"
      BY <1>21, <2>30, <3>1, <3>2 DEF CancelNext, Goto, queueVars, workerVars, TypeOK
    <3>13. \A p \in Wqs, v \in Works : On(p, v)' <=> On(p, v)
      BY <1>21, <2>30, <3>1, <3>2 DEF CancelNext, Goto, queueVars, workerVars, On
    <3>14. \A p \in Wqs, v \in Works : Taken(p, v)' <=> Taken(p, v)
      BY <1>21, <2>30, <3>1, <3>2, WorkqueueAssumption
      DEF CancelNext, Goto, queueVars, workerVars, Taken, TypeOK, Threads, Base
    <3>15. \A d \in Clients, v \in Works : Grabbed(d, v)' <=> Grabbed(d, v) /\ ~(d = c /\ v = a)
      BY <1>21, <2>30, <3>1, <3>2, WorkqueueAssumption
      DEF CancelNext, Goto, queueVars, workerVars, Grabbed, TypeOK, Threads, Base
    <3>16. \A v \in Works : pending'[v] = IF v = a THEN FALSE ELSE pending[v]
      BY <1>21, <2>30, <3>1, <3>2 DEF CancelNext, Goto, queueVars, workerVars, TypeOK
    <3>17. At("grabbed", c, a)
      BY <3>1, <3>1 DEF At
    <3>18. \A v \in Works \ {a} : SameWork(v)
      BY <3>11, <3>12, <3>13, <3>14, <3>15, <3>16 DEF SameWork
    <3>19. /\ \A y \in Threads : Queuer(y, a) => FALSE
           /\ timer[a] # "off" => FALSE
           /\ \A p \in Wqs : (On(p, a) => FALSE) /\ (Taken(p, a) => FALSE)
           /\ \A d \in Clients : Grabbed(d, a) => d = c
      BY <3>17, <3>1, Sole DEF Ownership, Kinds, Things, Threads
    <3>20. \A l \in Kinds, y \in Things : ~At(l, y, a)'
      BY <3>1, <3>11, <3>12, <3>13, <3>14, <3>15, <3>16, <3>19 DEF At, Threads
    <3> QED
      BY <3>1, <3>16, <3>18, <3>20, Released
  <2>31. CASE ret[c] = -1
    <3>11. \A y \in Threads, v \in Works : Queuer(y, v)' <=> Queuer(y, v)
      BY <1>21, <2>31, WorkqueueAssumption
      DEF CancelNext, Goto, queueVars, workerVars, Queuer, Queuing, TypeOK, Threads, Base
    <3>12. \A v \in Works : timer'[v] # "off" <=> timer[v] # "off"
      BY <1>21, <2>31 DEF CancelNext, Goto, queueVars, workerVars, TypeOK
    <3>13. \A p \in Wqs, v \in Works : On(p, v)' <=> On(p, v)
      BY <1>21, <2>31 DEF CancelNext, Goto, queueVars, workerVars, On
    <3>14. \A p \in Wqs, v \in Works : Taken(p, v)' <=> Taken(p, v)
      BY <1>21, <2>31, WorkqueueAssumption
      DEF CancelNext, Goto, queueVars, workerVars, Taken, TypeOK, Threads, Base
    <3>15. \A d \in Clients, v \in Works : Grabbed(d, v)' <=> Grabbed(d, v)
      BY <1>21, <2>31, WorkqueueAssumption
      DEF CancelNext, Goto, queueVars, workerVars, Grabbed, TypeOK, Threads, Base
    <3>16. \A v \in Works : pending'[v] = pending[v]
      BY <1>21, <2>31 DEF CancelNext, Goto, queueVars, workerVars, TypeOK
    <3> QED
      BY <3>11, <3>12, <3>13, <3>14, <3>15, <3>16, Still DEF SameWork
  <2> QED
    BY <2>1, <2>30, <2>31
<1>22. ASSUME NEW c \in Clients, WorkClearPending(c) PROVE Ownership'
  <2>1. PICK a \in Works : a = arg[c] /\ Grabbed(c, a)
    BY <1>22, Locals DEF WorkClearPending, Cancelling, Grabbed, TypeOK
  <2>11. \A y \in Threads, v \in Works : Queuer(y, v)' <=> Queuer(y, v)
    BY <1>22, <2>1, WorkqueueAssumption
    DEF WorkClearPending, Goto, queueVars, workerVars, Queuer, Queuing, TypeOK, Threads, Base
  <2>12. \A v \in Works : timer'[v] # "off" <=> timer[v] # "off"
    BY <1>22, <2>1 DEF WorkClearPending, Goto, queueVars, workerVars, TypeOK
  <2>13. \A p \in Wqs, v \in Works : On(p, v)' <=> On(p, v)
    BY <1>22, <2>1 DEF WorkClearPending, Goto, queueVars, workerVars, On
  <2>14. \A p \in Wqs, v \in Works : Taken(p, v)' <=> Taken(p, v)
    BY <1>22, <2>1, WorkqueueAssumption
    DEF WorkClearPending, Goto, queueVars, workerVars, Taken, TypeOK, Threads, Base
  <2>15. \A d \in Clients, v \in Works : Grabbed(d, v)' <=> Grabbed(d, v) /\ ~(d = c /\ v = a)
    BY <1>22, <2>1, WorkqueueAssumption
    DEF WorkClearPending, Goto, queueVars, workerVars, Grabbed, TypeOK, Threads, Base
  <2>16. \A v \in Works : pending'[v] = IF v = a THEN FALSE ELSE pending[v]
    BY <1>22, <2>1 DEF WorkClearPending, Goto, queueVars, workerVars, TypeOK
  <2>17. At("grabbed", c, a)
    BY <2>1, <2>1 DEF At
  <2>18. \A v \in Works \ {a} : SameWork(v)
    BY <2>11, <2>12, <2>13, <2>14, <2>15, <2>16 DEF SameWork
  <2>19. /\ \A y \in Threads : Queuer(y, a) => FALSE
         /\ timer[a] # "off" => FALSE
         /\ \A p \in Wqs : (On(p, a) => FALSE) /\ (Taken(p, a) => FALSE)
         /\ \A d \in Clients : Grabbed(d, a) => d = c
    BY <2>17, <2>1, Sole DEF Ownership, Kinds, Things, Threads
  <2>20. \A l \in Kinds, y \in Things : ~At(l, y, a)'
    BY <2>1, <2>11, <2>12, <2>13, <2>14, <2>15, <2>16, <2>19 DEF At, Threads
  <2> QED
    BY <2>1, <2>16, <2>18, <2>20, Released
<1>23. ASSUME NEW q \in Wqs, PrepareToWait(q) PROVE Ownership'
  <2>9. \A v \in Works : SameWork(v)
    BY <1>23, WorkqueueAssumption
    DEF PrepareToWait, Goto, itemVars, queueVars, localVars, SameWork, Queuer, Queuing, On, Taken,
        Grabbed, TypeOK, Threads, Base
  <2> QED
    BY <2>9, Still
<1>24. ASSUME NEW q \in Wqs, CheckWork(q) PROVE Ownership'
  <2>9. \A v \in Works : SameWork(v)
    BY <1>24, WorkqueueAssumption
    DEF CheckWork, Goto, itemVars, queueVars, workerVars, localVars, SameWork, Queuer, Queuing, On,
        Taken, Grabbed, TypeOK, Threads, Base
  <2> QED
    BY <2>9, Still
<1>25. ASSUME NEW q \in Wqs, Schedule(q) PROVE Ownership'
  <2>9. \A v \in Works : SameWork(v)
    BY <1>25, WorkqueueAssumption
    DEF Schedule, Goto, itemVars, queueVars, workerVars, localVars, SameWork, Queuer, Queuing, On,
        Taken, Grabbed, TypeOK, Threads, Base
  <2> QED
    BY <2>9, Still
<1>26. ASSUME NEW q \in Wqs, FinishWait(q) PROVE Ownership'
  <2>9. \A v \in Works : SameWork(v)
    BY <1>26, WorkqueueAssumption
    DEF FinishWait, WakeWorker, Goto, itemVars, queueVars, localVars, SameWork, Queuer, Queuing,
        On, Taken, Grabbed, TypeOK, Threads, Base
  <2> QED
    BY <2>9, Still
<1>27. ASSUME NEW q \in Wqs, RunWorkqueue(q) PROVE Ownership'
  <2>1. worklist[q] # <<>> => Head(worklist[q]) \in Works \cup Clients
    BY ListTypes DEF Entries
  <2>30. CASE worklist[q] # <<>> /\ Head(worklist[q]) \in Works
    <3>1. PICK h \in Works : h = Head(worklist[q])
      BY <1>27, <2>30
    <3>2. /\ worklist' = [worklist EXCEPT ![q] = Tail(@)] /\ current' = [current EXCEPT ![q] = h]
          /\ pc' = [pc EXCEPT ![q] = "clear"] /\ pc[q] \in {"run", "end"}
          /\ UNCHANGED <<pending, timer, arg, ret>>
      BY <1>27, <2>30, <3>1 DEF RunWorkqueue, Goto, itemVars, localVars
    <3>3. On(q, h) /\ \A p \in Wqs, f \in Entries : On(p, f)' <=> On(p, f) /\ ~(p = q /\ f = h)
      BY <1>27, <2>30, <3>1, <3>2, HeadDeleted
    <3>11. \A y \in Threads, v \in Works : Queuer(y, v)' <=> Queuer(y, v)
      BY <1>27, <2>30, <3>1, <3>2, WorkqueueAssumption
      DEF RunWorkqueue, Goto, itemVars, workerVars, localVars, Queuer, Queuing, TypeOK, Threads,
          Base
    <3>12. \A v \in Works : timer'[v] # "off" <=> timer[v] # "off"
      BY <1>27, <2>30, <3>1, <3>2 DEF RunWorkqueue, Goto, itemVars, workerVars, localVars, TypeOK
    <3>13. \A p \in Wqs, v \in Works : On(p, v)' <=> On(p, v) /\ ~(p = q /\ v = h)
      BY <3>3 DEF Entries
    <3>14. \A p \in Wqs, v \in Works : Taken(p, v)' <=> Taken(p, v) \/ (p = q /\ v = h)
      BY <1>27, <2>30, <3>1, <3>2, WorkqueueAssumption
      DEF RunWorkqueue, Goto, itemVars, workerVars, localVars, Taken, TypeOK, Threads, Base
    <3>15. \A d \in Clients, v \in Works : Grabbed(d, v)' <=> Grabbed(d, v)
      BY <1>27, <2>30, <3>1, <3>2, WorkqueueAssumption
      DEF RunWorkqueue, Goto, itemVars, workerVars, localVars, Grabbed, TypeOK, Threads, Base
    <3>16. \A v \in Works : pending'[v] = pending[v]
      BY <1>27, <2>30, <3>1, <3>2 DEF RunWorkqueue, Goto, itemVars, workerVars, localVars, TypeOK
    <3>17. At("listed", q, h)
      BY <3>1, <3>3 DEF At
    <3>18. \A v \in Works \ {h} : SameWork(v)
      BY <3>11, <3>12, <3>13, <3>14, <3>15, <3>16 DEF SameWork
    <3>19. /\ \A y \in Threads : Queuer(y, h) => FALSE
           /\ timer[h] # "off" => FALSE
           /\ \A p \in Wqs : (On(p, h) => p = q) /\ (Taken(p, h) => FALSE)
           /\ \A d \in Clients : Grabbed(d, h) => FALSE
      BY <3>17, <3>1, Sole DEF Ownership, Kinds, Things, Threads
    <3>20. \A l \in Kinds, y \in Things : At(l, y, h)' <=> l = "taken" /\ y = q
      BY <3>1, <3>11, <3>12, <3>13, <3>14, <3>15, <3>16, <3>19 DEF At, Threads
    <3>21. pending'[h]
      BY <3>1, <3>16, <3>17 DEF Ownership, PendingMeans, Kinds, Things, Threads
    <3> QED
      BY <3>1, <3>18, <3>20, <3>21, Moved DEF Kinds, Things, Threads
  <2>31. CASE worklist[q] # <<>> /\ Head(worklist[q]) \in Clients
    <3>1. PICK h \in Clients : h = Head(worklist[q])
      BY <1>27, <2>31
    <3>2. /\ worklist' = [worklist EXCEPT ![q] = Tail(@)] /\ current' = [current EXCEPT ![q] = h]
          /\ pc' = [pc EXCEPT ![q] = "clear"] /\ pc[q] \in {"run", "end"}
          /\ UNCHANGED <<pending, timer, arg, ret>>
      BY <1>27, <2>31, <3>1 DEF RunWorkqueue, Goto, itemVars, localVars
    <3>3. \A p \in Wqs, v \in Works : On(p, v)' <=> On(p, v)
      BY <1>27, <2>31, <3>1, <3>2, HeadDeleted, WorkqueueAssumption DEF Entries
    <3>4. \A p \in Wqs, v \in Works : Taken(p, v)' <=> Taken(p, v)
      BY <3>1, <3>2, WorkqueueAssumption DEF Taken, TypeOK, Threads
    <3>5. \A v \in Works : SameWork(v)
      BY <3>2, <3>3, <3>4, WorkqueueAssumption
      DEF SameWork, Queuer, Queuing, Grabbed, TypeOK, Threads
    <3> QED
      BY <3>5, Still
  <2>32. CASE worklist[q] = <<>>
    <3>9. \A v \in Works : SameWork(v)
      BY <1>27, <2>32, WorkqueueAssumption
      DEF RunWorkqueue, Goto, itemVars, workerVars, localVars, SameWork, Queuer, Queuing, On,
          Taken, Grabbed, TypeOK, Threads, Base
    <3> QED
      BY <3>9, Still
  <2> QED
    BY <2>1, <2>30, <2>31, <2>32
<1>28. ASSUME NEW q \in Wqs, ClearPending(q) PROVE Ownership'
  <2>30. CASE current[q] \in Works
    <3>1. PICK h \in Works : h = current[q] /\ Taken(q, h)
      BY <1>28, <2>30 DEF ClearPending, Taken
    <3>11. \A y \in Threads, v \in Works : Queuer(y, v)' <=> Queuer(y, v)
      BY <1>28, <2>30, <3>1, WorkqueueAssumption
      DEF ClearPending, Goto, workerVars, localVars, Queuer, Queuing, TypeOK, Threads, Base
    <3>12. \A v \in Works : timer'[v] # "off" <=> timer[v] # "off"
      BY <1>28, <2>30, <3>1 DEF ClearPending, Goto, workerVars, localVars, TypeOK
    <3>13. \A p \in Wqs, v \in Works : On(p, v)' <=> On(p, v)
      BY <1>28, <2>30, <3>1 DEF ClearPending, Goto, workerVars, localVars, On
    <3>14. \A p \in Wqs, v \in Works : Taken(p, v)' <=> Taken(p, v) /\ ~(p = q /\ v = h)
      BY <1>28, <2>30, <3>1, WorkqueueAssumption
      DEF ClearPending, Goto, workerVars, localVars, Taken, TypeOK, Threads, Base
    <3>15. \A d \in Clients, v \in Works : Grabbed(d, v)' <=> Grabbed(d, v)
      BY <1>28, <2>30, <3>1, WorkqueueAssumption
      DEF ClearPending, Goto, workerVars, localVars, Grabbed, TypeOK, Threads, Base
    <3>16. \A v \in Works : pending'[v] = IF v = h THEN FALSE ELSE pending[v]
      BY <1>28, <2>30, <3>1 DEF ClearPending, Goto, workerVars, localVars, TypeOK
    <3>17. At("taken", q, h)
      BY <3>1, <3>1 DEF At
    <3>18. \A v \in Works \ {h} : SameWork(v)
      BY <3>11, <3>12, <3>13, <3>14, <3>15, <3>16 DEF SameWork
    <3>19. /\ \A y \in Threads : Queuer(y, h) => FALSE
           /\ timer[h] # "off" => FALSE
           /\ \A p \in Wqs : (On(p, h) => FALSE) /\ (Taken(p, h) => p = q)
           /\ \A d \in Clients : Grabbed(d, h) => FALSE
      BY <3>17, <3>1, Sole DEF Ownership, Kinds, Things, Threads
    <3>20. \A l \in Kinds, y \in Things : ~At(l, y, h)'
      BY <3>1, <3>11, <3>12, <3>13, <3>14, <3>15, <3>16, <3>19 DEF At, Threads
    <3> QED
      BY <3>1, <3>16, <3>18, <3>20, Released
  <2>31. CASE current[q] \notin Works
    <3>9. \A v \in Works : SameWork(v)
      BY <1>28, <2>31, WorkqueueAssumption
      DEF ClearPending, Goto, workerVars, localVars, SameWork, Queuer, Queuing, On, Taken, Grabbed,
          TypeOK, Threads, Base
    <3> QED
      BY <3>9, Still
  <2> QED
    BY <2>30, <2>31
<1>29. ASSUME NEW q \in Wqs, BarrierFunc(q) PROVE Ownership'
  <2>9. \A v \in Works : SameWork(v)
    BY <1>29, WorkqueueAssumption
    DEF BarrierFunc, Return, Goto, itemVars, workerVars, localVars, SameWork, Queuer, Queuing, On,
        Taken, Grabbed, TypeOK, Threads, Base
  <2> QED
    BY <2>9, Still
<1>30. ASSUME NEW q \in Wqs, CallbackReturn(q) PROVE Ownership'
  <2>9. \A v \in Works : SameWork(v)
    BY <1>30, WorkqueueAssumption
    DEF CallbackReturn, Return, Goto, itemVars, workerVars, localVars, SameWork, Queuer, Queuing,
        On, Taken, Grabbed, TypeOK, Threads, Base
  <2> QED
    BY <2>9, Still
<1>31. ASSUME NEW q \in Wqs, SelfFlush(q) PROVE Ownership'
  <2>9. \A v \in Works : SameWork(v)
    BY <1>31, WorkqueueAssumption
    DEF SelfFlush, Goto, itemVars, workerVars, localVars, SameWork, Queuer, Queuing, On, Taken,
        Grabbed, TypeOK, Threads, Base
  <2> QED
    BY <2>9, Still
<1>32. ASSUME NEW w \in Works, TimerExpire(w) PROVE Ownership'
  <2>9. \A v \in Works : SameWork(v)
    BY <1>32, WorkqueueAssumption
    DEF TimerExpire, queueVars, workerVars, localVars, SameWork, Queuer, Queuing, On, Taken,
        Grabbed, TypeOK, Threads, Base
  <2> QED
    BY <2>9, Still
<1>33. ASSUME NEW w \in Works, DelayedWorkTimerFn(w) PROVE Ownership'
  <2>1. PICK b \in Wqs : b = data[w]
    BY <1>33 DEF DelayedWorkTimerFn, DataSet, DataIsRight, TypeOK
  <2>11. \A y \in Threads, v \in Works : Queuer(y, v)' <=> Queuer(y, v)
    BY <1>33, WorkqueueAssumption
    DEF DelayedWorkTimerFn, WakeWorker, InsertWork, localVars, Queuer, Queuing, TypeOK, Threads,
        Base
  <2>12. \A v \in Works : timer'[v] # "off" <=> timer[v] # "off" /\ v # w
    BY <1>33 DEF DelayedWorkTimerFn, WakeWorker, InsertWork, localVars, TypeOK
  <2>13. \A p \in Wqs, v \in Works : On(p, v)' <=> On(p, v) \/ (p = b /\ v = w)
    BY <1>33, <2>1, WorkInserted DEF DelayedWorkTimerFn, Entries
  <2>14. \A p \in Wqs, v \in Works : Taken(p, v)' <=> Taken(p, v)
    BY <1>33, WorkqueueAssumption
    DEF DelayedWorkTimerFn, WakeWorker, InsertWork, localVars, Taken, TypeOK, Threads, Base
  <2>15. \A d \in Clients, v \in Works : Grabbed(d, v)' <=> Grabbed(d, v)
    BY <1>33, WorkqueueAssumption
    DEF DelayedWorkTimerFn, WakeWorker, InsertWork, localVars, Grabbed, TypeOK, Threads, Base
  <2>16. \A v \in Works : pending'[v] = pending[v]
    BY <1>33 DEF DelayedWorkTimerFn, WakeWorker, InsertWork, localVars, TypeOK
  <2>17. At("timer", w, w)
    BY <2>1, <1>33 DEF DelayedWorkTimerFn, At
  <2>18. \A v \in Works \ {w} : SameWork(v)
    BY <2>11, <2>12, <2>13, <2>14, <2>15, <2>16 DEF SameWork
  <2>19. /\ \A y \in Threads : Queuer(y, w) => FALSE
         /\ timer[w] # "off" => TRUE
         /\ \A p \in Wqs : (On(p, w) => FALSE) /\ (Taken(p, w) => FALSE)
         /\ \A d \in Clients : Grabbed(d, w) => FALSE
    BY <2>17, <2>1, Sole DEF Ownership, Kinds, Things, Threads
  <2>20. \A l \in Kinds, y \in Things : At(l, y, w)' <=> l = "listed" /\ y = b
    BY <2>1, <2>11, <2>12, <2>13, <2>14, <2>15, <2>16, <2>19 DEF At, Threads
  <2>21. pending'[w]
    BY <2>1, <2>16, <2>17 DEF Ownership, PendingMeans, Kinds, Things, Threads
  <2> QED
    BY <2>1, <2>18, <2>20, <2>21, Moved DEF Kinds, Things, Threads
<1> QED
  BY <1>1, <1>2, <1>3, <1>4, <1>5, <1>6, <1>7, <1>8, <1>9, <1>10,
     <1>11, <1>12, <1>13, <1>14, <1>15, <1>16, <1>17, <1>18, <1>19, <1>20,
     <1>21, <1>22, <1>23, <1>24, <1>25, <1>26, <1>27, <1>28, <1>29, <1>30,
     <1>31, <1>32, <1>33
  DEF Next, Queueing, Insertion, ClientCall, ClientStep, WorkerStep, TimerStep

-----------------------------------------------------------------------------
(* A barrier whose task does not wait for it is nowhere.                   *)
LEMMA Nowhere ==
  ASSUME BarrierOnStack, NEW c \in Clients, pc[c] \notin Waiting
  PROVE  \A q \in Wqs : ~On(q, c) /\ ~Taken(q, c) /\ ~Inside(q, c)
BY DEF BarrierOnStack, Waiting, On, Taken, Inside

LEMMA BarrierListed ==
  ASSUME TypeOK, Listed, BarrierOnStack, NEW c \in Clients, NEW q \in Wqs, pc[c] \notin Waiting,
         FlushInserts(c, q) \/ WaitInserts(c, q)
  PROVE  Listed'
<1>1. ~On(q, c)
  BY Nowhere
<1>2. CASE UNCHANGED worklist
  BY <1>2 DEF Listed
<1>3. ASSUME NEW tail \in BOOLEAN, InsertBarrier(c, q, tail) PROVE Listed'
  BY <1>1, <1>3, BarrierInserted
<1> QED
  BY <1>2, <1>3 DEF FlushInserts, WaitInserts

(* No entry is linked twice.                                               *)
LEMMA ListedStep ==
  ASSUME TypeOK, Shape, Listed, Ownership, DataSet, Barriers, [Next]_vars
  PROVE  Listed'
<1>1. CASE UNCHANGED vars
  BY <1>1 DEF vars, Listed
<1>2. ASSUME NEW x \in Threads, NEW w \in Works, NEW q \in Wqs, QueueWork(x, w, q) PROVE Listed'
  BY <1>2 DEF QueueWork, MayQueue, Goto, queueVars, workerVars, Listed
<1>3. ASSUME NEW x \in Threads, NEW w \in Works, NEW q \in Wqs, QueueDelayedWork(x, w, q)
      PROVE  Listed'
  BY <1>3 DEF QueueDelayedWork, MayQueue, Goto, queueVars, workerVars, Listed
<1>4. ASSUME NEW x \in Threads, QueueWorkInsert(x) PROVE Listed'
  <2>1. PICK a \in Works, b \in Wqs : a = arg[x] /\ b = tq[x] /\ Queuer(x, a)
    BY <1>4, Locals DEF QueueWorkInsert, Queuing, Queuer
  <2>2. At("queueing", x, a)
    BY <2>1 DEF At
  <2>3. ~On(b, a)
    BY <2>1, <2>2, Sole DEF Ownership, Kinds, Things, Threads
  <2> QED
    BY <1>4, <2>1, <2>3, WorkInserted DEF QueueWorkInsert
<1>5. ASSUME NEW x \in Threads, SetWqData(x) PROVE Listed'
  BY <1>5 DEF SetWqData, Goto, queueVars, workerVars, localVars, Listed
<1>6. ASSUME NEW x \in Threads, AddTimer(x) PROVE Listed'
  BY <1>6 DEF AddTimer, Goto, queueVars, workerVars, Listed
<1>7. ASSUME NEW c \in Clients, NEW q \in Wqs, FlushWorkqueue(c, q) PROVE Listed'
  <2>1. FlushInserts(c, q) /\ pc[c] \notin Waiting
    BY <1>7 DEF FlushWorkqueue, FlushCpuWorkqueue, FlushInserts, Waiting
  <2> QED
    BY <2>1, BarrierListed DEF Barriers
<1>8. ASSUME NEW c \in Clients, NEW q \in Wqs, DestroyWorkqueue(c, q) PROVE Listed'
  <2>1. FlushInserts(c, q) /\ pc[c] \notin Waiting
    BY <1>8 DEF DestroyWorkqueue, FlushCpuWorkqueue, FlushInserts, Waiting
  <2> QED
    BY <2>1, BarrierListed DEF Barriers
<1>9. ASSUME NEW c \in Clients, NEW w \in Works, CancelDelayedWork(c, w) PROVE Listed'
  BY <1>9 DEF CancelDelayedWork, Goto, queueVars, workerVars, Listed
<1>10. ASSUME NEW c \in Clients, NEW w \in Works, NEW t \in BOOLEAN, CancelWork(c, w, t)
       PROVE  Listed'
  BY <1>10 DEF CancelWork, Goto, itemVars, queueVars, workerVars, Listed
<1>11. ASSUME NEW c \in Clients, FlushDone(c) PROVE Listed'
  BY <1>11 DEF FlushDone, Goto, itemVars, queueVars, workerVars, localVars, Listed
<1>12. ASSUME NEW c \in Clients, FlushReturn(c) PROVE Listed'
  BY <1>12 DEF FlushReturn, Goto, itemVars, queueVars, workerVars, Listed
<1>13. ASSUME NEW c \in Clients, KthreadStop(c) PROVE Listed'
  BY <1>13 DEF KthreadStop, WakeWorker, Goto, itemVars, queueVars, localVars, Listed
<1>14. ASSUME NEW c \in Clients, DestroyReturn(c) PROVE Listed'
  BY <1>14 DEF DestroyReturn, Goto, itemVars, queueVars, workerVars, Listed
<1>15. ASSUME NEW c \in Clients, DelTimer(c) PROVE Listed'
  BY <1>15 DEF DelTimer, Goto, queueVars, workerVars, Listed
<1>16. ASSUME NEW c \in Clients, TryToGrabPending(c) PROVE Listed'
  BY <1>16 DEF TryToGrabPending, Goto, queueVars, workerVars, Listed
<1>17. ASSUME NEW c \in Clients, StealWork(c) PROVE Listed'
  <2>1. PICK a \in Works, b \in Wqs : a = arg[c] /\ b = tq[c]
    BY <1>17, Locals DEF StealWork, Cancelling
  <2>2. CASE UNCHANGED worklist
    BY <2>2 DEF Listed
  <2>3. ASSUME NEW i \in 1..Len(worklist[b]), worklist[b][i] = a,
               worklist' = [worklist EXCEPT ![b] = RemoveAt(@, i)]
        PROVE  Listed'
    BY <2>3, WorkDeleted
  <2> QED
    BY <1>17, <2>1, <2>2, <2>3 DEF StealWork
<1>18. ASSUME NEW c \in Clients, WaitOnWork(c) PROVE Listed'
  BY <1>18 DEF WaitOnWork, Goto, itemVars, queueVars, workerVars, Listed
<1>19. ASSUME NEW c \in Clients, WaitOnCpuWork(c) PROVE Listed'
  <2>1. PICK b \in Wqs : b = tq[c] /\ WaitInserts(c, b) /\ pc[c] \notin Waiting
    BY <1>19, Locals DEF WaitOnCpuWork, WaitInserts, Waiting
  <2> QED
    BY <2>1, BarrierListed DEF Barriers
<1>20. ASSUME NEW c \in Clients, WaitOnWorkDone(c) PROVE Listed'
  BY <1>20 DEF WaitOnWorkDone, Goto, itemVars, queueVars, workerVars, localVars, Listed
<1>21. ASSUME NEW c \in Clients, CancelNext(c) PROVE Listed'
  BY <1>21 DEF CancelNext, Goto, queueVars, workerVars, Listed
<1>22. ASSUME NEW c \in Clients, WorkClearPending(c) PROVE Listed'
  BY <1>22 DEF WorkClearPending, Goto, queueVars, workerVars, Listed
<1>23. ASSUME NEW q \in Wqs, PrepareToWait(q) PROVE Listed'
  BY <1>23 DEF PrepareToWait, Goto, itemVars, queueVars, localVars, Listed
<1>24. ASSUME NEW q \in Wqs, CheckWork(q) PROVE Listed'
  BY <1>24 DEF CheckWork, Goto, itemVars, queueVars, workerVars, localVars, Listed
<1>25. ASSUME NEW q \in Wqs, Schedule(q) PROVE Listed'
  BY <1>25 DEF Schedule, Goto, itemVars, queueVars, workerVars, localVars, Listed
<1>26. ASSUME NEW q \in Wqs, FinishWait(q) PROVE Listed'
  BY <1>26 DEF FinishWait, WakeWorker, Goto, itemVars, queueVars, localVars, Listed
<1>27. ASSUME NEW q \in Wqs, RunWorkqueue(q) PROVE Listed'
  <2>1. CASE worklist[q] = <<>>
    BY <1>27, <2>1 DEF RunWorkqueue, Listed
  <2>2. CASE worklist[q] # <<>>
    BY <1>27, <2>2, HeadDeleted DEF RunWorkqueue
  <2> QED
    BY <2>1, <2>2
<1>28. ASSUME NEW q \in Wqs, ClearPending(q) PROVE Listed'
  BY <1>28 DEF ClearPending, Goto, workerVars, localVars, Listed
<1>29. ASSUME NEW q \in Wqs, BarrierFunc(q) PROVE Listed'
  BY <1>29 DEF BarrierFunc, Return, Goto, itemVars, workerVars, localVars, Listed
<1>30. ASSUME NEW q \in Wqs, CallbackReturn(q) PROVE Listed'
  BY <1>30 DEF CallbackReturn, Return, Goto, itemVars, workerVars, localVars, Listed
<1>31. ASSUME NEW q \in Wqs, SelfFlush(q) PROVE Listed'
  BY <1>31 DEF SelfFlush, Goto, itemVars, workerVars, localVars, Listed
<1>32. ASSUME NEW w \in Works, TimerExpire(w) PROVE Listed'
  BY <1>32 DEF TimerExpire, queueVars, workerVars, localVars, Listed
<1>33. ASSUME NEW w \in Works, DelayedWorkTimerFn(w) PROVE Listed'
  <2>1. PICK b \in Wqs : b = data[w]
    BY <1>33 DEF DelayedWorkTimerFn, DataSet, DataIsRight, TypeOK
  <2>2. At("timer", w, w)
    BY <1>33 DEF DelayedWorkTimerFn, At
  <2>3. ~On(b, w)
    BY <2>1, <2>2, Sole DEF Ownership, Kinds, Things
  <2> QED
    BY <1>33, <2>1, <2>3, WorkInserted DEF DelayedWorkTimerFn
<1> QED
  BY <1>1, <1>2, <1>3, <1>4, <1>5, <1>6, <1>7, <1>8, <1>9, <1>10,
     <1>11, <1>12, <1>13, <1>14, <1>15, <1>16, <1>17, <1>18, <1>19, <1>20,
     <1>21, <1>22, <1>23, <1>24, <1>25, <1>26, <1>27, <1>28, <1>29, <1>30,
     <1>31, <1>32, <1>33
  DEF Next, Queueing, Insertion, ClientCall, ClientStep, WorkerStep, TimerStep

(* The cwq of a work is right as long as no work is listed or timed anew.  *)
LEMMA DataKept ==
  ASSUME DataSet, UNCHANGED data,
         \A p \in Wqs, v \in Works : On(p, v)' \/ Taken(p, v)' => On(p, v) \/ Taken(p, v),
         \A v \in Works : timer'[v] # "off" => timer[v] # "off",
         \A y \in Threads : pc'[y] = "add" => pc[y] = "add" /\ arg'[y] = arg[y] /\ tq'[y] = tq[y]
  PROVE  DataSet'
BY DEF DataSet, DataIsRight, On, Taken

(* The cwq of every work stays right.                                      *)
LEMMA DataSetStep ==
  ASSUME TypeOK, Shape, Listed, Ownership, DataSet, Barriers, [Next]_vars
  PROVE  DataSet'
<1> DEFINE OnFewer == \A p \in Wqs, v \in Works : On(p, v)' => On(p, v)
           TakenFewer == \A p \in Wqs, v \in Works : Taken(p, v)' => Taken(p, v)
           ItemsSame == UNCHANGED data /\ \A v \in Works : timer'[v] # "off" => timer[v] # "off"
           AddersSame == \A y \in Threads : pc'[y] = "add" =>
                      pc[y] = "add" /\ arg'[y] = arg[y] /\ tq'[y] = tq[y]
<1>1. CASE UNCHANGED vars
  BY <1>1 DEF vars, DataSet, DataIsRight
<1>2. ASSUME NEW x \in Threads, NEW w \in Works, NEW q \in Wqs, QueueWork(x, w, q) PROVE DataSet'
  <2>11. OnFewer
    BY <1>2 DEF QueueWork, MayQueue, Goto, queueVars, workerVars, On
  <2>12. TakenFewer
    BY <1>2, WorkqueueAssumption
    DEF QueueWork, MayQueue, Goto, queueVars, workerVars, Taken, TypeOK, Threads, Base
  <2>13. ItemsSame
    BY <1>2 DEF QueueWork, MayQueue, Goto, queueVars, workerVars, TypeOK
  <2>14. AddersSame
    BY <1>2, WorkqueueAssumption
    DEF QueueWork, MayQueue, Goto, queueVars, workerVars, TypeOK, Threads, Base
  <2> QED
    BY <2>11, <2>12, <2>13, <2>14, DataKept
<1>3. ASSUME NEW x \in Threads, NEW w \in Works, NEW q \in Wqs, QueueDelayedWork(x, w, q)
      PROVE  DataSet'
  <2>11. OnFewer
    BY <1>3 DEF QueueDelayedWork, MayQueue, Goto, queueVars, workerVars, On
  <2>12. TakenFewer
    BY <1>3, WorkqueueAssumption
    DEF QueueDelayedWork, MayQueue, Goto, queueVars, workerVars, Taken, TypeOK, Threads, Base
  <2>13. ItemsSame
    BY <1>3 DEF QueueDelayedWork, MayQueue, Goto, queueVars, workerVars, TypeOK
  <2>14. AddersSame
    BY <1>3, WorkqueueAssumption
    DEF QueueDelayedWork, MayQueue, Goto, queueVars, workerVars, TypeOK, Threads, Base
  <2> QED
    BY <2>11, <2>12, <2>13, <2>14, DataKept
<1>4. ASSUME NEW x \in Threads, QueueWorkInsert(x) PROVE DataSet'
  <2>1. PICK a \in Works, b \in Wqs : a = arg[x] /\ b = tq[x] /\ Queuer(x, a)
    BY <1>4, Locals DEF QueueWorkInsert, Queuing, Queuer
  <2>2. data' = [data EXCEPT ![a] = b] /\ UNCHANGED timer
    BY <1>4, <2>1 DEF QueueWorkInsert, WakeWorker, InsertWork, Goto
  <2>3. At("queueing", x, a)
    BY <2>1 DEF At
  <2>4. /\ \A y \in Threads : Queuer(y, a) => y = x
        /\ timer[a] = "off"
        /\ \A p \in Wqs : ~On(p, a) /\ ~Taken(p, a)
    BY <2>1, <2>3, Sole DEF Ownership, Kinds, Things, Threads
  <2>5. TakenFewer
    BY <1>4, WorkqueueAssumption
    DEF QueueWorkInsert, WakeWorker, InsertWork, Goto, Taken, TypeOK, Threads, Base
  <2>6. \A p \in Wqs, v \in Works : On(p, v)' => On(p, v) \/ (p = b /\ v = a)
    BY <1>4, <2>1, WorkInserted DEF QueueWorkInsert, Entries
  <2>7. \A p \in Wqs, v \in Works : On(p, v)' \/ Taken(p, v)' => data'[v] = p
    <3>1. \A p \in Wqs, v \in Works : On(p, v) \/ Taken(p, v) => data[v] = p
      BY DEF DataSet, DataIsRight, On, Taken
    <3>2. \A v \in Works : data'[v] = IF v = a THEN b ELSE data[v]
      BY <2>2 DEF TypeOK
    <3> QED
      BY <2>4, <2>5, <2>6, <3>1, <3>2
  <2>8. \A v \in Works : timer'[v] # "off" => data'[v] # None
    BY <2>1, <2>2, <2>4 DEF DataSet, DataIsRight, TypeOK
  <2>9. \A y \in Threads \ {x} : pc'[y] = "add" => pc[y] = "add" /\ arg[y] # a /\ arg[y] \in Works
                                                  /\ arg'[y] = arg[y] /\ tq'[y] = tq[y]
    BY <1>4, <2>4, Locals DEF QueueWorkInsert, WakeWorker, InsertWork, Goto, TypeOK, Queuer, Queuing
  <2>10. pc'[x] = "add" => arg'[x] = a /\ tq'[x] = b
    BY <1>4, <2>1, WorkqueueAssumption
    DEF QueueWorkInsert, WakeWorker, InsertWork, Goto, TypeOK, Threads, Base
  <2>11. \A y \in Threads : pc'[y] = "add" => data'[arg'[y]] = tq'[y]
    BY <2>1, <2>2, <2>9, <2>10 DEF DataSet, TypeOK
  <2> QED
    BY <2>7, <2>8, <2>11 DEF DataSet, DataIsRight, On, Taken
<1>5. ASSUME NEW x \in Threads, SetWqData(x) PROVE DataSet'
  <2>1. PICK a \in Works, b \in Wqs : a = arg[x] /\ b = tq[x] /\ Queuer(x, a)
    BY <1>5, Locals DEF SetWqData, Queuing, Queuer
  <2>2. data' = [data EXCEPT ![a] = b] /\ UNCHANGED timer
    BY <1>5, <2>1 DEF SetWqData, Goto, queueVars, workerVars, localVars
  <2>3. At("queueing", x, a)
    BY <2>1 DEF At
  <2>4. /\ \A y \in Threads : Queuer(y, a) => y = x
        /\ timer[a] = "off"
        /\ \A p \in Wqs : ~On(p, a) /\ ~Taken(p, a)
    BY <2>1, <2>3, Sole DEF Ownership, Kinds, Things, Threads
  <2>5. TakenFewer
    BY <1>5, WorkqueueAssumption
    DEF SetWqData, Goto, queueVars, workerVars, localVars, Taken, TypeOK, Threads, Base
  <2>6. OnFewer
    BY <1>5 DEF SetWqData, Goto, queueVars, workerVars, localVars, On
  <2>7. \A p \in Wqs, v \in Works : On(p, v)' \/ Taken(p, v)' => data'[v] = p
    <3>1. \A p \in Wqs, v \in Works : On(p, v) \/ Taken(p, v) => data[v] = p
      BY DEF DataSet, DataIsRight, On, Taken
    <3>2. \A v \in Works : data'[v] = IF v = a THEN b ELSE data[v]
      BY <2>2 DEF TypeOK
    <3> QED
      BY <2>4, <2>5, <2>6, <3>1, <3>2
  <2>8. \A v \in Works : timer'[v] # "off" => data'[v] # None
    BY <2>1, <2>2, <2>4 DEF DataSet, DataIsRight, TypeOK
  <2>9. \A y \in Threads \ {x} : pc'[y] = "add" => pc[y] = "add" /\ arg[y] # a /\ arg[y] \in Works
                                                  /\ arg'[y] = arg[y] /\ tq'[y] = tq[y]
    BY <1>5, <2>4, Locals
    DEF SetWqData, Goto, queueVars, workerVars, localVars, TypeOK, Queuer, Queuing
  <2>10. pc'[x] = "add" => arg'[x] = a /\ tq'[x] = b
    BY <1>5, <2>1, WorkqueueAssumption
    DEF SetWqData, Goto, queueVars, workerVars, localVars, TypeOK, Threads, Base
  <2>11. \A y \in Threads : pc'[y] = "add" => data'[arg'[y]] = tq'[y]
    BY <2>1, <2>2, <2>9, <2>10 DEF DataSet, TypeOK
  <2> QED
    BY <2>7, <2>8, <2>11 DEF DataSet, DataIsRight, On, Taken
<1>6. ASSUME NEW x \in Threads, AddTimer(x) PROVE DataSet'
  <2>1. PICK a \in Works, b \in Wqs : a = arg[x] /\ b = tq[x] /\ Queuer(x, a)
    BY <1>6, Locals DEF AddTimer, Queuing, Queuer
  <2>2. timer' = [timer EXCEPT ![a] = "armed"] /\ UNCHANGED <<data, worklist, current>>
    BY <1>6, <2>1 DEF AddTimer, Goto, queueVars, workerVars
  <2>3. TakenFewer
    BY <1>6, WorkqueueAssumption
    DEF AddTimer, Goto, queueVars, workerVars, Taken, TypeOK, Threads, Base
  <2>4. data[a] # None
    BY <1>6, <2>1, WorkqueueAssumption DEF AddTimer, DataSet
  <2>5. \A p \in Wqs, v \in Works : On(p, v)' \/ Taken(p, v)' => data'[v] = p
    BY <2>2, <2>3 DEF DataSet, DataIsRight, On, Taken
  <2>6. \A v \in Works : timer'[v] # "off" => data'[v] # None
    BY <2>2, <2>4 DEF DataSet, DataIsRight, TypeOK
  <2>7. AddersSame
    BY <1>6, WorkqueueAssumption DEF AddTimer, Goto, queueVars, workerVars, TypeOK, Threads, Base
  <2> QED
    BY <2>2, <2>5, <2>6, <2>7 DEF DataSet, DataIsRight, On, Taken
<1>7. ASSUME NEW c \in Clients, NEW q \in Wqs, FlushWorkqueue(c, q) PROVE DataSet'
  <2>1. FlushInserts(c, q) /\ pc[c] \notin Waiting
    BY <1>7 DEF FlushWorkqueue, FlushCpuWorkqueue, FlushInserts, Waiting
  <2>11. OnFewer
    BY <2>1, WorksStay
  <2>12. TakenFewer
    BY <1>7, WorkqueueAssumption
    DEF FlushWorkqueue, WakeWorker, InsertBarrier, FlushCpuWorkqueue, Goto, itemVars, Taken,
        TypeOK, Threads, Base
  <2>13. ItemsSame
    BY <1>7 DEF FlushWorkqueue, WakeWorker, InsertBarrier, FlushCpuWorkqueue, Goto, itemVars, TypeOK
  <2>14. AddersSame
    BY <1>7, WorkqueueAssumption
    DEF FlushWorkqueue, WakeWorker, InsertBarrier, FlushCpuWorkqueue, Goto, itemVars, TypeOK,
        Threads, Base
  <2> QED
    BY <2>11, <2>12, <2>13, <2>14, DataKept
<1>8. ASSUME NEW c \in Clients, NEW q \in Wqs, DestroyWorkqueue(c, q) PROVE DataSet'
  <2>1. FlushInserts(c, q) /\ pc[c] \notin Waiting
    BY <1>8 DEF DestroyWorkqueue, FlushCpuWorkqueue, FlushInserts, Waiting
  <2>11. OnFewer
    BY <2>1, WorksStay
  <2>12. TakenFewer
    BY <1>8, WorkqueueAssumption
    DEF DestroyWorkqueue, WakeWorker, InsertBarrier, FlushCpuWorkqueue, Goto, itemVars, Taken,
        TypeOK, Threads, Base
  <2>13. ItemsSame
    BY <1>8
    DEF DestroyWorkqueue, WakeWorker, InsertBarrier, FlushCpuWorkqueue, Goto, itemVars, TypeOK
  <2>14. AddersSame
    BY <1>8, WorkqueueAssumption
    DEF DestroyWorkqueue, WakeWorker, InsertBarrier, FlushCpuWorkqueue, Goto, itemVars, TypeOK,
        Threads, Base
  <2> QED
    BY <2>11, <2>12, <2>13, <2>14, DataKept
<1>9. ASSUME NEW c \in Clients, NEW w \in Works, CancelDelayedWork(c, w) PROVE DataSet'
  <2>11. OnFewer
    BY <1>9 DEF CancelDelayedWork, Goto, queueVars, workerVars, On
  <2>12. TakenFewer
    BY <1>9, WorkqueueAssumption
    DEF CancelDelayedWork, Goto, queueVars, workerVars, Taken, TypeOK, Threads, Base
  <2>13. ItemsSame
    BY <1>9 DEF CancelDelayedWork, Goto, queueVars, workerVars, TypeOK
  <2>14. AddersSame
    BY <1>9, WorkqueueAssumption
    DEF CancelDelayedWork, Goto, queueVars, workerVars, TypeOK, Threads, Base
  <2> QED
    BY <2>11, <2>12, <2>13, <2>14, DataKept
<1>10. ASSUME NEW c \in Clients, NEW w \in Works, NEW t \in BOOLEAN, CancelWork(c, w, t)
       PROVE  DataSet'
  <2>11. OnFewer
    BY <1>10 DEF CancelWork, Goto, itemVars, queueVars, workerVars, On
  <2>12. TakenFewer
    BY <1>10, WorkqueueAssumption
    DEF CancelWork, Goto, itemVars, queueVars, workerVars, Taken, TypeOK, Threads, Base
  <2>13. ItemsSame
    BY <1>10 DEF CancelWork, Goto, itemVars, queueVars, workerVars, TypeOK
  <2>14. AddersSame
    BY <1>10, WorkqueueAssumption
    DEF CancelWork, Goto, itemVars, queueVars, workerVars, TypeOK, Threads, Base
  <2> QED
    BY <2>11, <2>12, <2>13, <2>14, DataKept
<1>11. ASSUME NEW c \in Clients, FlushDone(c) PROVE DataSet'
  <2>11. OnFewer
    BY <1>11 DEF FlushDone, Goto, itemVars, queueVars, workerVars, localVars, On
  <2>12. TakenFewer
    BY <1>11, WorkqueueAssumption
    DEF FlushDone, Goto, itemVars, queueVars, workerVars, localVars, Taken, TypeOK, Threads, Base
  <2>13. ItemsSame
    BY <1>11 DEF FlushDone, Goto, itemVars, queueVars, workerVars, localVars, TypeOK
  <2>14. AddersSame
    BY <1>11, WorkqueueAssumption
    DEF FlushDone, Goto, itemVars, queueVars, workerVars, localVars, TypeOK, Threads, Base
  <2> QED
    BY <2>11, <2>12, <2>13, <2>14, DataKept
<1>12. ASSUME NEW c \in Clients, FlushReturn(c) PROVE DataSet'
  <2>11. OnFewer
    BY <1>12 DEF FlushReturn, Goto, itemVars, queueVars, workerVars, On
  <2>12. TakenFewer
    BY <1>12, WorkqueueAssumption
    DEF FlushReturn, Goto, itemVars, queueVars, workerVars, Taken, TypeOK, Threads, Base
  <2>13. ItemsSame
    BY <1>12 DEF FlushReturn, Goto, itemVars, queueVars, workerVars, TypeOK
  <2>14. AddersSame
    BY <1>12, WorkqueueAssumption
    DEF FlushReturn, Goto, itemVars, queueVars, workerVars, TypeOK, Threads, Base
  <2> QED
    BY <2>11, <2>12, <2>13, <2>14, DataKept
<1>13. ASSUME NEW c \in Clients, KthreadStop(c) PROVE DataSet'
  <2>11. OnFewer
    BY <1>13 DEF KthreadStop, WakeWorker, Goto, itemVars, queueVars, localVars, On
  <2>12. TakenFewer
    BY <1>13, WorkqueueAssumption
    DEF KthreadStop, WakeWorker, Goto, itemVars, queueVars, localVars, Taken, TypeOK, Threads, Base
  <2>13. ItemsSame
    BY <1>13 DEF KthreadStop, WakeWorker, Goto, itemVars, queueVars, localVars, TypeOK
  <2>14. AddersSame
    BY <1>13, WorkqueueAssumption
    DEF KthreadStop, WakeWorker, Goto, itemVars, queueVars, localVars, TypeOK, Threads, Base
  <2> QED
    BY <2>11, <2>12, <2>13, <2>14, DataKept
<1>14. ASSUME NEW c \in Clients, DestroyReturn(c) PROVE DataSet'
  <2>11. OnFewer
    BY <1>14 DEF DestroyReturn, Goto, itemVars, queueVars, workerVars, On
  <2>12. TakenFewer
    BY <1>14, WorkqueueAssumption
    DEF DestroyReturn, Goto, itemVars, queueVars, workerVars, Taken, TypeOK, Threads, Base
  <2>13. ItemsSame
    BY <1>14 DEF DestroyReturn, Goto, itemVars, queueVars, workerVars, TypeOK
  <2>14. AddersSame
    BY <1>14, WorkqueueAssumption
    DEF DestroyReturn, Goto, itemVars, queueVars, workerVars, TypeOK, Threads, Base
  <2> QED
    BY <2>11, <2>12, <2>13, <2>14, DataKept
<1>15. ASSUME NEW c \in Clients, DelTimer(c) PROVE DataSet'
  <2>11. OnFewer
    BY <1>15 DEF DelTimer, Goto, queueVars, workerVars, On
  <2>12. TakenFewer
    BY <1>15, WorkqueueAssumption
    DEF DelTimer, Goto, queueVars, workerVars, Taken, TypeOK, Threads, Base
  <2>13. ItemsSame
    BY <1>15 DEF DelTimer, Goto, queueVars, workerVars, TypeOK
  <2>14. AddersSame
    BY <1>15, WorkqueueAssumption DEF DelTimer, Goto, queueVars, workerVars, TypeOK, Threads, Base
  <2> QED
    BY <2>11, <2>12, <2>13, <2>14, DataKept
<1>16. ASSUME NEW c \in Clients, TryToGrabPending(c) PROVE DataSet'
  <2>11. OnFewer
    BY <1>16 DEF TryToGrabPending, Goto, queueVars, workerVars, On
  <2>12. TakenFewer
    BY <1>16, WorkqueueAssumption
    DEF TryToGrabPending, Goto, queueVars, workerVars, Taken, TypeOK, Threads, Base
  <2>13. ItemsSame
    BY <1>16 DEF TryToGrabPending, Goto, queueVars, workerVars, TypeOK
  <2>14. AddersSame
    BY <1>16, WorkqueueAssumption
    DEF TryToGrabPending, Goto, queueVars, workerVars, TypeOK, Threads, Base
  <2> QED
    BY <2>11, <2>12, <2>13, <2>14, DataKept
<1>17. ASSUME NEW c \in Clients, StealWork(c) PROVE DataSet'
  <2>1. PICK a \in Works, b \in Wqs : a = arg[c] /\ b = tq[c]
    BY <1>17, Locals DEF StealWork, Cancelling
  <2>11. OnFewer
    BY <1>17, <2>1, WorkDeleted DEF StealWork, Entries, On
  <2>12. TakenFewer
    BY <1>17, WorkqueueAssumption
    DEF StealWork, Goto, itemVars, workerVars, Taken, TypeOK, Threads, Base
  <2>13. ItemsSame
    BY <1>17 DEF StealWork, Goto, itemVars, workerVars, TypeOK
  <2>14. AddersSame
    BY <1>17, WorkqueueAssumption DEF StealWork, Goto, itemVars, workerVars, TypeOK, Threads, Base
  <2> QED
    BY <2>11, <2>12, <2>13, <2>14, DataKept
<1>18. ASSUME NEW c \in Clients, WaitOnWork(c) PROVE DataSet'
  <2>11. OnFewer
    BY <1>18 DEF WaitOnWork, Goto, itemVars, queueVars, workerVars, On
  <2>12. TakenFewer
    BY <1>18, WorkqueueAssumption
    DEF WaitOnWork, Goto, itemVars, queueVars, workerVars, Taken, TypeOK, Threads, Base
  <2>13. ItemsSame
    BY <1>18 DEF WaitOnWork, Goto, itemVars, queueVars, workerVars, TypeOK
  <2>14. AddersSame
    BY <1>18, WorkqueueAssumption
    DEF WaitOnWork, Goto, itemVars, queueVars, workerVars, TypeOK, Threads, Base
  <2> QED
    BY <2>11, <2>12, <2>13, <2>14, DataKept
<1>19. ASSUME NEW c \in Clients, WaitOnCpuWork(c) PROVE DataSet'
  <2>1. PICK b \in Wqs : b = tq[c] /\ WaitInserts(c, b) /\ pc[c] \notin Waiting
    BY <1>19, Locals DEF WaitOnCpuWork, WaitInserts, Waiting
  <2>11. OnFewer
    BY <2>1, WorksStay
  <2>12. TakenFewer
    BY <1>19, WorkqueueAssumption
    DEF WaitOnCpuWork, WakeWorker, InsertBarrier, Goto, itemVars, Taken, TypeOK, Threads, Base
  <2>13. ItemsSame
    BY <1>19 DEF WaitOnCpuWork, WakeWorker, InsertBarrier, Goto, itemVars, TypeOK
  <2>14. AddersSame
    BY <1>19, WorkqueueAssumption
    DEF WaitOnCpuWork, WakeWorker, InsertBarrier, Goto, itemVars, TypeOK, Threads, Base
  <2> QED
    BY <2>11, <2>12, <2>13, <2>14, DataKept
<1>20. ASSUME NEW c \in Clients, WaitOnWorkDone(c) PROVE DataSet'
  <2>11. OnFewer
    BY <1>20 DEF WaitOnWorkDone, Goto, itemVars, queueVars, workerVars, localVars, On
  <2>12. TakenFewer
    BY <1>20, WorkqueueAssumption
    DEF WaitOnWorkDone, Goto, itemVars, queueVars, workerVars, localVars, Taken, TypeOK, Threads,
        Base
  <2>13. ItemsSame
    BY <1>20 DEF WaitOnWorkDone, Goto, itemVars, queueVars, workerVars, localVars, TypeOK
  <2>14. AddersSame
    BY <1>20, WorkqueueAssumption
    DEF WaitOnWorkDone, Goto, itemVars, queueVars, workerVars, localVars, TypeOK, Threads, Base
  <2> QED
    BY <2>11, <2>12, <2>13, <2>14, DataKept
<1>21. ASSUME NEW c \in Clients, CancelNext(c) PROVE DataSet'
  <2>11. OnFewer
    BY <1>21 DEF CancelNext, Goto, queueVars, workerVars, On
  <2>12. TakenFewer
    BY <1>21, WorkqueueAssumption
    DEF CancelNext, Goto, queueVars, workerVars, Taken, TypeOK, Threads, Base
  <2>13. ItemsSame
    BY <1>21 DEF CancelNext, Goto, queueVars, workerVars, TypeOK
  <2>14. AddersSame
    BY <1>21, WorkqueueAssumption DEF CancelNext, Goto, queueVars, workerVars, TypeOK, Threads, Base
  <2> QED
    BY <2>11, <2>12, <2>13, <2>14, DataKept
<1>22. ASSUME NEW c \in Clients, WorkClearPending(c) PROVE DataSet'
  <2>11. OnFewer
    BY <1>22 DEF WorkClearPending, Goto, queueVars, workerVars, On
  <2>12. TakenFewer
    BY <1>22, WorkqueueAssumption
    DEF WorkClearPending, Goto, queueVars, workerVars, Taken, TypeOK, Threads, Base
  <2>13. ItemsSame
    BY <1>22 DEF WorkClearPending, Goto, queueVars, workerVars, TypeOK
  <2>14. AddersSame
    BY <1>22, WorkqueueAssumption
    DEF WorkClearPending, Goto, queueVars, workerVars, TypeOK, Threads, Base
  <2> QED
    BY <2>11, <2>12, <2>13, <2>14, DataKept
<1>23. ASSUME NEW q \in Wqs, PrepareToWait(q) PROVE DataSet'
  <2>11. OnFewer
    BY <1>23 DEF PrepareToWait, Goto, itemVars, queueVars, localVars, On
  <2>12. TakenFewer
    BY <1>23, WorkqueueAssumption
    DEF PrepareToWait, Goto, itemVars, queueVars, localVars, Taken, TypeOK, Threads, Base
  <2>13. ItemsSame
    BY <1>23 DEF PrepareToWait, Goto, itemVars, queueVars, localVars, TypeOK
  <2>14. AddersSame
    BY <1>23, WorkqueueAssumption
    DEF PrepareToWait, Goto, itemVars, queueVars, localVars, TypeOK, Threads, Base
  <2> QED
    BY <2>11, <2>12, <2>13, <2>14, DataKept
<1>24. ASSUME NEW q \in Wqs, CheckWork(q) PROVE DataSet'
  <2>11. OnFewer
    BY <1>24 DEF CheckWork, Goto, itemVars, queueVars, workerVars, localVars, On
  <2>12. TakenFewer
    BY <1>24, WorkqueueAssumption
    DEF CheckWork, Goto, itemVars, queueVars, workerVars, localVars, Taken, TypeOK, Threads, Base
  <2>13. ItemsSame
    BY <1>24 DEF CheckWork, Goto, itemVars, queueVars, workerVars, localVars, TypeOK
  <2>14. AddersSame
    BY <1>24, WorkqueueAssumption
    DEF CheckWork, Goto, itemVars, queueVars, workerVars, localVars, TypeOK, Threads, Base
  <2> QED
    BY <2>11, <2>12, <2>13, <2>14, DataKept
<1>25. ASSUME NEW q \in Wqs, Schedule(q) PROVE DataSet'
  <2>11. OnFewer
    BY <1>25 DEF Schedule, Goto, itemVars, queueVars, workerVars, localVars, On
  <2>12. TakenFewer
    BY <1>25, WorkqueueAssumption
    DEF Schedule, Goto, itemVars, queueVars, workerVars, localVars, Taken, TypeOK, Threads, Base
  <2>13. ItemsSame
    BY <1>25 DEF Schedule, Goto, itemVars, queueVars, workerVars, localVars, TypeOK
  <2>14. AddersSame
    BY <1>25, WorkqueueAssumption
    DEF Schedule, Goto, itemVars, queueVars, workerVars, localVars, TypeOK, Threads, Base
  <2> QED
    BY <2>11, <2>12, <2>13, <2>14, DataKept
<1>26. ASSUME NEW q \in Wqs, FinishWait(q) PROVE DataSet'
  <2>11. OnFewer
    BY <1>26 DEF FinishWait, WakeWorker, Goto, itemVars, queueVars, localVars, On
  <2>12. TakenFewer
    BY <1>26, WorkqueueAssumption
    DEF FinishWait, WakeWorker, Goto, itemVars, queueVars, localVars, Taken, TypeOK, Threads, Base
  <2>13. ItemsSame
    BY <1>26 DEF FinishWait, WakeWorker, Goto, itemVars, queueVars, localVars, TypeOK
  <2>14. AddersSame
    BY <1>26, WorkqueueAssumption
    DEF FinishWait, WakeWorker, Goto, itemVars, queueVars, localVars, TypeOK, Threads, Base
  <2> QED
    BY <2>11, <2>12, <2>13, <2>14, DataKept
<1>27. ASSUME NEW q \in Wqs, RunWorkqueue(q) PROVE DataSet'
  <2>30. CASE worklist[q] = <<>>
    <3>11. OnFewer
      BY <1>27, <2>30 DEF RunWorkqueue, Goto, itemVars, workerVars, localVars, On
    <3>12. TakenFewer
      BY <1>27, <2>30, WorkqueueAssumption
      DEF RunWorkqueue, Goto, itemVars, workerVars, localVars, Taken, TypeOK, Threads, Base
    <3>13. ItemsSame
      BY <1>27, <2>30 DEF RunWorkqueue, Goto, itemVars, workerVars, localVars, TypeOK
    <3>14. AddersSame
      BY <1>27, <2>30, WorkqueueAssumption
      DEF RunWorkqueue, Goto, itemVars, workerVars, localVars, TypeOK, Threads, Base
    <3> QED
      BY <3>11, <3>12, <3>13, <3>14, DataKept
  <2>31. CASE worklist[q] # <<>>
    <3>3. On(q, Head(worklist[q])) /\ \A p \in Wqs, f \in Entries : On(p, f)' => On(p, f)
      BY <1>27, <2>31, HeadDeleted DEF RunWorkqueue
    <3>11. OnFewer
      BY <3>3 DEF Entries
    <3>12. \A p \in Wqs, v \in Works : Taken(p, v)' => Taken(p, v) \/ On(p, v)
      BY <1>27, <2>31, <3>3
      DEF RunWorkqueue, Goto, itemVars, workerVars, localVars, Taken, TypeOK, Threads
    <3>13. ItemsSame
      BY <1>27, <2>31 DEF RunWorkqueue, Goto, itemVars, workerVars, localVars, TypeOK
    <3>14. AddersSame
      BY <1>27, <2>31, WorkqueueAssumption
      DEF RunWorkqueue, Goto, itemVars, workerVars, localVars, TypeOK, Threads, Base
    <3> QED
      BY <3>3, <3>11, <3>12, <3>13, <3>14, DataKept
  <2> QED
    BY <2>30, <2>31
<1>28. ASSUME NEW q \in Wqs, ClearPending(q) PROVE DataSet'
  <2>11. OnFewer
    BY <1>28 DEF ClearPending, Goto, workerVars, localVars, On
  <2>12. TakenFewer
    BY <1>28 DEF ClearPending, Goto, workerVars, localVars, Taken, TypeOK, Threads
  <2>13. ItemsSame
    BY <1>28 DEF ClearPending, Goto, workerVars, localVars, TypeOK
  <2>14. AddersSame
    BY <1>28, WorkqueueAssumption
    DEF ClearPending, Goto, workerVars, localVars, TypeOK, Threads, Base
  <2> QED
    BY <2>11, <2>12, <2>13, <2>14, DataKept
<1>29. ASSUME NEW q \in Wqs, BarrierFunc(q) PROVE DataSet'
  <2>11. OnFewer
    BY <1>29 DEF BarrierFunc, Return, Goto, itemVars, workerVars, localVars, On
  <2>12. TakenFewer
    BY <1>29, WorkqueueAssumption
    DEF BarrierFunc, Return, Goto, itemVars, workerVars, localVars, Taken, TypeOK, Threads, Base
  <2>13. ItemsSame
    BY <1>29 DEF BarrierFunc, Return, Goto, itemVars, workerVars, localVars, TypeOK
  <2>14. AddersSame
    BY <1>29, WorkqueueAssumption
    DEF BarrierFunc, Return, Goto, itemVars, workerVars, localVars, TypeOK, Threads, Base
  <2> QED
    BY <2>11, <2>12, <2>13, <2>14, DataKept
<1>30. ASSUME NEW q \in Wqs, CallbackReturn(q) PROVE DataSet'
  <2>11. OnFewer
    BY <1>30 DEF CallbackReturn, Return, Goto, itemVars, workerVars, localVars, On
  <2>12. TakenFewer
    BY <1>30, WorkqueueAssumption
    DEF CallbackReturn, Return, Goto, itemVars, workerVars, localVars, Taken, TypeOK, Threads, Base
  <2>13. ItemsSame
    BY <1>30 DEF CallbackReturn, Return, Goto, itemVars, workerVars, localVars, TypeOK
  <2>14. AddersSame
    BY <1>30, WorkqueueAssumption
    DEF CallbackReturn, Return, Goto, itemVars, workerVars, localVars, TypeOK, Threads, Base
  <2> QED
    BY <2>11, <2>12, <2>13, <2>14, DataKept
<1>31. ASSUME NEW q \in Wqs, SelfFlush(q) PROVE DataSet'
  <2>11. OnFewer
    BY <1>31 DEF SelfFlush, Goto, itemVars, workerVars, localVars, On
  <2>12. TakenFewer
    BY <1>31, WorkqueueAssumption
    DEF SelfFlush, Goto, itemVars, workerVars, localVars, Taken, TypeOK, Threads, Base
  <2>13. ItemsSame
    BY <1>31 DEF SelfFlush, Goto, itemVars, workerVars, localVars, TypeOK
  <2>14. AddersSame
    BY <1>31, WorkqueueAssumption
    DEF SelfFlush, Goto, itemVars, workerVars, localVars, TypeOK, Threads, Base
  <2> QED
    BY <2>11, <2>12, <2>13, <2>14, DataKept
<1>32. ASSUME NEW w \in Works, TimerExpire(w) PROVE DataSet'
  <2>11. OnFewer
    BY <1>32 DEF TimerExpire, queueVars, workerVars, localVars, On
  <2>12. TakenFewer
    BY <1>32, WorkqueueAssumption
    DEF TimerExpire, queueVars, workerVars, localVars, Taken, TypeOK, Threads, Base
  <2>13. ItemsSame
    BY <1>32 DEF TimerExpire, queueVars, workerVars, localVars, TypeOK
  <2>14. AddersSame
    BY <1>32, WorkqueueAssumption
    DEF TimerExpire, queueVars, workerVars, localVars, TypeOK, Threads, Base
  <2> QED
    BY <2>11, <2>12, <2>13, <2>14, DataKept
<1>33. ASSUME NEW w \in Works, DelayedWorkTimerFn(w) PROVE DataSet'
  <2>1. PICK b \in Wqs : b = data[w]
    BY <1>33 DEF DelayedWorkTimerFn, DataSet, DataIsRight, TypeOK
  <2>2. UNCHANGED <<data, pc, arg, tq, current>> /\ timer' = [timer EXCEPT ![w] = "off"]
    BY <1>33 DEF DelayedWorkTimerFn, WakeWorker, InsertWork, localVars, TypeOK
  <2>3. \A p \in Wqs, v \in Works : On(p, v)' <=> On(p, v) \/ (p = b /\ v = w)
    BY <1>33, <2>1, WorkInserted DEF DelayedWorkTimerFn, Entries
  <2>4. DataIsRight'
    BY <2>1, <2>2, <2>3 DEF DataSet, DataIsRight, On, TypeOK
  <2> QED
    BY <2>2, <2>4 DEF DataSet
<1> QED
  BY <1>1, <1>2, <1>3, <1>4, <1>5, <1>6, <1>7, <1>8, <1>9, <1>10,
     <1>11, <1>12, <1>13, <1>14, <1>15, <1>16, <1>17, <1>18, <1>19, <1>20,
     <1>21, <1>22, <1>23, <1>24, <1>25, <1>26, <1>27, <1>28, <1>29, <1>30,
     <1>31, <1>32, <1>33
  DEF Next, Queueing, Insertion, ClientCall, ClientStep, WorkerStep, TimerStep

-----------------------------------------------------------------------------
(* The callbacks a worker is inside, when it enters and when it leaves one.*)
LEMMA Entered ==
  ASSUME TypeOK, NEW q \in Wqs, NEW e \in Entries,
         frames' = [frames EXCEPT ![q] = Append(@, e)]
  PROVE  \A p \in Wqs, f \in Entries : Inside(p, f)' <=> Inside(p, f) \/ (p = q /\ f = e)
<1>1. frames[q] \in Seq(Entries)
  BY DEF TypeOK
<1>2. ToSet(Append(frames[q], e)) = ToSet(frames[q]) \cup {e}
  BY <1>1, AppendElems
<1>3. \A p \in Wqs : frames'[p] = IF p = q THEN Append(frames[q], e) ELSE frames[p]
  BY DEF TypeOK
<1> QED
  BY <1>2, <1>3 DEF Inside

LEMMA Left ==
  ASSUME TypeOK, Shape, NEW q \in Wqs, frames[q] # <<>>,
         frames' = [frames EXCEPT ![q] = Front(@)]
  PROVE  /\ \A p \in Wqs, f \in Entries : Inside(p, f)' => Inside(p, f)
         /\ \A f \in Clients : ~Inside(q, f)'
         /\ Inside(q, Last(frames[q]))
<1>1. frames[q] \in Seq(Entries)
  BY DEF TypeOK
<1>2. /\ Front(frames[q]) \in Seq(Entries) /\ Len(Front(frames[q])) = Len(frames[q]) - 1
      /\ \A i \in 1..(Len(frames[q])-1) : Front(frames[q])[i] = frames[q][i]
      /\ Last(frames[q]) = frames[q][Len(frames[q])]
  BY <1>1, FrontType
<1>3. Len(frames[q]) \in Nat /\ Len(frames[q]) # 0
  BY <1>1
<1>4. \A p \in Wqs : frames'[p] = IF p = q THEN Front(frames[q]) ELSE frames[p]
  BY DEF TypeOK
<1>5. \A f \in ToSet(Front(frames[q])) : \E i \in 1..(Len(frames[q])-1) : f = frames[q][i]
  BY <1>2, ToSetElems
<1>6. \A f \in ToSet(Front(frames[q])) : f \in ToSet(frames[q]) /\ f \notin Clients
  <2>1. \A i \in 1..(Len(frames[q])-1) : frames[q][i] \in ToSet(frames[q]) /\
             frames[q][i] \notin Clients
    BY <1>1, <1>3, ToSetElems DEF Shape, FrameShape
  <2> QED
    BY <1>5, <2>1
<1>7. Last(frames[q]) \in ToSet(frames[q])
  BY <1>1, <1>2, <1>3, ToSetElems
<1> QED
  BY <1>4, <1>6, <1>7 DEF Inside

(* A barrier that is somewhere belongs to a task that waits.               *)
LEMMA OnStack ==
  BarrierOnStack <=> \A c \in Clients, q \in Wqs : BarrierAt(q, c) => pc[c] \in Waiting /\ ~done[c]
BY DEF BarrierOnStack, BarrierAt, On, Taken, Inside, Waiting

(* Barriers move along, leave, ...                                         *)
LEMMA BarriersKept ==
  ASSUME Barriers,
         \A p \in Wqs, d \in Clients : BarrierAt(p, d)' =>
           BarrierAt(p, d) /\ pc'[d] = pc[d] /\ tq'[d] = tq[d] /\ ~done'[d],
         \A p \in Wqs, d \in Clients :
           (On(p, d)' => ~Taken(p, d)' /\ ~Inside(p, d)') /\ (Taken(p, d)' => ~Inside(p, d)')
  PROVE  Barriers'
<1>1. \A d \in Clients, p \in Wqs : BarrierAt(p, d)' => pc'[d] \in Waiting /\ ~done'[d]
  BY OnStack DEF Barriers
<1>2. BarrierOnStack'
  BY <1>1 DEF BarrierOnStack, BarrierAt, On, Taken, Inside, Waiting
<1>3. OneBarrier'
  BY DEF Barriers, OneBarrier
<1>4. BarrierQueue'
  BY DEF Barriers, BarrierQueue
<1> QED
  BY <1>2, <1>3, <1>4 DEF Barriers

(* ... stay where they are, ...                                            *)
LEMMA BarriersStay ==
  ASSUME Barriers,
         \A p \in Wqs, d \in Clients : On(p, d)' => On(p, d),
         \A p \in Wqs, d \in Clients : Taken(p, d)' => Taken(p, d),
         \A p \in Wqs, d \in Clients : Inside(p, d)' => Inside(p, d),
         \A d \in Clients : pc[d] \in Waiting /\ ~done[d] =>
           pc'[d] = pc[d] /\ tq'[d] = tq[d] /\ ~done'[d]
  PROVE  Barriers'
<1>1. \A p \in Wqs, d \in Clients : BarrierAt(p, d)' =>
           BarrierAt(p, d) /\ pc'[d] = pc[d] /\ tq'[d] = tq[d] /\ ~done'[d]
  BY OnStack DEF Barriers, BarrierAt
<1>2. \A p \in Wqs, d \in Clients :
           (On(p, d)' => ~Taken(p, d)' /\ ~Inside(p, d)') /\ (Taken(p, d)' => ~Inside(p, d)')
  BY DEF Barriers, OneBarrier
<1> QED
  BY <1>1, <1>2, BarriersKept

(* ... or one is queued by a task that begins to wait.                     *)
LEMMA BarrierNew ==
  ASSUME Barriers, NEW c \in Clients, NEW q \in Wqs, pc[c] \notin Waiting,
         \A p \in Wqs, d \in Clients : On(p, d)' <=> On(p, d) \/ (p = q /\ d = c),
         \A p \in Wqs, d \in Clients : Taken(p, d)' <=> Taken(p, d),
         \A p \in Wqs, d \in Clients : Inside(p, d)' <=> Inside(p, d),
         \A d \in Clients \ {c} : pc'[d] = pc[d] /\ tq'[d] = tq[d] /\ done'[d] = done[d],
         pc'[c] \in Waiting, ~done'[c], pc'[c] # "c_barr" => tq'[c] = q
  PROVE  Barriers'
<1>1. \A p \in Wqs : ~On(p, c) /\ ~Taken(p, c) /\ ~Inside(p, c)
  BY Nowhere DEF Barriers
<1>2. \A p \in Wqs, d \in Clients : BarrierAt(p, d)' <=> BarrierAt(p, d) \/ (p = q /\ d = c)
  BY DEF BarrierAt
<1>3. \A p \in Wqs : ~BarrierAt(p, c)
  BY <1>1 DEF BarrierAt
<1>4. \A d \in Clients, p \in Wqs : BarrierAt(p, d)' => pc'[d] \in Waiting /\ ~done'[d]
  BY <1>2, <1>3, OnStack DEF Barriers
<1>5. BarrierOnStack'
  BY <1>4 DEF BarrierOnStack, BarrierAt, On, Taken, Inside, Waiting
<1>6. OneBarrier'
  BY <1>1, <1>2, <1>3 DEF Barriers, OneBarrier
<1>7. BarrierQueue'
  BY <1>2, <1>3 DEF Barriers, BarrierQueue
<1> QED
  BY <1>5, <1>6, <1>7 DEF Barriers

(* Barriers stay on the stack of a task that waits, each in one place.     *)
LEMMA BarriersStep ==
  ASSUME TypeOK, Shape, Listed, DataSet, Barriers, [Next]_vars
  PROVE  Barriers'
<1> DEFINE OnFewer == \A p \in Wqs, d \in Clients : On(p, d)' => On(p, d)
           TakenFewer == \A p \in Wqs, d \in Clients : Taken(p, d)' => Taken(p, d)
           InsideFewer == \A p \in Wqs, d \in Clients : Inside(p, d)' => Inside(p, d)
           WaitersSame == \A d \in Clients : pc[d] \in Waiting /\ ~done[d] =>
             pc'[d] = pc[d] /\ tq'[d] = tq[d] /\ ~done'[d]
<1>1. CASE UNCHANGED vars
  BY <1>1, BarriersStay DEF vars, On, Taken, Inside
<1>2. ASSUME NEW x \in Threads, NEW w \in Works, NEW q \in Wqs, QueueWork(x, w, q) PROVE Barriers'
  <2>11. OnFewer
    BY <1>2 DEF QueueWork, MayQueue, Goto, queueVars, workerVars, On
  <2>12. TakenFewer
    BY <1>2, WorkqueueAssumption
    DEF QueueWork, MayQueue, Goto, queueVars, workerVars, Taken, TypeOK, Threads, Base
  <2>13. InsideFewer
    BY <1>2 DEF QueueWork, MayQueue, Goto, queueVars, workerVars, Inside
  <2>14. WaitersSame
    BY <1>2, WorkqueueAssumption
    DEF QueueWork, MayQueue, Goto, queueVars, workerVars, TypeOK, Threads, Base, Waiting
  <2> QED
    BY <2>11, <2>12, <2>13, <2>14, BarriersStay
<1>3. ASSUME NEW x \in Threads, NEW w \in Works, NEW q \in Wqs, QueueDelayedWork(x, w, q)
      PROVE  Barriers'
  <2>11. OnFewer
    BY <1>3 DEF QueueDelayedWork, MayQueue, Goto, queueVars, workerVars, On
  <2>12. TakenFewer
    BY <1>3, WorkqueueAssumption
    DEF QueueDelayedWork, MayQueue, Goto, queueVars, workerVars, Taken, TypeOK, Threads, Base
  <2>13. InsideFewer
    BY <1>3 DEF QueueDelayedWork, MayQueue, Goto, queueVars, workerVars, Inside
  <2>14. WaitersSame
    BY <1>3, WorkqueueAssumption
    DEF QueueDelayedWork, MayQueue, Goto, queueVars, workerVars, TypeOK, Threads, Base, Waiting
  <2> QED
    BY <2>11, <2>12, <2>13, <2>14, BarriersStay
<1>4. ASSUME NEW x \in Threads, QueueWorkInsert(x) PROVE Barriers'
  <2>1. PICK a \in Works, b \in Wqs : a = arg[x] /\ b = tq[x] /\ Queuer(x, a)
    BY <1>4, Locals DEF QueueWorkInsert, Queuing, Queuer
  <2>11. OnFewer
    BY <1>4, <2>1, WorkInserted, WorkqueueAssumption DEF QueueWorkInsert, Entries
  <2>12. TakenFewer
    BY <1>4, WorkqueueAssumption
    DEF QueueWorkInsert, WakeWorker, InsertWork, Goto, Taken, TypeOK, Threads, Base
  <2>13. InsideFewer
    BY <1>4 DEF QueueWorkInsert, WakeWorker, InsertWork, Goto, Inside
  <2>14. WaitersSame
    BY <1>4, WorkqueueAssumption
    DEF QueueWorkInsert, WakeWorker, InsertWork, Goto, TypeOK, Threads, Base, Waiting
  <2> QED
    BY <2>11, <2>12, <2>13, <2>14, BarriersStay
<1>5. ASSUME NEW x \in Threads, SetWqData(x) PROVE Barriers'
  <2>11. OnFewer
    BY <1>5 DEF SetWqData, Goto, queueVars, workerVars, localVars, On
  <2>12. TakenFewer
    BY <1>5, WorkqueueAssumption
    DEF SetWqData, Goto, queueVars, workerVars, localVars, Taken, TypeOK, Threads, Base
  <2>13. InsideFewer
    BY <1>5 DEF SetWqData, Goto, queueVars, workerVars, localVars, Inside
  <2>14. WaitersSame
    BY <1>5, WorkqueueAssumption
    DEF SetWqData, Goto, queueVars, workerVars, localVars, TypeOK, Threads, Base, Waiting
  <2> QED
    BY <2>11, <2>12, <2>13, <2>14, BarriersStay
<1>6. ASSUME NEW x \in Threads, AddTimer(x) PROVE Barriers'
  <2>11. OnFewer
    BY <1>6 DEF AddTimer, Goto, queueVars, workerVars, On
  <2>12. TakenFewer
    BY <1>6, WorkqueueAssumption
    DEF AddTimer, Goto, queueVars, workerVars, Taken, TypeOK, Threads, Base
  <2>13. InsideFewer
    BY <1>6 DEF AddTimer, Goto, queueVars, workerVars, Inside
  <2>14. WaitersSame
    BY <1>6, WorkqueueAssumption
    DEF AddTimer, Goto, queueVars, workerVars, TypeOK, Threads, Base, Waiting
  <2> QED
    BY <2>11, <2>12, <2>13, <2>14, BarriersStay
<1>7. ASSUME NEW c \in Clients, NEW q \in Wqs, FlushWorkqueue(c, q) PROVE Barriers'
  <2>1. FlushInserts(c, q) /\ pc[c] \notin Waiting
    BY <1>7 DEF FlushWorkqueue, FlushCpuWorkqueue, FlushInserts, Waiting
  <2>2. CASE ~InsertBarrier(c, q, TRUE)
    <3>1. UNCHANGED <<worklist, done>>
      BY <2>1, <2>2 DEF FlushInserts, WaitInserts
    <3>11. OnFewer
      BY <3>1 DEF On
    <3>12. TakenFewer
      BY <1>7, WorkqueueAssumption
      DEF FlushWorkqueue, WakeWorker, InsertBarrier, FlushCpuWorkqueue, Goto, itemVars, Taken,
          TypeOK, Threads, Base
    <3>13. InsideFewer
      BY <1>7
      DEF FlushWorkqueue, WakeWorker, InsertBarrier, FlushCpuWorkqueue, Goto, itemVars, Inside
    <3>14. \A d \in Clients : pc[d] \in Waiting /\ ~done[d] =>
             pc'[d] = pc[d] /\ tq'[d] = tq[d] /\ ~done'[d]
      BY <1>7, <3>1, WorkqueueAssumption
      DEF FlushWorkqueue, WakeWorker, InsertBarrier, FlushCpuWorkqueue, Goto, itemVars, TypeOK,
          Threads, Base, Waiting
    <3> QED
      BY <3>11, <3>12, <3>13, <3>14, BarriersStay
  <2>3. CASE InsertBarrier(c, q, TRUE)
    <3>1. \A p \in Wqs, f \in Entries : On(p, f)' <=> On(p, f) \/ (p = q /\ f = c)
      BY <2>1, <2>3, BarrierInserted
    <3>2. pc'[c] \in Waiting /\ (pc'[c] # "c_barr" => tq'[c] = q)
      BY <1>7, <2>1, <2>3
      DEF FlushWorkqueue, WakeWorker, InsertBarrier, FlushCpuWorkqueue, Goto, itemVars, TypeOK,
          Threads, Waiting
    <3>3. done' = [done EXCEPT ![c] = FALSE]
      BY <2>3 DEF InsertBarrier
    <3>4. \A p \in Wqs, d \in Clients : Taken(p, d)' <=> Taken(p, d)
      BY <1>7, WorkqueueAssumption
      DEF FlushWorkqueue, WakeWorker, InsertBarrier, FlushCpuWorkqueue, Goto, itemVars, Taken,
          TypeOK, Threads
    <3>5. \A p \in Wqs, d \in Clients : Inside(p, d)' <=> Inside(p, d)
      BY <1>7
      DEF FlushWorkqueue, WakeWorker, InsertBarrier, FlushCpuWorkqueue, Goto, itemVars, Inside
    <3>6. \A d \in Clients \ {c} : pc'[d] = pc[d] /\ tq'[d] = tq[d] /\ done'[d] = done[d]
      BY <1>7, <3>3
      DEF FlushWorkqueue, WakeWorker, InsertBarrier, FlushCpuWorkqueue, Goto, itemVars, TypeOK,
          Threads
    <3>7. \A p \in Wqs, d \in Clients : On(p, d)' <=> On(p, d) \/ (p = q /\ d = c)
      BY <3>1 DEF Entries
    <3>8. ~done'[c]
      BY <3>3 DEF TypeOK
    <3> QED
      BY <2>1, <3>2, <3>4, <3>5, <3>6, <3>7, <3>8, BarrierNew
  <2> QED
    BY <2>2, <2>3
<1>8. ASSUME NEW c \in Clients, NEW q \in Wqs, DestroyWorkqueue(c, q) PROVE Barriers'
  <2>1. FlushInserts(c, q) /\ pc[c] \notin Waiting
    BY <1>8 DEF DestroyWorkqueue, FlushCpuWorkqueue, FlushInserts, Waiting
  <2>2. CASE ~InsertBarrier(c, q, TRUE)
    <3>1. UNCHANGED <<worklist, done>>
      BY <2>1, <2>2 DEF FlushInserts, WaitInserts
    <3>11. OnFewer
      BY <3>1 DEF On
    <3>12. TakenFewer
      BY <1>8, WorkqueueAssumption
      DEF DestroyWorkqueue, WakeWorker, InsertBarrier, FlushCpuWorkqueue, Goto, itemVars, Taken,
          TypeOK, Threads, Base
    <3>13. InsideFewer
      BY <1>8
      DEF DestroyWorkqueue, WakeWorker, InsertBarrier, FlushCpuWorkqueue, Goto, itemVars, Inside
    <3>14. \A d \in Clients : pc[d] \in Waiting /\ ~done[d] =>
             pc'[d] = pc[d] /\ tq'[d] = tq[d] /\ ~done'[d]
      BY <1>8, <3>1, WorkqueueAssumption
      DEF DestroyWorkqueue, WakeWorker, InsertBarrier, FlushCpuWorkqueue, Goto, itemVars, TypeOK,
          Threads, Base, Waiting
    <3> QED
      BY <3>11, <3>12, <3>13, <3>14, BarriersStay
  <2>3. CASE InsertBarrier(c, q, TRUE)
    <3>1. \A p \in Wqs, f \in Entries : On(p, f)' <=> On(p, f) \/ (p = q /\ f = c)
      BY <2>1, <2>3, BarrierInserted
    <3>2. pc'[c] \in Waiting /\ (pc'[c] # "c_barr" => tq'[c] = q)
      BY <1>8, <2>1, <2>3
      DEF DestroyWorkqueue, WakeWorker, InsertBarrier, FlushCpuWorkqueue, Goto, itemVars, TypeOK,
          Threads, Waiting
    <3>3. done' = [done EXCEPT ![c] = FALSE]
      BY <2>3 DEF InsertBarrier
    <3>4. \A p \in Wqs, d \in Clients : Taken(p, d)' <=> Taken(p, d)
      BY <1>8, WorkqueueAssumption
      DEF DestroyWorkqueue, WakeWorker, InsertBarrier, FlushCpuWorkqueue, Goto, itemVars, Taken,
          TypeOK, Threads
    <3>5. \A p \in Wqs, d \in Clients : Inside(p, d)' <=> Inside(p, d)
      BY <1>8
      DEF DestroyWorkqueue, WakeWorker, InsertBarrier, FlushCpuWorkqueue, Goto, itemVars, Inside
    <3>6. \A d \in Clients \ {c} : pc'[d] = pc[d] /\ tq'[d] = tq[d] /\ done'[d] = done[d]
      BY <1>8, <3>3
      DEF DestroyWorkqueue, WakeWorker, InsertBarrier, FlushCpuWorkqueue, Goto, itemVars, TypeOK,
          Threads
    <3>7. \A p \in Wqs, d \in Clients : On(p, d)' <=> On(p, d) \/ (p = q /\ d = c)
      BY <3>1 DEF Entries
    <3>8. ~done'[c]
      BY <3>3 DEF TypeOK
    <3> QED
      BY <2>1, <3>2, <3>4, <3>5, <3>6, <3>7, <3>8, BarrierNew
  <2> QED
    BY <2>2, <2>3
<1>9. ASSUME NEW c \in Clients, NEW w \in Works, CancelDelayedWork(c, w) PROVE Barriers'
  <2>11. OnFewer
    BY <1>9 DEF CancelDelayedWork, Goto, queueVars, workerVars, On
  <2>12. TakenFewer
    BY <1>9, WorkqueueAssumption
    DEF CancelDelayedWork, Goto, queueVars, workerVars, Taken, TypeOK, Threads, Base
  <2>13. InsideFewer
    BY <1>9 DEF CancelDelayedWork, Goto, queueVars, workerVars, Inside
  <2>14. WaitersSame
    BY <1>9, WorkqueueAssumption
    DEF CancelDelayedWork, Goto, queueVars, workerVars, TypeOK, Threads, Base, Waiting
  <2> QED
    BY <2>11, <2>12, <2>13, <2>14, BarriersStay
<1>10. ASSUME NEW c \in Clients, NEW w \in Works, NEW t \in BOOLEAN, CancelWork(c, w, t)
       PROVE  Barriers'
  <2>11. OnFewer
    BY <1>10 DEF CancelWork, Goto, itemVars, queueVars, workerVars, On
  <2>12. TakenFewer
    BY <1>10, WorkqueueAssumption
    DEF CancelWork, Goto, itemVars, queueVars, workerVars, Taken, TypeOK, Threads, Base
  <2>13. InsideFewer
    BY <1>10 DEF CancelWork, Goto, itemVars, queueVars, workerVars, Inside
  <2>14. WaitersSame
    BY <1>10, WorkqueueAssumption
    DEF CancelWork, Goto, itemVars, queueVars, workerVars, TypeOK, Threads, Base, Waiting
  <2> QED
    BY <2>11, <2>12, <2>13, <2>14, BarriersStay
<1>11. ASSUME NEW c \in Clients, FlushDone(c) PROVE Barriers'
  <2>11. OnFewer
    BY <1>11 DEF FlushDone, Goto, itemVars, queueVars, workerVars, localVars, On
  <2>12. TakenFewer
    BY <1>11, WorkqueueAssumption
    DEF FlushDone, Goto, itemVars, queueVars, workerVars, localVars, Taken, TypeOK, Threads, Base
  <2>13. InsideFewer
    BY <1>11 DEF FlushDone, Goto, itemVars, queueVars, workerVars, localVars, Inside
  <2>14. WaitersSame
    BY <1>11, WorkqueueAssumption
    DEF FlushDone, Goto, itemVars, queueVars, workerVars, localVars, TypeOK, Threads, Base, Waiting
  <2> QED
    BY <2>11, <2>12, <2>13, <2>14, BarriersStay
<1>12. ASSUME NEW c \in Clients, FlushReturn(c) PROVE Barriers'
  <2>11. OnFewer
    BY <1>12 DEF FlushReturn, Goto, itemVars, queueVars, workerVars, On
  <2>12. TakenFewer
    BY <1>12, WorkqueueAssumption
    DEF FlushReturn, Goto, itemVars, queueVars, workerVars, Taken, TypeOK, Threads, Base
  <2>13. InsideFewer
    BY <1>12 DEF FlushReturn, Goto, itemVars, queueVars, workerVars, Inside
  <2>14. WaitersSame
    BY <1>12, WorkqueueAssumption
    DEF FlushReturn, Goto, itemVars, queueVars, workerVars, TypeOK, Threads, Base, Waiting
  <2> QED
    BY <2>11, <2>12, <2>13, <2>14, BarriersStay
<1>13. ASSUME NEW c \in Clients, KthreadStop(c) PROVE Barriers'
  <2>11. OnFewer
    BY <1>13 DEF KthreadStop, WakeWorker, Goto, itemVars, queueVars, localVars, On
  <2>12. TakenFewer
    BY <1>13, WorkqueueAssumption
    DEF KthreadStop, WakeWorker, Goto, itemVars, queueVars, localVars, Taken, TypeOK, Threads, Base
  <2>13. InsideFewer
    BY <1>13 DEF KthreadStop, WakeWorker, Goto, itemVars, queueVars, localVars, Inside
  <2>14. WaitersSame
    BY <1>13, WorkqueueAssumption
    DEF KthreadStop, WakeWorker, Goto, itemVars, queueVars, localVars, TypeOK, Threads, Base,
        Waiting
  <2> QED
    BY <2>11, <2>12, <2>13, <2>14, BarriersStay
<1>14. ASSUME NEW c \in Clients, DestroyReturn(c) PROVE Barriers'
  <2>11. OnFewer
    BY <1>14 DEF DestroyReturn, Goto, itemVars, queueVars, workerVars, On
  <2>12. TakenFewer
    BY <1>14, WorkqueueAssumption
    DEF DestroyReturn, Goto, itemVars, queueVars, workerVars, Taken, TypeOK, Threads, Base
  <2>13. InsideFewer
    BY <1>14 DEF DestroyReturn, Goto, itemVars, queueVars, workerVars, Inside
  <2>14. WaitersSame
    BY <1>14, WorkqueueAssumption
    DEF DestroyReturn, Goto, itemVars, queueVars, workerVars, TypeOK, Threads, Base, Waiting
  <2> QED
    BY <2>11, <2>12, <2>13, <2>14, BarriersStay
<1>15. ASSUME NEW c \in Clients, DelTimer(c) PROVE Barriers'
  <2>11. OnFewer
    BY <1>15 DEF DelTimer, Goto, queueVars, workerVars, On
  <2>12. TakenFewer
    BY <1>15, WorkqueueAssumption
    DEF DelTimer, Goto, queueVars, workerVars, Taken, TypeOK, Threads, Base
  <2>13. InsideFewer
    BY <1>15 DEF DelTimer, Goto, queueVars, workerVars, Inside
  <2>14. WaitersSame
    BY <1>15, WorkqueueAssumption
    DEF DelTimer, Goto, queueVars, workerVars, TypeOK, Threads, Base, Waiting
  <2> QED
    BY <2>11, <2>12, <2>13, <2>14, BarriersStay
<1>16. ASSUME NEW c \in Clients, TryToGrabPending(c) PROVE Barriers'
  <2>11. OnFewer
    BY <1>16 DEF TryToGrabPending, Goto, queueVars, workerVars, On
  <2>12. TakenFewer
    BY <1>16, WorkqueueAssumption
    DEF TryToGrabPending, Goto, queueVars, workerVars, Taken, TypeOK, Threads, Base
  <2>13. InsideFewer
    BY <1>16 DEF TryToGrabPending, Goto, queueVars, workerVars, Inside
  <2>14. WaitersSame
    BY <1>16, WorkqueueAssumption
    DEF TryToGrabPending, Goto, queueVars, workerVars, TypeOK, Threads, Base, Waiting
  <2> QED
    BY <2>11, <2>12, <2>13, <2>14, BarriersStay
<1>17. ASSUME NEW c \in Clients, StealWork(c) PROVE Barriers'
  <2>1. PICK a \in Works, b \in Wqs : a = arg[c] /\ b = tq[c]
    BY <1>17, Locals DEF StealWork, Cancelling
  <2>11. OnFewer
    BY <1>17, <2>1, WorkDeleted DEF StealWork, Entries, On
  <2>12. TakenFewer
    BY <1>17, WorkqueueAssumption
    DEF StealWork, Goto, itemVars, workerVars, Taken, TypeOK, Threads, Base
  <2>13. InsideFewer
    BY <1>17 DEF StealWork, Goto, itemVars, workerVars, Inside
  <2>14. WaitersSame
    BY <1>17, WorkqueueAssumption
    DEF StealWork, Goto, itemVars, workerVars, TypeOK, Threads, Base, Waiting
  <2> QED
    BY <2>11, <2>12, <2>13, <2>14, BarriersStay
<1>18. ASSUME NEW c \in Clients, WaitOnWork(c) PROVE Barriers'
  <2>11. OnFewer
    BY <1>18 DEF WaitOnWork, Goto, itemVars, queueVars, workerVars, On
  <2>12. TakenFewer
    BY <1>18, WorkqueueAssumption
    DEF WaitOnWork, Goto, itemVars, queueVars, workerVars, Taken, TypeOK, Threads, Base
  <2>13. InsideFewer
    BY <1>18 DEF WaitOnWork, Goto, itemVars, queueVars, workerVars, Inside
  <2>14. WaitersSame
    BY <1>18, WorkqueueAssumption
    DEF WaitOnWork, Goto, itemVars, queueVars, workerVars, TypeOK, Threads, Base, Waiting
  <2> QED
    BY <2>11, <2>12, <2>13, <2>14, BarriersStay
<1>19. ASSUME NEW c \in Clients, WaitOnCpuWork(c) PROVE Barriers'
  <2>1. PICK b \in Wqs : b = tq[c] /\ WaitInserts(c, b) /\ pc[c] \notin Waiting
    BY <1>19, Locals DEF WaitOnCpuWork, WaitInserts, Waiting
  <2>2. CASE ~InsertBarrier(c, b, FALSE)
    <3>1. UNCHANGED <<worklist, done>>
      BY <2>1, <2>2 DEF FlushInserts, WaitInserts
    <3>11. OnFewer
      BY <3>1 DEF On
    <3>12. TakenFewer
      BY <1>19, WorkqueueAssumption
      DEF WaitOnCpuWork, WakeWorker, InsertBarrier, Goto, itemVars, Taken, TypeOK, Threads, Base
    <3>13. InsideFewer
      BY <1>19 DEF WaitOnCpuWork, WakeWorker, InsertBarrier, Goto, itemVars, Inside
    <3>14. \A d \in Clients : pc[d] \in Waiting /\ ~done[d] =>
             pc'[d] = pc[d] /\ tq'[d] = tq[d] /\ ~done'[d]
      BY <1>19, <3>1, WorkqueueAssumption
      DEF WaitOnCpuWork, WakeWorker, InsertBarrier, Goto, itemVars, TypeOK, Threads, Base, Waiting
    <3> QED
      BY <3>11, <3>12, <3>13, <3>14, BarriersStay
  <2>3. CASE InsertBarrier(c, b, FALSE)
    <3>1. \A p \in Wqs, f \in Entries : On(p, f)' <=> On(p, f) \/ (p = b /\ f = c)
      BY <2>1, <2>3, BarrierInserted
    <3>2. pc'[c] \in Waiting /\ (pc'[c] # "c_barr" => tq'[c] = b)
      BY <1>19, <2>1, <2>3
      DEF WaitOnCpuWork, WakeWorker, InsertBarrier, Goto, itemVars, TypeOK, Threads, Waiting
    <3>3. done' = [done EXCEPT ![c] = FALSE]
      BY <2>3 DEF InsertBarrier
    <3>4. \A p \in Wqs, d \in Clients : Taken(p, d)' <=> Taken(p, d)
      BY <1>19, WorkqueueAssumption
      DEF WaitOnCpuWork, WakeWorker, InsertBarrier, Goto, itemVars, Taken, TypeOK, Threads
    <3>5. \A p \in Wqs, d \in Clients : Inside(p, d)' <=> Inside(p, d)
      BY <1>19 DEF WaitOnCpuWork, WakeWorker, InsertBarrier, Goto, itemVars, Inside
    <3>6. \A d \in Clients \ {c} : pc'[d] = pc[d] /\ tq'[d] = tq[d] /\ done'[d] = done[d]
      BY <1>19, <3>3 DEF WaitOnCpuWork, WakeWorker, InsertBarrier, Goto, itemVars, TypeOK, Threads
    <3>7. \A p \in Wqs, d \in Clients : On(p, d)' <=> On(p, d) \/ (p = b /\ d = c)
      BY <3>1 DEF Entries
    <3>8. ~done'[c]
      BY <3>3 DEF TypeOK
    <3> QED
      BY <2>1, <3>2, <3>4, <3>5, <3>6, <3>7, <3>8, BarrierNew
  <2> QED
    BY <2>2, <2>3
<1>20. ASSUME NEW c \in Clients, WaitOnWorkDone(c) PROVE Barriers'
  <2>11. OnFewer
    BY <1>20 DEF WaitOnWorkDone, Goto, itemVars, queueVars, workerVars, localVars, On
  <2>12. TakenFewer
    BY <1>20, WorkqueueAssumption
    DEF WaitOnWorkDone, Goto, itemVars, queueVars, workerVars, localVars, Taken, TypeOK, Threads,
        Base
  <2>13. InsideFewer
    BY <1>20 DEF WaitOnWorkDone, Goto, itemVars, queueVars, workerVars, localVars, Inside
  <2>14. WaitersSame
    BY <1>20, WorkqueueAssumption
    DEF WaitOnWorkDone, Goto, itemVars, queueVars, workerVars, localVars, TypeOK, Threads, Base,
        Waiting
  <2> QED
    BY <2>11, <2>12, <2>13, <2>14, BarriersStay
<1>21. ASSUME NEW c \in Clients, CancelNext(c) PROVE Barriers'
  <2>11. OnFewer
    BY <1>21 DEF CancelNext, Goto, queueVars, workerVars, On
  <2>12. TakenFewer
    BY <1>21, WorkqueueAssumption
    DEF CancelNext, Goto, queueVars, workerVars, Taken, TypeOK, Threads, Base
  <2>13. InsideFewer
    BY <1>21 DEF CancelNext, Goto, queueVars, workerVars, Inside
  <2>14. WaitersSame
    BY <1>21, WorkqueueAssumption
    DEF CancelNext, Goto, queueVars, workerVars, TypeOK, Threads, Base, Waiting
  <2> QED
    BY <2>11, <2>12, <2>13, <2>14, BarriersStay
<1>22. ASSUME NEW c \in Clients, WorkClearPending(c) PROVE Barriers'
  <2>11. OnFewer
    BY <1>22 DEF WorkClearPending, Goto, queueVars, workerVars, On
  <2>12. TakenFewer
    BY <1>22, WorkqueueAssumption
    DEF WorkClearPending, Goto, queueVars, workerVars, Taken, TypeOK, Threads, Base
  <2>13. InsideFewer
    BY <1>22 DEF WorkClearPending, Goto, queueVars, workerVars, Inside
  <2>14. WaitersSame
    BY <1>22, WorkqueueAssumption
    DEF WorkClearPending, Goto, queueVars, workerVars, TypeOK, Threads, Base, Waiting
  <2> QED
    BY <2>11, <2>12, <2>13, <2>14, BarriersStay
<1>23. ASSUME NEW q \in Wqs, PrepareToWait(q) PROVE Barriers'
  <2>11. OnFewer
    BY <1>23 DEF PrepareToWait, Goto, itemVars, queueVars, localVars, On
  <2>12. TakenFewer
    BY <1>23, WorkqueueAssumption
    DEF PrepareToWait, Goto, itemVars, queueVars, localVars, Taken, TypeOK, Threads, Base
  <2>13. InsideFewer
    BY <1>23 DEF PrepareToWait, Goto, itemVars, queueVars, localVars, Inside
  <2>14. WaitersSame
    BY <1>23, WorkqueueAssumption
    DEF PrepareToWait, Goto, itemVars, queueVars, localVars, TypeOK, Threads, Base, Waiting
  <2> QED
    BY <2>11, <2>12, <2>13, <2>14, BarriersStay
<1>24. ASSUME NEW q \in Wqs, CheckWork(q) PROVE Barriers'
  <2>11. OnFewer
    BY <1>24 DEF CheckWork, Goto, itemVars, queueVars, workerVars, localVars, On
  <2>12. TakenFewer
    BY <1>24, WorkqueueAssumption
    DEF CheckWork, Goto, itemVars, queueVars, workerVars, localVars, Taken, TypeOK, Threads, Base
  <2>13. InsideFewer
    BY <1>24 DEF CheckWork, Goto, itemVars, queueVars, workerVars, localVars, Inside
  <2>14. WaitersSame
    BY <1>24, WorkqueueAssumption
    DEF CheckWork, Goto, itemVars, queueVars, workerVars, localVars, TypeOK, Threads, Base, Waiting
  <2> QED
    BY <2>11, <2>12, <2>13, <2>14, BarriersStay
<1>25. ASSUME NEW q \in Wqs, Schedule(q) PROVE Barriers'
  <2>11. OnFewer
    BY <1>25 DEF Schedule, Goto, itemVars, queueVars, workerVars, localVars, On
  <2>12. TakenFewer
    BY <1>25, WorkqueueAssumption
    DEF Schedule, Goto, itemVars, queueVars, workerVars, localVars, Taken, TypeOK, Threads, Base
  <2>13. InsideFewer
    BY <1>25 DEF Schedule, Goto, itemVars, queueVars, workerVars, localVars, Inside
  <2>14. WaitersSame
    BY <1>25, WorkqueueAssumption
    DEF Schedule, Goto, itemVars, queueVars, workerVars, localVars, TypeOK, Threads, Base, Waiting
  <2> QED
    BY <2>11, <2>12, <2>13, <2>14, BarriersStay
<1>26. ASSUME NEW q \in Wqs, FinishWait(q) PROVE Barriers'
  <2>11. OnFewer
    BY <1>26 DEF FinishWait, WakeWorker, Goto, itemVars, queueVars, localVars, On
  <2>12. TakenFewer
    BY <1>26, WorkqueueAssumption
    DEF FinishWait, WakeWorker, Goto, itemVars, queueVars, localVars, Taken, TypeOK, Threads, Base
  <2>13. InsideFewer
    BY <1>26 DEF FinishWait, WakeWorker, Goto, itemVars, queueVars, localVars, Inside
  <2>14. WaitersSame
    BY <1>26, WorkqueueAssumption
    DEF FinishWait, WakeWorker, Goto, itemVars, queueVars, localVars, TypeOK, Threads, Base, Waiting
  <2> QED
    BY <2>11, <2>12, <2>13, <2>14, BarriersStay
<1>27. ASSUME NEW q \in Wqs, RunWorkqueue(q) PROVE Barriers'
  <2>30. CASE worklist[q] = <<>>
    <3>11. OnFewer
      BY <1>27, <2>30 DEF RunWorkqueue, Goto, itemVars, workerVars, localVars, On
    <3>12. TakenFewer
      BY <1>27, <2>30, WorkqueueAssumption
      DEF RunWorkqueue, Goto, itemVars, workerVars, localVars, Taken, TypeOK, Threads, Base
    <3>13. InsideFewer
      BY <1>27, <2>30 DEF RunWorkqueue, Goto, itemVars, workerVars, localVars, Inside
    <3>14. \A d \in Clients : pc[d] \in Waiting /\ ~done[d] =>
             pc'[d] = pc[d] /\ tq'[d] = tq[d] /\ ~done'[d]
      BY <1>27, <2>30, WorkqueueAssumption
      DEF RunWorkqueue, Goto, itemVars, workerVars, localVars, TypeOK, Threads, Base, Waiting
    <3> QED
      BY <3>11, <3>12, <3>13, <3>14, BarriersStay
  <2>31. CASE worklist[q] # <<>>
    <3>1. PICK h \in Entries : h = Head(worklist[q]) /\ On(q, h)
      BY <1>27, <2>31, HeadDeleted DEF RunWorkqueue
    <3>2. /\ worklist' = [worklist EXCEPT ![q] = Tail(@)] /\ current' = [current EXCEPT ![q] = h]
          /\ pc' = [pc EXCEPT ![q] = "clear"] /\ pc[q] \in {"run", "end"}
          /\ UNCHANGED <<frames, tq, done>>
      BY <1>27, <2>31, <3>1 DEF RunWorkqueue, Goto, itemVars, localVars
    <3>3. \A p \in Wqs, d \in Clients : On(p, d)' <=> On(p, d) /\ ~(p = q /\ d = h)
      BY <1>27, <2>31, <3>1, <3>2, HeadDeleted DEF Entries
    <3>4. \A p \in Wqs, d \in Clients : Taken(p, d)' <=> Taken(p, d) \/ (p = q /\ d = h)
      BY <3>1, <3>2 DEF Taken, TypeOK, Threads
    <3>5. \A p \in Wqs, d \in Clients : Inside(p, d)' <=> Inside(p, d)
      BY <3>2 DEF Inside
    <3>6. \A p \in Wqs, d \in Clients : BarrierAt(p, d)' => BarrierAt(p, d)
      BY <3>1, <3>3, <3>4, <3>5 DEF BarrierAt
    <3>7. \A p \in Wqs, d \in Clients :
             (On(p, d)' => ~Taken(p, d)' /\ ~Inside(p, d)') /\ (Taken(p, d)' => ~Inside(p, d)')
      BY <3>1, <3>3, <3>4, <3>5 DEF Barriers, OneBarrier
    <3>8. \A d \in Clients : pc'[d] = pc[d] /\ tq'[d] = tq[d] /\ done'[d] = done[d]
      BY <3>2, WorkqueueAssumption DEF TypeOK, Threads
    <3>9. \A p \in Wqs, d \in Clients : BarrierAt(p, d) => ~done[d]
      BY OnStack DEF Barriers
    <3> QED
      BY <3>6, <3>7, <3>8, <3>9, BarriersKept
  <2> QED
    BY <2>30, <2>31
<1>28. ASSUME NEW q \in Wqs, ClearPending(q) PROVE Barriers'
  <2>1. PICK h \in Entries : h = current[q] /\ Taken(q, h)
    BY <1>28, Locals DEF ClearPending, Taken
  <2>2. /\ frames' = [frames EXCEPT ![q] = Append(@, h)] /\ pc' = [pc EXCEPT ![q] = "func"]
        /\ UNCHANGED <<worklist, current, tq, done>>
    BY <1>28, <2>1 DEF ClearPending, Goto, workerVars, localVars
  <2>3. \A p \in Wqs, d \in Clients : Inside(p, d)' <=> Inside(p, d) \/ (p = q /\ d = h)
    BY <2>2, Entered DEF Entries
  <2>4. \A p \in Wqs, d \in Clients : Taken(p, d)' <=> Taken(p, d) /\ p # q
    BY <2>1, <2>2 DEF Taken, TypeOK, Threads
  <2>5. \A p \in Wqs, d \in Clients : On(p, d)' <=> On(p, d)
    BY <2>2 DEF On
  <2>6. \A p \in Wqs, d \in Clients : BarrierAt(p, d)' => BarrierAt(p, d)
    BY <2>1, <2>3, <2>4, <2>5 DEF BarrierAt
  <2>7. \A p \in Wqs, d \in Clients :
           (On(p, d)' => ~Taken(p, d)' /\ ~Inside(p, d)') /\ (Taken(p, d)' => ~Inside(p, d)')
    BY <2>1, <2>3, <2>4, <2>5 DEF Barriers, OneBarrier
  <2>8. \A d \in Clients : pc'[d] = pc[d] /\ tq'[d] = tq[d] /\ done'[d] = done[d]
    BY <2>2, WorkqueueAssumption DEF TypeOK, Threads
  <2>9. \A p \in Wqs, d \in Clients : BarrierAt(p, d) => ~done[d]
    BY OnStack DEF Barriers
  <2> QED
    BY <2>6, <2>7, <2>8, <2>9, BarriersKept
<1>29. ASSUME NEW q \in Wqs, BarrierFunc(q) PROVE Barriers'
  <2>1. PICK h \in Clients : h = Last(frames[q])
    BY <1>29 DEF BarrierFunc, Return
  <2>2. /\ frames[q] # <<>> /\ frames' = [frames EXCEPT ![q] = Front(@)] /\
             done' = [done EXCEPT ![h] = TRUE]
        /\ pc[q] = "func" /\ pc' = [pc EXCEPT ![q] = "end"] /\ UNCHANGED <<worklist, current, tq>>
    BY <1>29, <2>1, Locals
    DEF BarrierFunc, Return, Goto, itemVars, workerVars, localVars, InCallback
  <2>3. \A p \in Wqs, d \in Clients : Inside(p, d)' => Inside(p, d) /\ p # q
    BY <2>2, Left DEF Entries
  <2>4. Inside(q, h)
    BY <2>1, <2>2, Left
  <2>5. \A p \in Wqs, d \in Clients : Taken(p, d)' <=> Taken(p, d)
    BY <2>2 DEF Taken, TypeOK, Threads
  <2>6. \A p \in Wqs, d \in Clients : On(p, d)' <=> On(p, d)
    BY <2>2 DEF On
  <2>7. \A p \in Wqs, d \in Clients : BarrierAt(p, d)' => BarrierAt(p, d) /\ d # h
    BY <2>3, <2>4, <2>5, <2>6 DEF Barriers, OneBarrier, BarrierAt
  <2>8. \A p \in Wqs, d \in Clients :
           (On(p, d)' => ~Taken(p, d)' /\ ~Inside(p, d)') /\ (Taken(p, d)' => ~Inside(p, d)')
    BY <2>3, <2>5, <2>6 DEF Barriers, OneBarrier
  <2>9. \A d \in Clients \ {h} : pc'[d] = pc[d] /\ tq'[d] = tq[d] /\ done'[d] = done[d]
    BY <2>2, WorkqueueAssumption DEF TypeOK, Threads
  <2>10. \A p \in Wqs, d \in Clients : BarrierAt(p, d) => ~done[d]
    BY OnStack DEF Barriers
  <2> QED
    BY <2>7, <2>8, <2>9, <2>10, BarriersKept
<1>30. ASSUME NEW q \in Wqs, CallbackReturn(q) PROVE Barriers'
  <2>1. frames[q] # <<>> /\ frames' = [frames EXCEPT ![q] = Front(@)]
    BY <1>30, Locals DEF CallbackReturn, Return, InCallback
  <2>11. OnFewer
    BY <1>30 DEF CallbackReturn, Return, Goto, itemVars, workerVars, localVars, On
  <2>12. TakenFewer
    BY <1>30, WorkqueueAssumption
    DEF CallbackReturn, Return, Goto, itemVars, workerVars, localVars, Taken, TypeOK, Threads, Base
  <2>13. InsideFewer
    BY <2>1, Left DEF Entries
  <2>14. WaitersSame
    BY <1>30, WorkqueueAssumption
    DEF CallbackReturn, Return, Goto, itemVars, workerVars, localVars, TypeOK, Threads, Base,
        Waiting
  <2> QED
    BY <2>11, <2>12, <2>13, <2>14, BarriersStay
<1>31. ASSUME NEW q \in Wqs, SelfFlush(q) PROVE Barriers'
  <2>11. OnFewer
    BY <1>31 DEF SelfFlush, Goto, itemVars, workerVars, localVars, On
  <2>12. TakenFewer
    BY <1>31, WorkqueueAssumption
    DEF SelfFlush, Goto, itemVars, workerVars, localVars, Taken, TypeOK, Threads, Base
  <2>13. InsideFewer
    BY <1>31 DEF SelfFlush, Goto, itemVars, workerVars, localVars, Inside
  <2>14. WaitersSame
    BY <1>31, WorkqueueAssumption
    DEF SelfFlush, Goto, itemVars, workerVars, localVars, TypeOK, Threads, Base, Waiting
  <2> QED
    BY <2>11, <2>12, <2>13, <2>14, BarriersStay
<1>32. ASSUME NEW w \in Works, TimerExpire(w) PROVE Barriers'
  <2>11. OnFewer
    BY <1>32 DEF TimerExpire, queueVars, workerVars, localVars, On
  <2>12. TakenFewer
    BY <1>32, WorkqueueAssumption
    DEF TimerExpire, queueVars, workerVars, localVars, Taken, TypeOK, Threads, Base
  <2>13. InsideFewer
    BY <1>32 DEF TimerExpire, queueVars, workerVars, localVars, Inside
  <2>14. WaitersSame
    BY <1>32, WorkqueueAssumption
    DEF TimerExpire, queueVars, workerVars, localVars, TypeOK, Threads, Base, Waiting
  <2> QED
    BY <2>11, <2>12, <2>13, <2>14, BarriersStay
<1>33. ASSUME NEW w \in Works, DelayedWorkTimerFn(w) PROVE Barriers'
  <2>1. PICK b \in Wqs : b = data[w]
    BY <1>33 DEF DelayedWorkTimerFn, DataSet, DataIsRight, TypeOK
  <2>11. OnFewer
    BY <1>33, <2>1, WorkInserted, WorkqueueAssumption DEF DelayedWorkTimerFn, Entries
  <2>12. TakenFewer
    BY <1>33, WorkqueueAssumption
    DEF DelayedWorkTimerFn, WakeWorker, InsertWork, localVars, Taken, TypeOK, Threads, Base
  <2>13. InsideFewer
    BY <1>33 DEF DelayedWorkTimerFn, WakeWorker, InsertWork, localVars, Inside
  <2>14. WaitersSame
    BY <1>33, WorkqueueAssumption
    DEF DelayedWorkTimerFn, WakeWorker, InsertWork, localVars, TypeOK, Threads, Base, Waiting
  <2> QED
    BY <2>11, <2>12, <2>13, <2>14, BarriersStay
<1> QED
  BY <1>1, <1>2, <1>3, <1>4, <1>5, <1>6, <1>7, <1>8, <1>9, <1>10,
     <1>11, <1>12, <1>13, <1>14, <1>15, <1>16, <1>17, <1>18, <1>19, <1>20,
     <1>21, <1>22, <1>23, <1>24, <1>25, <1>26, <1>27, <1>28, <1>29, <1>30,
     <1>31, <1>32, <1>33
  DEF Next, Queueing, Insertion, ClientCall, ClientStep, WorkerStep, TimerStep

-----------------------------------------------------------------------------
(* Nothing is queued on a workqueue that is being destroyed.               *)
LEMMA ContractStep ==
  ASSUME TypeOK, Shape, DataSet, Closing, [Next]_vars
  PROVE  Contract'
<1> DEFINE NoQueuers == \A p \in Wqs, y \in Threads : closing'[p] /\ pc'[y] \in Queuing =>
           tq'[y] # p
           NoTimers == \A p \in Wqs, v \in Works : closing'[p] /\ data'[v] = p => timer'[v] = "off"
           StopCloses == \A p \in Wqs : stop'[p] => closing'[p]
           DeadStopped == \A p \in Wqs : pc'[p] = "dead" => stop'[p]
<1>1. CASE UNCHANGED vars
  BY <1>1 DEF vars, Closing, Contract
<1>2. ASSUME NEW x \in Threads, NEW w \in Works, NEW q \in Wqs, QueueWork(x, w, q) PROVE Contract'
  <2>11. NoQueuers
    BY <1>2, WorkqueueAssumption
    DEF QueueWork, MayQueue, Goto, queueVars, workerVars, Closing, Contract, Queuing, TypeOK,
        Threads, Base
  <2>12. NoTimers
    BY <1>2
    DEF QueueWork, MayQueue, Goto, queueVars, workerVars, Closing, Contract, Queuing, DataSet,
        TypeOK
  <2>13. StopCloses
    BY <1>2 DEF QueueWork, MayQueue, Goto, queueVars, workerVars, Closing, Contract, TypeOK
  <2>14. DeadStopped
    BY <1>2, WorkqueueAssumption
    DEF QueueWork, MayQueue, Goto, queueVars, workerVars, Closing, Contract, TypeOK, Threads, Base
  <2> QED
    BY <2>11, <2>12, <2>13, <2>14 DEF Contract
<1>3. ASSUME NEW x \in Threads, NEW w \in Works, NEW q \in Wqs, QueueDelayedWork(x, w, q)
      PROVE  Contract'
  <2>11. NoQueuers
    BY <1>3, WorkqueueAssumption
    DEF QueueDelayedWork, MayQueue, Goto, queueVars, workerVars, Closing, Contract, Queuing,
        TypeOK, Threads, Base
  <2>12. NoTimers
    BY <1>3
    DEF QueueDelayedWork, MayQueue, Goto, queueVars, workerVars, Closing, Contract, Queuing,
        DataSet, TypeOK
  <2>13. StopCloses
    BY <1>3 DEF QueueDelayedWork, MayQueue, Goto, queueVars, workerVars, Closing, Contract, TypeOK
  <2>14. DeadStopped
    BY <1>3, WorkqueueAssumption
    DEF QueueDelayedWork, MayQueue, Goto, queueVars, workerVars, Closing, Contract, TypeOK,
        Threads, Base
  <2> QED
    BY <2>11, <2>12, <2>13, <2>14 DEF Contract
<1>4. ASSUME NEW x \in Threads, QueueWorkInsert(x) PROVE Contract'
  <2>1. PICK a \in Works, b \in Wqs : a = arg[x] /\ b = tq[x] /\ Queuer(x, a)
    BY <1>4, Locals DEF QueueWorkInsert, Queuing, Queuer
  <2>11. NoQueuers
    BY <1>4, <2>1, WorkqueueAssumption
    DEF QueueWorkInsert, WakeWorker, InsertWork, Goto, Closing, Contract, Queuing, TypeOK, Threads,
        Base
  <2>12. NoTimers
    BY <1>4, <2>1
    DEF QueueWorkInsert, WakeWorker, InsertWork, Goto, Closing, Contract, Queuing, DataSet, TypeOK
  <2>13. StopCloses
    BY <1>4, <2>1 DEF QueueWorkInsert, WakeWorker, InsertWork, Goto, Closing, Contract, TypeOK
  <2>14. DeadStopped
    BY <1>4, <2>1, WorkqueueAssumption
    DEF QueueWorkInsert, WakeWorker, InsertWork, Goto, Closing, Contract, TypeOK, Threads, Base
  <2> QED
    BY <2>11, <2>12, <2>13, <2>14 DEF Contract
<1>5. ASSUME NEW x \in Threads, SetWqData(x) PROVE Contract'
  <2>1. PICK a \in Works, b \in Wqs : a = arg[x] /\ b = tq[x] /\ Queuer(x, a)
    BY <1>5, Locals DEF SetWqData, Queuing, Queuer
  <2>11. NoQueuers
    BY <1>5, <2>1, WorkqueueAssumption
    DEF SetWqData, Goto, queueVars, workerVars, localVars, Closing, Contract, Queuing, TypeOK,
        Threads, Base
  <2>12. NoTimers
    BY <1>5, <2>1
    DEF SetWqData, Goto, queueVars, workerVars, localVars, Closing, Contract, Queuing, DataSet,
        TypeOK
  <2>13. StopCloses
    BY <1>5, <2>1 DEF SetWqData, Goto, queueVars, workerVars, localVars, Closing, Contract, TypeOK
  <2>14. DeadStopped
    BY <1>5, <2>1, WorkqueueAssumption
    DEF SetWqData, Goto, queueVars, workerVars, localVars, Closing, Contract, TypeOK, Threads, Base
  <2> QED
    BY <2>11, <2>12, <2>13, <2>14 DEF Contract
<1>6. ASSUME NEW x \in Threads, AddTimer(x) PROVE Contract'
  <2>1. PICK a \in Works, b \in Wqs : a = arg[x] /\ b = tq[x] /\ Queuer(x, a)
    BY <1>6, Locals DEF AddTimer, Queuing, Queuer
  <2>11. NoQueuers
    BY <1>6, <2>1, WorkqueueAssumption
    DEF AddTimer, Goto, queueVars, workerVars, Closing, Contract, Queuing, TypeOK, Threads, Base
  <2>12. NoTimers
    BY <1>6, <2>1
    DEF AddTimer, Goto, queueVars, workerVars, Closing, Contract, Queuing, DataSet, TypeOK
  <2>13. StopCloses
    BY <1>6, <2>1 DEF AddTimer, Goto, queueVars, workerVars, Closing, Contract, TypeOK
  <2>14. DeadStopped
    BY <1>6, <2>1, WorkqueueAssumption
    DEF AddTimer, Goto, queueVars, workerVars, Closing, Contract, TypeOK, Threads, Base
  <2> QED
    BY <2>11, <2>12, <2>13, <2>14 DEF Contract
<1>7. ASSUME NEW c \in Clients, NEW q \in Wqs, FlushWorkqueue(c, q) PROVE Contract'
  <2>11. NoQueuers
    BY <1>7, WorkqueueAssumption
    DEF FlushWorkqueue, WakeWorker, InsertBarrier, FlushCpuWorkqueue, Goto, itemVars, Closing,
        Contract, Queuing, TypeOK, Threads, Base
  <2>12. NoTimers
    BY <1>7
    DEF FlushWorkqueue, WakeWorker, InsertBarrier, FlushCpuWorkqueue, Goto, itemVars, Closing,
        Contract, Queuing, DataSet, TypeOK
  <2>13. StopCloses
    BY <1>7
    DEF FlushWorkqueue, WakeWorker, InsertBarrier, FlushCpuWorkqueue, Goto, itemVars, Closing,
        Contract, TypeOK
  <2>14. DeadStopped
    BY <1>7, WorkqueueAssumption
    DEF FlushWorkqueue, WakeWorker, InsertBarrier, FlushCpuWorkqueue, Goto, itemVars, Closing,
        Contract, TypeOK, Threads, Base
  <2> QED
    BY <2>11, <2>12, <2>13, <2>14 DEF Contract
<1>8. ASSUME NEW c \in Clients, NEW q \in Wqs, DestroyWorkqueue(c, q) PROVE Contract'
  <2>1. \A y \in Threads \ {c} : pc'[y] = pc[y] /\ tq'[y] = tq[y]
    BY <1>8
    DEF DestroyWorkqueue, WakeWorker, InsertBarrier, FlushCpuWorkqueue, Goto, itemVars, TypeOK,
        Threads
  <2>2. pc'[c] \notin Queuing /\ \A y \in Threads : pc[y] \in Queuing => tq[y] # q
    BY <1>8, WorkqueueAssumption
    DEF DestroyWorkqueue, WakeWorker, InsertBarrier, FlushCpuWorkqueue, Goto, itemVars, Unused,
        Queuing, TypeOK, Threads
  <2>3. \A p \in Wqs : closing'[p] <=> closing[p] \/ p = q
    BY <1>8
    DEF DestroyWorkqueue, WakeWorker, InsertBarrier, FlushCpuWorkqueue, Goto, itemVars, TypeOK
  <2>11. NoQueuers
    BY <2>1, <2>2, <2>3 DEF Closing, Contract
  <2>12. NoTimers
    BY <1>8
    DEF DestroyWorkqueue, WakeWorker, InsertBarrier, FlushCpuWorkqueue, Goto, itemVars, Closing,
        Contract, Queuing, DataSet, TypeOK, Unused
  <2>13. StopCloses
    BY <1>8
    DEF DestroyWorkqueue, WakeWorker, InsertBarrier, FlushCpuWorkqueue, Goto, itemVars, Closing,
        Contract, TypeOK, Unused
  <2>14. DeadStopped
    BY <1>8, WorkqueueAssumption
    DEF DestroyWorkqueue, WakeWorker, InsertBarrier, FlushCpuWorkqueue, Goto, itemVars, Closing,
        Contract, TypeOK, Threads, Base, Unused
  <2> QED
    BY <2>11, <2>12, <2>13, <2>14 DEF Contract
<1>9. ASSUME NEW c \in Clients, NEW w \in Works, CancelDelayedWork(c, w) PROVE Contract'
  <2>11. NoQueuers
    BY <1>9, WorkqueueAssumption
    DEF CancelDelayedWork, Goto, queueVars, workerVars, Closing, Contract, Queuing, TypeOK,
        Threads, Base
  <2>12. NoTimers
    BY <1>9
    DEF CancelDelayedWork, Goto, queueVars, workerVars, Closing, Contract, Queuing, DataSet, TypeOK
  <2>13. StopCloses
    BY <1>9 DEF CancelDelayedWork, Goto, queueVars, workerVars, Closing, Contract, TypeOK
  <2>14. DeadStopped
    BY <1>9, WorkqueueAssumption
    DEF CancelDelayedWork, Goto, queueVars, workerVars, Closing, Contract, TypeOK, Threads, Base
  <2> QED
    BY <2>11, <2>12, <2>13, <2>14 DEF Contract
<1>10. ASSUME NEW c \in Clients, NEW w \in Works, NEW t \in BOOLEAN, CancelWork(c, w, t)
       PROVE  Contract'
  <2>11. NoQueuers
    BY <1>10, WorkqueueAssumption
    DEF CancelWork, Goto, itemVars, queueVars, workerVars, Closing, Contract, Queuing, TypeOK,
        Threads, Base
  <2>12. NoTimers
    BY <1>10
    DEF CancelWork, Goto, itemVars, queueVars, workerVars, Closing, Contract, Queuing, DataSet,
        TypeOK
  <2>13. StopCloses
    BY <1>10 DEF CancelWork, Goto, itemVars, queueVars, workerVars, Closing, Contract, TypeOK
  <2>14. DeadStopped
    BY <1>10, WorkqueueAssumption
    DEF CancelWork, Goto, itemVars, queueVars, workerVars, Closing, Contract, TypeOK, Threads, Base
  <2> QED
    BY <2>11, <2>12, <2>13, <2>14 DEF Contract
<1>11. ASSUME NEW c \in Clients, FlushDone(c) PROVE Contract'
  <2>11. NoQueuers
    BY <1>11, WorkqueueAssumption
    DEF FlushDone, Goto, itemVars, queueVars, workerVars, localVars, Closing, Contract, Queuing,
        TypeOK, Threads, Base
  <2>12. NoTimers
    BY <1>11
    DEF FlushDone, Goto, itemVars, queueVars, workerVars, localVars, Closing, Contract, Queuing,
        DataSet, TypeOK
  <2>13. StopCloses
    BY <1>11
    DEF FlushDone, Goto, itemVars, queueVars, workerVars, localVars, Closing, Contract, TypeOK
  <2>14. DeadStopped
    BY <1>11, WorkqueueAssumption
    DEF FlushDone, Goto, itemVars, queueVars, workerVars, localVars, Closing, Contract, TypeOK,
        Threads, Base
  <2> QED
    BY <2>11, <2>12, <2>13, <2>14 DEF Contract
<1>12. ASSUME NEW c \in Clients, FlushReturn(c) PROVE Contract'
  <2>11. NoQueuers
    BY <1>12, WorkqueueAssumption
    DEF FlushReturn, Goto, itemVars, queueVars, workerVars, Closing, Contract, Queuing, TypeOK,
        Threads, Base
  <2>12. NoTimers
    BY <1>12
    DEF FlushReturn, Goto, itemVars, queueVars, workerVars, Closing, Contract, Queuing, DataSet,
        TypeOK
  <2>13. StopCloses
    BY <1>12 DEF FlushReturn, Goto, itemVars, queueVars, workerVars, Closing, Contract, TypeOK
  <2>14. DeadStopped
    BY <1>12, WorkqueueAssumption
    DEF FlushReturn, Goto, itemVars, queueVars, workerVars, Closing, Contract, TypeOK, Threads, Base
  <2> QED
    BY <2>11, <2>12, <2>13, <2>14 DEF Contract
<1>13. ASSUME NEW c \in Clients, KthreadStop(c) PROVE Contract'
  <2>1. PICK b \in Wqs : b = tq[c] /\ closing[b]
    BY <1>13, Locals DEF KthreadStop, Destroying, Closing, Destroyers
  <2>11. NoQueuers
    BY <1>13, <2>1, WorkqueueAssumption
    DEF KthreadStop, WakeWorker, Goto, itemVars, queueVars, localVars, Closing, Contract, Queuing,
        TypeOK, Threads, Base
  <2>12. NoTimers
    BY <1>13, <2>1
    DEF KthreadStop, WakeWorker, Goto, itemVars, queueVars, localVars, Closing, Contract, Queuing,
        DataSet, TypeOK
  <2>13. StopCloses
    BY <1>13, <2>1
    DEF KthreadStop, WakeWorker, Goto, itemVars, queueVars, localVars, Closing, Contract, TypeOK
  <2>14. DeadStopped
    BY <1>13, <2>1, WorkqueueAssumption
    DEF KthreadStop, WakeWorker, Goto, itemVars, queueVars, localVars, Closing, Contract, TypeOK,
        Threads, Base
  <2> QED
    BY <2>11, <2>12, <2>13, <2>14 DEF Contract
<1>14. ASSUME NEW c \in Clients, DestroyReturn(c) PROVE Contract'
  <2>11. NoQueuers
    BY <1>14, WorkqueueAssumption
    DEF DestroyReturn, Goto, itemVars, queueVars, workerVars, Closing, Contract, Queuing, TypeOK,
        Threads, Base
  <2>12. NoTimers
    BY <1>14
    DEF DestroyReturn, Goto, itemVars, queueVars, workerVars, Closing, Contract, Queuing, DataSet,
        TypeOK
  <2>13. StopCloses
    BY <1>14 DEF DestroyReturn, Goto, itemVars, queueVars, workerVars, Closing, Contract, TypeOK
  <2>14. DeadStopped
    BY <1>14, WorkqueueAssumption
    DEF DestroyReturn, Goto, itemVars, queueVars, workerVars, Closing, Contract, TypeOK, Threads,
        Base
  <2> QED
    BY <2>11, <2>12, <2>13, <2>14 DEF Contract
<1>15. ASSUME NEW c \in Clients, DelTimer(c) PROVE Contract'
  <2>11. NoQueuers
    BY <1>15, WorkqueueAssumption
    DEF DelTimer, Goto, queueVars, workerVars, Closing, Contract, Queuing, TypeOK, Threads, Base
  <2>12. NoTimers
    BY <1>15 DEF DelTimer, Goto, queueVars, workerVars, Closing, Contract, Queuing, DataSet, TypeOK
  <2>13. StopCloses
    BY <1>15 DEF DelTimer, Goto, queueVars, workerVars, Closing, Contract, TypeOK
  <2>14. DeadStopped
    BY <1>15, WorkqueueAssumption
    DEF DelTimer, Goto, queueVars, workerVars, Closing, Contract, TypeOK, Threads, Base
  <2> QED
    BY <2>11, <2>12, <2>13, <2>14 DEF Contract
<1>16. ASSUME NEW c \in Clients, TryToGrabPending(c) PROVE Contract'
  <2>1. /\ \A y \in Threads \ {c} : pc'[y] = pc[y] /\ tq'[y] = tq[y]
        /\ closing' = closing /\ pc'[c] \notin Queuing
    BY <1>16 DEF TryToGrabPending, Goto, queueVars, workerVars, TypeOK, Threads, Queuing
  <2>11. NoQueuers
    BY <2>1 DEF Closing, Contract
  <2>12. NoTimers
    BY <1>16
    DEF TryToGrabPending, Goto, queueVars, workerVars, Closing, Contract, Queuing, DataSet, TypeOK
  <2>13. StopCloses
    BY <1>16 DEF TryToGrabPending, Goto, queueVars, workerVars, Closing, Contract, TypeOK
  <2>14. DeadStopped
    BY <1>16, WorkqueueAssumption
    DEF TryToGrabPending, Goto, queueVars, workerVars, Closing, Contract, TypeOK, Threads, Base
  <2> QED
    BY <2>11, <2>12, <2>13, <2>14 DEF Contract
<1>17. ASSUME NEW c \in Clients, StealWork(c) PROVE Contract'
  <2>11. NoQueuers
    BY <1>17, WorkqueueAssumption
    DEF StealWork, Goto, itemVars, workerVars, Closing, Contract, Queuing, TypeOK, Threads, Base
  <2>12. NoTimers
    BY <1>17 DEF StealWork, Goto, itemVars, workerVars, Closing, Contract, Queuing, DataSet, TypeOK
  <2>13. StopCloses
    BY <1>17 DEF StealWork, Goto, itemVars, workerVars, Closing, Contract, TypeOK
  <2>14. DeadStopped
    BY <1>17, WorkqueueAssumption
    DEF StealWork, Goto, itemVars, workerVars, Closing, Contract, TypeOK, Threads, Base
  <2> QED
    BY <2>11, <2>12, <2>13, <2>14 DEF Contract
<1>18. ASSUME NEW c \in Clients, WaitOnWork(c) PROVE Contract'
  <2>11. NoQueuers
    BY <1>18, WorkqueueAssumption
    DEF WaitOnWork, Goto, itemVars, queueVars, workerVars, Closing, Contract, Queuing, TypeOK,
        Threads, Base
  <2>12. NoTimers
    BY <1>18
    DEF WaitOnWork, Goto, itemVars, queueVars, workerVars, Closing, Contract, Queuing, DataSet,
        TypeOK
  <2>13. StopCloses
    BY <1>18 DEF WaitOnWork, Goto, itemVars, queueVars, workerVars, Closing, Contract, TypeOK
  <2>14. DeadStopped
    BY <1>18, WorkqueueAssumption
    DEF WaitOnWork, Goto, itemVars, queueVars, workerVars, Closing, Contract, TypeOK, Threads, Base
  <2> QED
    BY <2>11, <2>12, <2>13, <2>14 DEF Contract
<1>19. ASSUME NEW c \in Clients, WaitOnCpuWork(c) PROVE Contract'
  <2>11. NoQueuers
    BY <1>19, WorkqueueAssumption
    DEF WaitOnCpuWork, WakeWorker, InsertBarrier, Goto, itemVars, Closing, Contract, Queuing,
        TypeOK, Threads, Base
  <2>12. NoTimers
    BY <1>19
    DEF WaitOnCpuWork, WakeWorker, InsertBarrier, Goto, itemVars, Closing, Contract, Queuing,
        DataSet, TypeOK
  <2>13. StopCloses
    BY <1>19 DEF WaitOnCpuWork, WakeWorker, InsertBarrier, Goto, itemVars, Closing, Contract, TypeOK
  <2>14. DeadStopped
    BY <1>19, WorkqueueAssumption
    DEF WaitOnCpuWork, WakeWorker, InsertBarrier, Goto, itemVars, Closing, Contract, TypeOK,
        Threads, Base
  <2> QED
    BY <2>11, <2>12, <2>13, <2>14 DEF Contract
<1>20. ASSUME NEW c \in Clients, WaitOnWorkDone(c) PROVE Contract'
  <2>11. NoQueuers
    BY <1>20, WorkqueueAssumption
    DEF WaitOnWorkDone, Goto, itemVars, queueVars, workerVars, localVars, Closing, Contract,
        Queuing, TypeOK, Threads, Base
  <2>12. NoTimers
    BY <1>20
    DEF WaitOnWorkDone, Goto, itemVars, queueVars, workerVars, localVars, Closing, Contract,
        Queuing, DataSet, TypeOK
  <2>13. StopCloses
    BY <1>20
    DEF WaitOnWorkDone, Goto, itemVars, queueVars, workerVars, localVars, Closing, Contract, TypeOK
  <2>14. DeadStopped
    BY <1>20, WorkqueueAssumption
    DEF WaitOnWorkDone, Goto, itemVars, queueVars, workerVars, localVars, Closing, Contract,
        TypeOK, Threads, Base
  <2> QED
    BY <2>11, <2>12, <2>13, <2>14 DEF Contract
<1>21. ASSUME NEW c \in Clients, CancelNext(c) PROVE Contract'
  <2>11. NoQueuers
    BY <1>21, WorkqueueAssumption
    DEF CancelNext, Goto, queueVars, workerVars, Closing, Contract, Queuing, TypeOK, Threads, Base
  <2>12. NoTimers
    BY <1>21
    DEF CancelNext, Goto, queueVars, workerVars, Closing, Contract, Queuing, DataSet, TypeOK
  <2>13. StopCloses
    BY <1>21 DEF CancelNext, Goto, queueVars, workerVars, Closing, Contract, TypeOK
  <2>14. DeadStopped
    BY <1>21, WorkqueueAssumption
    DEF CancelNext, Goto, queueVars, workerVars, Closing, Contract, TypeOK, Threads, Base
  <2> QED
    BY <2>11, <2>12, <2>13, <2>14 DEF Contract
<1>22. ASSUME NEW c \in Clients, WorkClearPending(c) PROVE Contract'
  <2>11. NoQueuers
    BY <1>22, WorkqueueAssumption
    DEF WorkClearPending, Goto, queueVars, workerVars, Closing, Contract, Queuing, TypeOK, Threads,
        Base
  <2>12. NoTimers
    BY <1>22
    DEF WorkClearPending, Goto, queueVars, workerVars, Closing, Contract, Queuing, DataSet, TypeOK
  <2>13. StopCloses
    BY <1>22 DEF WorkClearPending, Goto, queueVars, workerVars, Closing, Contract, TypeOK
  <2>14. DeadStopped
    BY <1>22, WorkqueueAssumption
    DEF WorkClearPending, Goto, queueVars, workerVars, Closing, Contract, TypeOK, Threads, Base
  <2> QED
    BY <2>11, <2>12, <2>13, <2>14 DEF Contract
<1>23. ASSUME NEW q \in Wqs, PrepareToWait(q) PROVE Contract'
  <2>11. NoQueuers
    BY <1>23, WorkqueueAssumption
    DEF PrepareToWait, Goto, itemVars, queueVars, localVars, Closing, Contract, Queuing, TypeOK,
        Threads, Base
  <2>12. NoTimers
    BY <1>23
    DEF PrepareToWait, Goto, itemVars, queueVars, localVars, Closing, Contract, Queuing, DataSet,
        TypeOK
  <2>13. StopCloses
    BY <1>23 DEF PrepareToWait, Goto, itemVars, queueVars, localVars, Closing, Contract, TypeOK
  <2>14. DeadStopped
    BY <1>23, WorkqueueAssumption
    DEF PrepareToWait, Goto, itemVars, queueVars, localVars, Closing, Contract, TypeOK, Threads,
        Base
  <2> QED
    BY <2>11, <2>12, <2>13, <2>14 DEF Contract
<1>24. ASSUME NEW q \in Wqs, CheckWork(q) PROVE Contract'
  <2>11. NoQueuers
    BY <1>24, WorkqueueAssumption
    DEF CheckWork, Goto, itemVars, queueVars, workerVars, localVars, Closing, Contract, Queuing,
        TypeOK, Threads, Base
  <2>12. NoTimers
    BY <1>24
    DEF CheckWork, Goto, itemVars, queueVars, workerVars, localVars, Closing, Contract, Queuing,
        DataSet, TypeOK
  <2>13. StopCloses
    BY <1>24
    DEF CheckWork, Goto, itemVars, queueVars, workerVars, localVars, Closing, Contract, TypeOK
  <2>14. DeadStopped
    BY <1>24, WorkqueueAssumption
    DEF CheckWork, Goto, itemVars, queueVars, workerVars, localVars, Closing, Contract, TypeOK,
        Threads, Base
  <2> QED
    BY <2>11, <2>12, <2>13, <2>14 DEF Contract
<1>25. ASSUME NEW q \in Wqs, Schedule(q) PROVE Contract'
  <2>11. NoQueuers
    BY <1>25, WorkqueueAssumption
    DEF Schedule, Goto, itemVars, queueVars, workerVars, localVars, Closing, Contract, Queuing,
        TypeOK, Threads, Base
  <2>12. NoTimers
    BY <1>25
    DEF Schedule, Goto, itemVars, queueVars, workerVars, localVars, Closing, Contract, Queuing,
        DataSet, TypeOK
  <2>13. StopCloses
    BY <1>25
    DEF Schedule, Goto, itemVars, queueVars, workerVars, localVars, Closing, Contract, TypeOK
  <2>14. DeadStopped
    BY <1>25, WorkqueueAssumption
    DEF Schedule, Goto, itemVars, queueVars, workerVars, localVars, Closing, Contract, TypeOK,
        Threads, Base
  <2> QED
    BY <2>11, <2>12, <2>13, <2>14 DEF Contract
<1>26. ASSUME NEW q \in Wqs, FinishWait(q) PROVE Contract'
  <2>11. NoQueuers
    BY <1>26, WorkqueueAssumption
    DEF FinishWait, WakeWorker, Goto, itemVars, queueVars, localVars, Closing, Contract, Queuing,
        TypeOK, Threads, Base
  <2>12. NoTimers
    BY <1>26
    DEF FinishWait, WakeWorker, Goto, itemVars, queueVars, localVars, Closing, Contract, Queuing,
        DataSet, TypeOK
  <2>13. StopCloses
    BY <1>26
    DEF FinishWait, WakeWorker, Goto, itemVars, queueVars, localVars, Closing, Contract, TypeOK
  <2>14. DeadStopped
    BY <1>26, WorkqueueAssumption
    DEF FinishWait, WakeWorker, Goto, itemVars, queueVars, localVars, Closing, Contract, TypeOK,
        Threads, Base
  <2> QED
    BY <2>11, <2>12, <2>13, <2>14 DEF Contract
<1>27. ASSUME NEW q \in Wqs, RunWorkqueue(q) PROVE Contract'
  <2>11. NoQueuers
    BY <1>27, WorkqueueAssumption
    DEF RunWorkqueue, Goto, itemVars, workerVars, localVars, Closing, Contract, Queuing, TypeOK,
        Threads, Base
  <2>12. NoTimers
    BY <1>27
    DEF RunWorkqueue, Goto, itemVars, workerVars, localVars, Closing, Contract, Queuing, DataSet,
        TypeOK
  <2>13. StopCloses
    BY <1>27 DEF RunWorkqueue, Goto, itemVars, workerVars, localVars, Closing, Contract, TypeOK
  <2>14. DeadStopped
    BY <1>27, WorkqueueAssumption
    DEF RunWorkqueue, Goto, itemVars, workerVars, localVars, Closing, Contract, TypeOK, Threads,
        Base
  <2> QED
    BY <2>11, <2>12, <2>13, <2>14 DEF Contract
<1>28. ASSUME NEW q \in Wqs, ClearPending(q) PROVE Contract'
  <2>11. NoQueuers
    BY <1>28, WorkqueueAssumption
    DEF ClearPending, Goto, workerVars, localVars, Closing, Contract, Queuing, TypeOK, Threads, Base
  <2>12. NoTimers
    BY <1>28
    DEF ClearPending, Goto, workerVars, localVars, Closing, Contract, Queuing, DataSet, TypeOK
  <2>13. StopCloses
    BY <1>28 DEF ClearPending, Goto, workerVars, localVars, Closing, Contract, TypeOK
  <2>14. DeadStopped
    BY <1>28, WorkqueueAssumption
    DEF ClearPending, Goto, workerVars, localVars, Closing, Contract, TypeOK, Threads, Base
  <2> QED
    BY <2>11, <2>12, <2>13, <2>14 DEF Contract
<1>29. ASSUME NEW q \in Wqs, BarrierFunc(q) PROVE Contract'
  <2>11. NoQueuers
    BY <1>29, WorkqueueAssumption
    DEF BarrierFunc, Return, Goto, itemVars, workerVars, localVars, Closing, Contract, Queuing,
        TypeOK, Threads, Base
  <2>12. NoTimers
    BY <1>29
    DEF BarrierFunc, Return, Goto, itemVars, workerVars, localVars, Closing, Contract, Queuing,
        DataSet, TypeOK
  <2>13. StopCloses
    BY <1>29
    DEF BarrierFunc, Return, Goto, itemVars, workerVars, localVars, Closing, Contract, TypeOK
  <2>14. DeadStopped
    BY <1>29, WorkqueueAssumption
    DEF BarrierFunc, Return, Goto, itemVars, workerVars, localVars, Closing, Contract, TypeOK,
        Threads, Base
  <2> QED
    BY <2>11, <2>12, <2>13, <2>14 DEF Contract
<1>30. ASSUME NEW q \in Wqs, CallbackReturn(q) PROVE Contract'
  <2>11. NoQueuers
    BY <1>30, WorkqueueAssumption
    DEF CallbackReturn, Return, Goto, itemVars, workerVars, localVars, Closing, Contract, Queuing,
        TypeOK, Threads, Base
  <2>12. NoTimers
    BY <1>30
    DEF CallbackReturn, Return, Goto, itemVars, workerVars, localVars, Closing, Contract, Queuing,
        DataSet, TypeOK
  <2>13. StopCloses
    BY <1>30
    DEF CallbackReturn, Return, Goto, itemVars, workerVars, localVars, Closing, Contract, TypeOK
  <2>14. DeadStopped
    BY <1>30, WorkqueueAssumption
    DEF CallbackReturn, Return, Goto, itemVars, workerVars, localVars, Closing, Contract, TypeOK,
        Threads, Base
  <2> QED
    BY <2>11, <2>12, <2>13, <2>14 DEF Contract
<1>31. ASSUME NEW q \in Wqs, SelfFlush(q) PROVE Contract'
  <2>11. NoQueuers
    BY <1>31, WorkqueueAssumption
    DEF SelfFlush, Goto, itemVars, workerVars, localVars, Closing, Contract, Queuing, TypeOK,
        Threads, Base
  <2>12. NoTimers
    BY <1>31
    DEF SelfFlush, Goto, itemVars, workerVars, localVars, Closing, Contract, Queuing, DataSet,
        TypeOK
  <2>13. StopCloses
    BY <1>31 DEF SelfFlush, Goto, itemVars, workerVars, localVars, Closing, Contract, TypeOK
  <2>14. DeadStopped
    BY <1>31, WorkqueueAssumption
    DEF SelfFlush, Goto, itemVars, workerVars, localVars, Closing, Contract, TypeOK, Threads, Base
  <2> QED
    BY <2>11, <2>12, <2>13, <2>14 DEF Contract
<1>32. ASSUME NEW w \in Works, TimerExpire(w) PROVE Contract'
  <2>11. NoQueuers
    BY <1>32, WorkqueueAssumption
    DEF TimerExpire, queueVars, workerVars, localVars, Closing, Contract, Queuing, TypeOK, Threads,
        Base
  <2>12. NoTimers
    BY <1>32
    DEF TimerExpire, queueVars, workerVars, localVars, Closing, Contract, Queuing, DataSet, TypeOK
  <2>13. StopCloses
    BY <1>32 DEF TimerExpire, queueVars, workerVars, localVars, Closing, Contract, TypeOK
  <2>14. DeadStopped
    BY <1>32, WorkqueueAssumption
    DEF TimerExpire, queueVars, workerVars, localVars, Closing, Contract, TypeOK, Threads, Base
  <2> QED
    BY <2>11, <2>12, <2>13, <2>14 DEF Contract
<1>33. ASSUME NEW w \in Works, DelayedWorkTimerFn(w) PROVE Contract'
  <2>1. UNCHANGED <<data, closing>> /\ timer' = [timer EXCEPT ![w] = "off"]
    BY <1>33 DEF DelayedWorkTimerFn, WakeWorker, InsertWork, localVars, TypeOK
  <2>11. NoQueuers
    BY <1>33, <2>1, WorkqueueAssumption
    DEF DelayedWorkTimerFn, WakeWorker, InsertWork, localVars, Closing, Contract, Queuing, TypeOK,
        Threads, Base
  <2>12. NoTimers
    BY <1>33, <2>1
    DEF DelayedWorkTimerFn, WakeWorker, InsertWork, localVars, Closing, Contract, Queuing, DataSet,
        TypeOK
  <2>13. StopCloses
    BY <1>33, <2>1
    DEF DelayedWorkTimerFn, WakeWorker, InsertWork, localVars, Closing, Contract, TypeOK
  <2>14. DeadStopped
    BY <1>33, <2>1, WorkqueueAssumption
    DEF DelayedWorkTimerFn, WakeWorker, InsertWork, localVars, Closing, Contract, TypeOK, Threads,
        Base
  <2> QED
    BY <2>11, <2>12, <2>13, <2>14 DEF Contract
<1> QED
  BY <1>1, <1>2, <1>3, <1>4, <1>5, <1>6, <1>7, <1>8, <1>9, <1>10,
     <1>11, <1>12, <1>13, <1>14, <1>15, <1>16, <1>17, <1>18, <1>19, <1>20,
     <1>21, <1>22, <1>23, <1>24, <1>25, <1>26, <1>27, <1>28, <1>29, <1>30,
     <1>31, <1>32, <1>33
  DEF Next, Queueing, Insertion, ClientCall, ClientStep, WorkerStep, TimerStep

(* No second task begins to destroy a workqueue.                           *)
LEMMA DestroyersKept ==
  ASSUME Destroyers, \A p \in Wqs : closing[p] => closing'[p],
         \A d \in Clients : pc'[d] \in Destroying =>
                    pc[d] \in Destroying /\ tq'[d] = tq[d] /\ tq[d] \in Wqs
  PROVE  Destroyers'
BY DEF Destroyers

(* One task destroys a workqueue.                                          *)
LEMMA DestroyersStep ==
  ASSUME TypeOK, Shape, Closing, [Next]_vars
  PROVE  Destroyers'
<1> DEFINE ClosingStays == \A p \in Wqs : closing[p] => closing'[p]
           DestroyersSame == \A d \in Clients : pc'[d] \in Destroying =>
                      pc[d] \in Destroying /\ tq'[d] = tq[d]
<1>1. CASE UNCHANGED vars
  BY <1>1 DEF vars, Closing, Destroyers
<1>2. ASSUME NEW x \in Threads, NEW w \in Works, NEW q \in Wqs, QueueWork(x, w, q) PROVE Destroyers'
  <2>1. ClosingStays
    BY <1>2 DEF QueueWork, MayQueue, Goto, queueVars, workerVars, TypeOK
  <2>2. DestroyersSame
    BY <1>2, WorkqueueAssumption
    DEF QueueWork, MayQueue, Goto, queueVars, workerVars, Destroying, TypeOK, Threads, Base
  <2> QED
    BY <2>1, <2>2, Locals, DestroyersKept DEF Closing
<1>3. ASSUME NEW x \in Threads, NEW w \in Works, NEW q \in Wqs, QueueDelayedWork(x, w, q)
      PROVE  Destroyers'
  <2>1. ClosingStays
    BY <1>3 DEF QueueDelayedWork, MayQueue, Goto, queueVars, workerVars, TypeOK
  <2>2. DestroyersSame
    BY <1>3, WorkqueueAssumption
    DEF QueueDelayedWork, MayQueue, Goto, queueVars, workerVars, Destroying, TypeOK, Threads, Base
  <2> QED
    BY <2>1, <2>2, Locals, DestroyersKept DEF Closing
<1>4. ASSUME NEW x \in Threads, QueueWorkInsert(x) PROVE Destroyers'
  <2>1. ClosingStays
    BY <1>4 DEF QueueWorkInsert, WakeWorker, InsertWork, Goto, TypeOK
  <2>2. DestroyersSame
    BY <1>4, WorkqueueAssumption
    DEF QueueWorkInsert, WakeWorker, InsertWork, Goto, Destroying, TypeOK, Threads, Base
  <2> QED
    BY <2>1, <2>2, Locals, DestroyersKept DEF Closing
<1>5. ASSUME NEW x \in Threads, SetWqData(x) PROVE Destroyers'
  <2>1. ClosingStays
    BY <1>5 DEF SetWqData, Goto, queueVars, workerVars, localVars, TypeOK
  <2>2. DestroyersSame
    BY <1>5, WorkqueueAssumption
    DEF SetWqData, Goto, queueVars, workerVars, localVars, Destroying, TypeOK, Threads, Base
  <2> QED
    BY <2>1, <2>2, Locals, DestroyersKept DEF Closing
<1>6. ASSUME NEW x \in Threads, AddTimer(x) PROVE Destroyers'
  <2>1. ClosingStays
    BY <1>6 DEF AddTimer, Goto, queueVars, workerVars, TypeOK
  <2>2. DestroyersSame
    BY <1>6, WorkqueueAssumption
    DEF AddTimer, Goto, queueVars, workerVars, Destroying, TypeOK, Threads, Base
  <2> QED
    BY <2>1, <2>2, Locals, DestroyersKept DEF Closing
<1>7. ASSUME NEW c \in Clients, NEW q \in Wqs, FlushWorkqueue(c, q) PROVE Destroyers'
  <2>1. ClosingStays
    BY <1>7 DEF FlushWorkqueue, WakeWorker, InsertBarrier, FlushCpuWorkqueue, Goto, itemVars, TypeOK
  <2>2. DestroyersSame
    BY <1>7, WorkqueueAssumption
    DEF FlushWorkqueue, WakeWorker, InsertBarrier, FlushCpuWorkqueue, Goto, itemVars, Destroying,
        TypeOK, Threads, Base
  <2> QED
    BY <2>1, <2>2, Locals, DestroyersKept DEF Closing
<1>8. ASSUME NEW c \in Clients, NEW q \in Wqs, DestroyWorkqueue(c, q) PROVE Destroyers'
  <2>1. /\ pc[c] = "idle" /\ ~closing[q] /\ closing' = [closing EXCEPT ![q] = TRUE]
        /\ tq' = [tq EXCEPT ![c] = q] /\ \A d \in Clients \ {c} : pc'[d] = pc[d]
    BY <1>8
    DEF DestroyWorkqueue, WakeWorker, InsertBarrier, FlushCpuWorkqueue, Goto, itemVars, TypeOK,
        Threads
  <2>2. \A d \in Clients \ {c} : pc[d] \in Destroying =>
             tq'[d] = tq[d] /\ tq[d] \in Wqs /\ closing[tq[d]] /\ tq[d] # q
    BY <2>1, Locals DEF Closing, Destroyers, TypeOK, Threads
  <2>3. tq'[c] = q /\ closing'[q] /\ \A p \in Wqs : closing[p] => closing'[p]
    BY <2>1 DEF TypeOK, Threads
  <2> QED
    BY <2>1, <2>2, <2>3 DEF Closing, Destroyers
<1>9. ASSUME NEW c \in Clients, NEW w \in Works, CancelDelayedWork(c, w) PROVE Destroyers'
  <2>1. ClosingStays
    BY <1>9 DEF CancelDelayedWork, Goto, queueVars, workerVars, TypeOK
  <2>2. DestroyersSame
    BY <1>9, WorkqueueAssumption
    DEF CancelDelayedWork, Goto, queueVars, workerVars, Destroying, TypeOK, Threads, Base
  <2> QED
    BY <2>1, <2>2, Locals, DestroyersKept DEF Closing
<1>10. ASSUME NEW c \in Clients, NEW w \in Works, NEW t \in BOOLEAN, CancelWork(c, w, t)
       PROVE  Destroyers'
  <2>1. ClosingStays
    BY <1>10 DEF CancelWork, Goto, itemVars, queueVars, workerVars, TypeOK
  <2>2. DestroyersSame
    BY <1>10, WorkqueueAssumption
    DEF CancelWork, Goto, itemVars, queueVars, workerVars, Destroying, TypeOK, Threads, Base
  <2> QED
    BY <2>1, <2>2, Locals, DestroyersKept DEF Closing
<1>11. ASSUME NEW c \in Clients, FlushDone(c) PROVE Destroyers'
  <2>1. ClosingStays
    BY <1>11 DEF FlushDone, Goto, itemVars, queueVars, workerVars, localVars, TypeOK
  <2>2. DestroyersSame
    BY <1>11, WorkqueueAssumption
    DEF FlushDone, Goto, itemVars, queueVars, workerVars, localVars, Destroying, TypeOK, Threads,
        Base
  <2> QED
    BY <2>1, <2>2, Locals, DestroyersKept DEF Closing
<1>12. ASSUME NEW c \in Clients, FlushReturn(c) PROVE Destroyers'
  <2>1. ClosingStays
    BY <1>12 DEF FlushReturn, Goto, itemVars, queueVars, workerVars, TypeOK
  <2>2. DestroyersSame
    BY <1>12, WorkqueueAssumption
    DEF FlushReturn, Goto, itemVars, queueVars, workerVars, Destroying, TypeOK, Threads, Base
  <2> QED
    BY <2>1, <2>2, Locals, DestroyersKept DEF Closing
<1>13. ASSUME NEW c \in Clients, KthreadStop(c) PROVE Destroyers'
  <2>1. ClosingStays
    BY <1>13 DEF KthreadStop, WakeWorker, Goto, itemVars, queueVars, localVars, TypeOK
  <2>2. DestroyersSame
    BY <1>13, WorkqueueAssumption
    DEF KthreadStop, WakeWorker, Goto, itemVars, queueVars, localVars, Destroying, TypeOK, Threads,
        Base
  <2> QED
    BY <2>1, <2>2, Locals, DestroyersKept DEF Closing
<1>14. ASSUME NEW c \in Clients, DestroyReturn(c) PROVE Destroyers'
  <2>1. ClosingStays
    BY <1>14 DEF DestroyReturn, Goto, itemVars, queueVars, workerVars, TypeOK
  <2>2. DestroyersSame
    BY <1>14, WorkqueueAssumption
    DEF DestroyReturn, Goto, itemVars, queueVars, workerVars, Destroying, TypeOK, Threads, Base
  <2> QED
    BY <2>1, <2>2, Locals, DestroyersKept DEF Closing
<1>15. ASSUME NEW c \in Clients, DelTimer(c) PROVE Destroyers'
  <2>1. ClosingStays
    BY <1>15 DEF DelTimer, Goto, queueVars, workerVars, TypeOK
  <2>2. DestroyersSame
    BY <1>15, WorkqueueAssumption
    DEF DelTimer, Goto, queueVars, workerVars, Destroying, TypeOK, Threads, Base
  <2> QED
    BY <2>1, <2>2, Locals, DestroyersKept DEF Closing
<1>16. ASSUME NEW c \in Clients, TryToGrabPending(c) PROVE Destroyers'
  <2>1. ClosingStays
    BY <1>16 DEF TryToGrabPending, Goto, queueVars, workerVars, TypeOK
  <2>2. DestroyersSame
    BY <1>16, WorkqueueAssumption
    DEF TryToGrabPending, Goto, queueVars, workerVars, Destroying, TypeOK, Threads, Base
  <2> QED
    BY <2>1, <2>2, Locals, DestroyersKept DEF Closing
<1>17. ASSUME NEW c \in Clients, StealWork(c) PROVE Destroyers'
  <2>1. ClosingStays
    BY <1>17 DEF StealWork, Goto, itemVars, workerVars, TypeOK
  <2>2. DestroyersSame
    BY <1>17, WorkqueueAssumption
    DEF StealWork, Goto, itemVars, workerVars, Destroying, TypeOK, Threads, Base
  <2> QED
    BY <2>1, <2>2, Locals, DestroyersKept DEF Closing
<1>18. ASSUME NEW c \in Clients, WaitOnWork(c) PROVE Destroyers'
  <2>1. ClosingStays
    BY <1>18 DEF WaitOnWork, Goto, itemVars, queueVars, workerVars, TypeOK
  <2>2. DestroyersSame
    BY <1>18, WorkqueueAssumption
    DEF WaitOnWork, Goto, itemVars, queueVars, workerVars, Destroying, TypeOK, Threads, Base
  <2> QED
    BY <2>1, <2>2, Locals, DestroyersKept DEF Closing
<1>19. ASSUME NEW c \in Clients, WaitOnCpuWork(c) PROVE Destroyers'
  <2>1. ClosingStays
    BY <1>19 DEF WaitOnCpuWork, WakeWorker, InsertBarrier, Goto, itemVars, TypeOK
  <2>2. DestroyersSame
    BY <1>19, WorkqueueAssumption
    DEF WaitOnCpuWork, WakeWorker, InsertBarrier, Goto, itemVars, Destroying, TypeOK, Threads, Base
  <2> QED
    BY <2>1, <2>2, Locals, DestroyersKept DEF Closing
<1>20. ASSUME NEW c \in Clients, WaitOnWorkDone(c) PROVE Destroyers'
  <2>1. ClosingStays
    BY <1>20 DEF WaitOnWorkDone, Goto, itemVars, queueVars, workerVars, localVars, TypeOK
  <2>2. DestroyersSame
    BY <1>20, WorkqueueAssumption
    DEF WaitOnWorkDone, Goto, itemVars, queueVars, workerVars, localVars, Destroying, TypeOK,
        Threads, Base
  <2> QED
    BY <2>1, <2>2, Locals, DestroyersKept DEF Closing
<1>21. ASSUME NEW c \in Clients, CancelNext(c) PROVE Destroyers'
  <2>1. ClosingStays
    BY <1>21 DEF CancelNext, Goto, queueVars, workerVars, TypeOK
  <2>2. DestroyersSame
    BY <1>21, WorkqueueAssumption
    DEF CancelNext, Goto, queueVars, workerVars, Destroying, TypeOK, Threads, Base
  <2> QED
    BY <2>1, <2>2, Locals, DestroyersKept DEF Closing
<1>22. ASSUME NEW c \in Clients, WorkClearPending(c) PROVE Destroyers'
  <2>1. ClosingStays
    BY <1>22 DEF WorkClearPending, Goto, queueVars, workerVars, TypeOK
  <2>2. DestroyersSame
    BY <1>22, WorkqueueAssumption
    DEF WorkClearPending, Goto, queueVars, workerVars, Destroying, TypeOK, Threads, Base
  <2> QED
    BY <2>1, <2>2, Locals, DestroyersKept DEF Closing
<1>23. ASSUME NEW q \in Wqs, PrepareToWait(q) PROVE Destroyers'
  <2>1. ClosingStays
    BY <1>23 DEF PrepareToWait, Goto, itemVars, queueVars, localVars, TypeOK
  <2>2. DestroyersSame
    BY <1>23, WorkqueueAssumption
    DEF PrepareToWait, Goto, itemVars, queueVars, localVars, Destroying, TypeOK, Threads, Base
  <2> QED
    BY <2>1, <2>2, Locals, DestroyersKept DEF Closing
<1>24. ASSUME NEW q \in Wqs, CheckWork(q) PROVE Destroyers'
  <2>1. ClosingStays
    BY <1>24 DEF CheckWork, Goto, itemVars, queueVars, workerVars, localVars, TypeOK
  <2>2. DestroyersSame
    BY <1>24, WorkqueueAssumption
    DEF CheckWork, Goto, itemVars, queueVars, workerVars, localVars, Destroying, TypeOK, Threads,
        Base
  <2> QED
    BY <2>1, <2>2, Locals, DestroyersKept DEF Closing
<1>25. ASSUME NEW q \in Wqs, Schedule(q) PROVE Destroyers'
  <2>1. ClosingStays
    BY <1>25 DEF Schedule, Goto, itemVars, queueVars, workerVars, localVars, TypeOK
  <2>2. DestroyersSame
    BY <1>25, WorkqueueAssumption
    DEF Schedule, Goto, itemVars, queueVars, workerVars, localVars, Destroying, TypeOK, Threads,
        Base
  <2> QED
    BY <2>1, <2>2, Locals, DestroyersKept DEF Closing
<1>26. ASSUME NEW q \in Wqs, FinishWait(q) PROVE Destroyers'
  <2>1. ClosingStays
    BY <1>26 DEF FinishWait, WakeWorker, Goto, itemVars, queueVars, localVars, TypeOK
  <2>2. DestroyersSame
    BY <1>26, WorkqueueAssumption
    DEF FinishWait, WakeWorker, Goto, itemVars, queueVars, localVars, Destroying, TypeOK, Threads,
        Base
  <2> QED
    BY <2>1, <2>2, Locals, DestroyersKept DEF Closing
<1>27. ASSUME NEW q \in Wqs, RunWorkqueue(q) PROVE Destroyers'
  <2>1. ClosingStays
    BY <1>27 DEF RunWorkqueue, Goto, itemVars, workerVars, localVars, TypeOK
  <2>2. DestroyersSame
    BY <1>27, WorkqueueAssumption
    DEF RunWorkqueue, Goto, itemVars, workerVars, localVars, Destroying, TypeOK, Threads, Base
  <2> QED
    BY <2>1, <2>2, Locals, DestroyersKept DEF Closing
<1>28. ASSUME NEW q \in Wqs, ClearPending(q) PROVE Destroyers'
  <2>1. ClosingStays
    BY <1>28 DEF ClearPending, Goto, workerVars, localVars, TypeOK
  <2>2. DestroyersSame
    BY <1>28, WorkqueueAssumption
    DEF ClearPending, Goto, workerVars, localVars, Destroying, TypeOK, Threads, Base
  <2> QED
    BY <2>1, <2>2, Locals, DestroyersKept DEF Closing
<1>29. ASSUME NEW q \in Wqs, BarrierFunc(q) PROVE Destroyers'
  <2>1. ClosingStays
    BY <1>29 DEF BarrierFunc, Return, Goto, itemVars, workerVars, localVars, TypeOK
  <2>2. DestroyersSame
    BY <1>29, WorkqueueAssumption
    DEF BarrierFunc, Return, Goto, itemVars, workerVars, localVars, Destroying, TypeOK, Threads,
        Base
  <2> QED
    BY <2>1, <2>2, Locals, DestroyersKept DEF Closing
<1>30. ASSUME NEW q \in Wqs, CallbackReturn(q) PROVE Destroyers'
  <2>1. ClosingStays
    BY <1>30 DEF CallbackReturn, Return, Goto, itemVars, workerVars, localVars, TypeOK
  <2>2. DestroyersSame
    BY <1>30, WorkqueueAssumption
    DEF CallbackReturn, Return, Goto, itemVars, workerVars, localVars, Destroying, TypeOK, Threads,
        Base
  <2> QED
    BY <2>1, <2>2, Locals, DestroyersKept DEF Closing
<1>31. ASSUME NEW q \in Wqs, SelfFlush(q) PROVE Destroyers'
  <2>1. ClosingStays
    BY <1>31 DEF SelfFlush, Goto, itemVars, workerVars, localVars, TypeOK
  <2>2. DestroyersSame
    BY <1>31, WorkqueueAssumption
    DEF SelfFlush, Goto, itemVars, workerVars, localVars, Destroying, TypeOK, Threads, Base
  <2> QED
    BY <2>1, <2>2, Locals, DestroyersKept DEF Closing
<1>32. ASSUME NEW w \in Works, TimerExpire(w) PROVE Destroyers'
  <2>1. ClosingStays
    BY <1>32 DEF TimerExpire, queueVars, workerVars, localVars, TypeOK
  <2>2. DestroyersSame
    BY <1>32, WorkqueueAssumption
    DEF TimerExpire, queueVars, workerVars, localVars, Destroying, TypeOK, Threads, Base
  <2> QED
    BY <2>1, <2>2, Locals, DestroyersKept DEF Closing
<1>33. ASSUME NEW w \in Works, DelayedWorkTimerFn(w) PROVE Destroyers'
  <2>1. ClosingStays
    BY <1>33 DEF DelayedWorkTimerFn, WakeWorker, InsertWork, localVars, TypeOK
  <2>2. DestroyersSame
    BY <1>33, WorkqueueAssumption
    DEF DelayedWorkTimerFn, WakeWorker, InsertWork, localVars, Destroying, TypeOK, Threads, Base
  <2> QED
    BY <2>1, <2>2, Locals, DestroyersKept DEF Closing
<1> QED
  BY <1>1, <1>2, <1>3, <1>4, <1>5, <1>6, <1>7, <1>8, <1>9, <1>10,
     <1>11, <1>12, <1>13, <1>14, <1>15, <1>16, <1>17, <1>18, <1>19, <1>20,
     <1>21, <1>22, <1>23, <1>24, <1>25, <1>26, <1>27, <1>28, <1>29, <1>30,
     <1>31, <1>32, <1>33
  DEF Next, Queueing, Insertion, ClientCall, ClientStep, WorkerStep, TimerStep

(* A queue that is flushed stays flushed, and its worker at it.            *)
LEMMA DrainedKept ==
  ASSUME Drained, \A p \in Wqs : stop'[p] => stop[p],
         \A p \in Wqs : Flushed(p) => Flushed(p)',
         \A p \in Wqs : Flushed(p)' /\ Busy(p)' =>
           \/ pc'[p] \in Looping
           \/ Flushed(p) /\ Busy(p) /\ (pc[p] \in Looping => pc'[p] \in Looping)
  PROVE  Drained'
BY DEF Drained

(* A worker whose destroyer's barrier has run does not sleep on a queue    *)
(* with entries.                                                           *)
LEMMA DrainedStep ==
  ASSUME TypeOK, Shape, DataSet, Barriers, Closing, [Next]_vars
  PROVE  Drained'
<1> DEFINE StopFewer == \A p \in Wqs : stop'[p] => stop[p]
           FlushedStays == \A p \in Wqs : Flushed(p) => Flushed(p)'
           FlushedFewer == \A p \in Wqs : Flushed(p)' => Flushed(p)
           BusyFewer == \A p \in Wqs : Busy(p)' => Busy(p)
           LoopingStays == \A p \in Wqs : pc[p] \in Looping => pc'[p] \in Looping
<1>1. CASE UNCHANGED vars
  BY <1>1 DEF vars, Closing, Drained, Flushed, Busy
<1>2. ASSUME NEW x \in Threads, NEW w \in Works, NEW q \in Wqs, QueueWork(x, w, q) PROVE Drained'
  <2>11. StopFewer
    BY <1>2 DEF QueueWork, MayQueue, Goto, queueVars, workerVars, TypeOK
  <2>12. FlushedStays
    BY <1>2, WorkqueueAssumption
    DEF QueueWork, MayQueue, Goto, queueVars, workerVars, Flushed, TypeOK, Threads, Base
  <2>13. FlushedFewer
    BY <1>2, WorkqueueAssumption
    DEF QueueWork, MayQueue, Goto, queueVars, workerVars, Flushed, TypeOK, Threads, Base
  <2>14. BusyFewer
    BY <1>2 DEF QueueWork, MayQueue, Goto, queueVars, workerVars, Busy, TypeOK
  <2>15. LoopingStays
    BY <1>2, WorkqueueAssumption
    DEF QueueWork, MayQueue, Goto, queueVars, workerVars, Looping, InCallback, Queuing, TypeOK,
        Threads, Base
  <2> QED
    BY <2>11, <2>12, <2>13, <2>14, <2>15, DrainedKept DEF Closing
<1>3. ASSUME NEW x \in Threads, NEW w \in Works, NEW q \in Wqs, QueueDelayedWork(x, w, q)
      PROVE  Drained'
  <2>11. StopFewer
    BY <1>3 DEF QueueDelayedWork, MayQueue, Goto, queueVars, workerVars, TypeOK
  <2>12. FlushedStays
    BY <1>3, WorkqueueAssumption
    DEF QueueDelayedWork, MayQueue, Goto, queueVars, workerVars, Flushed, TypeOK, Threads, Base
  <2>13. FlushedFewer
    BY <1>3, WorkqueueAssumption
    DEF QueueDelayedWork, MayQueue, Goto, queueVars, workerVars, Flushed, TypeOK, Threads, Base
  <2>14. BusyFewer
    BY <1>3 DEF QueueDelayedWork, MayQueue, Goto, queueVars, workerVars, Busy, TypeOK
  <2>15. LoopingStays
    BY <1>3, WorkqueueAssumption
    DEF QueueDelayedWork, MayQueue, Goto, queueVars, workerVars, Looping, InCallback, Queuing,
        TypeOK, Threads, Base
  <2> QED
    BY <2>11, <2>12, <2>13, <2>14, <2>15, DrainedKept DEF Closing
<1>4. ASSUME NEW x \in Threads, QueueWorkInsert(x) PROVE Drained'
  <2>1. PICK a \in Works, b \in Wqs : a = arg[x] /\ b = tq[x] /\ Queuer(x, a)
    BY <1>4, Locals DEF QueueWorkInsert, Queuing, Queuer
  <2>11. StopFewer
    BY <1>4 DEF QueueWorkInsert, WakeWorker, InsertWork, Goto, TypeOK
  <2>12. FlushedStays
    BY <1>4, WorkqueueAssumption
    DEF QueueWorkInsert, WakeWorker, InsertWork, Goto, Flushed, TypeOK, Threads, Base
  <2>13. FlushedFewer
    BY <1>4, WorkqueueAssumption
    DEF QueueWorkInsert, WakeWorker, InsertWork, Goto, Flushed, TypeOK, Threads, Base
  <2>14. \A p \in Wqs : Busy(p)' => Busy(p) \/ ~Flushed(p)
    BY <1>4, <2>1
    DEF QueueWorkInsert, WakeWorker, InsertWork, Goto, Busy, Flushed, Closing, Contract, Queuer,
        TypeOK
  <2>15. LoopingStays
    BY <1>4, WorkqueueAssumption
    DEF QueueWorkInsert, WakeWorker, InsertWork, Goto, Looping, InCallback, Queuing, TypeOK,
        Threads, Base
  <2> QED
    BY <2>11, <2>12, <2>13, <2>14, <2>15, DrainedKept DEF Closing
<1>5. ASSUME NEW x \in Threads, SetWqData(x) PROVE Drained'
  <2>11. StopFewer
    BY <1>5 DEF SetWqData, Goto, queueVars, workerVars, localVars, TypeOK
  <2>12. FlushedStays
    BY <1>5, WorkqueueAssumption
    DEF SetWqData, Goto, queueVars, workerVars, localVars, Flushed, TypeOK, Threads, Base
  <2>13. FlushedFewer
    BY <1>5, WorkqueueAssumption
    DEF SetWqData, Goto, queueVars, workerVars, localVars, Flushed, TypeOK, Threads, Base
  <2>14. BusyFewer
    BY <1>5 DEF SetWqData, Goto, queueVars, workerVars, localVars, Busy, TypeOK
  <2>15. LoopingStays
    BY <1>5, WorkqueueAssumption
    DEF SetWqData, Goto, queueVars, workerVars, localVars, Looping, InCallback, Queuing, TypeOK,
        Threads, Base
  <2> QED
    BY <2>11, <2>12, <2>13, <2>14, <2>15, DrainedKept DEF Closing
<1>6. ASSUME NEW x \in Threads, AddTimer(x) PROVE Drained'
  <2>11. StopFewer
    BY <1>6 DEF AddTimer, Goto, queueVars, workerVars, TypeOK
  <2>12. FlushedStays
    BY <1>6, WorkqueueAssumption
    DEF AddTimer, Goto, queueVars, workerVars, Flushed, TypeOK, Threads, Base
  <2>13. FlushedFewer
    BY <1>6, WorkqueueAssumption
    DEF AddTimer, Goto, queueVars, workerVars, Flushed, TypeOK, Threads, Base
  <2>14. BusyFewer
    BY <1>6 DEF AddTimer, Goto, queueVars, workerVars, Busy, TypeOK
  <2>15. LoopingStays
    BY <1>6, WorkqueueAssumption
    DEF AddTimer, Goto, queueVars, workerVars, Looping, InCallback, Queuing, TypeOK, Threads, Base
  <2> QED
    BY <2>11, <2>12, <2>13, <2>14, <2>15, DrainedKept DEF Closing
<1>7. ASSUME NEW c \in Clients, NEW q \in Wqs, FlushWorkqueue(c, q) PROVE Drained'
  <2>1. FlushInserts(c, q) /\ pc[c] \notin Waiting
    BY <1>7 DEF FlushWorkqueue, FlushCpuWorkqueue, FlushInserts, Waiting
  <2>2. /\ UNCHANGED closing /\ pc[c] # "d_wait" /\ pc'[c] # "d_wait"
        /\ \A d \in Clients \ {c} : pc'[d] = pc[d] /\ tq'[d] = tq[d] /\ done'[d] = done[d]
    BY <1>7, <2>1, WorkqueueAssumption
    DEF FlushWorkqueue, WakeWorker, InsertBarrier, FlushCpuWorkqueue, Goto, itemVars, FlushInserts,
        TypeOK, Threads
  <2>11. StopFewer
    BY <1>7 DEF FlushWorkqueue, WakeWorker, InsertBarrier, FlushCpuWorkqueue, Goto, itemVars, TypeOK
  <2>12. FlushedStays
    BY <2>2 DEF Flushed
  <2>13. FlushedFewer
    BY <2>2 DEF Flushed
  <2>14. BusyFewer
    BY <1>7, <2>1 DEF FlushWorkqueue, FlushCpuWorkqueue, FlushInserts, InsertBarrier, Busy, TypeOK
  <2>15. LoopingStays
    BY <1>7, WorkqueueAssumption
    DEF FlushWorkqueue, WakeWorker, InsertBarrier, FlushCpuWorkqueue, Goto, itemVars, Looping,
        InCallback, Queuing, TypeOK, Threads, Base
  <2> QED
    BY <2>11, <2>12, <2>13, <2>14, <2>15, DrainedKept DEF Closing
<1>8. ASSUME NEW c \in Clients, NEW q \in Wqs, DestroyWorkqueue(c, q) PROVE Drained'
  <2>1. FlushInserts(c, q) /\ ~closing[q] /\ pc[c] = "idle"
    BY <1>8 DEF DestroyWorkqueue, FlushCpuWorkqueue, FlushInserts
  <2>2. StopFewer
    BY <1>8 DEF DestroyWorkqueue, WakeWorker, InsertBarrier, FlushCpuWorkqueue, Goto, itemVars
  <2>3. /\ closing' = [closing EXCEPT ![q] = TRUE] /\ tq' = [tq EXCEPT ![c] = q]
        /\ \A d \in Clients \ {c} : pc'[d] = pc[d] /\ tq'[d] = tq[d] /\ done'[d] = done[d]
    BY <1>8, <2>1
    DEF DestroyWorkqueue, WakeWorker, InsertBarrier, FlushCpuWorkqueue, Goto, itemVars,
        FlushInserts, TypeOK, Threads
  <2>4. \A p \in Wqs \ {q} : Flushed(p)' <=> Flushed(p)
    <3>1. tq'[c] = q /\ \A p \in Wqs \ {q} : closing'[p] = closing[p]
      BY <2>3 DEF TypeOK, Threads
    <3> QED
      BY <2>1, <2>3, <3>1 DEF Flushed
  <2>5. ~Flushed(q)
    BY <2>1 DEF Flushed
  <2>6. \A p \in Wqs \ {q} : (Busy(p)' <=> Busy(p)) /\ pc'[p] = pc[p]
    BY <1>8, <2>1, WorkqueueAssumption
    DEF DestroyWorkqueue, WakeWorker, InsertBarrier, FlushCpuWorkqueue, Goto, itemVars,
        FlushInserts, Busy, TypeOK, Threads
  <2>7. ~(Flushed(q)' /\ Busy(q)')
    <3>1. CASE ~Busy(q)
      BY <1>8, <2>1, <3>1
      DEF DestroyWorkqueue, WakeWorker, InsertBarrier, FlushCpuWorkqueue, Goto, itemVars,
          FlushInserts, Busy
    <3>2. CASE Busy(q)
      <4>1. pc'[c] = "d_wait" /\ tq'[c] = q /\ ~done'[c]
        BY <1>8, <2>1, <3>2
        DEF DestroyWorkqueue, WakeWorker, InsertBarrier, FlushCpuWorkqueue, Goto, itemVars,
            FlushInserts, TypeOK, Threads
      <4> QED
        BY <4>1 DEF Flushed
    <3> QED
      BY <3>1, <3>2
  <2> QED
    BY <2>2, <2>4, <2>5, <2>6, <2>7, DrainedKept DEF Closing
<1>9. ASSUME NEW c \in Clients, NEW w \in Works, CancelDelayedWork(c, w) PROVE Drained'
  <2>11. StopFewer
    BY <1>9 DEF CancelDelayedWork, Goto, queueVars, workerVars, TypeOK
  <2>12. FlushedStays
    BY <1>9, WorkqueueAssumption
    DEF CancelDelayedWork, Goto, queueVars, workerVars, Flushed, TypeOK, Threads, Base
  <2>13. FlushedFewer
    BY <1>9, WorkqueueAssumption
    DEF CancelDelayedWork, Goto, queueVars, workerVars, Flushed, TypeOK, Threads, Base
  <2>14. BusyFewer
    BY <1>9 DEF CancelDelayedWork, Goto, queueVars, workerVars, Busy, TypeOK
  <2>15. LoopingStays
    BY <1>9, WorkqueueAssumption
    DEF CancelDelayedWork, Goto, queueVars, workerVars, Looping, InCallback, Queuing, TypeOK,
        Threads, Base
  <2> QED
    BY <2>11, <2>12, <2>13, <2>14, <2>15, DrainedKept DEF Closing
<1>10. ASSUME NEW c \in Clients, NEW w \in Works, NEW t \in BOOLEAN, CancelWork(c, w, t)
       PROVE  Drained'
  <2>11. StopFewer
    BY <1>10 DEF CancelWork, Goto, itemVars, queueVars, workerVars, TypeOK
  <2>12. FlushedStays
    BY <1>10, WorkqueueAssumption
    DEF CancelWork, Goto, itemVars, queueVars, workerVars, Flushed, TypeOK, Threads, Base
  <2>13. FlushedFewer
    BY <1>10, WorkqueueAssumption
    DEF CancelWork, Goto, itemVars, queueVars, workerVars, Flushed, TypeOK, Threads, Base
  <2>14. BusyFewer
    BY <1>10 DEF CancelWork, Goto, itemVars, queueVars, workerVars, Busy, TypeOK
  <2>15. LoopingStays
    BY <1>10, WorkqueueAssumption
    DEF CancelWork, Goto, itemVars, queueVars, workerVars, Looping, InCallback, Queuing, TypeOK,
        Threads, Base
  <2> QED
    BY <2>11, <2>12, <2>13, <2>14, <2>15, DrainedKept DEF Closing
<1>11. ASSUME NEW c \in Clients, FlushDone(c) PROVE Drained'
  <2>11. StopFewer
    BY <1>11 DEF FlushDone, Goto, itemVars, queueVars, workerVars, localVars, TypeOK
  <2>12. FlushedStays
    BY <1>11, WorkqueueAssumption
    DEF FlushDone, Goto, itemVars, queueVars, workerVars, localVars, Flushed, TypeOK, Threads, Base
  <2>13. FlushedFewer
    BY <1>11, WorkqueueAssumption
    DEF FlushDone, Goto, itemVars, queueVars, workerVars, localVars, Flushed, TypeOK, Threads, Base
  <2>14. BusyFewer
    BY <1>11 DEF FlushDone, Goto, itemVars, queueVars, workerVars, localVars, Busy, TypeOK
  <2>15. LoopingStays
    BY <1>11, WorkqueueAssumption
    DEF FlushDone, Goto, itemVars, queueVars, workerVars, localVars, Looping, InCallback, Queuing,
        TypeOK, Threads, Base
  <2> QED
    BY <2>11, <2>12, <2>13, <2>14, <2>15, DrainedKept DEF Closing
<1>12. ASSUME NEW c \in Clients, FlushReturn(c) PROVE Drained'
  <2>11. StopFewer
    BY <1>12 DEF FlushReturn, Goto, itemVars, queueVars, workerVars, TypeOK
  <2>12. FlushedStays
    BY <1>12, WorkqueueAssumption
    DEF FlushReturn, Goto, itemVars, queueVars, workerVars, Flushed, TypeOK, Threads, Base
  <2>13. FlushedFewer
    BY <1>12, WorkqueueAssumption
    DEF FlushReturn, Goto, itemVars, queueVars, workerVars, Flushed, TypeOK, Threads, Base
  <2>14. BusyFewer
    BY <1>12 DEF FlushReturn, Goto, itemVars, queueVars, workerVars, Busy, TypeOK
  <2>15. LoopingStays
    BY <1>12, WorkqueueAssumption
    DEF FlushReturn, Goto, itemVars, queueVars, workerVars, Looping, InCallback, Queuing, TypeOK,
        Threads, Base
  <2> QED
    BY <2>11, <2>12, <2>13, <2>14, <2>15, DrainedKept DEF Closing
<1>13. ASSUME NEW c \in Clients, KthreadStop(c) PROVE Drained'
  <2>1. PICK b \in Wqs : b = tq[c] /\ closing[b] /\ stop' = [stop EXCEPT ![b] = TRUE]
    BY <1>13, Locals DEF KthreadStop, Destroying, Closing, Destroyers
  <2>2. Flushed(b)
    BY <1>13, <2>1 DEF KthreadStop, Flushed, Destroying, Closing, Destroyers
  <2>3. \A p \in Wqs : Flushed(p)' <=> Flushed(p)
    BY <1>13, WorkqueueAssumption
    DEF KthreadStop, WakeWorker, Goto, itemVars, queueVars, localVars, Flushed, TypeOK, Threads
  <2>4. \A p \in Wqs : stop'[p] => Flushed(p)
    BY <2>1, <2>2 DEF Closing, Drained, TypeOK
  <2>5. \A p \in Wqs : (Busy(p)' <=> Busy(p)) /\ pc'[p] = pc[p]
    BY <1>13, WorkqueueAssumption
    DEF KthreadStop, WakeWorker, Goto, itemVars, queueVars, localVars, Busy, TypeOK, Threads
  <2> QED
    BY <2>3, <2>4, <2>5 DEF Closing, Drained
<1>14. ASSUME NEW c \in Clients, DestroyReturn(c) PROVE Drained'
  <2>11. StopFewer
    BY <1>14 DEF DestroyReturn, Goto, itemVars, queueVars, workerVars, TypeOK
  <2>12. FlushedStays
    BY <1>14, WorkqueueAssumption
    DEF DestroyReturn, Goto, itemVars, queueVars, workerVars, Flushed, TypeOK, Threads, Base
  <2>13. FlushedFewer
    BY <1>14, WorkqueueAssumption
    DEF DestroyReturn, Goto, itemVars, queueVars, workerVars, Flushed, TypeOK, Threads, Base
  <2>14. BusyFewer
    BY <1>14 DEF DestroyReturn, Goto, itemVars, queueVars, workerVars, Busy, TypeOK
  <2>15. LoopingStays
    BY <1>14, WorkqueueAssumption
    DEF DestroyReturn, Goto, itemVars, queueVars, workerVars, Looping, InCallback, Queuing, TypeOK,
        Threads, Base
  <2> QED
    BY <2>11, <2>12, <2>13, <2>14, <2>15, DrainedKept DEF Closing
<1>15. ASSUME NEW c \in Clients, DelTimer(c) PROVE Drained'
  <2>11. StopFewer
    BY <1>15 DEF DelTimer, Goto, queueVars, workerVars, TypeOK
  <2>12. FlushedStays
    BY <1>15, WorkqueueAssumption
    DEF DelTimer, Goto, queueVars, workerVars, Flushed, TypeOK, Threads, Base
  <2>13. FlushedFewer
    BY <1>15, WorkqueueAssumption
    DEF DelTimer, Goto, queueVars, workerVars, Flushed, TypeOK, Threads, Base
  <2>14. BusyFewer
    BY <1>15 DEF DelTimer, Goto, queueVars, workerVars, Busy, TypeOK
  <2>15. LoopingStays
    BY <1>15, WorkqueueAssumption
    DEF DelTimer, Goto, queueVars, workerVars, Looping, InCallback, Queuing, TypeOK, Threads, Base
  <2> QED
    BY <2>11, <2>12, <2>13, <2>14, <2>15, DrainedKept DEF Closing
<1>16. ASSUME NEW c \in Clients, TryToGrabPending(c) PROVE Drained'
  <2>1. /\ UNCHANGED <<closing, done>> /\ pc[c] # "d_wait" /\ pc'[c] # "d_wait"
        /\ \A d \in Clients \ {c} : pc'[d] = pc[d] /\ tq'[d] = tq[d]
    BY <1>16 DEF TryToGrabPending, Goto, queueVars, workerVars, TypeOK, Threads
  <2>11. StopFewer
    BY <1>16 DEF TryToGrabPending, Goto, queueVars, workerVars, TypeOK
  <2>12. FlushedStays
    BY <2>1 DEF Flushed
  <2>13. FlushedFewer
    BY <2>1 DEF Flushed
  <2>14. BusyFewer
    BY <1>16 DEF TryToGrabPending, Goto, queueVars, workerVars, Busy, TypeOK
  <2>15. LoopingStays
    BY <1>16, WorkqueueAssumption
    DEF TryToGrabPending, Goto, queueVars, workerVars, Looping, InCallback, Queuing, TypeOK,
        Threads, Base
  <2> QED
    BY <2>11, <2>12, <2>13, <2>14, <2>15, DrainedKept DEF Closing
<1>17. ASSUME NEW c \in Clients, StealWork(c) PROVE Drained'
  <2>1. PICK a \in Works, b \in Wqs : a = arg[c] /\ b = tq[c]
    BY <1>17, Locals DEF StealWork, Cancelling
  <2>11. StopFewer
    BY <1>17 DEF StealWork, Goto, itemVars, workerVars, TypeOK
  <2>12. FlushedStays
    BY <1>17, WorkqueueAssumption
    DEF StealWork, Goto, itemVars, workerVars, Flushed, TypeOK, Threads, Base
  <2>13. FlushedFewer
    BY <1>17, WorkqueueAssumption
    DEF StealWork, Goto, itemVars, workerVars, Flushed, TypeOK, Threads, Base
  <2>14. BusyFewer
    BY <1>17, <2>1 DEF StealWork, Busy, TypeOK
  <2>15. LoopingStays
    BY <1>17, WorkqueueAssumption
    DEF StealWork, Goto, itemVars, workerVars, Looping, InCallback, Queuing, TypeOK, Threads, Base
  <2> QED
    BY <2>11, <2>12, <2>13, <2>14, <2>15, DrainedKept DEF Closing
<1>18. ASSUME NEW c \in Clients, WaitOnWork(c) PROVE Drained'
  <2>11. StopFewer
    BY <1>18 DEF WaitOnWork, Goto, itemVars, queueVars, workerVars, TypeOK
  <2>12. FlushedStays
    BY <1>18, WorkqueueAssumption
    DEF WaitOnWork, Goto, itemVars, queueVars, workerVars, Flushed, TypeOK, Threads, Base
  <2>13. FlushedFewer
    BY <1>18, WorkqueueAssumption
    DEF WaitOnWork, Goto, itemVars, queueVars, workerVars, Flushed, TypeOK, Threads, Base
  <2>14. BusyFewer
    BY <1>18 DEF WaitOnWork, Goto, itemVars, queueVars, workerVars, Busy, TypeOK
  <2>15. LoopingStays
    BY <1>18, WorkqueueAssumption
    DEF WaitOnWork, Goto, itemVars, queueVars, workerVars, Looping, InCallback, Queuing, TypeOK,
        Threads, Base
  <2> QED
    BY <2>11, <2>12, <2>13, <2>14, <2>15, DrainedKept DEF Closing
<1>19. ASSUME NEW c \in Clients, WaitOnCpuWork(c) PROVE Drained'
  <2>1. PICK b \in Wqs : b = tq[c] /\ WaitInserts(c, b) /\ pc[c] \notin Waiting
    BY <1>19, Locals DEF WaitOnCpuWork, WaitInserts, Waiting
  <2>2. arg[c] # None
    BY <1>19, Locals, WorkqueueAssumption DEF WaitOnCpuWork, Cancelling
  <2>3. /\ UNCHANGED closing /\ pc[c] # "d_wait" /\ pc'[c] # "d_wait"
        /\ \A d \in Clients \ {c} : pc'[d] = pc[d] /\ tq'[d] = tq[d] /\ done'[d] = done[d]
    BY <1>19, <2>1, WorkqueueAssumption
    DEF WaitOnCpuWork, WakeWorker, InsertBarrier, Goto, itemVars, WaitInserts, TypeOK, Threads
  <2>11. StopFewer
    BY <1>19 DEF WaitOnCpuWork, WakeWorker, InsertBarrier, Goto, itemVars, TypeOK
  <2>12. FlushedStays
    BY <2>3 DEF Flushed
  <2>13. FlushedFewer
    BY <2>3 DEF Flushed
  <2>14. BusyFewer
    BY <1>19, <2>1, <2>2 DEF WaitOnCpuWork, WaitInserts, InsertBarrier, Busy, TypeOK
  <2>15. LoopingStays
    BY <1>19, WorkqueueAssumption
    DEF WaitOnCpuWork, WakeWorker, InsertBarrier, Goto, itemVars, Looping, InCallback, Queuing,
        TypeOK, Threads, Base
  <2> QED
    BY <2>11, <2>12, <2>13, <2>14, <2>15, DrainedKept DEF Closing
<1>20. ASSUME NEW c \in Clients, WaitOnWorkDone(c) PROVE Drained'
  <2>11. StopFewer
    BY <1>20 DEF WaitOnWorkDone, Goto, itemVars, queueVars, workerVars, localVars, TypeOK
  <2>12. FlushedStays
    BY <1>20, WorkqueueAssumption
    DEF WaitOnWorkDone, Goto, itemVars, queueVars, workerVars, localVars, Flushed, TypeOK, Threads,
        Base
  <2>13. FlushedFewer
    BY <1>20, WorkqueueAssumption
    DEF WaitOnWorkDone, Goto, itemVars, queueVars, workerVars, localVars, Flushed, TypeOK, Threads,
        Base
  <2>14. BusyFewer
    BY <1>20 DEF WaitOnWorkDone, Goto, itemVars, queueVars, workerVars, localVars, Busy, TypeOK
  <2>15. LoopingStays
    BY <1>20, WorkqueueAssumption
    DEF WaitOnWorkDone, Goto, itemVars, queueVars, workerVars, localVars, Looping, InCallback,
        Queuing, TypeOK, Threads, Base
  <2> QED
    BY <2>11, <2>12, <2>13, <2>14, <2>15, DrainedKept DEF Closing
<1>21. ASSUME NEW c \in Clients, CancelNext(c) PROVE Drained'
  <2>11. StopFewer
    BY <1>21 DEF CancelNext, Goto, queueVars, workerVars, TypeOK
  <2>12. FlushedStays
    BY <1>21, WorkqueueAssumption
    DEF CancelNext, Goto, queueVars, workerVars, Flushed, TypeOK, Threads, Base
  <2>13. FlushedFewer
    BY <1>21, WorkqueueAssumption
    DEF CancelNext, Goto, queueVars, workerVars, Flushed, TypeOK, Threads, Base
  <2>14. BusyFewer
    BY <1>21 DEF CancelNext, Goto, queueVars, workerVars, Busy, TypeOK
  <2>15. LoopingStays
    BY <1>21, WorkqueueAssumption
    DEF CancelNext, Goto, queueVars, workerVars, Looping, InCallback, Queuing, TypeOK, Threads, Base
  <2> QED
    BY <2>11, <2>12, <2>13, <2>14, <2>15, DrainedKept DEF Closing
<1>22. ASSUME NEW c \in Clients, WorkClearPending(c) PROVE Drained'
  <2>11. StopFewer
    BY <1>22 DEF WorkClearPending, Goto, queueVars, workerVars, TypeOK
  <2>12. FlushedStays
    BY <1>22, WorkqueueAssumption
    DEF WorkClearPending, Goto, queueVars, workerVars, Flushed, TypeOK, Threads, Base
  <2>13. FlushedFewer
    BY <1>22, WorkqueueAssumption
    DEF WorkClearPending, Goto, queueVars, workerVars, Flushed, TypeOK, Threads, Base
  <2>14. BusyFewer
    BY <1>22 DEF WorkClearPending, Goto, queueVars, workerVars, Busy, TypeOK
  <2>15. LoopingStays
    BY <1>22, WorkqueueAssumption
    DEF WorkClearPending, Goto, queueVars, workerVars, Looping, InCallback, Queuing, TypeOK,
        Threads, Base
  <2> QED
    BY <2>11, <2>12, <2>13, <2>14, <2>15, DrainedKept DEF Closing
<1>23. ASSUME NEW q \in Wqs, PrepareToWait(q) PROVE Drained'
  <2>11. StopFewer
    BY <1>23 DEF PrepareToWait, Goto, itemVars, queueVars, localVars, TypeOK
  <2>12. FlushedStays
    BY <1>23, WorkqueueAssumption
    DEF PrepareToWait, Goto, itemVars, queueVars, localVars, Flushed, TypeOK, Threads, Base
  <2>13. FlushedFewer
    BY <1>23, WorkqueueAssumption
    DEF PrepareToWait, Goto, itemVars, queueVars, localVars, Flushed, TypeOK, Threads, Base
  <2>14. BusyFewer
    BY <1>23 DEF PrepareToWait, Goto, itemVars, queueVars, localVars, Busy, TypeOK
  <2>15. LoopingStays
    BY <1>23, WorkqueueAssumption
    DEF PrepareToWait, Goto, itemVars, queueVars, localVars, Looping, InCallback, Queuing, TypeOK,
        Threads, Base
  <2> QED
    BY <2>11, <2>12, <2>13, <2>14, <2>15, DrainedKept DEF Closing
<1>24. ASSUME NEW q \in Wqs, CheckWork(q) PROVE Drained'
  <2>11. StopFewer
    BY <1>24 DEF CheckWork, Goto, itemVars, queueVars, workerVars, localVars, TypeOK
  <2>12. FlushedStays
    BY <1>24, WorkqueueAssumption
    DEF CheckWork, Goto, itemVars, queueVars, workerVars, localVars, Flushed, TypeOK, Threads, Base
  <2>13. FlushedFewer
    BY <1>24, WorkqueueAssumption
    DEF CheckWork, Goto, itemVars, queueVars, workerVars, localVars, Flushed, TypeOK, Threads, Base
  <2>14. BusyFewer
    BY <1>24 DEF CheckWork, Goto, itemVars, queueVars, workerVars, localVars, Busy, TypeOK
  <2>15. LoopingStays
    BY <1>24, WorkqueueAssumption
    DEF CheckWork, Goto, itemVars, queueVars, workerVars, localVars, Looping, InCallback, Queuing,
        TypeOK, Threads, Base
  <2> QED
    BY <2>11, <2>12, <2>13, <2>14, <2>15, DrainedKept DEF Closing
<1>25. ASSUME NEW q \in Wqs, Schedule(q) PROVE Drained'
  <2>11. StopFewer
    BY <1>25 DEF Schedule, Goto, itemVars, queueVars, workerVars, localVars, TypeOK
  <2>12. FlushedStays
    BY <1>25, WorkqueueAssumption
    DEF Schedule, Goto, itemVars, queueVars, workerVars, localVars, Flushed, TypeOK, Threads, Base
  <2>13. FlushedFewer
    BY <1>25, WorkqueueAssumption
    DEF Schedule, Goto, itemVars, queueVars, workerVars, localVars, Flushed, TypeOK, Threads, Base
  <2>14. BusyFewer
    BY <1>25 DEF Schedule, Goto, itemVars, queueVars, workerVars, localVars, Busy, TypeOK
  <2>15. LoopingStays
    BY <1>25, WorkqueueAssumption
    DEF Schedule, Goto, itemVars, queueVars, workerVars, localVars, Looping, InCallback, Queuing,
        TypeOK, Threads, Base
  <2> QED
    BY <2>11, <2>12, <2>13, <2>14, <2>15, DrainedKept DEF Closing
<1>26. ASSUME NEW q \in Wqs, FinishWait(q) PROVE Drained'
  <2>11. StopFewer
    BY <1>26 DEF FinishWait, WakeWorker, Goto, itemVars, queueVars, localVars, TypeOK
  <2>12. FlushedStays
    BY <1>26, WorkqueueAssumption
    DEF FinishWait, WakeWorker, Goto, itemVars, queueVars, localVars, Flushed, TypeOK, Threads, Base
  <2>13. FlushedFewer
    BY <1>26, WorkqueueAssumption
    DEF FinishWait, WakeWorker, Goto, itemVars, queueVars, localVars, Flushed, TypeOK, Threads, Base
  <2>14. BusyFewer
    BY <1>26 DEF FinishWait, WakeWorker, Goto, itemVars, queueVars, localVars, Busy, TypeOK
  <2>15. LoopingStays
    BY <1>26, WorkqueueAssumption
    DEF FinishWait, WakeWorker, Goto, itemVars, queueVars, localVars, Looping, InCallback, Queuing,
        TypeOK, Threads, Base
  <2> QED
    BY <2>11, <2>12, <2>13, <2>14, <2>15, DrainedKept DEF Closing
<1>27. ASSUME NEW q \in Wqs, RunWorkqueue(q) PROVE Drained'
  <2>1. StopFewer
    BY <1>27 DEF RunWorkqueue, Goto, itemVars, workerVars, localVars
  <2>2. \A p \in Wqs : Flushed(p)' <=> Flushed(p)
    BY <1>27, WorkqueueAssumption
    DEF RunWorkqueue, Goto, itemVars, workerVars, localVars, Flushed, TypeOK, Threads
  <2>3. \A p \in Wqs \ {q} : (Busy(p)' <=> Busy(p)) /\ pc'[p] = pc[p]
    BY <1>27, WorkqueueAssumption
    DEF RunWorkqueue, Goto, itemVars, workerVars, localVars, Busy, TypeOK, Threads
  <2>4. Busy(q)' => pc'[q] \in Looping
    <3>1. CASE worklist[q] # <<>>
      BY <1>27, <3>1
      DEF RunWorkqueue, Goto, itemVars, workerVars, localVars, TypeOK, Threads, Looping
    <3>2. CASE worklist[q] = <<>> /\ frames[q] = <<>>
      <4>1. worklist' = worklist /\ current'[q] = None
        BY <1>27, <3>2
        DEF RunWorkqueue, Goto, itemVars, workerVars, localVars, Shape, FrameShape, TypeOK
      <4> QED
        BY <3>2, <4>1 DEF Busy
    <3>3. CASE worklist[q] = <<>> /\ frames[q] # <<>>
      BY <1>27, <3>3
      DEF RunWorkqueue, Goto, itemVars, workerVars, localVars, TypeOK, Threads, Looping, InCallback
    <3> QED
      BY <3>1, <3>2, <3>3
  <2> QED
    BY <2>1, <2>2, <2>3, <2>4, DrainedKept DEF Closing
<1>28. ASSUME NEW q \in Wqs, ClearPending(q) PROVE Drained'
  <2>11. StopFewer
    BY <1>28 DEF ClearPending, Goto, workerVars, localVars, TypeOK
  <2>12. FlushedStays
    BY <1>28, WorkqueueAssumption
    DEF ClearPending, Goto, workerVars, localVars, Flushed, TypeOK, Threads, Base
  <2>13. FlushedFewer
    BY <1>28, WorkqueueAssumption
    DEF ClearPending, Goto, workerVars, localVars, Flushed, TypeOK, Threads, Base
  <2>14. BusyFewer
    BY <1>28 DEF ClearPending, Goto, workerVars, localVars, Busy, TypeOK
  <2>15. LoopingStays
    BY <1>28, WorkqueueAssumption
    DEF ClearPending, Goto, workerVars, localVars, Looping, InCallback, Queuing, TypeOK, Threads,
        Base
  <2> QED
    BY <2>11, <2>12, <2>13, <2>14, <2>15, DrainedKept DEF Closing
<1>29. ASSUME NEW q \in Wqs, BarrierFunc(q) PROVE Drained'
  <2>1. PICK h \in Clients : h = Last(frames[q]) /\ done' = [done EXCEPT ![h] = TRUE]
    BY <1>29 DEF BarrierFunc, Return
  <2>2. frames[q] # <<>> /\ frames' = [frames EXCEPT ![q] = Front(@)]
    BY <1>29, Locals DEF BarrierFunc, Return, InCallback
  <2>3. Inside(q, h)
    BY <2>1, <2>2, Left
  <2>4. pc[h] = "d_wait" => tq[h] = q
    BY <2>3 DEF Barriers, BarrierQueue, BarrierAt
  <2>5. pc'[q] = "end" /\ UNCHANGED <<closing, tq>> /\ \A d \in Clients : pc'[d] = pc[d]
    BY <1>29, WorkqueueAssumption
    DEF BarrierFunc, Return, Goto, itemVars, workerVars, localVars, TypeOK, Threads
  <2>11. StopFewer
    BY <1>29 DEF BarrierFunc, Return, Goto, itemVars, workerVars, localVars, TypeOK
  <2>12. FlushedStays
    BY <2>1, <2>5 DEF Flushed, TypeOK
  <2>13. \A p \in Wqs : Flushed(p)' => Flushed(p) \/ pc'[p] \in Looping
    BY <2>1, <2>4, <2>5 DEF Flushed, TypeOK, Looping
  <2>14. BusyFewer
    BY <1>29 DEF BarrierFunc, Return, Goto, itemVars, workerVars, localVars, Busy, TypeOK
  <2>15. LoopingStays
    BY <1>29, WorkqueueAssumption
    DEF BarrierFunc, Return, Goto, itemVars, workerVars, localVars, Looping, InCallback, Queuing,
        TypeOK, Threads, Base
  <2> QED
    BY <2>11, <2>12, <2>13, <2>14, <2>15, DrainedKept DEF Closing
<1>30. ASSUME NEW q \in Wqs, CallbackReturn(q) PROVE Drained'
  <2>11. StopFewer
    BY <1>30 DEF CallbackReturn, Return, Goto, itemVars, workerVars, localVars, TypeOK
  <2>12. FlushedStays
    BY <1>30, WorkqueueAssumption
    DEF CallbackReturn, Return, Goto, itemVars, workerVars, localVars, Flushed, TypeOK, Threads,
        Base
  <2>13. FlushedFewer
    BY <1>30, WorkqueueAssumption
    DEF CallbackReturn, Return, Goto, itemVars, workerVars, localVars, Flushed, TypeOK, Threads,
        Base
  <2>14. BusyFewer
    BY <1>30 DEF CallbackReturn, Return, Goto, itemVars, workerVars, localVars, Busy, TypeOK
  <2>15. LoopingStays
    BY <1>30, WorkqueueAssumption
    DEF CallbackReturn, Return, Goto, itemVars, workerVars, localVars, Looping, InCallback,
        Queuing, TypeOK, Threads, Base
  <2> QED
    BY <2>11, <2>12, <2>13, <2>14, <2>15, DrainedKept DEF Closing
<1>31. ASSUME NEW q \in Wqs, SelfFlush(q) PROVE Drained'
  <2>11. StopFewer
    BY <1>31 DEF SelfFlush, Goto, itemVars, workerVars, localVars, TypeOK
  <2>12. FlushedStays
    BY <1>31, WorkqueueAssumption
    DEF SelfFlush, Goto, itemVars, workerVars, localVars, Flushed, TypeOK, Threads, Base
  <2>13. FlushedFewer
    BY <1>31, WorkqueueAssumption
    DEF SelfFlush, Goto, itemVars, workerVars, localVars, Flushed, TypeOK, Threads, Base
  <2>14. BusyFewer
    BY <1>31 DEF SelfFlush, Goto, itemVars, workerVars, localVars, Busy, TypeOK
  <2>15. LoopingStays
    BY <1>31, WorkqueueAssumption
    DEF SelfFlush, Goto, itemVars, workerVars, localVars, Looping, InCallback, Queuing, TypeOK,
        Threads, Base
  <2> QED
    BY <2>11, <2>12, <2>13, <2>14, <2>15, DrainedKept DEF Closing
<1>32. ASSUME NEW w \in Works, TimerExpire(w) PROVE Drained'
  <2>11. StopFewer
    BY <1>32 DEF TimerExpire, queueVars, workerVars, localVars, TypeOK
  <2>12. FlushedStays
    BY <1>32, WorkqueueAssumption
    DEF TimerExpire, queueVars, workerVars, localVars, Flushed, TypeOK, Threads, Base
  <2>13. FlushedFewer
    BY <1>32, WorkqueueAssumption
    DEF TimerExpire, queueVars, workerVars, localVars, Flushed, TypeOK, Threads, Base
  <2>14. BusyFewer
    BY <1>32 DEF TimerExpire, queueVars, workerVars, localVars, Busy, TypeOK
  <2>15. LoopingStays
    BY <1>32, WorkqueueAssumption
    DEF TimerExpire, queueVars, workerVars, localVars, Looping, InCallback, Queuing, TypeOK,
        Threads, Base
  <2> QED
    BY <2>11, <2>12, <2>13, <2>14, <2>15, DrainedKept DEF Closing
<1>33. ASSUME NEW w \in Works, DelayedWorkTimerFn(w) PROVE Drained'
  <2>1. PICK b \in Wqs : b = data[w] /\ ~closing[b]
    BY <1>33 DEF DelayedWorkTimerFn, DataSet, DataIsRight, Closing, Contract, TypeOK
  <2>11. StopFewer
    BY <1>33 DEF DelayedWorkTimerFn, WakeWorker, InsertWork, localVars, TypeOK
  <2>12. FlushedStays
    BY <1>33, WorkqueueAssumption
    DEF DelayedWorkTimerFn, WakeWorker, InsertWork, localVars, Flushed, TypeOK, Threads, Base
  <2>13. FlushedFewer
    BY <1>33, WorkqueueAssumption
    DEF DelayedWorkTimerFn, WakeWorker, InsertWork, localVars, Flushed, TypeOK, Threads, Base
  <2>14. \A p \in Wqs : Busy(p)' => Busy(p) \/ ~Flushed(p)
    BY <1>33, <2>1 DEF DelayedWorkTimerFn, WakeWorker, InsertWork, localVars, Busy, Flushed, TypeOK
  <2>15. LoopingStays
    BY <1>33, WorkqueueAssumption
    DEF DelayedWorkTimerFn, WakeWorker, InsertWork, localVars, Looping, InCallback, Queuing,
        TypeOK, Threads, Base
  <2> QED
    BY <2>11, <2>12, <2>13, <2>14, <2>15, DrainedKept DEF Closing
<1> QED
  BY <1>1, <1>2, <1>3, <1>4, <1>5, <1>6, <1>7, <1>8, <1>9, <1>10,
     <1>11, <1>12, <1>13, <1>14, <1>15, <1>16, <1>17, <1>18, <1>19, <1>20,
     <1>21, <1>22, <1>23, <1>24, <1>25, <1>26, <1>27, <1>28, <1>29, <1>30,
     <1>31, <1>32, <1>33
  DEF Next, Queueing, Insertion, ClientCall, ClientStep, WorkerStep, TimerStep

-----------------------------------------------------------------------------
(* The invariant holds initially, ...                                      *)
LEMMA InitIInv ==
  ASSUME Init
  PROVE  IInv
<1>1. TypeOK
  BY WorkqueueAssumption DEF Init, TypeOK, Threads, Pcs, Entries
<1>2. \A q \in Wqs : pc[q] = "prep" /\ frames[q] = <<>> /\ worklist[q] = <<>> /\ current[q] = None
  BY DEF Init, Threads
<1>3. \A c \in Clients : pc[c] = "idle"
  BY WorkqueueAssumption DEF Init, Threads
<1>4. Shape
  BY <1>2, <1>3
  DEF Init, Shape, ClientShape, WorkerShape, FrameShape, Threads, ClientPcs, WorkerPcs,
     Queuing, Cancelling, Destroying, Asleep, Looping, InCallback
<1>5. ToSet(<<>>) = {} /\ Unique(<<>>)
  BY DEF ToSet, Unique
<1>6. Listed
  BY <1>2, <1>5 DEF Listed
<1>7. \A w \in Works, k \in Kinds, x \in Things : ~At(k, x, w)
  BY <1>2, <1>3, <1>5 DEF Init, At, Queuer, Queuing, On, Taken, Grabbed, Threads
<1>8. Ownership
  BY <1>7 DEF Ownership, OneAt, PendingMeans, Init
<1>9. DataSet
  BY <1>2, <1>3, <1>5 DEF DataSet, DataIsRight, Init, Threads
<1>10. Barriers
  BY <1>2, <1>5 DEF Barriers, BarrierOnStack, OneBarrier, BarrierQueue, BarrierAt, On, Taken, Inside
<1>11. Closing
  BY <1>2, <1>3 DEF Closing, Contract, Destroyers, Drained, Flushed, Init, Destroying
<1> QED
  BY <1>1, <1>4, <1>6, <1>8, <1>9, <1>10, <1>11 DEF IInv

(* ... and every step keeps it.                                            *)
THEOREM Invariance == Spec => []IInv
<1>1. IInv /\ [Next]_vars => IInv'
  BY TypeStep, ClientShapeStep, WorkerShapeStep, FrameShapeStep, ListedStep, OwnershipStep,
      DataSetStep,
     BarriersStep, ContractStep, DestroyersStep, DrainedStep
  DEF IInv, Shape, Closing
<1> QED
  BY <1>1, InitIInv, PTL DEF Spec

(* Types: in particular a worklist holds works and barriers only.          *)
THEOREM TypeCorrect == Spec => []TypeOK
<1>1. IInv => TypeOK
  BY DEF IInv
<1> QED
  BY <1>1, Invariance, PTL

(* The BUG_ON of run_workqueue does not fire: a work is taken off the      *)
(* worklist of the cwq in its data.                                        *)
THEOREM CwqCorrect == Spec => []DataIsRight
<1>1. IInv => DataIsRight
  BY DEF IInv, DataSet
<1> QED
  BY <1>1, Invariance, PTL

(* A wq_barrier is queued or running only while the task whose stack it is *)
(* on waits for it, however deep callbacks flush their own queue.          *)
THEOREM BarrierSafety == Spec => []BarrierOnStack
<1>1. IInv => BarrierOnStack
  BY DEF IInv, Barriers
<1> QED
  BY <1>1, Invariance, PTL

(* destroy_workqueue's thread exits with nothing on its list and no        *)
(* callback running, although other tasks may be flushing the queue.       *)
THEOREM StopSafety == Spec => []StopClean
<1>1. IInv => StopClean
  <2> SUFFICES ASSUME IInv, NEW q \in Wqs, pc[q] = "dead" PROVE worklist[q] = <<>> /\
             frames[q] = <<>>
    BY DEF StopClean
  <2>1. frames[q] = <<>>
    BY DEF IInv, Shape, FrameShape, Asleep
  <2>2. Flushed(q) /\ pc[q] \notin Looping
    BY DEF IInv, Closing, Contract, Drained, Looping, InCallback, Queuing
  <2>3. ~Busy(q)
    BY <2>2 DEF IInv, Closing, Drained
  <2> QED
    BY <2>1, <2>3 DEF Busy
<1> QED
  BY <1>1, Invariance, PTL

(* The places of a work are its owners; on a worklist it has one index.    *)
LEMMA PlaceOf ==
  ASSUME TypeOK, NEW w \in Works, NEW o
  PROVE  o \in Places(w) <=>
           \/ \E y \in Threads : Queuer(y, w) /\ o = <<"queueing", y>>
           \/ timer[w] # "off" /\ o = <<"timer", w>>
           \/ \E q \in Wqs : \E i \in 1..Len(worklist[q]) : worklist[q][i] = w /\ o = <<"listed",
                      q, i>>
           \/ \E q \in Wqs : Taken(q, w) /\ o = <<"taken", q>>
           \/ \E d \in Clients : Grabbed(d, w) /\ o = <<"grabbed", d>>
<1>1. \A q \in Wqs : DOMAIN worklist[q] = 1..Len(worklist[q])
  BY DEF TypeOK
<1>2. o \in {<<"queueing", x>> : x \in {y \in Threads : pc[y] \in {"insert", "arm", "add"} /\
           arg[y] = w}}
        <=> \E y \in Threads : Queuer(y, w) /\ o = <<"queueing", y>>
  BY DEF Queuer, Queuing
<1>3. o \in {<<"timer", t>> : t \in {w} \cap {v \in Works : timer[v] # "off"}}
        <=> timer[w] # "off" /\ o = <<"timer", w>>
  OBVIOUS
<1>4. o \in UNION {{<<"listed", q,
           i>> : i \in {j \in DOMAIN worklist[q] : worklist[q][j] = w}} : q \in Wqs}
        <=> \E q \in Wqs : \E i \in 1..Len(worklist[q]) : worklist[q][i] = w /\ o = <<"listed",
                   q, i>>
  BY <1>1
<1>5. o \in {<<"taken", q>> : q \in {p \in Wqs : pc[p] = "clear" /\ current[p] = w}}
        <=> \E q \in Wqs : Taken(q, w) /\ o = <<"taken", q>>
  BY DEF Taken
<1>6. o \in {<<"grabbed", c>> : c \in {d \in Clients : Grabbed(d, w)}}
        <=> \E d \in Clients : Grabbed(d, w) /\ o = <<"grabbed", d>>
  OBVIOUS
<1> DEFINE A == {<<"queueing", x>> : x \in {y \in Threads : pc[y] \in {"insert", "arm", "add"} /\
           arg[y] = w}}
           D == {<<"timer", t>> : t \in {w} \cap {v \in Works : timer[v] # "off"}}
           E == UNION {{<<"listed", q,
                      i>> : i \in {j \in DOMAIN worklist[q] : worklist[q][j] = w}} : q \in Wqs}
           F == {<<"taken", q>> : q \in {p \in Wqs : pc[p] = "clear" /\ current[p] = w}}
           G == {<<"grabbed", c>> : c \in {d \in Clients : Grabbed(d, w)}}
<1>7. Places(w) = A \cup D \cup E \cup F \cup G
  BY Zenon DEF Places
<1>8. (o \in A \cup D \cup E \cup F \cup G) <=> (o \in A \/ o \in D \/ o \in E \/ o \in F \/ o \in G)
  <2> HIDE DEF A, D, E, F, G
  <2> QED
    OBVIOUS
<1> QED
  BY <1>2, <1>3, <1>4, <1>5, <1>6, <1>7, <1>8, Zenon

LEMMA Index ==
  ASSUME TypeOK, Listed, NEW q \in Wqs, NEW w \in Works
  PROVE  /\ On(q, w) <=> \E i \in 1..Len(worklist[q]) : worklist[q][i] = w
         /\ \A i, j \in 1..Len(worklist[q]) : worklist[q][i] = w /\ worklist[q][j] = w => i = j
<1>1. worklist[q] \in Seq(Entries) /\ Unique(worklist[q])
  BY DEF TypeOK, Listed
<1> QED
  BY <1>1, ToSetElems DEF On, Unique

LEMMA OnePlace ==
  ASSUME TypeOK, Listed, Ownership, NEW w \in Works, pending[w]
  PROVE  \E p : Places(w) = {p}
<1>1. PICK k \in Kinds, x \in Things : At(k, x, w)
  BY DEF Ownership, PendingMeans
<1>2. /\ \A y \in Threads : Queuer(y, w) => k = "queueing" /\ y = x
      /\ timer[w] # "off" => k = "timer"
      /\ \A q \in Wqs : On(q, w) => k = "listed" /\ q = x
      /\ \A q \in Wqs : Taken(q, w) => k = "taken" /\ q = x
      /\ \A d \in Clients : Grabbed(d, w) => k = "grabbed" /\ d = x
  BY <1>1, Sole DEF Ownership
<1>3. ASSUME NEW q \in Wqs, NEW i \in 1..Len(worklist[q]), worklist[q][i] = w PROVE On(q, w)
  BY <1>3, Index
<1>4. CASE k = "queueing"
  <2>1. x \in Threads /\ Queuer(x, w)
    BY <1>1, <1>4 DEF At
  <2>2. \A p : p \in Places(w) <=> p = <<"queueing", x>>
    BY <1>2, <1>3, <1>4, <2>1, PlaceOf
  <2>3. Places(w) = {<<"queueing", x>>}
    BY <2>2
  <2> QED
    BY <2>3
<1>5. CASE k = "timer"
  <2>1. timer[w] # "off"
    BY <1>1, <1>5 DEF At
  <2>2. \A p : p \in Places(w) <=> p = <<"timer", w>>
    BY <1>2, <1>3, <1>5, <2>1, PlaceOf
  <2>3. Places(w) = {<<"timer", w>>}
    BY <2>2
  <2> QED
    BY <2>3
<1>6. CASE k = "listed"
  <2>1. x \in Wqs /\ On(x, w)
    BY <1>1, <1>6 DEF At
  <2>2. PICK i \in 1..Len(worklist[x]) : worklist[x][i] = w
    BY <2>1, Index
  <2>3. \A j \in 1..Len(worklist[x]) : worklist[x][j] = w => j = i
    BY <2>1, <2>2, Index
  <2>4. \A p : p \in Places(w) <=> p = <<"listed", x, i>>
    BY <1>2, <1>3, <1>6, <2>1, <2>2, <2>3, PlaceOf
  <2>5. Places(w) = {<<"listed", x, i>>}
    BY <2>4
  <2> QED
    BY <2>5
<1>7. CASE k = "taken"
  <2>1. x \in Wqs /\ Taken(x, w)
    BY <1>1, <1>7 DEF At
  <2>2. \A p : p \in Places(w) <=> p = <<"taken", x>>
    BY <1>2, <1>3, <1>7, <2>1, PlaceOf
  <2>3. Places(w) = {<<"taken", x>>}
    BY <2>2
  <2> QED
    BY <2>3
<1>8. CASE k = "grabbed"
  <2>1. x \in Clients /\ Grabbed(x, w)
    BY <1>1, <1>8 DEF At
  <2>2. \A p : p \in Places(w) <=> p = <<"grabbed", x>>
    BY <1>2, <1>3, <1>8, <2>1, PlaceOf
  <2>3. Places(w) = {<<"grabbed", x>>}
    BY <2>2
  <2> QED
    BY <2>3
<1> QED
  BY <1>4, <1>5, <1>6, <1>7, <1>8 DEF Kinds

LEMMA NoPlace ==
  ASSUME TypeOK, Listed, Ownership, NEW w \in Works, ~pending[w]
  PROVE  Places(w) = {}
<1>1. /\ \A y \in Threads : ~Queuer(y, w)
      /\ timer[w] = "off"
      /\ \A q \in Wqs : ~On(q, w) /\ ~Taken(q, w)
      /\ \A d \in Clients : ~Grabbed(d, w)
  BY Free DEF Ownership
<1>2. \A q \in Wqs : \A i \in 1..Len(worklist[q]) : worklist[q][i] # w
  BY <1>1, Index
<1>3. \A p : p \notin Places(w)
  BY <1>1, <1>2, PlaceOf
<1> QED
  BY <1>3

(* WORK_STRUCT_PENDING means exactly one owner: a work is never linked     *)
(* into two lists, armed while it is queued, or pending with nobody to run *)
(* it, whatever the callers, the timers and the workers do.                *)
THEOREM OwnerCorrect == Spec => []OneOwner
<1>1. IInv => OneOwner
  <2> SUFFICES ASSUME IInv,
             NEW w \in Works PROVE Cardinality(Places(w)) = IF pending[w] THEN 1 ELSE 0
    BY DEF OneOwner
  <2>1. TypeOK /\ Listed /\ Ownership
    BY DEF IInv
  <2>2. CASE pending[w]
    <3>1. PICK p : Places(w) = {p}
      BY <2>1, <2>2, OnePlace
    <3> QED
      BY <2>2, <3>1, FS_Singleton
  <2>3. CASE ~pending[w]
    BY <2>1, <2>3, NoPlace, FS_EmptySet
  <2> QED
    BY <2>2, <2>3
<1> QED
  BY <1>1, Invariance, PTL

-----------------------------------------------------------------------------
(* A worker that enters a callback.                                        *)
LEMMA Pushed ==
  ASSUME TypeOK, NEW q \in Wqs, NEW e \in Entries,
         frames' = [frames EXCEPT ![q] = Append(@, e)], nested' = [nested EXCEPT ![q] = FALSE]
  PROVE  /\ frames'[q] # <<>> /\ Last(frames'[q]) = e /\ ~nested'[q]
         /\ \A p \in Wqs \ {q} : frames'[p] = frames[p] /\ nested'[p] = nested[p]
         /\ \A p \in Wqs, v \in Works : SelfFlushing(p, v) => SelfFlushing(p, v)'
<1>1. frames[q] \in Seq(Entries) /\ Len(frames[q]) \in Nat
  BY DEF TypeOK
<1> DEFINE f == Append(frames[q], e)
<1>2. /\ f \in Seq(Entries) /\ Len(f) = Len(frames[q]) + 1 /\ f[Len(f)] = e
      /\ \A i \in 1..Len(frames[q]) : f[i] = frames[q][i]
  BY <1>1, AppendProperties
<1> HIDE DEF f
<1>3. f # <<>> /\ Last(f) = e
  BY <1>1, <1>2 DEF Last
<1>4. frames'[q] = f /\ ~nested'[q]
  BY DEF TypeOK, f
<1>5. \A p \in Wqs \ {q} : frames'[p] = frames[p] /\ nested'[p] = nested[p]
  BY DEF TypeOK
<1>6. ASSUME NEW v \in Works, SelfFlushing(q, v) PROVE SelfFlushing(q, v)'
  <2>1. PICK n \in 1..Len(frames[q]) : frames[q][n] = v
    BY <1>6 DEF SelfFlushing
  <2>2. n \in 1..Len(f) /\ f[n] = v /\ n < Len(f)
    BY <1>1, <1>2, <2>1
  <2> QED
    BY <1>4, <2>2 DEF SelfFlushing
<1>7. ASSUME NEW p \in Wqs \ {q}, NEW v \in Works, SelfFlushing(p, v) PROVE SelfFlushing(p, v)'
  BY <1>5, <1>7 DEF SelfFlushing
<1> QED
  BY <1>3, <1>4, <1>5, <1>6, <1>7

(* A worker that leaves one: whatever callback is further out is inside a  *)
(* flush of its own queue.                                                 *)
LEMMA Popped ==
  ASSUME TypeOK, NEW q \in Wqs, frames[q] # <<>>, frames' = [frames EXCEPT ![q] = Front(@)],
         nested' = [nested EXCEPT ![q] = Len(frames[q]) > 1]
  PROVE  /\ frames'[q] # <<>> => nested'[q]
         /\ \A p \in Wqs \ {q} : frames'[p] = frames[p] /\ nested'[p] = nested[p]
         /\ \A v \in ToSet(Front(frames[q])) : Inside(q, v)' /\ SelfFlushing(q, v)'
         /\ \A v : Inside(q, v) /\ v # Last(frames[q]) => v \in ToSet(Front(frames[q]))
<1> DEFINE f == frames[q]
           g == Front(frames[q])
<1>1. /\ f \in Seq(Entries) /\ g \in Seq(Entries) /\ Len(f) \in Nat
      /\ Len(g) = Len(f) - 1 /\ Last(f) = f[Len(f)] /\ \A i \in 1..(Len(f)-1) : g[i] = f[i]
  <2>1. f \in Seq(Entries) /\ f # <<>>
    BY DEF TypeOK
  <2>2. Len(f) \in Nat
    BY <2>1
  <2> HIDE DEF f
  <2>3. /\ Front(f) \in Seq(Entries) /\ Len(Front(f)) = Len(f) - 1 /\ Last(f) = f[Len(f)]
        /\ \A i \in 1..(Len(f)-1) : Front(f)[i] = f[i]
    BY <2>1, FrontType
  <2> QED
    BY <2>1, <2>2, <2>3 DEF f
<1>2. frames'[q] = g /\ (Len(f) > 1 => nested'[q])
  BY DEF TypeOK
<1>3. \A p \in Wqs \ {q} : frames'[p] = frames[p] /\ nested'[p] = nested[p]
  BY DEF TypeOK
<1> HIDE DEF f, g
<1>4. g # <<>> => Len(f) > 1
  BY <1>1
<1>5. ASSUME NEW v \in ToSet(g) PROVE Inside(q, v)' /\ SelfFlushing(q, v)'
  <2>1. PICK n \in 1..Len(g) : g[n] = v
    BY <1>1, ToSetElems
  <2>2. nested'[q]
    BY <1>1, <1>2, <2>1
  <2> QED
    BY <1>2, <1>5, <2>1, <2>2 DEF Inside, SelfFlushing
<1>6. ASSUME NEW v, v \in ToSet(f), v # Last(f) PROVE v \in ToSet(g)
  <2>1. PICK n \in 1..Len(f) : f[n] = v
    BY <1>1, <1>6, ToSetElems
  <2>2. n \in 1..Len(g) /\ g[n] = v
    BY <1>1, <1>6, <2>1
  <2> QED
    BY <1>1, <2>2, ToSetElems
<1> QED
  BY <1>2, <1>3, <1>4, <1>5, <1>6 DEF Inside, f, g

(* A callback that is not the innermost, or is and has flushed its queue.  *)
LEMMA Outer ==
  ASSUME TypeOK, NEW q \in Wqs, nested[q], NEW v, Inside(q, v)
  PROVE  SelfFlushing(q, v)
<1>1. frames[q] \in Seq(Entries)
  BY DEF TypeOK
<1>2. PICK n \in 1..Len(frames[q]) : frames[q][n] = v
  BY <1>1, ToSetElems DEF Inside
<1> QED
  BY <1>2 DEF SelfFlushing

(* The innermost callback is the current work until it flushes its queue.  *)
LEMMA FramedStep ==
  ASSUME TypeOK, Shape, Framed, [Next]_vars
  PROVE  Framed'
<1> DEFINE CallbacksStay == \A p \in Wqs : pc[p] \in InCallback => pc'[p] \in InCallback
<1>1. CASE UNCHANGED vars
  BY <1>1 DEF vars, Framed
<1>2. ASSUME NEW x \in Threads, NEW w \in Works, NEW q \in Wqs, QueueWork(x, w, q) PROVE Framed'
  <2>1. CallbacksStay
    BY <1>2, WorkqueueAssumption
    DEF QueueWork, MayQueue, Goto, queueVars, workerVars, InCallback, Queuing, TypeOK, Threads, Base
  <2>2. UNCHANGED <<frames, nested, current>>
    BY <1>2 DEF QueueWork, MayQueue, Goto, queueVars, workerVars
  <2> QED
    BY <2>1, <2>2 DEF Framed
<1>3. ASSUME NEW x \in Threads, NEW w \in Works, NEW q \in Wqs, QueueDelayedWork(x, w, q)
      PROVE  Framed'
  <2>1. CallbacksStay
    BY <1>3, WorkqueueAssumption
    DEF QueueDelayedWork, MayQueue, Goto, queueVars, workerVars, InCallback, Queuing, TypeOK,
        Threads, Base
  <2>2. UNCHANGED <<frames, nested, current>>
    BY <1>3 DEF QueueDelayedWork, MayQueue, Goto, queueVars, workerVars
  <2> QED
    BY <2>1, <2>2 DEF Framed
<1>4. ASSUME NEW x \in Threads, QueueWorkInsert(x) PROVE Framed'
  <2>1. CallbacksStay
    BY <1>4, WorkqueueAssumption
    DEF QueueWorkInsert, WakeWorker, InsertWork, Goto, InCallback, Queuing, TypeOK, Threads, Base
  <2>2. UNCHANGED <<frames, nested, current>>
    BY <1>4 DEF QueueWorkInsert, WakeWorker, InsertWork, Goto
  <2> QED
    BY <2>1, <2>2 DEF Framed
<1>5. ASSUME NEW x \in Threads, SetWqData(x) PROVE Framed'
  <2>1. CallbacksStay
    BY <1>5, WorkqueueAssumption
    DEF SetWqData, Goto, queueVars, workerVars, localVars, InCallback, Queuing, TypeOK, Threads,
        Base
  <2>2. UNCHANGED <<frames, nested, current>>
    BY <1>5 DEF SetWqData, Goto, queueVars, workerVars, localVars
  <2> QED
    BY <2>1, <2>2 DEF Framed
<1>6. ASSUME NEW x \in Threads, AddTimer(x) PROVE Framed'
  <2>1. CallbacksStay
    BY <1>6, WorkqueueAssumption
    DEF AddTimer, Goto, queueVars, workerVars, InCallback, Queuing, TypeOK, Threads, Base
  <2>2. UNCHANGED <<frames, nested, current>>
    BY <1>6 DEF AddTimer, Goto, queueVars, workerVars
  <2> QED
    BY <2>1, <2>2 DEF Framed
<1>7. ASSUME NEW c \in Clients, NEW q \in Wqs, FlushWorkqueue(c, q) PROVE Framed'
  <2>1. CallbacksStay
    BY <1>7, WorkqueueAssumption
    DEF FlushWorkqueue, WakeWorker, InsertBarrier, FlushCpuWorkqueue, Goto, itemVars, InCallback,
        Queuing, TypeOK, Threads, Base
  <2>2. UNCHANGED <<frames, nested, current>>
    BY <1>7 DEF FlushWorkqueue, WakeWorker, InsertBarrier, FlushCpuWorkqueue, Goto, itemVars
  <2> QED
    BY <2>1, <2>2 DEF Framed
<1>8. ASSUME NEW c \in Clients, NEW q \in Wqs, DestroyWorkqueue(c, q) PROVE Framed'
  <2>1. CallbacksStay
    BY <1>8, WorkqueueAssumption
    DEF DestroyWorkqueue, WakeWorker, InsertBarrier, FlushCpuWorkqueue, Goto, itemVars, InCallback,
        Queuing, TypeOK, Threads, Base
  <2>2. UNCHANGED <<frames, nested, current>>
    BY <1>8 DEF DestroyWorkqueue, WakeWorker, InsertBarrier, FlushCpuWorkqueue, Goto, itemVars
  <2> QED
    BY <2>1, <2>2 DEF Framed
<1>9. ASSUME NEW c \in Clients, NEW w \in Works, CancelDelayedWork(c, w) PROVE Framed'
  <2>1. CallbacksStay
    BY <1>9, WorkqueueAssumption
    DEF CancelDelayedWork, Goto, queueVars, workerVars, InCallback, Queuing, TypeOK, Threads, Base
  <2>2. UNCHANGED <<frames, nested, current>>
    BY <1>9 DEF CancelDelayedWork, Goto, queueVars, workerVars
  <2> QED
    BY <2>1, <2>2 DEF Framed
<1>10. ASSUME NEW c \in Clients, NEW w \in Works, NEW t \in BOOLEAN, CancelWork(c, w, t)
       PROVE  Framed'
  <2>1. CallbacksStay
    BY <1>10, WorkqueueAssumption
    DEF CancelWork, Goto, itemVars, queueVars, workerVars, InCallback, Queuing, TypeOK, Threads,
        Base
  <2>2. UNCHANGED <<frames, nested, current>>
    BY <1>10 DEF CancelWork, Goto, itemVars, queueVars, workerVars
  <2> QED
    BY <2>1, <2>2 DEF Framed
<1>11. ASSUME NEW c \in Clients, FlushDone(c) PROVE Framed'
  <2>1. CallbacksStay
    BY <1>11, WorkqueueAssumption
    DEF FlushDone, Goto, itemVars, queueVars, workerVars, localVars, InCallback, Queuing, TypeOK,
        Threads, Base
  <2>2. UNCHANGED <<frames, nested, current>>
    BY <1>11 DEF FlushDone, Goto, itemVars, queueVars, workerVars, localVars
  <2> QED
    BY <2>1, <2>2 DEF Framed
<1>12. ASSUME NEW c \in Clients, FlushReturn(c) PROVE Framed'
  <2>1. CallbacksStay
    BY <1>12, WorkqueueAssumption
    DEF FlushReturn, Goto, itemVars, queueVars, workerVars, InCallback, Queuing, TypeOK, Threads,
        Base
  <2>2. UNCHANGED <<frames, nested, current>>
    BY <1>12 DEF FlushReturn, Goto, itemVars, queueVars, workerVars
  <2> QED
    BY <2>1, <2>2 DEF Framed
<1>13. ASSUME NEW c \in Clients, KthreadStop(c) PROVE Framed'
  <2>1. CallbacksStay
    BY <1>13, WorkqueueAssumption
    DEF KthreadStop, WakeWorker, Goto, itemVars, queueVars, localVars, InCallback, Queuing, TypeOK,
        Threads, Base
  <2>2. UNCHANGED <<frames, nested, current>>
    BY <1>13 DEF KthreadStop, WakeWorker, Goto, itemVars, queueVars, localVars
  <2> QED
    BY <2>1, <2>2 DEF Framed
<1>14. ASSUME NEW c \in Clients, DestroyReturn(c) PROVE Framed'
  <2>1. CallbacksStay
    BY <1>14, WorkqueueAssumption
    DEF DestroyReturn, Goto, itemVars, queueVars, workerVars, InCallback, Queuing, TypeOK, Threads,
        Base
  <2>2. UNCHANGED <<frames, nested, current>>
    BY <1>14 DEF DestroyReturn, Goto, itemVars, queueVars, workerVars
  <2> QED
    BY <2>1, <2>2 DEF Framed
<1>15. ASSUME NEW c \in Clients, DelTimer(c) PROVE Framed'
  <2>1. CallbacksStay
    BY <1>15, WorkqueueAssumption
    DEF DelTimer, Goto, queueVars, workerVars, InCallback, Queuing, TypeOK, Threads, Base
  <2>2. UNCHANGED <<frames, nested, current>>
    BY <1>15 DEF DelTimer, Goto, queueVars, workerVars
  <2> QED
    BY <2>1, <2>2 DEF Framed
<1>16. ASSUME NEW c \in Clients, TryToGrabPending(c) PROVE Framed'
  <2>1. CallbacksStay
    BY <1>16, WorkqueueAssumption
    DEF TryToGrabPending, Goto, queueVars, workerVars, InCallback, Queuing, TypeOK, Threads, Base
  <2>2. UNCHANGED <<frames, nested, current>>
    BY <1>16 DEF TryToGrabPending, Goto, queueVars, workerVars
  <2> QED
    BY <2>1, <2>2 DEF Framed
<1>17. ASSUME NEW c \in Clients, StealWork(c) PROVE Framed'
  <2>1. CallbacksStay
    BY <1>17, WorkqueueAssumption
    DEF StealWork, Goto, itemVars, workerVars, InCallback, Queuing, TypeOK, Threads, Base
  <2>2. UNCHANGED <<frames, nested, current>>
    BY <1>17 DEF StealWork, Goto, itemVars, workerVars
  <2> QED
    BY <2>1, <2>2 DEF Framed
<1>18. ASSUME NEW c \in Clients, WaitOnWork(c) PROVE Framed'
  <2>1. CallbacksStay
    BY <1>18, WorkqueueAssumption
    DEF WaitOnWork, Goto, itemVars, queueVars, workerVars, InCallback, Queuing, TypeOK, Threads,
        Base
  <2>2. UNCHANGED <<frames, nested, current>>
    BY <1>18 DEF WaitOnWork, Goto, itemVars, queueVars, workerVars
  <2> QED
    BY <2>1, <2>2 DEF Framed
<1>19. ASSUME NEW c \in Clients, WaitOnCpuWork(c) PROVE Framed'
  <2>1. CallbacksStay
    BY <1>19, WorkqueueAssumption
    DEF WaitOnCpuWork, WakeWorker, InsertBarrier, Goto, itemVars, InCallback, Queuing, TypeOK,
        Threads, Base
  <2>2. UNCHANGED <<frames, nested, current>>
    BY <1>19 DEF WaitOnCpuWork, WakeWorker, InsertBarrier, Goto, itemVars
  <2> QED
    BY <2>1, <2>2 DEF Framed
<1>20. ASSUME NEW c \in Clients, WaitOnWorkDone(c) PROVE Framed'
  <2>1. CallbacksStay
    BY <1>20, WorkqueueAssumption
    DEF WaitOnWorkDone, Goto, itemVars, queueVars, workerVars, localVars, InCallback, Queuing,
        TypeOK, Threads, Base
  <2>2. UNCHANGED <<frames, nested, current>>
    BY <1>20 DEF WaitOnWorkDone, Goto, itemVars, queueVars, workerVars, localVars
  <2> QED
    BY <2>1, <2>2 DEF Framed
<1>21. ASSUME NEW c \in Clients, CancelNext(c) PROVE Framed'
  <2>1. CallbacksStay
    BY <1>21, WorkqueueAssumption
    DEF CancelNext, Goto, queueVars, workerVars, InCallback, Queuing, TypeOK, Threads, Base
  <2>2. UNCHANGED <<frames, nested, current>>
    BY <1>21 DEF CancelNext, Goto, queueVars, workerVars
  <2> QED
    BY <2>1, <2>2 DEF Framed
<1>22. ASSUME NEW c \in Clients, WorkClearPending(c) PROVE Framed'
  <2>1. CallbacksStay
    BY <1>22, WorkqueueAssumption
    DEF WorkClearPending, Goto, queueVars, workerVars, InCallback, Queuing, TypeOK, Threads, Base
  <2>2. UNCHANGED <<frames, nested, current>>
    BY <1>22 DEF WorkClearPending, Goto, queueVars, workerVars
  <2> QED
    BY <2>1, <2>2 DEF Framed
<1>23. ASSUME NEW q \in Wqs, PrepareToWait(q) PROVE Framed'
  <2>1. CallbacksStay
    BY <1>23, WorkqueueAssumption
    DEF PrepareToWait, Goto, itemVars, queueVars, localVars, InCallback, Queuing, TypeOK, Threads,
        Base
  <2>2. UNCHANGED <<frames, nested, current>>
    BY <1>23 DEF PrepareToWait, Goto, itemVars, queueVars, localVars
  <2> QED
    BY <2>1, <2>2 DEF Framed
<1>24. ASSUME NEW q \in Wqs, CheckWork(q) PROVE Framed'
  <2>1. CallbacksStay
    BY <1>24, WorkqueueAssumption
    DEF CheckWork, Goto, itemVars, queueVars, workerVars, localVars, InCallback, Queuing, TypeOK,
        Threads, Base
  <2>2. UNCHANGED <<frames, nested, current>>
    BY <1>24 DEF CheckWork, Goto, itemVars, queueVars, workerVars, localVars
  <2> QED
    BY <2>1, <2>2 DEF Framed
<1>25. ASSUME NEW q \in Wqs, Schedule(q) PROVE Framed'
  <2>1. CallbacksStay
    BY <1>25, WorkqueueAssumption
    DEF Schedule, Goto, itemVars, queueVars, workerVars, localVars, InCallback, Queuing, TypeOK,
        Threads, Base
  <2>2. UNCHANGED <<frames, nested, current>>
    BY <1>25 DEF Schedule, Goto, itemVars, queueVars, workerVars, localVars
  <2> QED
    BY <2>1, <2>2 DEF Framed
<1>26. ASSUME NEW q \in Wqs, FinishWait(q) PROVE Framed'
  <2>1. CallbacksStay
    BY <1>26, WorkqueueAssumption
    DEF FinishWait, WakeWorker, Goto, itemVars, queueVars, localVars, InCallback, Queuing, TypeOK,
        Threads, Base
  <2>2. UNCHANGED <<frames, nested, current>>
    BY <1>26 DEF FinishWait, WakeWorker, Goto, itemVars, queueVars, localVars
  <2> QED
    BY <2>1, <2>2 DEF Framed
<1>27. ASSUME NEW q \in Wqs, RunWorkqueue(q) PROVE Framed'
  <2>1. frames[q] # <<>> => nested[q]
    BY <1>27 DEF RunWorkqueue, Framed, InCallback, Queuing
  <2>2. UNCHANGED <<frames, nested>> /\ \A p \in Wqs \ {q} : current'[p] = current[p] /\
             pc'[p] = pc[p]
    BY <1>27 DEF RunWorkqueue, Goto, itemVars, workerVars, localVars, TypeOK, Threads
  <2> QED
    BY <2>1, <2>2 DEF Framed
<1>28. ASSUME NEW q \in Wqs, ClearPending(q) PROVE Framed'
  <2>1. PICK h \in Entries : h = current[q] /\ Taken(q, h)
    BY <1>28, Locals DEF ClearPending, Taken
  <2>2. frames' = [frames EXCEPT ![q] = Append(@, h)] /\ nested' = [nested EXCEPT ![q] = FALSE]
    BY <1>28, <2>1 DEF ClearPending
  <2>3. UNCHANGED current /\ pc'[q] = "func" /\ \A p \in Wqs \ {q} : pc'[p] = pc[p]
    BY <1>28 DEF ClearPending, Goto, workerVars, localVars, TypeOK, Threads
  <2> QED
    BY <2>1, <2>2, <2>3, Pushed DEF Framed, InCallback
<1>29. ASSUME NEW q \in Wqs, BarrierFunc(q) PROVE Framed'
  <2>1. /\ frames[q] # <<>> /\ frames' = [frames EXCEPT ![q] = Front(@)]
        /\ nested' = [nested EXCEPT ![q] = Len(frames[q]) > 1]
    BY <1>29, Locals DEF BarrierFunc, Return, InCallback
  <2>2. UNCHANGED current /\ \A p \in Wqs \ {q} : pc'[p] = pc[p]
    BY <1>29 DEF BarrierFunc, Return, Goto, itemVars, workerVars, localVars, TypeOK, Threads
  <2> QED
    BY <2>1, <2>2, Popped DEF Framed
<1>30. ASSUME NEW q \in Wqs, CallbackReturn(q) PROVE Framed'
  <2>1. /\ frames[q] # <<>> /\ frames' = [frames EXCEPT ![q] = Front(@)]
        /\ nested' = [nested EXCEPT ![q] = Len(frames[q]) > 1]
    BY <1>30, Locals DEF CallbackReturn, Return, InCallback
  <2>2. UNCHANGED current /\ \A p \in Wqs \ {q} : pc'[p] = pc[p]
    BY <1>30 DEF CallbackReturn, Return, Goto, itemVars, workerVars, localVars, TypeOK, Threads
  <2> QED
    BY <2>1, <2>2, Popped DEF Framed
<1>31. ASSUME NEW q \in Wqs, SelfFlush(q) PROVE Framed'
  <2>1. /\ UNCHANGED <<frames, current>> /\ nested'[q]
        /\ \A p \in Wqs \ {q} : nested'[p] = nested[p] /\ pc'[p] = pc[p]
    BY <1>31 DEF SelfFlush, Goto, itemVars, workerVars, localVars, TypeOK, Threads
  <2> QED
    BY <2>1 DEF Framed
<1>32. ASSUME NEW w \in Works, TimerExpire(w) PROVE Framed'
  <2>1. CallbacksStay
    BY <1>32, WorkqueueAssumption
    DEF TimerExpire, queueVars, workerVars, localVars, InCallback, Queuing, TypeOK, Threads, Base
  <2>2. UNCHANGED <<frames, nested, current>>
    BY <1>32 DEF TimerExpire, queueVars, workerVars, localVars
  <2> QED
    BY <2>1, <2>2 DEF Framed
<1>33. ASSUME NEW w \in Works, DelayedWorkTimerFn(w) PROVE Framed'
  <2>1. CallbacksStay
    BY <1>33, WorkqueueAssumption
    DEF DelayedWorkTimerFn, WakeWorker, InsertWork, localVars, InCallback, Queuing, TypeOK,
        Threads, Base
  <2>2. UNCHANGED <<frames, nested, current>>
    BY <1>33 DEF DelayedWorkTimerFn, WakeWorker, InsertWork, localVars
  <2> QED
    BY <2>1, <2>2 DEF Framed
<1> QED
  BY <1>1, <1>2, <1>3, <1>4, <1>5, <1>6, <1>7, <1>8, <1>9, <1>10,
     <1>11, <1>12, <1>13, <1>14, <1>15, <1>16, <1>17, <1>18, <1>19, <1>20,
     <1>21, <1>22, <1>23, <1>24, <1>25, <1>26, <1>27, <1>28, <1>29, <1>30,
     <1>31, <1>32, <1>33
  DEF Next, Queueing, Insertion, ClientCall, ClientStep, WorkerStep, TimerStep

(* Nobody touches a work that a cancel has grabbed: its cwq, ...           *)
LEMMA GrabbedData ==
  ASSUME TypeOK, Shape, Ownership, DataSet, NEW e \in Clients, NEW g \in Works, Grabbed(e, g),
             [Next]_vars
  PROVE  data'[g] = data[g]
<1> USE DEF Kinds, Things, Threads
<1>0. At("grabbed", e, g)
  BY DEF At
<1>1. CASE UNCHANGED vars
  BY <1>1 DEF vars
<1>2. ASSUME NEW x \in Threads, NEW w \in Works, NEW q \in Wqs, QueueWork(x, w, q)
      PROVE  data'[g] = data[g]
  BY <1>2 DEF QueueWork, MayQueue, Goto, queueVars, workerVars, TypeOK
<1>3. ASSUME NEW x \in Threads, NEW w \in Works, NEW q \in Wqs, QueueDelayedWork(x, w, q)
      PROVE  data'[g] = data[g]
  BY <1>3 DEF QueueDelayedWork, MayQueue, Goto, queueVars, workerVars, TypeOK
<1>4. ASSUME NEW x \in Threads, QueueWorkInsert(x) PROVE data'[g] = data[g]
  <2>1. PICK a \in Works, b \in Wqs : a = arg[x] /\ b = tq[x] /\ Queuer(x, a)
    BY <1>4, Locals DEF QueueWorkInsert, Queuing, Queuer
  <2>2. a # g
    BY <1>0, <2>1, Sole DEF Ownership
  <2> QED
    BY <1>4, <2>1, <2>2 DEF QueueWorkInsert, WakeWorker, InsertWork, Goto, TypeOK
<1>5. ASSUME NEW x \in Threads, SetWqData(x) PROVE data'[g] = data[g]
  <2>1. PICK a \in Works, b \in Wqs : a = arg[x] /\ b = tq[x] /\ Queuer(x, a)
    BY <1>5, Locals DEF SetWqData, Queuing, Queuer
  <2>2. a # g
    BY <1>0, <2>1, Sole DEF Ownership
  <2> QED
    BY <1>5, <2>1, <2>2 DEF SetWqData, Goto, queueVars, workerVars, localVars, TypeOK
<1>6. ASSUME NEW x \in Threads, AddTimer(x) PROVE data'[g] = data[g]
  BY <1>6 DEF AddTimer, Goto, queueVars, workerVars, TypeOK
<1>7. ASSUME NEW c \in Clients, NEW q \in Wqs, FlushWorkqueue(c, q) PROVE data'[g] = data[g]
  BY <1>7 DEF FlushWorkqueue, WakeWorker, InsertBarrier, FlushCpuWorkqueue, Goto, itemVars, TypeOK
<1>8. ASSUME NEW c \in Clients, NEW q \in Wqs, DestroyWorkqueue(c, q) PROVE data'[g] = data[g]
  BY <1>8 DEF DestroyWorkqueue, WakeWorker, InsertBarrier, FlushCpuWorkqueue, Goto, itemVars, TypeOK
<1>9. ASSUME NEW c \in Clients, NEW w \in Works, CancelDelayedWork(c, w) PROVE data'[g] = data[g]
  BY <1>9 DEF CancelDelayedWork, Goto, queueVars, workerVars, TypeOK
<1>10. ASSUME NEW c \in Clients, NEW w \in Works, NEW t \in BOOLEAN, CancelWork(c, w, t)
       PROVE  data'[g] = data[g]
  BY <1>10 DEF CancelWork, Goto, itemVars, queueVars, workerVars, TypeOK
<1>11. ASSUME NEW c \in Clients, FlushDone(c) PROVE data'[g] = data[g]
  BY <1>11 DEF FlushDone, Goto, itemVars, queueVars, workerVars, localVars, TypeOK
<1>12. ASSUME NEW c \in Clients, FlushReturn(c) PROVE data'[g] = data[g]
  BY <1>12 DEF FlushReturn, Goto, itemVars, queueVars, workerVars, TypeOK
<1>13. ASSUME NEW c \in Clients, KthreadStop(c) PROVE data'[g] = data[g]
  BY <1>13 DEF KthreadStop, WakeWorker, Goto, itemVars, queueVars, localVars, TypeOK
<1>14. ASSUME NEW c \in Clients, DestroyReturn(c) PROVE data'[g] = data[g]
  BY <1>14 DEF DestroyReturn, Goto, itemVars, queueVars, workerVars, TypeOK
<1>15. ASSUME NEW c \in Clients, DelTimer(c) PROVE data'[g] = data[g]
  BY <1>15 DEF DelTimer, Goto, queueVars, workerVars, TypeOK
<1>16. ASSUME NEW c \in Clients, TryToGrabPending(c) PROVE data'[g] = data[g]
  BY <1>16 DEF TryToGrabPending, Goto, queueVars, workerVars, TypeOK
<1>17. ASSUME NEW c \in Clients, StealWork(c) PROVE data'[g] = data[g]
  BY <1>17 DEF StealWork, Goto, itemVars, workerVars, TypeOK
<1>18. ASSUME NEW c \in Clients, WaitOnWork(c) PROVE data'[g] = data[g]
  BY <1>18 DEF WaitOnWork, Goto, itemVars, queueVars, workerVars, TypeOK
<1>19. ASSUME NEW c \in Clients, WaitOnCpuWork(c) PROVE data'[g] = data[g]
  BY <1>19 DEF WaitOnCpuWork, WakeWorker, InsertBarrier, Goto, itemVars, TypeOK
<1>20. ASSUME NEW c \in Clients, WaitOnWorkDone(c) PROVE data'[g] = data[g]
  BY <1>20 DEF WaitOnWorkDone, Goto, itemVars, queueVars, workerVars, localVars, TypeOK
<1>21. ASSUME NEW c \in Clients, CancelNext(c) PROVE data'[g] = data[g]
  BY <1>21 DEF CancelNext, Goto, queueVars, workerVars, TypeOK
<1>22. ASSUME NEW c \in Clients, WorkClearPending(c) PROVE data'[g] = data[g]
  BY <1>22 DEF WorkClearPending, Goto, queueVars, workerVars, TypeOK
<1>23. ASSUME NEW q \in Wqs, PrepareToWait(q) PROVE data'[g] = data[g]
  BY <1>23 DEF PrepareToWait, Goto, itemVars, queueVars, localVars, TypeOK
<1>24. ASSUME NEW q \in Wqs, CheckWork(q) PROVE data'[g] = data[g]
  BY <1>24 DEF CheckWork, Goto, itemVars, queueVars, workerVars, localVars, TypeOK
<1>25. ASSUME NEW q \in Wqs, Schedule(q) PROVE data'[g] = data[g]
  BY <1>25 DEF Schedule, Goto, itemVars, queueVars, workerVars, localVars, TypeOK
<1>26. ASSUME NEW q \in Wqs, FinishWait(q) PROVE data'[g] = data[g]
  BY <1>26 DEF FinishWait, WakeWorker, Goto, itemVars, queueVars, localVars, TypeOK
<1>27. ASSUME NEW q \in Wqs, RunWorkqueue(q) PROVE data'[g] = data[g]
  BY <1>27 DEF RunWorkqueue, Goto, itemVars, workerVars, localVars, TypeOK
<1>28. ASSUME NEW q \in Wqs, ClearPending(q) PROVE data'[g] = data[g]
  BY <1>28 DEF ClearPending, Goto, workerVars, localVars, TypeOK
<1>29. ASSUME NEW q \in Wqs, BarrierFunc(q) PROVE data'[g] = data[g]
  BY <1>29 DEF BarrierFunc, Return, Goto, itemVars, workerVars, localVars, TypeOK
<1>30. ASSUME NEW q \in Wqs, CallbackReturn(q) PROVE data'[g] = data[g]
  BY <1>30 DEF CallbackReturn, Return, Goto, itemVars, workerVars, localVars, TypeOK
<1>31. ASSUME NEW q \in Wqs, SelfFlush(q) PROVE data'[g] = data[g]
  BY <1>31 DEF SelfFlush, Goto, itemVars, workerVars, localVars, TypeOK
<1>32. ASSUME NEW w \in Works, TimerExpire(w) PROVE data'[g] = data[g]
  BY <1>32 DEF TimerExpire, queueVars, workerVars, localVars, TypeOK
<1>33. ASSUME NEW w \in Works, DelayedWorkTimerFn(w) PROVE data'[g] = data[g]
  BY <1>33 DEF DelayedWorkTimerFn, WakeWorker, InsertWork, localVars, TypeOK
<1> QED
  BY <1>1, <1>2, <1>3, <1>4, <1>5, <1>6, <1>7, <1>8, <1>9, <1>10,
     <1>11, <1>12, <1>13, <1>14, <1>15, <1>16, <1>17, <1>18, <1>19, <1>20,
     <1>21, <1>22, <1>23, <1>24, <1>25, <1>26, <1>27, <1>28, <1>29, <1>30,
     <1>31, <1>32, <1>33
  DEF Next, Queueing, Insertion, ClientCall, ClientStep, WorkerStep, TimerStep

(* ... and it does not begin to run, ...                                   *)
LEMMA GrabbedRuns ==
  ASSUME TypeOK, Shape, Listed, Ownership, NEW e \in Clients, NEW g \in Works, Grabbed(e, g),
             [Next]_vars
  PROVE  \A p \in Wqs : Top(p, g)' \/ Taken(p, g)' => Top(p, g) \/ Taken(p, g)
<1>0. At("grabbed", e, g) /\ \A q \in Wqs : ~On(q, g)
  <2>1. At("grabbed", e, g)
    BY DEF At
  <2> QED
    BY <2>1, Sole DEF Ownership, Kinds, Things, Threads
<1> DEFINE TopFewer == \A p \in Wqs : Top(p, g)' => Top(p, g)
           TakenFewer == \A p \in Wqs : Taken(p, g)' => Taken(p, g)
<1>1. CASE UNCHANGED vars
  BY <1>1 DEF vars, Top, Taken
<1>2. ASSUME NEW x \in Threads, NEW w \in Works, NEW q \in Wqs, QueueWork(x, w, q)
      PROVE  \A p \in Wqs : Top(p, g)' \/ Taken(p, g)' => Top(p, g) \/ Taken(p, g)
  <2>11. TopFewer
    BY <1>2 DEF QueueWork, MayQueue, Goto, queueVars, workerVars, Top
  <2>12. TakenFewer
    BY <1>2, WorkqueueAssumption
    DEF QueueWork, MayQueue, Goto, queueVars, workerVars, Taken, TypeOK, Threads, Base
  <2> QED
    BY <2>11, <2>12
<1>3. ASSUME NEW x \in Threads, NEW w \in Works, NEW q \in Wqs, QueueDelayedWork(x, w, q)
      PROVE  \A p \in Wqs : Top(p, g)' \/ Taken(p, g)' => Top(p, g) \/ Taken(p, g)
  <2>11. TopFewer
    BY <1>3 DEF QueueDelayedWork, MayQueue, Goto, queueVars, workerVars, Top
  <2>12. TakenFewer
    BY <1>3, WorkqueueAssumption
    DEF QueueDelayedWork, MayQueue, Goto, queueVars, workerVars, Taken, TypeOK, Threads, Base
  <2> QED
    BY <2>11, <2>12
<1>4. ASSUME NEW x \in Threads, QueueWorkInsert(x)
      PROVE  \A p \in Wqs : Top(p, g)' \/ Taken(p, g)' => Top(p, g) \/ Taken(p, g)
  <2>11. TopFewer
    BY <1>4 DEF QueueWorkInsert, WakeWorker, InsertWork, Goto, Top
  <2>12. TakenFewer
    BY <1>4, WorkqueueAssumption
    DEF QueueWorkInsert, WakeWorker, InsertWork, Goto, Taken, TypeOK, Threads, Base
  <2> QED
    BY <2>11, <2>12
<1>5. ASSUME NEW x \in Threads, SetWqData(x)
      PROVE  \A p \in Wqs : Top(p, g)' \/ Taken(p, g)' => Top(p, g) \/ Taken(p, g)
  <2>11. TopFewer
    BY <1>5 DEF SetWqData, Goto, queueVars, workerVars, localVars, Top
  <2>12. TakenFewer
    BY <1>5, WorkqueueAssumption
    DEF SetWqData, Goto, queueVars, workerVars, localVars, Taken, TypeOK, Threads, Base
  <2> QED
    BY <2>11, <2>12
<1>6. ASSUME NEW x \in Threads, AddTimer(x)
      PROVE  \A p \in Wqs : Top(p, g)' \/ Taken(p, g)' => Top(p, g) \/ Taken(p, g)
  <2>11. TopFewer
    BY <1>6 DEF AddTimer, Goto, queueVars, workerVars, Top
  <2>12. TakenFewer
    BY <1>6, WorkqueueAssumption
    DEF AddTimer, Goto, queueVars, workerVars, Taken, TypeOK, Threads, Base
  <2> QED
    BY <2>11, <2>12
<1>7. ASSUME NEW c \in Clients, NEW q \in Wqs, FlushWorkqueue(c, q)
      PROVE  \A p \in Wqs : Top(p, g)' \/ Taken(p, g)' => Top(p, g) \/ Taken(p, g)
  <2>11. TopFewer
    BY <1>7 DEF FlushWorkqueue, WakeWorker, InsertBarrier, FlushCpuWorkqueue, Goto, itemVars, Top
  <2>12. TakenFewer
    BY <1>7, WorkqueueAssumption
    DEF FlushWorkqueue, WakeWorker, InsertBarrier, FlushCpuWorkqueue, Goto, itemVars, Taken,
        TypeOK, Threads, Base
  <2> QED
    BY <2>11, <2>12
<1>8. ASSUME NEW c \in Clients, NEW q \in Wqs, DestroyWorkqueue(c, q)
      PROVE  \A p \in Wqs : Top(p, g)' \/ Taken(p, g)' => Top(p, g) \/ Taken(p, g)
  <2>11. TopFewer
    BY <1>8 DEF DestroyWorkqueue, WakeWorker, InsertBarrier, FlushCpuWorkqueue, Goto, itemVars, Top
  <2>12. TakenFewer
    BY <1>8, WorkqueueAssumption
    DEF DestroyWorkqueue, WakeWorker, InsertBarrier, FlushCpuWorkqueue, Goto, itemVars, Taken,
        TypeOK, Threads, Base
  <2> QED
    BY <2>11, <2>12
<1>9. ASSUME NEW c \in Clients, NEW w \in Works, CancelDelayedWork(c, w)
      PROVE  \A p \in Wqs : Top(p, g)' \/ Taken(p, g)' => Top(p, g) \/ Taken(p, g)
  <2>11. TopFewer
    BY <1>9 DEF CancelDelayedWork, Goto, queueVars, workerVars, Top
  <2>12. TakenFewer
    BY <1>9, WorkqueueAssumption
    DEF CancelDelayedWork, Goto, queueVars, workerVars, Taken, TypeOK, Threads, Base
  <2> QED
    BY <2>11, <2>12
<1>10. ASSUME NEW c \in Clients, NEW w \in Works, NEW t \in BOOLEAN, CancelWork(c, w, t)
       PROVE  \A p \in Wqs : Top(p, g)' \/ Taken(p, g)' => Top(p, g) \/ Taken(p, g)
  <2>11. TopFewer
    BY <1>10 DEF CancelWork, Goto, itemVars, queueVars, workerVars, Top
  <2>12. TakenFewer
    BY <1>10, WorkqueueAssumption
    DEF CancelWork, Goto, itemVars, queueVars, workerVars, Taken, TypeOK, Threads, Base
  <2> QED
    BY <2>11, <2>12
<1>11. ASSUME NEW c \in Clients, FlushDone(c)
       PROVE  \A p \in Wqs : Top(p, g)' \/ Taken(p, g)' => Top(p, g) \/ Taken(p, g)
  <2>11. TopFewer
    BY <1>11 DEF FlushDone, Goto, itemVars, queueVars, workerVars, localVars, Top
  <2>12. TakenFewer
    BY <1>11, WorkqueueAssumption
    DEF FlushDone, Goto, itemVars, queueVars, workerVars, localVars, Taken, TypeOK, Threads, Base
  <2> QED
    BY <2>11, <2>12
<1>12. ASSUME NEW c \in Clients, FlushReturn(c)
       PROVE  \A p \in Wqs : Top(p, g)' \/ Taken(p, g)' => Top(p, g) \/ Taken(p, g)
  <2>11. TopFewer
    BY <1>12 DEF FlushReturn, Goto, itemVars, queueVars, workerVars, Top
  <2>12. TakenFewer
    BY <1>12, WorkqueueAssumption
    DEF FlushReturn, Goto, itemVars, queueVars, workerVars, Taken, TypeOK, Threads, Base
  <2> QED
    BY <2>11, <2>12
<1>13. ASSUME NEW c \in Clients, KthreadStop(c)
       PROVE  \A p \in Wqs : Top(p, g)' \/ Taken(p, g)' => Top(p, g) \/ Taken(p, g)
  <2>11. TopFewer
    BY <1>13 DEF KthreadStop, WakeWorker, Goto, itemVars, queueVars, localVars, Top
  <2>12. TakenFewer
    BY <1>13, WorkqueueAssumption
    DEF KthreadStop, WakeWorker, Goto, itemVars, queueVars, localVars, Taken, TypeOK, Threads, Base
  <2> QED
    BY <2>11, <2>12
<1>14. ASSUME NEW c \in Clients, DestroyReturn(c)
       PROVE  \A p \in Wqs : Top(p, g)' \/ Taken(p, g)' => Top(p, g) \/ Taken(p, g)
  <2>11. TopFewer
    BY <1>14 DEF DestroyReturn, Goto, itemVars, queueVars, workerVars, Top
  <2>12. TakenFewer
    BY <1>14, WorkqueueAssumption
    DEF DestroyReturn, Goto, itemVars, queueVars, workerVars, Taken, TypeOK, Threads, Base
  <2> QED
    BY <2>11, <2>12
<1>15. ASSUME NEW c \in Clients, DelTimer(c)
       PROVE  \A p \in Wqs : Top(p, g)' \/ Taken(p, g)' => Top(p, g) \/ Taken(p, g)
  <2>11. TopFewer
    BY <1>15 DEF DelTimer, Goto, queueVars, workerVars, Top
  <2>12. TakenFewer
    BY <1>15, WorkqueueAssumption
    DEF DelTimer, Goto, queueVars, workerVars, Taken, TypeOK, Threads, Base
  <2> QED
    BY <2>11, <2>12
<1>16. ASSUME NEW c \in Clients, TryToGrabPending(c)
       PROVE  \A p \in Wqs : Top(p, g)' \/ Taken(p, g)' => Top(p, g) \/ Taken(p, g)
  <2>11. TopFewer
    BY <1>16 DEF TryToGrabPending, Goto, queueVars, workerVars, Top
  <2>12. TakenFewer
    BY <1>16, WorkqueueAssumption
    DEF TryToGrabPending, Goto, queueVars, workerVars, Taken, TypeOK, Threads, Base
  <2> QED
    BY <2>11, <2>12
<1>17. ASSUME NEW c \in Clients, StealWork(c)
       PROVE  \A p \in Wqs : Top(p, g)' \/ Taken(p, g)' => Top(p, g) \/ Taken(p, g)
  <2>11. TopFewer
    BY <1>17 DEF StealWork, Goto, itemVars, workerVars, Top
  <2>12. TakenFewer
    BY <1>17, WorkqueueAssumption
    DEF StealWork, Goto, itemVars, workerVars, Taken, TypeOK, Threads, Base
  <2> QED
    BY <2>11, <2>12
<1>18. ASSUME NEW c \in Clients, WaitOnWork(c)
       PROVE  \A p \in Wqs : Top(p, g)' \/ Taken(p, g)' => Top(p, g) \/ Taken(p, g)
  <2>11. TopFewer
    BY <1>18 DEF WaitOnWork, Goto, itemVars, queueVars, workerVars, Top
  <2>12. TakenFewer
    BY <1>18, WorkqueueAssumption
    DEF WaitOnWork, Goto, itemVars, queueVars, workerVars, Taken, TypeOK, Threads, Base
  <2> QED
    BY <2>11, <2>12
<1>19. ASSUME NEW c \in Clients, WaitOnCpuWork(c)
       PROVE  \A p \in Wqs : Top(p, g)' \/ Taken(p, g)' => Top(p, g) \/ Taken(p, g)
  <2>11. TopFewer
    BY <1>19 DEF WaitOnCpuWork, WakeWorker, InsertBarrier, Goto, itemVars, Top
  <2>12. TakenFewer
    BY <1>19, WorkqueueAssumption
    DEF WaitOnCpuWork, WakeWorker, InsertBarrier, Goto, itemVars, Taken, TypeOK, Threads, Base
  <2> QED
    BY <2>11, <2>12
<1>20. ASSUME NEW c \in Clients, WaitOnWorkDone(c)
       PROVE  \A p \in Wqs : Top(p, g)' \/ Taken(p, g)' => Top(p, g) \/ Taken(p, g)
  <2>11. TopFewer
    BY <1>20 DEF WaitOnWorkDone, Goto, itemVars, queueVars, workerVars, localVars, Top
  <2>12. TakenFewer
    BY <1>20, WorkqueueAssumption
    DEF WaitOnWorkDone, Goto, itemVars, queueVars, workerVars, localVars, Taken, TypeOK, Threads,
        Base
  <2> QED
    BY <2>11, <2>12
<1>21. ASSUME NEW c \in Clients, CancelNext(c)
       PROVE  \A p \in Wqs : Top(p, g)' \/ Taken(p, g)' => Top(p, g) \/ Taken(p, g)
  <2>11. TopFewer
    BY <1>21 DEF CancelNext, Goto, queueVars, workerVars, Top
  <2>12. TakenFewer
    BY <1>21, WorkqueueAssumption
    DEF CancelNext, Goto, queueVars, workerVars, Taken, TypeOK, Threads, Base
  <2> QED
    BY <2>11, <2>12
<1>22. ASSUME NEW c \in Clients, WorkClearPending(c)
       PROVE  \A p \in Wqs : Top(p, g)' \/ Taken(p, g)' => Top(p, g) \/ Taken(p, g)
  <2>11. TopFewer
    BY <1>22 DEF WorkClearPending, Goto, queueVars, workerVars, Top
  <2>12. TakenFewer
    BY <1>22, WorkqueueAssumption
    DEF WorkClearPending, Goto, queueVars, workerVars, Taken, TypeOK, Threads, Base
  <2> QED
    BY <2>11, <2>12
<1>23. ASSUME NEW q \in Wqs, PrepareToWait(q)
       PROVE  \A p \in Wqs : Top(p, g)' \/ Taken(p, g)' => Top(p, g) \/ Taken(p, g)
  <2>11. TopFewer
    BY <1>23 DEF PrepareToWait, Goto, itemVars, queueVars, localVars, Top
  <2>12. TakenFewer
    BY <1>23, WorkqueueAssumption
    DEF PrepareToWait, Goto, itemVars, queueVars, localVars, Taken, TypeOK, Threads, Base
  <2> QED
    BY <2>11, <2>12
<1>24. ASSUME NEW q \in Wqs, CheckWork(q)
       PROVE  \A p \in Wqs : Top(p, g)' \/ Taken(p, g)' => Top(p, g) \/ Taken(p, g)
  <2>11. TopFewer
    BY <1>24 DEF CheckWork, Goto, itemVars, queueVars, workerVars, localVars, Top
  <2>12. TakenFewer
    BY <1>24, WorkqueueAssumption
    DEF CheckWork, Goto, itemVars, queueVars, workerVars, localVars, Taken, TypeOK, Threads, Base
  <2> QED
    BY <2>11, <2>12
<1>25. ASSUME NEW q \in Wqs, Schedule(q)
       PROVE  \A p \in Wqs : Top(p, g)' \/ Taken(p, g)' => Top(p, g) \/ Taken(p, g)
  <2>11. TopFewer
    BY <1>25 DEF Schedule, Goto, itemVars, queueVars, workerVars, localVars, Top
  <2>12. TakenFewer
    BY <1>25, WorkqueueAssumption
    DEF Schedule, Goto, itemVars, queueVars, workerVars, localVars, Taken, TypeOK, Threads, Base
  <2> QED
    BY <2>11, <2>12
<1>26. ASSUME NEW q \in Wqs, FinishWait(q)
       PROVE  \A p \in Wqs : Top(p, g)' \/ Taken(p, g)' => Top(p, g) \/ Taken(p, g)
  <2>11. TopFewer
    BY <1>26 DEF FinishWait, WakeWorker, Goto, itemVars, queueVars, localVars, Top
  <2>12. TakenFewer
    BY <1>26, WorkqueueAssumption
    DEF FinishWait, WakeWorker, Goto, itemVars, queueVars, localVars, Taken, TypeOK, Threads, Base
  <2> QED
    BY <2>11, <2>12
<1>27. ASSUME NEW q \in Wqs, RunWorkqueue(q)
       PROVE  \A p \in Wqs : Top(p, g)' \/ Taken(p, g)' => Top(p, g) \/ Taken(p, g)
  <2>30. CASE worklist[q] = <<>>
    <3>11. TopFewer
      BY <1>27, <2>30 DEF RunWorkqueue, Goto, itemVars, workerVars, localVars, Top
    <3>12. TakenFewer
      BY <1>27, <2>30, WorkqueueAssumption
      DEF RunWorkqueue, Goto, itemVars, workerVars, localVars, Taken, TypeOK, Threads, Base
    <3> QED
      BY <3>11, <3>12
  <2>31. CASE worklist[q] # <<>>
    <3>1. PICK h \in Entries : h = Head(worklist[q]) /\ On(q, h)
      BY <1>27, <2>31, HeadDeleted DEF RunWorkqueue
    <3>2. /\ worklist' = [worklist EXCEPT ![q] = Tail(@)] /\ current' = [current EXCEPT ![q] = h]
          /\ pc' = [pc EXCEPT ![q] = "clear"] /\ pc[q] \in {"run", "end"}
      BY <1>27, <2>31, <3>1 DEF RunWorkqueue, Goto
    <3>11. TopFewer
      BY <1>27, <2>31 DEF RunWorkqueue, Goto, itemVars, workerVars, localVars, Top
    <3>12. TakenFewer
      BY <1>0, <3>1, <3>2 DEF Taken, TypeOK, Threads
    <3> QED
      BY <3>11, <3>12
  <2> QED
    BY <2>30, <2>31
<1>28. ASSUME NEW q \in Wqs, ClearPending(q)
       PROVE  \A p \in Wqs : Top(p, g)' \/ Taken(p, g)' => Top(p, g) \/ Taken(p, g)
  <2>1. PICK h \in Entries : h = current[q] /\ Taken(q, h)
    BY <1>28, Locals DEF ClearPending, Taken
  <2>2. frames' = [frames EXCEPT ![q] = Append(@, h)] /\ nested' = [nested EXCEPT ![q] = FALSE]
    BY <1>28, <2>1 DEF ClearPending
  <2>11. \A p \in Wqs : Top(p, g)' => Top(p, g) \/ Taken(p, g)
    BY <2>1, <2>2, Pushed DEF Top
  <2>12. TakenFewer
    BY <1>28 DEF ClearPending, Goto, workerVars, localVars, Taken, TypeOK, Threads
  <2> QED
    BY <2>11, <2>12
<1>29. ASSUME NEW q \in Wqs, BarrierFunc(q)
       PROVE  \A p \in Wqs : Top(p, g)' \/ Taken(p, g)' => Top(p, g) \/ Taken(p, g)
  <2>1. /\ frames[q] # <<>> /\ frames' = [frames EXCEPT ![q] = Front(@)]
        /\ nested' = [nested EXCEPT ![q] = Len(frames[q]) > 1]
    BY <1>29, Locals DEF BarrierFunc, Return, InCallback
  <2>11. TopFewer
    BY <2>1, Popped DEF Top
  <2>12. TakenFewer
    BY <1>29, WorkqueueAssumption
    DEF BarrierFunc, Return, Goto, itemVars, workerVars, localVars, Taken, TypeOK, Threads, Base
  <2> QED
    BY <2>11, <2>12
<1>30. ASSUME NEW q \in Wqs, CallbackReturn(q)
       PROVE  \A p \in Wqs : Top(p, g)' \/ Taken(p, g)' => Top(p, g) \/ Taken(p, g)
  <2>1. /\ frames[q] # <<>> /\ frames' = [frames EXCEPT ![q] = Front(@)]
        /\ nested' = [nested EXCEPT ![q] = Len(frames[q]) > 1]
    BY <1>30, Locals DEF CallbackReturn, Return, InCallback
  <2>11. TopFewer
    BY <2>1, Popped DEF Top
  <2>12. TakenFewer
    BY <1>30, WorkqueueAssumption
    DEF CallbackReturn, Return, Goto, itemVars, workerVars, localVars, Taken, TypeOK, Threads, Base
  <2> QED
    BY <2>11, <2>12
<1>31. ASSUME NEW q \in Wqs, SelfFlush(q)
       PROVE  \A p \in Wqs : Top(p, g)' \/ Taken(p, g)' => Top(p, g) \/ Taken(p, g)
  <2>11. TopFewer
    BY <1>31 DEF SelfFlush, Top, TypeOK
  <2>12. TakenFewer
    BY <1>31, WorkqueueAssumption
    DEF SelfFlush, Goto, itemVars, workerVars, localVars, Taken, TypeOK, Threads, Base
  <2> QED
    BY <2>11, <2>12
<1>32. ASSUME NEW w \in Works, TimerExpire(w)
       PROVE  \A p \in Wqs : Top(p, g)' \/ Taken(p, g)' => Top(p, g) \/ Taken(p, g)
  <2>11. TopFewer
    BY <1>32 DEF TimerExpire, queueVars, workerVars, localVars, Top
  <2>12. TakenFewer
    BY <1>32, WorkqueueAssumption
    DEF TimerExpire, queueVars, workerVars, localVars, Taken, TypeOK, Threads, Base
  <2> QED
    BY <2>11, <2>12
<1>33. ASSUME NEW w \in Works, DelayedWorkTimerFn(w)
       PROVE  \A p \in Wqs : Top(p, g)' \/ Taken(p, g)' => Top(p, g) \/ Taken(p, g)
  <2>11. TopFewer
    BY <1>33 DEF DelayedWorkTimerFn, WakeWorker, InsertWork, localVars, Top
  <2>12. TakenFewer
    BY <1>33, WorkqueueAssumption
    DEF DelayedWorkTimerFn, WakeWorker, InsertWork, localVars, Taken, TypeOK, Threads, Base
  <2> QED
    BY <2>11, <2>12
<1> QED
  BY <1>1, <1>2, <1>3, <1>4, <1>5, <1>6, <1>7, <1>8, <1>9, <1>10,
     <1>11, <1>12, <1>13, <1>14, <1>15, <1>16, <1>17, <1>18, <1>19, <1>20,
     <1>21, <1>22, <1>23, <1>24, <1>25, <1>26, <1>27, <1>28, <1>29, <1>30,
     <1>31, <1>32, <1>33
  DEF Next, Queueing, Insertion, ClientCall, ClientStep, WorkerStep, TimerStep

(* ... nor is the barrier of a task that waits queued again.               *)
LEMMA WaitingBarrier ==
  ASSUME TypeOK, Shape, Listed, DataSet, NEW e \in Clients, pc[e] \in Waiting, [Next]_vars
  PROVE  \A p \in Wqs : BarrierAt(p, e)' => BarrierAt(p, e)
<1> DEFINE OnFewer == \A p \in Wqs : On(p, e)' => On(p, e)
           TakenFewer == \A p \in Wqs : Taken(p, e)' => Taken(p, e)
           InsideFewer == \A p \in Wqs : Inside(p, e)' => Inside(p, e)
<1>1. CASE UNCHANGED vars
  BY <1>1 DEF vars, BarrierAt, On, Inside, Taken
<1>2. ASSUME NEW x \in Threads, NEW w \in Works, NEW q \in Wqs, QueueWork(x, w, q)
      PROVE  \A p \in Wqs : BarrierAt(p, e)' => BarrierAt(p, e)
  <2>11. OnFewer
    BY <1>2 DEF QueueWork, MayQueue, Goto, queueVars, workerVars, On
  <2>12. TakenFewer
    BY <1>2, WorkqueueAssumption
    DEF QueueWork, MayQueue, Goto, queueVars, workerVars, Taken, TypeOK, Threads, Base
  <2>13. InsideFewer
    BY <1>2 DEF QueueWork, MayQueue, Goto, queueVars, workerVars, Inside
  <2> QED
    BY <2>11, <2>12, <2>13 DEF BarrierAt
<1>3. ASSUME NEW x \in Threads, NEW w \in Works, NEW q \in Wqs, QueueDelayedWork(x, w, q)
      PROVE  \A p \in Wqs : BarrierAt(p, e)' => BarrierAt(p, e)
  <2>11. OnFewer
    BY <1>3 DEF QueueDelayedWork, MayQueue, Goto, queueVars, workerVars, On
  <2>12. TakenFewer
    BY <1>3, WorkqueueAssumption
    DEF QueueDelayedWork, MayQueue, Goto, queueVars, workerVars, Taken, TypeOK, Threads, Base
  <2>13. InsideFewer
    BY <1>3 DEF QueueDelayedWork, MayQueue, Goto, queueVars, workerVars, Inside
  <2> QED
    BY <2>11, <2>12, <2>13 DEF BarrierAt
<1>4. ASSUME NEW x \in Threads, QueueWorkInsert(x)
      PROVE  \A p \in Wqs : BarrierAt(p, e)' => BarrierAt(p, e)
  <2>1. PICK a \in Works, b \in Wqs : a = arg[x] /\ b = tq[x] /\ Queuer(x, a)
    BY <1>4, Locals DEF QueueWorkInsert, Queuing, Queuer
  <2>11. OnFewer
    BY <1>4, <2>1, WorkInserted, WorkqueueAssumption DEF QueueWorkInsert, Entries
  <2>12. TakenFewer
    BY <1>4, WorkqueueAssumption
    DEF QueueWorkInsert, WakeWorker, InsertWork, Goto, Taken, TypeOK, Threads, Base
  <2>13. InsideFewer
    BY <1>4 DEF QueueWorkInsert, WakeWorker, InsertWork, Goto, Inside
  <2> QED
    BY <2>11, <2>12, <2>13 DEF BarrierAt
<1>5. ASSUME NEW x \in Threads, SetWqData(x)
      PROVE  \A p \in Wqs : BarrierAt(p, e)' => BarrierAt(p, e)
  <2>11. OnFewer
    BY <1>5 DEF SetWqData, Goto, queueVars, workerVars, localVars, On
  <2>12. TakenFewer
    BY <1>5, WorkqueueAssumption
    DEF SetWqData, Goto, queueVars, workerVars, localVars, Taken, TypeOK, Threads, Base
  <2>13. InsideFewer
    BY <1>5 DEF SetWqData, Goto, queueVars, workerVars, localVars, Inside
  <2> QED
    BY <2>11, <2>12, <2>13 DEF BarrierAt
<1>6. ASSUME NEW x \in Threads, AddTimer(x) PROVE \A p \in Wqs : BarrierAt(p, e)' => BarrierAt(p, e)
  <2>11. OnFewer
    BY <1>6 DEF AddTimer, Goto, queueVars, workerVars, On
  <2>12. TakenFewer
    BY <1>6, WorkqueueAssumption
    DEF AddTimer, Goto, queueVars, workerVars, Taken, TypeOK, Threads, Base
  <2>13. InsideFewer
    BY <1>6 DEF AddTimer, Goto, queueVars, workerVars, Inside
  <2> QED
    BY <2>11, <2>12, <2>13 DEF BarrierAt
<1>7. ASSUME NEW c \in Clients, NEW q \in Wqs, FlushWorkqueue(c, q)
      PROVE  \A p \in Wqs : BarrierAt(p, e)' => BarrierAt(p, e)
  <2>1. FlushInserts(c, q) /\ pc[c] \notin Waiting
    BY <1>7 DEF FlushWorkqueue, FlushCpuWorkqueue, FlushInserts, Waiting
  <2>2. e # c
    BY <2>1
  <2>11. OnFewer
    BY <1>7, <2>1, <2>2, BarrierInserted DEF FlushInserts, WaitInserts, Entries, On
  <2>12. TakenFewer
    BY <1>7, WorkqueueAssumption
    DEF FlushWorkqueue, WakeWorker, InsertBarrier, FlushCpuWorkqueue, Goto, itemVars, Taken,
        TypeOK, Threads, Base
  <2>13. InsideFewer
    BY <1>7 DEF FlushWorkqueue, WakeWorker, InsertBarrier, FlushCpuWorkqueue, Goto, itemVars, Inside
  <2> QED
    BY <2>11, <2>12, <2>13 DEF BarrierAt
<1>8. ASSUME NEW c \in Clients, NEW q \in Wqs, DestroyWorkqueue(c, q)
      PROVE  \A p \in Wqs : BarrierAt(p, e)' => BarrierAt(p, e)
  <2>1. FlushInserts(c, q) /\ pc[c] \notin Waiting
    BY <1>8 DEF DestroyWorkqueue, FlushCpuWorkqueue, FlushInserts, Waiting
  <2>2. e # c
    BY <2>1
  <2>11. OnFewer
    BY <1>8, <2>1, <2>2, BarrierInserted DEF FlushInserts, WaitInserts, Entries, On
  <2>12. TakenFewer
    BY <1>8, WorkqueueAssumption
    DEF DestroyWorkqueue, WakeWorker, InsertBarrier, FlushCpuWorkqueue, Goto, itemVars, Taken,
        TypeOK, Threads, Base
  <2>13. InsideFewer
    BY <1>8
    DEF DestroyWorkqueue, WakeWorker, InsertBarrier, FlushCpuWorkqueue, Goto, itemVars, Inside
  <2> QED
    BY <2>11, <2>12, <2>13 DEF BarrierAt
<1>9. ASSUME NEW c \in Clients, NEW w \in Works, CancelDelayedWork(c, w)
      PROVE  \A p \in Wqs : BarrierAt(p, e)' => BarrierAt(p, e)
  <2>11. OnFewer
    BY <1>9 DEF CancelDelayedWork, Goto, queueVars, workerVars, On
  <2>12. TakenFewer
    BY <1>9, WorkqueueAssumption
    DEF CancelDelayedWork, Goto, queueVars, workerVars, Taken, TypeOK, Threads, Base
  <2>13. InsideFewer
    BY <1>9 DEF CancelDelayedWork, Goto, queueVars, workerVars, Inside
  <2> QED
    BY <2>11, <2>12, <2>13 DEF BarrierAt
<1>10. ASSUME NEW c \in Clients, NEW w \in Works, NEW t \in BOOLEAN, CancelWork(c, w, t)
       PROVE  \A p \in Wqs : BarrierAt(p, e)' => BarrierAt(p, e)
  <2>11. OnFewer
    BY <1>10 DEF CancelWork, Goto, itemVars, queueVars, workerVars, On
  <2>12. TakenFewer
    BY <1>10, WorkqueueAssumption
    DEF CancelWork, Goto, itemVars, queueVars, workerVars, Taken, TypeOK, Threads, Base
  <2>13. InsideFewer
    BY <1>10 DEF CancelWork, Goto, itemVars, queueVars, workerVars, Inside
  <2> QED
    BY <2>11, <2>12, <2>13 DEF BarrierAt
<1>11. ASSUME NEW c \in Clients, FlushDone(c)
       PROVE  \A p \in Wqs : BarrierAt(p, e)' => BarrierAt(p, e)
  <2>11. OnFewer
    BY <1>11 DEF FlushDone, Goto, itemVars, queueVars, workerVars, localVars, On
  <2>12. TakenFewer
    BY <1>11, WorkqueueAssumption
    DEF FlushDone, Goto, itemVars, queueVars, workerVars, localVars, Taken, TypeOK, Threads, Base
  <2>13. InsideFewer
    BY <1>11 DEF FlushDone, Goto, itemVars, queueVars, workerVars, localVars, Inside
  <2> QED
    BY <2>11, <2>12, <2>13 DEF BarrierAt
<1>12. ASSUME NEW c \in Clients, FlushReturn(c)
       PROVE  \A p \in Wqs : BarrierAt(p, e)' => BarrierAt(p, e)
  <2>11. OnFewer
    BY <1>12 DEF FlushReturn, Goto, itemVars, queueVars, workerVars, On
  <2>12. TakenFewer
    BY <1>12, WorkqueueAssumption
    DEF FlushReturn, Goto, itemVars, queueVars, workerVars, Taken, TypeOK, Threads, Base
  <2>13. InsideFewer
    BY <1>12 DEF FlushReturn, Goto, itemVars, queueVars, workerVars, Inside
  <2> QED
    BY <2>11, <2>12, <2>13 DEF BarrierAt
<1>13. ASSUME NEW c \in Clients, KthreadStop(c)
       PROVE  \A p \in Wqs : BarrierAt(p, e)' => BarrierAt(p, e)
  <2>11. OnFewer
    BY <1>13 DEF KthreadStop, WakeWorker, Goto, itemVars, queueVars, localVars, On
  <2>12. TakenFewer
    BY <1>13, WorkqueueAssumption
    DEF KthreadStop, WakeWorker, Goto, itemVars, queueVars, localVars, Taken, TypeOK, Threads, Base
  <2>13. InsideFewer
    BY <1>13 DEF KthreadStop, WakeWorker, Goto, itemVars, queueVars, localVars, Inside
  <2> QED
    BY <2>11, <2>12, <2>13 DEF BarrierAt
<1>14. ASSUME NEW c \in Clients, DestroyReturn(c)
       PROVE  \A p \in Wqs : BarrierAt(p, e)' => BarrierAt(p, e)
  <2>11. OnFewer
    BY <1>14 DEF DestroyReturn, Goto, itemVars, queueVars, workerVars, On
  <2>12. TakenFewer
    BY <1>14, WorkqueueAssumption
    DEF DestroyReturn, Goto, itemVars, queueVars, workerVars, Taken, TypeOK, Threads, Base
  <2>13. InsideFewer
    BY <1>14 DEF DestroyReturn, Goto, itemVars, queueVars, workerVars, Inside
  <2> QED
    BY <2>11, <2>12, <2>13 DEF BarrierAt
<1>15. ASSUME NEW c \in Clients, DelTimer(c)
       PROVE  \A p \in Wqs : BarrierAt(p, e)' => BarrierAt(p, e)
  <2>11. OnFewer
    BY <1>15 DEF DelTimer, Goto, queueVars, workerVars, On
  <2>12. TakenFewer
    BY <1>15, WorkqueueAssumption
    DEF DelTimer, Goto, queueVars, workerVars, Taken, TypeOK, Threads, Base
  <2>13. InsideFewer
    BY <1>15 DEF DelTimer, Goto, queueVars, workerVars, Inside
  <2> QED
    BY <2>11, <2>12, <2>13 DEF BarrierAt
<1>16. ASSUME NEW c \in Clients, TryToGrabPending(c)
       PROVE  \A p \in Wqs : BarrierAt(p, e)' => BarrierAt(p, e)
  <2>11. OnFewer
    BY <1>16 DEF TryToGrabPending, Goto, queueVars, workerVars, On
  <2>12. TakenFewer
    BY <1>16, WorkqueueAssumption
    DEF TryToGrabPending, Goto, queueVars, workerVars, Taken, TypeOK, Threads, Base
  <2>13. InsideFewer
    BY <1>16 DEF TryToGrabPending, Goto, queueVars, workerVars, Inside
  <2> QED
    BY <2>11, <2>12, <2>13 DEF BarrierAt
<1>17. ASSUME NEW c \in Clients, StealWork(c)
       PROVE  \A p \in Wqs : BarrierAt(p, e)' => BarrierAt(p, e)
  <2>1. PICK a \in Works, b \in Wqs : a = arg[c] /\ b = tq[c]
    BY <1>17, Locals DEF StealWork, Cancelling
  <2>11. OnFewer
    BY <1>17, <2>1, WorkDeleted DEF StealWork, Entries, On
  <2>12. TakenFewer
    BY <1>17, WorkqueueAssumption
    DEF StealWork, Goto, itemVars, workerVars, Taken, TypeOK, Threads, Base
  <2>13. InsideFewer
    BY <1>17 DEF StealWork, Goto, itemVars, workerVars, Inside
  <2> QED
    BY <2>11, <2>12, <2>13 DEF BarrierAt
<1>18. ASSUME NEW c \in Clients, WaitOnWork(c)
       PROVE  \A p \in Wqs : BarrierAt(p, e)' => BarrierAt(p, e)
  <2>11. OnFewer
    BY <1>18 DEF WaitOnWork, Goto, itemVars, queueVars, workerVars, On
  <2>12. TakenFewer
    BY <1>18, WorkqueueAssumption
    DEF WaitOnWork, Goto, itemVars, queueVars, workerVars, Taken, TypeOK, Threads, Base
  <2>13. InsideFewer
    BY <1>18 DEF WaitOnWork, Goto, itemVars, queueVars, workerVars, Inside
  <2> QED
    BY <2>11, <2>12, <2>13 DEF BarrierAt
<1>19. ASSUME NEW c \in Clients, WaitOnCpuWork(c)
       PROVE  \A p \in Wqs : BarrierAt(p, e)' => BarrierAt(p, e)
  <2>1. PICK b \in Wqs : b = tq[c] /\ WaitInserts(c, b) /\ pc[c] \notin Waiting
    BY <1>19, Locals DEF WaitOnCpuWork, WaitInserts, Waiting
  <2>2. e # c
    BY <2>1
  <2>11. OnFewer
    BY <1>19, <2>1, <2>2, BarrierInserted DEF FlushInserts, WaitInserts, Entries, On
  <2>12. TakenFewer
    BY <1>19, WorkqueueAssumption
    DEF WaitOnCpuWork, WakeWorker, InsertBarrier, Goto, itemVars, Taken, TypeOK, Threads, Base
  <2>13. InsideFewer
    BY <1>19 DEF WaitOnCpuWork, WakeWorker, InsertBarrier, Goto, itemVars, Inside
  <2> QED
    BY <2>11, <2>12, <2>13 DEF BarrierAt
<1>20. ASSUME NEW c \in Clients, WaitOnWorkDone(c)
       PROVE  \A p \in Wqs : BarrierAt(p, e)' => BarrierAt(p, e)
  <2>11. OnFewer
    BY <1>20 DEF WaitOnWorkDone, Goto, itemVars, queueVars, workerVars, localVars, On
  <2>12. TakenFewer
    BY <1>20, WorkqueueAssumption
    DEF WaitOnWorkDone, Goto, itemVars, queueVars, workerVars, localVars, Taken, TypeOK, Threads,
        Base
  <2>13. InsideFewer
    BY <1>20 DEF WaitOnWorkDone, Goto, itemVars, queueVars, workerVars, localVars, Inside
  <2> QED
    BY <2>11, <2>12, <2>13 DEF BarrierAt
<1>21. ASSUME NEW c \in Clients, CancelNext(c)
       PROVE  \A p \in Wqs : BarrierAt(p, e)' => BarrierAt(p, e)
  <2>11. OnFewer
    BY <1>21 DEF CancelNext, Goto, queueVars, workerVars, On
  <2>12. TakenFewer
    BY <1>21, WorkqueueAssumption
    DEF CancelNext, Goto, queueVars, workerVars, Taken, TypeOK, Threads, Base
  <2>13. InsideFewer
    BY <1>21 DEF CancelNext, Goto, queueVars, workerVars, Inside
  <2> QED
    BY <2>11, <2>12, <2>13 DEF BarrierAt
<1>22. ASSUME NEW c \in Clients, WorkClearPending(c)
       PROVE  \A p \in Wqs : BarrierAt(p, e)' => BarrierAt(p, e)
  <2>11. OnFewer
    BY <1>22 DEF WorkClearPending, Goto, queueVars, workerVars, On
  <2>12. TakenFewer
    BY <1>22, WorkqueueAssumption
    DEF WorkClearPending, Goto, queueVars, workerVars, Taken, TypeOK, Threads, Base
  <2>13. InsideFewer
    BY <1>22 DEF WorkClearPending, Goto, queueVars, workerVars, Inside
  <2> QED
    BY <2>11, <2>12, <2>13 DEF BarrierAt
<1>23. ASSUME NEW q \in Wqs, PrepareToWait(q)
       PROVE  \A p \in Wqs : BarrierAt(p, e)' => BarrierAt(p, e)
  <2>11. OnFewer
    BY <1>23 DEF PrepareToWait, Goto, itemVars, queueVars, localVars, On
  <2>12. TakenFewer
    BY <1>23, WorkqueueAssumption
    DEF PrepareToWait, Goto, itemVars, queueVars, localVars, Taken, TypeOK, Threads, Base
  <2>13. InsideFewer
    BY <1>23 DEF PrepareToWait, Goto, itemVars, queueVars, localVars, Inside
  <2> QED
    BY <2>11, <2>12, <2>13 DEF BarrierAt
<1>24. ASSUME NEW q \in Wqs, CheckWork(q) PROVE \A p \in Wqs : BarrierAt(p, e)' => BarrierAt(p, e)
  <2>11. OnFewer
    BY <1>24 DEF CheckWork, Goto, itemVars, queueVars, workerVars, localVars, On
  <2>12. TakenFewer
    BY <1>24, WorkqueueAssumption
    DEF CheckWork, Goto, itemVars, queueVars, workerVars, localVars, Taken, TypeOK, Threads, Base
  <2>13. InsideFewer
    BY <1>24 DEF CheckWork, Goto, itemVars, queueVars, workerVars, localVars, Inside
  <2> QED
    BY <2>11, <2>12, <2>13 DEF BarrierAt
<1>25. ASSUME NEW q \in Wqs, Schedule(q) PROVE \A p \in Wqs : BarrierAt(p, e)' => BarrierAt(p, e)
  <2>11. OnFewer
    BY <1>25 DEF Schedule, Goto, itemVars, queueVars, workerVars, localVars, On
  <2>12. TakenFewer
    BY <1>25, WorkqueueAssumption
    DEF Schedule, Goto, itemVars, queueVars, workerVars, localVars, Taken, TypeOK, Threads, Base
  <2>13. InsideFewer
    BY <1>25 DEF Schedule, Goto, itemVars, queueVars, workerVars, localVars, Inside
  <2> QED
    BY <2>11, <2>12, <2>13 DEF BarrierAt
<1>26. ASSUME NEW q \in Wqs, FinishWait(q) PROVE \A p \in Wqs : BarrierAt(p, e)' => BarrierAt(p, e)
  <2>11. OnFewer
    BY <1>26 DEF FinishWait, WakeWorker, Goto, itemVars, queueVars, localVars, On
  <2>12. TakenFewer
    BY <1>26, WorkqueueAssumption
    DEF FinishWait, WakeWorker, Goto, itemVars, queueVars, localVars, Taken, TypeOK, Threads, Base
  <2>13. InsideFewer
    BY <1>26 DEF FinishWait, WakeWorker, Goto, itemVars, queueVars, localVars, Inside
  <2> QED
    BY <2>11, <2>12, <2>13 DEF BarrierAt
<1>27. ASSUME NEW q \in Wqs, RunWorkqueue(q)
       PROVE  \A p \in Wqs : BarrierAt(p, e)' => BarrierAt(p, e)
  <2>30. CASE worklist[q] = <<>>
    <3>11. OnFewer
      BY <1>27, <2>30 DEF RunWorkqueue, Goto, itemVars, workerVars, localVars, On
    <3>12. TakenFewer
      BY <1>27, <2>30, WorkqueueAssumption
      DEF RunWorkqueue, Goto, itemVars, workerVars, localVars, Taken, TypeOK, Threads, Base
    <3>13. InsideFewer
      BY <1>27, <2>30 DEF RunWorkqueue, Goto, itemVars, workerVars, localVars, Inside
    <3> QED
      BY <3>11, <3>12, <3>13 DEF BarrierAt
  <2>31. CASE worklist[q] # <<>>
    <3>1. PICK h \in Entries : h = Head(worklist[q]) /\ On(q, h)
      BY <1>27, <2>31, HeadDeleted DEF RunWorkqueue
    <3>2. /\ worklist' = [worklist EXCEPT ![q] = Tail(@)] /\ current' = [current EXCEPT ![q] = h]
          /\ pc' = [pc EXCEPT ![q] = "clear"] /\ pc[q] \in {"run", "end"}
      BY <1>27, <2>31, <3>1 DEF RunWorkqueue, Goto
    <3>11. OnFewer
      BY <1>27, <2>31, <3>2, HeadDeleted DEF Entries
    <3>12. \A p \in Wqs : Taken(p, e)' => Taken(p, e) \/ On(p, e)
      BY <3>1, <3>2 DEF Taken, TypeOK, Threads
    <3>13. InsideFewer
      BY <1>27, <2>31 DEF RunWorkqueue, Goto, itemVars, workerVars, localVars, Inside
    <3> QED
      BY <3>11, <3>12, <3>13 DEF BarrierAt
  <2> QED
    BY <2>30, <2>31
<1>28. ASSUME NEW q \in Wqs, ClearPending(q)
       PROVE  \A p \in Wqs : BarrierAt(p, e)' => BarrierAt(p, e)
  <2>1. PICK h \in Entries : h = current[q] /\ Taken(q, h)
    BY <1>28, Locals DEF ClearPending, Taken
  <2>2. frames' = [frames EXCEPT ![q] = Append(@, h)] /\ nested' = [nested EXCEPT ![q] = FALSE]
    BY <1>28, <2>1 DEF ClearPending
  <2>11. OnFewer
    BY <1>28 DEF ClearPending, Goto, workerVars, localVars, On
  <2>12. TakenFewer
    BY <1>28 DEF ClearPending, Goto, workerVars, localVars, Taken, TypeOK, Threads
  <2>13. \A p \in Wqs : Inside(p, e)' => Inside(p, e) \/ Taken(p, e)
    BY <2>1, <2>2, Entered DEF Entries
  <2> QED
    BY <2>11, <2>12, <2>13 DEF BarrierAt
<1>29. ASSUME NEW q \in Wqs, BarrierFunc(q) PROVE \A p \in Wqs : BarrierAt(p, e)' => BarrierAt(p, e)
  <2>1. /\ frames[q] # <<>> /\ frames' = [frames EXCEPT ![q] = Front(@)]
        /\ nested' = [nested EXCEPT ![q] = Len(frames[q]) > 1]
    BY <1>29, Locals DEF BarrierFunc, Return, InCallback
  <2>11. OnFewer
    BY <1>29 DEF BarrierFunc, Return, Goto, itemVars, workerVars, localVars, On
  <2>12. TakenFewer
    BY <1>29, WorkqueueAssumption
    DEF BarrierFunc, Return, Goto, itemVars, workerVars, localVars, Taken, TypeOK, Threads, Base
  <2>13. InsideFewer
    BY <2>1, Left DEF Entries
  <2> QED
    BY <2>11, <2>12, <2>13 DEF BarrierAt
<1>30. ASSUME NEW q \in Wqs, CallbackReturn(q)
       PROVE  \A p \in Wqs : BarrierAt(p, e)' => BarrierAt(p, e)
  <2>1. /\ frames[q] # <<>> /\ frames' = [frames EXCEPT ![q] = Front(@)]
        /\ nested' = [nested EXCEPT ![q] = Len(frames[q]) > 1]
    BY <1>30, Locals DEF CallbackReturn, Return, InCallback
  <2>11. OnFewer
    BY <1>30 DEF CallbackReturn, Return, Goto, itemVars, workerVars, localVars, On
  <2>12. TakenFewer
    BY <1>30, WorkqueueAssumption
    DEF CallbackReturn, Return, Goto, itemVars, workerVars, localVars, Taken, TypeOK, Threads, Base
  <2>13. InsideFewer
    BY <2>1, Left DEF Entries
  <2> QED
    BY <2>11, <2>12, <2>13 DEF BarrierAt
<1>31. ASSUME NEW q \in Wqs, SelfFlush(q) PROVE \A p \in Wqs : BarrierAt(p, e)' => BarrierAt(p, e)
  <2>11. OnFewer
    BY <1>31 DEF SelfFlush, Goto, itemVars, workerVars, localVars, On
  <2>12. TakenFewer
    BY <1>31, WorkqueueAssumption
    DEF SelfFlush, Goto, itemVars, workerVars, localVars, Taken, TypeOK, Threads, Base
  <2>13. InsideFewer
    BY <1>31 DEF SelfFlush, Goto, itemVars, workerVars, localVars, Inside
  <2> QED
    BY <2>11, <2>12, <2>13 DEF BarrierAt
<1>32. ASSUME NEW w \in Works, TimerExpire(w)
       PROVE  \A p \in Wqs : BarrierAt(p, e)' => BarrierAt(p, e)
  <2>11. OnFewer
    BY <1>32 DEF TimerExpire, queueVars, workerVars, localVars, On
  <2>12. TakenFewer
    BY <1>32, WorkqueueAssumption
    DEF TimerExpire, queueVars, workerVars, localVars, Taken, TypeOK, Threads, Base
  <2>13. InsideFewer
    BY <1>32 DEF TimerExpire, queueVars, workerVars, localVars, Inside
  <2> QED
    BY <2>11, <2>12, <2>13 DEF BarrierAt
<1>33. ASSUME NEW w \in Works, DelayedWorkTimerFn(w)
       PROVE  \A p \in Wqs : BarrierAt(p, e)' => BarrierAt(p, e)
  <2>1. PICK b \in Wqs : b = data[w]
    BY <1>33 DEF DelayedWorkTimerFn, DataSet, DataIsRight, TypeOK
  <2>11. OnFewer
    BY <1>33, <2>1, WorkInserted, WorkqueueAssumption DEF DelayedWorkTimerFn, Entries
  <2>12. TakenFewer
    BY <1>33, WorkqueueAssumption
    DEF DelayedWorkTimerFn, WakeWorker, InsertWork, localVars, Taken, TypeOK, Threads, Base
  <2>13. InsideFewer
    BY <1>33 DEF DelayedWorkTimerFn, WakeWorker, InsertWork, localVars, Inside
  <2> QED
    BY <2>11, <2>12, <2>13 DEF BarrierAt
<1> QED
  BY <1>1, <1>2, <1>3, <1>4, <1>5, <1>6, <1>7, <1>8, <1>9, <1>10,
     <1>11, <1>12, <1>13, <1>14, <1>15, <1>16, <1>17, <1>18, <1>19, <1>20,
     <1>21, <1>22, <1>23, <1>24, <1>25, <1>26, <1>27, <1>28, <1>29, <1>30,
     <1>31, <1>32, <1>33
  DEF Next, Queueing, Insertion, ClientCall, ClientStep, WorkerStep, TimerStep

(* A cancel that waits while others take their steps.                      *)
LEMMA CancelKept ==
  ASSUME TypeOK, Shape, Listed, Ownership, DataSet, Framed, TypeOK', [Next]_vars,
         NEW d \in Clients, CancelOf(d), ret[d] >= 0, pc[d] \in {"c_look", "c_barr", "c_next"},
         pc'[d] = pc[d], arg'[d] = arg[d], tq'[d] = tq[d], done'[d] = done[d]
  PROVE  CancelOf(d)'
<1>1. PICK g \in Works : g = arg[d] /\ Grabbed(d, g)
  BY Locals DEF Cancelling, Grabbed
<1>2. data'[g] = data[g] /\ data[g] \in Wqs \cup {None}
  BY <1>1, GrabbedData DEF TypeOK
<1>3. \A p \in Wqs : RunningFlat(p, g)' => RunningFlat(p, g)
  BY <1>1, GrabbedRuns DEF RunningFlat, Top, Taken
<1>4. pc[d] = "c_barr" => \A p \in Wqs : BarrierAt(p, d)' => BarrierAt(p, d)
  BY WaitingBarrier DEF Waiting
<1>5. pc'[d] = "c_look" => tq'[d] = data'[arg'[d]]
  BY <1>1, <1>2 DEF CancelOf
<1>6. pc'[d] = "c_barr" => \A q \in Wqs : BarrierAt(q, d)' => data'[arg'[d]] = q
  BY <1>1, <1>2, <1>4 DEF CancelOf
<1>7. (pc'[d] = "c_next" \/ (pc'[d] = "c_barr" /\ done'[d])) /\ data'[arg'[d]] # None
        => ~RunningFlat(data[g], g)'
  <2>1. data[g] # None => data[g] \in Wqs
    BY <1>2
  <2>2. (pc[d] = "c_next" \/ (pc[d] = "c_barr" /\ done[d])) /\ data[g] # None =>
             ~RunningFlat(data[g], g)
    BY <1>1 DEF CancelOf
  <2> QED
    BY <1>1, <1>2, <1>3, <2>1, <2>2
<1> QED
  BY <1>1, <1>2, <1>5, <1>6, <1>7 DEF CancelOf, RunningFlat

LEMMA CancelOther ==
  ASSUME TypeOK, Shape, Listed, Ownership, DataSet, Framed, TypeOK', Cancels, [Next]_vars,
         NEW d \in Clients,
         pc'[d] \in {"c_look", "c_barr", "c_next"} =>
           pc'[d] = pc[d] /\ arg'[d] = arg[d] /\ tq'[d] = tq[d] /\ ret'[d] = ret[d] /\
                      done'[d] = done[d]
  PROVE  ret'[d] >= 0 => CancelOf(d)'
<1>1. CASE pc'[d] \in {"c_look", "c_barr", "c_next"}
  BY <1>1, CancelKept DEF Cancels
<1>2. CASE pc'[d] \notin {"c_look", "c_barr", "c_next"}
  BY <1>2 DEF CancelOf
<1> QED
  BY <1>1, <1>2

(* __cancel_work_timer's promise to its caller.                            *)
LEMMA CancelsStep ==
  ASSUME TypeOK, Shape, Listed, Ownership, DataSet, Barriers,
         Framed, TypeOK', Cancels, [Next]_vars
  PROVE  Cancels'
<1> DEFINE CancellersSame == \A d \in Clients : pc'[d] \in {"c_look", "c_barr", "c_next"} =>
             pc'[d] = pc[d] /\ arg'[d] = arg[d] /\ tq'[d] = tq[d] /\ ret'[d] = ret[d] /\
                        done'[d] = done[d]
<1>1. CASE UNCHANGED vars
  BY <1>1 DEF vars, Cancels, CancelOf, BarrierAt, On, Taken, Inside, RunningFlat
<1>2. ASSUME NEW x \in Threads, NEW w \in Works, NEW q \in Wqs, QueueWork(x, w, q) PROVE Cancels'
  <2>1. CancellersSame
    BY <1>2, WorkqueueAssumption
    DEF QueueWork, MayQueue, Goto, queueVars, workerVars, TypeOK, Threads, Base
  <2> QED
    BY <2>1, CancelOther DEF Cancels
<1>3. ASSUME NEW x \in Threads, NEW w \in Works, NEW q \in Wqs, QueueDelayedWork(x, w, q)
      PROVE  Cancels'
  <2>1. CancellersSame
    BY <1>3, WorkqueueAssumption
    DEF QueueDelayedWork, MayQueue, Goto, queueVars, workerVars, TypeOK, Threads, Base
  <2> QED
    BY <2>1, CancelOther DEF Cancels
<1>4. ASSUME NEW x \in Threads, QueueWorkInsert(x) PROVE Cancels'
  <2>1. CancellersSame
    BY <1>4, WorkqueueAssumption
    DEF QueueWorkInsert, WakeWorker, InsertWork, Goto, TypeOK, Threads, Base
  <2> QED
    BY <2>1, CancelOther DEF Cancels
<1>5. ASSUME NEW x \in Threads, SetWqData(x) PROVE Cancels'
  <2>1. CancellersSame
    BY <1>5, WorkqueueAssumption
    DEF SetWqData, Goto, queueVars, workerVars, localVars, TypeOK, Threads, Base
  <2> QED
    BY <2>1, CancelOther DEF Cancels
<1>6. ASSUME NEW x \in Threads, AddTimer(x) PROVE Cancels'
  <2>1. CancellersSame
    BY <1>6, WorkqueueAssumption DEF AddTimer, Goto, queueVars, workerVars, TypeOK, Threads, Base
  <2> QED
    BY <2>1, CancelOther DEF Cancels
<1>7. ASSUME NEW c \in Clients, NEW q \in Wqs, FlushWorkqueue(c, q) PROVE Cancels'
  <2>1. CancellersSame
    BY <1>7, WorkqueueAssumption
    DEF FlushWorkqueue, WakeWorker, InsertBarrier, FlushCpuWorkqueue, Goto, itemVars, TypeOK,
        Threads, Base
  <2> QED
    BY <2>1, CancelOther DEF Cancels
<1>8. ASSUME NEW c \in Clients, NEW q \in Wqs, DestroyWorkqueue(c, q) PROVE Cancels'
  <2>1. CancellersSame
    BY <1>8, WorkqueueAssumption
    DEF DestroyWorkqueue, WakeWorker, InsertBarrier, FlushCpuWorkqueue, Goto, itemVars, TypeOK,
        Threads, Base
  <2> QED
    BY <2>1, CancelOther DEF Cancels
<1>9. ASSUME NEW c \in Clients, NEW w \in Works, CancelDelayedWork(c, w) PROVE Cancels'
  <2>1. CancellersSame
    BY <1>9, WorkqueueAssumption
    DEF CancelDelayedWork, Goto, queueVars, workerVars, TypeOK, Threads, Base
  <2> QED
    BY <2>1, CancelOther DEF Cancels
<1>10. ASSUME NEW c \in Clients, NEW w \in Works, NEW t \in BOOLEAN, CancelWork(c, w, t)
       PROVE  Cancels'
  <2>1. CancellersSame
    BY <1>10, WorkqueueAssumption
    DEF CancelWork, Goto, itemVars, queueVars, workerVars, TypeOK, Threads, Base
  <2> QED
    BY <2>1, CancelOther DEF Cancels
<1>11. ASSUME NEW c \in Clients, FlushDone(c) PROVE Cancels'
  <2>1. CancellersSame
    BY <1>11, WorkqueueAssumption
    DEF FlushDone, Goto, itemVars, queueVars, workerVars, localVars, TypeOK, Threads, Base
  <2> QED
    BY <2>1, CancelOther DEF Cancels
<1>12. ASSUME NEW c \in Clients, FlushReturn(c) PROVE Cancels'
  <2>1. CancellersSame
    BY <1>12, WorkqueueAssumption
    DEF FlushReturn, Goto, itemVars, queueVars, workerVars, TypeOK, Threads, Base
  <2> QED
    BY <2>1, CancelOther DEF Cancels
<1>13. ASSUME NEW c \in Clients, KthreadStop(c) PROVE Cancels'
  <2>1. CancellersSame
    BY <1>13, WorkqueueAssumption
    DEF KthreadStop, WakeWorker, Goto, itemVars, queueVars, localVars, TypeOK, Threads, Base
  <2> QED
    BY <2>1, CancelOther DEF Cancels
<1>14. ASSUME NEW c \in Clients, DestroyReturn(c) PROVE Cancels'
  <2>1. CancellersSame
    BY <1>14, WorkqueueAssumption
    DEF DestroyReturn, Goto, itemVars, queueVars, workerVars, TypeOK, Threads, Base
  <2> QED
    BY <2>1, CancelOther DEF Cancels
<1>15. ASSUME NEW c \in Clients, DelTimer(c) PROVE Cancels'
  <2>1. CancellersSame
    BY <1>15, WorkqueueAssumption DEF DelTimer, Goto, queueVars, workerVars, TypeOK, Threads, Base
  <2> QED
    BY <2>1, CancelOther DEF Cancels
<1>16. ASSUME NEW c \in Clients, TryToGrabPending(c) PROVE Cancels'
  <2>1. CancellersSame
    BY <1>16, WorkqueueAssumption
    DEF TryToGrabPending, Goto, queueVars, workerVars, TypeOK, Threads, Base
  <2> QED
    BY <2>1, CancelOther DEF Cancels
<1>17. ASSUME NEW c \in Clients, StealWork(c) PROVE Cancels'
  <2>1. CancellersSame
    BY <1>17, WorkqueueAssumption DEF StealWork, Goto, itemVars, workerVars, TypeOK, Threads, Base
  <2> QED
    BY <2>1, CancelOther DEF Cancels
<1>18. ASSUME NEW c \in Clients, WaitOnWork(c) PROVE Cancels'
  <2>1. \A d \in Clients \ {c} : pc'[d] = pc[d] /\ arg'[d] = arg[d] /\ tq'[d] = tq[d] /\
             ret'[d] = ret[d] /\ done'[d] = done[d]
    BY <1>18 DEF WaitOnWork, Goto, itemVars, queueVars, workerVars, TypeOK, Threads
  <2>2. ret'[c] >= 0 => CancelOf(c)'
    <3>1. PICK a \in Works : a = arg[c]
      BY <1>18, Locals DEF WaitOnWork, Cancelling
    <3>2. /\ UNCHANGED <<data, arg>> /\ tq'[c] = data[a]
          /\ pc'[c] = IF data[a] = None THEN "c_next" ELSE "c_look"
      BY <1>18, <3>1 DEF WaitOnWork, Goto, itemVars, queueVars, workerVars, TypeOK, Threads
    <3> QED
      BY <3>1, <3>2 DEF CancelOf
  <2> QED
    BY <2>1, <2>2, CancelOther DEF Cancels
<1>19. ASSUME NEW c \in Clients, WaitOnCpuWork(c) PROVE Cancels'
  <2>1. \A d \in Clients \ {c} : pc'[d] = pc[d] /\ arg'[d] = arg[d] /\ tq'[d] = tq[d] /\
             ret'[d] = ret[d] /\ done'[d] = done[d]
    BY <1>19 DEF WaitOnCpuWork, WakeWorker, InsertBarrier, Goto, itemVars, TypeOK, Threads
  <2>2. PICK a \in Works, b \in Wqs : a = arg[c] /\ b = tq[c] /\ WaitInserts(c, b) /\
             pc[c] \notin Waiting
    BY <1>19, Locals DEF WaitOnCpuWork, WaitInserts, Cancelling, Waiting
  <2>3. /\ pc[c] = "c_look" /\ UNCHANGED <<data, arg, ret, frames, nested, current>>
        /\ \A p \in Wqs : pc'[p] = pc[p]
    BY <1>19, WorkqueueAssumption
    DEF WaitOnCpuWork, WakeWorker, InsertBarrier, Goto, itemVars, TypeOK, Threads
  <2>4. ret[c] >= 0 => data[a] = b
    BY <2>2, <2>3 DEF Cancels, CancelOf
  <2>5. CASE current[b] = a
    <3>1. pc'[c] = "c_barr" /\ ~done'[c] /\ InsertBarrier(c, b, FALSE)
      BY <1>19, <2>2, <2>5
      DEF WaitOnCpuWork, WakeWorker, InsertBarrier, Goto, itemVars, TypeOK, Threads
    <3>2. \A p \in Wqs, f \in Entries : On(p, f)' <=> On(p, f) \/ (p = b /\ f = c)
      BY <3>1, BarrierInserted
    <3>3. \A p \in Wqs : ~On(p, c) /\ ~Taken(p, c) /\ ~Inside(p, c)
      BY <2>2, Nowhere DEF Barriers
    <3>4. \A p \in Wqs : BarrierAt(p, c)' => p = b
      BY <2>3, <3>2, <3>3 DEF BarrierAt, Taken, Inside, Entries
    <3>5. ret'[c] >= 0 => CancelOf(c)'
      BY <2>2, <2>3, <2>4, <3>1, <3>4 DEF CancelOf
    <3> QED
      BY <2>1, <3>5, CancelOther DEF Cancels
  <2>6. CASE current[b] # a
    <3>1. pc'[c] = "c_next"
      BY <1>19, <2>2, <2>6
      DEF WaitOnCpuWork, WakeWorker, InsertBarrier, Goto, itemVars, TypeOK, Threads
    <3>2. ~RunningFlat(b, a)
      BY <2>6 DEF RunningFlat, Framed
    <3>3. ~RunningFlat(b, a)'
      BY <2>3, <3>2 DEF RunningFlat
    <3>4. ret'[c] >= 0 => CancelOf(c)'
      BY <2>2, <2>3, <2>4, <3>1, <3>3 DEF CancelOf, RunningFlat
    <3> QED
      BY <2>1, <3>4, CancelOther DEF Cancels
  <2> QED
    BY <2>5, <2>6
<1>20. ASSUME NEW c \in Clients, WaitOnWorkDone(c) PROVE Cancels'
  <2>1. \A d \in Clients \ {c} : pc'[d] = pc[d] /\ arg'[d] = arg[d] /\ tq'[d] = tq[d] /\
             ret'[d] = ret[d] /\ done'[d] = done[d]
    BY <1>20 DEF WaitOnWorkDone, Goto, itemVars, queueVars, workerVars, localVars, TypeOK, Threads
  <2>2. ret'[c] >= 0 => CancelOf(c)'
    <3>1. PICK a \in Works : a = arg[c]
      BY <1>20, Locals DEF WaitOnWorkDone, Cancelling
    <3>2. /\ pc[c] = "c_barr" /\ done[c] /\ pc'[c] = "c_next" /\ UNCHANGED <<data, arg, ret,
               frames, nested, current>>
          /\ \A p \in Wqs : pc'[p] = pc[p]
      BY <1>20, WorkqueueAssumption
      DEF WaitOnWorkDone, Goto, itemVars, queueVars, workerVars, localVars, TypeOK, Threads
    <3>3. data[a] # None => data[a] \in Wqs
      BY <3>1 DEF TypeOK
    <3>4. ret[c] >= 0 /\ data[a] # None => ~RunningFlat(data[a], a)
      BY <3>1, <3>2 DEF Cancels, CancelOf
    <3>5. \A p \in Wqs : RunningFlat(p, a)' <=> RunningFlat(p, a)
      BY <3>2 DEF RunningFlat
    <3>6. ret'[c] >= 0 /\ data[a] # None => ~RunningFlat(data[a], a)'
      BY <3>2, <3>3, <3>4, <3>5
    <3> QED
      BY <3>1, <3>2, <3>6 DEF CancelOf, RunningFlat
  <2> QED
    BY <2>1, <2>2, CancelOther DEF Cancels
<1>21. ASSUME NEW c \in Clients, CancelNext(c) PROVE Cancels'
  <2>1. CancellersSame
    BY <1>21, WorkqueueAssumption DEF CancelNext, Goto, queueVars, workerVars, TypeOK, Threads, Base
  <2> QED
    BY <2>1, CancelOther DEF Cancels
<1>22. ASSUME NEW c \in Clients, WorkClearPending(c) PROVE Cancels'
  <2>1. CancellersSame
    BY <1>22, WorkqueueAssumption
    DEF WorkClearPending, Goto, queueVars, workerVars, TypeOK, Threads, Base
  <2> QED
    BY <2>1, CancelOther DEF Cancels
<1>23. ASSUME NEW q \in Wqs, PrepareToWait(q) PROVE Cancels'
  <2>1. CancellersSame
    BY <1>23, WorkqueueAssumption
    DEF PrepareToWait, Goto, itemVars, queueVars, localVars, TypeOK, Threads, Base
  <2> QED
    BY <2>1, CancelOther DEF Cancels
<1>24. ASSUME NEW q \in Wqs, CheckWork(q) PROVE Cancels'
  <2>1. CancellersSame
    BY <1>24, WorkqueueAssumption
    DEF CheckWork, Goto, itemVars, queueVars, workerVars, localVars, TypeOK, Threads, Base
  <2> QED
    BY <2>1, CancelOther DEF Cancels
<1>25. ASSUME NEW q \in Wqs, Schedule(q) PROVE Cancels'
  <2>1. CancellersSame
    BY <1>25, WorkqueueAssumption
    DEF Schedule, Goto, itemVars, queueVars, workerVars, localVars, TypeOK, Threads, Base
  <2> QED
    BY <2>1, CancelOther DEF Cancels
<1>26. ASSUME NEW q \in Wqs, FinishWait(q) PROVE Cancels'
  <2>1. CancellersSame
    BY <1>26, WorkqueueAssumption
    DEF FinishWait, WakeWorker, Goto, itemVars, queueVars, localVars, TypeOK, Threads, Base
  <2> QED
    BY <2>1, CancelOther DEF Cancels
<1>27. ASSUME NEW q \in Wqs, RunWorkqueue(q) PROVE Cancels'
  <2>1. CancellersSame
    BY <1>27, WorkqueueAssumption
    DEF RunWorkqueue, Goto, itemVars, workerVars, localVars, TypeOK, Threads, Base
  <2> QED
    BY <2>1, CancelOther DEF Cancels
<1>28. ASSUME NEW q \in Wqs, ClearPending(q) PROVE Cancels'
  <2>1. CancellersSame
    BY <1>28, WorkqueueAssumption
    DEF ClearPending, Goto, workerVars, localVars, TypeOK, Threads, Base
  <2> QED
    BY <2>1, CancelOther DEF Cancels
<1>29. ASSUME NEW q \in Wqs, BarrierFunc(q) PROVE Cancels'
  <2>1. PICK h \in Clients : h = Last(frames[q])
    BY <1>29 DEF BarrierFunc, Return
  <2>2. /\ frames[q] # <<>> /\ frames' = [frames EXCEPT ![q] = Front(@)] /\
             done' = [done EXCEPT ![h] = TRUE]
        /\ nested' = [nested EXCEPT ![q] = Len(frames[q]) > 1]
        /\ pc' = [pc EXCEPT ![q] = "end"] /\ UNCHANGED <<data, arg, tq, ret>>
    BY <1>29, <2>1, Locals
    DEF BarrierFunc, Return, Goto, itemVars, workerVars, localVars, InCallback
  <2>3. \A d \in Clients \ {h} : pc'[d] = pc[d] /\ arg'[d] = arg[d] /\ tq'[d] = tq[d] /\
             ret'[d] = ret[d] /\ done'[d] = done[d]
    BY <2>2, WorkqueueAssumption DEF TypeOK, Threads
  <2>4. Inside(q, h) /\ pc'[h] = pc[h] /\ pc'[q] = "end"
    <3>1. Inside(q, h)
      BY <2>1, <2>2, Left
    <3>2. pc'[h] = pc[h] /\ pc'[q] = "end"
      BY <2>2, WorkqueueAssumption DEF TypeOK, Threads
    <3> QED
      BY <3>1, <3>2
  <2>5. pc[h] \in Waiting
    BY <2>4, OnStack DEF Barriers, BarrierAt
  <2>6. \A v \in Works : ~RunningFlat(q, v)'
    <3>1. frames'[q] # <<>> => nested'[q]
      BY <2>2, Popped
    <3> QED
      BY <2>4, <3>1 DEF RunningFlat
  <2>7. ASSUME ret'[h] >= 0 PROVE CancelOf(h)'
    <3>1. CASE pc[h] = "c_barr"
      <4>1. PICK g \in Works : g = arg[h]
        BY <3>1, Locals DEF Cancelling
      <4>2. data[g] = q
        BY <2>2, <2>4, <2>7, <3>1, <4>1 DEF Cancels, CancelOf, BarrierAt
      <4>3. \A p \in Wqs : BarrierAt(p, h)' => BarrierAt(p, h)
        BY <2>5, WaitingBarrier
      <4>4. \A p \in Wqs : BarrierAt(p, h) => data[g] = p
        BY <2>2, <2>7, <3>1, <4>1 DEF Cancels, CancelOf
      <4>5. ~RunningFlat(q, g)'
        BY <2>6
      <4> QED
        BY <2>2, <2>4, <3>1, <4>1, <4>2, <4>3, <4>4, <4>5 DEF CancelOf, RunningFlat
    <3>2. CASE pc[h] # "c_barr"
      BY <2>4, <2>5, <3>2 DEF CancelOf, Waiting
    <3> QED
      BY <3>1, <3>2
  <2> QED
    BY <2>3, <2>7, CancelOther DEF Cancels
<1>30. ASSUME NEW q \in Wqs, CallbackReturn(q) PROVE Cancels'
  <2>1. CancellersSame
    BY <1>30, WorkqueueAssumption
    DEF CallbackReturn, Return, Goto, itemVars, workerVars, localVars, TypeOK, Threads, Base
  <2> QED
    BY <2>1, CancelOther DEF Cancels
<1>31. ASSUME NEW q \in Wqs, SelfFlush(q) PROVE Cancels'
  <2>1. CancellersSame
    BY <1>31, WorkqueueAssumption
    DEF SelfFlush, Goto, itemVars, workerVars, localVars, TypeOK, Threads, Base
  <2> QED
    BY <2>1, CancelOther DEF Cancels
<1>32. ASSUME NEW w \in Works, TimerExpire(w) PROVE Cancels'
  <2>1. CancellersSame
    BY <1>32, WorkqueueAssumption
    DEF TimerExpire, queueVars, workerVars, localVars, TypeOK, Threads, Base
  <2> QED
    BY <2>1, CancelOther DEF Cancels
<1>33. ASSUME NEW w \in Works, DelayedWorkTimerFn(w) PROVE Cancels'
  <2>1. CancellersSame
    BY <1>33, WorkqueueAssumption
    DEF DelayedWorkTimerFn, WakeWorker, InsertWork, localVars, TypeOK, Threads, Base
  <2> QED
    BY <2>1, CancelOther DEF Cancels
<1> QED
  BY <1>1, <1>2, <1>3, <1>4, <1>5, <1>6, <1>7, <1>8, <1>9, <1>10,
     <1>11, <1>12, <1>13, <1>14, <1>15, <1>16, <1>17, <1>18, <1>19, <1>20,
     <1>21, <1>22, <1>23, <1>24, <1>25, <1>26, <1>27, <1>28, <1>29, <1>30,
     <1>31, <1>32, <1>33
  DEF Next, Queueing, Insertion, ClientCall, ClientStep, WorkerStep, TimerStep

-----------------------------------------------------------------------------
(* Two entries of a list keep their order when others come or go.          *)
LEMMA BeforeAppend ==
  ASSUME NEW S, NEW s \in Seq(S), NEW x \in S
  PROVE  /\ \A a, b : Before(s, a, b) => Before(Append(s, x), a, b)
         /\ \A a \in ToSet(s) : Before(Append(s, x), a, x)
<1> DEFINE r == Append(s, x)
<1>1. Len(r) = Len(s) + 1 /\ r[Len(s) + 1] = x /\ Len(s) \in Nat /\ \A i \in 1..Len(s) : r[i] = s[i]
  BY AppendProperties, LenProperties
<1> HIDE DEF r
<1>2. \A i \in 1..Len(s) : i \in 1..Len(r) /\ i < Len(s) + 1
  BY <1>1
<1>3. Len(s) + 1 \in 1..Len(r)
  BY <1>1
<1>4. ASSUME NEW a, NEW b, Before(s, a, b) PROVE Before(r, a, b)
  BY <1>1, <1>2, <1>4 DEF Before
<1>5. ASSUME NEW a \in ToSet(s) PROVE Before(r, a, x)
  <2>1. PICK i \in 1..Len(s) : s[i] = a
    BY ToSetElems
  <2> QED
    BY <1>1, <1>2, <1>3, <2>1 DEF Before
<1> QED
  BY <1>4, <1>5 DEF r

LEMMA BeforePrepend ==
  ASSUME NEW S, NEW s \in Seq(S), NEW x \in S, NEW a, NEW b, Before(s, a, b)
  PROVE  Before(<<x>> \o s, a, b)
<1> DEFINE r == <<x>> \o s
<1>1. Len(r) = Len(s) + 1 /\ Len(s) \in Nat /\ \A i \in 2..Len(r) : r[i] = s[i-1]
  BY ConcatProperties, LenProperties
<1> HIDE DEF r
<1>2. \A i \in 1..Len(s) : i + 1 \in 1..Len(r) /\ r[i + 1] = s[i]
  BY <1>1
<1>3. PICK i, j \in 1..Len(s) : i < j /\ s[i] = a /\ s[j] = b
  BY DEF Before
<1>4. i + 1 < j + 1
  BY <1>3
<1>5. Before(r, a, b)
  BY <1>2, <1>3, <1>4 DEF Before
<1> QED
  BY <1>5 DEF r

LEMMA BeforeTail ==
  ASSUME NEW S, NEW s \in Seq(S), s # <<>>, NEW a, NEW b, Before(s, a, b)
  PROVE  /\ a # Head(s) => Before(Tail(s), a, b)
         /\ b \in ToSet(Tail(s))
<1> DEFINE r == Tail(s)
<1>1. /\ Head(s) = s[1] /\ r \in Seq(S) /\ Len(r) = Len(s) - 1 /\ Len(s) \in Nat
      /\ \A i \in 1..Len(r) : r[i] = s[i+1]
  BY HeadTailProperties, LenProperties
<1> HIDE DEF r
<1>2. \A i \in 1..Len(s) : i # 1 => i - 1 \in 1..Len(r) /\ r[i - 1] = s[i]
  BY <1>1
<1>3. PICK i, j \in 1..Len(s) : i < j /\ s[i] = a /\ s[j] = b
  BY DEF Before
<1>4. j # 1 /\ i - 1 < j - 1
  BY <1>3
<1>5. a # Head(s) => Before(r, a, b)
  BY <1>1, <1>2, <1>3, <1>4 DEF Before
<1>6. b \in ToSet(r)
  BY <1>1, <1>2, <1>3, <1>4, ToSetElems
<1> QED
  BY <1>5, <1>6 DEF r

LEMMA BeforeRemove ==
  ASSUME NEW S, NEW s \in Seq(S), NEW k \in 1..Len(s), NEW a, NEW b, Before(s, a, b), s[k] # a,
             s[k] # b
  PROVE  Before(RemoveAt(s, k), a, b)
<1> DEFINE r == RemoveAt(s, k)
           at(i) == IF i < k THEN i ELSE i - 1
<1>1. /\ Len(r) = Len(s) - 1 /\ Len(s) \in Nat
      /\ \A i \in 1..(Len(s) - 1) : r[i] = IF i < k THEN s[i] ELSE s[i+1]
  BY RemoveAtIndex, LenProperties
<1> HIDE DEF r
<1>2. PICK i, j \in 1..Len(s) : i < j /\ s[i] = a /\ s[j] = b
  BY DEF Before
<1>3. i # k /\ j # k
  BY <1>2
<1>4. ASSUME NEW n \in 1..Len(s), n # k PROVE at(n) \in 1..Len(r) /\ r[at(n)] = s[n]
  <2>1. CASE n < k
    <3>1. n \in 1..(Len(s) - 1) /\ n < k
      BY <1>1, <2>1
    <3> QED
      BY <1>1, <3>1
  <2>2. CASE ~(n < k)
    <3>1. n - 1 \in 1..(Len(s) - 1) /\ ~(n - 1 < k) /\ (n - 1) + 1 = n
      BY <1>1, <1>4, <2>2
    <3> QED
      BY <1>1, <2>2, <3>1
  <2> QED
    BY <2>1, <2>2
<1>5. at(i) < at(j)
  BY <1>2, <1>3
<1>6. at(i) \in 1..Len(r) /\ at(j) \in 1..Len(r) /\ r[at(i)] = a /\ r[at(j)] = b
  BY <1>2, <1>3, <1>4
<1> HIDE DEF at
<1>7. Before(r, a, b)
  BY <1>5, <1>6 DEF Before
<1> QED
  BY <1>7 DEF r

(* The orders on a worklist when an entry is inserted.                     *)
LEMMA BeforeInserted ==
  ASSUME TypeOK, NEW q \in Wqs, NEW e \in Entries, NEW s,
         s = Append(worklist[q], e) \/ s = <<e>> \o worklist[q],
         worklist' = [worklist EXCEPT ![q] = s],
         NEW p \in Wqs, NEW a, NEW b, Before(worklist[p], a, b)
  PROVE  Before(worklist'[p], a, b)
<1>1. worklist[q] \in Seq(Entries) /\ worklist'[p] = IF p = q THEN s ELSE worklist[p]
  BY DEF TypeOK
<1>2. Before(worklist[q], a, b) => Before(s, a, b)
  <2>1. CASE s = Append(worklist[q], e)
    BY <1>1, <2>1, BeforeAppend
  <2>2. CASE s = <<e>> \o worklist[q]
    BY <1>1, <2>2, BeforePrepend
  <2> QED
    BY <2>1, <2>2
<1> QED
  BY <1>1, <1>2

(* A flush that waits while others take their steps.                       *)
LEMMA SnapStays ==
  ASSUME TypeOK, Shape, BarrierOnStack, NEW d \in Clients, SnapOf(d), snap'[d] \subseteq snap[d],
         pc[d] \in {"f_wait", "d_wait"} /\ ~done[d] => pc'[d] = pc[d] /\ tq'[d] = tq[d],
         pc[d] \in Flushers /\ snap'[d] # {} => pc'[d] \in Flushers /\ tq'[d] = tq[d],
         \A p \in Wqs : On(p, d) => On(p, d)',
         \A p \in Wqs, v \in Works : <<v, "queued">> \in snap'[d] /\ tq[d] = p =>
           (Before(worklist[p], v, d) => Before(worklist'[p], v, d)),
         \A p \in Wqs, v \in Works : <<v, "run">> \in snap'[d] /\ tq[d] = p =>
           (Running(p, v) => Running(p, v)'),
         \A p \in Wqs, v \in Works : <<v, "run">> \in snap'[d] /\ tq[d] = p =>
           (SelfFlushing(p, v) => SelfFlushing(p, v)')
  PROVE  SnapOf(d)'
<1> SUFFICES ASSUME NEW i \in snap'[d]
             PROVE  \/ pc'[d] \in {"f_wait", "d_wait"} /\ On(tq[d], d)' /\ Awaited(d, i)'
                    \/ pc'[d] \in Flushers /\ i[2] = "run" /\ SelfFlushing(tq[d], i[1])'
  BY DEF SnapOf
<1>1. i \in snap[d] /\ snap'[d] # {}
  OBVIOUS
<1>2. PICK v \in Works, k \in {"queued", "run"} : i = <<v, k>>
  BY <1>1 DEF TypeOK
<1>3. CASE pc[d] \in {"f_wait", "d_wait"} /\ On(tq[d], d) /\ Awaited(d, i)
  <2>1. PICK p \in Wqs : p = tq[d]
    BY <1>3, Locals DEF Destroying
  <2>2. ~done[d]
    BY <1>3, <2>1, OnStack DEF BarrierAt
  <2>3. pc'[d] = pc[d] /\ tq'[d] = tq[d]
    BY <1>3, <2>2
  <2>4. On(tq[d], d)'
    BY <1>3, <2>1, <2>3 DEF On
  <2>5. CASE k = "queued"
    <3>1. Before(worklist'[p], v, d)
      BY <1>2, <1>3, <2>1, <2>5 DEF Awaited
    <3>2. Awaited(d, i)'
      BY <1>2, <2>1, <2>3, <2>5, <3>1 DEF Awaited
    <3> QED
      BY <1>3, <2>3, <2>4, <3>2
  <2>6. CASE k = "run"
    <3>1. Running(p, v)'
      BY <1>2, <1>3, <2>1, <2>6 DEF Awaited
    <3>2. Awaited(d, i)'
      BY <1>2, <2>1, <2>3, <2>6, <3>1 DEF Awaited, Running
    <3> QED
      BY <1>3, <2>3, <2>4, <3>2
  <2> QED
    BY <2>5, <2>6
<1>4. CASE pc[d] \in Flushers /\ i[2] = "run" /\ SelfFlushing(tq[d], i[1])
  <2>1. PICK p \in Wqs : p = tq[d]
    BY <1>4, Locals DEF Flushers, Destroying
  <2>2. pc'[d] \in Flushers /\ tq'[d] = p /\ i = <<v, "run">>
    BY <1>1, <1>2, <1>4, <2>1
  <2>3. SelfFlushing(p, v)'
    BY <1>4, <2>1, <2>2
  <2> QED
    BY <2>2, <2>3 DEF SelfFlushing
<1> QED
  BY <1>1, <1>3, <1>4 DEF SnapOf

(* A worker that takes an entry: what a flush awaited in the queue it      *)
(* awaits as the work that runs.                                           *)
LEMMA SnapTaken ==
  ASSUME TypeOK, Shape, Listed, Ownership, Framed, NEW q \in Wqs, worklist[q] # <<>>,
             RunWorkqueue(q),
         NEW d \in Clients, SnapOf(d)
  PROVE  SnapOf(d)'
<1>1. PICK h \in Entries : h = Head(worklist[q]) /\ On(q, h)
  BY HeadDeleted DEF RunWorkqueue
<1>2. /\ worklist' = [worklist EXCEPT ![q] = Tail(@)] /\ current' = [current EXCEPT ![q] = h]
      /\ pc' = [pc EXCEPT ![q] = "clear"] /\ pc[q] \in {"run", "end"} /\ UNCHANGED <<tq, frames,
                 nested>>
      /\ snap'[d] = {IF j = <<h, "queued">> THEN <<j[1], "run">> ELSE j : j \in snap[d]}
  BY <1>1 DEF RunWorkqueue, Goto, localVars
<1>3. pc'[d] = pc[d] /\ tq'[d] = tq[d]
  BY <1>2, WorkqueueAssumption DEF TypeOK, Threads
<1> SUFFICES ASSUME NEW i \in snap'[d]
             PROVE  \/ pc'[d] \in {"f_wait", "d_wait"} /\ On(tq[d], d)' /\ Awaited(d, i)'
                    \/ pc'[d] \in Flushers /\ i[2] = "run" /\ SelfFlushing(tq[d], i[1])'
  BY DEF SnapOf
<1>4. PICK j \in snap[d] : i = IF j = <<h, "queued">> THEN <<j[1], "run">> ELSE j
  BY <1>2
<1>5. PICK v \in Works, k \in {"queued", "run"} : j = <<v, k>>
  BY DEF TypeOK
<1>6. \A r \in Wqs : worklist[r] \in Seq(Entries)
  BY DEF TypeOK
<1>7. ASSUME pc[d] \in Flushers, NEW p \in Wqs, p = tq[d], i = <<v, "run">>, SelfFlushing(p, v)
      PROVE  pc'[d] \in Flushers /\ i[2] = "run" /\ SelfFlushing(tq[d], i[1])'
  BY <1>2, <1>3, <1>7 DEF SelfFlushing
<1>8. CASE pc[d] \in Flushers /\ j[2] = "run" /\ SelfFlushing(tq[d], j[1])
  <2>1. tq[d] \in Wqs
    BY <1>8, Locals DEF Flushers, Destroying
  <2>2. k = "run" /\ i = <<v, "run">>
    BY <1>4, <1>5, <1>8
  <2> QED
    BY <1>5, <1>7, <1>8, <2>1, <2>2
<1>9. CASE pc[d] \in {"f_wait", "d_wait"} /\ On(tq[d], d) /\ Awaited(d, j)
  <2>1. PICK p \in Wqs : p = tq[d]
    BY <1>9, Locals DEF Destroying
  <2>2. (k = "queued" => Before(worklist[p], v, d)) /\ (k = "run" => Running(p, v))
    BY <1>5, <1>9, <2>1 DEF Awaited
  <2>3. tq'[d] = p /\ pc'[d] \in {"f_wait", "d_wait"}
    BY <1>3, <1>9, <2>1
  <2>4. CASE p # q
    <3>1. worklist'[p] = worklist[p] /\ pc'[p] = pc[p] /\ current'[p] = current[p] /\
               frames'[p] = frames[p]
      BY <1>2, <2>4 DEF TypeOK, Threads
    <3>2. k = "queued" => v # h
      <4> SUFFICES ASSUME k = "queued", v = h PROVE FALSE
        OBVIOUS
      <4>1. On(p, h)
        BY <1>6, <2>2, ToSetElems DEF Before, On
      <4>2. At("listed", p, h) /\ At("listed", q, h) /\ h \in Works
        BY <1>1, <4>1 DEF At
      <4> QED
        BY <2>4, <4>2 DEF Ownership, OneAt, Kinds, Things, Threads
    <3>3. i = <<v, k>>
      BY <1>4, <1>5, <3>2
    <3>4. On(p, d)'
      BY <1>9, <2>1, <3>1 DEF On
    <3>5. k = "queued" => Before(worklist'[p], v, d)
      BY <2>2, <3>1
    <3>6. k = "run" => Running(p, v)'
      BY <2>2, <3>1 DEF Running
    <3>7. Awaited(d, i)'
      BY <2>3, <3>3, <3>5, <3>6 DEF Awaited, Running
    <3> QED
      BY <2>3, <3>4, <3>7 DEF On
  <2>5. CASE p = q
    <3>1. worklist'[q] = Tail(worklist[q]) /\ pc'[q] = "clear" /\ current'[q] = h
      BY <1>2 DEF TypeOK, Threads
    <3>2. CASE k = "run"
      <4>1. Inside(q, v)
        BY <1>2, <2>2, <2>5, <3>2 DEF Running, Inside
      <4>2. nested[q]
        BY <1>2, <4>1, ToSetEmpty DEF Framed, InCallback, Queuing, Inside
      <4>3. SelfFlushing(q, v) /\ i = <<v, "run">>
        BY <1>4, <1>5, <3>2, <4>1, <4>2, Outer
      <4> QED
        BY <1>7, <1>9, <2>1, <2>5, <4>3 DEF Flushers
    <3>3. CASE k = "queued"
      <4>1. d \in ToSet(Tail(worklist[q])) /\ (v # h => Before(Tail(worklist[q]), v, d))
        BY <1>1, <1>6, <2>2, <2>5, <3>3, BeforeTail
      <4>2. On(q, d)'
        BY <3>1, <4>1 DEF On
      <4>3. CASE v = h
        <5>1. i = <<v, "run">> /\ Running(q, v)'
          BY <1>4, <1>5, <3>1, <3>3, <4>3 DEF Running
        <5>2. Awaited(d, i)'
          BY <2>3, <2>5, <5>1 DEF Awaited, Running
        <5> QED
          BY <2>3, <2>5, <4>2, <5>2 DEF On
      <4>4. CASE v # h
        <5>1. i = <<v, "queued">>
          BY <1>4, <1>5, <3>3, <4>4
        <5>2. Awaited(d, i)'
          BY <2>3, <2>5, <3>1, <4>1, <4>4, <5>1 DEF Awaited
        <5> QED
          BY <2>3, <2>5, <4>2, <5>2 DEF On
      <4> QED
        BY <4>3, <4>4
    <3> QED
      BY <3>2, <3>3
  <2> QED
    BY <2>4, <2>5
<1> QED
  BY <1>8, <1>9 DEF SnapOf

(* What a new flush has to wait for: what is queued is in front of its     *)
(* barrier; on a queue that looks idle only callbacks that have flushed it *)
(* run.                                                                    *)
LEMMA SnapTakes ==
  ASSUME TypeOK, Shape, Framed, NEW c \in Clients, NEW q \in Wqs, FlushInserts(c, q),
         snap'[c] = Outstanding(q), tq'[c] = q, UNCHANGED <<frames, nested, current>>,
                    pc'[q] = pc[q],
         Busy(q) => pc'[c] \in {"f_wait", "d_wait"}, pc'[c] \in Flushers
  PROVE  SnapOf(c)'
<1>1. \A i \in Outstanding(q) : \E v \in Works :
        \/ i = <<v, "queued">> /\ On(q, v)
        \/ i = <<v, "run">> /\ Running(q, v)
  BY DEF Outstanding, On, Running
<1> SUFFICES ASSUME NEW i \in snap'[c]
             PROVE  \/ pc'[c] \in {"f_wait", "d_wait"} /\ On(tq[c], c)' /\ Awaited(c, i)'
                    \/ pc'[c] \in Flushers /\ i[2] = "run" /\ SelfFlushing(tq[c], i[1])'
  BY DEF SnapOf
<1>2. PICK v \in Works : \/ i = <<v, "queued">> /\ On(q, v)
                         \/ i = <<v, "run">> /\ Running(q, v)
  BY <1>1
<1>3. CASE ~Busy(q)
  <2>1. worklist[q] = <<>> /\ current[q] = None
    BY <1>3 DEF Busy
  <2>2. i = <<v, "run">> /\ Inside(q, v)
    BY <1>2, <2>1, ToSetEmpty, WorkqueueAssumption DEF On, Running, Inside
  <2>3. frames[q] # <<>> /\ Last(frames[q]) # None
    BY <2>2, ToSetEmpty, ListTypes, WorkqueueAssumption DEF Inside, Entries
  <2>4. SelfFlushing(q, v)
    BY <2>1, <2>2, <2>3, Outer DEF Framed
  <2> QED
    BY <2>2, <2>4 DEF SelfFlushing
<1>4. CASE Busy(q)
  <2>1. worklist[q] \in Seq(Entries) /\ c \in Entries
    BY DEF TypeOK, Entries
  <2>2. worklist'[q] = Append(worklist[q], c)
    BY <1>4 DEF FlushInserts, InsertBarrier, TypeOK
  <2>3. On(q, c)'
    BY <2>1, <2>2, AppendElems DEF On
  <2>4. On(q, v) => Before(worklist'[q], v, c)
    BY <2>1, <2>2, BeforeAppend DEF On
  <2>5. Running(q, v) => Running(q, v)'
    BY DEF Running
  <2>6. CASE i = <<v, "queued">> /\ On(q, v)
    BY <1>4, <2>3, <2>4, <2>6 DEF Awaited, On
  <2>7. CASE i = <<v, "run">> /\ Running(q, v)
    BY <1>4, <2>3, <2>5, <2>7 DEF Awaited, On, Running
  <2> QED
    BY <1>2, <2>6, <2>7
<1> QED
  BY <1>3, <1>4

(* What flush_workqueue waits for stays in front of its barrier until it   *)
(* has run or was cancelled.                                               *)
LEMMA SnapsStep ==
  ASSUME TypeOK, Shape, Listed, Ownership, DataSet, Barriers, Framed, Snaps, [Next]_vars
  PROVE  Snaps'
<1> DEFINE SnapFewer(D) == \A d \in D : snap'[d] \subseteq snap[d]
           FlushersSame(D) == \A d \in D : pc[d] \in {"f_wait", "d_wait"} /\ ~done[d] =>
                      pc'[d] = pc[d] /\ tq'[d] = tq[d]
           OnStays(D) == \A p \in Wqs, d \in D : On(p, d) => On(p, d)'
           QueuedStay(D) == \A p \in Wqs, d \in D, v \in Works : <<v, "queued">> \in snap'[d] /\
                      tq[d] = p =>
             (Before(worklist[p], v, d) => Before(worklist'[p], v, d))
           RunningStay(D) == \A p \in Wqs, d \in D, v \in Works : <<v, "run">> \in snap'[d] /\
                      tq[d] = p =>
             (Running(p, v) => Running(p, v)')
           SelfFlushingStay(D) == \A p \in Wqs, d \in D, v \in Works : <<v,
                      "run">> \in snap'[d] /\ tq[d] = p =>
             (SelfFlushing(p, v) => SelfFlushing(p, v)')
           CallsStay(D) == \A d \in D : pc[d] \in Flushers /\ snap'[d] # {} =>
                      pc'[d] \in Flushers /\ tq'[d] = tq[d]
<1>1. CASE UNCHANGED vars
  BY <1>1 DEF vars, Snaps, SnapOf, Awaited, On, Running, SelfFlushing
<1>2. ASSUME NEW x \in Threads, NEW w \in Works, NEW q \in Wqs, QueueWork(x, w, q) PROVE Snaps'
  <2>11. SnapFewer(Clients)
    BY <1>2 DEF QueueWork, MayQueue, Goto, queueVars, workerVars, TypeOK
  <2>12. FlushersSame(Clients)
    BY <1>2, WorkqueueAssumption
    DEF QueueWork, MayQueue, Goto, queueVars, workerVars, TypeOK, Threads, Base
  <2>13. OnStays(Clients)
    BY <1>2 DEF QueueWork, MayQueue, Goto, queueVars, workerVars, On
  <2>14. QueuedStay(Clients)
    BY <1>2 DEF QueueWork, MayQueue, Goto, queueVars, workerVars
  <2>15. RunningStay(Clients)
    BY <1>2, WorkqueueAssumption
    DEF QueueWork, MayQueue, Goto, queueVars, workerVars, Running, TypeOK, Threads, Base
  <2>16. SelfFlushingStay(Clients)
    BY <1>2 DEF QueueWork, MayQueue, Goto, queueVars, workerVars, SelfFlushing
  <2>17. CallsStay(Clients)
    BY <1>2, WorkqueueAssumption
    DEF QueueWork, MayQueue, Goto, queueVars, workerVars, TypeOK, Threads, Base, Flushers
  <2> QED
    BY <2>11, <2>12, <2>13, <2>14, <2>15, <2>16, <2>17, SnapStays DEF Snaps, Barriers
<1>3. ASSUME NEW x \in Threads, NEW w \in Works, NEW q \in Wqs, QueueDelayedWork(x, w, q)
      PROVE  Snaps'
  <2>11. SnapFewer(Clients)
    BY <1>3 DEF QueueDelayedWork, MayQueue, Goto, queueVars, workerVars, TypeOK
  <2>12. FlushersSame(Clients)
    BY <1>3, WorkqueueAssumption
    DEF QueueDelayedWork, MayQueue, Goto, queueVars, workerVars, TypeOK, Threads, Base
  <2>13. OnStays(Clients)
    BY <1>3 DEF QueueDelayedWork, MayQueue, Goto, queueVars, workerVars, On
  <2>14. QueuedStay(Clients)
    BY <1>3 DEF QueueDelayedWork, MayQueue, Goto, queueVars, workerVars
  <2>15. RunningStay(Clients)
    BY <1>3, WorkqueueAssumption
    DEF QueueDelayedWork, MayQueue, Goto, queueVars, workerVars, Running, TypeOK, Threads, Base
  <2>16. SelfFlushingStay(Clients)
    BY <1>3 DEF QueueDelayedWork, MayQueue, Goto, queueVars, workerVars, SelfFlushing
  <2>17. CallsStay(Clients)
    BY <1>3, WorkqueueAssumption
    DEF QueueDelayedWork, MayQueue, Goto, queueVars, workerVars, TypeOK, Threads, Base, Flushers
  <2> QED
    BY <2>11, <2>12, <2>13, <2>14, <2>15, <2>16, <2>17, SnapStays DEF Snaps, Barriers
<1>4. ASSUME NEW x \in Threads, QueueWorkInsert(x) PROVE Snaps'
  <2>1. PICK a \in Works, b \in Wqs : a = arg[x] /\ b = tq[x] /\ Queuer(x, a)
    BY <1>4, Locals DEF QueueWorkInsert, Queuing, Queuer
  <2>2. worklist' = [worklist EXCEPT ![b] = Append(worklist[b], a)]
    BY <1>4, <2>1 DEF QueueWorkInsert, InsertWork
  <2>11. SnapFewer(Clients)
    BY <1>4 DEF QueueWorkInsert, WakeWorker, InsertWork, Goto, TypeOK
  <2>12. FlushersSame(Clients)
    BY <1>4, WorkqueueAssumption
    DEF QueueWorkInsert, WakeWorker, InsertWork, Goto, TypeOK, Threads, Base
  <2>13. OnStays(Clients)
    BY <2>1, <2>2, Inserted DEF Entries
  <2>14. QueuedStay(Clients)
    BY <2>1, <2>2, BeforeInserted DEF Entries
  <2>15. RunningStay(Clients)
    BY <1>4, WorkqueueAssumption
    DEF QueueWorkInsert, WakeWorker, InsertWork, Goto, Running, TypeOK, Threads, Base
  <2>16. SelfFlushingStay(Clients)
    BY <1>4 DEF QueueWorkInsert, WakeWorker, InsertWork, Goto, SelfFlushing
  <2>17. CallsStay(Clients)
    BY <1>4, WorkqueueAssumption
    DEF QueueWorkInsert, WakeWorker, InsertWork, Goto, TypeOK, Threads, Base, Flushers
  <2> QED
    BY <2>11, <2>12, <2>13, <2>14, <2>15, <2>16, <2>17, SnapStays DEF Snaps, Barriers
<1>5. ASSUME NEW x \in Threads, SetWqData(x) PROVE Snaps'
  <2>11. SnapFewer(Clients)
    BY <1>5 DEF SetWqData, Goto, queueVars, workerVars, localVars, TypeOK
  <2>12. FlushersSame(Clients)
    BY <1>5, WorkqueueAssumption
    DEF SetWqData, Goto, queueVars, workerVars, localVars, TypeOK, Threads, Base
  <2>13. OnStays(Clients)
    BY <1>5 DEF SetWqData, Goto, queueVars, workerVars, localVars, On
  <2>14. QueuedStay(Clients)
    BY <1>5 DEF SetWqData, Goto, queueVars, workerVars, localVars
  <2>15. RunningStay(Clients)
    BY <1>5, WorkqueueAssumption
    DEF SetWqData, Goto, queueVars, workerVars, localVars, Running, TypeOK, Threads, Base
  <2>16. SelfFlushingStay(Clients)
    BY <1>5 DEF SetWqData, Goto, queueVars, workerVars, localVars, SelfFlushing
  <2>17. CallsStay(Clients)
    BY <1>5, WorkqueueAssumption
    DEF SetWqData, Goto, queueVars, workerVars, localVars, TypeOK, Threads, Base, Flushers
  <2> QED
    BY <2>11, <2>12, <2>13, <2>14, <2>15, <2>16, <2>17, SnapStays DEF Snaps, Barriers
<1>6. ASSUME NEW x \in Threads, AddTimer(x) PROVE Snaps'
  <2>11. SnapFewer(Clients)
    BY <1>6 DEF AddTimer, Goto, queueVars, workerVars, TypeOK
  <2>12. FlushersSame(Clients)
    BY <1>6, WorkqueueAssumption DEF AddTimer, Goto, queueVars, workerVars, TypeOK, Threads, Base
  <2>13. OnStays(Clients)
    BY <1>6 DEF AddTimer, Goto, queueVars, workerVars, On
  <2>14. QueuedStay(Clients)
    BY <1>6 DEF AddTimer, Goto, queueVars, workerVars
  <2>15. RunningStay(Clients)
    BY <1>6, WorkqueueAssumption
    DEF AddTimer, Goto, queueVars, workerVars, Running, TypeOK, Threads, Base
  <2>16. SelfFlushingStay(Clients)
    BY <1>6 DEF AddTimer, Goto, queueVars, workerVars, SelfFlushing
  <2>17. CallsStay(Clients)
    BY <1>6, WorkqueueAssumption
    DEF AddTimer, Goto, queueVars, workerVars, TypeOK, Threads, Base, Flushers
  <2> QED
    BY <2>11, <2>12, <2>13, <2>14, <2>15, <2>16, <2>17, SnapStays DEF Snaps, Barriers
<1>7. ASSUME NEW c \in Clients, NEW q \in Wqs, FlushWorkqueue(c, q) PROVE Snaps'
  <2>1. /\ FlushInserts(c, q) /\ pc[c] = "idle" /\ snap' = [snap EXCEPT ![c] = Outstanding(q)]
        /\ tq' = [tq EXCEPT ![c] = q] /\ UNCHANGED <<frames, nested, current>>
        /\ \A x \in Threads \ {c} : pc'[x] = pc[x]
    BY <1>7
    DEF FlushWorkqueue, WakeWorker, InsertBarrier, FlushCpuWorkqueue, Goto, itemVars, FlushInserts,
        TypeOK, Threads
  <2>2. worklist' = worklist \/ worklist' = [worklist EXCEPT ![q] = Append(worklist[q], c)]
    BY <2>1 DEF FlushInserts, InsertBarrier
  <2>11. SnapFewer(Clients \ {c})
    BY <2>1 DEF TypeOK
  <2>12. FlushersSame(Clients \ {c})
    BY <2>1 DEF TypeOK, Threads
  <2>13. OnStays(Clients \ {c})
    BY <2>2, Inserted DEF Entries, On
  <2>14. QueuedStay(Clients \ {c})
    BY <2>2, BeforeInserted DEF Entries
  <2>15. RunningStay(Clients \ {c})
    BY <2>1, WorkqueueAssumption DEF Running, Threads
  <2>16. SelfFlushingStay(Clients \ {c})
    BY <2>1 DEF SelfFlushing
  <2>17. CallsStay(Clients \ {c})
    BY <2>1 DEF TypeOK, Threads
  <2>18. SnapOf(c)'
    <3>1. snap'[c] = Outstanding(q) /\ tq'[c] = q
      BY <2>1 DEF TypeOK, Threads
    <3>3. pc'[q] = pc[q]
      <4>1. q \in Threads \ {c}
        BY WorkqueueAssumption DEF Threads
      <4> QED
        BY <2>1, <4>1
    <3>2. (Busy(q) => pc'[c] \in {"f_wait", "d_wait"}) /\ pc'[c] \in Flushers
      BY <1>7
      DEF FlushWorkqueue, WakeWorker, InsertBarrier, FlushCpuWorkqueue, Goto, itemVars, TypeOK,
          Threads, Flushers
    <3> QED
      BY <2>1, <3>1, <3>2, <3>3, SnapTakes
  <2> QED
    BY <2>11, <2>12, <2>13, <2>14, <2>15, <2>16, <2>17, SnapStays, <2>18 DEF Snaps, Barriers
<1>8. ASSUME NEW c \in Clients, NEW q \in Wqs, DestroyWorkqueue(c, q) PROVE Snaps'
  <2>1. /\ FlushInserts(c, q) /\ pc[c] = "idle" /\ snap' = [snap EXCEPT ![c] = Outstanding(q)]
        /\ tq' = [tq EXCEPT ![c] = q] /\ UNCHANGED <<frames, nested, current>>
        /\ \A x \in Threads \ {c} : pc'[x] = pc[x]
    BY <1>8
    DEF DestroyWorkqueue, WakeWorker, InsertBarrier, FlushCpuWorkqueue, Goto, itemVars,
        FlushInserts, TypeOK, Threads
  <2>2. worklist' = worklist \/ worklist' = [worklist EXCEPT ![q] = Append(worklist[q], c)]
    BY <2>1 DEF FlushInserts, InsertBarrier
  <2>11. SnapFewer(Clients \ {c})
    BY <2>1 DEF TypeOK
  <2>12. FlushersSame(Clients \ {c})
    BY <2>1 DEF TypeOK, Threads
  <2>13. OnStays(Clients \ {c})
    BY <2>2, Inserted DEF Entries, On
  <2>14. QueuedStay(Clients \ {c})
    BY <2>2, BeforeInserted DEF Entries
  <2>15. RunningStay(Clients \ {c})
    BY <2>1, WorkqueueAssumption DEF Running, Threads
  <2>16. SelfFlushingStay(Clients \ {c})
    BY <2>1 DEF SelfFlushing
  <2>17. CallsStay(Clients \ {c})
    BY <2>1 DEF TypeOK, Threads
  <2>18. SnapOf(c)'
    <3>1. snap'[c] = Outstanding(q) /\ tq'[c] = q
      BY <2>1 DEF TypeOK, Threads
    <3>3. pc'[q] = pc[q]
      <4>1. q \in Threads \ {c}
        BY WorkqueueAssumption DEF Threads
      <4> QED
        BY <2>1, <4>1
    <3>2. (Busy(q) => pc'[c] \in {"f_wait", "d_wait"}) /\ pc'[c] \in Flushers
      BY <1>8
      DEF DestroyWorkqueue, WakeWorker, InsertBarrier, FlushCpuWorkqueue, Goto, itemVars, TypeOK,
          Threads, Flushers
    <3> QED
      BY <2>1, <3>1, <3>2, <3>3, SnapTakes
  <2> QED
    BY <2>11, <2>12, <2>13, <2>14, <2>15, <2>16, <2>17, SnapStays, <2>18 DEF Snaps, Barriers
<1>9. ASSUME NEW c \in Clients, NEW w \in Works, CancelDelayedWork(c, w) PROVE Snaps'
  <2>11. SnapFewer(Clients)
    BY <1>9 DEF CancelDelayedWork, Goto, queueVars, workerVars, TypeOK
  <2>12. FlushersSame(Clients)
    BY <1>9, WorkqueueAssumption
    DEF CancelDelayedWork, Goto, queueVars, workerVars, TypeOK, Threads, Base
  <2>13. OnStays(Clients)
    BY <1>9 DEF CancelDelayedWork, Goto, queueVars, workerVars, On
  <2>14. QueuedStay(Clients)
    BY <1>9 DEF CancelDelayedWork, Goto, queueVars, workerVars
  <2>15. RunningStay(Clients)
    BY <1>9, WorkqueueAssumption
    DEF CancelDelayedWork, Goto, queueVars, workerVars, Running, TypeOK, Threads, Base
  <2>16. SelfFlushingStay(Clients)
    BY <1>9 DEF CancelDelayedWork, Goto, queueVars, workerVars, SelfFlushing
  <2>17. CallsStay(Clients)
    BY <1>9, WorkqueueAssumption
    DEF CancelDelayedWork, Goto, queueVars, workerVars, TypeOK, Threads, Base, Flushers
  <2> QED
    BY <2>11, <2>12, <2>13, <2>14, <2>15, <2>16, <2>17, SnapStays DEF Snaps, Barriers
<1>10. ASSUME NEW c \in Clients, NEW w \in Works, NEW t \in BOOLEAN, CancelWork(c, w, t)
       PROVE  Snaps'
  <2>11. SnapFewer(Clients)
    BY <1>10 DEF CancelWork, Goto, itemVars, queueVars, workerVars, TypeOK
  <2>12. FlushersSame(Clients)
    BY <1>10, WorkqueueAssumption
    DEF CancelWork, Goto, itemVars, queueVars, workerVars, TypeOK, Threads, Base
  <2>13. OnStays(Clients)
    BY <1>10 DEF CancelWork, Goto, itemVars, queueVars, workerVars, On
  <2>14. QueuedStay(Clients)
    BY <1>10 DEF CancelWork, Goto, itemVars, queueVars, workerVars
  <2>15. RunningStay(Clients)
    BY <1>10, WorkqueueAssumption
    DEF CancelWork, Goto, itemVars, queueVars, workerVars, Running, TypeOK, Threads, Base
  <2>16. SelfFlushingStay(Clients)
    BY <1>10 DEF CancelWork, Goto, itemVars, queueVars, workerVars, SelfFlushing
  <2>17. CallsStay(Clients)
    BY <1>10, WorkqueueAssumption
    DEF CancelWork, Goto, itemVars, queueVars, workerVars, TypeOK, Threads, Base, Flushers
  <2> QED
    BY <2>11, <2>12, <2>13, <2>14, <2>15, <2>16, <2>17, SnapStays DEF Snaps, Barriers
<1>11. ASSUME NEW c \in Clients, FlushDone(c) PROVE Snaps'
  <2>11. SnapFewer(Clients)
    BY <1>11 DEF FlushDone, Goto, itemVars, queueVars, workerVars, localVars, TypeOK
  <2>12. FlushersSame(Clients)
    BY <1>11, WorkqueueAssumption
    DEF FlushDone, Goto, itemVars, queueVars, workerVars, localVars, TypeOK, Threads, Base
  <2>13. OnStays(Clients)
    BY <1>11 DEF FlushDone, Goto, itemVars, queueVars, workerVars, localVars, On
  <2>14. QueuedStay(Clients)
    BY <1>11 DEF FlushDone, Goto, itemVars, queueVars, workerVars, localVars
  <2>15. RunningStay(Clients)
    BY <1>11, WorkqueueAssumption
    DEF FlushDone, Goto, itemVars, queueVars, workerVars, localVars, Running, TypeOK, Threads, Base
  <2>16. SelfFlushingStay(Clients)
    BY <1>11 DEF FlushDone, Goto, itemVars, queueVars, workerVars, localVars, SelfFlushing
  <2>17. CallsStay(Clients)
    BY <1>11, WorkqueueAssumption
    DEF FlushDone, Goto, itemVars, queueVars, workerVars, localVars, TypeOK, Threads, Base, Flushers
  <2> QED
    BY <2>11, <2>12, <2>13, <2>14, <2>15, <2>16, <2>17, SnapStays DEF Snaps, Barriers
<1>12. ASSUME NEW c \in Clients, FlushReturn(c) PROVE Snaps'
  <2>11. SnapFewer(Clients)
    BY <1>12 DEF FlushReturn, Goto, itemVars, queueVars, workerVars, TypeOK
  <2>12. FlushersSame(Clients)
    BY <1>12, WorkqueueAssumption
    DEF FlushReturn, Goto, itemVars, queueVars, workerVars, TypeOK, Threads, Base
  <2>13. OnStays(Clients)
    BY <1>12 DEF FlushReturn, Goto, itemVars, queueVars, workerVars, On
  <2>14. QueuedStay(Clients)
    BY <1>12 DEF FlushReturn, Goto, itemVars, queueVars, workerVars
  <2>15. RunningStay(Clients)
    BY <1>12, WorkqueueAssumption
    DEF FlushReturn, Goto, itemVars, queueVars, workerVars, Running, TypeOK, Threads, Base
  <2>16. SelfFlushingStay(Clients)
    BY <1>12 DEF FlushReturn, Goto, itemVars, queueVars, workerVars, SelfFlushing
  <2>17. CallsStay(Clients)
    BY <1>12, WorkqueueAssumption
    DEF FlushReturn, Goto, itemVars, queueVars, workerVars, TypeOK, Threads, Base, Flushers
  <2> QED
    BY <2>11, <2>12, <2>13, <2>14, <2>15, <2>16, <2>17, SnapStays DEF Snaps, Barriers
<1>13. ASSUME NEW c \in Clients, KthreadStop(c) PROVE Snaps'
  <2>11. SnapFewer(Clients)
    BY <1>13 DEF KthreadStop, WakeWorker, Goto, itemVars, queueVars, localVars, TypeOK
  <2>12. FlushersSame(Clients)
    BY <1>13, WorkqueueAssumption
    DEF KthreadStop, WakeWorker, Goto, itemVars, queueVars, localVars, TypeOK, Threads, Base
  <2>13. OnStays(Clients)
    BY <1>13 DEF KthreadStop, WakeWorker, Goto, itemVars, queueVars, localVars, On
  <2>14. QueuedStay(Clients)
    BY <1>13 DEF KthreadStop, WakeWorker, Goto, itemVars, queueVars, localVars
  <2>15. RunningStay(Clients)
    BY <1>13, WorkqueueAssumption
    DEF KthreadStop, WakeWorker, Goto, itemVars, queueVars, localVars, Running, TypeOK, Threads,
        Base
  <2>16. SelfFlushingStay(Clients)
    BY <1>13 DEF KthreadStop, WakeWorker, Goto, itemVars, queueVars, localVars, SelfFlushing
  <2>17. CallsStay(Clients)
    BY <1>13, WorkqueueAssumption
    DEF KthreadStop, WakeWorker, Goto, itemVars, queueVars, localVars, TypeOK, Threads, Base,
        Flushers
  <2> QED
    BY <2>11, <2>12, <2>13, <2>14, <2>15, <2>16, <2>17, SnapStays DEF Snaps, Barriers
<1>14. ASSUME NEW c \in Clients, DestroyReturn(c) PROVE Snaps'
  <2>11. SnapFewer(Clients)
    BY <1>14 DEF DestroyReturn, Goto, itemVars, queueVars, workerVars, TypeOK
  <2>12. FlushersSame(Clients)
    BY <1>14, WorkqueueAssumption
    DEF DestroyReturn, Goto, itemVars, queueVars, workerVars, TypeOK, Threads, Base
  <2>13. OnStays(Clients)
    BY <1>14 DEF DestroyReturn, Goto, itemVars, queueVars, workerVars, On
  <2>14. QueuedStay(Clients)
    BY <1>14 DEF DestroyReturn, Goto, itemVars, queueVars, workerVars
  <2>15. RunningStay(Clients)
    BY <1>14, WorkqueueAssumption
    DEF DestroyReturn, Goto, itemVars, queueVars, workerVars, Running, TypeOK, Threads, Base
  <2>16. SelfFlushingStay(Clients)
    BY <1>14 DEF DestroyReturn, Goto, itemVars, queueVars, workerVars, SelfFlushing
  <2>17. CallsStay(Clients)
    BY <1>14, WorkqueueAssumption
    DEF DestroyReturn, Goto, itemVars, queueVars, workerVars, TypeOK, Threads, Base, Flushers
  <2> QED
    BY <2>11, <2>12, <2>13, <2>14, <2>15, <2>16, <2>17, SnapStays DEF Snaps, Barriers
<1>15. ASSUME NEW c \in Clients, DelTimer(c) PROVE Snaps'
  <2>11. SnapFewer(Clients)
    BY <1>15 DEF DelTimer, Goto, queueVars, workerVars, TypeOK
  <2>12. FlushersSame(Clients)
    BY <1>15, WorkqueueAssumption DEF DelTimer, Goto, queueVars, workerVars, TypeOK, Threads, Base
  <2>13. OnStays(Clients)
    BY <1>15 DEF DelTimer, Goto, queueVars, workerVars, On
  <2>14. QueuedStay(Clients)
    BY <1>15 DEF DelTimer, Goto, queueVars, workerVars
  <2>15. RunningStay(Clients)
    BY <1>15, WorkqueueAssumption
    DEF DelTimer, Goto, queueVars, workerVars, Running, TypeOK, Threads, Base
  <2>16. SelfFlushingStay(Clients)
    BY <1>15 DEF DelTimer, Goto, queueVars, workerVars, SelfFlushing
  <2>17. CallsStay(Clients)
    BY <1>15, WorkqueueAssumption
    DEF DelTimer, Goto, queueVars, workerVars, TypeOK, Threads, Base, Flushers
  <2> QED
    BY <2>11, <2>12, <2>13, <2>14, <2>15, <2>16, <2>17, SnapStays DEF Snaps, Barriers
<1>16. ASSUME NEW c \in Clients, TryToGrabPending(c) PROVE Snaps'
  <2>11. SnapFewer(Clients)
    BY <1>16 DEF TryToGrabPending, Goto, queueVars, workerVars, TypeOK
  <2>12. FlushersSame(Clients)
    BY <1>16, WorkqueueAssumption
    DEF TryToGrabPending, Goto, queueVars, workerVars, TypeOK, Threads, Base
  <2>13. OnStays(Clients)
    BY <1>16 DEF TryToGrabPending, Goto, queueVars, workerVars, On
  <2>14. QueuedStay(Clients)
    BY <1>16 DEF TryToGrabPending, Goto, queueVars, workerVars
  <2>15. RunningStay(Clients)
    BY <1>16, WorkqueueAssumption
    DEF TryToGrabPending, Goto, queueVars, workerVars, Running, TypeOK, Threads, Base
  <2>16. SelfFlushingStay(Clients)
    BY <1>16 DEF TryToGrabPending, Goto, queueVars, workerVars, SelfFlushing
  <2>17. CallsStay(Clients)
    BY <1>16, WorkqueueAssumption
    DEF TryToGrabPending, Goto, queueVars, workerVars, TypeOK, Threads, Base, Flushers
  <2> QED
    BY <2>11, <2>12, <2>13, <2>14, <2>15, <2>16, <2>17, SnapStays DEF Snaps, Barriers
<1>17. ASSUME NEW c \in Clients, StealWork(c) PROVE Snaps'
  <2>30. CASE UNCHANGED <<worklist, snap>>
    <3>11. SnapFewer(Clients)
      BY <1>17, <2>30
    <3>12. FlushersSame(Clients)
      BY <1>17, <2>30, WorkqueueAssumption
      DEF StealWork, Goto, itemVars, workerVars, TypeOK, Threads, Base
    <3>13. OnStays(Clients)
      BY <1>17, <2>30 DEF On
    <3>14. \A p \in Wqs, d \in Clients, v \in Works : <<v, "queued">> \in snap'[d] /\ tq[d] = p =>
             (Before(worklist[p], v, d) => Before(worklist'[p], v, d))
      BY <1>17, <2>30
    <3>15. \A p \in Wqs, d \in Clients, v \in Works : <<v, "run">> \in snap'[d] /\ tq[d] = p =>
             (Running(p, v) => Running(p, v)')
      BY <1>17, <2>30, WorkqueueAssumption
      DEF StealWork, Goto, itemVars, workerVars, Running, TypeOK, Threads, Base
    <3>16. \A p \in Wqs, d \in Clients, v \in Works : <<v, "run">> \in snap'[d] /\ tq[d] = p =>
             (SelfFlushing(p, v) => SelfFlushing(p, v)')
      BY <1>17, <2>30 DEF StealWork, Goto, itemVars, workerVars, SelfFlushing
    <3>17. CallsStay(Clients)
      BY <1>17, <2>30, WorkqueueAssumption
      DEF StealWork, Goto, itemVars, workerVars, TypeOK, Threads, Base, Flushers
    <3> QED
      BY <3>11, <3>12, <3>13, <3>14, <3>15, <3>16, <3>17, SnapStays DEF Snaps, Barriers
  <2>31. CASE ~UNCHANGED <<worklist, snap>>
    <3>1. PICK a \in Works, b \in Wqs : a = arg[c] /\ b = tq[c]
      BY <1>17, <2>31, Locals DEF StealWork, Cancelling
    <3>2. PICK i \in 1..Len(worklist[b]) :
            worklist[b][i] = a /\ worklist' = [worklist EXCEPT ![b] = RemoveAt(@, i)]
      BY <1>17, <2>31, <3>1 DEF StealWork
    <3>3. \A d \in Clients : snap'[d] = snap[d] \ {<<a, "queued">>}
      BY <1>17, <2>31, <3>1 DEF StealWork
    <3>11. SnapFewer(Clients)
      BY <3>3
    <3>12. FlushersSame(Clients)
      BY <1>17, <2>31, WorkqueueAssumption
      DEF StealWork, Goto, itemVars, workerVars, TypeOK, Threads, Base
    <3>13. OnStays(Clients)
      BY <3>1, <3>2, WorkDeleted, WorkqueueAssumption DEF Entries
    <3>4. worklist[b] \in Seq(Entries)
      BY DEF TypeOK
    <3>5. \A p \in Wqs : worklist'[p] = IF p = b THEN RemoveAt(worklist[b], i) ELSE worklist[p]
      BY <3>2 DEF TypeOK
    <3>6. worklist[b][i] = a
      BY <3>2
    <3>14. \A p \in Wqs, d \in Clients, v \in Works : <<v, "queued">> \in snap'[d] /\ tq[d] = p =>
             (Before(worklist[p], v, d) => Before(worklist'[p], v, d))
      BY <3>3, <3>4, <3>5, <3>6, BeforeRemove, WorkqueueAssumption
    <3>15. \A p \in Wqs, d \in Clients, v \in Works : <<v, "run">> \in snap'[d] /\ tq[d] = p =>
             (Running(p, v) => Running(p, v)')
      BY <1>17, <2>31, WorkqueueAssumption
      DEF StealWork, Goto, itemVars, workerVars, Running, TypeOK, Threads, Base
    <3>16. \A p \in Wqs, d \in Clients, v \in Works : <<v, "run">> \in snap'[d] /\ tq[d] = p =>
             (SelfFlushing(p, v) => SelfFlushing(p, v)')
      BY <1>17, <2>31 DEF StealWork, Goto, itemVars, workerVars, SelfFlushing
    <3>17. CallsStay(Clients)
      BY <1>17, <2>31, WorkqueueAssumption
      DEF StealWork, Goto, itemVars, workerVars, TypeOK, Threads, Base, Flushers
    <3> QED
      BY <3>11, <3>12, <3>13, <3>14, <3>15, <3>16, <3>17, SnapStays DEF Snaps, Barriers
  <2> QED
    BY <2>30, <2>31
<1>18. ASSUME NEW c \in Clients, WaitOnWork(c) PROVE Snaps'
  <2>11. SnapFewer(Clients)
    BY <1>18 DEF WaitOnWork, Goto, itemVars, queueVars, workerVars, TypeOK
  <2>12. FlushersSame(Clients)
    BY <1>18, WorkqueueAssumption
    DEF WaitOnWork, Goto, itemVars, queueVars, workerVars, TypeOK, Threads, Base
  <2>13. OnStays(Clients)
    BY <1>18 DEF WaitOnWork, Goto, itemVars, queueVars, workerVars, On
  <2>14. QueuedStay(Clients)
    BY <1>18 DEF WaitOnWork, Goto, itemVars, queueVars, workerVars
  <2>15. RunningStay(Clients)
    BY <1>18, WorkqueueAssumption
    DEF WaitOnWork, Goto, itemVars, queueVars, workerVars, Running, TypeOK, Threads, Base
  <2>16. SelfFlushingStay(Clients)
    BY <1>18 DEF WaitOnWork, Goto, itemVars, queueVars, workerVars, SelfFlushing
  <2>17. CallsStay(Clients)
    BY <1>18, WorkqueueAssumption
    DEF WaitOnWork, Goto, itemVars, queueVars, workerVars, TypeOK, Threads, Base, Flushers
  <2> QED
    BY <2>11, <2>12, <2>13, <2>14, <2>15, <2>16, <2>17, SnapStays DEF Snaps, Barriers
<1>19. ASSUME NEW c \in Clients, WaitOnCpuWork(c) PROVE Snaps'
  <2>1. PICK b \in Wqs : b = tq[c] /\ WaitInserts(c, b) /\ pc[c] \notin Waiting
    BY <1>19, Locals DEF WaitOnCpuWork, WaitInserts, Waiting
  <2>2. worklist' = worklist \/ worklist' = [worklist EXCEPT ![b] = <<c>> \o worklist[b]]
    BY <2>1 DEF WaitInserts, InsertBarrier
  <2>11. SnapFewer(Clients)
    BY <1>19 DEF WaitOnCpuWork, WakeWorker, InsertBarrier, Goto, itemVars, TypeOK
  <2>12. FlushersSame(Clients)
    BY <1>19, WorkqueueAssumption
    DEF WaitOnCpuWork, WakeWorker, InsertBarrier, Goto, itemVars, TypeOK, Threads, Base
  <2>13. OnStays(Clients)
    BY <2>2, Inserted DEF Entries, On
  <2>14. QueuedStay(Clients)
    BY <2>2, BeforeInserted DEF Entries
  <2>15. RunningStay(Clients)
    BY <1>19, WorkqueueAssumption
    DEF WaitOnCpuWork, WakeWorker, InsertBarrier, Goto, itemVars, Running, TypeOK, Threads, Base
  <2>16. SelfFlushingStay(Clients)
    BY <1>19 DEF WaitOnCpuWork, WakeWorker, InsertBarrier, Goto, itemVars, SelfFlushing
  <2>17. CallsStay(Clients)
    BY <1>19, WorkqueueAssumption
    DEF WaitOnCpuWork, WakeWorker, InsertBarrier, Goto, itemVars, TypeOK, Threads, Base, Flushers
  <2> QED
    BY <2>11, <2>12, <2>13, <2>14, <2>15, <2>16, <2>17, SnapStays DEF Snaps, Barriers
<1>20. ASSUME NEW c \in Clients, WaitOnWorkDone(c) PROVE Snaps'
  <2>11. SnapFewer(Clients)
    BY <1>20 DEF WaitOnWorkDone, Goto, itemVars, queueVars, workerVars, localVars, TypeOK
  <2>12. FlushersSame(Clients)
    BY <1>20, WorkqueueAssumption
    DEF WaitOnWorkDone, Goto, itemVars, queueVars, workerVars, localVars, TypeOK, Threads, Base
  <2>13. OnStays(Clients)
    BY <1>20 DEF WaitOnWorkDone, Goto, itemVars, queueVars, workerVars, localVars, On
  <2>14. QueuedStay(Clients)
    BY <1>20 DEF WaitOnWorkDone, Goto, itemVars, queueVars, workerVars, localVars
  <2>15. RunningStay(Clients)
    BY <1>20, WorkqueueAssumption
    DEF WaitOnWorkDone, Goto, itemVars, queueVars, workerVars, localVars, Running, TypeOK, Threads,
        Base
  <2>16. SelfFlushingStay(Clients)
    BY <1>20 DEF WaitOnWorkDone, Goto, itemVars, queueVars, workerVars, localVars, SelfFlushing
  <2>17. CallsStay(Clients)
    BY <1>20, WorkqueueAssumption
    DEF WaitOnWorkDone, Goto, itemVars, queueVars, workerVars, localVars, TypeOK, Threads, Base,
        Flushers
  <2> QED
    BY <2>11, <2>12, <2>13, <2>14, <2>15, <2>16, <2>17, SnapStays DEF Snaps, Barriers
<1>21. ASSUME NEW c \in Clients, CancelNext(c) PROVE Snaps'
  <2>11. SnapFewer(Clients)
    BY <1>21 DEF CancelNext, Goto, queueVars, workerVars, TypeOK
  <2>12. FlushersSame(Clients)
    BY <1>21, WorkqueueAssumption DEF CancelNext, Goto, queueVars, workerVars, TypeOK, Threads, Base
  <2>13. OnStays(Clients)
    BY <1>21 DEF CancelNext, Goto, queueVars, workerVars, On
  <2>14. QueuedStay(Clients)
    BY <1>21 DEF CancelNext, Goto, queueVars, workerVars
  <2>15. RunningStay(Clients)
    BY <1>21, WorkqueueAssumption
    DEF CancelNext, Goto, queueVars, workerVars, Running, TypeOK, Threads, Base
  <2>16. SelfFlushingStay(Clients)
    BY <1>21 DEF CancelNext, Goto, queueVars, workerVars, SelfFlushing
  <2>17. CallsStay(Clients)
    BY <1>21, WorkqueueAssumption
    DEF CancelNext, Goto, queueVars, workerVars, TypeOK, Threads, Base, Flushers
  <2> QED
    BY <2>11, <2>12, <2>13, <2>14, <2>15, <2>16, <2>17, SnapStays DEF Snaps, Barriers
<1>22. ASSUME NEW c \in Clients, WorkClearPending(c) PROVE Snaps'
  <2>11. SnapFewer(Clients)
    BY <1>22 DEF WorkClearPending, Goto, queueVars, workerVars, TypeOK
  <2>12. FlushersSame(Clients)
    BY <1>22, WorkqueueAssumption
    DEF WorkClearPending, Goto, queueVars, workerVars, TypeOK, Threads, Base
  <2>13. OnStays(Clients)
    BY <1>22 DEF WorkClearPending, Goto, queueVars, workerVars, On
  <2>14. QueuedStay(Clients)
    BY <1>22 DEF WorkClearPending, Goto, queueVars, workerVars
  <2>15. RunningStay(Clients)
    BY <1>22, WorkqueueAssumption
    DEF WorkClearPending, Goto, queueVars, workerVars, Running, TypeOK, Threads, Base
  <2>16. SelfFlushingStay(Clients)
    BY <1>22 DEF WorkClearPending, Goto, queueVars, workerVars, SelfFlushing
  <2>17. CallsStay(Clients)
    BY <1>22, WorkqueueAssumption
    DEF WorkClearPending, Goto, queueVars, workerVars, TypeOK, Threads, Base, Flushers
  <2> QED
    BY <2>11, <2>12, <2>13, <2>14, <2>15, <2>16, <2>17, SnapStays DEF Snaps, Barriers
<1>23. ASSUME NEW q \in Wqs, PrepareToWait(q) PROVE Snaps'
  <2>11. SnapFewer(Clients)
    BY <1>23 DEF PrepareToWait, Goto, itemVars, queueVars, localVars, TypeOK
  <2>12. FlushersSame(Clients)
    BY <1>23, WorkqueueAssumption
    DEF PrepareToWait, Goto, itemVars, queueVars, localVars, TypeOK, Threads, Base
  <2>13. OnStays(Clients)
    BY <1>23 DEF PrepareToWait, Goto, itemVars, queueVars, localVars, On
  <2>14. QueuedStay(Clients)
    BY <1>23 DEF PrepareToWait, Goto, itemVars, queueVars, localVars
  <2>15. RunningStay(Clients)
    BY <1>23, WorkqueueAssumption
    DEF PrepareToWait, Goto, itemVars, queueVars, localVars, Running, TypeOK, Threads, Base
  <2>16. SelfFlushingStay(Clients)
    BY <1>23 DEF PrepareToWait, Goto, itemVars, queueVars, localVars, SelfFlushing
  <2>17. CallsStay(Clients)
    BY <1>23, WorkqueueAssumption
    DEF PrepareToWait, Goto, itemVars, queueVars, localVars, TypeOK, Threads, Base, Flushers
  <2> QED
    BY <2>11, <2>12, <2>13, <2>14, <2>15, <2>16, <2>17, SnapStays DEF Snaps, Barriers
<1>24. ASSUME NEW q \in Wqs, CheckWork(q) PROVE Snaps'
  <2>11. SnapFewer(Clients)
    BY <1>24 DEF CheckWork, Goto, itemVars, queueVars, workerVars, localVars, TypeOK
  <2>12. FlushersSame(Clients)
    BY <1>24, WorkqueueAssumption
    DEF CheckWork, Goto, itemVars, queueVars, workerVars, localVars, TypeOK, Threads, Base
  <2>13. OnStays(Clients)
    BY <1>24 DEF CheckWork, Goto, itemVars, queueVars, workerVars, localVars, On
  <2>14. QueuedStay(Clients)
    BY <1>24 DEF CheckWork, Goto, itemVars, queueVars, workerVars, localVars
  <2>15. RunningStay(Clients)
    BY <1>24, WorkqueueAssumption
    DEF CheckWork, Goto, itemVars, queueVars, workerVars, localVars, Running, TypeOK, Threads, Base
  <2>16. SelfFlushingStay(Clients)
    BY <1>24 DEF CheckWork, Goto, itemVars, queueVars, workerVars, localVars, SelfFlushing
  <2>17. CallsStay(Clients)
    BY <1>24, WorkqueueAssumption
    DEF CheckWork, Goto, itemVars, queueVars, workerVars, localVars, TypeOK, Threads, Base, Flushers
  <2> QED
    BY <2>11, <2>12, <2>13, <2>14, <2>15, <2>16, <2>17, SnapStays DEF Snaps, Barriers
<1>25. ASSUME NEW q \in Wqs, Schedule(q) PROVE Snaps'
  <2>11. SnapFewer(Clients)
    BY <1>25 DEF Schedule, Goto, itemVars, queueVars, workerVars, localVars, TypeOK
  <2>12. FlushersSame(Clients)
    BY <1>25, WorkqueueAssumption
    DEF Schedule, Goto, itemVars, queueVars, workerVars, localVars, TypeOK, Threads, Base
  <2>13. OnStays(Clients)
    BY <1>25 DEF Schedule, Goto, itemVars, queueVars, workerVars, localVars, On
  <2>14. QueuedStay(Clients)
    BY <1>25 DEF Schedule, Goto, itemVars, queueVars, workerVars, localVars
  <2>15. RunningStay(Clients)
    BY <1>25, WorkqueueAssumption
    DEF Schedule, Goto, itemVars, queueVars, workerVars, localVars, Running, TypeOK, Threads, Base
  <2>16. SelfFlushingStay(Clients)
    BY <1>25 DEF Schedule, Goto, itemVars, queueVars, workerVars, localVars, SelfFlushing
  <2>17. CallsStay(Clients)
    BY <1>25, WorkqueueAssumption
    DEF Schedule, Goto, itemVars, queueVars, workerVars, localVars, TypeOK, Threads, Base, Flushers
  <2> QED
    BY <2>11, <2>12, <2>13, <2>14, <2>15, <2>16, <2>17, SnapStays DEF Snaps, Barriers
<1>26. ASSUME NEW q \in Wqs, FinishWait(q) PROVE Snaps'
  <2>11. SnapFewer(Clients)
    BY <1>26 DEF FinishWait, WakeWorker, Goto, itemVars, queueVars, localVars, TypeOK
  <2>12. FlushersSame(Clients)
    BY <1>26, WorkqueueAssumption
    DEF FinishWait, WakeWorker, Goto, itemVars, queueVars, localVars, TypeOK, Threads, Base
  <2>13. OnStays(Clients)
    BY <1>26 DEF FinishWait, WakeWorker, Goto, itemVars, queueVars, localVars, On
  <2>14. QueuedStay(Clients)
    BY <1>26 DEF FinishWait, WakeWorker, Goto, itemVars, queueVars, localVars
  <2>15. RunningStay(Clients)
    BY <1>26, WorkqueueAssumption
    DEF FinishWait, WakeWorker, Goto, itemVars, queueVars, localVars, Running, TypeOK, Threads, Base
  <2>16. SelfFlushingStay(Clients)
    BY <1>26 DEF FinishWait, WakeWorker, Goto, itemVars, queueVars, localVars, SelfFlushing
  <2>17. CallsStay(Clients)
    BY <1>26, WorkqueueAssumption
    DEF FinishWait, WakeWorker, Goto, itemVars, queueVars, localVars, TypeOK, Threads, Base,
        Flushers
  <2> QED
    BY <2>11, <2>12, <2>13, <2>14, <2>15, <2>16, <2>17, SnapStays DEF Snaps, Barriers
<1>27. ASSUME NEW q \in Wqs, RunWorkqueue(q) PROVE Snaps'
  <2>30. CASE worklist[q] = <<>>
    <3>11. SnapFewer(Clients)
      BY <1>27, <2>30 DEF RunWorkqueue, Goto, itemVars, workerVars, localVars, TypeOK
    <3>12. FlushersSame(Clients)
      BY <1>27, <2>30, WorkqueueAssumption
      DEF RunWorkqueue, Goto, itemVars, workerVars, localVars, TypeOK, Threads, Base
    <3>13. OnStays(Clients)
      BY <1>27, <2>30 DEF RunWorkqueue, Goto, itemVars, workerVars, localVars, On
    <3>14. \A p \in Wqs, d \in Clients, v \in Works : <<v, "queued">> \in snap'[d] /\ tq[d] = p =>
             (Before(worklist[p], v, d) => Before(worklist'[p], v, d))
      BY <1>27, <2>30 DEF RunWorkqueue, Goto, itemVars, workerVars, localVars
    <3>15. \A p \in Wqs, d \in Clients, v \in Works : <<v, "run">> \in snap'[d] /\ tq[d] = p =>
             (Running(p, v) => Running(p, v)')
      BY <1>27, <2>30, WorkqueueAssumption
      DEF RunWorkqueue, Goto, itemVars, workerVars, localVars, Running, TypeOK, Threads, Base
    <3>16. \A p \in Wqs, d \in Clients, v \in Works : <<v, "run">> \in snap'[d] /\ tq[d] = p =>
             (SelfFlushing(p, v) => SelfFlushing(p, v)')
      BY <1>27, <2>30 DEF RunWorkqueue, Goto, itemVars, workerVars, localVars, SelfFlushing
    <3>17. CallsStay(Clients)
      BY <1>27, <2>30, WorkqueueAssumption
      DEF RunWorkqueue, Goto, itemVars, workerVars, localVars, TypeOK, Threads, Base, Flushers
    <3> QED
      BY <3>11, <3>12, <3>13, <3>14, <3>15, <3>16, <3>17, SnapStays DEF Snaps, Barriers
  <2>31. CASE worklist[q] # <<>>
    <3> QED
      BY <1>27, <2>31, SnapTaken DEF Snaps
  <2> QED
    BY <2>30, <2>31
<1>28. ASSUME NEW q \in Wqs, ClearPending(q) PROVE Snaps'
  <2>1. PICK h \in Entries : h = current[q] /\ Taken(q, h)
    BY <1>28, Locals DEF ClearPending, Taken
  <2>2. frames' = [frames EXCEPT ![q] = Append(@, h)] /\ nested' = [nested EXCEPT ![q] = FALSE]
    BY <1>28, <2>1 DEF ClearPending
  <2>11. SnapFewer(Clients)
    BY <1>28 DEF ClearPending, Goto, workerVars, localVars, TypeOK
  <2>12. FlushersSame(Clients)
    BY <1>28, WorkqueueAssumption
    DEF ClearPending, Goto, workerVars, localVars, TypeOK, Threads, Base
  <2>13. OnStays(Clients)
    BY <1>28 DEF ClearPending, Goto, workerVars, localVars, On
  <2>14. QueuedStay(Clients)
    BY <1>28 DEF ClearPending, Goto, workerVars, localVars
  <2>15. RunningStay(Clients)
    <3>1. \A p \in Wqs, v \in Works : Inside(p, v)' <=> Inside(p, v) \/ (p = q /\ v = h)
      BY <2>2, Entered DEF Entries
    <3>2. \A p \in Wqs, v \in Works : Taken(p, v) => Taken(p, v)' \/ (p = q /\ v = h)
      BY <1>28, <2>1 DEF ClearPending, Goto, workerVars, localVars, Taken, TypeOK, Threads
    <3> QED
      BY <3>1, <3>2 DEF Running, Inside, Taken
  <2>16. SelfFlushingStay(Clients)
    BY <2>1, <2>2, Pushed
  <2>17. CallsStay(Clients)
    BY <1>28, WorkqueueAssumption
    DEF ClearPending, Goto, workerVars, localVars, TypeOK, Threads, Base, Flushers
  <2> QED
    BY <2>11, <2>12, <2>13, <2>14, <2>15, <2>16, <2>17, SnapStays DEF Snaps, Barriers
<1>29. ASSUME NEW q \in Wqs, BarrierFunc(q) PROVE Snaps'
  <2>1. /\ frames[q] # <<>> /\ frames' = [frames EXCEPT ![q] = Front(@)]
        /\ nested' = [nested EXCEPT ![q] = Len(frames[q]) > 1]
    BY <1>29, Locals DEF BarrierFunc, Return, InCallback
  <2>2. ASSUME NEW d \in Clients, NEW v \in Works, <<v, "run">> \in snap'[d], tq[d] = q,
             Inside(q, v)
        PROVE  v \in ToSet(Front(frames[q]))
    <3>1. v # Last(frames[q])
      BY <1>29, WorkqueueAssumption DEF BarrierFunc, Return
    <3> QED
      BY <2>1, <2>2, <3>1, Popped
  <2>3. \A v \in Works : SelfFlushing(q, v) \/ Running(q, v) => Inside(q, v)
    <3>1. frames[q] \in Seq(Entries) /\ pc[q] = "func"
      BY <1>29 DEF BarrierFunc, Return, TypeOK
    <3> QED
      BY <3>1, ToSetElems DEF SelfFlushing, Running, Inside
  <2>4. \A p \in Wqs \ {q} : frames'[p] = frames[p] /\ nested'[p] = nested[p] /\
             pc'[p] = pc[p] /\ current'[p] = current[p]
    BY <1>29 DEF BarrierFunc, Return, Goto, itemVars, workerVars, localVars, TypeOK, Threads
  <2>11. SnapFewer(Clients)
    BY <1>29 DEF BarrierFunc, Return, Goto, itemVars, workerVars, localVars, TypeOK
  <2>12. FlushersSame(Clients)
    BY <1>29, WorkqueueAssumption
    DEF BarrierFunc, Return, Goto, itemVars, workerVars, localVars, TypeOK, Threads, Base
  <2>13. OnStays(Clients)
    BY <1>29 DEF BarrierFunc, Return, Goto, itemVars, workerVars, localVars, On
  <2>14. QueuedStay(Clients)
    BY <1>29 DEF BarrierFunc, Return, Goto, itemVars, workerVars, localVars
  <2>15. RunningStay(Clients)
    BY <2>1, <2>2, <2>3, <2>4, Popped DEF Running, Inside
  <2>16. SelfFlushingStay(Clients)
    <3>1. \A p \in Wqs \ {q}, v \in Works : SelfFlushing(p, v) => SelfFlushing(p, v)'
      BY <2>4 DEF SelfFlushing
    <3>2. ASSUME NEW d \in Clients, NEW v \in Works, <<v, "run">> \in snap'[d], tq[d] = q,
               SelfFlushing(q, v)
          PROVE  SelfFlushing(q, v)'
      BY <2>1, <2>2, <2>3, <3>2, Popped
    <3> QED
      BY <3>1, <3>2
  <2>17. CallsStay(Clients)
    BY <1>29, WorkqueueAssumption
    DEF BarrierFunc, Return, Goto, itemVars, workerVars, localVars, TypeOK, Threads, Base, Flushers
  <2> QED
    BY <2>11, <2>12, <2>13, <2>14, <2>15, <2>16, <2>17, SnapStays DEF Snaps, Barriers
<1>30. ASSUME NEW q \in Wqs, CallbackReturn(q) PROVE Snaps'
  <2>1. /\ frames[q] # <<>> /\ frames' = [frames EXCEPT ![q] = Front(@)]
        /\ nested' = [nested EXCEPT ![q] = Len(frames[q]) > 1]
    BY <1>30, Locals DEF CallbackReturn, Return, InCallback
  <2>2. ASSUME NEW d \in Clients, NEW v \in Works, <<v, "run">> \in snap'[d], tq[d] = q,
             Inside(q, v)
        PROVE  v \in ToSet(Front(frames[q]))
    <3>1. v = Last(frames[q]) => v \in ToSet(Front(frames[q]))
      BY <1>30, <2>2 DEF CallbackReturn, Return
    <3> QED
      BY <2>1, <2>2, <3>1, Popped
  <2>3. \A v \in Works : SelfFlushing(q, v) \/ Running(q, v) => Inside(q, v)
    <3>1. frames[q] \in Seq(Entries) /\ pc[q] = "func"
      BY <1>30 DEF CallbackReturn, Return, TypeOK
    <3> QED
      BY <3>1, ToSetElems DEF SelfFlushing, Running, Inside
  <2>4. \A p \in Wqs \ {q} : frames'[p] = frames[p] /\ nested'[p] = nested[p] /\
             pc'[p] = pc[p] /\ current'[p] = current[p]
    BY <1>30 DEF CallbackReturn, Return, Goto, itemVars, workerVars, localVars, TypeOK, Threads
  <2>11. SnapFewer(Clients)
    BY <1>30 DEF CallbackReturn, Return, Goto, itemVars, workerVars, localVars, TypeOK
  <2>12. FlushersSame(Clients)
    BY <1>30, WorkqueueAssumption
    DEF CallbackReturn, Return, Goto, itemVars, workerVars, localVars, TypeOK, Threads, Base
  <2>13. OnStays(Clients)
    BY <1>30 DEF CallbackReturn, Return, Goto, itemVars, workerVars, localVars, On
  <2>14. QueuedStay(Clients)
    BY <1>30 DEF CallbackReturn, Return, Goto, itemVars, workerVars, localVars
  <2>15. RunningStay(Clients)
    BY <2>1, <2>2, <2>3, <2>4, Popped DEF Running, Inside
  <2>16. SelfFlushingStay(Clients)
    <3>1. \A p \in Wqs \ {q}, v \in Works : SelfFlushing(p, v) => SelfFlushing(p, v)'
      BY <2>4 DEF SelfFlushing
    <3>2. ASSUME NEW d \in Clients, NEW v \in Works, <<v, "run">> \in snap'[d], tq[d] = q,
               SelfFlushing(q, v)
          PROVE  SelfFlushing(q, v)'
      BY <2>1, <2>2, <2>3, <3>2, Popped
    <3> QED
      BY <3>1, <3>2
  <2>17. CallsStay(Clients)
    BY <1>30, WorkqueueAssumption
    DEF CallbackReturn, Return, Goto, itemVars, workerVars, localVars, TypeOK, Threads, Base,
        Flushers
  <2> QED
    BY <2>11, <2>12, <2>13, <2>14, <2>15, <2>16, <2>17, SnapStays DEF Snaps, Barriers
<1>31. ASSUME NEW q \in Wqs, SelfFlush(q) PROVE Snaps'
  <2>11. SnapFewer(Clients)
    BY <1>31 DEF SelfFlush, Goto, itemVars, workerVars, localVars, TypeOK
  <2>12. FlushersSame(Clients)
    BY <1>31, WorkqueueAssumption
    DEF SelfFlush, Goto, itemVars, workerVars, localVars, TypeOK, Threads, Base
  <2>13. OnStays(Clients)
    BY <1>31 DEF SelfFlush, Goto, itemVars, workerVars, localVars, On
  <2>14. QueuedStay(Clients)
    BY <1>31 DEF SelfFlush, Goto, itemVars, workerVars, localVars
  <2>15. RunningStay(Clients)
    BY <1>31, WorkqueueAssumption
    DEF SelfFlush, Goto, itemVars, workerVars, localVars, Running, TypeOK, Threads, Base
  <2>16. SelfFlushingStay(Clients)
    BY <1>31 DEF SelfFlush, SelfFlushing, TypeOK
  <2>17. CallsStay(Clients)
    BY <1>31, WorkqueueAssumption
    DEF SelfFlush, Goto, itemVars, workerVars, localVars, TypeOK, Threads, Base, Flushers
  <2> QED
    BY <2>11, <2>12, <2>13, <2>14, <2>15, <2>16, <2>17, SnapStays DEF Snaps, Barriers
<1>32. ASSUME NEW w \in Works, TimerExpire(w) PROVE Snaps'
  <2>11. SnapFewer(Clients)
    BY <1>32 DEF TimerExpire, queueVars, workerVars, localVars, TypeOK
  <2>12. FlushersSame(Clients)
    BY <1>32, WorkqueueAssumption
    DEF TimerExpire, queueVars, workerVars, localVars, TypeOK, Threads, Base
  <2>13. OnStays(Clients)
    BY <1>32 DEF TimerExpire, queueVars, workerVars, localVars, On
  <2>14. QueuedStay(Clients)
    BY <1>32 DEF TimerExpire, queueVars, workerVars, localVars
  <2>15. RunningStay(Clients)
    BY <1>32, WorkqueueAssumption
    DEF TimerExpire, queueVars, workerVars, localVars, Running, TypeOK, Threads, Base
  <2>16. SelfFlushingStay(Clients)
    BY <1>32 DEF TimerExpire, queueVars, workerVars, localVars, SelfFlushing
  <2>17. CallsStay(Clients)
    BY <1>32, WorkqueueAssumption
    DEF TimerExpire, queueVars, workerVars, localVars, TypeOK, Threads, Base, Flushers
  <2> QED
    BY <2>11, <2>12, <2>13, <2>14, <2>15, <2>16, <2>17, SnapStays DEF Snaps, Barriers
<1>33. ASSUME NEW w \in Works, DelayedWorkTimerFn(w) PROVE Snaps'
  <2>1. PICK b \in Wqs : b = data[w]
    BY <1>33 DEF DelayedWorkTimerFn, DataSet, DataIsRight, TypeOK
  <2>2. worklist' = [worklist EXCEPT ![b] = Append(worklist[b], w)]
    BY <1>33, <2>1 DEF DelayedWorkTimerFn, InsertWork
  <2>11. SnapFewer(Clients)
    BY <1>33 DEF DelayedWorkTimerFn, WakeWorker, InsertWork, localVars, TypeOK
  <2>12. FlushersSame(Clients)
    BY <1>33, WorkqueueAssumption
    DEF DelayedWorkTimerFn, WakeWorker, InsertWork, localVars, TypeOK, Threads, Base
  <2>13. OnStays(Clients)
    BY <2>1, <2>2, Inserted DEF Entries
  <2>14. QueuedStay(Clients)
    BY <2>1, <2>2, BeforeInserted DEF Entries
  <2>15. RunningStay(Clients)
    BY <1>33, WorkqueueAssumption
    DEF DelayedWorkTimerFn, WakeWorker, InsertWork, localVars, Running, TypeOK, Threads, Base
  <2>16. SelfFlushingStay(Clients)
    BY <1>33 DEF DelayedWorkTimerFn, WakeWorker, InsertWork, localVars, SelfFlushing
  <2>17. CallsStay(Clients)
    BY <1>33, WorkqueueAssumption
    DEF DelayedWorkTimerFn, WakeWorker, InsertWork, localVars, TypeOK, Threads, Base, Flushers
  <2> QED
    BY <2>11, <2>12, <2>13, <2>14, <2>15, <2>16, <2>17, SnapStays DEF Snaps, Barriers
<1> QED
  BY <1>1, <1>2, <1>3, <1>4, <1>5, <1>6, <1>7, <1>8, <1>9, <1>10,
     <1>11, <1>12, <1>13, <1>14, <1>15, <1>16, <1>17, <1>18, <1>19, <1>20,
     <1>21, <1>22, <1>23, <1>24, <1>25, <1>26, <1>27, <1>28, <1>29, <1>30,
     <1>31, <1>32, <1>33
  DEF Next, Queueing, Insertion, ClientCall, ClientStep, WorkerStep, TimerStep

(* The promises of flush and cancel are kept, ...                          *)
LEMMA PromisesKept == Spec => [](IInv /\ Promises)
<1>1. Init => Promises
  <2> SUFFICES ASSUME Init PROVE Promises
    OBVIOUS
  <2>1. \A c \in Clients : pc[c] = "idle" /\ snap[c] = {}
    BY WorkqueueAssumption DEF Init, Threads
  <2>2. Framed
    BY DEF Init, Framed
  <2>3. Cancels
    BY <2>1 DEF Cancels, CancelOf
  <2>4. Snaps
    BY <2>1 DEF Snaps, SnapOf
  <2> QED
    BY <2>2, <2>3, <2>4 DEF Promises
<1>2. IInv /\ IInv' /\ Promises /\ [Next]_vars => Promises'
  <2> SUFFICES ASSUME IInv, IInv', Promises, [Next]_vars PROVE Promises'
    OBVIOUS
  <2>1. /\ TypeOK /\ Shape /\ Listed /\ Ownership /\ DataSet /\ Barriers /\ TypeOK'
        /\ Framed /\ Cancels /\ Snaps
    BY DEF IInv, Promises
  <2>2. Framed'
    BY <2>1, FramedStep
  <2>3. Cancels'
    BY <2>1, CancelsStep
  <2>4. Snaps'
    BY <2>1, SnapsStep
  <2> QED
    BY <2>2, <2>3, <2>4 DEF Promises
<1> QED
  BY <1>1, <1>2, Invariance, PTL DEF Spec

(* flush_workqueue returns, and destroy_workqueue stops the thread, only   *)
(* when every work that was queued or running at the call has run to its   *)
(* end, was cancelled, or is in a callback that has flushed the queue      *)
(* itself, for every depth of such callbacks.                              *)
THEOREM FlushSafety == Spec => []FlushWaits
<1>1. IInv /\ Promises => FlushWaits
  <2> SUFFICES ASSUME IInv, Promises, NEW c \in Clients, pc[c] \in {"f_ret", "d_stop"},
             NEW i \in snap[c]
               PROVE  i[2] = "run" /\ SelfFlushing(tq[c], i[1])
    BY DEF FlushWaits
  <2> QED
    BY DEF Promises, Snaps, SnapOf
<1> QED
  BY <1>1, PromisesKept, PTL

(* cancel_work_sync and cancel_delayed_work_sync leave their loop only     *)
(* when the work is neither timed nor queued nor running on the workqueue  *)
(* it was last queued on, in a callback that has not flushed that queue    *)
(* itself, for every depth of such callbacks.                              *)
THEOREM CancelSafety == Spec => []CancelStops
<1>1. IInv /\ Promises => CancelStops
  <2> SUFFICES ASSUME IInv, Promises, NEW c \in Clients, pc[c] = "c_next", ret[c] >= 0
               PROVE  /\ timer[arg[c]] = "off"
                      /\ \A q \in Wqs : arg[c] \notin ToSet(worklist[q])
                      /\ data[arg[c]] # None => ~RunningFlat(data[arg[c]], arg[c])
    BY DEF CancelStops
  <2>1. TypeOK /\ Shape /\ OneAt
    BY DEF IInv, Ownership
  <2>2. arg[c] \in Works /\ At("grabbed", c, arg[c])
    BY <2>1, Locals DEF Cancelling, At, Grabbed
  <2>3. timer[arg[c]] = "off" /\ \A q \in Wqs : ~On(q, arg[c])
    BY <2>1, <2>2, Sole DEF Kinds, Things, Threads
  <2>4. data[arg[c]] # None => ~RunningFlat(data[arg[c]], arg[c])
    BY DEF Promises, Cancels, CancelOf
  <2> QED
    BY <2>3, <2>4 DEF On
<1> QED
  BY <1>1, PromisesKept, PTL
=============================================================================
