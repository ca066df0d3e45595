----------------------------- MODULE Workqueue -----------------------------
(***************************************************************************)
(* kernel/workqueue.c: work items, delayed work, the worker threads, flush *)
(* and cancellation.  The kernel modelled has one CPU (no CONFIG_SMP), so  *)
(* a workqueue has one cpu_workqueue_struct and one thread.                *)
(*                                                                         *)
(* A section under cwq->lock is one step.  The PENDING bit, the timer and  *)
(* the completion of a barrier are accessed outside it, in steps of their  *)
(* own.                                                                    *)
(*                                                                         *)
(* The operators named Faulty... are deliberately wrong variants of the    *)
(* definition that follows them; no specification uses them.               *)
(***************************************************************************)
EXTENDS Integers, Sequences, FiniteSets, SequencesExt

CONSTANTS
  Wqs,        \* the workqueues; each also names its worker thread
  Works,      \* the work items
  Delayed,    \* those that are the work of a delayed_work
  Clients,    \* the tasks that queue, flush and cancel; each also names the
              \* wq_barrier on its stack
  MaxDepth,   \* how deep callbacks that flush their own queue may nest;
              \* 1: no callback flushes its own queue
  None

ASSUME WorkqueueAssumption ==
  /\ Delayed \subseteq Works
  /\ MaxDepth \in Nat \ {0}
  /\ Wqs \cap Works = {} /\ Wqs \cap Clients = {} /\ Works \cap Clients = {}
  /\ None \notin Wqs \cup Works \cup Clients

VARIABLES
  pending,   \* WORK_STRUCT_PENDING of each work
  data,      \* get_wq_data() of each work
  timer,     \* the timer of each delayed work: "off", "armed", "firing"
  worklist,  \* cwq->worklist: works and barriers
  current,   \* cwq->current_work
  frames,    \* the callbacks each worker is inside, innermost last
  nested,    \* history: the innermost of them has flushed its own queue
  wstate,    \* task->state of each worker
  stop,      \* kthread_should_stop() of each worker
  closing,   \* destroy_workqueue() was called
  pc,        \* where each client and each worker is
  arg,       \* the work a client or callback is operating on
  tq,        \* the cwq it is operating on
  withTimer, \* cancel: called for a delayed work
  ret,       \* the local "ret" of __cancel_work_timer
  done,      \* barr.done of each client
  snap       \* what a flush has to wait for (history variable)

vars == <<pending, data, timer, worklist, current, frames, nested, wstate, stop, closing,
          pc, arg, tq, withTimer, ret, done, snap>>

itemVars   == <<pending, data, timer>>
queueVars  == <<worklist, current, frames, nested>>
workerVars == <<wstate, stop, closing>>
localVars  == <<arg, tq, withTimer, ret>>

Threads == Clients \cup Wqs

Goto(x, l) == pc' = [pc EXCEPT ![x] = l]

-----------------------------------------------------------------------------
Init ==
  /\ pending = [w \in Works |-> FALSE]
  /\ data = [w \in Works |-> None]
  /\ timer = [w \in Works |-> "off"]
  /\ worklist = [q \in Wqs |-> <<>>]
  /\ current = [q \in Wqs |-> None]
  /\ frames = [q \in Wqs |-> <<>>]
  /\ nested = [q \in Wqs |-> FALSE]
  /\ wstate = [q \in Wqs |-> "RUNNING"]
  /\ stop = [q \in Wqs |-> FALSE]
  /\ closing = [q \in Wqs |-> FALSE]
  /\ pc = [x \in Threads |-> IF x \in Wqs THEN "prep" ELSE "idle"]
  /\ arg = [x \in Threads |-> None]
  /\ tq = [x \in Threads |-> None]
  /\ withTimer = [c \in Clients |-> FALSE]
  /\ ret = [c \in Clients |-> 0]
  /\ done = [c \in Clients |-> FALSE]
  /\ snap = [c \in Clients |-> {}]

(* A client calls from nowhere, a worker from inside a callback, where a   *)
(* work may queue itself again.                                            *)
Base(x) == IF x \in Clients THEN "idle" ELSE "func"

MayQueue(x, w) ==
  /\ pc[x] = Base(x)
  /\ x \in Wqs => Last(frames[x]) = w

(* wake_up(&cwq->more_work) and wake_up_process(cwq->thread).              *)
WakeWorker(q) == wstate' = [wstate EXCEPT ![q] = "RUNNING"]

(* Fault: no wake_up(&cwq->more_work).                                     *)
FaultyInsertWorkNoWake(w, q) ==
  /\ data' = [data EXCEPT ![w] = q]
  /\ worklist' = [worklist EXCEPT ![q] = Append(@, w)]
  /\ UNCHANGED wstate

(* Fault: list_add instead of list_add_tail.                               *)
FaultyInsertWorkHead(w, q) ==
  /\ data' = [data EXCEPT ![w] = q]
  /\ worklist' = [worklist EXCEPT ![q] = <<w>> \o @]
  /\ WakeWorker(q)

(* Fault: no set_wq_data.                                                  *)
FaultyInsertWorkNoData(w, q) ==
  /\ worklist' = [worklist EXCEPT ![q] = Append(@, w)]
  /\ WakeWorker(q)
  /\ UNCHANGED data

(* insert_work of a work at the tail.                                      *)
InsertWork(w, q) ==
  /\ data' = [data EXCEPT ![w] = q]
  /\ worklist' = [worklist EXCEPT ![q] = Append(@, w)]
  /\ WakeWorker(q)

(* queue_work: the one that sets PENDING goes on; when it was set already, *)
(* nothing happens.                                                        *)
QueueWork(x, w, q) ==
  /\ MayQueue(x, w) /\ ~closing[q]
  /\ ~pending[w]
  /\ pending' = [pending EXCEPT ![w] = TRUE]
  /\ arg' = [arg EXCEPT ![x] = w]
  /\ tq' = [tq EXCEPT ![x] = q]
  /\ Goto(x, "insert")
  /\ UNCHANGED <<data, timer, queueVars, workerVars, withTimer, ret, done, snap>>

(* __queue_work.                                                           *)
QueueWorkInsert(x) ==
  /\ pc[x] = "insert"
  /\ InsertWork(arg[x], tq[x])
  /\ Goto(x, Base(x))
  /\ arg' = [arg EXCEPT ![x] = None]
  /\ tq' = [tq EXCEPT ![x] = None]
  /\ UNCHANGED <<pending, timer, current, frames, nested, stop, closing, withTimer, ret, done, snap>>

(* queue_delayed_work_on: the bit, the cwq for the timer function, the     *)
(* timer.                                                                  *)
QueueDelayedWork(x, w, q) ==
  /\ w \in Delayed
  /\ MayQueue(x, w) /\ ~closing[q]
  /\ ~pending[w]
  /\ pending' = [pending EXCEPT ![w] = TRUE]
  /\ arg' = [arg EXCEPT ![x] = w]
  /\ tq' = [tq EXCEPT ![x] = q]
  /\ Goto(x, "arm")
  /\ UNCHANGED <<data, timer, queueVars, workerVars, withTimer, ret, done, snap>>

SetWqData(x) ==
  /\ pc[x] = "arm"
  /\ data' = [data EXCEPT ![arg[x]] = tq[x]]
  /\ Goto(x, "add")
  /\ UNCHANGED <<pending, timer, queueVars, workerVars, localVars, done, snap>>

AddTimer(x) ==
  /\ pc[x] = "add"
  /\ timer' = [timer EXCEPT ![arg[x]] = "armed"]
  /\ Goto(x, Base(x))
  /\ arg' = [arg EXCEPT ![x] = None]
  /\ tq' = [tq EXCEPT ![x] = None]
  /\ UNCHANGED <<pending, data, queueVars, workerVars, withTimer, ret, done, snap>>

(* The timer is detached, then delayed_work_timer_fn runs.                 *)
TimerExpire(w) ==
  /\ timer[w] = "armed"
  /\ timer' = [timer EXCEPT ![w] = "firing"]
  /\ UNCHANGED <<pending, data, queueVars, workerVars, pc, localVars, done, snap>>

DelayedWorkTimerFn(w) ==
  /\ timer[w] = "firing"
  /\ timer' = [timer EXCEPT ![w] = "off"]
  /\ InsertWork(w, data[w])
  /\ UNCHANGED <<pending, current, frames, nested, stop, closing, pc, localVars, done, snap>>

-----------------------------------------------------------------------------
(* worker_thread: prepare_to_wait, look, sleep, finish_wait.  The          *)
(* freezer is not modelled.                                                *)
PrepareToWait(q) ==
  /\ pc[q] = "prep"
  /\ wstate' = [wstate EXCEPT ![q] = "INTERRUPTIBLE"]
  /\ Goto(q, "check")
  /\ UNCHANGED <<itemVars, queueVars, stop, closing, localVars, done, snap>>

CheckWork(q) ==
  /\ pc[q] = "check"
  /\ Goto(q, IF ~stop[q] /\ worklist[q] = <<>> THEN "sched" ELSE "finish")
  /\ UNCHANGED <<itemVars, queueVars, workerVars, localVars, done, snap>>

Schedule(q) ==
  /\ pc[q] = "sched"
  /\ wstate[q] = "RUNNING"
  /\ Goto(q, "finish")
  /\ UNCHANGED <<itemVars, queueVars, workerVars, localVars, done, snap>>

FinishWait(q) ==
  /\ pc[q] = "finish"
  /\ WakeWorker(q)
  /\ Goto(q, IF stop[q] THEN "dead" ELSE "run")
  /\ UNCHANGED <<itemVars, queueVars, stop, closing, localVars, done, snap>>

(* The sections under cwq->lock of run_workqueue: at "end" a callback has  *)
(* returned and current_work is reset; then the next work is taken, or     *)
(* run_workqueue returns, to worker_thread or to the callback that called  *)
(* it through flush_workqueue.                                             *)
RunWorkqueue(q) ==
  /\ pc[q] \in {"run", "end"}
  /\ \/ /\ worklist[q] # <<>>
        /\ current' = [current EXCEPT ![q] = Head(worklist[q])]
        /\ worklist' = [worklist EXCEPT ![q] = Tail(@)]
        /\ snap' = [c \in Clients |->
                      {IF i = <<Head(worklist[q]), "queued">> THEN <<i[1], "run">> ELSE i : i \in snap[c]}]
        /\ Goto(q, "clear")
     \/ /\ worklist[q] = <<>>
        /\ current' = IF pc[q] = "end" THEN [current EXCEPT ![q] = None] ELSE current
        /\ Goto(q, IF frames[q] = <<>> THEN "prep" ELSE "func")
        /\ UNCHANGED <<worklist, snap>>
  /\ UNCHANGED <<itemVars, frames, nested, workerVars, localVars, done>>

(* work_clear_pending(work); f(work).                                      *)
ClearPending(q) ==
  /\ pc[q] = "clear"
  /\ pending' = [w \in Works |-> IF w = current[q] THEN FALSE ELSE pending[w]]
  /\ frames' = [frames EXCEPT ![q] = Append(@, current[q])]
  /\ nested' = [nested EXCEPT ![q] = FALSE]
  /\ Goto(q, "func")
  /\ UNCHANGED <<data, timer, worklist, current, workerVars, localVars, done, snap>>

(* f(work) returns, to run_workqueue; a callback further out is in a flush *)
(* of its own queue.                                                       *)
Return(q) ==
  /\ frames' = [frames EXCEPT ![q] = Front(@)]
  /\ nested' = [nested EXCEPT ![q] = Len(frames[q]) > 1]
  /\ Goto(q, "end")

(* The callback of a work returns.                                         *)
CallbackReturn(q) ==
  /\ pc[q] = "func"
  /\ Last(frames[q]) \in Works
  /\ snap' = [c \in Clients |->
                IF tq[c] = q /\ Last(frames[q]) \notin ToSet(Front(frames[q]))
                THEN snap[c] \ {<<Last(frames[q]), "run">>} ELSE snap[c]]
  /\ Return(q)
  /\ UNCHANGED <<itemVars, worklist, current, workerVars, localVars, done>>

(* wq_barrier_func.                                                        *)
BarrierFunc(q) ==
  /\ pc[q] = "func"
  /\ Last(frames[q]) \in Clients
  /\ done' = [done EXCEPT ![Last(frames[q])] = TRUE]
  /\ Return(q)
  /\ UNCHANGED <<itemVars, worklist, current, workerVars, localVars, snap>>

(* A callback flushes its own queue: flush_cpu_workqueue runs the queue by *)
(* hand.                                                                   *)
SelfFlush(q) ==
  /\ pc[q] = "func"
  /\ Last(frames[q]) \in Works
  /\ Len(frames[q]) < MaxDepth
  /\ nested' = [nested EXCEPT ![q] = TRUE]
  /\ Goto(q, "run")
  /\ UNCHANGED <<itemVars, worklist, current, frames, workerVars, localVars, done, snap>>

-----------------------------------------------------------------------------
(* insert_wq_barrier, at the tail or at the head.                          *)
InsertBarrier(c, q, tail) ==
  /\ worklist' = [worklist EXCEPT ![q] = IF tail THEN Append(@, c) ELSE <<c>> \o @]
  /\ done' = [done EXCEPT ![c] = FALSE]
  /\ WakeWorker(q)

(* Fault: the work that is running is forgotten.                           *)
FaultyBusy(q) == worklist[q] # <<>>

Busy(q) == worklist[q] # <<>> \/ current[q] # None

(* Everything queued on q or being run by it.                              *)
Outstanding(q) ==
  {<<w, "queued">> : w \in Works \cap ToSet(worklist[q])}
  \cup {<<w, "run">> : w \in Works \cap (ToSet(frames[q])
                           \cup IF pc[q] = "clear" THEN {current[q]} ELSE {})}

(* flush_cpu_workqueue of a client, for flush_workqueue and                *)
(* destroy_workqueue.                                                      *)
FlushCpuWorkqueue(c, q, wait, return) ==
  /\ pc[c] = "idle"
  /\ snap' = [snap EXCEPT ![c] = Outstanding(q)]
  /\ tq' = [tq EXCEPT ![c] = q]
  /\ \/ /\ Busy(q)
        /\ InsertBarrier(c, q, TRUE)
        /\ Goto(c, wait)
     \/ /\ ~Busy(q)
        /\ Goto(c, return)
        /\ UNCHANGED <<worklist, done, wstate>>
  /\ UNCHANGED <<itemVars, current, frames, nested, stop, arg, withTimer, ret>>

FlushWorkqueue(c, q) ==
  /\ FlushCpuWorkqueue(c, q, "f_wait", "f_ret")
  /\ pc[q] # "dead"
  /\ UNCHANGED closing

(* The caller's side of destroy_workqueue: nobody is queueing on q or      *)
(* cancelling a work last queued on it, and no timer is set to queue on    *)
(* it.  Other tasks may still be flushing it.                              *)
Unused(q) ==
  /\ \A x \in Threads : pc[x] \notin {"f_wait", "f_ret"} => tq[x] # q
  /\ \A w \in Works : data[w] = q => timer[w] = "off" /\ \A c \in Clients : arg[c] # w

(* Fault: the thread is stopped without a flush.                           *)
FaultyDestroyWorkqueue(c, q) ==
  /\ pc[c] = "idle" /\ ~closing[q] /\ Unused(q)
  /\ closing' = [closing EXCEPT ![q] = TRUE]
  /\ tq' = [tq EXCEPT ![c] = q]
  /\ Goto(c, "d_stop")
  /\ UNCHANGED <<itemVars, queueVars, wstate, stop, arg, withTimer, ret, done, snap>>

DestroyWorkqueue(c, q) ==
  /\ FlushCpuWorkqueue(c, q, "d_wait", "d_stop")
  /\ ~closing[q] /\ Unused(q)
  /\ closing' = [closing EXCEPT ![q] = TRUE]

(* Fault: the wait gives up, as a wait with a timeout would.               *)
FaultyFlushDone(c) ==
  /\ pc[c] \in {"f_wait", "d_wait"}
  /\ Goto(c, IF pc[c] = "f_wait" THEN "f_ret" ELSE "d_stop")
  /\ UNCHANGED <<itemVars, queueVars, workerVars, localVars, done, snap>>

(* wait_for_completion(&barr.done) returns; it consumes the completion.    *)
FlushDone(c) ==
  /\ pc[c] \in {"f_wait", "d_wait"}
  /\ done[c]
  /\ done' = [done EXCEPT ![c] = FALSE]
  /\ Goto(c, IF pc[c] = "f_wait" THEN "f_ret" ELSE "d_stop")
  /\ UNCHANGED <<itemVars, queueVars, workerVars, localVars, snap>>

FlushReturn(c) ==
  /\ pc[c] = "f_ret"
  /\ Goto(c, "idle")
  /\ tq' = [tq EXCEPT ![c] = None]
  /\ snap' = [snap EXCEPT ![c] = {}]
  /\ UNCHANGED <<itemVars, queueVars, workerVars, arg, withTimer, ret, done>>

(* kthread_stop(cwq->thread): under kthread_stop_lock, ask, wake, and wait *)
(* for the thread to exit.                                                 *)
KthreadStop(c) ==
  /\ pc[c] = "d_stop"
  /\ \A d \in Clients : pc[d] # "d_join"
  /\ stop' = [stop EXCEPT ![tq[c]] = TRUE]
  /\ WakeWorker(tq[c])
  /\ Goto(c, "d_join")
  /\ UNCHANGED <<itemVars, queueVars, closing, localVars, done, snap>>

DestroyReturn(c) ==
  /\ pc[c] = "d_join"
  /\ pc[tq[c]] = "dead"
  /\ Goto(c, "idle")
  /\ tq' = [tq EXCEPT ![c] = None]
  /\ snap' = [snap EXCEPT ![c] = {}]
  /\ UNCHANGED <<itemVars, queueVars, workerVars, arg, withTimer, ret, done>>

-----------------------------------------------------------------------------
(* cancel_delayed_work: the bit is cleared only if del_timer_sync found    *)
(* the timer armed.                                                        *)
CancelDelayedWork(c, w) ==
  /\ pc[c] = "idle"
  /\ timer[w] = "armed"
  /\ timer' = [timer EXCEPT ![w] = "off"]
  /\ arg' = [arg EXCEPT ![c] = w]
  /\ Goto(c, "x_clear")
  /\ UNCHANGED <<pending, data, queueVars, workerVars, tq, withTimer, ret, done, snap>>

WorkClearPending(c) ==
  /\ pc[c] = "x_clear"
  /\ pending' = [pending EXCEPT ![arg[c]] = FALSE]
  /\ arg' = [arg EXCEPT ![c] = None]
  /\ Goto(c, "idle")
  /\ UNCHANGED <<data, timer, queueVars, workerVars, tq, withTimer, ret, done, snap>>

(* cancel_work_sync and cancel_delayed_work_sync: __cancel_work_timer.     *)
(* The caller sees to it that the workqueue is not destroyed meanwhile.    *)
CancelWork(c, w, t) ==
  /\ pc[c] = "idle"
  /\ \A q \in Wqs : closing[q] => data[w] # q
  /\ t => w \in Delayed
  /\ arg' = [arg EXCEPT ![c] = w]
  /\ withTimer' = [withTimer EXCEPT ![c] = t]
  /\ Goto(c, "c_timer")
  /\ UNCHANGED <<itemVars, queueVars, workerVars, tq, ret, done, snap>>

DelTimer(c) ==
  /\ pc[c] = "c_timer"
  /\ \/ /\ withTimer[c] /\ timer[arg[c]] = "armed"
        /\ timer' = [timer EXCEPT ![arg[c]] = "off"]
        /\ ret' = [ret EXCEPT ![c] = 1]
        /\ Goto(c, "c_wait")
     \/ /\ ~(withTimer[c] /\ timer[arg[c]] = "armed")
        /\ Goto(c, "c_grab")
        /\ UNCHANGED <<timer, ret>>
  /\ UNCHANGED <<pending, data, queueVars, workerVars, arg, tq, withTimer, done, snap>>

(* try_to_grab_pending, up to the read of the cwq.                         *)
TryToGrabPending(c) ==
  /\ pc[c] = "c_grab"
  /\ \/ /\ ~pending[arg[c]]
        /\ pending' = [pending EXCEPT ![arg[c]] = TRUE]
        /\ ret' = [ret EXCEPT ![c] = 0]
        /\ Goto(c, "c_wait")
        /\ UNCHANGED tq
     \/ /\ pending[arg[c]]
        /\ ret' = [ret EXCEPT ![c] = -1]
        /\ tq' = [tq EXCEPT ![c] = data[arg[c]]]
        /\ Goto(c, IF data[arg[c]] = None THEN "c_wait" ELSE "c_steal")
        /\ UNCHANGED pending
  /\ UNCHANGED <<data, timer, queueVars, workerVars, arg, withTimer, done, snap>>

(* ... and its section under cwq->lock: work->entry is not empty and the   *)
(* work is still on the cwq that was locked.                               *)
StealWork(c) ==
  LET w == arg[c] IN
  /\ pc[c] = "c_steal"
  /\ \/ /\ data[w] = tq[c]
        /\ \E i \in 1..Len(worklist[tq[c]]) :
             /\ worklist[tq[c]][i] = w
             /\ worklist' = [worklist EXCEPT ![tq[c]] = RemoveAt(@, i)]
        /\ ret' = [ret EXCEPT ![c] = 1]
        /\ snap' = [d \in Clients |-> snap[d] \ {<<w, "queued">>}]
     \/ /\ ~(data[w] = tq[c] /\ \E q \in Wqs : w \in ToSet(worklist[q]))
        /\ UNCHANGED <<worklist, ret, snap>>
  /\ tq' = [tq EXCEPT ![c] = None]
  /\ Goto(c, "c_wait")
  /\ UNCHANGED <<itemVars, current, frames, nested, workerVars, arg, withTimer, done>>

(* Fault: a work that was still pending is taken not to be running.        *)
FaultyWaitOnWork(c) ==
  /\ pc[c] = "c_wait"
  /\ tq' = [tq EXCEPT ![c] = data[arg[c]]]
  /\ Goto(c, IF data[arg[c]] = None \/ ret[c] = 1 THEN "c_next" ELSE "c_look")
  /\ UNCHANGED <<itemVars, queueVars, workerVars, arg, withTimer, ret, done, snap>>

(* wait_on_work reads the cwq the work was last queued on, then, under its *)
(* lock, if the work is its current one, puts a barrier in front of the    *)
(* queue.                                                                  *)
WaitOnWork(c) ==
  /\ pc[c] = "c_wait"
  /\ tq' = [tq EXCEPT ![c] = data[arg[c]]]
  /\ Goto(c, IF data[arg[c]] = None THEN "c_next" ELSE "c_look")
  /\ UNCHANGED <<itemVars, queueVars, workerVars, arg, withTimer, ret, done, snap>>

WaitOnCpuWork(c) ==
  /\ pc[c] = "c_look"
  /\ \/ /\ current[tq[c]] = arg[c]
        /\ InsertBarrier(c, tq[c], FALSE)
        /\ Goto(c, "c_barr")
     \/ /\ current[tq[c]] # arg[c]
        /\ Goto(c, "c_next")
        /\ UNCHANGED <<worklist, done, wstate>>
  /\ tq' = [tq EXCEPT ![c] = None]
  /\ UNCHANGED <<itemVars, current, frames, nested, stop, closing, arg, withTimer, ret, snap>>

WaitOnWorkDone(c) ==
  /\ pc[c] = "c_barr"
  /\ done[c]
  /\ done' = [done EXCEPT ![c] = FALSE]
  /\ Goto(c, "c_next")
  /\ UNCHANGED <<itemVars, queueVars, workerVars, localVars, snap>>

(* Fault: no second try when the work could not be grabbed.                *)
FaultyCancelNext(c) ==
  /\ pc[c] = "c_next"
  /\ pending' = [pending EXCEPT ![arg[c]] = FALSE]
  /\ Goto(c, "idle")
  /\ arg' = [arg EXCEPT ![c] = None]
  /\ withTimer' = [withTimer EXCEPT ![c] = FALSE]
  /\ ret' = [ret EXCEPT ![c] = 0]
  /\ UNCHANGED <<data, timer, queueVars, workerVars, tq, done, snap>>

(* The end of the loop of __cancel_work_timer.                             *)
CancelNext(c) ==
  /\ pc[c] = "c_next"
  /\ \/ /\ ret[c] < 0
        /\ Goto(c, "c_timer")
        /\ UNCHANGED <<pending, arg, withTimer>>
     \/ /\ ret[c] >= 0
        /\ pending' = [pending EXCEPT ![arg[c]] = FALSE]
        /\ Goto(c, "idle")
        /\ arg' = [arg EXCEPT ![c] = None]
        /\ withTimer' = [withTimer EXCEPT ![c] = FALSE]
  /\ ret' = [ret EXCEPT ![c] = 0]
  /\ UNCHANGED <<data, timer, queueVars, workerVars, tq, done, snap>>

-----------------------------------------------------------------------------
Queueing(x) ==
  \E w \in Works, q \in Wqs : QueueWork(x, w, q) \/ QueueDelayedWork(x, w, q)

ClientCall(c) ==
  \/ \E q \in Wqs : FlushWorkqueue(c, q) \/ DestroyWorkqueue(c, q)
  \/ \E w \in Works : CancelDelayedWork(c, w) \/ \E t \in BOOLEAN : CancelWork(c, w, t)

(* The steps of calls under way.                                           *)
Insertion(x) == QueueWorkInsert(x) \/ SetWqData(x) \/ AddTimer(x)

ClientStep(c) ==
  \/ FlushDone(c) \/ FlushReturn(c) \/ KthreadStop(c) \/ DestroyReturn(c)
  \/ DelTimer(c) \/ TryToGrabPending(c) \/ StealWork(c) \/ WaitOnWork(c)
  \/ WaitOnCpuWork(c) \/ WaitOnWorkDone(c) \/ CancelNext(c) \/ WorkClearPending(c)

WorkerStep(q) ==
  \/ PrepareToWait(q) \/ CheckWork(q) \/ Schedule(q) \/ FinishWait(q)
  \/ RunWorkqueue(q) \/ ClearPending(q) \/ BarrierFunc(q)

TimerStep(w) == TimerExpire(w) \/ DelayedWorkTimerFn(w)

Next ==
  \/ \E x \in Threads : Queueing(x) \/ Insertion(x)
  \/ \E c \in Clients : ClientCall(c) \/ ClientStep(c)
  \/ \E q \in Wqs : WorkerStep(q) \/ CallbackReturn(q) \/ SelfFlush(q)
  \/ \E w \in Works : TimerStep(w)

Spec == Init /\ [][Next]_vars

(* Threads keep running, timers fire, and callbacks return although they   *)
(* may queue their work again before they do.                              *)
Fairness ==
  /\ \A x \in Threads : WF_vars(Insertion(x))
  /\ \A c \in Clients : WF_vars(ClientStep(c))
  /\ \A q \in Wqs : WF_vars(WorkerStep(q)) /\ SF_vars(CallbackReturn(q))
  /\ \A w \in Works : WF_vars(TimerStep(w))

FairSpec == Spec /\ Fairness
-----------------------------------------------------------------------------
Entries == Works \cup Clients

Pcs ==
  {"idle", "insert", "arm", "add", "f_wait", "f_ret", "d_wait", "d_stop", "d_join", "c_timer",
   "c_grab", "c_steal", "c_wait", "c_look", "c_barr", "c_next", "x_clear",
   "prep", "check", "sched", "finish", "run", "clear", "func", "end", "dead"}

TypeOK ==
  /\ pending \in [Works -> BOOLEAN]
  /\ data \in [Works -> Wqs \cup {None}]
  /\ timer \in [Works -> {"off", "armed", "firing"}]
  /\ worklist \in [Wqs -> Seq(Entries)]
  /\ current \in [Wqs -> Entries \cup {None}]
  /\ frames \in [Wqs -> Seq(Entries)]
  /\ nested \in [Wqs -> BOOLEAN]
  /\ wstate \in [Wqs -> {"RUNNING", "INTERRUPTIBLE"}]
  /\ stop \in [Wqs -> BOOLEAN]
  /\ closing \in [Wqs -> BOOLEAN]
  /\ pc \in [Threads -> Pcs]
  /\ arg \in [Threads -> Works \cup {None}]
  /\ tq \in [Threads -> Wqs \cup {None}]
  /\ withTimer \in [Clients -> BOOLEAN]
  /\ ret \in [Clients -> {-1, 0, 1}]
  /\ done \in [Clients -> BOOLEAN]
  /\ snap \in [Clients -> SUBSET (Works \X {"queued", "run"})]

(* The places where a work can be while its PENDING bit is set: being      *)
(* queued, on a timer, on a worklist, taken off it, or grabbed by a        *)
(* cancel.                                                                 *)
Grabbed(c, w) ==
  /\ arg[c] = w
  /\ \/ pc[c] = "x_clear"
     \/ ret[c] >= 0 /\ pc[c] \in {"c_wait", "c_look", "c_barr", "c_next"}

Places(w) ==
  {<<"queueing", x>> : x \in {y \in Threads : pc[y] \in {"insert", "arm", "add"} /\ arg[y] = w}}
  \cup {<<"timer", t>> : t \in {w} \cap {v \in Works : timer[v] # "off"}}
  \cup (UNION {{<<"listed", q, i>> : i \in {j \in DOMAIN worklist[q] : worklist[q][j] = w}} : q \in Wqs})
  \cup {<<"taken", q>> : q \in {p \in Wqs : pc[p] = "clear" /\ current[p] = w}}
  \cup {<<"grabbed", c>> : c \in {d \in Clients : Grabbed(d, w)}}

(* The PENDING bit means exactly one owner: whoever sets it (queue_work,   *)
(* queue_delayed_work_on, try_to_grab_pending) is alone responsible for    *)
(* the work until the bit is cleared.  No work is linked into two lists,   *)
(* armed while it is queued, or left pending with nobody to run it.        *)
OneOwner ==
  \A w \in Works : Cardinality(Places(w)) = IF pending[w] THEN 1 ELSE 0

(* The work a worker takes off its list was queued on that worker's cwq:   *)
(* the BUG_ON of run_workqueue does not fire, and the cwq that             *)
(* delayed_work_timer_fn and wait_on_work find in work->data is right.     *)
DataIsRight ==
  /\ \A q \in Wqs, w \in Works :
       w \in ToSet(worklist[q]) \/ (pc[q] = "clear" /\ current[q] = w) => data[w] = q
  /\ \A w \in Works : timer[w] # "off" => data[w] # None

Running(q, w) == w \in ToSet(frames[q]) \/ (pc[q] = "clear" /\ current[q] = w)

(* A callback of w runs on q that has flushed q, and one that has not.     *)
SelfFlushing(q, w) ==
  \E n \in 1..Len(frames[q]) : frames[q][n] = w /\ (n < Len(frames[q]) \/ nested[q])

RunningFlat(q, w) ==
  \/ frames[q] # <<>> /\ Last(frames[q]) = w /\ ~nested[q]
  \/ pc[q] = "clear" /\ current[q] = w

(* cancel_work_sync and cancel_delayed_work_sync wait for the callback:    *)
(* when __cancel_work_timer leaves its loop the work is not queued, its    *)
(* timer is not set, and its callback is not running on the workqueue it   *)
(* was last queued on, unless that callback has flushed its own queue,     *)
(* which makes wait_on_work lose sight of it.                              *)
CancelStops ==
  \A c \in Clients : pc[c] = "c_next" /\ ret[c] >= 0 =>
    /\ timer[arg[c]] = "off"
    /\ \A q \in Wqs : arg[c] \notin ToSet(worklist[q])
    /\ data[arg[c]] # None => ~RunningFlat(data[arg[c]], arg[c])

(* flush_workqueue returns, and destroy_workqueue stops the thread, only   *)
(* when every work that was queued at the call has been taken off the      *)
(* list, and every work that was queued or running has been handled (run   *)
(* to its end or cancelled), whatever was queued since, unless its         *)
(* callback has flushed its own queue.                                     *)
FlushWaits ==
  \A c \in Clients : pc[c] \in {"f_ret", "d_stop"} =>
    \A i \in snap[c] : i[2] = "run" /\ SelfFlushing(tq[c], i[1])

(* The comments of flush_workqueue, "ensure that any scheduled work has    *)
(* run to completion", and of cancel_work_sync, "block until a             *)
(* work_struct's callback has terminated", make no exception.              *)
FlushComment ==
  \A c \in Clients : pc[c] = "f_ret" => snap[c] = {}

CancelComment ==
  \A c \in Clients : pc[c] = "c_next" /\ ret[c] >= 0 /\ data[arg[c]] # None
    => ~Running(data[arg[c]], arg[c])

(* At any time one of the two comments is right; a state that refutes this *)
(* refutes both.                                                           *)
WaitsAsDocumented == FlushComment \/ CancelComment

(* destroy_workqueue frees a queue with nothing on it and no callback      *)
(* running, so that nobody who is flushing it at the same time waits for a *)
(* barrier a dead thread will never run.                                   *)
StopClean ==
  \A q \in Wqs : pc[q] = "dead" => worklist[q] = <<>> /\ frames[q] = <<>>

(* A barrier lives on the stack of the task that waits for it: it is       *)
(* queued or running only while that task waits.                           *)
BarrierOnStack ==
  \A c \in Clients, q \in Wqs :
    c \in ToSet(worklist[q]) \cup ToSet(frames[q]) \/ (c = current[q] /\ pc[q] = "clear")
      => pc[c] \in {"f_wait", "d_wait", "c_barr"} /\ ~done[c]

(* flush_workqueue returns although works keep being queued.               *)
(* destroy_workqueue gets past its own flush, and its thread exits unless  *)
(* new flushes keep it in run_workqueue.                                   *)
FlushReturns ==
  \A c \in Clients :
    /\ pc[c] = "f_wait" ~> pc[c] = "idle"
    /\ pc[c] = "d_wait" ~> pc[c] = "d_join"
    /\ pc[c] = "d_join" ~> pc[c] = "idle" \/ \E d \in Clients : pc[d] = "f_wait"

(* Every queued work is taken off its list, to run or by a cancel.         *)
QueuedRuns ==
  \A w \in Works : (\E q \in Wqs : w \in ToSet(worklist[q])) ~> (\A q \in Wqs : w \notin ToSet(worklist[q]))
=============================================================================
