------------------------------- MODULE Kthread -------------------------------
(***************************************************************************)
(* kernel/kthread.c: kernel threads are made by kthreadd on behalf of      *)
(* kthread_create, start parked, run threadfn once woken, and are stopped  *)
(* through one global kthread_stop_info.  The three handshakes (create     *)
(* with kthreadd, kthreadd with the new thread, stop with the thread) are  *)
(* completions of kernel/sched.c, each with at most one waiter.  complete  *)
(* and wait_for_completion work under the lock of the completion, so that  *)
(* a waiter simply waits for done > 0; but kthreadd can also be woken out  *)
(* of its wait, by wake_up_process from another kthread_create, and for it *)
(* the sleep and the loop around it are modelled.                          *)
(*                                                                         *)
(* threadfn is the loop that its callers write (external; worker_thread    *)
(* and ksoftirqd are two): sleep until woken, return when                  *)
(* kthread_should_stop().  Its result stands for the thread: its name.     *)
(* Callers keep to the contract of kthread_stop: a thread is stopped once, *)
(* and a thread that somebody will stop does not return on its own.        *)
(*                                                                         *)
(* The operators named Faulty... are deliberately wrong variants of the    *)
(* definition that follows them; no specification uses them.               *)
(***************************************************************************)
EXTENDS Integers, Sequences, SequencesExt

CONSTANTS
  Clients,   \* tasks that create and stop threads; each also names the
             \* kthread_create_info on its stack
  Threads,   \* the task structures new threads can get
  None

EINTR == "EINTR"
ENOMEM == "ENOMEM"

ASSUME KthreadAssumption ==
  /\ Clients \cap Threads = {}
  /\ None \notin Clients \cup Threads
  /\ {EINTR, ENOMEM} \cap (Threads \cup {None}) = {}

VARIABLES
  createList,  \* kthread_create_list
  kpc, kstate, \* kthreadd: where it is, its task->state
  create, pid, \* its locals: the create_info and the pid it works on
  started,     \* create.started.done of each client
  done,        \* create.done.done of each client
  result,      \* create.result of each client
  tpc, tstate, \* each thread: where it is, its task->state
  tcreate,     \* the create_info it was started with
  ret,         \* its local "ret"
  usage,       \* references to its task structure
  stopK, stopErr, stopDone, \* kthread_stop_info
  stopLock,    \* kthread_stop_lock
  pc,          \* where each client is
  k,           \* the thread it has
  rv,          \* what kthread_stop returned
  woken, ran,  \* history, for each client's thread: its owner called
               \* wake_up_process; threadfn was called
  detached,    \* threads nobody will stop: they may return on their own
  misled       \* history: a new thread took the k of another one's stop,
               \* whose task structure it was given, for its own

vars == <<createList, kpc, kstate, create, pid, started, done, result, tpc, tstate, tcreate, ret,
          usage, stopK, stopErr, stopDone, stopLock, pc, k, rv, woken, ran, detached, misled>>

kthreaddVars == <<kpc, kstate, create, pid>>
infoVars     == <<started, done, result>>
threadVars   == <<tpc, tstate, tcreate, ret, usage, detached>>
stopVars     == <<stopK, stopErr, stopDone, stopLock>>
clientVars   == <<pc, k, rv, woken, ran, misled>>

Init ==
  /\ createList = <<>>
  /\ kpc = "prep" /\ kstate = "RUNNING"
  /\ create = None /\ pid = None
  /\ started = [c \in Clients |-> 0]
  /\ done = [c \in Clients |-> 0]
  /\ result = [c \in Clients |-> None]
  /\ tpc = [t \in Threads |-> "dead"]
  /\ tstate = [t \in Threads |-> "RUNNING"]
  /\ tcreate = [t \in Threads |-> None]
  /\ ret = [t \in Threads |-> None]
  /\ usage = [t \in Threads |-> 0]
  /\ detached = {}
  /\ stopK = None /\ stopErr = None /\ stopDone = 0 /\ stopLock = None
  /\ pc = [c \in Clients |-> "idle"]
  /\ k = [c \in Clients |-> None]
  /\ rv = [c \in Clients |-> None]
  /\ woken = [c \in Clients |-> FALSE]
  /\ ran = [c \in Clients |-> FALSE]
  /\ misled = FALSE

Goto(c, l) == pc' = [pc EXCEPT ![c] = l]
TGoto(t, l) == tpc' = [tpc EXCEPT ![t] = l]

(* wake_up_process of a thread.                                            *)
WakeThread(t) == tstate' = [tstate EXCEPT ![t] = "RUNNING"]

-----------------------------------------------------------------------------
(* kthread_create                                                          *)

KthreadCreate(c) ==
  /\ pc[c] = "idle"
  /\ started' = [started EXCEPT ![c] = 0]
  /\ done' = [done EXCEPT ![c] = 0]
  /\ createList' = Append(createList, c)
  /\ kstate' = "RUNNING"
  /\ Goto(c, "c_wait")
  /\ UNCHANGED <<kpc, create, pid, result, threadVars, stopVars, k, rv, woken, ran, misled>>

(* wait_for_completion(&create.done)                                       *)
CreateReturn(c) ==
  /\ pc[c] = "c_wait" /\ done[c] > 0
  /\ done' = [done EXCEPT ![c] = @ - 1]
  /\ IF result[c] = ENOMEM
     THEN Goto(c, "idle") /\ UNCHANGED k
     ELSE Goto(c, "has") /\ k' = [k EXCEPT ![c] = result[c]]
  /\ result' = [result EXCEPT ![c] = None]
  /\ UNCHANGED <<createList, kthreaddVars, started, threadVars, stopVars, rv, woken, ran, misled>>

(* The owner starts its thread, or wakes it for work later on.             *)
WakeUpProcess(c) ==
  /\ pc[c] = "has"
  /\ WakeThread(k[c])
  /\ woken' = [woken EXCEPT ![c] = TRUE]
  /\ UNCHANGED <<createList, kthreaddVars, infoVars, tpc, tcreate, ret, usage, detached, stopVars,
                 pc, k, rv, ran, misled>>

(* The client keeps no pointer to a thread it will not stop.               *)
Forget(c) ==
  /\ Goto(c, "idle")
  /\ k' = [k EXCEPT ![c] = None]
  /\ rv' = [rv EXCEPT ![c] = None]
  /\ woken' = [woken EXCEPT ![c] = FALSE]
  /\ ran' = [ran EXCEPT ![c] = FALSE]

Detach(c) ==
  /\ pc[c] = "has" /\ woken[c]
  /\ detached' = detached \cup {k[c]}
  /\ Forget(c)
  /\ UNCHANGED <<createList, kthreaddVars, infoVars, tpc, tstate, tcreate, ret, usage, stopVars, misled>>

-----------------------------------------------------------------------------
(* kthreadd                                                                *)

KthreaddPrepare ==
  /\ kpc = "prep"
  /\ kstate' = "INTERRUPTIBLE"
  /\ kpc' = "check"
  /\ UNCHANGED <<createList, create, pid, infoVars, threadVars, stopVars, clientVars>>

KthreaddCheck ==
  /\ kpc = "check"
  /\ IF createList = <<>>
     THEN kpc' = "sched" /\ UNCHANGED kstate
     ELSE kpc' = "run" /\ kstate' = "RUNNING"
  /\ UNCHANGED <<createList, create, pid, infoVars, threadVars, stopVars, clientVars>>

KthreaddSchedule ==
  /\ kpc = "sched" /\ kstate = "RUNNING"
  /\ kpc' = "run"
  /\ UNCHANGED <<createList, kstate, create, pid, infoVars, threadVars, stopVars, clientVars>>

(* The while loop under kthread_create_lock.                               *)
KthreaddTake ==
  /\ kpc = "run"
  /\ IF createList = <<>>
     THEN kpc' = "prep" /\ UNCHANGED <<createList, create>>
     ELSE /\ create' = Head(createList)
          /\ createList' = Tail(createList)
          /\ kpc' = "spawn"
  /\ UNCHANGED <<kstate, pid, infoVars, threadVars, stopVars, clientVars>>

KernelThreadFails ==
  /\ kpc = "spawn"
  /\ result' = [result EXCEPT ![create] = ENOMEM]
  /\ kpc' = "done"
  /\ UNCHANGED <<createList, kstate, create, pid, started, done, threadVars, stopVars, clientVars>>

(* The new task gets a structure that is free, although k of a stop that   *)
(* is about to end may still point to it: kthread_stop drops its reference *)
(* before it waits.  (Bound: after a thread was misled none is made.  Its  *)
(* owner is left with a pointer to a free structure, and what that is used *)
(* for when the structure is handed out again is undefined.)               *)
KernelThread(t) ==
  /\ kpc = "spawn"
  /\ tpc[t] = "dead" /\ usage[t] = 0
  /\ ~misled
  /\ TGoto(t, "start")
  /\ tstate' = [tstate EXCEPT ![t] = "RUNNING"]
  /\ tcreate' = [tcreate EXCEPT ![t] = create]
  /\ ret' = [ret EXCEPT ![t] = EINTR]
  /\ usage' = [usage EXCEPT ![t] = 1]
  /\ detached' = detached \ {t}
  /\ pid' = t
  /\ kpc' = "wait"
  /\ UNCHANGED <<createList, kstate, create, infoVars, stopVars, clientVars>>

(* wait_for_completion(&create->started).                                  *)
StartedWait ==
  /\ kpc = "wait" /\ started[create] = 0
  /\ kstate' = "UNINTERRUPTIBLE"
  /\ kpc' = "sleep"
  /\ UNCHANGED <<createList, create, pid, infoVars, threadVars, stopVars, clientVars>>

StartedWake ==
  /\ kpc = "sleep" /\ kstate = "RUNNING"
  /\ kpc' = "wait"
  /\ UNCHANGED <<createList, kstate, create, pid, infoVars, threadVars, stopVars, clientVars>>

(* find_task_by_pid                                                        *)
FindTask ==
  /\ kpc = "wait" /\ started[create] > 0
  /\ started' = [started EXCEPT ![create] = @ - 1]
  /\ result' = [result EXCEPT ![create] = pid]
  /\ kpc' = "done"
  /\ UNCHANGED <<createList, kstate, create, pid, done, threadVars, stopVars, clientVars>>

(* complete(&create->done)                                                 *)
CompleteDone ==
  /\ kpc = "done"
  /\ done' = [done EXCEPT ![create] = @ + 1]
  /\ create' = None /\ pid' = None
  /\ kpc' = "run"
  /\ UNCHANGED <<createList, kstate, started, result, threadVars, stopVars, pc, k, rv, woken, ran, misled>>

-----------------------------------------------------------------------------
(* kthread(), the start and the end of every thread                        *)

KthreadShouldStop(t) == stopK = t

(* The client that t was made for is in kthread_stop for it.               *)
OwnerStops(t) == \E c \in Clients : c = tcreate[t] /\ k[c] = t /\ pc[c] \in {"s_wake", "s_wait"}

(* Fault: the thread does not park.                                        *)
FaultyThreadStart(t) ==
  /\ tpc[t] = "start"
  /\ TGoto(t, "tell")
  /\ UNCHANGED <<createList, kthreaddVars, infoVars, tstate, tcreate, ret, usage, detached, stopVars, clientVars>>

ThreadStart(t) ==
  /\ tpc[t] = "start"
  /\ tstate' = [tstate EXCEPT ![t] = "UNINTERRUPTIBLE"]
  /\ TGoto(t, "tell")
  /\ UNCHANGED <<createList, kthreaddVars, infoVars, tcreate, ret, usage, detached, stopVars, clientVars>>

(* complete(&create->started): the last use of the creator's stack.        *)
ThreadTell(t) ==
  /\ tpc[t] = "tell"
  /\ started' = [started EXCEPT ![tcreate[t]] = @ + 1]
  /\ kstate' = IF kpc = "sleep" THEN "RUNNING" ELSE kstate
  /\ TGoto(t, "park")
  /\ UNCHANGED <<createList, kpc, create, pid, done, result, tstate, tcreate, ret, usage, detached,
                 stopVars, clientVars>>

(* Back from schedule(): run threadfn, unless told to stop already.        *)
ThreadRun(t) ==
  /\ tpc[t] = "park" /\ tstate[t] = "RUNNING"
  /\ IF KthreadShouldStop(t)
     THEN TGoto(t, "check") /\ misled' = (misled \/ ~OwnerStops(t)) /\ UNCHANGED ran
     ELSE /\ TGoto(t, "f_loop")
          /\ ran' = [c \in Clients |-> ran[c] \/ (c = tcreate[t] /\ k[c] = t)]
          /\ UNCHANGED misled
  /\ UNCHANGED <<createList, kthreaddVars, infoVars, tstate, tcreate, ret, usage, detached, stopVars,
                 pc, k, rv, woken>>

(* threadfn: set_current_state(TASK_INTERRUPTIBLE), ...                    *)
FnPrepare(t) ==
  /\ tpc[t] = "f_loop"
  /\ tstate' = [tstate EXCEPT ![t] = "INTERRUPTIBLE"]
  /\ TGoto(t, "f_test")
  /\ UNCHANGED <<createList, kthreaddVars, infoVars, tcreate, ret, usage, detached, stopVars, clientVars>>

(* ... return if kthread_should_stop() (or, if it is nobody's to stop, for *)
(* reasons of its own), else schedule().                                   *)
FnTest(t) ==
  /\ tpc[t] = "f_test"
  /\ \/ /\ KthreadShouldStop(t) \/ t \in detached
        /\ ret' = [ret EXCEPT ![t] = t]
        /\ WakeThread(t)
        /\ TGoto(t, "check")
     \/ /\ ~KthreadShouldStop(t)
        /\ TGoto(t, "f_sched")
        /\ UNCHANGED <<ret, tstate>>
  /\ UNCHANGED <<createList, kthreaddVars, infoVars, tcreate, usage, detached, stopVars, clientVars>>

FnSchedule(t) ==
  /\ tpc[t] = "f_sched" /\ tstate[t] = "RUNNING"
  /\ TGoto(t, "f_loop")
  /\ UNCHANGED <<createList, kthreaddVars, infoVars, tstate, tcreate, ret, usage, detached, stopVars, clientVars>>

(* Fault: the result is not stored.                                        *)
FaultyThreadCheck(t) ==
  /\ tpc[t] = "check"
  /\ TGoto(t, IF KthreadShouldStop(t) THEN "report" ELSE "exit")
  /\ UNCHANGED <<createList, kthreaddVars, infoVars, tstate, tcreate, ret, usage, detached, stopVars, clientVars>>

(* "It might have exited on its own, w/o kthread_stop.  Check."            *)
ThreadCheck(t) ==
  /\ tpc[t] = "check"
  /\ IF KthreadShouldStop(t)
     THEN TGoto(t, "report") /\ stopErr' = ret[t]
     ELSE TGoto(t, "exit") /\ UNCHANGED stopErr
  /\ UNCHANGED <<createList, kthreaddVars, infoVars, tstate, tcreate, ret, usage, detached,
                 stopK, stopDone, stopLock, clientVars>>

(* complete(&kthread_stop_info.done), to whoever owns kthread_stop_lock.   *)
ThreadReport(t) ==
  /\ tpc[t] = "report"
  /\ stopDone' = stopDone + 1
  /\ TGoto(t, "exit")
  /\ UNCHANGED <<createList, kthreaddVars, infoVars, tstate, tcreate, ret, usage, detached,
                 stopK, stopErr, stopLock, pc, k, rv, woken, ran, misled>>

(* do_exit and the last put_task_struct of the task itself.                *)
ThreadExit(t) ==
  /\ tpc[t] = "exit"
  /\ usage' = [usage EXCEPT ![t] = @ - 1]
  /\ tcreate' = [tcreate EXCEPT ![t] = None]
  /\ ret' = [ret EXCEPT ![t] = None]
  /\ WakeThread(t)
  /\ detached' = detached \ {t}
  /\ TGoto(t, "dead")
  /\ UNCHANGED <<createList, kthreaddVars, infoVars, stopVars, clientVars>>

-----------------------------------------------------------------------------
(* kthread_stop                                                            *)

(* Fault: no get_task_struct.                                              *)
FaultyStopBegin(c) ==
  /\ pc[c] = "has" /\ stopLock = None
  /\ stopLock' = c
  /\ usage' = usage
  /\ stopDone' = 0
  /\ Goto(c, "s_set")
  /\ UNCHANGED <<createList, kthreaddVars, infoVars, tpc, tstate, tcreate, ret, detached,
                 stopK, stopErr, k, rv, woken, ran, misled>>

(* mutex_lock, get_task_struct, init_completion                            *)
StopBegin(c) ==
  /\ pc[c] = "has" /\ stopLock = None
  /\ stopLock' = c
  /\ usage' = [usage EXCEPT ![k[c]] = @ + 1]
  /\ stopDone' = 0
  /\ Goto(c, "s_set")
  /\ UNCHANGED <<createList, kthreaddVars, infoVars, tpc, tstate, tcreate, ret, detached,
                 stopK, stopErr, k, rv, woken, ran, misled>>

StopSet(c) ==
  /\ pc[c] = "s_set"
  /\ stopK' = k[c]
  /\ Goto(c, "s_wake")
  /\ UNCHANGED <<createList, kthreaddVars, infoVars, threadVars, stopErr, stopDone, stopLock,
                 k, rv, woken, ran, misled>>

(* Fault: the completion is initialised after the thread could see k.      *)
FaultyStopWake(c) ==
  /\ pc[c] = "s_wake"
  /\ WakeThread(k[c])
  /\ usage' = [usage EXCEPT ![k[c]] = @ - 1]
  /\ stopDone' = 0
  /\ Goto(c, "s_wait")
  /\ UNCHANGED <<createList, kthreaddVars, infoVars, tpc, tcreate, ret, detached, stopK, stopErr, stopLock,
                 k, rv, woken, ran, misled>>

(* wake_up_process, put_task_struct; the thread may be dead already.       *)
StopWake(c) ==
  /\ pc[c] = "s_wake"
  /\ WakeThread(k[c])
  /\ usage' = [usage EXCEPT ![k[c]] = @ - 1]
  /\ Goto(c, "s_wait")
  /\ UNCHANGED <<createList, kthreaddVars, infoVars, tpc, tcreate, ret, detached, stopVars,
                 k, rv, woken, ran, misled>>

(* wait_for_completion(&kthread_stop_info.done), reset k, gather the       *)
(* result, mutex_unlock.  The code leaves err as it is; here it is marked  *)
(* as used up, so that taking it for another thread's result would show.   *)
StopEnd(c) ==
  /\ pc[c] = "s_wait" /\ stopDone > 0
  /\ stopDone' = stopDone - 1
  /\ stopK' = None
  /\ rv' = [rv EXCEPT ![c] = stopErr]
  /\ stopErr' = None
  /\ stopLock' = None
  /\ Goto(c, "stopped")
  /\ UNCHANGED <<createList, kthreaddVars, infoVars, threadVars, k, woken, ran, misled>>

StopReturn(c) ==
  /\ pc[c] = "stopped"
  /\ Forget(c)
  /\ UNCHANGED <<createList, kthreaddVars, infoVars, threadVars, stopVars, misled>>

-----------------------------------------------------------------------------
ClientSteps(c) ==
  CreateReturn(c) \/ StopSet(c) \/ StopWake(c) \/ StopEnd(c) \/ StopReturn(c)

Kthreadd ==
  \/ KthreaddPrepare \/ KthreaddCheck \/ KthreaddSchedule \/ KthreaddTake
  \/ KernelThreadFails \/ (\E t \in Threads : KernelThread(t))
  \/ StartedWait \/ StartedWake \/ FindTask \/ CompleteDone

ThreadSteps(t) ==
  \/ ThreadStart(t) \/ ThreadTell(t) \/ ThreadRun(t)
  \/ FnPrepare(t) \/ FnTest(t) \/ FnSchedule(t)
  \/ ThreadCheck(t) \/ ThreadReport(t) \/ ThreadExit(t)

Next ==
  \/ \E c \in Clients :
       ClientSteps(c) \/ KthreadCreate(c) \/ WakeUpProcess(c) \/ Detach(c) \/ StopBegin(c)
  \/ Kthreadd
  \/ \E t \in Threads : ThreadSteps(t)

Spec == Init /\ [][Next]_vars

(* Runnable tasks run; nobody has to make a call.                          *)
Fairness ==
  /\ WF_vars(Kthreadd)
  /\ \A c \in Clients : WF_vars(ClientSteps(c))
  /\ \A t \in Threads : WF_vars(ThreadSteps(t))

FairSpec == Spec /\ Fairness
-----------------------------------------------------------------------------
Fn == {"f_loop", "f_test", "f_sched"}

TypeOK ==
  /\ createList \in Seq(Clients)
  /\ kpc \in {"prep", "check", "sched", "run", "spawn", "wait", "sleep", "done"}
  /\ kstate \in {"RUNNING", "INTERRUPTIBLE", "UNINTERRUPTIBLE"}
  /\ create \in Clients \cup {None}
  /\ pid \in Threads \cup {None}
  /\ started \in [Clients -> Nat]
  /\ done \in [Clients -> Nat]
  /\ result \in [Clients -> Threads \cup {None, ENOMEM}]
  /\ tpc \in [Threads -> Fn \cup {"dead", "start", "tell", "park", "check", "report", "exit"}]
  /\ tstate \in [Threads -> {"RUNNING", "INTERRUPTIBLE", "UNINTERRUPTIBLE"}]
  /\ tcreate \in [Threads -> Clients \cup {None}]
  /\ ret \in [Threads -> Threads \cup {None, EINTR}]
  /\ usage \in [Threads -> Nat]
  /\ detached \subseteq Threads
  /\ stopK \in Threads \cup {None}
  /\ stopErr \in Threads \cup {None, EINTR}
  /\ stopDone \in Nat
  /\ stopLock \in Clients \cup {None}
  /\ pc \in [Clients -> {"idle", "c_wait", "has", "s_set", "s_wake", "s_wait", "stopped"}]
  /\ k \in [Clients -> Threads \cup {None}]
  /\ rv \in [Clients -> Threads \cup {None, EINTR}]
  /\ woken \in [Clients -> BOOLEAN]
  /\ ran \in [Clients -> BOOLEAN]
  /\ misled \in BOOLEAN

(* kthread_create returns a thread that waits: "The thread will be         *)
(* stopped: use wake_up_process() to start it."  Whatever wakes kthreadd   *)
(* or the thread meanwhile, a thread its owner has not woken is parked in  *)
(* kthread() with nothing left to do for its creation, and is the owner's  *)
(* alone: it was made for the owner, and nobody else has its structure but *)
(* a kthread_stop that has let go of it.  This holds until a thread is     *)
(* misled (which WokenRuns says never happens): it exits behind its        *)
(* owner's back, and from then on that owner's pointer dangles.            *)
CreatedParked ==
  ~misled => \A c \in Clients : pc[c] = "has" =>
    /\ ~woken[c] => tpc[k[c]] = "park" /\ tstate[k[c]] = "UNINTERRUPTIBLE"
    /\ tcreate[k[c]] = c
    /\ \A d \in Clients : d # c => k[d] # k[c] \/ pc[d] \in {"s_wait", "stopped"}

(* Nothing dead is touched: the kthread_create_info on a creator's stack   *)
(* is reachable (from the list, kthreadd or the new thread) only while its *)
(* creator waits, and the task that kthread_stop wakes still exists        *)
(* ("It could exit after stop_info.k set, but before wake_up_process").    *)
NoDangling ==
  /\ \A c \in Clients :
       \/ c \in ToSet(createList)
       \/ c = create
       \/ \E t \in Threads : tcreate[t] = c /\ tpc[t] \in {"start", "tell"}
       => pc[c] = "c_wait"
  /\ \A c \in Clients : pc[c] = "s_wake" => usage[k[c]] > 0

(* kthread_stop returns the result of the thread it was called for: its    *)
(* threadfn's, if that ran at all, and -EINTR if it never did; concurrent  *)
(* stops share kthread_stop_info and do not mix their threads up, as long  *)
(* as no thread is misled.  By then threadfn is over.                      *)
StopResult ==
  ~misled => \A c \in Clients : pc[c] = "stopped" =>
    /\ rv[c] = IF ran[c] THEN k[c] ELSE EINTR
    /\ \A t \in Threads : tcreate[t] = c /\ t = k[c] => tpc[t] \in {"exit", "dead"}

(* "When woken, the thread will run @threadfn() with @data as its          *)
(* argument" (the comment of kthread_create), unless kthread_stop was      *)
(* called for it first: a thread skips threadfn only if its owner is       *)
(* stopping it.                                                            *)
WokenRuns ==
  \A t \in Threads : tpc[t] \in {"check", "report"} /\ ret[t] = EINTR => OwnerStops(t)

(* "Returns the result of threadfn(), or -EINTR if wake_up_process() was   *)
(* never called" (the comment of kthread_stop): a thread that its owner    *)
(* has woken does not give -EINTR.                                         *)
StopComment ==
  \A c \in Clients : pc[c] = "stopped" /\ rv[c] = EINTR => ~woken[c]

(* At any time one of these two comments is right; a state that refutes    *)
(* this refutes both.                                                      *)
ThreadsAsDocumented == WokenRuns \/ StopComment

(* kthread_create and kthread_stop return: no wake-up is lost between the  *)
(* client, kthreadd and the thread, and no completion is reset after it    *)
(* was signalled (except that nobody answers the stop of a thread that was *)
(* misled and has exited).                                                 *)
HandshakesEnd ==
  \A c \in Clients :
    pc[c] \in {"c_wait", "s_set", "s_wake", "s_wait"} ~> (misled \/ pc[c] \in {"has", "idle", "stopped"})
=============================================================================
