------------------------------- MODULE Softirq -------------------------------
(***************************************************************************)
(* kernel/softirq.c and the tasklets of include/linux/interrupt.h.  Every  *)
(* CPU has its pending mask, its tasklet lists, at most one softirq        *)
(* context (__do_softirq does not nest) and its ksoftirqd.  Interrupt      *)
(* handlers and tasks schedule tasklets; tasks also disable, enable and    *)
(* kill them and have local_bh_disable sections.                           *)
(*                                                                         *)
(* A step is what runs with interrupts off, or one atomic operation.  A    *)
(* softirq context, a local_bh_disable section and the sections ksoftirqd  *)
(* runs with preemption disabled keep other tasks off their CPU; hardware  *)
(* interrupts arrive anywhere.  With one CPU the RUN bit is never          *)
(* contended, and the model is that of the uniprocessor build, where       *)
(* tasklet_trylock is the constant 1.                                      *)
(*                                                                         *)
(* The operators named Faulty... are deliberately wrong variants of the    *)
(* definition that follows them; no specification uses them.               *)
(***************************************************************************)
EXTENDS Integers, Sequences, FiniteSets

CONSTANTS
  Cpus, Tasks, Tasklets,
  Hi,                \* the tasklets that use the _hi_ variant of the calls
  MaxSoftirqRestart, \* MAX_SOFTIRQ_RESTART (10 in the code)
  None

ASSUME SoftirqAssumption ==
  /\ Hi \subseteq Tasklets
  /\ MaxSoftirqRestart \in Nat \ {0}
  /\ None \notin Cpus \cup Tasks \cup Tasklets
  /\ IsFiniteSet(Tasks)

HI_SOFTIRQ == 0
TASKLET_SOFTIRQ == 1
Softirqs == {HI_SOFTIRQ, TASKLET_SOFTIRQ}

VARIABLES
  pending,       \* local_softirq_pending() of each CPU
  vec,           \* tasklet_hi_vec and tasklet_vec of each CPU
  spc,           \* where the softirq context of each CPU is
  todo, restart, \* __do_softirq: the handlers still to call, max_restart
  list, cur,     \* tasklet_action: its list, the tasklet t
  kpc, kstate,   \* ksoftirqd of each CPU: where it is, its task->state
  sched, run,    \* TASKLET_STATE_SCHED and TASKLET_STATE_RUN of a tasklet
  count,         \* its disable count
  pc, arg,       \* where each task is, the tasklet it works on
  bh             \* the CPU a task keeps in a local_bh_disable section

vars == <<pending, vec, spc, todo, restart, list, cur, kpc, kstate, sched, run, count, pc, arg, bh>>

actionVars  == <<list, cur>>
softirqVars == <<spc, todo, restart, list, cur>>
kVars       == <<kpc, kstate>>
taskVars    == <<pc, arg, bh>>

Init ==
  /\ pending = [c \in Cpus |-> {}]
  /\ vec = [c \in Cpus |-> [n \in Softirqs |-> <<>>]]
  /\ spc = [c \in Cpus |-> "none"]
  /\ todo = [c \in Cpus |-> {}]
  /\ restart = [c \in Cpus |-> 0]
  /\ list = [c \in Cpus |-> <<>>]
  /\ cur = [c \in Cpus |-> None]
  /\ kpc = [c \in Cpus |-> "prep"]
  /\ kstate = [c \in Cpus |-> "RUNNING"]
  /\ sched = [t \in Tasklets |-> FALSE]
  /\ run = [t \in Tasklets |-> FALSE]
  /\ count = [t \in Tasklets |-> 0]
  /\ pc = [u \in Tasks |-> "idle"]
  /\ arg = [u \in Tasks |-> None]
  /\ bh = [u \in Tasks |-> None]

SoftirqOf(t) == IF t \in Hi THEN HI_SOFTIRQ ELSE TASKLET_SOFTIRQ

BhDisabled(c) == \E u \in Tasks : bh[u] = c

(* in_interrupt() of what CPU c executes, its hardware interrupts apart.   *)
InInterrupt(c) == spc[c] # "none" \/ BhDisabled(c)

(* Task u can be what CPU c executes.                                      *)
CanRunOn(u, c) ==
  /\ spc[c] = "none"
  /\ IF bh[u] = None THEN ~BhDisabled(c) ELSE bh[u] = c

CanRun(u) == \E c \in Cpus : CanRunOn(u, c)

-----------------------------------------------------------------------------
(* Raising                                                                 *)

(* wakeup_softirqd                                                         *)
WakeupSoftirqd(c) == kstate' = [kstate EXCEPT ![c] = "RUNNING"]

(* The insertion at the head of the list and the pending bit, with         *)
(* interrupts off.                                                         *)
Push(c, t) ==
  /\ vec' = [vec EXCEPT ![c][SoftirqOf(t)] = <<t>> \o @]
  /\ pending' = [pending EXCEPT ![c] = @ \cup {SoftirqOf(t)}]

(* Fault: raise_softirq_irqoff does not wake ksoftirqd.                    *)
FaultyTaskletQueue(c, t) == Push(c, t) /\ UNCHANGED kstate

(* __tasklet_schedule, __tasklet_hi_schedule and raise_softirq_irqoff      *)
TaskletQueue(c, t) ==
  /\ Push(c, t)
  /\ IF InInterrupt(c) THEN UNCHANGED kstate ELSE WakeupSoftirqd(c)

-----------------------------------------------------------------------------
(* __do_softirq                                                            *)

(* Its start, with the mask p: the mask is reset before irqs are enabled.  *)
Begin(c, p, n) ==
  /\ todo' = [todo EXCEPT ![c] = p]
  /\ restart' = [restart EXCEPT ![c] = n]
  /\ spc' = [spc EXCEPT ![c] = "vec"]

DoSoftirq(c) ==
  /\ Begin(c, pending[c], MaxSoftirqRestart)
  /\ pending' = [pending EXCEPT ![c] = {}]

(* The next handler, lowest bit first: tasklet_hi_action or tasklet_action *)
(* takes the whole list of its CPU.                                        *)
CallAction(c) ==
  /\ spc[c] = "vec" /\ todo[c] # {}
  /\ LET n == IF HI_SOFTIRQ \in todo[c] THEN HI_SOFTIRQ ELSE TASKLET_SOFTIRQ
     IN /\ todo' = [todo EXCEPT ![c] = @ \ {n}]
        /\ list' = [list EXCEPT ![c] = vec[c][n]]
        /\ vec' = [vec EXCEPT ![c][n] = <<>>]
  /\ spc' = [spc EXCEPT ![c] = "list"]
  /\ UNCHANGED <<pending, restart, cur, kVars, sched, run, count, taskVars>>

(* Fault: the work that is left is not handed to ksoftirqd.                *)
FaultyEndPass(c) ==
  /\ spc[c] = "vec" /\ todo[c] = {}
  /\ IF pending[c] # {} /\ restart[c] > 1
     THEN /\ Begin(c, pending[c], restart[c] - 1)
          /\ pending' = [pending EXCEPT ![c] = {}]
     ELSE /\ spc' = [spc EXCEPT ![c] = "none"]
          /\ restart' = [restart EXCEPT ![c] = 0]
          /\ UNCHANGED <<pending, todo>>
  /\ UNCHANGED <<vec, actionVars, kpc, kstate, sched, run, count, taskVars>>

(* All handlers were called: restart while max_restart lasts, else leave   *)
(* the rest to ksoftirqd.                                                  *)
EndPass(c) ==
  /\ spc[c] = "vec" /\ todo[c] = {}
  /\ IF pending[c] # {} /\ restart[c] > 1
     THEN /\ Begin(c, pending[c], restart[c] - 1)
          /\ pending' = [pending EXCEPT ![c] = {}]
          /\ UNCHANGED kstate
     ELSE /\ spc' = [spc EXCEPT ![c] = "none"]
          /\ IF pending[c] # {} THEN WakeupSoftirqd(c) ELSE UNCHANGED kstate
          /\ restart' = [restart EXCEPT ![c] = 0]
          /\ UNCHANGED <<pending, todo>>
  /\ UNCHANGED <<vec, actionVars, kpc, sched, run, count, taskVars>>

-----------------------------------------------------------------------------
(* tasklet_action and tasklet_hi_action                                    *)

SGoto(c, l) == spc' = [spc EXCEPT ![c] = l]

ListDone(c) ==
  /\ spc[c] = "list" /\ list[c] = <<>>
  /\ SGoto(c, "vec")
  /\ UNCHANGED <<pending, vec, todo, restart, actionVars, kVars, sched, run, count, taskVars>>

TaskletTrylock(c) ==
  /\ spc[c] = "list" /\ list[c] # <<>>
  /\ LET t == Head(list[c])
     IN /\ cur' = [cur EXCEPT ![c] = t]
        /\ run' = [run EXCEPT ![t] = TRUE]
        /\ SGoto(c, IF run[t] THEN "requeue" ELSE "locked")
  /\ list' = [list EXCEPT ![c] = Tail(@)]
  /\ UNCHANGED <<pending, vec, todo, restart, kVars, sched, count, taskVars>>

(* !atomic_read(&t->count), and then test_and_clear_bit(SCHED).            *)
TaskletTest(c) ==
  /\ spc[c] = "locked"
  /\ IF count[cur[c]] = 0
     THEN /\ sched' = [sched EXCEPT ![cur[c]] = FALSE]
          /\ SGoto(c, "func")
          /\ UNCHANGED run
     ELSE /\ run' = [run EXCEPT ![cur[c]] = FALSE]
          /\ SGoto(c, "requeue")
          /\ UNCHANGED sched
  /\ UNCHANGED <<pending, vec, todo, restart, actionVars, kVars, count, taskVars>>

(* t->func(t->data) (external): it may schedule a tasklet, itself too.     *)
FuncSchedules(c, t) ==
  /\ spc[c] = "func" /\ ~sched[t]
  /\ sched' = [sched EXCEPT ![t] = TRUE]
  /\ TaskletQueue(c, t)
  /\ UNCHANGED <<spc, todo, restart, actionVars, kpc, run, count, taskVars>>

(* It returns: tasklet_unlock.                                             *)
TaskletUnlock(c) ==
  /\ spc[c] = "func"
  /\ run' = [run EXCEPT ![cur[c]] = FALSE]
  /\ cur' = [cur EXCEPT ![c] = None]
  /\ SGoto(c, "list")
  /\ UNCHANGED <<pending, vec, todo, restart, list, kVars, sched, count, taskVars>>

(* Locked elsewhere, or disabled: back on the list, raised without waking. *)
TaskletRequeue(c) ==
  /\ spc[c] = "requeue"
  /\ Push(c, cur[c])
  /\ cur' = [cur EXCEPT ![c] = None]
  /\ SGoto(c, "list")
  /\ UNCHANGED <<todo, restart, list, kVars, sched, run, count, taskVars>>

SoftirqStep(c) ==
  \/ CallAction(c) \/ EndPass(c) \/ ListDone(c) \/ TaskletTrylock(c) \/ TaskletTest(c)
  \/ TaskletUnlock(c) \/ TaskletRequeue(c)

-----------------------------------------------------------------------------
(* Hardware interrupts                                                     *)

(* irq_exit, with the mask p: __do_softirq if nothing forbids it.          *)
IrqExit(c, p) ==
  IF ~InInterrupt(c) /\ p # {}
  THEN Begin(c, p, MaxSoftirqRestart) /\ pending' = [pending EXCEPT ![c] = {}]
  ELSE pending' = [pending EXCEPT ![c] = p] /\ UNCHANGED <<spc, todo, restart>>

(* A handler that schedules nothing.                                       *)
HardIrq(c) ==
  /\ pending[c] # {} /\ ~InInterrupt(c)
  /\ IrqExit(c, pending[c])
  /\ UNCHANGED <<vec, actionVars, kVars, sched, run, count, taskVars>>

(* A handler that schedules t.  The handler is in_interrupt(), so nobody   *)
(* is woken.                                                               *)
HardIrqSchedules(c, t) ==
  /\ ~sched[t]
  /\ sched' = [sched EXCEPT ![t] = TRUE]
  /\ vec' = [vec EXCEPT ![c][SoftirqOf(t)] = <<t>> \o @]
  /\ IrqExit(c, pending[c] \cup {SoftirqOf(t)})
  /\ UNCHANGED <<actionVars, kVars, run, count, taskVars>>

-----------------------------------------------------------------------------
(* ksoftirqd                                                               *)

KRuns(c) == spc[c] = "none" /\ ~BhDisabled(c)

(* set_current_state(TASK_INTERRUPTIBLE)                                   *)
KPrepare(c) ==
  /\ KRuns(c) /\ kpc[c] = "prep"
  /\ kstate' = [kstate EXCEPT ![c] = "INTERRUPTIBLE"]
  /\ kpc' = [kpc EXCEPT ![c] = "test"]
  /\ UNCHANGED <<pending, vec, softirqVars, sched, run, count, taskVars>>

(* Nothing pending: schedule().                                            *)
KTest(c) ==
  /\ KRuns(c) /\ kpc[c] = "test"
  /\ IF pending[c] = {}
     THEN kpc' = [kpc EXCEPT ![c] = "sched"] /\ UNCHANGED kstate
     ELSE kpc' = [kpc EXCEPT ![c] = "work"] /\ kstate' = [kstate EXCEPT ![c] = "RUNNING"]
  /\ UNCHANGED <<pending, vec, softirqVars, sched, run, count, taskVars>>

KSchedule(c) ==
  /\ KRuns(c) /\ kpc[c] = "sched" /\ kstate[c] = "RUNNING"
  /\ kpc' = [kpc EXCEPT ![c] = "work"]
  /\ UNCHANGED <<pending, vec, softirqVars, kstate, sched, run, count, taskVars>>

(* while (local_softirq_pending()) do_softirq();                           *)
KWork(c) ==
  /\ KRuns(c) /\ kpc[c] = "work"
  /\ IF pending[c] # {}
     THEN DoSoftirq(c) /\ UNCHANGED kpc
     ELSE kpc' = [kpc EXCEPT ![c] = "prep"] /\ UNCHANGED <<spc, todo, restart, pending>>
  /\ UNCHANGED <<vec, actionVars, kstate, sched, run, count, taskVars>>

Ksoftirqd(c) == KPrepare(c) \/ KTest(c) \/ KSchedule(c) \/ KWork(c)

-----------------------------------------------------------------------------
(* Tasks                                                                   *)

Goto(u, l, t) ==
  /\ pc' = [pc EXCEPT ![u] = l]
  /\ arg' = [arg EXCEPT ![u] = t]

LocalBhDisable(u, c) ==
  /\ bh[u] = None /\ pc[u] = "idle" /\ CanRunOn(u, c)
  /\ bh' = [bh EXCEPT ![u] = c]
  /\ UNCHANGED <<pending, vec, softirqVars, kVars, sched, run, count, pc, arg>>

LocalBhEnable(u) ==
  /\ bh[u] # None /\ pc[u] = "idle" /\ CanRun(u)
  /\ bh' = [bh EXCEPT ![u] = None]
  /\ IF pending[bh[u]] # {}
     THEN DoSoftirq(bh[u])
     ELSE UNCHANGED <<spc, todo, restart, pending>>
  /\ UNCHANGED <<vec, actionVars, kVars, sched, run, count, pc, arg>>

(* tasklet_schedule: test_and_set_bit(SCHED), and then __tasklet_schedule  *)
(* on whatever CPU the task is by then.                                    *)
TaskletSchedule(u, t) ==
  /\ pc[u] = "idle" /\ CanRun(u) /\ ~sched[t]
  /\ sched' = [sched EXCEPT ![t] = TRUE]
  /\ Goto(u, "queue", t)
  /\ UNCHANGED <<pending, vec, softirqVars, kVars, run, count, bh>>

TaskletScheduleQueue(u, c) ==
  /\ pc[u] = "queue" /\ CanRunOn(u, c)
  /\ TaskletQueue(c, arg[u])
  /\ Goto(u, "idle", None)
  /\ UNCHANGED <<softirqVars, kpc, sched, run, count, bh>>

(* tasklet_disable, called outside sections: atomic_inc, and then          *)
(* tasklet_unlock_wait, which spins.                                       *)
TaskletDisable(u, t) ==
  /\ pc[u] = "idle" /\ bh[u] = None /\ CanRun(u)
  /\ count' = [count EXCEPT ![t] = @ + 1]
  /\ Goto(u, "dwait", t)
  /\ UNCHANGED <<pending, vec, softirqVars, kVars, sched, run, bh>>

(* Fault: tasklet_disable_nosync in its place.                             *)
FaultyTaskletDisabled(u) ==
  /\ pc[u] = "dwait" /\ CanRun(u)
  /\ Goto(u, "disabled", arg[u])
  /\ UNCHANGED <<pending, vec, softirqVars, kVars, sched, run, count, bh>>

TaskletDisabled(u) ==
  /\ pc[u] = "dwait" /\ CanRun(u) /\ ~run[arg[u]]
  /\ Goto(u, "disabled", arg[u])
  /\ UNCHANGED <<pending, vec, softirqVars, kVars, sched, run, count, bh>>

TaskletEnable(u) ==
  /\ pc[u] = "disabled" /\ CanRun(u)
  /\ count' = [count EXCEPT ![arg[u]] = @ - 1]
  /\ Goto(u, "idle", None)
  /\ UNCHANGED <<pending, vec, softirqVars, kVars, sched, run, bh>>

(* tasklet_kill, which sleeps: test_and_set_bit(SCHED) until it was clear, *)
(* ...                                                                     *)
TaskletKill(u, t) ==
  /\ pc[u] = "idle" /\ bh[u] = None /\ CanRun(u)
  /\ Goto(u, "kill", t)
  /\ UNCHANGED <<pending, vec, softirqVars, kVars, sched, run, count, bh>>

(* Fault: the bit is tested but not taken.                                 *)
FaultyKillTakes(u) ==
  /\ pc[u] = "kill" /\ CanRun(u) /\ ~sched[arg[u]]
  /\ Goto(u, "kwait", arg[u])
  /\ UNCHANGED <<pending, vec, softirqVars, kVars, sched, run, count, bh>>

KillTakes(u) ==
  /\ pc[u] = "kill" /\ CanRun(u) /\ ~sched[arg[u]]
  /\ sched' = [sched EXCEPT ![arg[u]] = TRUE]
  /\ Goto(u, "kwait", arg[u])
  /\ UNCHANGED <<pending, vec, softirqVars, kVars, run, count, bh>>

(* ... tasklet_unlock_wait, ...                                            *)
KillWaits(u) ==
  /\ pc[u] = "kwait" /\ CanRun(u) /\ ~run[arg[u]]
  /\ Goto(u, "kclear", arg[u])
  /\ UNCHANGED <<pending, vec, softirqVars, kVars, sched, run, count, bh>>

(* ... clear_bit(SCHED).                                                   *)
KillClears(u) ==
  /\ pc[u] = "kclear" /\ CanRun(u)
  /\ sched' = [sched EXCEPT ![arg[u]] = FALSE]
  /\ Goto(u, "idle", None)
  /\ UNCHANGED <<pending, vec, softirqVars, kVars, run, count, bh>>

(* The steps a task takes by itself once it is inside a call or a section. *)
TaskStep(u) ==
  \/ LocalBhEnable(u)
  \/ \E c \in Cpus : TaskletScheduleQueue(u, c)
  \/ TaskletDisabled(u) \/ TaskletEnable(u)
  \/ KillTakes(u) \/ KillWaits(u) \/ KillClears(u)

Next ==
  \/ \E c \in Cpus : SoftirqStep(c) \/ Ksoftirqd(c) \/ HardIrq(c)
  \/ \E c \in Cpus, t \in Tasklets : FuncSchedules(c, t) \/ HardIrqSchedules(c, t)
  \/ \E u \in Tasks : TaskStep(u)
  \/ \E u \in Tasks, c \in Cpus : LocalBhDisable(u, c)
  \/ \E u \in Tasks, t \in Tasklets : TaskletSchedule(u, t) \/ TaskletDisable(u, t) \/ TaskletKill(u, t)

Spec == Init /\ [][Next]_vars

(* A CPU goes on with its softirqs, and with ksoftirqd when it has         *)
(* neither these nor a section; tasks get the CPU; a local_bh_disable      *)
(* section ends, whatever its task does in it.  No interrupt has to        *)
(* arrive.                                                                 *)
Fairness ==
  /\ \A c \in Cpus : WF_vars(SoftirqStep(c) \/ Ksoftirqd(c))
  /\ \A u \in Tasks : WF_vars(TaskStep(u)) /\ SF_vars(LocalBhEnable(u))

FairSpec == Spec /\ Fairness
-----------------------------------------------------------------------------
TypeOK ==
  /\ pending \in [Cpus -> SUBSET Softirqs]
  /\ vec \in [Cpus -> [Softirqs -> Seq(Tasklets)]]
  /\ spc \in [Cpus -> {"none", "vec", "list", "locked", "func", "requeue"}]
  /\ todo \in [Cpus -> SUBSET Softirqs]
  /\ restart \in [Cpus -> 0..MaxSoftirqRestart]
  /\ list \in [Cpus -> Seq(Tasklets)]
  /\ cur \in [Cpus -> Tasklets \cup {None}]
  /\ kpc \in [Cpus -> {"prep", "test", "sched", "work"}]
  /\ kstate \in [Cpus -> {"RUNNING", "INTERRUPTIBLE"}]
  /\ sched \in [Tasklets -> BOOLEAN]
  /\ run \in [Tasklets -> BOOLEAN]
  /\ count \in [Tasklets -> Nat]
  /\ pc \in [Tasks -> {"idle", "queue", "dwait", "disabled", "kill", "kwait", "kclear"}]
  /\ arg \in [Tasks -> Tasklets \cup {None}]
  /\ bh \in [Tasks -> Cpus \cup {None}]

Running(c, t) == spc[c] = "func" /\ cur[c] = t

(* Everything that holds the SCHED bit of t: a place in one of the lists   *)
(* (its next pointer serves only one), a CPU that has taken it off a list, *)
(* a task that is about to queue it, a task that kills it.                 *)
Holds(u, t) == pc[u] \in {"queue", "kwait", "kclear"} /\ arg[u] = t
HeldByTask(t) == \E u \in Tasks : Holds(u, t)
Occurs(s, t) == {i \in DOMAIN s : s[i] = t}
Holders(t) ==
  (UNION {{<<c, "vec", n, i>> : i \in Occurs(vec[c][n], t)} : c \in Cpus, n \in Softirqs})
    \cup (UNION {{<<c, "list", i>> : i \in Occurs(list[c], t)} : c \in Cpus})
    \cup {<<c, "cur">> : c \in {d \in Cpus : spc[d] \in {"locked", "requeue"} /\ cur[d] = t}}
    \cup {<<u, "task">> : u \in {v \in Tasks : Holds(v, t)}}

(* "If the tasklet is already scheduled, but its excecution is still not   *)
(* started, it will be executed only once": SCHED is set exactly when one  *)
(* place, and only one, holds the tasklet, so that it is never linked      *)
(* twice through its one next pointer, and tasklet_action's BUG() is never *)
(* reached.  Broken by any path that queues without the bit, or drops it.  *)
SchedHeldOnce ==
  \A t \in Tasklets : Cardinality(Holders(t)) = IF sched[t] THEN 1 ELSE 0

(* "Tasklet is strictly serialized wrt itself", across CPUs; once          *)
(* tasklet_disable has returned, func does not run until tasklet_enable;   *)
(* and when tasklet_kill is about to return, nothing runs the tasklet.     *)
Excluded ==
  \A t \in Tasklets :
    /\ \A c, d \in Cpus : Running(c, t) /\ Running(d, t) => c = d
    /\ \A u \in Tasks, c \in Cpus :
         pc[u] \in {"disabled", "kclear"} /\ arg[u] = t => ~Running(c, t)

(* A pending softirq is never forgotten: when a CPU is neither in a        *)
(* softirq nor in a section that ends with do_softirq, and something is    *)
(* pending, its ksoftirqd is awake or has yet to look.  The raise, the     *)
(* restart limit of __do_softirq, irq_exit and ksoftirqd's own way to      *)
(* sleep all have to keep this.                                            *)
PendingServed ==
  \A c \in Cpus : pending[c] # {} /\ ~InInterrupt(c) =>
    kstate[c] = "RUNNING" \/ kpc[c] = "test"

(* "If tasklet_schedule() is called, then tasklet is guaranteed to be      *)
(* executed on some cpu at least once after this", unless it is disabled:  *)
(* whatever reschedules itself forever meanwhile, and even if no interrupt *)
(* ever comes, a scheduled tasklet that no task is busy with runs.         *)
ScheduledRuns ==
  \A t \in Tasklets :
    (sched[t] /\ ~HeldByTask(t)) ~> (count[t] > 0 \/ \E c \in Cpus : Running(c, t))
=============================================================================
