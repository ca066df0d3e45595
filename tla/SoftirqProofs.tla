--------------------------- MODULE SoftirqProofs ---------------------------
(***************************************************************************)
(* Proofs about kernel/softirq.c for any number of CPUs, tasks and         *)
(* tasklets and any restart limit: the SCHED bit stands for exactly one    *)
(* place, a tasklet is serialized and excluded by tasklet_disable and      *)
(* tasklet_kill, and a pending softirq is never forgotten.                 *)
(***************************************************************************)
EXTENDS Softirq, KernelLemmas

(* What the program counters say about the locals: tasklet_action has      *)
(* emptied its list when it returns, and who works on a tasklet has one.   *)
Shape ==
  /\ \A c \in Cpus :
       /\ spc[c] \in {"none", "vec"} => list[c] = <<>>
       /\ spc[c] \in {"locked", "func", "requeue"} => cur[c] \in Tasklets
  /\ \A u \in Tasks : pc[u] # "idle" => arg[u] \in Tasklets

(* ksoftirqd is asleep only between its set_current_state and schedule().  *)
Awake == \A c \in Cpus : kpc[c] \in {"prep", "work"} => kstate[c] = "RUNNING"

(* The places that hold a tasklet, as predicates.                          *)
InVec(c, n, t) == t \in ToSet(vec[c][n])
InList(c, t)   == t \in ToSet(list[c])
Taken(c, t)    == spc[c] \in {"locked", "requeue"} /\ cur[c] = t

(* No list holds a tasklet twice.                                          *)
Listed ==
  /\ \A c \in Cpus, n \in Softirqs : Unique(vec[c][n])
  /\ \A c \in Cpus : Unique(list[c])

(* SCHED is set exactly when the tasklet is somewhere ...                  *)
Somewhere(t) ==
  \/ \E c \in Cpus : (\E n \in Softirqs : InVec(c, n, t)) \/ InList(c, t) \/ Taken(c, t)
  \/ HeldByTask(t)

SchedMeans == \A t \in Tasklets : sched[t] <=> Somewhere(t)

(* ... and then it is nowhere else.                                        *)
OnePlace ==
  \A t \in Tasklets :
    /\ \A c, d \in Cpus :
         /\ \A n, m \in Softirqs : InVec(c, n, t) /\ InVec(d, m, t) => c = d /\ n = m
         /\ InList(c, t) /\ InList(d, t) => c = d
         /\ Taken(c, t) /\ Taken(d, t) => c = d
         /\ \A n \in Softirqs : InVec(c, n, t) => ~InList(d, t) /\ ~Taken(d, t)
         /\ InList(c, t) => ~Taken(d, t)
    /\ \A u \in Tasks : Holds(u, t) =>
         /\ \A v \in Tasks : Holds(v, t) => u = v
         /\ \A c \in Cpus : ~InList(c, t) /\ ~Taken(c, t) /\ \A n \in Softirqs : ~InVec(c, n, t)

(* The RUN bit has one owner, the CPU between trylock and unlock.          *)
RunBy(c, t) == spc[c] \in {"locked", "func"} /\ cur[c] = t

RunOwner ==
  \A t \in Tasklets :
    /\ run[t] <=> \E c \in Cpus : RunBy(c, t)
    /\ \A c, d \in Cpus : RunBy(c, t) /\ RunBy(d, t) => c = d

(* count is the number of tasks between tasklet_disable and the enable.    *)
Disablers(t) == {u \in Tasks : pc[u] \in {"dwait", "disabled"} /\ arg[u] = t}

CountExact == \A t \in Tasklets : count[t] = Cardinality(Disablers(t))

(* tasklet_disable and tasklet_kill have waited for func to end.           *)
Quiet ==
  \A u \in Tasks, c \in Cpus :
    pc[u] \in {"disabled", "kclear"} /\ spc[c] = "func" => cur[c] # arg[u]

(* The inductive invariant.                                                *)
IInv ==
  /\ TypeOK /\ Shape
  /\ Awake /\ PendingServed
  /\ Listed /\ SchedMeans /\ OnePlace
  /\ RunOwner /\ CountExact /\ Quiet

-----------------------------------------------------------------------------
LEMMA SoftirqOfType == \A t : SoftirqOf(t) \in Softirqs
BY DEF SoftirqOf, Softirqs

(* Queueing a tasklet at the head of a list, as the lists see it.          *)
LEMMA PushElems ==
  ASSUME TypeOK, NEW c \in Cpus, NEW t \in Tasklets,
         vec' = [vec EXCEPT ![c][SoftirqOf(t)] = <<t>> \o @]
  PROVE  /\ vec' \in [Cpus -> [Softirqs -> Seq(Tasklets)]]
         /\ \A d \in Cpus, m \in Softirqs, x \in Tasklets :
              InVec(d, m, x)' <=> InVec(d, m, x) \/ (d = c /\ m = SoftirqOf(t) /\ x = t)
         /\ Listed /\ ~InVec(c, SoftirqOf(t), t)
              => \A d \in Cpus, m \in Softirqs : Unique(vec'[d][m])
<1> DEFINE n == SoftirqOf(t)
           s == vec[c][n]
           r == <<t>> \o s
<1>0. n \in Softirqs
  BY SoftirqOfType
<1>1. s \in Seq(Tasklets)
  BY <1>0 DEF TypeOK
<1>2. /\ r \in Seq(Tasklets) /\ ToSet(r) = ToSet(s) \cup {t}
      /\ Unique(s) /\ t \notin ToSet(s) => Unique(r)
  BY <1>1, PrependElems
<1>3. \A d \in Cpus, m \in Softirqs :
        vec'[d][m] = IF d = c /\ m = n THEN r ELSE vec[d][m]
  BY <1>0 DEF TypeOK
<1>4. vec' \in [Cpus -> [Softirqs -> Seq(Tasklets)]]
  BY <1>0, <1>2 DEF TypeOK
<1> HIDE DEF r
<1>5. \A d \in Cpus, m \in Softirqs, x \in Tasklets :
        InVec(d, m, x)' <=> InVec(d, m, x) \/ (d = c /\ m = n /\ x = t)
  BY <1>2, <1>3 DEF InVec
<1>6. Listed /\ ~InVec(c, n, t) => \A d \in Cpus, m \in Softirqs : Unique(vec'[d][m])
  BY <1>0, <1>2, <1>3 DEF InVec, Listed
<1> QED
  BY <1>4, <1>5, <1>6

(* Queueing keeps the types of the lists, the masks and ksoftirqd's state. *)
LEMMA QueueType ==
  ASSUME TypeOK, NEW c \in Cpus, NEW t \in Tasklets, Push(c, t)
  PROVE  /\ vec' \in [Cpus -> [Softirqs -> Seq(Tasklets)]]
         /\ pending' \in [Cpus -> SUBSET Softirqs]
         /\ TaskletQueue(c, t) => kstate' \in [Cpus -> {"RUNNING", "INTERRUPTIBLE"}]
<1>1. vec' \in [Cpus -> [Softirqs -> Seq(Tasklets)]]
  BY PushElems DEF Push
<1>2. pending' \in [Cpus -> SUBSET Softirqs]
  BY SoftirqOfType DEF Push, TypeOK
<1>3. TaskletQueue(c, t) => kstate' \in [Cpus -> {"RUNNING", "INTERRUPTIBLE"}]
  BY DEF TaskletQueue, WakeupSoftirqd, TypeOK
<1> QED
  BY <1>1, <1>2, <1>3

(* __do_softirq's locals and its place after a start or a restart.         *)
LEMMA BeginType ==
  ASSUME TypeOK, NEW c \in Cpus, NEW p \in SUBSET Softirqs, NEW n \in 0..MaxSoftirqRestart, Begin(c, p, n)
  PROVE  /\ todo' \in [Cpus -> SUBSET Softirqs]
         /\ restart' \in [Cpus -> 0..MaxSoftirqRestart]
         /\ spc' \in [Cpus -> {"none", "vec", "list", "locked", "func", "requeue"}]
BY DEF TypeOK, Begin

(* The types of the variables after a step; count never goes below 0.      *)
LEMMA TypeStep ==
  ASSUME TypeOK, Shape, CountExact, [Next]_vars
  PROVE  TypeOK'
<1> USE DEF TypeOK, Shape, Goto, SGoto, softirqVars, actionVars, kVars, taskVars
<1>1. CASE UNCHANGED vars
  BY <1>1 DEF vars
<1>2. ASSUME NEW c \in Cpus, CallAction(c) PROVE TypeOK'
  <2>1. \A n : vec[c][n] \in Seq(Tasklets) \/ n \notin Softirqs
    BY DEF TypeOK
  <2>2. <<>> \in Seq(Tasklets)
    OBVIOUS
  <2> QED
    BY <1>2, <2>1, <2>2 DEF CallAction, Softirqs
<1>3. ASSUME NEW c \in Cpus, EndPass(c) PROVE TypeOK'
  <2>1. CASE pending[c] # {} /\ restart[c] > 1
    <3>1. restart[c] - 1 \in 0..MaxSoftirqRestart /\ pending[c] \in SUBSET Softirqs
      BY <2>1, SoftirqAssumption
    <3>2. Begin(c, pending[c], restart[c] - 1)
      BY <1>3, <2>1 DEF EndPass
    <3> QED
      BY <1>3, <2>1, <3>1, <3>2, BeginType DEF EndPass
  <2>2. CASE ~(pending[c] # {} /\ restart[c] > 1)
    <3>0. restart' = [restart EXCEPT ![c] = 0]
      BY <1>3, <2>2 DEF EndPass
    <3>1. restart' \in [Cpus -> 0..MaxSoftirqRestart]
      BY <3>0, SoftirqAssumption
    <3> QED
      BY <1>3, <2>2, <3>1 DEF EndPass, WakeupSoftirqd
  <2> QED
    BY <2>1, <2>2
<1>4. ASSUME NEW c \in Cpus, ListDone(c) PROVE TypeOK'
  BY <1>4 DEF ListDone
<1>5. ASSUME NEW c \in Cpus, TaskletTrylock(c) PROVE TypeOK'
  <2>1. Tail(list[c]) \in Seq(Tasklets) /\ Head(list[c]) \in Tasklets
    BY <1>5, HeadTailProperties DEF TaskletTrylock
  <2> QED
    BY <1>5, <2>1 DEF TaskletTrylock
<1>6. ASSUME NEW c \in Cpus, TaskletTest(c) PROVE TypeOK'
  BY <1>6 DEF TaskletTest
<1>7. ASSUME NEW c \in Cpus, TaskletUnlock(c) PROVE TypeOK'
  BY <1>7 DEF TaskletUnlock
<1>8. ASSUME NEW c \in Cpus, TaskletRequeue(c) PROVE TypeOK'
  BY <1>8, QueueType DEF TaskletRequeue
<1>9. ASSUME NEW c \in Cpus, KPrepare(c) PROVE TypeOK'
  BY <1>9 DEF KPrepare
<1>10. ASSUME NEW c \in Cpus, KTest(c) PROVE TypeOK'
  BY <1>10 DEF KTest
<1>11. ASSUME NEW c \in Cpus, KSchedule(c) PROVE TypeOK'
  BY <1>11 DEF KSchedule
<1>12. ASSUME NEW c \in Cpus, KWork(c) PROVE TypeOK'
  <2>1. CASE pending[c] # {}
    <3>1. /\ Begin(c, pending[c], MaxSoftirqRestart) /\ pending' = [pending EXCEPT ![c] = {}] /\ kpc' = kpc
          /\ pending[c] \in SUBSET Softirqs /\ MaxSoftirqRestart \in 0..MaxSoftirqRestart
      BY <1>12, <2>1, SoftirqAssumption DEF KWork, DoSoftirq
    <3>2. UNCHANGED <<vec, list, cur, kstate, sched, run, count, pc, arg, bh>>
      BY <1>12 DEF KWork
    <3> QED
      BY <3>1, <3>2, BeginType
  <2>2. CASE pending[c] = {}
    BY <1>12, <2>2 DEF KWork
  <2> QED
    BY <2>1, <2>2
<1>13. ASSUME NEW c \in Cpus, HardIrq(c) PROVE TypeOK'
  <2>1. MaxSoftirqRestart \in 0..MaxSoftirqRestart
    BY SoftirqAssumption
  <2> QED
    BY <1>13, <2>1, BeginType DEF HardIrq, IrqExit
<1>14. ASSUME NEW c \in Cpus, NEW t \in Tasklets, FuncSchedules(c, t) PROVE TypeOK'
  <2>1. Push(c, t) /\ TaskletQueue(c, t)
    BY <1>14 DEF FuncSchedules, TaskletQueue
  <2> QED
    BY <1>14, <2>1, QueueType DEF FuncSchedules
<1>15. ASSUME NEW c \in Cpus, NEW t \in Tasklets, HardIrqSchedules(c, t) PROVE TypeOK'
  <2>1. vec' \in [Cpus -> [Softirqs -> Seq(Tasklets)]]
    BY <1>15, PushElems DEF HardIrqSchedules
  <2>2. MaxSoftirqRestart \in 0..MaxSoftirqRestart /\ pending[c] \cup {SoftirqOf(t)} \in SUBSET Softirqs
    BY SoftirqAssumption, SoftirqOfType
  <2> QED
    <3>1. CASE ~InInterrupt(c)
      <4>1. Begin(c, pending[c] \cup {SoftirqOf(t)}, MaxSoftirqRestart) /\ pending' = [pending EXCEPT ![c] = {}]
        BY <1>15, <3>1 DEF HardIrqSchedules, IrqExit
      <4> QED
        BY <1>15, <2>1, <2>2, <4>1, BeginType DEF HardIrqSchedules
    <3>2. CASE InInterrupt(c)
      <4>1. pending' = [pending EXCEPT ![c] = pending[c] \cup {SoftirqOf(t)}] /\ UNCHANGED <<spc, todo, restart>>
        BY <1>15, <3>2 DEF HardIrqSchedules, IrqExit
      <4> QED
        BY <1>15, <2>1, <2>2, <4>1 DEF HardIrqSchedules
    <3> QED
      BY <3>1, <3>2
<1>16. ASSUME NEW u \in Tasks, LocalBhEnable(u) PROVE TypeOK'
  <2>1. MaxSoftirqRestart \in 0..MaxSoftirqRestart
    BY SoftirqAssumption
  <2> QED
    BY <1>16, <2>1, BeginType DEF LocalBhEnable, DoSoftirq
<1>17. ASSUME NEW u \in Tasks, NEW c \in Cpus, TaskletScheduleQueue(u, c) PROVE TypeOK'
  <2>1. Push(c, arg[u]) /\ TaskletQueue(c, arg[u])
    BY <1>17 DEF TaskletScheduleQueue, TaskletQueue
  <2> QED
    BY <1>17, <2>1, QueueType DEF TaskletScheduleQueue
<1>18. ASSUME NEW u \in Tasks, TaskletDisabled(u) PROVE TypeOK'
  BY <1>18 DEF TaskletDisabled
<1>19. ASSUME NEW u \in Tasks, TaskletEnable(u) PROVE TypeOK'
  <2>1. u \in Disablers(arg[u]) /\ Disablers(arg[u]) \subseteq Tasks
    BY <1>19 DEF TaskletEnable, Disablers
  <2>2. count[arg[u]] # 0 /\ arg[u] \in Tasklets
    BY <1>19, <2>1, SoftirqAssumption, FS_Subset, FS_EmptySet DEF TaskletEnable, CountExact
  <2>3. count' \in [Tasklets -> Nat]
    BY <1>19, <2>2 DEF TaskletEnable
  <2> QED
    BY <1>19, <2>3 DEF TaskletEnable
<1>20. ASSUME NEW u \in Tasks, KillTakes(u) PROVE TypeOK'
  BY <1>20 DEF KillTakes
<1>21. ASSUME NEW u \in Tasks, KillWaits(u) PROVE TypeOK'
  BY <1>21 DEF KillWaits
<1>22. ASSUME NEW u \in Tasks, KillClears(u) PROVE TypeOK'
  BY <1>22 DEF KillClears
<1>23. ASSUME NEW u \in Tasks, NEW c \in Cpus, LocalBhDisable(u, c) PROVE TypeOK'
  BY <1>23 DEF LocalBhDisable
<1>24. ASSUME NEW u \in Tasks, NEW t \in Tasklets, TaskletSchedule(u, t) PROVE TypeOK'
  BY <1>24 DEF TaskletSchedule
<1>25. ASSUME NEW u \in Tasks, NEW t \in Tasklets, TaskletDisable(u, t) PROVE TypeOK'
  <2>1. count' \in [Tasklets -> Nat]
    BY <1>25 DEF TaskletDisable
  <2> QED
    BY <1>25, <2>1 DEF TaskletDisable
<1>26. ASSUME NEW u \in Tasks, NEW t \in Tasklets, TaskletKill(u, t) PROVE TypeOK'
  BY <1>26 DEF TaskletKill
<1> QED
  BY <1>1, <1>2, <1>3, <1>4, <1>5, <1>6, <1>7, <1>8, <1>9, <1>10, <1>11, <1>12,
     <1>13, <1>14, <1>15, <1>16, <1>17, <1>18, <1>19, <1>20, <1>21, <1>22,
     <1>23, <1>24, <1>25, <1>26
  DEF Next, SoftirqStep, Ksoftirqd, TaskStep

(* What the program counters say, and who serves the pending softirqs.     *)
Served == Shape /\ Awake /\ PendingServed

(* A step that touches neither the masks nor ksoftirqd nor a section.      *)
LEMMA ServedSame ==
  ASSUME Served, UNCHANGED <<pending, spc, kpc, kstate, bh>>
  PROVE  Awake' /\ PendingServed'
BY DEF Served, Awake, PendingServed, InInterrupt, BhDisabled

(* A raise outside interrupts wakes ksoftirqd, one inside is seen by       *)
(* irq_exit, local_bh_enable or the end of __do_softirq.                   *)
LEMMA ServedStep ==
  ASSUME TypeOK, Served, [Next]_vars
  PROVE  Served'
<1> USE DEF TypeOK, Served, softirqVars, actionVars, kVars, taskVars
<1>1. CASE UNCHANGED vars
  BY <1>1 DEF vars, Shape, Awake, PendingServed, InInterrupt, BhDisabled
<1>2. ASSUME NEW c \in Cpus, CallAction(c) PROVE Served'
  BY <1>2 DEF CallAction, Shape, Awake, PendingServed, InInterrupt, BhDisabled, Goto, SGoto
<1>3. ASSUME NEW c \in Cpus, EndPass(c) PROVE Served'
  <2>1. Shape'
    BY <1>3 DEF EndPass, Begin, WakeupSoftirqd, Shape, Goto, SGoto
  <2>2. Awake'
    BY <1>3 DEF EndPass, Begin, WakeupSoftirqd, Awake
  <2>3. PendingServed'
    <3> SUFFICES ASSUME NEW d \in Cpus, pending'[d] # {}, ~InInterrupt(d)'
                 PROVE  kstate'[d] = "RUNNING" \/ kpc'[d] = "test"
      BY DEF PendingServed
    <3>1. CASE d = c
      BY <1>3, <3>1 DEF EndPass, Begin, WakeupSoftirqd, PendingServed, Awake, InInterrupt, BhDisabled
    <3>2. CASE d # c
      <4>1. pending'[d] = pending[d] /\ kstate'[d] = kstate[d] /\ kpc'[d] = kpc[d] /\ spc'[d] = spc[d]
        BY <1>3, <3>2 DEF EndPass, Begin, WakeupSoftirqd
      <4>2. BhDisabled(d) => BhDisabled(d)'
        BY <1>3, <3>2, SoftirqAssumption DEF EndPass, BhDisabled
      <4> QED
        BY <4>1, <4>2 DEF PendingServed, InInterrupt
    <3> QED
      BY <3>1, <3>2
  <2> QED
    BY <2>1, <2>2, <2>3
<1>4. ASSUME NEW c \in Cpus, ListDone(c) PROVE Served'
  BY <1>4 DEF ListDone, Shape, Awake, PendingServed, InInterrupt, BhDisabled, Goto, SGoto
<1>5. ASSUME NEW c \in Cpus, TaskletTrylock(c) PROVE Served'
  <2>1. Head(list[c]) \in Tasklets
    BY <1>5, HeadTailProperties DEF TaskletTrylock
  <2> QED
    BY <1>5, <2>1 DEF TaskletTrylock, Shape, Awake, PendingServed, InInterrupt, BhDisabled, Goto, SGoto
<1>6. ASSUME NEW c \in Cpus, TaskletTest(c) PROVE Served'
  <2>1. Shape'
    BY <1>6 DEF TaskletTest, Shape, Goto, SGoto
  <2>2. Awake'
    BY <1>6 DEF TaskletTest, SGoto, Awake
  <2>3. PendingServed'
    <3> SUFFICES ASSUME NEW d \in Cpus, pending'[d] # {}, ~InInterrupt(d)'
                 PROVE  kstate'[d] = "RUNNING" \/ kpc'[d] = "test"
      BY DEF PendingServed
    <3>1. CASE d = c
      BY <1>6, <3>1 DEF TaskletTest, SGoto, PendingServed, Awake, InInterrupt, BhDisabled
    <3>2. CASE d # c
      <4>1. pending'[d] = pending[d] /\ kstate'[d] = kstate[d] /\ kpc'[d] = kpc[d] /\ spc'[d] = spc[d]
        BY <1>6, <3>2 DEF TaskletTest, SGoto
      <4>2. BhDisabled(d) => BhDisabled(d)'
        BY <1>6, <3>2, SoftirqAssumption DEF TaskletTest, BhDisabled
      <4> QED
        BY <4>1, <4>2 DEF PendingServed, InInterrupt
    <3> QED
      BY <3>1, <3>2
  <2> QED
    BY <2>1, <2>2, <2>3
<1>7. ASSUME NEW c \in Cpus, TaskletUnlock(c) PROVE Served'
  BY <1>7 DEF TaskletUnlock, Shape, Awake, PendingServed, InInterrupt, BhDisabled, Goto, SGoto
<1>8. ASSUME NEW c \in Cpus, TaskletRequeue(c) PROVE Served'
  BY <1>8 DEF TaskletRequeue, Push, Shape, Awake, PendingServed, InInterrupt, BhDisabled, Goto, SGoto
<1>9. ASSUME NEW c \in Cpus, KPrepare(c) PROVE Served'
  <2>1. Shape'
    BY <1>9 DEF KPrepare, Shape, Goto, SGoto
  <2>2. Awake'
    BY <1>9 DEF KPrepare, Awake
  <2>3. PendingServed'
    <3> SUFFICES ASSUME NEW d \in Cpus, pending'[d] # {}, ~InInterrupt(d)'
                 PROVE  kstate'[d] = "RUNNING" \/ kpc'[d] = "test"
      BY DEF PendingServed
    <3>1. CASE d = c
      BY <1>9, <3>1 DEF KPrepare, PendingServed, Awake, InInterrupt, BhDisabled
    <3>2. CASE d # c
      <4>1. pending'[d] = pending[d] /\ kstate'[d] = kstate[d] /\ kpc'[d] = kpc[d] /\ spc'[d] = spc[d]
        BY <1>9, <3>2 DEF KPrepare
      <4>2. BhDisabled(d) => BhDisabled(d)'
        BY <1>9, <3>2, SoftirqAssumption DEF KPrepare, BhDisabled
      <4> QED
        BY <4>1, <4>2 DEF PendingServed, InInterrupt
    <3> QED
      BY <3>1, <3>2
  <2> QED
    BY <2>1, <2>2, <2>3
<1>10. ASSUME NEW c \in Cpus, KTest(c) PROVE Served'
  <2>1. Shape'
    BY <1>10 DEF KTest, Shape, Goto, SGoto
  <2>2. Awake'
    BY <1>10 DEF KTest, Awake
  <2>3. PendingServed'
    <3> SUFFICES ASSUME NEW d \in Cpus, pending'[d] # {}, ~InInterrupt(d)'
                 PROVE  kstate'[d] = "RUNNING" \/ kpc'[d] = "test"
      BY DEF PendingServed
    <3>1. CASE d = c
      BY <1>10, <3>1 DEF KTest, PendingServed, Awake, InInterrupt, BhDisabled
    <3>2. CASE d # c
      <4>1. pending'[d] = pending[d] /\ kstate'[d] = kstate[d] /\ kpc'[d] = kpc[d] /\ spc'[d] = spc[d]
        BY <1>10, <3>2 DEF KTest
      <4>2. BhDisabled(d) => BhDisabled(d)'
        BY <1>10, <3>2, SoftirqAssumption DEF KTest, BhDisabled
      <4> QED
        BY <4>1, <4>2 DEF PendingServed, InInterrupt
    <3> QED
      BY <3>1, <3>2
  <2> QED
    BY <2>1, <2>2, <2>3
<1>11. ASSUME NEW c \in Cpus, KSchedule(c) PROVE Served'
  <2>1. Shape'
    BY <1>11 DEF KSchedule, Shape, Goto, SGoto
  <2>2. Awake'
    BY <1>11 DEF KSchedule, Awake
  <2>3. PendingServed'
    <3> SUFFICES ASSUME NEW d \in Cpus, pending'[d] # {}, ~InInterrupt(d)'
                 PROVE  kstate'[d] = "RUNNING" \/ kpc'[d] = "test"
      BY DEF PendingServed
    <3>1. CASE d = c
      BY <1>11, <3>1 DEF KSchedule, PendingServed, Awake, InInterrupt, BhDisabled
    <3>2. CASE d # c
      <4>1. pending'[d] = pending[d] /\ kstate'[d] = kstate[d] /\ kpc'[d] = kpc[d] /\ spc'[d] = spc[d]
        BY <1>11, <3>2 DEF KSchedule
      <4>2. BhDisabled(d) => BhDisabled(d)'
        BY <1>11, <3>2, SoftirqAssumption DEF KSchedule, BhDisabled
      <4> QED
        BY <4>1, <4>2 DEF PendingServed, InInterrupt
    <3> QED
      BY <3>1, <3>2
  <2> QED
    BY <2>1, <2>2, <2>3
<1>12. ASSUME NEW c \in Cpus, KWork(c) PROVE Served'
  <2>1. Shape'
    BY <1>12 DEF KWork, KRuns, DoSoftirq, Begin, Shape, Goto, SGoto
  <2>2. Awake'
    BY <1>12 DEF KWork, KRuns, DoSoftirq, Begin, Awake
  <2>3. PendingServed'
    <3> SUFFICES ASSUME NEW d \in Cpus, pending'[d] # {}, ~InInterrupt(d)'
                 PROVE  kstate'[d] = "RUNNING" \/ kpc'[d] = "test"
      BY DEF PendingServed
    <3>1. CASE d = c
      BY <1>12, <3>1 DEF KWork, KRuns, DoSoftirq, Begin, PendingServed, Awake, InInterrupt, BhDisabled
    <3>2. CASE d # c
      <4>1. pending'[d] = pending[d] /\ kstate'[d] = kstate[d] /\ kpc'[d] = kpc[d] /\ spc'[d] = spc[d]
        BY <1>12, <3>2 DEF KWork, KRuns, DoSoftirq, Begin
      <4>2. BhDisabled(d) => BhDisabled(d)'
        BY <1>12, <3>2, SoftirqAssumption DEF KWork, BhDisabled
      <4> QED
        BY <4>1, <4>2 DEF PendingServed, InInterrupt
    <3> QED
      BY <3>1, <3>2
  <2> QED
    BY <2>1, <2>2, <2>3
<1>13. ASSUME NEW c \in Cpus, HardIrq(c) PROVE Served'
  <2>1. Shape'
    BY <1>13 DEF InInterrupt, HardIrq, IrqExit, Begin, Shape, Goto, SGoto
  <2>2. Awake'
    BY <1>13 DEF HardIrq, IrqExit, Begin, Awake
  <2>3. PendingServed'
    <3> SUFFICES ASSUME NEW d \in Cpus, pending'[d] # {}, ~InInterrupt(d)'
                 PROVE  kstate'[d] = "RUNNING" \/ kpc'[d] = "test"
      BY DEF PendingServed
    <3>1. CASE d = c
      BY <1>13, <3>1 DEF HardIrq, IrqExit, Begin, PendingServed, Awake, InInterrupt, BhDisabled
    <3>2. CASE d # c
      <4>1. pending'[d] = pending[d] /\ kstate'[d] = kstate[d] /\ kpc'[d] = kpc[d] /\ spc'[d] = spc[d]
        BY <1>13, <3>2 DEF HardIrq, IrqExit, Begin
      <4>2. BhDisabled(d) => BhDisabled(d)'
        BY <1>13, <3>2, SoftirqAssumption DEF HardIrq, BhDisabled
      <4> QED
        BY <4>1, <4>2 DEF PendingServed, InInterrupt
    <3> QED
      BY <3>1, <3>2
  <2> QED
    BY <2>1, <2>2, <2>3
<1>14. ASSUME NEW c \in Cpus, NEW t \in Tasklets, FuncSchedules(c, t) PROVE Served'
  <2>1. Shape'
    BY <1>14 DEF FuncSchedules, TaskletQueue, Push, InInterrupt, Shape, Goto, SGoto
  <2>2. Awake'
    BY <1>14 DEF FuncSchedules, TaskletQueue, Push, InInterrupt, Awake
  <2>3. PendingServed'
    BY <1>14 DEF FuncSchedules, TaskletQueue, Push, InInterrupt, PendingServed, BhDisabled
  <2> QED
    BY <2>1, <2>2, <2>3
<1>15. ASSUME NEW c \in Cpus, NEW t \in Tasklets, HardIrqSchedules(c, t) PROVE Served'
  <2>1. Shape'
    BY <1>15 DEF InInterrupt, HardIrqSchedules, IrqExit, Begin, Shape, Goto, SGoto
  <2>2. Awake'
    BY <1>15 DEF HardIrqSchedules, IrqExit, Begin, Awake
  <2>3. PendingServed'
    <3> SUFFICES ASSUME NEW d \in Cpus, pending'[d] # {}, ~InInterrupt(d)'
                 PROVE  kstate'[d] = "RUNNING" \/ kpc'[d] = "test"
      BY DEF PendingServed
    <3>1. CASE d = c
      BY <1>15, <3>1 DEF HardIrqSchedules, IrqExit, Begin, PendingServed, Awake, InInterrupt, BhDisabled
    <3>2. CASE d # c
      <4>1. pending'[d] = pending[d] /\ kstate'[d] = kstate[d] /\ kpc'[d] = kpc[d] /\ spc'[d] = spc[d]
        BY <1>15, <3>2 DEF HardIrqSchedules, IrqExit, Begin
      <4>2. BhDisabled(d) => BhDisabled(d)'
        BY <1>15, <3>2, SoftirqAssumption DEF HardIrqSchedules, BhDisabled
      <4> QED
        BY <4>1, <4>2 DEF PendingServed, InInterrupt
    <3> QED
      BY <3>1, <3>2
  <2> QED
    BY <2>1, <2>2, <2>3
<1>16. ASSUME NEW u \in Tasks, LocalBhEnable(u) PROVE Served'
  <2>1. Shape'
    BY <1>16, SoftirqAssumption DEF CanRun, CanRunOn, LocalBhEnable, DoSoftirq, Begin, Shape, Goto, SGoto
  <2>2. Awake'
    BY <1>16 DEF LocalBhEnable, DoSoftirq, Begin, Awake
  <2>3. PendingServed'
    <3> SUFFICES ASSUME NEW d \in Cpus, pending'[d] # {}, ~InInterrupt(d)'
                 PROVE  kstate'[d] = "RUNNING" \/ kpc'[d] = "test"
      BY DEF PendingServed
    <3>1. CASE d = bh[u]
      BY <1>16, <3>1 DEF LocalBhEnable, DoSoftirq, Begin, PendingServed, Awake, InInterrupt, BhDisabled
    <3>2. CASE d # bh[u]
      <4>1. pending'[d] = pending[d] /\ kstate'[d] = kstate[d] /\ kpc'[d] = kpc[d] /\ spc'[d] = spc[d]
        BY <1>16, <3>2 DEF LocalBhEnable, DoSoftirq, Begin
      <4>2. BhDisabled(d) => BhDisabled(d)'
        BY <1>16, <3>2, SoftirqAssumption DEF LocalBhEnable, BhDisabled
      <4> QED
        BY <4>1, <4>2 DEF PendingServed, InInterrupt
    <3> QED
      BY <3>1, <3>2
  <2> QED
    BY <2>1, <2>2, <2>3
<1>17. ASSUME NEW u \in Tasks, NEW c \in Cpus, TaskletScheduleQueue(u, c) PROVE Served'
  <2>1. Shape'
    BY <1>17 DEF TaskletScheduleQueue, TaskletQueue, Push, WakeupSoftirqd, Shape, Goto, SGoto
  <2>2. Awake'
    BY <1>17 DEF TaskletScheduleQueue, TaskletQueue, Push, WakeupSoftirqd, Awake
  <2>3. PendingServed'
    <3> SUFFICES ASSUME NEW d \in Cpus, pending'[d] # {}, ~InInterrupt(d)'
                 PROVE  kstate'[d] = "RUNNING" \/ kpc'[d] = "test"
      BY DEF PendingServed
    <3>1. CASE d = c
      BY <1>17, <3>1 DEF TaskletScheduleQueue, TaskletQueue, Push, WakeupSoftirqd, PendingServed, Awake, InInterrupt, BhDisabled
    <3>2. CASE d # c
      <4>1. pending'[d] = pending[d] /\ kstate'[d] = kstate[d] /\ kpc'[d] = kpc[d] /\ spc'[d] = spc[d]
        BY <1>17, <3>2 DEF TaskletScheduleQueue, TaskletQueue, Push, WakeupSoftirqd
      <4>2. BhDisabled(d) => BhDisabled(d)'
        BY <1>17, <3>2, SoftirqAssumption DEF TaskletScheduleQueue, BhDisabled
      <4> QED
        BY <4>1, <4>2 DEF PendingServed, InInterrupt
    <3> QED
      BY <3>1, <3>2
  <2> QED
    BY <2>1, <2>2, <2>3
<1>18. ASSUME NEW u \in Tasks, TaskletDisabled(u) PROVE Served'
  <2>1. Shape'
    BY <1>18 DEF TaskletDisabled, Shape, Goto
  <2>2. UNCHANGED <<pending, spc, kpc, kstate, bh>>
    BY <1>18 DEF TaskletDisabled
  <2> QED
    BY <2>1, <2>2, ServedSame
<1>19. ASSUME NEW u \in Tasks, TaskletEnable(u) PROVE Served'
  <2>1. Shape'
    BY <1>19 DEF TaskletEnable, Shape, Goto
  <2>2. UNCHANGED <<pending, spc, kpc, kstate, bh>>
    BY <1>19 DEF TaskletEnable
  <2> QED
    BY <2>1, <2>2, ServedSame
<1>20. ASSUME NEW u \in Tasks, KillTakes(u) PROVE Served'
  <2>1. Shape'
    BY <1>20 DEF KillTakes, Shape, Goto
  <2>2. UNCHANGED <<pending, spc, kpc, kstate, bh>>
    BY <1>20 DEF KillTakes
  <2> QED
    BY <2>1, <2>2, ServedSame
<1>21. ASSUME NEW u \in Tasks, KillWaits(u) PROVE Served'
  <2>1. Shape'
    BY <1>21 DEF KillWaits, Shape, Goto
  <2>2. UNCHANGED <<pending, spc, kpc, kstate, bh>>
    BY <1>21 DEF KillWaits
  <2> QED
    BY <2>1, <2>2, ServedSame
<1>22. ASSUME NEW u \in Tasks, KillClears(u) PROVE Served'
  <2>1. Shape'
    BY <1>22 DEF KillClears, Shape, Goto
  <2>2. UNCHANGED <<pending, spc, kpc, kstate, bh>>
    BY <1>22 DEF KillClears
  <2> QED
    BY <2>1, <2>2, ServedSame
<1>23. ASSUME NEW u \in Tasks, NEW c \in Cpus, LocalBhDisable(u, c) PROVE Served'
  <2>1. Shape'
    BY <1>23 DEF LocalBhDisable, Shape, Goto, SGoto
  <2>2. Awake'
    BY <1>23 DEF LocalBhDisable, Awake
  <2>3. PendingServed'
    <3> SUFFICES ASSUME NEW d \in Cpus, pending'[d] # {}, ~InInterrupt(d)'
                 PROVE  kstate'[d] = "RUNNING" \/ kpc'[d] = "test"
      BY DEF PendingServed
    <3>1. CASE d = c
      BY <1>23, <3>1 DEF LocalBhDisable, PendingServed, Awake, InInterrupt, BhDisabled
    <3>2. CASE d # c
      <4>1. pending'[d] = pending[d] /\ kstate'[d] = kstate[d] /\ kpc'[d] = kpc[d] /\ spc'[d] = spc[d]
        BY <1>23, <3>2 DEF LocalBhDisable
      <4>2. BhDisabled(d) => BhDisabled(d)'
        BY <1>23, <3>2, SoftirqAssumption DEF LocalBhDisable, BhDisabled
      <4> QED
        BY <4>1, <4>2 DEF PendingServed, InInterrupt
    <3> QED
      BY <3>1, <3>2
  <2> QED
    BY <2>1, <2>2, <2>3
<1>24. ASSUME NEW u \in Tasks, NEW t \in Tasklets, TaskletSchedule(u, t) PROVE Served'
  <2>1. Shape'
    BY <1>24 DEF TaskletSchedule, Shape, Goto
  <2>2. UNCHANGED <<pending, spc, kpc, kstate, bh>>
    BY <1>24 DEF TaskletSchedule
  <2> QED
    BY <2>1, <2>2, ServedSame
<1>25. ASSUME NEW u \in Tasks, NEW t \in Tasklets, TaskletDisable(u, t) PROVE Served'
  <2>1. Shape'
    BY <1>25 DEF TaskletDisable, Shape, Goto
  <2>2. UNCHANGED <<pending, spc, kpc, kstate, bh>>
    BY <1>25 DEF TaskletDisable
  <2> QED
    BY <2>1, <2>2, ServedSame
<1>26. ASSUME NEW u \in Tasks, NEW t \in Tasklets, TaskletKill(u, t) PROVE Served'
  <2>1. Shape'
    BY <1>26 DEF TaskletKill, Shape, Goto
  <2>2. UNCHANGED <<pending, spc, kpc, kstate, bh>>
    BY <1>26 DEF TaskletKill
  <2> QED
    BY <2>1, <2>2, ServedSame
<1> QED
  BY <1>1, <1>2, <1>3, <1>4, <1>5, <1>6, <1>7, <1>8, <1>9, <1>10, <1>11, <1>12,
     <1>13, <1>14, <1>15, <1>16, <1>17, <1>18, <1>19, <1>20, <1>21, <1>22,
     <1>23, <1>24, <1>25, <1>26
  DEF Next, SoftirqStep, Ksoftirqd, TaskStep

-----------------------------------------------------------------------------
(* The lists and the SCHED bits.                                           *)
Places == Listed /\ SchedMeans /\ OnePlace

(* A step that moves no tasklet.                                           *)
LEMMA PlacesSame ==
  ASSUME TypeOK, Places, UNCHANGED <<vec, list, sched>>,
         \A c \in Cpus, t \in Tasklets : Taken(c, t)' <=> Taken(c, t),
         \A u \in Tasks, t \in Tasklets : Holds(u, t)' <=> Holds(u, t)
  PROVE  Places'
<1>1. \A c \in Cpus, t \in Tasklets :
        /\ \A n \in Softirqs : InVec(c, n, t)' <=> InVec(c, n, t)
        /\ InList(c, t)' <=> InList(c, t)
  BY DEF InVec, InList
<1>2. Listed'
  BY DEF Places, Listed
<1>3. SchedMeans'
  BY <1>1 DEF Places, SchedMeans, Somewhere, HeldByTask
<1>4. OnePlace'
  BY <1>1 DEF Places, OnePlace
<1> QED
  BY <1>2, <1>3, <1>4 DEF Places

(* A tasklet that was nowhere, or held by a CPU or a task that lets it go, *)
(* enters a list.                                                          *)
LEMMA PlacesPush ==
  ASSUME TypeOK, Places, NEW c \in Cpus, NEW t \in Tasklets,
         vec' = [vec EXCEPT ![c][SoftirqOf(t)] = <<t>> \o @],
         list' = list, sched' = [sched EXCEPT ![t] = TRUE],
         \A d \in Cpus : ~InList(d, t) /\ \A n \in Softirqs : ~InVec(d, n, t),
         \A d \in Cpus, x \in Tasklets : Taken(d, x)' <=> Taken(d, x) /\ x # t,
         \A u \in Tasks, x \in Tasklets : Holds(u, x)' <=> Holds(u, x) /\ x # t
  PROVE  Places'
<1>0. SoftirqOf(t) \in Softirqs
  BY SoftirqOfType
<1>1. \A d \in Cpus, m \in Softirqs, x \in Tasklets :
        InVec(d, m, x)' <=> InVec(d, m, x) \/ (d = c /\ m = SoftirqOf(t) /\ x = t)
  BY PushElems
<1>2. \A d \in Cpus, x \in Tasklets : InList(d, x)' <=> InList(d, x)
  BY DEF InList
<1>3. Listed'
  BY <1>0, PushElems DEF Places, Listed
<1>4. SchedMeans'
  <2> SUFFICES ASSUME NEW x \in Tasklets PROVE sched'[x] <=> Somewhere(x)'
    BY DEF SchedMeans
  <2>1. CASE x = t
    BY <1>0, <1>1, <2>1 DEF Somewhere, TypeOK
  <2>2. CASE x # t
    BY <1>1, <1>2, <2>2 DEF Somewhere, HeldByTask, TypeOK, Places, SchedMeans
  <2> QED
    BY <2>1, <2>2
<1>5. OnePlace'
  <2> SUFFICES ASSUME NEW x \in Tasklets PROVE OnePlace!(x)'
    BY DEF OnePlace
  <2>1. CASE x = t
    BY <1>1, <1>2, <2>1 DEF OnePlace
  <2>2. CASE x # t
    BY <1>1, <1>2, <2>2 DEF Places, OnePlace
  <2> QED
    BY <2>1, <2>2
<1> QED
  BY <1>3, <1>4, <1>5 DEF Places

(* A task takes a tasklet that was nowhere.                                *)
LEMMA PlacesTake ==
  ASSUME TypeOK, Places, NEW u \in Tasks, NEW t \in Tasklets, ~sched[t],
         UNCHANGED <<vec, list, spc, cur>>, sched' = [sched EXCEPT ![t] = TRUE],
         \A v \in Tasks, x \in Tasklets : Holds(v, x)' <=> Holds(v, x) \/ (v = u /\ x = t)
  PROVE  Places'
<1>1. \A c \in Cpus, x \in Tasklets :
        /\ \A n \in Softirqs : InVec(c, n, x)' <=> InVec(c, n, x)
        /\ InList(c, x)' <=> InList(c, x)
        /\ Taken(c, x)' <=> Taken(c, x)
  BY DEF InVec, InList, Taken
<1>2. ~Somewhere(t)
  BY DEF Places, SchedMeans
<1>3. Listed'
  BY DEF Places, Listed
<1>4. SchedMeans'
  BY <1>1 DEF Places, SchedMeans, Somewhere, HeldByTask, TypeOK
<1>5. OnePlace'
  BY <1>1, <1>2 DEF Places, OnePlace, Somewhere, HeldByTask
<1> QED
  BY <1>3, <1>4, <1>5 DEF Places

(* A CPU or a task clears the SCHED bit of what only it held.              *)
LEMMA PlacesClear ==
  ASSUME TypeOK, Places, NEW t \in Tasklets,
         UNCHANGED <<vec, list>>, sched' = [sched EXCEPT ![t] = FALSE],
         \A c \in Cpus : ~InList(c, t) /\ \A n \in Softirqs : ~InVec(c, n, t),
         \A c \in Cpus, x \in Tasklets : Taken(c, x)' <=> Taken(c, x) /\ x # t,
         \A v \in Tasks, x \in Tasklets : Holds(v, x)' <=> Holds(v, x) /\ x # t
  PROVE  Places'
<1>1. \A c \in Cpus, x \in Tasklets :
        /\ \A n \in Softirqs : InVec(c, n, x)' <=> InVec(c, n, x)
        /\ InList(c, x)' <=> InList(c, x)
  BY DEF InVec, InList
<1>3. Listed'
  BY DEF Places, Listed
<1>4. SchedMeans'
  <2> SUFFICES ASSUME NEW x \in Tasklets PROVE sched'[x] <=> Somewhere(x)'
    BY DEF SchedMeans
  <2>1. CASE x = t
    BY <1>1, <2>1 DEF Somewhere, HeldByTask, TypeOK
  <2>2. CASE x # t
    BY <1>1, <2>2 DEF Somewhere, HeldByTask, TypeOK, Places, SchedMeans
  <2> QED
    BY <2>1, <2>2
<1>5. OnePlace'
  BY <1>1 DEF Places, OnePlace
<1> QED
  BY <1>3, <1>4, <1>5 DEF Places

(* tasklet_action takes the whole list of its CPU.                         *)
LEMMA PlacesCall ==
  ASSUME TypeOK, Shape, Places, NEW c \in Cpus, CallAction(c)
  PROVE  Places'
<1> DEFINE n == IF HI_SOFTIRQ \in todo[c] THEN HI_SOFTIRQ ELSE TASKLET_SOFTIRQ
<1>0. n \in Softirqs /\ list[c] = <<>>
  BY DEF Softirqs, Shape, CallAction
<1>1. /\ list' = [list EXCEPT ![c] = vec[c][n]]
      /\ vec' = [vec EXCEPT ![c][n] = <<>>]
      /\ spc' = [spc EXCEPT ![c] = "list"] /\ spc[c] = "vec"
      /\ UNCHANGED <<cur, sched, pc, arg>>
  BY DEF CallAction, taskVars
<1> HIDE DEF n
<1>2. \A d \in Cpus, m \in Softirqs :
        /\ vec'[d][m] = IF d = c /\ m = n THEN <<>> ELSE vec[d][m]
        /\ list'[d] = IF d = c THEN vec[c][n] ELSE list[d]
  BY <1>0, <1>1 DEF TypeOK
<1>3. ToSet(<<>>) = {} /\ Unique(<<>>)
  BY ToSetEmpty
<1>4. \A d \in Cpus, x \in Tasklets :
        /\ \A m \in Softirqs : InVec(d, m, x)' <=> InVec(d, m, x) /\ ~(d = c /\ m = n)
        /\ InList(d, x)' <=> IF d = c THEN InVec(c, n, x) ELSE InList(d, x)
        /\ ~InList(c, x)
  BY <1>0, <1>2, <1>3 DEF InVec, InList
<1>5. \A d \in Cpus, x \in Tasklets : Taken(d, x)' <=> Taken(d, x)
  BY <1>1 DEF Taken, TypeOK
<1>6. \A u \in Tasks, x \in Tasklets : Holds(u, x)' <=> Holds(u, x)
  BY <1>1 DEF Holds
<1>7. Listed'
  BY <1>0, <1>2, <1>3 DEF Places, Listed
<1>8. SchedMeans'
  <2> SUFFICES ASSUME NEW x \in Tasklets PROVE Somewhere(x)' <=> Somewhere(x)
    BY <1>1 DEF Places, SchedMeans
  <2> QED
    BY <1>0, <1>4, <1>5, <1>6 DEF Somewhere, HeldByTask
<1>9. OnePlace'
  BY <1>0, <1>4, <1>5, <1>6 DEF Places, OnePlace
<1> QED
  BY <1>7, <1>8, <1>9 DEF Places

(* tasklet_action takes the next tasklet off its list.                     *)
LEMMA PlacesTrylock ==
  ASSUME TypeOK, Places, NEW c \in Cpus, TaskletTrylock(c)
  PROVE  Places'
<1> DEFINE t == Head(list[c])
<1>1. /\ Tail(list[c]) \in Seq(Tasklets) /\ t \in ToSet(list[c]) /\ t \in Tasklets
      /\ ToSet(list[c]) = ToSet(Tail(list[c])) \cup {t}
      /\ t \notin ToSet(Tail(list[c])) /\ Unique(Tail(list[c]))
  BY TailElems, ToSetElems DEF TaskletTrylock, TypeOK, Places, Listed
<1>2. /\ list' = [list EXCEPT ![c] = Tail(list[c])] /\ cur' = [cur EXCEPT ![c] = t]
      /\ spc[c] = "list" /\ spc' = [spc EXCEPT ![c] = IF run[t] THEN "requeue" ELSE "locked"]
      /\ UNCHANGED <<vec, sched, pc, arg>>
  BY DEF TaskletTrylock, SGoto, taskVars
<1> HIDE DEF t
<1>3. \A d \in Cpus, x \in Tasklets :
        /\ \A n \in Softirqs : InVec(d, n, x)' <=> InVec(d, n, x)
        /\ InList(d, x)' <=> InList(d, x) /\ ~(d = c /\ x = t)
        /\ InList(c, t)
  BY <1>1, <1>2 DEF InVec, InList, TypeOK
<1>4. \A d \in Cpus, x \in Tasklets : Taken(d, x)' <=> Taken(d, x) \/ (d = c /\ x = t)
  BY <1>2 DEF Taken, TypeOK
<1>5. \A u \in Tasks, x \in Tasklets : Holds(u, x)' <=> Holds(u, x)
  BY <1>2 DEF Holds
<1>6. Listed'
  BY <1>1, <1>2 DEF Places, Listed, TypeOK
<1>7. SchedMeans'
  <2> SUFFICES ASSUME NEW x \in Tasklets PROVE Somewhere(x)' <=> Somewhere(x)
    BY <1>2 DEF Places, SchedMeans
  <2> QED
    BY <1>3, <1>4, <1>5 DEF Somewhere, HeldByTask
<1>8. OnePlace'
  BY <1>1, <1>3, <1>4, <1>5 DEF Places, OnePlace
<1> QED
  BY <1>6, <1>7, <1>8 DEF Places

(* Every step keeps a scheduled tasklet in one place.                      *)
LEMMA PlacesStep ==
  ASSUME TypeOK, Shape, Places, [Next]_vars
  PROVE  Places'
<1> USE DEF TypeOK, Shape, Goto, SGoto, softirqVars, actionVars, kVars, taskVars
<1>1. CASE UNCHANGED vars
  BY <1>1, PlacesSame DEF vars, Taken, Holds
<1>2. ASSUME NEW c \in Cpus, CallAction(c) PROVE Places'
  BY <1>2, PlacesCall
<1>3. ASSUME NEW c \in Cpus, EndPass(c) PROVE Places'
  <2>1. /\ UNCHANGED <<vec, list, sched>>
        /\ \A d \in Cpus, x \in Tasklets : Taken(d, x)' <=> Taken(d, x)
        /\ \A v \in Tasks, x \in Tasklets : Holds(v, x)' <=> Holds(v, x)
    BY <1>3 DEF EndPass, Begin, Taken, Holds
  <2> QED
    BY <2>1, PlacesSame
<1>4. ASSUME NEW c \in Cpus, ListDone(c) PROVE Places'
  <2>1. /\ UNCHANGED <<vec, list, sched>>
        /\ \A d \in Cpus, x \in Tasklets : Taken(d, x)' <=> Taken(d, x)
        /\ \A v \in Tasks, x \in Tasklets : Holds(v, x)' <=> Holds(v, x)
    BY <1>4 DEF ListDone, Taken, Holds
  <2> QED
    BY <2>1, PlacesSame
<1>5. ASSUME NEW c \in Cpus, TaskletTrylock(c) PROVE Places'
  BY <1>5, PlacesTrylock
<1>6. ASSUME NEW c \in Cpus, TaskletTest(c) PROVE Places'
  <2>1. CASE count[cur[c]] = 0
    <3>1. Taken(c, cur[c]) /\ cur[c] \in Tasklets
      BY <1>6 DEF TaskletTest, Taken
    <3>2. /\ UNCHANGED <<vec, list>> /\ sched' = [sched EXCEPT ![cur[c]] = FALSE]
          /\ \A d \in Cpus : ~InList(d, cur[c]) /\ \A n \in Softirqs : ~InVec(d, n, cur[c])
          /\ \A d \in Cpus : Taken(d, cur[c]) => d = c
          /\ \A v \in Tasks : ~Holds(v, cur[c])
      BY <1>6, <2>1, <3>1 DEF TaskletTest, Places, OnePlace
    <3>3. \A d \in Cpus, x \in Tasklets : Taken(d, x)' <=> Taken(d, x) /\ x # cur[c]
      BY <1>6, <2>1, <3>1, <3>2 DEF TaskletTest, Taken
    <3>4. \A v \in Tasks, x \in Tasklets : Holds(v, x)' <=> Holds(v, x) /\ x # cur[c]
      BY <1>6, <3>2 DEF TaskletTest, Holds
    <3> QED
      BY <3>1, <3>2, <3>3, <3>4, PlacesClear
  <2>2. CASE count[cur[c]] # 0
    <3>1. /\ UNCHANGED <<vec, list, sched>>
          /\ \A d \in Cpus, x \in Tasklets : Taken(d, x)' <=> Taken(d, x)
          /\ \A v \in Tasks, x \in Tasklets : Holds(v, x)' <=> Holds(v, x)
      BY <1>6, <2>2 DEF TaskletTest, Taken, Holds
    <3> QED
      BY <3>1, PlacesSame
  <2> QED
    BY <2>1, <2>2
<1>7. ASSUME NEW c \in Cpus, TaskletUnlock(c) PROVE Places'
  <2>1. /\ UNCHANGED <<vec, list, sched>>
        /\ \A d \in Cpus, x \in Tasklets : Taken(d, x)' <=> Taken(d, x)
        /\ \A v \in Tasks, x \in Tasklets : Holds(v, x)' <=> Holds(v, x)
    BY <1>7 DEF TaskletUnlock, Taken, Holds
  <2> QED
    BY <2>1, PlacesSame
<1>8. ASSUME NEW c \in Cpus, TaskletRequeue(c) PROVE Places'
  <2>1. Taken(c, cur[c]) /\ cur[c] \in Tasklets
    BY <1>8 DEF TaskletRequeue, Taken
  <2>2. /\ \A d \in Cpus : ~InList(d, cur[c]) /\ \A n \in Softirqs : ~InVec(d, n, cur[c])
        /\ \A d \in Cpus : Taken(d, cur[c]) => d = c
        /\ \A v \in Tasks : ~Holds(v, cur[c])
        /\ sched[cur[c]] = TRUE
    BY <1>8, <2>1 DEF Places, OnePlace, SchedMeans, Somewhere
  <2>3. \A d \in Cpus, x \in Tasklets : Taken(d, x)' <=> Taken(d, x) /\ x # cur[c]
    BY <1>8, <2>1, <2>2 DEF TaskletRequeue, Taken
  <2>4. \A v \in Tasks, x \in Tasklets : Holds(v, x)' <=> Holds(v, x) /\ x # cur[c]
    BY <1>8, <2>2 DEF TaskletRequeue, Holds
  <2>5. sched' = [sched EXCEPT ![cur[c]] = TRUE]
    BY <1>8, <2>1, <2>2 DEF TaskletRequeue
  <2>6. vec' = [vec EXCEPT ![c][SoftirqOf(cur[c])] = <<cur[c]>> \o @] /\ list' = list
    BY <1>8 DEF TaskletRequeue, Push
  <2> HIDE DEF TypeOK, Shape
  <2> QED
    BY <2>1, <2>2, <2>3, <2>4, <2>5, <2>6, PlacesPush
<1>9. ASSUME NEW c \in Cpus, KPrepare(c) PROVE Places'
  <2>1. /\ UNCHANGED <<vec, list, sched>>
        /\ \A d \in Cpus, x \in Tasklets : Taken(d, x)' <=> Taken(d, x)
        /\ \A v \in Tasks, x \in Tasklets : Holds(v, x)' <=> Holds(v, x)
    BY <1>9 DEF KPrepare, Taken, Holds
  <2> QED
    BY <2>1, PlacesSame
<1>10. ASSUME NEW c \in Cpus, KTest(c) PROVE Places'
  <2>1. /\ UNCHANGED <<vec, list, sched>>
        /\ \A d \in Cpus, x \in Tasklets : Taken(d, x)' <=> Taken(d, x)
        /\ \A v \in Tasks, x \in Tasklets : Holds(v, x)' <=> Holds(v, x)
    BY <1>10 DEF KTest, Taken, Holds
  <2> QED
    BY <2>1, PlacesSame
<1>11. ASSUME NEW c \in Cpus, KSchedule(c) PROVE Places'
  <2>1. /\ UNCHANGED <<vec, list, sched>>
        /\ \A d \in Cpus, x \in Tasklets : Taken(d, x)' <=> Taken(d, x)
        /\ \A v \in Tasks, x \in Tasklets : Holds(v, x)' <=> Holds(v, x)
    BY <1>11 DEF KSchedule, Taken, Holds
  <2> QED
    BY <2>1, PlacesSame
<1>12. ASSUME NEW c \in Cpus, KWork(c) PROVE Places'
  <2>1. /\ UNCHANGED <<vec, list, sched>>
        /\ \A d \in Cpus, x \in Tasklets : Taken(d, x)' <=> Taken(d, x)
        /\ \A v \in Tasks, x \in Tasklets : Holds(v, x)' <=> Holds(v, x)
    BY <1>12 DEF KWork, KRuns, DoSoftirq, Begin, Taken, Holds
  <2> QED
    BY <2>1, PlacesSame
<1>13. ASSUME NEW c \in Cpus, HardIrq(c) PROVE Places'
  <2>1. /\ UNCHANGED <<vec, list, sched>>
        /\ \A d \in Cpus, x \in Tasklets : Taken(d, x)' <=> Taken(d, x)
        /\ \A v \in Tasks, x \in Tasklets : Holds(v, x)' <=> Holds(v, x)
    BY <1>13 DEF HardIrq, InInterrupt, IrqExit, Begin, Taken, Holds
  <2> QED
    BY <2>1, PlacesSame
<1>14. ASSUME NEW c \in Cpus, NEW t \in Tasklets, FuncSchedules(c, t) PROVE Places'
  <2>1. \A d \in Cpus : ~InList(d, t) /\ ~Taken(d, t) /\ \A n \in Softirqs : ~InVec(d, n, t)
    BY <1>14 DEF FuncSchedules, Places, SchedMeans, Somewhere
  <2>2. \A v \in Tasks : ~Holds(v, t)
    BY <1>14 DEF FuncSchedules, Places, SchedMeans, Somewhere, HeldByTask
  <2>3. \A d \in Cpus, x \in Tasklets : Taken(d, x)' <=> Taken(d, x) /\ x # t
    BY <1>14, <2>1 DEF FuncSchedules, TaskletQueue, Push, Taken
  <2>4. \A v \in Tasks, x \in Tasklets : Holds(v, x)' <=> Holds(v, x) /\ x # t
    BY <1>14, <2>2 DEF FuncSchedules, TaskletQueue, Push, Holds
  <2> QED
    BY <1>14, <2>1, <2>3, <2>4, PlacesPush DEF FuncSchedules, TaskletQueue, Push
<1>15. ASSUME NEW c \in Cpus, NEW t \in Tasklets, HardIrqSchedules(c, t) PROVE Places'
  <2>1. \A d \in Cpus : ~InList(d, t) /\ ~Taken(d, t) /\ \A n \in Softirqs : ~InVec(d, n, t)
    BY <1>15 DEF HardIrqSchedules, Places, SchedMeans, Somewhere
  <2>2. \A v \in Tasks : ~Holds(v, t)
    BY <1>15 DEF HardIrqSchedules, Places, SchedMeans, Somewhere, HeldByTask
  <2>3. \A d \in Cpus, x \in Tasklets : Taken(d, x)' <=> Taken(d, x) /\ x # t
    BY <1>15, <2>1 DEF HardIrqSchedules, IrqExit, Begin, InInterrupt, Taken
  <2>4. \A v \in Tasks, x \in Tasklets : Holds(v, x)' <=> Holds(v, x) /\ x # t
    BY <1>15, <2>2 DEF HardIrqSchedules, IrqExit, Begin, InInterrupt, Holds
  <2> QED
    BY <1>15, <2>1, <2>3, <2>4, PlacesPush DEF HardIrqSchedules, IrqExit, Begin, InInterrupt
<1>16. ASSUME NEW u \in Tasks, LocalBhEnable(u) PROVE Places'
  <2>1. /\ UNCHANGED <<vec, list, sched>>
        /\ \A d \in Cpus, x \in Tasklets : Taken(d, x)' <=> Taken(d, x)
        /\ \A v \in Tasks, x \in Tasklets : Holds(v, x)' <=> Holds(v, x)
    BY <1>16, SoftirqAssumption DEF LocalBhEnable, CanRun, CanRunOn, DoSoftirq, Begin, Taken, Holds
  <2> QED
    BY <2>1, PlacesSame
<1>17. ASSUME NEW u \in Tasks, NEW c \in Cpus, TaskletScheduleQueue(u, c) PROVE Places'
  <2>1. Holds(u, arg[u]) /\ arg[u] \in Tasklets
    BY <1>17 DEF TaskletScheduleQueue, Holds
  <2>2. /\ \A d \in Cpus : ~InList(d, arg[u]) /\ ~Taken(d, arg[u]) /\ \A n \in Softirqs : ~InVec(d, n, arg[u])
        /\ \A v \in Tasks : Holds(v, arg[u]) => v = u
        /\ sched[arg[u]] = TRUE
    BY <1>17, <2>1 DEF Places, OnePlace, SchedMeans, Somewhere, HeldByTask
  <2>3. \A d \in Cpus, x \in Tasklets : Taken(d, x)' <=> Taken(d, x) /\ x # arg[u]
    BY <1>17, <2>2 DEF TaskletScheduleQueue, Taken
  <2>4. \A v \in Tasks, x \in Tasklets : Holds(v, x)' <=> Holds(v, x) /\ x # arg[u]
    BY <1>17, <2>2 DEF TaskletScheduleQueue, Holds
  <2>5. sched' = [sched EXCEPT ![arg[u]] = TRUE]
    BY <1>17, <2>1, <2>2 DEF TaskletScheduleQueue
  <2>6. vec' = [vec EXCEPT ![c][SoftirqOf(arg[u])] = <<arg[u]>> \o @] /\ list' = list
    BY <1>17 DEF TaskletScheduleQueue, TaskletQueue, Push
  <2> HIDE DEF TypeOK, Shape
  <2> QED
    BY <2>1, <2>2, <2>3, <2>4, <2>5, <2>6, PlacesPush
<1>18. ASSUME NEW u \in Tasks, TaskletDisabled(u) PROVE Places'
  <2>1. /\ UNCHANGED <<vec, list, sched>>
        /\ \A d \in Cpus, x \in Tasklets : Taken(d, x)' <=> Taken(d, x)
        /\ \A v \in Tasks, x \in Tasklets : Holds(v, x)' <=> Holds(v, x)
    BY <1>18 DEF TaskletDisabled, Taken, Holds
  <2> QED
    BY <2>1, PlacesSame
<1>19. ASSUME NEW u \in Tasks, TaskletEnable(u) PROVE Places'
  <2>1. /\ UNCHANGED <<vec, list, sched>>
        /\ \A d \in Cpus, x \in Tasklets : Taken(d, x)' <=> Taken(d, x)
        /\ \A v \in Tasks, x \in Tasklets : Holds(v, x)' <=> Holds(v, x)
    BY <1>19 DEF TaskletEnable, Taken, Holds
  <2> QED
    BY <2>1, PlacesSame
<1>20. ASSUME NEW u \in Tasks, KillTakes(u) PROVE Places'
  <2>1. \A v \in Tasks, x \in Tasklets : Holds(v, x)' <=> Holds(v, x) \/ (v = u /\ x = arg[u])
    BY <1>20 DEF KillTakes, Holds
  <2>2. /\ UNCHANGED <<vec, list, spc, cur>> /\ sched' = [sched EXCEPT ![arg[u]] = TRUE]
        /\ ~sched[arg[u]] /\ arg[u] \in Tasklets
    BY <1>20 DEF KillTakes
  <2> HIDE DEF TypeOK, Shape
  <2> QED
    BY <2>1, <2>2, PlacesTake
<1>21. ASSUME NEW u \in Tasks, KillWaits(u) PROVE Places'
  <2>1. /\ UNCHANGED <<vec, list, sched>>
        /\ \A d \in Cpus, x \in Tasklets : Taken(d, x)' <=> Taken(d, x)
        /\ \A v \in Tasks, x \in Tasklets : Holds(v, x)' <=> Holds(v, x)
    BY <1>21 DEF KillWaits, Taken, Holds
  <2> QED
    BY <2>1, PlacesSame
<1>22. ASSUME NEW u \in Tasks, KillClears(u) PROVE Places'
  <2>1. Holds(u, arg[u]) /\ arg[u] \in Tasklets
    BY <1>22 DEF KillClears, Holds
  <2>2. /\ \A d \in Cpus : ~InList(d, arg[u]) /\ ~Taken(d, arg[u]) /\ \A n \in Softirqs : ~InVec(d, n, arg[u])
        /\ \A v \in Tasks : Holds(v, arg[u]) => v = u
    BY <1>22, <2>1 DEF Places, OnePlace
  <2>3. \A d \in Cpus, x \in Tasklets : Taken(d, x)' <=> Taken(d, x) /\ x # arg[u]
    BY <1>22, <2>2 DEF KillClears, Taken
  <2>4. \A v \in Tasks, x \in Tasklets : Holds(v, x)' <=> Holds(v, x) /\ x # arg[u]
    BY <1>22, <2>2 DEF KillClears, Holds
  <2> QED
    BY <1>22, <2>1, <2>2, <2>3, <2>4, PlacesClear DEF KillClears
<1>23. ASSUME NEW u \in Tasks, NEW c \in Cpus, LocalBhDisable(u, c) PROVE Places'
  <2>1. /\ UNCHANGED <<vec, list, sched>>
        /\ \A d \in Cpus, x \in Tasklets : Taken(d, x)' <=> Taken(d, x)
        /\ \A v \in Tasks, x \in Tasklets : Holds(v, x)' <=> Holds(v, x)
    BY <1>23 DEF LocalBhDisable, Taken, Holds
  <2> QED
    BY <2>1, PlacesSame
<1>24. ASSUME NEW u \in Tasks, NEW t \in Tasklets, TaskletSchedule(u, t) PROVE Places'
  <2>1. \A v \in Tasks, x \in Tasklets : Holds(v, x)' <=> Holds(v, x) \/ (v = u /\ x = t)
    BY <1>24 DEF TaskletSchedule, Holds
  <2>2. /\ UNCHANGED <<vec, list, spc, cur>> /\ sched' = [sched EXCEPT ![t] = TRUE]
        /\ ~sched[t] /\ t \in Tasklets
    BY <1>24 DEF TaskletSchedule
  <2> HIDE DEF TypeOK, Shape
  <2> QED
    BY <2>1, <2>2, PlacesTake
<1>25. ASSUME NEW u \in Tasks, NEW t \in Tasklets, TaskletDisable(u, t) PROVE Places'
  <2>1. /\ UNCHANGED <<vec, list, sched>>
        /\ \A d \in Cpus, x \in Tasklets : Taken(d, x)' <=> Taken(d, x)
        /\ \A v \in Tasks, x \in Tasklets : Holds(v, x)' <=> Holds(v, x)
    BY <1>25 DEF TaskletDisable, Taken, Holds
  <2> QED
    BY <2>1, PlacesSame
<1>26. ASSUME NEW u \in Tasks, NEW t \in Tasklets, TaskletKill(u, t) PROVE Places'
  <2>1. /\ UNCHANGED <<vec, list, sched>>
        /\ \A d \in Cpus, x \in Tasklets : Taken(d, x)' <=> Taken(d, x)
        /\ \A v \in Tasks, x \in Tasklets : Holds(v, x)' <=> Holds(v, x)
    BY <1>26 DEF TaskletKill, Taken, Holds
  <2> QED
    BY <2>1, PlacesSame
<1> QED
  BY <1>1, <1>2, <1>3, <1>4, <1>5, <1>6, <1>7, <1>8, <1>9, <1>10, <1>11, <1>12,
     <1>13, <1>14, <1>15, <1>16, <1>17, <1>18, <1>19, <1>20, <1>21, <1>22,
     <1>23, <1>24, <1>25, <1>26
  DEF Next, SoftirqStep, Ksoftirqd, TaskStep

-----------------------------------------------------------------------------
(* A step that neither takes nor drops a RUN bit.                          *)
LEMMA RunSame ==
  ASSUME RunOwner, UNCHANGED run,
         \A c \in Cpus, t \in Tasklets : RunBy(c, t)' <=> RunBy(c, t)
  PROVE  RunOwner'
BY DEF RunOwner

(* tasklet_trylock gives the RUN bit one owner, who gives it back.         *)
LEMMA RunStep ==
  ASSUME TypeOK, Shape, RunOwner, [Next]_vars
  PROVE  RunOwner'
<1> USE DEF TypeOK, Shape, Goto, SGoto, softirqVars, actionVars, kVars, taskVars
<1>1. CASE UNCHANGED vars
  BY <1>1, RunSame DEF vars, RunBy
<1>2. ASSUME NEW c \in Cpus, CallAction(c) PROVE RunOwner'
  <2>1. UNCHANGED run /\ \A d \in Cpus, x \in Tasklets : RunBy(d, x)' <=> RunBy(d, x)
    BY <1>2 DEF CallAction, RunBy
  <2> QED
    BY <2>1, RunSame
<1>3. ASSUME NEW c \in Cpus, EndPass(c) PROVE RunOwner'
  <2>1. UNCHANGED run /\ \A d \in Cpus, x \in Tasklets : RunBy(d, x)' <=> RunBy(d, x)
    BY <1>3 DEF EndPass, Begin, RunBy
  <2> QED
    BY <2>1, RunSame
<1>4. ASSUME NEW c \in Cpus, ListDone(c) PROVE RunOwner'
  <2>1. UNCHANGED run /\ \A d \in Cpus, x \in Tasklets : RunBy(d, x)' <=> RunBy(d, x)
    BY <1>4 DEF ListDone, RunBy
  <2> QED
    BY <2>1, RunSame
<1>5. ASSUME NEW c \in Cpus, TaskletTrylock(c) PROVE RunOwner'
  <2> DEFINE h == Head(list[c])
  <2>0. h \in Tasklets
    BY <1>5, HeadTailProperties DEF TaskletTrylock
  <2>1. /\ cur' = [cur EXCEPT ![c] = h] /\ run' = [run EXCEPT ![h] = TRUE]
        /\ spc[c] = "list" /\ spc' = [spc EXCEPT ![c] = IF run[h] THEN "requeue" ELSE "locked"]
    BY <1>5 DEF TaskletTrylock
  <2> HIDE DEF h
  <2>2. \A d \in Cpus, x \in Tasklets : RunBy(d, x)' <=> RunBy(d, x) \/ (d = c /\ x = h /\ ~run[h])
    BY <2>0, <2>1 DEF RunBy
  <2>3. \A x \in Tasklets : run'[x] <=> run[x] \/ x = h
    BY <2>0, <2>1
  <2>4. CASE run[h]
    BY <2>0, <2>2, <2>3, <2>4 DEF RunOwner
  <2>5. CASE ~run[h]
    <3>1. \A d \in Cpus : ~RunBy(d, h)
      BY <2>0, <2>5 DEF RunOwner
    <3> SUFFICES ASSUME NEW x \in Tasklets PROVE RunOwner!(x)'
      BY DEF RunOwner
    <3>2. CASE x = h
      BY <2>2, <2>3, <2>5, <3>1, <3>2 DEF RunOwner
    <3>3. CASE x # h
      BY <2>2, <2>3, <3>3 DEF RunOwner
    <3> QED
      BY <3>2, <3>3
  <2> QED
    BY <2>4, <2>5
<1>6. ASSUME NEW c \in Cpus, TaskletTest(c) PROVE RunOwner'
  <2>1. CASE count[cur[c]] = 0
    <3>1. UNCHANGED run /\ \A d \in Cpus, x \in Tasklets : RunBy(d, x)' <=> RunBy(d, x)
      BY <1>6, <2>1 DEF TaskletTest, RunBy
    <3> QED
      BY <3>1, RunSame
  <2>2. CASE count[cur[c]] # 0
    <3>1. RunBy(c, cur[c]) /\ cur[c] \in Tasklets
      BY <1>6 DEF TaskletTest, RunBy
    <3>2. \A x \in Tasklets : run'[x] <=> run[x] /\ x # cur[c]
      BY <1>6, <2>2, <3>1 DEF TaskletTest
    <3>3. \A d \in Cpus, x \in Tasklets : RunBy(d, x)' <=> RunBy(d, x) /\ d # c
      BY <1>6, <2>2, <3>1 DEF TaskletTest, RunBy
    <3>4. \A x \in Tasklets : RunBy(c, x) => x = cur[c]
      BY DEF RunBy
    <3> QED
      BY <3>1, <3>2, <3>3, <3>4 DEF RunOwner
  <2> QED
    BY <2>1, <2>2
<1>7. ASSUME NEW c \in Cpus, TaskletUnlock(c) PROVE RunOwner'
  <2>1. RunBy(c, cur[c]) /\ cur[c] \in Tasklets
    BY <1>7 DEF TaskletUnlock, RunBy
  <2>2. \A x \in Tasklets : run'[x] <=> run[x] /\ x # cur[c]
    BY <1>7, <2>1 DEF TaskletUnlock
  <2>3. \A d \in Cpus, x \in Tasklets : RunBy(d, x)' <=> RunBy(d, x) /\ d # c
    BY <1>7, <2>1 DEF TaskletUnlock, RunBy
  <2>4. \A x \in Tasklets : RunBy(c, x) => x = cur[c]
    BY DEF RunBy
  <2> QED
    BY <2>1, <2>2, <2>3, <2>4 DEF RunOwner
<1>8. ASSUME NEW c \in Cpus, TaskletRequeue(c) PROVE RunOwner'
  <2>1. UNCHANGED run /\ \A d \in Cpus, x \in Tasklets : RunBy(d, x)' <=> RunBy(d, x)
    BY <1>8 DEF TaskletRequeue, RunBy
  <2> QED
    BY <2>1, RunSame
<1>9. ASSUME NEW c \in Cpus, KPrepare(c) PROVE RunOwner'
  <2>1. UNCHANGED run /\ \A d \in Cpus, x \in Tasklets : RunBy(d, x)' <=> RunBy(d, x)
    BY <1>9 DEF KPrepare, RunBy
  <2> QED
    BY <2>1, RunSame
<1>10. ASSUME NEW c \in Cpus, KTest(c) PROVE RunOwner'
  <2>1. UNCHANGED run /\ \A d \in Cpus, x \in Tasklets : RunBy(d, x)' <=> RunBy(d, x)
    BY <1>10 DEF KTest, RunBy
  <2> QED
    BY <2>1, RunSame
<1>11. ASSUME NEW c \in Cpus, KSchedule(c) PROVE RunOwner'
  <2>1. UNCHANGED run /\ \A d \in Cpus, x \in Tasklets : RunBy(d, x)' <=> RunBy(d, x)
    BY <1>11 DEF KSchedule, RunBy
  <2> QED
    BY <2>1, RunSame
<1>12. ASSUME NEW c \in Cpus, KWork(c) PROVE RunOwner'
  <2>1. UNCHANGED run /\ \A d \in Cpus, x \in Tasklets : RunBy(d, x)' <=> RunBy(d, x)
    BY <1>12 DEF KWork, KRuns, DoSoftirq, Begin, RunBy
  <2> QED
    BY <2>1, RunSame
<1>13. ASSUME NEW c \in Cpus, HardIrq(c) PROVE RunOwner'
  <2>1. UNCHANGED run /\ \A d \in Cpus, x \in Tasklets : RunBy(d, x)' <=> RunBy(d, x)
    BY <1>13 DEF HardIrq, InInterrupt, IrqExit, Begin, RunBy
  <2> QED
    BY <2>1, RunSame
<1>14. ASSUME NEW c \in Cpus, NEW t \in Tasklets, FuncSchedules(c, t) PROVE RunOwner'
  <2>1. UNCHANGED run /\ \A d \in Cpus, x \in Tasklets : RunBy(d, x)' <=> RunBy(d, x)
    BY <1>14 DEF FuncSchedules, RunBy
  <2> QED
    BY <2>1, RunSame
<1>15. ASSUME NEW c \in Cpus, NEW t \in Tasklets, HardIrqSchedules(c, t) PROVE RunOwner'
  <2>1. UNCHANGED run /\ \A d \in Cpus, x \in Tasklets : RunBy(d, x)' <=> RunBy(d, x)
    BY <1>15 DEF HardIrqSchedules, InInterrupt, IrqExit, Begin, RunBy
  <2> QED
    BY <2>1, RunSame
<1>16. ASSUME NEW u \in Tasks, LocalBhEnable(u) PROVE RunOwner'
  <2>1. UNCHANGED run /\ \A d \in Cpus, x \in Tasklets : RunBy(d, x)' <=> RunBy(d, x)
    BY <1>16, SoftirqAssumption DEF LocalBhEnable, CanRun, CanRunOn, DoSoftirq, Begin, RunBy
  <2> QED
    BY <2>1, RunSame
<1>17. ASSUME NEW u \in Tasks, NEW c \in Cpus, TaskletScheduleQueue(u, c) PROVE RunOwner'
  <2>1. UNCHANGED run /\ \A d \in Cpus, x \in Tasklets : RunBy(d, x)' <=> RunBy(d, x)
    BY <1>17 DEF TaskletScheduleQueue, RunBy
  <2> QED
    BY <2>1, RunSame
<1>18. ASSUME NEW u \in Tasks, TaskletDisabled(u) PROVE RunOwner'
  <2>1. UNCHANGED run /\ \A d \in Cpus, x \in Tasklets : RunBy(d, x)' <=> RunBy(d, x)
    BY <1>18 DEF TaskletDisabled, RunBy
  <2> QED
    BY <2>1, RunSame
<1>19. ASSUME NEW u \in Tasks, TaskletEnable(u) PROVE RunOwner'
  <2>1. UNCHANGED run /\ \A d \in Cpus, x \in Tasklets : RunBy(d, x)' <=> RunBy(d, x)
    BY <1>19 DEF TaskletEnable, RunBy
  <2> QED
    BY <2>1, RunSame
<1>20. ASSUME NEW u \in Tasks, KillTakes(u) PROVE RunOwner'
  <2>1. UNCHANGED run /\ \A d \in Cpus, x \in Tasklets : RunBy(d, x)' <=> RunBy(d, x)
    BY <1>20 DEF KillTakes, RunBy
  <2> QED
    BY <2>1, RunSame
<1>21. ASSUME NEW u \in Tasks, KillWaits(u) PROVE RunOwner'
  <2>1. UNCHANGED run /\ \A d \in Cpus, x \in Tasklets : RunBy(d, x)' <=> RunBy(d, x)
    BY <1>21 DEF KillWaits, RunBy
  <2> QED
    BY <2>1, RunSame
<1>22. ASSUME NEW u \in Tasks, KillClears(u) PROVE RunOwner'
  <2>1. UNCHANGED run /\ \A d \in Cpus, x \in Tasklets : RunBy(d, x)' <=> RunBy(d, x)
    BY <1>22 DEF KillClears, RunBy
  <2> QED
    BY <2>1, RunSame
<1>23. ASSUME NEW u \in Tasks, NEW c \in Cpus, LocalBhDisable(u, c) PROVE RunOwner'
  <2>1. UNCHANGED run /\ \A d \in Cpus, x \in Tasklets : RunBy(d, x)' <=> RunBy(d, x)
    BY <1>23 DEF LocalBhDisable, RunBy
  <2> QED
    BY <2>1, RunSame
<1>24. ASSUME NEW u \in Tasks, NEW t \in Tasklets, TaskletSchedule(u, t) PROVE RunOwner'
  <2>1. UNCHANGED run /\ \A d \in Cpus, x \in Tasklets : RunBy(d, x)' <=> RunBy(d, x)
    BY <1>24 DEF TaskletSchedule, RunBy
  <2> QED
    BY <2>1, RunSame
<1>25. ASSUME NEW u \in Tasks, NEW t \in Tasklets, TaskletDisable(u, t) PROVE RunOwner'
  <2>1. UNCHANGED run /\ \A d \in Cpus, x \in Tasklets : RunBy(d, x)' <=> RunBy(d, x)
    BY <1>25 DEF TaskletDisable, RunBy
  <2> QED
    BY <2>1, RunSame
<1>26. ASSUME NEW u \in Tasks, NEW t \in Tasklets, TaskletKill(u, t) PROVE RunOwner'
  <2>1. UNCHANGED run /\ \A d \in Cpus, x \in Tasklets : RunBy(d, x)' <=> RunBy(d, x)
    BY <1>26 DEF TaskletKill, RunBy
  <2> QED
    BY <2>1, RunSame
<1> QED
  BY <1>1, <1>2, <1>3, <1>4, <1>5, <1>6, <1>7, <1>8, <1>9, <1>10, <1>11, <1>12,
     <1>13, <1>14, <1>15, <1>16, <1>17, <1>18, <1>19, <1>20, <1>21, <1>22,
     <1>23, <1>24, <1>25, <1>26
  DEF Next, SoftirqStep, Ksoftirqd, TaskStep

(* A step that moves nobody in or out of tasklet_disable.                  *)
LEMMA CountSame ==
  ASSUME CountExact, UNCHANGED count, \A t \in Tasklets : Disablers(t)' = Disablers(t)
  PROVE  CountExact'
BY DEF CountExact

LEMMA DisablersFinite ==
  \A t : IsFiniteSet(Disablers(t)) /\ Cardinality(Disablers(t)) \in Nat
<1>1. \A t : Disablers(t) \subseteq Tasks
  BY DEF Disablers
<1> QED
  BY <1>1, SoftirqAssumption, FS_Subset, FS_CardinalityType

(* tasklet_disable and tasklet_enable keep the count.                      *)
LEMMA CountStep ==
  ASSUME TypeOK, Shape, CountExact, [Next]_vars
  PROVE  CountExact'
<1> USE DEF TypeOK, Shape, Goto, SGoto, softirqVars, actionVars, kVars, taskVars
<1>1. CASE UNCHANGED vars
  BY <1>1, CountSame DEF vars, Disablers
<1>2. ASSUME NEW c \in Cpus, CallAction(c) PROVE CountExact'
  <2>1. UNCHANGED count /\ \A x \in Tasklets : Disablers(x)' = Disablers(x)
    BY <1>2 DEF CallAction, Disablers
  <2> QED
    BY <2>1, CountSame
<1>3. ASSUME NEW c \in Cpus, EndPass(c) PROVE CountExact'
  <2>1. UNCHANGED count /\ \A x \in Tasklets : Disablers(x)' = Disablers(x)
    BY <1>3 DEF EndPass, Disablers
  <2> QED
    BY <2>1, CountSame
<1>4. ASSUME NEW c \in Cpus, ListDone(c) PROVE CountExact'
  <2>1. UNCHANGED count /\ \A x \in Tasklets : Disablers(x)' = Disablers(x)
    BY <1>4 DEF ListDone, Disablers
  <2> QED
    BY <2>1, CountSame
<1>5. ASSUME NEW c \in Cpus, TaskletTrylock(c) PROVE CountExact'
  <2>1. UNCHANGED count /\ \A x \in Tasklets : Disablers(x)' = Disablers(x)
    BY <1>5 DEF TaskletTrylock, Disablers
  <2> QED
    BY <2>1, CountSame
<1>6. ASSUME NEW c \in Cpus, TaskletTest(c) PROVE CountExact'
  <2>1. UNCHANGED count /\ \A x \in Tasklets : Disablers(x)' = Disablers(x)
    BY <1>6 DEF TaskletTest, Disablers
  <2> QED
    BY <2>1, CountSame
<1>7. ASSUME NEW c \in Cpus, TaskletUnlock(c) PROVE CountExact'
  <2>1. UNCHANGED count /\ \A x \in Tasklets : Disablers(x)' = Disablers(x)
    BY <1>7 DEF TaskletUnlock, Disablers
  <2> QED
    BY <2>1, CountSame
<1>8. ASSUME NEW c \in Cpus, TaskletRequeue(c) PROVE CountExact'
  <2>1. UNCHANGED count /\ \A x \in Tasklets : Disablers(x)' = Disablers(x)
    BY <1>8 DEF TaskletRequeue, Disablers
  <2> QED
    BY <2>1, CountSame
<1>9. ASSUME NEW c \in Cpus, KPrepare(c) PROVE CountExact'
  <2>1. UNCHANGED count /\ \A x \in Tasklets : Disablers(x)' = Disablers(x)
    BY <1>9 DEF KPrepare, Disablers
  <2> QED
    BY <2>1, CountSame
<1>10. ASSUME NEW c \in Cpus, KTest(c) PROVE CountExact'
  <2>1. UNCHANGED count /\ \A x \in Tasklets : Disablers(x)' = Disablers(x)
    BY <1>10 DEF KTest, Disablers
  <2> QED
    BY <2>1, CountSame
<1>11. ASSUME NEW c \in Cpus, KSchedule(c) PROVE CountExact'
  <2>1. UNCHANGED count /\ \A x \in Tasklets : Disablers(x)' = Disablers(x)
    BY <1>11 DEF KSchedule, Disablers
  <2> QED
    BY <2>1, CountSame
<1>12. ASSUME NEW c \in Cpus, KWork(c) PROVE CountExact'
  <2>1. UNCHANGED count /\ \A x \in Tasklets : Disablers(x)' = Disablers(x)
    BY <1>12 DEF KWork, Disablers
  <2> QED
    BY <2>1, CountSame
<1>13. ASSUME NEW c \in Cpus, HardIrq(c) PROVE CountExact'
  <2>1. UNCHANGED count /\ \A x \in Tasklets : Disablers(x)' = Disablers(x)
    BY <1>13 DEF HardIrq, Disablers
  <2> QED
    BY <2>1, CountSame
<1>14. ASSUME NEW c \in Cpus, NEW t \in Tasklets, FuncSchedules(c, t) PROVE CountExact'
  <2>1. UNCHANGED count /\ \A x \in Tasklets : Disablers(x)' = Disablers(x)
    BY <1>14 DEF FuncSchedules, Disablers
  <2> QED
    BY <2>1, CountSame
<1>15. ASSUME NEW c \in Cpus, NEW t \in Tasklets, HardIrqSchedules(c, t) PROVE CountExact'
  <2>1. UNCHANGED count /\ \A x \in Tasklets : Disablers(x)' = Disablers(x)
    BY <1>15 DEF HardIrqSchedules, Disablers
  <2> QED
    BY <2>1, CountSame
<1>16. ASSUME NEW u \in Tasks, LocalBhEnable(u) PROVE CountExact'
  <2>1. UNCHANGED count /\ \A x \in Tasklets : Disablers(x)' = Disablers(x)
    BY <1>16 DEF LocalBhEnable, Disablers
  <2> QED
    BY <2>1, CountSame
<1>17. ASSUME NEW u \in Tasks, NEW c \in Cpus, TaskletScheduleQueue(u, c) PROVE CountExact'
  <2>1. UNCHANGED count /\ \A x \in Tasklets : Disablers(x)' = Disablers(x)
    BY <1>17 DEF TaskletScheduleQueue, Disablers
  <2> QED
    BY <2>1, CountSame
<1>18. ASSUME NEW u \in Tasks, TaskletDisabled(u) PROVE CountExact'
  <2>1. UNCHANGED count /\ \A x \in Tasklets : Disablers(x)' = Disablers(x)
    BY <1>18 DEF TaskletDisabled, Disablers
  <2> QED
    BY <2>1, CountSame
<1>19. ASSUME NEW u \in Tasks, TaskletEnable(u) PROVE CountExact'
  <2> DEFINE t == arg[u]
  <2>1. t \in Tasklets /\ u \in Disablers(t) /\ \A x \in Tasklets : Disablers(x)' = IF x = t THEN Disablers(t) \ {u} ELSE Disablers(x)
    BY <1>19 DEF TaskletEnable, Disablers
  <2>2. \A x \in Tasklets : count'[x] = IF x = t THEN count[t] - 1 ELSE count[x]
    BY <1>19 DEF TaskletEnable
  <2>3. Cardinality(Disablers(t) \ {u}) = Cardinality(Disablers(t)) - 1
    BY <2>1, DisablersFinite, CardRemove
  <2> QED
    BY <2>1, <2>2, <2>3 DEF CountExact
<1>20. ASSUME NEW u \in Tasks, KillTakes(u) PROVE CountExact'
  <2>1. UNCHANGED count /\ \A x \in Tasklets : Disablers(x)' = Disablers(x)
    BY <1>20 DEF KillTakes, Disablers
  <2> QED
    BY <2>1, CountSame
<1>21. ASSUME NEW u \in Tasks, KillWaits(u) PROVE CountExact'
  <2>1. UNCHANGED count /\ \A x \in Tasklets : Disablers(x)' = Disablers(x)
    BY <1>21 DEF KillWaits, Disablers
  <2> QED
    BY <2>1, CountSame
<1>22. ASSUME NEW u \in Tasks, KillClears(u) PROVE CountExact'
  <2>1. UNCHANGED count /\ \A x \in Tasklets : Disablers(x)' = Disablers(x)
    BY <1>22 DEF KillClears, Disablers
  <2> QED
    BY <2>1, CountSame
<1>23. ASSUME NEW u \in Tasks, NEW c \in Cpus, LocalBhDisable(u, c) PROVE CountExact'
  <2>1. UNCHANGED count /\ \A x \in Tasklets : Disablers(x)' = Disablers(x)
    BY <1>23 DEF LocalBhDisable, Disablers
  <2> QED
    BY <2>1, CountSame
<1>24. ASSUME NEW u \in Tasks, NEW t \in Tasklets, TaskletSchedule(u, t) PROVE CountExact'
  <2>1. UNCHANGED count /\ \A x \in Tasklets : Disablers(x)' = Disablers(x)
    BY <1>24 DEF TaskletSchedule, Disablers
  <2> QED
    BY <2>1, CountSame
<1>25. ASSUME NEW u \in Tasks, NEW t \in Tasklets, TaskletDisable(u, t) PROVE CountExact'
  <2>1. u \notin Disablers(t) /\ \A x \in Tasklets : Disablers(x)' = IF x = t THEN Disablers(t) \cup {u} ELSE Disablers(x)
    BY <1>25 DEF TaskletDisable, Disablers
  <2>2. \A x \in Tasklets : count'[x] = IF x = t THEN count[t] + 1 ELSE count[x]
    BY <1>25 DEF TaskletDisable
  <2>3. Cardinality(Disablers(t) \cup {u}) = Cardinality(Disablers(t)) + 1
    BY <2>1, DisablersFinite, CardAdd
  <2> QED
    BY <2>1, <2>2, <2>3 DEF CountExact
<1>26. ASSUME NEW u \in Tasks, NEW t \in Tasklets, TaskletKill(u, t) PROVE CountExact'
  <2>1. UNCHANGED count /\ \A x \in Tasklets : Disablers(x)' = Disablers(x)
    BY <1>26 DEF TaskletKill, Disablers
  <2> QED
    BY <2>1, CountSame
<1> QED
  BY <1>1, <1>2, <1>3, <1>4, <1>5, <1>6, <1>7, <1>8, <1>9, <1>10, <1>11, <1>12,
     <1>13, <1>14, <1>15, <1>16, <1>17, <1>18, <1>19, <1>20, <1>21, <1>22,
     <1>23, <1>24, <1>25, <1>26
  DEF Next, SoftirqStep, Ksoftirqd, TaskStep

(* A CPU enters func only with count 0 and the SCHED bit its own, so past  *)
(* their waits tasklet_disable and tasklet_kill keep it out.               *)
LEMMA QuietStep ==
  ASSUME TypeOK, Shape, OnePlace, RunOwner, CountExact, Quiet, [Next]_vars
  PROVE  Quiet'
<1> USE DEF TypeOK, Shape, Goto, SGoto, softirqVars, actionVars, kVars, taskVars
<1>1. CASE UNCHANGED vars
  BY <1>1 DEF vars, Quiet
<1>2. ASSUME NEW c \in Cpus, CallAction(c) PROVE Quiet'
  BY <1>2 DEF CallAction, Quiet
<1>3. ASSUME NEW c \in Cpus, EndPass(c) PROVE Quiet'
  BY <1>3 DEF EndPass, Begin, Quiet
<1>4. ASSUME NEW c \in Cpus, ListDone(c) PROVE Quiet'
  BY <1>4 DEF ListDone, Quiet
<1>5. ASSUME NEW c \in Cpus, TaskletTrylock(c) PROVE Quiet'
  BY <1>5 DEF TaskletTrylock, Quiet
<1>6. ASSUME NEW c \in Cpus, TaskletTest(c) PROVE Quiet'
  <2> SUFFICES ASSUME NEW u \in Tasks, NEW d \in Cpus,
                      pc[u] \in {"disabled", "kclear"}, spc'[d] = "func", cur[d] = arg[u]
               PROVE  FALSE
    BY <1>6 DEF TaskletTest, Quiet
  <2>1. d = c /\ count[cur[c]] = 0 /\ arg[u] = cur[c] /\ cur[c] \in Tasklets
    BY <1>6 DEF TaskletTest, Quiet
  <2>2. CASE pc[u] = "disabled"
    <3>1. u \in Disablers(cur[c])
      BY <2>1, <2>2 DEF Disablers
    <3> QED
      BY <2>1, <3>1, DisablersFinite, FS_EmptySet DEF CountExact
  <2>3. CASE pc[u] = "kclear"
    <3>1. Holds(u, cur[c]) /\ Taken(c, cur[c])
      BY <1>6, <2>1, <2>3 DEF TaskletTest, Holds, Taken
    <3> QED
      BY <2>1, <3>1 DEF OnePlace
  <2> QED
    BY <2>2, <2>3
<1>7. ASSUME NEW c \in Cpus, TaskletUnlock(c) PROVE Quiet'
  BY <1>7 DEF TaskletUnlock, Quiet
<1>8. ASSUME NEW c \in Cpus, TaskletRequeue(c) PROVE Quiet'
  BY <1>8 DEF TaskletRequeue, Quiet
<1>9. ASSUME NEW c \in Cpus, KPrepare(c) PROVE Quiet'
  BY <1>9 DEF KPrepare, Quiet
<1>10. ASSUME NEW c \in Cpus, KTest(c) PROVE Quiet'
  BY <1>10 DEF KTest, Quiet
<1>11. ASSUME NEW c \in Cpus, KSchedule(c) PROVE Quiet'
  BY <1>11 DEF KSchedule, Quiet
<1>12. ASSUME NEW c \in Cpus, KWork(c) PROVE Quiet'
  BY <1>12 DEF KWork, KRuns, DoSoftirq, Begin, Quiet
<1>13. ASSUME NEW c \in Cpus, HardIrq(c) PROVE Quiet'
  BY <1>13 DEF HardIrq, InInterrupt, IrqExit, Begin, Quiet
<1>14. ASSUME NEW c \in Cpus, NEW t \in Tasklets, FuncSchedules(c, t) PROVE Quiet'
  BY <1>14 DEF FuncSchedules, Quiet
<1>15. ASSUME NEW c \in Cpus, NEW t \in Tasklets, HardIrqSchedules(c, t) PROVE Quiet'
  BY <1>15 DEF HardIrqSchedules, InInterrupt, IrqExit, Begin, Quiet
<1>16. ASSUME NEW u \in Tasks, LocalBhEnable(u) PROVE Quiet'
  BY <1>16, SoftirqAssumption DEF LocalBhEnable, CanRun, CanRunOn, DoSoftirq, Begin, Quiet
<1>17. ASSUME NEW u \in Tasks, NEW c \in Cpus, TaskletScheduleQueue(u, c) PROVE Quiet'
  BY <1>17 DEF TaskletScheduleQueue, Quiet
<1>18. ASSUME NEW u \in Tasks, TaskletDisabled(u) PROVE Quiet'
  <2>1. \A c \in Cpus : spc[c] = "func" => cur[c] # arg[u]
    <3>1. \A c \in Cpus : ~RunBy(c, arg[u])
      BY <1>18 DEF TaskletDisabled, RunOwner
    <3> QED
      BY <3>1 DEF RunBy
  <2> QED
    BY <1>18, <2>1 DEF TaskletDisabled, Quiet
<1>19. ASSUME NEW u \in Tasks, TaskletEnable(u) PROVE Quiet'
  BY <1>19 DEF TaskletEnable, Quiet
<1>20. ASSUME NEW u \in Tasks, KillTakes(u) PROVE Quiet'
  BY <1>20 DEF KillTakes, Quiet
<1>21. ASSUME NEW u \in Tasks, KillWaits(u) PROVE Quiet'
  <2>1. \A c \in Cpus : spc[c] = "func" => cur[c] # arg[u]
    <3>1. \A c \in Cpus : ~RunBy(c, arg[u])
      BY <1>21 DEF KillWaits, RunOwner
    <3> QED
      BY <3>1 DEF RunBy
  <2> QED
    BY <1>21, <2>1 DEF KillWaits, Quiet
<1>22. ASSUME NEW u \in Tasks, KillClears(u) PROVE Quiet'
  BY <1>22 DEF KillClears, Quiet
<1>23. ASSUME NEW u \in Tasks, NEW c \in Cpus, LocalBhDisable(u, c) PROVE Quiet'
  BY <1>23 DEF LocalBhDisable, Quiet
<1>24. ASSUME NEW u \in Tasks, NEW t \in Tasklets, TaskletSchedule(u, t) PROVE Quiet'
  BY <1>24 DEF TaskletSchedule, Quiet
<1>25. ASSUME NEW u \in Tasks, NEW t \in Tasklets, TaskletDisable(u, t) PROVE Quiet'
  BY <1>25 DEF TaskletDisable, Quiet
<1>26. ASSUME NEW u \in Tasks, NEW t \in Tasklets, TaskletKill(u, t) PROVE Quiet'
  BY <1>26 DEF TaskletKill, Quiet
<1> QED
  BY <1>1, <1>2, <1>3, <1>4, <1>5, <1>6, <1>7, <1>8, <1>9, <1>10, <1>11, <1>12,
     <1>13, <1>14, <1>15, <1>16, <1>17, <1>18, <1>19, <1>20, <1>21, <1>22,
     <1>23, <1>24, <1>25, <1>26
  DEF Next, SoftirqStep, Ksoftirqd, TaskStep

-----------------------------------------------------------------------------
(* Every step preserves the invariant.                                     *)
LEMMA InvStep == ASSUME IInv, [Next]_vars PROVE IInv'
<1>1. TypeOK'
  BY TypeStep DEF IInv
<1>2. Served'
  BY ServedStep DEF IInv, Served
<1>3. Places'
  BY PlacesStep DEF IInv, Places
<1>4. RunOwner'
  BY RunStep DEF IInv
<1>5. CountExact'
  BY CountStep DEF IInv
<1>6. Quiet'
  BY QuietStep DEF IInv
<1> QED
  BY <1>1, <1>2, <1>3, <1>4, <1>5, <1>6 DEF IInv, Served, Places

(* The initial state satisfies the invariant.                              *)
LEMMA InitInv == Init => IInv
<1> SUFFICES ASSUME Init PROVE IInv
  OBVIOUS
<1>1. TypeOK
  BY SoftirqAssumption DEF Init, TypeOK
<1>2. Shape /\ Awake /\ PendingServed
  BY DEF Init, Shape, Awake, PendingServed
<1>3. Listed /\ \A c \in Cpus, t \in Tasklets :
                  ~InList(c, t) /\ ~Taken(c, t) /\ \A n \in Softirqs : ~InVec(c, n, t)
  BY ToSetEmpty DEF Init, Listed, InVec, InList, Taken
<1>4. \A u \in Tasks, t \in Tasklets : ~Holds(u, t)
  BY DEF Init, Holds
<1>5. SchedMeans /\ OnePlace
  BY <1>3, <1>4 DEF Init, SchedMeans, Somewhere, HeldByTask, OnePlace
<1>6. RunOwner /\ Quiet
  BY DEF Init, RunOwner, RunBy, Quiet
<1>7. CountExact
  <2>1. \A t \in Tasklets : Disablers(t) = {}
    BY DEF Init, Disablers
  <2> QED
    BY <2>1, FS_EmptySet DEF Init, CountExact
<1> QED
  BY <1>1, <1>2, <1>3, <1>5, <1>6, <1>7 DEF IInv

(* IInv is an invariant.                                                   *)
LEMMA Invariance == Spec => []IInv
<1>1. IInv /\ [Next]_vars => IInv'
  BY InvStep
<1> QED
  BY InitInv, <1>1, PTL DEF Spec

(* What Holders(t) consists of.                                            *)
LEMMA HolderKinds ==
  ASSUME NEW t, NEW h
  PROVE  h \in Holders(t) <=>
           \/ \E c \in Cpus, n \in Softirqs : \E i \in Occurs(vec[c][n], t) : h = <<c, "vec", n, i>>
           \/ \E c \in Cpus : \E i \in Occurs(list[c], t) : h = <<c, "list", i>>
           \/ \E c \in Cpus : Taken(c, t) /\ h = <<c, "cur">>
           \/ \E u \in Tasks : Holds(u, t) /\ h = <<u, "task">>
<1> DEFINE V(c, n) == {<<c, "vec", n, i>> : i \in Occurs(vec[c][n], t)}
           L(c) == {<<c, "list", i>> : i \in Occurs(list[c], t)}
           HV == UNION {V(c, n) : c \in Cpus, n \in Softirqs}
           HL == UNION {L(c) : c \in Cpus}
           HC == {<<c, "cur">> : c \in {d \in Cpus : spc[d] \in {"locked", "requeue"} /\ cur[d] = t}}
           HT == {<<u, "task">> : u \in {v \in Tasks : Holds(v, t)}}
<1>1. \A c, n : h \in V(c, n) <=> \E i \in Occurs(vec[c][n], t) : h = <<c, "vec", n, i>>
  OBVIOUS
<1>2. \A c : h \in L(c) <=> \E i \in Occurs(list[c], t) : h = <<c, "list", i>>
  OBVIOUS
<1>3. h \in HC <=> \E c \in Cpus : Taken(c, t) /\ h = <<c, "cur">>
  BY DEF Taken
<1>4. h \in HT <=> \E u \in Tasks : Holds(u, t) /\ h = <<u, "task">>
  OBVIOUS
<1>5. Holders(t) = HV \cup HL \cup HC \cup HT
  BY DEF Holders
<1> HIDE DEF V, L, HC, HT
<1>6. h \in HV <=> \E c \in Cpus, n \in Softirqs : h \in V(c, n)
  OBVIOUS
<1>7. h \in HL <=> \E c \in Cpus : h \in L(c)
  OBVIOUS
<1> HIDE DEF HV, HL
<1> QED
  BY <1>1, <1>2, <1>3, <1>4, <1>5, <1>6, <1>7

(* A list without duplicates holds a tasklet at one position or nowhere.   *)
LEMMA OccursOnce ==
  ASSUME NEW s \in Seq(Tasklets), Unique(s), NEW t
  PROVE  /\ t \in ToSet(s) <=> \E i : i \in Occurs(s, t)
         /\ \A i, j \in Occurs(s, t) : i = j
<1>1. DOMAIN s = 1..Len(s)
  BY LenProperties
<1> QED
  BY <1>1 DEF Occurs, ToSet, Unique

(* One place, said with the set of holders.                                *)
LEMMA HolderOnce ==
  ASSUME IInv, NEW t \in Tasklets
  PROVE  Cardinality(Holders(t)) = IF sched[t] THEN 1 ELSE 0
<1>1. \A c \in Cpus, n \in Softirqs :
        /\ InVec(c, n, t) <=> \E i : i \in Occurs(vec[c][n], t)
        /\ \A i, j \in Occurs(vec[c][n], t) : i = j
  BY OccursOnce DEF IInv, TypeOK, Listed, InVec
<1>2. \A c \in Cpus :
        /\ InList(c, t) <=> \E i : i \in Occurs(list[c], t)
        /\ \A i, j \in Occurs(list[c], t) : i = j
  BY OccursOnce DEF IInv, TypeOK, Listed, InList
<1>3. sched[t] <=> \E h : h \in Holders(t)
  <2>1. sched[t] <=> Somewhere(t)
    BY DEF IInv, SchedMeans
  <2>2. Somewhere(t) => \E h : h \in Holders(t)
    <3>1. \A c \in Cpus, n \in Softirqs : \A i \in Occurs(vec[c][n], t) : <<c, "vec", n, i>> \in Holders(t)
      BY HolderKinds
    <3>2. \A c \in Cpus : \A i \in Occurs(list[c], t) : <<c, "list", i>> \in Holders(t)
      BY HolderKinds
    <3>3. \A c \in Cpus : Taken(c, t) => <<c, "cur">> \in Holders(t)
      BY HolderKinds
    <3>4. \A u \in Tasks : Holds(u, t) => <<u, "task">> \in Holders(t)
      BY HolderKinds
    <3>5. \A c \in Cpus : (\E n \in Softirqs : InVec(c, n, t)) => \E h : h \in Holders(t)
      <4> SUFFICES ASSUME NEW c \in Cpus, NEW n \in Softirqs, InVec(c, n, t) PROVE \E h : h \in Holders(t)
        OBVIOUS
      <4>1. PICK i : i \in Occurs(vec[c][n], t)
        BY <1>1
      <4> QED
        BY <3>1, <4>1
    <3>6. \A c \in Cpus : InList(c, t) \/ Taken(c, t) => \E h : h \in Holders(t)
      <4> TAKE c \in Cpus
      <4>1. CASE InList(c, t)
        <5>1. PICK i : i \in Occurs(list[c], t)
          BY <1>2, <4>1
        <5> QED
          BY <3>2, <5>1
      <4>2. CASE Taken(c, t)
        BY <3>3, <4>2
      <4> QED
        BY <4>1, <4>2
    <3>7. HeldByTask(t) => \E h : h \in Holders(t)
      BY <3>4 DEF HeldByTask
    <3> QED
      BY <3>5, <3>6, <3>7 DEF Somewhere
  <2>3. (\E h : h \in Holders(t)) => Somewhere(t)
    BY <1>1, <1>2, HolderKinds DEF Somewhere, HeldByTask
  <2> QED
    BY <2>1, <2>2, <2>3
<1>4. ASSUME NEW h \in Holders(t), NEW k \in Holders(t) PROVE h = k
  <2>0. OnePlace!(t)
    BY DEF IInv, OnePlace
  <2>1. ASSUME NEW c \in Cpus, NEW n \in Softirqs, NEW i \in Occurs(vec[c][n], t), h = <<c, "vec", n, i>>
        PROVE  h = k
    BY <1>1, <1>2, <1>4, <2>0, <2>1, HolderKinds
  <2>2. ASSUME NEW c \in Cpus, NEW i \in Occurs(list[c], t), h = <<c, "list", i>>
        PROVE  h = k
    <3>1. InList(c, t)
      BY <1>2, <2>2
    <3>2. PICK d \in Cpus : \E j \in Occurs(list[d], t) : k = <<d, "list", j>>
      BY <1>1, <1>4, <2>0, <3>1, HolderKinds
    <3> QED
      BY <1>2, <2>0, <2>2, <3>1, <3>2
  <2>3. ASSUME NEW c \in Cpus, Taken(c, t), h = <<c, "cur">>
        PROVE  h = k
    BY <1>1, <1>2, <1>4, <2>0, <2>3, HolderKinds
  <2>4. ASSUME NEW u \in Tasks, Holds(u, t), h = <<u, "task">>
        PROVE  h = k
    BY <1>1, <1>2, <1>4, <2>0, <2>4, HolderKinds
  <2> QED
    BY <1>4, <2>1, <2>2, <2>3, <2>4, HolderKinds
<1>5. CASE sched[t]
  <2>1. PICK h : h \in Holders(t)
    BY <1>3, <1>5
  <2>2. Holders(t) = {h}
    BY <1>4, <2>1
  <2> QED
    BY <1>5, <2>2, FS_Singleton
<1>6. CASE ~sched[t]
  <2>1. Holders(t) = {}
    BY <1>3, <1>6
  <2> QED
    BY <1>6, <2>1, FS_EmptySet
<1> QED
  BY <1>5, <1>6

(* Every variable keeps its type; in particular no disable count and no    *)
(* restart count goes below 0.                                             *)
THEOREM TypeCorrect == Spec => []TypeOK
BY Invariance, PTL DEF IInv

(* The SCHED bit of a tasklet is set exactly while one list position, one  *)
(* CPU or one task has it, for any number of CPUs, tasks and tasklets: a   *)
(* tasklet is never linked twice through its next pointer.                 *)
THEOREM ScheduledOnce == Spec => []SchedHeldOnce
<1>1. IInv => SchedHeldOnce
  BY HolderOnce DEF SchedHeldOnce
<1> QED
  BY Invariance, <1>1, PTL

(* A tasklet runs on one CPU at a time, and on none after tasklet_disable  *)
(* or tasklet_kill has waited for it.                                      *)
THEOREM Exclusion == Spec => []Excluded
<1>1. IInv => Excluded
  BY DEF IInv, Excluded, RunOwner, RunBy, Quiet, Running
<1> QED
  BY Invariance, <1>1, PTL

(* What is pending on a CPU outside interrupts has a ksoftirqd that is     *)
(* awake or about to look.                                                 *)
THEOREM NothingForgotten == Spec => []PendingServed
BY Invariance, PTL DEF IInv
=============================================================================
