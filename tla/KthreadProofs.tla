---------------------------- MODULE KthreadProofs ----------------------------
(***************************************************************************)
(* Theorems about Kthread, for any number of clients and task structures.  *)
(*                                                                         *)
(* The argument has two parts.  Creation follows a kthread_create_info     *)
(* from the list through kthreadd to the new thread and back, and counts   *)
(* the references to task structures, and gives NoDangling.  Ownership     *)
(* says who may wake, stop or let go of a thread, and what                 *)
(* kthread_stop_info means, also while its k points to a structure that    *)
(* has been handed out again; it holds until a thread is misled by such a  *)
(* k, and gives the rest.                                                  *)
(***************************************************************************)
EXTENDS Kthread, KernelLemmas

(* Places of a client: with a thread it may start, stopping it, either.    *)
Owning   == {"has", "s_set"}
Stopping == {"s_wake", "s_wait"}
Having   == Owning \cup Stopping \cup {"stopped"}

(* A thread that has not left kthread()'s first schedule().                *)
Unstarted == {"start", "tell", "park"}

-----------------------------------------------------------------------------
(* Creation.                                                               *)

(* What kthreadd has in hand.                                              *)
Hands ==
  /\ create = None <=> kpc \in {"prep", "check", "sched", "run"}
  /\ pid # None => kpc \in {"wait", "sleep", "done"}
  /\ kpc \in {"wait", "sleep"} => pid # None
  /\ kpc = "done" => result[create] = IF pid = None THEN ENOMEM ELSE pid

(* A kthread_create_info is on the list, in kthreadd's hands or answered,  *)
(* and all the while its creator waits.                                    *)
Infos ==
  /\ Unique(createList)
  /\ \A c \in Clients :
       /\ c \in ToSet(createList) => /\ pc[c] = "c_wait" /\ c # create
                                     /\ done[c] = 0 /\ started[c] = 0 /\ result[c] = None
       /\ c = create => /\ pc[c] = "c_wait" /\ done[c] = 0
                        /\ kpc = "spawn" => started[c] = 0
                        /\ kpc # "done" => result[c] = None
       /\ done[c] \in {0, 1}
       /\ done[c] = 1 => pc[c] = "c_wait" /\ result[c] # None
       /\ result[c] # None => /\ pc[c] = "c_wait"
                              /\ done[c] = 1 \/ c = create

(* A new thread uses the kthread_create_info only while kthreadd waits for *)
(* it, and tells it once.                                                  *)
Newborn ==
  /\ \A t \in Threads : tpc[t] \in {"start", "tell"} =>
       pid = t /\ tcreate[t] = create /\ kpc \in {"wait", "sleep"}
  /\ kpc \in {"wait", "sleep"} =>
       started[create] = IF tpc[pid] \in {"start", "tell"} THEN 0 ELSE 1

(* kthread_stop_lock, and what a client knows when it has no thread.       *)
Locked ==
  \A c \in Clients :
    /\ stopLock = c <=> pc[c] \in Stopping \cup {"s_set"}
    /\ pc[c] \in Having => k[c] \in Threads
    /\ pc[c] \notin Having => k[c] = None /\ ~woken[c] /\ ~ran[c]

(* The reference of get_task_struct.                                       *)
Pinned(t) == \E c \in Clients : pc[c] \in {"s_set", "s_wake"} /\ k[c] = t

References ==
  \A t \in Threads : usage[t] = (IF tpc[t] = "dead" THEN 0 ELSE 1) + (IF Pinned(t) THEN 1 ELSE 0)

Creation == Hands /\ Infos /\ Newborn /\ Locked /\ References
CInv == TypeOK /\ Creation

-----------------------------------------------------------------------------
(* Ownership.                                                              *)

(* The thread a client is about to get, or has and has not told to stop.   *)
Mine(c, t) ==
  \/ c = create /\ t = pid
  \/ result[c] = t
  \/ k[c] = t /\ pc[c] \in Owning

(* Such a thread lives, is its creator's alone and does not end (a k that  *)
(* points to it is that of an earlier stop, and it has not looked at it);  *)
(* before its owner wakes it, it is parked or on its way there.            *)
Safe(c, t) ==
  /\ tcreate[t] = c /\ t \notin detached
  /\ tpc[t] \in Unstarted \cup Fn
  /\ stopK = t => tpc[t] \in Unstarted
  /\ ~woken[c] => /\ tpc[t] \in Unstarted
                  /\ tpc[t] # "start" => tstate[t] = "UNINTERRUPTIBLE"

Kept == \A c \in Clients, t \in Threads : Mine(c, t) => Safe(c, t)

(* The thread of a client in kthread_stop has not ended, or has done so    *)
(* once and left its result before it completed done; its structure may    *)
(* then be a new thread's, once kthread_stop has let go of it.             *)
Ending(c) ==
  \/ /\ stopDone = 0
     /\ tcreate[k[c]] = c /\ k[c] \notin detached
     /\ tpc[k[c]] \in {"park", "check", "report"} \cup Fn
  \/ /\ stopDone = 1
     /\ \/ tpc[k[c]] \in {"exit", "dead"}
        \/ tpc[k[c]] \in Unstarted /\ tcreate[k[c]] # c /\ pc[c] = "s_wait"
     /\ stopErr = IF ran[c] THEN k[c] ELSE EINTR

(* kthread_stop_info belongs to the client that owns the lock.             *)
StopInfo ==
  /\ \A t \in Threads : stopK = t => \E c \in Clients : pc[c] \in Stopping /\ k[c] = t
  /\ \A c \in Clients : pc[c] = "s_set" => stopDone = 0
  /\ \A c \in Clients : pc[c] \in Stopping => stopK = k[c] /\ Ending(c)

(* The local "ret" of kthread(), and err of kthread_stop_info.             *)
Returned(t) ==
  /\ tpc[t] \in Unstarted => ret[t] = EINTR
  /\ tpc[t] \in {"check", "report"} => ret[t] = t \/ (ret[t] = EINTR /\ stopK = t)
  /\ tpc[t] = "report" => stopK = t /\ stopErr = ret[t]

(* ran says whether threadfn was called.                                   *)
Recorded(c) ==
  /\ tpc[k[c]] \in Unstarted => ~ran[c]
  /\ tpc[k[c]] \in Fn => ran[c]
  /\ tpc[k[c]] \in {"check", "report"} => ret[k[c]] = IF ran[c] THEN k[c] ELSE EINTR

Results ==
  /\ \A t \in Threads : Returned(t)
  /\ \A c \in Clients : pc[c] \in Owning \cup Stopping /\ tcreate[k[c]] = c => Recorded(c)

Ownership == Kept /\ StopInfo /\ Results /\ StopResult

-----------------------------------------------------------------------------
(* A task structure in use, or pinned by kthread_stop, has a reference.    *)
LEMMA InUse ==
  ASSUME References, NEW t \in Threads
  PROVE  tpc[t] # "dead" \/ Pinned(t) => usage[t] >= 1
<1>1. usage[t] = (IF tpc[t] = "dead" THEN 0 ELSE 1) + (IF Pinned(t) THEN 1 ELSE 0)
  BY DEF References
<1>2. CASE tpc[t] = "dead"
  BY <1>1, <1>2
<1>3. CASE tpc[t] # "dead"
  BY <1>1, <1>3
<1> QED
  BY <1>2, <1>3

(* Types; usage never goes below zero.                                     *)
LEMMA TypeStep ==
  ASSUME TypeOK, Creation, [Next]_vars
  PROVE  TypeOK'
<1> USE DEF TypeOK, Fn
<1>1. CASE UNCHANGED vars
  BY <1>1 DEF vars
<1>2. ASSUME NEW c \in Clients, KthreadCreate(c) PROVE TypeOK'
  <2>1. Append(createList, c) \in Seq(Clients)
    BY AppendProperties
  <2> QED
    BY <1>2, <2>1 DEF KthreadCreate, Goto, threadVars, stopVars
<1>3. ASSUME NEW c \in Clients, CreateReturn(c) PROVE TypeOK'
  <2>1. done' \in [Clients -> Nat] /\ result' \in [Clients -> Threads \cup {None, ENOMEM}]
    BY <1>3 DEF CreateReturn
  <2>2. /\ k' \in [Clients -> Threads \cup {None}]
        /\ pc' \in [Clients -> {"idle", "c_wait", "has", "s_set", "s_wake", "s_wait", "stopped"}]
    <3>1. CASE result[c] = ENOMEM
      BY <1>3, <3>1 DEF CreateReturn, Goto
    <3>2. CASE result[c] # ENOMEM
      <4>1. result[c] \in Threads \cup {None}
        BY <3>2
      <4>2. k' = [k EXCEPT ![c] = result[c]] /\ pc' = [pc EXCEPT ![c] = "has"]
        BY <1>3, <3>2 DEF CreateReturn, Goto
      <4> QED
        BY <4>1, <4>2
    <3> QED
      BY <3>1, <3>2
  <2>3. UNCHANGED <<createList, kpc, kstate, create, pid, started, tpc, tstate, tcreate, ret, usage, detached,
                    stopK, stopErr, stopDone, stopLock, rv, woken, ran, misled>>
    BY <1>3 DEF CreateReturn, kthreaddVars, threadVars, stopVars
  <2> QED
    BY <2>1, <2>2, <2>3
<1>4. ASSUME NEW c \in Clients, WakeUpProcess(c) PROVE TypeOK'
  <2>1. /\ tstate' \in [Threads -> {"RUNNING", "INTERRUPTIBLE", "UNINTERRUPTIBLE"}]
        /\ woken' \in [Clients -> BOOLEAN]
    BY <1>4 DEF WakeUpProcess, WakeThread
  <2>2. UNCHANGED <<createList, kpc, kstate, create, pid, started, done, result, tpc, tcreate, ret, usage,
                    detached, stopK, stopErr, stopDone, stopLock, pc, k, rv, ran, misled>>
    BY <1>4 DEF WakeUpProcess, kthreaddVars, infoVars, stopVars
  <2> QED
    BY <2>1, <2>2
<1>5. ASSUME NEW c \in Clients, Detach(c) PROVE TypeOK'
  <2>1. k[c] \in Threads
    BY <1>5 DEF Detach, Creation, Locked, Having, Owning
  <2> QED
    BY <1>5, <2>1 DEF Detach, Forget, Goto, kthreaddVars, infoVars, stopVars
<1>6. ASSUME NEW c \in Clients, StopBegin(c) PROVE TypeOK'
  <2>1. k[c] \in Threads
    BY <1>6 DEF StopBegin, Creation, Locked, Having, Owning
  <2>2. usage[k[c]] + 1 \in Nat /\ usage' = [usage EXCEPT ![k[c]] = usage[k[c]] + 1]
    BY <1>6, <2>1 DEF StopBegin
  <2>3. usage' \in [Threads -> Nat]
    BY <2>2
  <2> QED
    BY <1>6, <2>3 DEF StopBegin, Goto, kthreaddVars, infoVars
<1>7. ASSUME NEW c \in Clients, StopSet(c) PROVE TypeOK'
  BY <1>7 DEF StopSet, Goto, kthreaddVars, infoVars, threadVars
<1>8. ASSUME NEW c \in Clients, StopWake(c) PROVE TypeOK'
  <2>1. k[c] \in Threads /\ Pinned(k[c])
    BY <1>8 DEF Creation, Locked, Pinned, Having, Stopping, StopWake
  <2>2. usage[k[c]] >= 1
    BY <2>1, InUse DEF Creation
  <2>3. usage' \in [Threads -> Nat]
    BY <1>8, <2>1, <2>2 DEF StopWake
  <2> QED
    BY <1>8, <2>1, <2>3 DEF StopWake, WakeThread, Goto, kthreaddVars, infoVars, stopVars
<1>9. ASSUME NEW c \in Clients, StopEnd(c) PROVE TypeOK'
  BY <1>9 DEF StopEnd, Goto, kthreaddVars, infoVars, threadVars
<1>10. ASSUME NEW c \in Clients, StopReturn(c) PROVE TypeOK'
  BY <1>10 DEF StopReturn, Forget, Goto, kthreaddVars, infoVars, threadVars, stopVars
<1>11. ASSUME KthreaddPrepare PROVE TypeOK'
  BY <1>11 DEF KthreaddPrepare, infoVars, threadVars, stopVars, clientVars
<1>12. ASSUME KthreaddCheck PROVE TypeOK'
  BY <1>12 DEF KthreaddCheck, infoVars, threadVars, stopVars, clientVars
<1>13. ASSUME KthreaddSchedule PROVE TypeOK'
  BY <1>13 DEF KthreaddSchedule, infoVars, threadVars, stopVars, clientVars
<1>14. ASSUME KthreaddTake PROVE TypeOK'
  <2>1. createList # <<>> => Head(createList) \in Clients /\ Tail(createList) \in Seq(Clients)
    BY HeadTailProperties
  <2> QED
    BY <1>14, <2>1 DEF KthreaddTake, infoVars, threadVars, stopVars, clientVars
<1>15. ASSUME KernelThreadFails PROVE TypeOK'
  BY <1>15 DEF KernelThreadFails, threadVars, stopVars, clientVars
<1>16. ASSUME StartedWait PROVE TypeOK'
  BY <1>16 DEF StartedWait, infoVars, threadVars, stopVars, clientVars
<1>17. ASSUME StartedWake PROVE TypeOK'
  BY <1>17 DEF StartedWake, infoVars, threadVars, stopVars, clientVars
<1>18. ASSUME FindTask PROVE TypeOK'
  <2>0. create \in Clients
    BY <1>18 DEF FindTask, Creation, Hands
  <2>1. started' \in [Clients -> Nat]
    <3>1. started[create] - 1 \in Nat /\ started' = [started EXCEPT ![create] = started[create] - 1]
      BY <1>18, <2>0 DEF FindTask
    <3> QED
      BY <3>1
  <2>2. result' \in [Clients -> Threads \cup {None, ENOMEM}]
    BY <1>18 DEF FindTask
  <2> QED
    BY <1>18, <2>1, <2>2 DEF FindTask, threadVars, stopVars, clientVars
<1>19. ASSUME CompleteDone PROVE TypeOK'
  <2>0. create \in Clients
    BY <1>19 DEF CompleteDone, Creation, Hands
  <2>1. done' = [done EXCEPT ![create] = done[create] + 1] /\ done[create] + 1 \in Nat
    BY <1>19, <2>0 DEF CompleteDone
  <2>2. done' \in [Clients -> Nat]
    BY <2>1
  <2> QED
    BY <1>19, <2>2 DEF CompleteDone, threadVars, stopVars
<1>20. ASSUME NEW t \in Threads, KernelThread(t) PROVE TypeOK'
  BY <1>20 DEF KernelThread, TGoto, infoVars, stopVars, clientVars
<1>21. ASSUME NEW t \in Threads, ThreadStart(t) PROVE TypeOK'
  BY <1>21 DEF ThreadStart, TGoto, kthreaddVars, infoVars, stopVars, clientVars
<1>22. ASSUME NEW t \in Threads, ThreadTell(t) PROVE TypeOK'
  <2>0. tcreate[t] \in Clients
    BY <1>22 DEF ThreadTell, Creation, Hands, Newborn
  <2>1. started' \in [Clients -> Nat]
    <3>1. started[tcreate[t]] + 1 \in Nat /\ started' = [started EXCEPT ![tcreate[t]] = started[tcreate[t]] + 1]
      BY <1>22, <2>0 DEF ThreadTell
    <3> QED
      BY <3>1
  <2>2. kstate' \in {"RUNNING", "INTERRUPTIBLE", "UNINTERRUPTIBLE"}
    BY <1>22 DEF ThreadTell
  <2>3. tpc' \in [Threads -> Fn \cup {"dead", "start", "tell", "park", "check", "report", "exit"}]
    BY <1>22 DEF ThreadTell, TGoto
  <2> QED
    BY <1>22, <2>1, <2>2, <2>3 DEF ThreadTell, stopVars, clientVars
<1>23. ASSUME NEW t \in Threads, ThreadRun(t) PROVE TypeOK'
  <2>1. ran' \in [Clients -> BOOLEAN] /\ misled' \in BOOLEAN
    BY <1>23 DEF ThreadRun
  <2>2. tpc' \in [Threads -> Fn \cup {"dead", "start", "tell", "park", "check", "report", "exit"}]
    <3>1. tpc' = [tpc EXCEPT ![t] = "check"] \/ tpc' = [tpc EXCEPT ![t] = "f_loop"]
      BY <1>23 DEF ThreadRun, TGoto
    <3> QED
      BY <3>1
  <2> QED
    BY <1>23, <2>1, <2>2 DEF ThreadRun, kthreaddVars, infoVars, stopVars
<1>24. ASSUME NEW t \in Threads, FnPrepare(t) PROVE TypeOK'
  BY <1>24 DEF FnPrepare, TGoto, kthreaddVars, infoVars, stopVars, clientVars
<1>25. ASSUME NEW t \in Threads, FnTest(t) PROVE TypeOK'
  <2>1. ret' \in [Threads -> Threads \cup {None, EINTR}]
    BY <1>25 DEF FnTest
  <2>2. tpc' \in [Threads -> Fn \cup {"dead", "start", "tell", "park", "check", "report", "exit"}]
    <3>1. tpc' = [tpc EXCEPT ![t] = "check"] \/ tpc' = [tpc EXCEPT ![t] = "f_sched"]
      BY <1>25 DEF FnTest, TGoto
    <3> QED
      BY <3>1
  <2>3. tstate' \in [Threads -> {"RUNNING", "INTERRUPTIBLE", "UNINTERRUPTIBLE"}]
    BY <1>25 DEF FnTest, WakeThread
  <2> QED
    BY <1>25, <2>1, <2>2, <2>3 DEF FnTest, kthreaddVars, infoVars, stopVars, clientVars
<1>26. ASSUME NEW t \in Threads, FnSchedule(t) PROVE TypeOK'
  BY <1>26 DEF FnSchedule, TGoto, kthreaddVars, infoVars, stopVars, clientVars
<1>27. ASSUME NEW t \in Threads, ThreadCheck(t) PROVE TypeOK'
  <2>1. tpc' = [tpc EXCEPT ![t] = "report"] \/ tpc' = [tpc EXCEPT ![t] = "exit"]
    BY <1>27 DEF ThreadCheck, TGoto
  <2>2. tpc' \in [Threads -> Fn \cup {"dead", "start", "tell", "park", "check", "report", "exit"}]
    BY <2>1
  <2>3. stopErr' \in Threads \cup {None, EINTR}
    BY <1>27 DEF ThreadCheck
  <2>4. UNCHANGED <<createList, kpc, kstate, create, pid, started, done, result, tstate, tcreate, ret, usage,
                    detached, stopK, stopDone, stopLock, pc, k, rv, woken, ran, misled>>
    BY <1>27 DEF ThreadCheck, kthreaddVars, infoVars, clientVars
  <2> QED
    BY <2>2, <2>3, <2>4
<1>28. ASSUME NEW t \in Threads, ThreadReport(t) PROVE TypeOK'
  BY <1>28 DEF ThreadReport, TGoto, kthreaddVars, infoVars
<1>29. ASSUME NEW t \in Threads, ThreadExit(t) PROVE TypeOK'
  <2>1. usage[t] >= 1
    <3>1. tpc[t] # "dead"
      BY <1>29 DEF ThreadExit
    <3> QED
      BY <3>1, InUse DEF Creation
  <2>2. usage' \in [Threads -> Nat]
    BY <1>29, <2>1 DEF ThreadExit
  <2> QED
    BY <1>29, <2>2 DEF ThreadExit, WakeThread, TGoto, kthreaddVars, infoVars, stopVars, clientVars
<1> QED
  BY <1>1, <1>2, <1>3, <1>4, <1>5, <1>6, <1>7, <1>8, <1>9, <1>10,
     <1>11, <1>12, <1>13, <1>14, <1>15, <1>16, <1>17, <1>18, <1>19, <1>20,
     <1>21, <1>22, <1>23, <1>24, <1>25, <1>26, <1>27, <1>28, <1>29
  DEF Next, ClientSteps, Kthreadd, ThreadSteps

-----------------------------------------------------------------------------
(* kthreadd's hands.                                                       *)
LEMMA HandsStep ==
  ASSUME TypeOK, Creation, [Next]_vars
  PROVE  Hands'
<1> USE KthreadAssumption DEF TypeOK, Creation, Hands
<1>1. CASE UNCHANGED vars
  BY <1>1 DEF vars
<1>2. ASSUME NEW c \in Clients, KthreadCreate(c) PROVE Hands'
  BY <1>2 DEF KthreadCreate, Goto, threadVars, stopVars
<1>3. ASSUME NEW c \in Clients, CreateReturn(c) PROVE Hands'
  BY <1>3 DEF CreateReturn, Goto, kthreaddVars, threadVars, stopVars, Infos
<1>4. ASSUME NEW c \in Clients, WakeUpProcess(c) PROVE Hands'
  BY <1>4 DEF WakeUpProcess, WakeThread, kthreaddVars, infoVars, stopVars
<1>5. ASSUME NEW c \in Clients, Detach(c) PROVE Hands'
  BY <1>5 DEF Detach, Forget, Goto, kthreaddVars, infoVars, stopVars
<1>6. ASSUME NEW c \in Clients, StopBegin(c) PROVE Hands'
  BY <1>6 DEF StopBegin, Goto, kthreaddVars, infoVars
<1>7. ASSUME NEW c \in Clients, StopSet(c) PROVE Hands'
  BY <1>7 DEF StopSet, Goto, kthreaddVars, infoVars, threadVars
<1>8. ASSUME NEW c \in Clients, StopWake(c) PROVE Hands'
  BY <1>8 DEF StopWake, WakeThread, Goto, kthreaddVars, infoVars, stopVars
<1>9. ASSUME NEW c \in Clients, StopEnd(c) PROVE Hands'
  BY <1>9 DEF StopEnd, Goto, kthreaddVars, infoVars, threadVars
<1>10. ASSUME NEW c \in Clients, StopReturn(c) PROVE Hands'
  BY <1>10 DEF StopReturn, Forget, Goto, kthreaddVars, infoVars, threadVars, stopVars
<1>11. ASSUME KthreaddPrepare PROVE Hands'
  BY <1>11 DEF KthreaddPrepare, infoVars, threadVars, stopVars, clientVars
<1>12. ASSUME KthreaddCheck PROVE Hands'
  BY <1>12 DEF KthreaddCheck, infoVars, threadVars, stopVars, clientVars
<1>13. ASSUME KthreaddSchedule PROVE Hands'
  BY <1>13 DEF KthreaddSchedule, infoVars, threadVars, stopVars, clientVars
<1>14. ASSUME KthreaddTake PROVE Hands'
  BY <1>14 DEF KthreaddTake, infoVars, threadVars, stopVars, clientVars
<1>15. ASSUME KernelThreadFails PROVE Hands'
  BY <1>15 DEF KernelThreadFails, threadVars, stopVars, clientVars
<1>16. ASSUME StartedWait PROVE Hands'
  BY <1>16 DEF StartedWait, infoVars, threadVars, stopVars, clientVars
<1>17. ASSUME StartedWake PROVE Hands'
  BY <1>17 DEF StartedWake, infoVars, threadVars, stopVars, clientVars
<1>18. ASSUME FindTask PROVE Hands'
  BY <1>18 DEF FindTask, threadVars, stopVars, clientVars
<1>19. ASSUME CompleteDone PROVE Hands'
  BY <1>19 DEF CompleteDone, threadVars, stopVars
<1>20. ASSUME NEW t \in Threads, KernelThread(t) PROVE Hands'
  BY <1>20 DEF KernelThread, TGoto, infoVars, stopVars, clientVars
<1>21. ASSUME NEW t \in Threads, ThreadStart(t) PROVE Hands'
  BY <1>21 DEF ThreadStart, TGoto, kthreaddVars, infoVars, stopVars, clientVars
<1>22. ASSUME NEW t \in Threads, ThreadTell(t) PROVE Hands'
  BY <1>22 DEF ThreadTell, TGoto, stopVars, clientVars
<1>23. ASSUME NEW t \in Threads, ThreadRun(t) PROVE Hands'
  BY <1>23 DEF ThreadRun, KthreadShouldStop, TGoto, kthreaddVars, infoVars, stopVars
<1>24. ASSUME NEW t \in Threads, FnPrepare(t) PROVE Hands'
  BY <1>24 DEF FnPrepare, TGoto, kthreaddVars, infoVars, stopVars, clientVars
<1>25. ASSUME NEW t \in Threads, FnTest(t) PROVE Hands'
  BY <1>25 DEF FnTest, WakeThread, KthreadShouldStop, TGoto, kthreaddVars, infoVars, stopVars, clientVars
<1>26. ASSUME NEW t \in Threads, FnSchedule(t) PROVE Hands'
  BY <1>26 DEF FnSchedule, TGoto, kthreaddVars, infoVars, stopVars, clientVars
<1>27. ASSUME NEW t \in Threads, ThreadCheck(t) PROVE Hands'
  BY <1>27 DEF ThreadCheck, KthreadShouldStop, TGoto, kthreaddVars, infoVars, clientVars
<1>28. ASSUME NEW t \in Threads, ThreadReport(t) PROVE Hands'
  BY <1>28 DEF ThreadReport, TGoto, kthreaddVars, infoVars
<1>29. ASSUME NEW t \in Threads, ThreadExit(t) PROVE Hands'
  BY <1>29 DEF ThreadExit, WakeThread, TGoto, kthreaddVars, infoVars, stopVars, clientVars
<1> QED
  BY <1>1, <1>2, <1>3, <1>4, <1>5, <1>6, <1>7, <1>8, <1>9, <1>10,
     <1>11, <1>12, <1>13, <1>14, <1>15, <1>16, <1>17, <1>18, <1>19, <1>20,
     <1>21, <1>22, <1>23, <1>24, <1>25, <1>26, <1>27, <1>28, <1>29
  DEF Next, ClientSteps, Kthreadd, ThreadSteps

(* Clients that have, want or stop a thread.                               *)
LEMMA LockedStep ==
  ASSUME TypeOK, Creation, [Next]_vars
  PROVE  Locked'
<1> USE KthreadAssumption DEF TypeOK, Creation, Locked, Having, Owning, Stopping
<1>1. CASE UNCHANGED vars
  BY <1>1 DEF vars
<1>2. ASSUME NEW c \in Clients, KthreadCreate(c) PROVE Locked'
  BY <1>2 DEF KthreadCreate, Goto, threadVars, stopVars
<1>3. ASSUME NEW c \in Clients, CreateReturn(c) PROVE Locked'
  <2>1. /\ pc[c] = "c_wait" /\ result[c] # None /\ UNCHANGED <<stopLock, woken, ran>>
        /\ result[c] # ENOMEM => result[c] \in Threads
        /\ ~woken[c] /\ ~ran[c] /\ k[c] = None
    <3>1. pc[c] = "c_wait" /\ done[c] = 1 /\ UNCHANGED <<stopLock, woken, ran>>
      BY <1>3 DEF CreateReturn, Infos, stopVars
    <3>2. ~woken[c] /\ ~ran[c] /\ k[c] = None
      BY <3>1
    <3>3. result[c] # None
      BY <3>1 DEF Infos
    <3> QED
      BY <3>1, <3>2, <3>3
  <2>2. CASE result[c] = ENOMEM
    <3>1. pc' = [pc EXCEPT ![c] = "idle"] /\ k' = k
      BY <1>3, <2>2 DEF CreateReturn, Goto
    <3> QED
      BY <2>1, <3>1
  <2>3. CASE result[c] # ENOMEM
    <3>1. pc' = [pc EXCEPT ![c] = "has"] /\ k' = [k EXCEPT ![c] = result[c]]
      BY <1>3, <2>3 DEF CreateReturn, Goto
    <3> QED
      BY <2>1, <2>3, <3>1
  <2> QED
    BY <2>2, <2>3
<1>4. ASSUME NEW c \in Clients, WakeUpProcess(c) PROVE Locked'
  BY <1>4 DEF WakeUpProcess, WakeThread, kthreaddVars, infoVars, stopVars
<1>5. ASSUME NEW c \in Clients, Detach(c) PROVE Locked'
  BY <1>5 DEF Detach, Forget, Goto, kthreaddVars, infoVars, stopVars
<1>6. ASSUME NEW c \in Clients, StopBegin(c) PROVE Locked'
  BY <1>6 DEF StopBegin, Goto, kthreaddVars, infoVars
<1>7. ASSUME NEW c \in Clients, StopSet(c) PROVE Locked'
  BY <1>7 DEF StopSet, Goto, kthreaddVars, infoVars, threadVars
<1>8. ASSUME NEW c \in Clients, StopWake(c) PROVE Locked'
  BY <1>8 DEF StopWake, WakeThread, Goto, kthreaddVars, infoVars, stopVars
<1>9. ASSUME NEW c \in Clients, StopEnd(c) PROVE Locked'
  BY <1>9 DEF StopEnd, Goto, kthreaddVars, infoVars, threadVars
<1>10. ASSUME NEW c \in Clients, StopReturn(c) PROVE Locked'
  BY <1>10 DEF StopReturn, Forget, Goto, kthreaddVars, infoVars, threadVars, stopVars
<1>11. ASSUME KthreaddPrepare PROVE Locked'
  BY <1>11 DEF KthreaddPrepare, infoVars, threadVars, stopVars, clientVars
<1>12. ASSUME KthreaddCheck PROVE Locked'
  BY <1>12 DEF KthreaddCheck, infoVars, threadVars, stopVars, clientVars
<1>13. ASSUME KthreaddSchedule PROVE Locked'
  BY <1>13 DEF KthreaddSchedule, infoVars, threadVars, stopVars, clientVars
<1>14. ASSUME KthreaddTake PROVE Locked'
  BY <1>14 DEF KthreaddTake, infoVars, threadVars, stopVars, clientVars
<1>15. ASSUME KernelThreadFails PROVE Locked'
  BY <1>15 DEF KernelThreadFails, threadVars, stopVars, clientVars
<1>16. ASSUME StartedWait PROVE Locked'
  BY <1>16 DEF StartedWait, infoVars, threadVars, stopVars, clientVars
<1>17. ASSUME StartedWake PROVE Locked'
  BY <1>17 DEF StartedWake, infoVars, threadVars, stopVars, clientVars
<1>18. ASSUME FindTask PROVE Locked'
  BY <1>18 DEF FindTask, threadVars, stopVars, clientVars
<1>19. ASSUME CompleteDone PROVE Locked'
  BY <1>19 DEF CompleteDone, threadVars, stopVars
<1>20. ASSUME NEW t \in Threads, KernelThread(t) PROVE Locked'
  BY <1>20 DEF KernelThread, TGoto, infoVars, stopVars, clientVars
<1>21. ASSUME NEW t \in Threads, ThreadStart(t) PROVE Locked'
  BY <1>21 DEF ThreadStart, TGoto, kthreaddVars, infoVars, stopVars, clientVars
<1>22. ASSUME NEW t \in Threads, ThreadTell(t) PROVE Locked'
  BY <1>22 DEF ThreadTell, TGoto, stopVars, clientVars
<1>23. ASSUME NEW t \in Threads, ThreadRun(t) PROVE Locked'
  <2>1. UNCHANGED <<stopLock, pc, k, woken>>
    BY <1>23 DEF ThreadRun, stopVars
  <2>2. \A c \in Clients : ran'[c] => ran[c] \/ k[c] = t
    BY <1>23 DEF ThreadRun
  <2> QED
    BY <2>1, <2>2
<1>24. ASSUME NEW t \in Threads, FnPrepare(t) PROVE Locked'
  BY <1>24 DEF FnPrepare, TGoto, kthreaddVars, infoVars, stopVars, clientVars
<1>25. ASSUME NEW t \in Threads, FnTest(t) PROVE Locked'
  BY <1>25 DEF FnTest, WakeThread, KthreadShouldStop, TGoto, kthreaddVars, infoVars, stopVars, clientVars
<1>26. ASSUME NEW t \in Threads, FnSchedule(t) PROVE Locked'
  BY <1>26 DEF FnSchedule, TGoto, kthreaddVars, infoVars, stopVars, clientVars
<1>27. ASSUME NEW t \in Threads, ThreadCheck(t) PROVE Locked'
  BY <1>27 DEF ThreadCheck, KthreadShouldStop, TGoto, kthreaddVars, infoVars, clientVars
<1>28. ASSUME NEW t \in Threads, ThreadReport(t) PROVE Locked'
  BY <1>28 DEF ThreadReport, TGoto, kthreaddVars, infoVars
<1>29. ASSUME NEW t \in Threads, ThreadExit(t) PROVE Locked'
  BY <1>29 DEF ThreadExit, WakeThread, TGoto, kthreaddVars, infoVars, stopVars, clientVars
<1> QED
  BY <1>1, <1>2, <1>3, <1>4, <1>5, <1>6, <1>7, <1>8, <1>9, <1>10,
     <1>11, <1>12, <1>13, <1>14, <1>15, <1>16, <1>17, <1>18, <1>19, <1>20,
     <1>21, <1>22, <1>23, <1>24, <1>25, <1>26, <1>27, <1>28, <1>29
  DEF Next, ClientSteps, Kthreadd, ThreadSteps

(* New threads.                                                            *)
LEMMA NewbornStep ==
  ASSUME TypeOK, Creation, [Next]_vars
  PROVE  Newborn'
<1> USE KthreadAssumption DEF TypeOK, Creation, Newborn, Hands
<1>1. CASE UNCHANGED vars
  BY <1>1 DEF vars
<1>2. ASSUME NEW c \in Clients, KthreadCreate(c) PROVE Newborn'
  BY <1>2 DEF KthreadCreate, Goto, threadVars, stopVars, Infos
<1>3. ASSUME NEW c \in Clients, CreateReturn(c) PROVE Newborn'
  BY <1>3 DEF CreateReturn, Goto, kthreaddVars, threadVars, stopVars
<1>4. ASSUME NEW c \in Clients, WakeUpProcess(c) PROVE Newborn'
  BY <1>4 DEF WakeUpProcess, WakeThread, kthreaddVars, infoVars, stopVars
<1>5. ASSUME NEW c \in Clients, Detach(c) PROVE Newborn'
  BY <1>5 DEF Detach, Forget, Goto, kthreaddVars, infoVars, stopVars
<1>6. ASSUME NEW c \in Clients, StopBegin(c) PROVE Newborn'
  BY <1>6 DEF StopBegin, Goto, kthreaddVars, infoVars
<1>7. ASSUME NEW c \in Clients, StopSet(c) PROVE Newborn'
  BY <1>7 DEF StopSet, Goto, kthreaddVars, infoVars, threadVars
<1>8. ASSUME NEW c \in Clients, StopWake(c) PROVE Newborn'
  BY <1>8 DEF StopWake, WakeThread, Goto, kthreaddVars, infoVars, stopVars
<1>9. ASSUME NEW c \in Clients, StopEnd(c) PROVE Newborn'
  BY <1>9 DEF StopEnd, Goto, kthreaddVars, infoVars, threadVars
<1>10. ASSUME NEW c \in Clients, StopReturn(c) PROVE Newborn'
  BY <1>10 DEF StopReturn, Forget, Goto, kthreaddVars, infoVars, threadVars, stopVars
<1>11. ASSUME KthreaddPrepare PROVE Newborn'
  BY <1>11 DEF KthreaddPrepare, infoVars, threadVars, stopVars, clientVars
<1>12. ASSUME KthreaddCheck PROVE Newborn'
  BY <1>12 DEF KthreaddCheck, infoVars, threadVars, stopVars, clientVars
<1>13. ASSUME KthreaddSchedule PROVE Newborn'
  BY <1>13 DEF KthreaddSchedule, infoVars, threadVars, stopVars, clientVars
<1>14. ASSUME KthreaddTake PROVE Newborn'
  BY <1>14 DEF KthreaddTake, infoVars, threadVars, stopVars, clientVars
<1>15. ASSUME KernelThreadFails PROVE Newborn'
  BY <1>15 DEF KernelThreadFails, threadVars, stopVars, clientVars
<1>16. ASSUME StartedWait PROVE Newborn'
  BY <1>16 DEF StartedWait, infoVars, threadVars, stopVars, clientVars
<1>17. ASSUME StartedWake PROVE Newborn'
  BY <1>17 DEF StartedWake, infoVars, threadVars, stopVars, clientVars
<1>18. ASSUME FindTask PROVE Newborn'
  BY <1>18 DEF FindTask, threadVars, stopVars, clientVars
<1>19. ASSUME CompleteDone PROVE Newborn'
  BY <1>19 DEF CompleteDone, threadVars, stopVars
<1>20. ASSUME NEW t \in Threads, KernelThread(t) PROVE Newborn'
  BY <1>20 DEF KernelThread, TGoto, infoVars, stopVars, clientVars, Infos
<1>21. ASSUME NEW t \in Threads, ThreadStart(t) PROVE Newborn'
  BY <1>21 DEF ThreadStart, TGoto, kthreaddVars, infoVars, stopVars, clientVars
<1>22. ASSUME NEW t \in Threads, ThreadTell(t) PROVE Newborn'
  BY <1>22 DEF ThreadTell, TGoto, stopVars, clientVars
<1>23. ASSUME NEW t \in Threads, ThreadRun(t) PROVE Newborn'
  BY <1>23 DEF ThreadRun, KthreadShouldStop, TGoto, kthreaddVars, infoVars, stopVars
<1>24. ASSUME NEW t \in Threads, FnPrepare(t) PROVE Newborn'
  BY <1>24 DEF FnPrepare, TGoto, kthreaddVars, infoVars, stopVars, clientVars
<1>25. ASSUME NEW t \in Threads, FnTest(t) PROVE Newborn'
  BY <1>25 DEF FnTest, WakeThread, KthreadShouldStop, TGoto, kthreaddVars, infoVars, stopVars, clientVars
<1>26. ASSUME NEW t \in Threads, FnSchedule(t) PROVE Newborn'
  BY <1>26 DEF FnSchedule, TGoto, kthreaddVars, infoVars, stopVars, clientVars
<1>27. ASSUME NEW t \in Threads, ThreadCheck(t) PROVE Newborn'
  BY <1>27 DEF ThreadCheck, KthreadShouldStop, TGoto, kthreaddVars, infoVars, clientVars
<1>28. ASSUME NEW t \in Threads, ThreadReport(t) PROVE Newborn'
  BY <1>28 DEF ThreadReport, TGoto, kthreaddVars, infoVars
<1>29. ASSUME NEW t \in Threads, ThreadExit(t) PROVE Newborn'
  BY <1>29 DEF ThreadExit, WakeThread, TGoto, kthreaddVars, infoVars, stopVars, clientVars
<1> QED
  BY <1>1, <1>2, <1>3, <1>4, <1>5, <1>6, <1>7, <1>8, <1>9, <1>10,
     <1>11, <1>12, <1>13, <1>14, <1>15, <1>16, <1>17, <1>18, <1>19, <1>20,
     <1>21, <1>22, <1>23, <1>24, <1>25, <1>26, <1>27, <1>28, <1>29
  DEF Next, ClientSteps, Kthreadd, ThreadSteps

(* The kthread_create_infos.                                               *)
LEMMA InfosStep ==
  ASSUME TypeOK, Creation, [Next]_vars
  PROVE  Infos'
<1> USE KthreadAssumption DEF TypeOK, Creation, Infos, Hands
<1>1. CASE UNCHANGED vars
  BY <1>1 DEF vars
<1>2. ASSUME NEW c \in Clients, KthreadCreate(c) PROVE Infos'
  <2>1. pc[c] = "idle" /\ c \notin ToSet(createList) /\ c # create /\ done[c] = 0 /\ result[c] = None
    BY <1>2 DEF KthreadCreate
  <2>2. Unique(createList') /\ ToSet(createList') = ToSet(createList) \cup {c}
    BY <1>2, <2>1, AppendElems DEF KthreadCreate
  <2>3. /\ pc' = [pc EXCEPT ![c] = "c_wait"] /\ started' = [started EXCEPT ![c] = 0] /\ done' = [done EXCEPT ![c] = 0]
        /\ UNCHANGED <<kpc, create, result>>
    BY <1>2 DEF KthreadCreate, Goto
  <2> QED
    BY <2>1, <2>2, <2>3
<1>3. ASSUME NEW c \in Clients, CreateReturn(c) PROVE Infos'
  BY <1>3 DEF CreateReturn, Goto, kthreaddVars, threadVars, stopVars
<1>4. ASSUME NEW c \in Clients, WakeUpProcess(c) PROVE Infos'
  BY <1>4 DEF WakeUpProcess, WakeThread, kthreaddVars, infoVars, stopVars
<1>5. ASSUME NEW c \in Clients, Detach(c) PROVE Infos'
  BY <1>5 DEF Detach, Forget, Goto, kthreaddVars, infoVars, stopVars
<1>6. ASSUME NEW c \in Clients, StopBegin(c) PROVE Infos'
  BY <1>6 DEF StopBegin, Goto, kthreaddVars, infoVars
<1>7. ASSUME NEW c \in Clients, StopSet(c) PROVE Infos'
  BY <1>7 DEF StopSet, Goto, kthreaddVars, infoVars, threadVars
<1>8. ASSUME NEW c \in Clients, StopWake(c) PROVE Infos'
  BY <1>8 DEF StopWake, WakeThread, Goto, kthreaddVars, infoVars, stopVars
<1>9. ASSUME NEW c \in Clients, StopEnd(c) PROVE Infos'
  BY <1>9 DEF StopEnd, Goto, kthreaddVars, infoVars, threadVars
<1>10. ASSUME NEW c \in Clients, StopReturn(c) PROVE Infos'
  BY <1>10 DEF StopReturn, Forget, Goto, kthreaddVars, infoVars, threadVars, stopVars
<1>11. ASSUME KthreaddPrepare PROVE Infos'
  BY <1>11 DEF KthreaddPrepare, infoVars, threadVars, stopVars, clientVars
<1>12. ASSUME KthreaddCheck PROVE Infos'
  BY <1>12 DEF KthreaddCheck, infoVars, threadVars, stopVars, clientVars
<1>13. ASSUME KthreaddSchedule PROVE Infos'
  BY <1>13 DEF KthreaddSchedule, infoVars, threadVars, stopVars, clientVars
<1>14. ASSUME KthreaddTake PROVE Infos'
  <2>0. UNCHANGED <<pc, started, done, result>>
    BY <1>14 DEF KthreaddTake, infoVars, clientVars
  <2>1. CASE createList = <<>>
    BY <1>14, <2>0, <2>1 DEF KthreaddTake
  <2>2. CASE createList # <<>>
    <3>1. /\ create' = Head(createList) /\ kpc' = "spawn"
          /\ createList' = Tail(createList)
      BY <1>14, <2>2 DEF KthreaddTake
    <3>2. /\ Unique(createList') /\ create' \in ToSet(createList)
          /\ ToSet(createList') = ToSet(createList) \ {create'}
      BY <2>2, <3>1, TailElems
    <3>3. create = None
      BY <1>14 DEF KthreaddTake
    <3> QED
      BY <2>0, <3>1, <3>2, <3>3
  <2> QED
    BY <2>1, <2>2
<1>15. ASSUME KernelThreadFails PROVE Infos'
  BY <1>15 DEF KernelThreadFails, threadVars, stopVars, clientVars
<1>16. ASSUME StartedWait PROVE Infos'
  BY <1>16 DEF StartedWait, infoVars, threadVars, stopVars, clientVars
<1>17. ASSUME StartedWake PROVE Infos'
  BY <1>17 DEF StartedWake, infoVars, threadVars, stopVars, clientVars
<1>18. ASSUME FindTask PROVE Infos'
  BY <1>18 DEF FindTask, threadVars, stopVars, clientVars
<1>19. ASSUME CompleteDone PROVE Infos'
  BY <1>19 DEF CompleteDone, threadVars, stopVars
<1>20. ASSUME NEW t \in Threads, KernelThread(t) PROVE Infos'
  BY <1>20 DEF KernelThread, TGoto, infoVars, stopVars, clientVars
<1>21. ASSUME NEW t \in Threads, ThreadStart(t) PROVE Infos'
  BY <1>21 DEF ThreadStart, TGoto, kthreaddVars, infoVars, stopVars, clientVars
<1>22. ASSUME NEW t \in Threads, ThreadTell(t) PROVE Infos'
  <2>1. /\ tcreate[t] = create /\ create \in Clients /\ kpc \in {"wait", "sleep"}
        /\ started' = [started EXCEPT ![create] = @ + 1]
        /\ UNCHANGED <<createList, kpc, create, pc, done, result>>
    BY <1>22 DEF ThreadTell, Newborn, clientVars
  <2> QED
    BY <2>1
<1>23. ASSUME NEW t \in Threads, ThreadRun(t) PROVE Infos'
  BY <1>23 DEF ThreadRun, KthreadShouldStop, TGoto, kthreaddVars, infoVars, stopVars
<1>24. ASSUME NEW t \in Threads, FnPrepare(t) PROVE Infos'
  BY <1>24 DEF FnPrepare, TGoto, kthreaddVars, infoVars, stopVars, clientVars
<1>25. ASSUME NEW t \in Threads, FnTest(t) PROVE Infos'
  BY <1>25 DEF FnTest, WakeThread, KthreadShouldStop, TGoto, kthreaddVars, infoVars, stopVars, clientVars
<1>26. ASSUME NEW t \in Threads, FnSchedule(t) PROVE Infos'
  BY <1>26 DEF FnSchedule, TGoto, kthreaddVars, infoVars, stopVars, clientVars
<1>27. ASSUME NEW t \in Threads, ThreadCheck(t) PROVE Infos'
  BY <1>27 DEF ThreadCheck, KthreadShouldStop, TGoto, kthreaddVars, infoVars, clientVars
<1>28. ASSUME NEW t \in Threads, ThreadReport(t) PROVE Infos'
  BY <1>28 DEF ThreadReport, TGoto, kthreaddVars, infoVars
<1>29. ASSUME NEW t \in Threads, ThreadExit(t) PROVE Infos'
  BY <1>29 DEF ThreadExit, WakeThread, TGoto, kthreaddVars, infoVars, stopVars, clientVars
<1> QED
  BY <1>1, <1>2, <1>3, <1>4, <1>5, <1>6, <1>7, <1>8, <1>9, <1>10,
     <1>11, <1>12, <1>13, <1>14, <1>15, <1>16, <1>17, <1>18, <1>19, <1>20,
     <1>21, <1>22, <1>23, <1>24, <1>25, <1>26, <1>27, <1>28, <1>29
  DEF Next, ClientSteps, Kthreadd, ThreadSteps

(* A step that neither starts nor ends a thread, nor a pin.                *)
LEMMA ReferencesSame ==
  ASSUME References, usage' = usage,
         \A t \in Threads : tpc'[t] = "dead" <=> tpc[t] = "dead",
         \A c \in Clients : /\ pc'[c] \in {"s_set", "s_wake"} <=> pc[c] \in {"s_set", "s_wake"}
                            /\ pc[c] \in {"s_set", "s_wake"} => k'[c] = k[c]
  PROVE  References'
<1>1. \A t \in Threads : Pinned(t)' <=> Pinned(t)
  BY DEF Pinned
<1> QED
  BY <1>1 DEF References

(* The stopper owns kthread_stop_lock, so that there is one pin at most.   *)
LEMMA OnePin ==
  ASSUME Locked, NEW c \in Clients, NEW d \in Clients,
         pc[c] \in Stopping \cup {"s_set"}, pc[d] \in Stopping \cup {"s_set"}
  PROVE  c = d
BY DEF Locked

(* References to task structures.                                          *)
LEMMA ReferencesStep ==
  ASSUME TypeOK, Creation, [Next]_vars
  PROVE  References'
<1> USE KthreadAssumption DEF TypeOK, Creation
<1>1. CASE UNCHANGED vars
  BY <1>1, ReferencesSame DEF vars
<1>2. ASSUME NEW c \in Clients, KthreadCreate(c) PROVE References'
  <2>1. usage' = usage /\ \A x \in Threads : tpc'[x] = "dead" <=> tpc[x] = "dead"
    BY <1>2 DEF KthreadCreate, Goto, threadVars, stopVars
  <2>2. \A x \in Clients : /\ pc'[x] \in {"s_set", "s_wake"} <=> pc[x] \in {"s_set", "s_wake"}
                           /\ pc[x] \in {"s_set", "s_wake"} => k'[x] = k[x]
    BY <1>2 DEF KthreadCreate, Goto, threadVars, stopVars
  <2> QED
    BY <2>1, <2>2, ReferencesSame
<1>3. ASSUME NEW c \in Clients, CreateReturn(c) PROVE References'
  <2>1. usage' = usage /\ \A x \in Threads : tpc'[x] = "dead" <=> tpc[x] = "dead"
    BY <1>3 DEF CreateReturn, Goto, kthreaddVars, threadVars, stopVars
  <2>2. \A x \in Clients : /\ pc'[x] \in {"s_set", "s_wake"} <=> pc[x] \in {"s_set", "s_wake"}
                           /\ pc[x] \in {"s_set", "s_wake"} => k'[x] = k[x]
    BY <1>3 DEF CreateReturn, Goto, kthreaddVars, threadVars, stopVars
  <2> QED
    BY <2>1, <2>2, ReferencesSame
<1>4. ASSUME NEW c \in Clients, WakeUpProcess(c) PROVE References'
  <2>1. usage' = usage /\ \A x \in Threads : tpc'[x] = "dead" <=> tpc[x] = "dead"
    BY <1>4 DEF WakeUpProcess, WakeThread, kthreaddVars, infoVars, stopVars
  <2>2. \A x \in Clients : /\ pc'[x] \in {"s_set", "s_wake"} <=> pc[x] \in {"s_set", "s_wake"}
                           /\ pc[x] \in {"s_set", "s_wake"} => k'[x] = k[x]
    BY <1>4 DEF WakeUpProcess, WakeThread, kthreaddVars, infoVars, stopVars
  <2> QED
    BY <2>1, <2>2, ReferencesSame
<1>5. ASSUME NEW c \in Clients, Detach(c) PROVE References'
  <2>1. usage' = usage /\ \A x \in Threads : tpc'[x] = "dead" <=> tpc[x] = "dead"
    BY <1>5 DEF Detach, Forget, Goto, kthreaddVars, infoVars, stopVars
  <2>2. \A x \in Clients : /\ pc'[x] \in {"s_set", "s_wake"} <=> pc[x] \in {"s_set", "s_wake"}
                           /\ pc[x] \in {"s_set", "s_wake"} => k'[x] = k[x]
    BY <1>5 DEF Detach, Forget, Goto, kthreaddVars, infoVars, stopVars
  <2> QED
    BY <2>1, <2>2, ReferencesSame
<1>6. ASSUME NEW c \in Clients, StopBegin(c) PROVE References'
  <2>1. /\ k[c] \in Threads /\ tpc' = tpc /\ k' = k /\ usage' = [usage EXCEPT ![k[c]] = usage[k[c]] + 1]
        /\ pc[c] \notin {"s_set", "s_wake"} /\ pc'[c] \in {"s_set", "s_wake"}
        /\ \A x \in Clients : x # c => pc'[x] = pc[x]
    BY <1>6 DEF StopBegin, Goto, kthreaddVars, infoVars, Locked, Having, Owning, Stopping
  <2>2. \A x \in Threads : x = k[c] => ~Pinned(x) /\ Pinned(x)'
    <3>1. \A x \in Clients : pc[x] \notin {"s_set", "s_wake"}
      BY <1>6 DEF StopBegin, Locked, Stopping
    <3> QED
      BY <2>1, <3>1 DEF Pinned
  <2>3. \A x \in Threads : x # k[c] => (Pinned(x)' <=> Pinned(x))
    BY <2>1 DEF Pinned
  <2> SUFFICES ASSUME NEW x \in Threads
               PROVE  usage'[x] = (IF tpc[x] = "dead" THEN 0 ELSE 1) + (IF Pinned(x)' THEN 1 ELSE 0)
    BY <2>1 DEF References
  <2>4. usage[x] = (IF tpc[x] = "dead" THEN 0 ELSE 1) + (IF Pinned(x) THEN 1 ELSE 0)
    BY DEF References
  <2>5. CASE x = k[c]
    <3>1. usage'[x] = usage[x] + 1
      BY <2>1, <2>5
    <3>2. CASE tpc[x] = "dead"
      BY <2>2, <2>4, <2>5, <3>1, <3>2
    <3>3. CASE tpc[x] # "dead"
      BY <2>2, <2>4, <2>5, <3>1, <3>3
    <3> QED
      BY <3>2, <3>3
  <2>6. CASE x # k[c]
    BY <2>1, <2>3, <2>4, <2>6
  <2> QED
    BY <2>5, <2>6
<1>7. ASSUME NEW c \in Clients, StopSet(c) PROVE References'
  <2>1. usage' = usage /\ \A x \in Threads : tpc'[x] = "dead" <=> tpc[x] = "dead"
    BY <1>7 DEF StopSet, Goto, kthreaddVars, infoVars, threadVars
  <2>2. \A x \in Clients : /\ pc'[x] \in {"s_set", "s_wake"} <=> pc[x] \in {"s_set", "s_wake"}
                           /\ pc[x] \in {"s_set", "s_wake"} => k'[x] = k[x]
    BY <1>7 DEF StopSet, Goto, kthreaddVars, infoVars, threadVars
  <2> QED
    BY <2>1, <2>2, ReferencesSame
<1>8. ASSUME NEW c \in Clients, StopWake(c) PROVE References'
  <2>1. /\ k[c] \in Threads /\ tpc' = tpc /\ k' = k /\ usage' = [usage EXCEPT ![k[c]] = usage[k[c]] - 1]
        /\ pc[c] \in {"s_set", "s_wake"} /\ pc'[c] \notin {"s_set", "s_wake"}
        /\ \A x \in Clients : x # c => pc'[x] = pc[x]
    BY <1>8 DEF StopWake, WakeThread, Goto, kthreaddVars, infoVars, stopVars, Locked, Having, Owning, Stopping
  <2>2. \A x \in Threads : x = k[c] => ~Pinned(x)' /\ Pinned(x)
    <3>1. \A x \in Clients : x # c => pc[x] \notin {"s_set", "s_wake"}
      BY <2>1, OnePin DEF Stopping
    <3> QED
      BY <2>1, <3>1 DEF Pinned
  <2>3. \A x \in Threads : x # k[c] => (Pinned(x)' <=> Pinned(x))
    BY <2>1 DEF Pinned
  <2> SUFFICES ASSUME NEW x \in Threads
               PROVE  usage'[x] = (IF tpc[x] = "dead" THEN 0 ELSE 1) + (IF Pinned(x)' THEN 1 ELSE 0)
    BY <2>1 DEF References
  <2>4. usage[x] = (IF tpc[x] = "dead" THEN 0 ELSE 1) + (IF Pinned(x) THEN 1 ELSE 0)
    BY DEF References
  <2>5. CASE x = k[c]
    <3>1. usage'[x] = usage[x] - 1
      BY <2>1, <2>5
    <3>2. CASE tpc[x] = "dead"
      BY <2>2, <2>4, <2>5, <3>1, <3>2
    <3>3. CASE tpc[x] # "dead"
      BY <2>2, <2>4, <2>5, <3>1, <3>3
    <3> QED
      BY <3>2, <3>3
  <2>6. CASE x # k[c]
    BY <2>1, <2>3, <2>4, <2>6
  <2> QED
    BY <2>5, <2>6
<1>9. ASSUME NEW c \in Clients, StopEnd(c) PROVE References'
  <2>1. usage' = usage /\ \A x \in Threads : tpc'[x] = "dead" <=> tpc[x] = "dead"
    BY <1>9 DEF StopEnd, Goto, kthreaddVars, infoVars, threadVars
  <2>2. \A x \in Clients : /\ pc'[x] \in {"s_set", "s_wake"} <=> pc[x] \in {"s_set", "s_wake"}
                           /\ pc[x] \in {"s_set", "s_wake"} => k'[x] = k[x]
    BY <1>9 DEF StopEnd, Goto, kthreaddVars, infoVars, threadVars
  <2> QED
    BY <2>1, <2>2, ReferencesSame
<1>10. ASSUME NEW c \in Clients, StopReturn(c) PROVE References'
  <2>1. usage' = usage /\ \A x \in Threads : tpc'[x] = "dead" <=> tpc[x] = "dead"
    BY <1>10 DEF StopReturn, Forget, Goto, kthreaddVars, infoVars, threadVars, stopVars
  <2>2. \A x \in Clients : /\ pc'[x] \in {"s_set", "s_wake"} <=> pc[x] \in {"s_set", "s_wake"}
                           /\ pc[x] \in {"s_set", "s_wake"} => k'[x] = k[x]
    BY <1>10 DEF StopReturn, Forget, Goto, kthreaddVars, infoVars, threadVars, stopVars
  <2> QED
    BY <2>1, <2>2, ReferencesSame
<1>11. ASSUME KthreaddPrepare PROVE References'
  <2>1. usage' = usage /\ \A x \in Threads : tpc'[x] = "dead" <=> tpc[x] = "dead"
    BY <1>11 DEF KthreaddPrepare, infoVars, threadVars, stopVars, clientVars
  <2>2. \A x \in Clients : /\ pc'[x] \in {"s_set", "s_wake"} <=> pc[x] \in {"s_set", "s_wake"}
                           /\ pc[x] \in {"s_set", "s_wake"} => k'[x] = k[x]
    BY <1>11 DEF KthreaddPrepare, infoVars, threadVars, stopVars, clientVars
  <2> QED
    BY <2>1, <2>2, ReferencesSame
<1>12. ASSUME KthreaddCheck PROVE References'
  <2>1. usage' = usage /\ \A x \in Threads : tpc'[x] = "dead" <=> tpc[x] = "dead"
    BY <1>12 DEF KthreaddCheck, infoVars, threadVars, stopVars, clientVars
  <2>2. \A x \in Clients : /\ pc'[x] \in {"s_set", "s_wake"} <=> pc[x] \in {"s_set", "s_wake"}
                           /\ pc[x] \in {"s_set", "s_wake"} => k'[x] = k[x]
    BY <1>12 DEF KthreaddCheck, infoVars, threadVars, stopVars, clientVars
  <2> QED
    BY <2>1, <2>2, ReferencesSame
<1>13. ASSUME KthreaddSchedule PROVE References'
  <2>1. usage' = usage /\ \A x \in Threads : tpc'[x] = "dead" <=> tpc[x] = "dead"
    BY <1>13 DEF KthreaddSchedule, infoVars, threadVars, stopVars, clientVars
  <2>2. \A x \in Clients : /\ pc'[x] \in {"s_set", "s_wake"} <=> pc[x] \in {"s_set", "s_wake"}
                           /\ pc[x] \in {"s_set", "s_wake"} => k'[x] = k[x]
    BY <1>13 DEF KthreaddSchedule, infoVars, threadVars, stopVars, clientVars
  <2> QED
    BY <2>1, <2>2, ReferencesSame
<1>14. ASSUME KthreaddTake PROVE References'
  <2>1. usage' = usage /\ \A x \in Threads : tpc'[x] = "dead" <=> tpc[x] = "dead"
    BY <1>14 DEF KthreaddTake, infoVars, threadVars, stopVars, clientVars
  <2>2. \A x \in Clients : /\ pc'[x] \in {"s_set", "s_wake"} <=> pc[x] \in {"s_set", "s_wake"}
                           /\ pc[x] \in {"s_set", "s_wake"} => k'[x] = k[x]
    BY <1>14 DEF KthreaddTake, infoVars, threadVars, stopVars, clientVars
  <2> QED
    BY <2>1, <2>2, ReferencesSame
<1>15. ASSUME KernelThreadFails PROVE References'
  <2>1. usage' = usage /\ \A x \in Threads : tpc'[x] = "dead" <=> tpc[x] = "dead"
    BY <1>15 DEF KernelThreadFails, threadVars, stopVars, clientVars
  <2>2. \A x \in Clients : /\ pc'[x] \in {"s_set", "s_wake"} <=> pc[x] \in {"s_set", "s_wake"}
                           /\ pc[x] \in {"s_set", "s_wake"} => k'[x] = k[x]
    BY <1>15 DEF KernelThreadFails, threadVars, stopVars, clientVars
  <2> QED
    BY <2>1, <2>2, ReferencesSame
<1>16. ASSUME StartedWait PROVE References'
  <2>1. usage' = usage /\ \A x \in Threads : tpc'[x] = "dead" <=> tpc[x] = "dead"
    BY <1>16 DEF StartedWait, infoVars, threadVars, stopVars, clientVars
  <2>2. \A x \in Clients : /\ pc'[x] \in {"s_set", "s_wake"} <=> pc[x] \in {"s_set", "s_wake"}
                           /\ pc[x] \in {"s_set", "s_wake"} => k'[x] = k[x]
    BY <1>16 DEF StartedWait, infoVars, threadVars, stopVars, clientVars
  <2> QED
    BY <2>1, <2>2, ReferencesSame
<1>17. ASSUME StartedWake PROVE References'
  <2>1. usage' = usage /\ \A x \in Threads : tpc'[x] = "dead" <=> tpc[x] = "dead"
    BY <1>17 DEF StartedWake, infoVars, threadVars, stopVars, clientVars
  <2>2. \A x \in Clients : /\ pc'[x] \in {"s_set", "s_wake"} <=> pc[x] \in {"s_set", "s_wake"}
                           /\ pc[x] \in {"s_set", "s_wake"} => k'[x] = k[x]
    BY <1>17 DEF StartedWake, infoVars, threadVars, stopVars, clientVars
  <2> QED
    BY <2>1, <2>2, ReferencesSame
<1>18. ASSUME FindTask PROVE References'
  <2>1. usage' = usage /\ \A x \in Threads : tpc'[x] = "dead" <=> tpc[x] = "dead"
    BY <1>18 DEF FindTask, threadVars, stopVars, clientVars
  <2>2. \A x \in Clients : /\ pc'[x] \in {"s_set", "s_wake"} <=> pc[x] \in {"s_set", "s_wake"}
                           /\ pc[x] \in {"s_set", "s_wake"} => k'[x] = k[x]
    BY <1>18 DEF FindTask, threadVars, stopVars, clientVars
  <2> QED
    BY <2>1, <2>2, ReferencesSame
<1>19. ASSUME CompleteDone PROVE References'
  <2>1. usage' = usage /\ \A x \in Threads : tpc'[x] = "dead" <=> tpc[x] = "dead"
    BY <1>19 DEF CompleteDone, threadVars, stopVars
  <2>2. \A x \in Clients : /\ pc'[x] \in {"s_set", "s_wake"} <=> pc[x] \in {"s_set", "s_wake"}
                           /\ pc[x] \in {"s_set", "s_wake"} => k'[x] = k[x]
    BY <1>19 DEF CompleteDone, threadVars, stopVars
  <2> QED
    BY <2>1, <2>2, ReferencesSame
<1>20. ASSUME NEW t \in Threads, KernelThread(t) PROVE References'
  <2>1. /\ tpc[t] = "dead" /\ tpc'[t] # "dead" /\ usage' = [usage EXCEPT ![t] = 1]
        /\ \A x \in Threads : x # t => tpc'[x] = tpc[x]
    BY <1>20 DEF KernelThread, TGoto
  <2>2. \A x \in Threads : Pinned(x)' <=> Pinned(x)
    BY <1>20 DEF KernelThread, clientVars, Pinned
  <2> SUFFICES ASSUME NEW x \in Threads
               PROVE  usage'[x] = (IF tpc'[x] = "dead" THEN 0 ELSE 1) + (IF Pinned(x) THEN 1 ELSE 0)
    BY <2>2 DEF References
  <2>3. usage[x] = (IF tpc[x] = "dead" THEN 0 ELSE 1) + (IF Pinned(x) THEN 1 ELSE 0)
    BY DEF References
  <2>4. CASE x = t
    <3>1. usage'[t] = 1
      BY <2>1
    <3>0. usage[t] = 0
      BY <1>20 DEF KernelThread
    <3>2. CASE Pinned(t)
      BY <2>1, <2>3, <2>4, <3>1, <3>2, <3>0
    <3>3. CASE ~Pinned(t)
      BY <2>1, <2>3, <2>4, <3>1, <3>3, <3>0
    <3> QED
      BY <3>2, <3>3
  <2>5. CASE x # t
    BY <2>1, <2>3, <2>5
  <2> QED
    BY <2>4, <2>5
<1>21. ASSUME NEW t \in Threads, ThreadStart(t) PROVE References'
  <2>1. usage' = usage /\ \A x \in Threads : tpc'[x] = "dead" <=> tpc[x] = "dead"
    BY <1>21 DEF ThreadStart, TGoto, kthreaddVars, infoVars, stopVars, clientVars
  <2>2. \A x \in Clients : /\ pc'[x] \in {"s_set", "s_wake"} <=> pc[x] \in {"s_set", "s_wake"}
                           /\ pc[x] \in {"s_set", "s_wake"} => k'[x] = k[x]
    BY <1>21 DEF ThreadStart, TGoto, kthreaddVars, infoVars, stopVars, clientVars
  <2> QED
    BY <2>1, <2>2, ReferencesSame
<1>22. ASSUME NEW t \in Threads, ThreadTell(t) PROVE References'
  <2>1. usage' = usage /\ \A x \in Threads : tpc'[x] = "dead" <=> tpc[x] = "dead"
    BY <1>22 DEF ThreadTell, TGoto, stopVars, clientVars
  <2>2. \A x \in Clients : /\ pc'[x] \in {"s_set", "s_wake"} <=> pc[x] \in {"s_set", "s_wake"}
                           /\ pc[x] \in {"s_set", "s_wake"} => k'[x] = k[x]
    BY <1>22 DEF ThreadTell, TGoto, stopVars, clientVars
  <2> QED
    BY <2>1, <2>2, ReferencesSame
<1>23. ASSUME NEW t \in Threads, ThreadRun(t) PROVE References'
  <2>1. usage' = usage /\ \A x \in Threads : tpc'[x] = "dead" <=> tpc[x] = "dead"
    BY <1>23 DEF ThreadRun, KthreadShouldStop, TGoto, kthreaddVars, infoVars, stopVars
  <2>2. \A x \in Clients : /\ pc'[x] \in {"s_set", "s_wake"} <=> pc[x] \in {"s_set", "s_wake"}
                           /\ pc[x] \in {"s_set", "s_wake"} => k'[x] = k[x]
    BY <1>23 DEF ThreadRun, KthreadShouldStop, TGoto, kthreaddVars, infoVars, stopVars
  <2> QED
    BY <2>1, <2>2, ReferencesSame
<1>24. ASSUME NEW t \in Threads, FnPrepare(t) PROVE References'
  <2>1. usage' = usage /\ \A x \in Threads : tpc'[x] = "dead" <=> tpc[x] = "dead"
    BY <1>24 DEF FnPrepare, TGoto, kthreaddVars, infoVars, stopVars, clientVars
  <2>2. \A x \in Clients : /\ pc'[x] \in {"s_set", "s_wake"} <=> pc[x] \in {"s_set", "s_wake"}
                           /\ pc[x] \in {"s_set", "s_wake"} => k'[x] = k[x]
    BY <1>24 DEF FnPrepare, TGoto, kthreaddVars, infoVars, stopVars, clientVars
  <2> QED
    BY <2>1, <2>2, ReferencesSame
<1>25. ASSUME NEW t \in Threads, FnTest(t) PROVE References'
  <2>1. usage' = usage /\ \A x \in Threads : tpc'[x] = "dead" <=> tpc[x] = "dead"
    BY <1>25 DEF FnTest, WakeThread, KthreadShouldStop, TGoto, kthreaddVars, infoVars, stopVars, clientVars
  <2>2. \A x \in Clients : /\ pc'[x] \in {"s_set", "s_wake"} <=> pc[x] \in {"s_set", "s_wake"}
                           /\ pc[x] \in {"s_set", "s_wake"} => k'[x] = k[x]
    BY <1>25 DEF FnTest, WakeThread, KthreadShouldStop, TGoto, kthreaddVars, infoVars, stopVars, clientVars
  <2> QED
    BY <2>1, <2>2, ReferencesSame
<1>26. ASSUME NEW t \in Threads, FnSchedule(t) PROVE References'
  <2>1. usage' = usage /\ \A x \in Threads : tpc'[x] = "dead" <=> tpc[x] = "dead"
    BY <1>26 DEF FnSchedule, TGoto, kthreaddVars, infoVars, stopVars, clientVars
  <2>2. \A x \in Clients : /\ pc'[x] \in {"s_set", "s_wake"} <=> pc[x] \in {"s_set", "s_wake"}
                           /\ pc[x] \in {"s_set", "s_wake"} => k'[x] = k[x]
    BY <1>26 DEF FnSchedule, TGoto, kthreaddVars, infoVars, stopVars, clientVars
  <2> QED
    BY <2>1, <2>2, ReferencesSame
<1>27. ASSUME NEW t \in Threads, ThreadCheck(t) PROVE References'
  <2>1. usage' = usage /\ \A x \in Threads : tpc'[x] = "dead" <=> tpc[x] = "dead"
    BY <1>27 DEF ThreadCheck, KthreadShouldStop, TGoto, kthreaddVars, infoVars, clientVars
  <2>2. \A x \in Clients : /\ pc'[x] \in {"s_set", "s_wake"} <=> pc[x] \in {"s_set", "s_wake"}
                           /\ pc[x] \in {"s_set", "s_wake"} => k'[x] = k[x]
    BY <1>27 DEF ThreadCheck, KthreadShouldStop, TGoto, kthreaddVars, infoVars, clientVars
  <2> QED
    BY <2>1, <2>2, ReferencesSame
<1>28. ASSUME NEW t \in Threads, ThreadReport(t) PROVE References'
  <2>1. usage' = usage /\ \A x \in Threads : tpc'[x] = "dead" <=> tpc[x] = "dead"
    BY <1>28 DEF ThreadReport, TGoto, kthreaddVars, infoVars
  <2>2. \A x \in Clients : /\ pc'[x] \in {"s_set", "s_wake"} <=> pc[x] \in {"s_set", "s_wake"}
                           /\ pc[x] \in {"s_set", "s_wake"} => k'[x] = k[x]
    BY <1>28 DEF ThreadReport, TGoto, kthreaddVars, infoVars
  <2> QED
    BY <2>1, <2>2, ReferencesSame
<1>29. ASSUME NEW t \in Threads, ThreadExit(t) PROVE References'
  <2>1. /\ tpc[t] # "dead" /\ tpc'[t] = "dead" /\ usage' = [usage EXCEPT ![t] = usage[t] - 1]
        /\ \A x \in Threads : x # t => tpc'[x] = tpc[x]
    BY <1>29 DEF ThreadExit, WakeThread, TGoto
  <2>2. \A x \in Threads : Pinned(x)' <=> Pinned(x)
    BY <1>29 DEF ThreadExit, WakeThread, clientVars, Pinned
  <2> SUFFICES ASSUME NEW x \in Threads
               PROVE  usage'[x] = (IF tpc'[x] = "dead" THEN 0 ELSE 1) + (IF Pinned(x) THEN 1 ELSE 0)
    BY <2>2 DEF References
  <2>3. usage[x] = (IF tpc[x] = "dead" THEN 0 ELSE 1) + (IF Pinned(x) THEN 1 ELSE 0)
    BY DEF References
  <2>4. CASE x = t
    <3>1. usage'[t] = usage[t] - 1
      BY <2>1
    <3>2. CASE Pinned(t)
      BY <2>1, <2>3, <2>4, <3>1, <3>2
    <3>3. CASE ~Pinned(t)
      BY <2>1, <2>3, <2>4, <3>1, <3>3
    <3> QED
      BY <3>2, <3>3
  <2>5. CASE x # t
    BY <2>1, <2>3, <2>5
  <2> QED
    BY <2>4, <2>5
<1> QED
  BY <1>1, <1>2, <1>3, <1>4, <1>5, <1>6, <1>7, <1>8, <1>9, <1>10,
     <1>11, <1>12, <1>13, <1>14, <1>15, <1>16, <1>17, <1>18, <1>19, <1>20,
     <1>21, <1>22, <1>23, <1>24, <1>25, <1>26, <1>27, <1>28, <1>29
  DEF Next, ClientSteps, Kthreadd, ThreadSteps

(* The first part of the invariant.                                        *)
LEMMA CreationInit == Init => CInv
<1> SUFFICES ASSUME Init PROVE CInv
  OBVIOUS
<1> USE KthreadAssumption DEF Init
<1>1. TypeOK
  <2>1. /\ createList \in Seq(Clients)
        /\ create \in Clients \cup {None} /\ pid \in Threads \cup {None}
        /\ kpc = "prep" /\ kstate = "RUNNING"
    OBVIOUS
  <2>2. /\ started \in [Clients -> Nat] /\ done \in [Clients -> Nat]
        /\ result \in [Clients -> Threads \cup {None, ENOMEM}]
    OBVIOUS
  <2>3. /\ tpc \in [Threads -> {"dead"}] /\ tstate \in [Threads -> {"RUNNING"}]
        /\ tcreate \in [Threads -> Clients \cup {None}]
        /\ ret \in [Threads -> Threads \cup {None, EINTR}]
        /\ usage \in [Threads -> Nat] /\ detached \subseteq Threads
    OBVIOUS
  <2>4. /\ stopK \in Threads \cup {None} /\ stopErr \in Threads \cup {None, EINTR}
        /\ stopDone \in Nat /\ stopLock \in Clients \cup {None}
    OBVIOUS
  <2>5. /\ pc \in [Clients -> {"idle"}] /\ k \in [Clients -> Threads \cup {None}]
        /\ rv \in [Clients -> Threads \cup {None, EINTR}]
        /\ woken \in [Clients -> BOOLEAN] /\ ran \in [Clients -> BOOLEAN]
        /\ misled \in BOOLEAN
    OBVIOUS
  <2>6. /\ tpc \in [Threads -> Fn \cup {"dead", "start", "tell", "park", "check", "report", "exit"}]
        /\ tstate \in [Threads -> {"RUNNING", "INTERRUPTIBLE", "UNINTERRUPTIBLE"}]
        /\ pc \in [Clients -> {"idle", "c_wait", "has", "s_set", "s_wake", "s_wait", "stopped"}]
    BY <2>3, <2>5
  <2> HIDE DEF Init
  <2> QED
    BY <2>1, <2>2, <2>3, <2>4, <2>5, <2>6 DEF TypeOK
<1>2. Unique(createList) /\ ToSet(createList) = {}
  BY ToSetEmpty DEF Unique
<1>3. Hands /\ Infos
  BY <1>2 DEF Hands, Infos
<1>4. Newborn /\ Locked
  BY DEF Newborn, Locked, Having, Owning, Stopping
<1>5. References
  <2>1. \A t : ~Pinned(t)
    BY DEF Pinned
  <2> QED
    BY <2>1 DEF References
<1> QED
  BY <1>1, <1>3, <1>4, <1>5 DEF CInv, Creation

LEMMA CreationStep == CInv /\ [Next]_vars => CInv'
<1> SUFFICES ASSUME CInv, [Next]_vars PROVE CInv'
  OBVIOUS
<1>1. TypeOK /\ Creation
  BY DEF CInv
<1> QED
  BY <1>1, TypeStep, HandsStep, InfosStep, NewbornStep, LockedStep, ReferencesStep DEF CInv, Creation

LEMMA CreationInvariant == Spec => []CInv
BY CreationInit, CreationStep, PTL DEF Spec

(* Every variable of kernel/kthread.c's model keeps its type, for any      *)
(* number of clients and task structures, however these are reused.        *)
THEOREM TypeCorrect == Spec => []TypeOK
BY CreationInvariant, PTL DEF CInv

(* kthreadd and the new thread touch a creator's stack only while          *)
(* kthread_create waits, and kthread_stop wakes only a task that exists,   *)
(* for any number of clients and threads, reused structures included.      *)
THEOREM NothingDangles == Spec => []NoDangling
<1>1. CInv => NoDangling
  <2> SUFFICES ASSUME CInv PROVE NoDangling
    OBVIOUS
  <2> USE KthreadAssumption DEF CInv, Creation
  <2>1. ASSUME NEW c \in Clients, c \in ToSet(createList) \/ c = create PROVE pc[c] = "c_wait"
    BY <2>1 DEF Infos
  <2>2. ASSUME NEW c \in Clients, NEW t \in Threads, tcreate[t] = c, tpc[t] \in {"start", "tell"}
        PROVE  pc[c] = "c_wait"
    BY <2>2 DEF Infos, Newborn
  <2>3. ASSUME NEW c \in Clients, pc[c] = "s_wake" PROVE usage[k[c]] > 0
    <3>1. k[c] \in Threads /\ Pinned(k[c])
      BY <2>3 DEF Locked, Having, Stopping, Pinned
    <3>2. usage[k[c]] >= 1 /\ usage[k[c]] \in Nat
      BY <3>1, InUse DEF TypeOK
    <3> QED
      BY <3>2
  <2> QED
    BY <2>1, <2>2, <2>3 DEF NoDangling
<1> QED
  BY <1>1, CreationInvariant, PTL

-----------------------------------------------------------------------------
(* A thread is one client's at most.                                       *)
LEMMA OneOwner ==
  ASSUME Kept, NEW c \in Clients, NEW d \in Clients, NEW t \in Threads, Mine(c, t), Mine(d, t)
  PROVE  c = d
BY DEF Kept, Safe

(* Once misled, for ever.                                                  *)
LEMMA MisledStays ==
  ASSUME TypeOK, [Next]_vars
  PROVE  misled => misled'
<1>1. CASE UNCHANGED vars
  BY <1>1 DEF vars
<1>2. ASSUME NEW c \in Clients, KthreadCreate(c) PROVE misled => misled'
  BY <1>2 DEF KthreadCreate, Goto, threadVars, stopVars
<1>3. ASSUME NEW c \in Clients, CreateReturn(c) PROVE misled => misled'
  BY <1>3 DEF CreateReturn, Goto, kthreaddVars, threadVars, stopVars
<1>4. ASSUME NEW c \in Clients, WakeUpProcess(c) PROVE misled => misled'
  BY <1>4 DEF WakeUpProcess, WakeThread, kthreaddVars, infoVars, stopVars
<1>5. ASSUME NEW c \in Clients, Detach(c) PROVE misled => misled'
  BY <1>5 DEF Detach, Forget, Goto, kthreaddVars, infoVars, stopVars
<1>6. ASSUME NEW c \in Clients, StopBegin(c) PROVE misled => misled'
  BY <1>6 DEF StopBegin, Goto, kthreaddVars, infoVars
<1>7. ASSUME NEW c \in Clients, StopSet(c) PROVE misled => misled'
  BY <1>7 DEF StopSet, Goto, kthreaddVars, infoVars, threadVars
<1>8. ASSUME NEW c \in Clients, StopWake(c) PROVE misled => misled'
  BY <1>8 DEF StopWake, WakeThread, Goto, kthreaddVars, infoVars, stopVars
<1>9. ASSUME NEW c \in Clients, StopEnd(c) PROVE misled => misled'
  BY <1>9 DEF StopEnd, Goto, kthreaddVars, infoVars, threadVars
<1>10. ASSUME NEW c \in Clients, StopReturn(c) PROVE misled => misled'
  BY <1>10 DEF StopReturn, Forget, Goto, kthreaddVars, infoVars, threadVars, stopVars
<1>11. ASSUME KthreaddPrepare PROVE misled => misled'
  BY <1>11 DEF KthreaddPrepare, infoVars, threadVars, stopVars, clientVars
<1>12. ASSUME KthreaddCheck PROVE misled => misled'
  BY <1>12 DEF KthreaddCheck, infoVars, threadVars, stopVars, clientVars
<1>13. ASSUME KthreaddSchedule PROVE misled => misled'
  BY <1>13 DEF KthreaddSchedule, infoVars, threadVars, stopVars, clientVars
<1>14. ASSUME KthreaddTake PROVE misled => misled'
  BY <1>14 DEF KthreaddTake, infoVars, threadVars, stopVars, clientVars
<1>15. ASSUME KernelThreadFails PROVE misled => misled'
  BY <1>15 DEF KernelThreadFails, threadVars, stopVars, clientVars
<1>16. ASSUME StartedWait PROVE misled => misled'
  BY <1>16 DEF StartedWait, infoVars, threadVars, stopVars, clientVars
<1>17. ASSUME StartedWake PROVE misled => misled'
  BY <1>17 DEF StartedWake, infoVars, threadVars, stopVars, clientVars
<1>18. ASSUME FindTask PROVE misled => misled'
  BY <1>18 DEF FindTask, threadVars, stopVars, clientVars
<1>19. ASSUME CompleteDone PROVE misled => misled'
  BY <1>19 DEF CompleteDone, threadVars, stopVars
<1>20. ASSUME NEW t \in Threads, KernelThread(t) PROVE misled => misled'
  BY <1>20 DEF KernelThread, TGoto, infoVars, stopVars, clientVars
<1>21. ASSUME NEW t \in Threads, ThreadStart(t) PROVE misled => misled'
  BY <1>21 DEF ThreadStart, TGoto, kthreaddVars, infoVars, stopVars, clientVars
<1>22. ASSUME NEW t \in Threads, ThreadTell(t) PROVE misled => misled'
  BY <1>22 DEF ThreadTell, TGoto, stopVars, clientVars
<1>23. ASSUME NEW t \in Threads, ThreadRun(t) PROVE misled => misled'
  BY <1>23 DEF ThreadRun, TypeOK
<1>24. ASSUME NEW t \in Threads, FnPrepare(t) PROVE misled => misled'
  BY <1>24 DEF FnPrepare, TGoto, kthreaddVars, infoVars, stopVars, clientVars
<1>25. ASSUME NEW t \in Threads, FnTest(t) PROVE misled => misled'
  BY <1>25 DEF FnTest, WakeThread, KthreadShouldStop, TGoto, kthreaddVars, infoVars, stopVars, clientVars
<1>26. ASSUME NEW t \in Threads, FnSchedule(t) PROVE misled => misled'
  BY <1>26 DEF FnSchedule, TGoto, kthreaddVars, infoVars, stopVars, clientVars
<1>27. ASSUME NEW t \in Threads, ThreadCheck(t) PROVE misled => misled'
  BY <1>27 DEF ThreadCheck, KthreadShouldStop, TGoto, kthreaddVars, infoVars, clientVars
<1>28. ASSUME NEW t \in Threads, ThreadReport(t) PROVE misled => misled'
  BY <1>28 DEF ThreadReport, TGoto, kthreaddVars, infoVars
<1>29. ASSUME NEW t \in Threads, ThreadExit(t) PROVE misled => misled'
  BY <1>29 DEF ThreadExit, WakeThread, TGoto, kthreaddVars, infoVars, stopVars, clientVars
<1> QED
  BY <1>1, <1>2, <1>3, <1>4, <1>5, <1>6, <1>7, <1>8, <1>9, <1>10,
     <1>11, <1>12, <1>13, <1>14, <1>15, <1>16, <1>17, <1>18, <1>19, <1>20,
     <1>21, <1>22, <1>23, <1>24, <1>25, <1>26, <1>27, <1>28, <1>29
  DEF Next, ClientSteps, Kthreadd, ThreadSteps

(* Who owns what.                                                          *)
LEMMA KeptStep ==
  ASSUME TypeOK, Creation, Ownership, ~misled, ~misled', [Next]_vars
  PROVE  Kept'
<1> USE KthreadAssumption DEF TypeOK, Ownership, Creation, Fn, Unstarted, Owning, Stopping
<1>1. CASE UNCHANGED vars
  BY <1>1 DEF vars, Kept, Mine, Safe
<1>2. ASSUME NEW c \in Clients, KthreadCreate(c) PROVE Kept'
  <2> SUFFICES ASSUME NEW x \in Clients, NEW y \in Threads, Mine(x, y)' PROVE Safe(x, y)'
    BY DEF Kept
  <2>1. Mine(x, y)
    BY <1>2 DEF KthreadCreate, Goto, threadVars, stopVars, Mine
  <2>2. Safe(x, y)
    BY <2>1 DEF Kept
  <2> QED
    BY <1>2, <2>1, <2>2 DEF KthreadCreate, Goto, threadVars, stopVars, Safe
<1>3. ASSUME NEW c \in Clients, CreateReturn(c) PROVE Kept'
  <2> SUFFICES ASSUME NEW x \in Clients, NEW y \in Threads, Mine(x, y)' PROVE Safe(x, y)'
    BY DEF Kept
  <2>1. Mine(x, y)
    BY <1>3 DEF CreateReturn, Goto, kthreaddVars, threadVars, stopVars, Mine
  <2>2. Safe(x, y)
    BY <2>1 DEF Kept
  <2> QED
    BY <1>3, <2>1, <2>2 DEF CreateReturn, Goto, kthreaddVars, threadVars, stopVars, Safe
<1>4. ASSUME NEW c \in Clients, WakeUpProcess(c) PROVE Kept'
  <2> SUFFICES ASSUME NEW x \in Clients, NEW y \in Threads, Mine(x, y)' PROVE Safe(x, y)'
    BY DEF Kept
  <2>1. Mine(x, y) /\ Safe(x, y)
    <3>1. Mine(x, y)
      BY <1>4 DEF WakeUpProcess, WakeThread, kthreaddVars, infoVars, stopVars, Mine
    <3> QED
      BY <3>1 DEF Kept
  <2>2. CASE x # c
    <3>1. Mine(c, k[c]) /\ k[c] \in Threads
      BY <1>4 DEF WakeUpProcess, Mine, Locked, Having
    <3>2. y # k[c]
      BY <2>1, <2>2, <3>1, OneOwner
    <3> QED
      BY <1>4, <2>1, <2>2, <3>2 DEF WakeUpProcess, WakeThread, kthreaddVars, infoVars, stopVars, Safe
  <2>3. CASE x = c
    <3>1. woken'[x]
      BY <1>4, <2>3 DEF WakeUpProcess
    <3> QED
      BY <1>4, <2>1, <3>1 DEF WakeUpProcess, WakeThread, kthreaddVars, infoVars, stopVars, Safe
  <2> QED
    BY <2>2, <2>3
<1>5. ASSUME NEW c \in Clients, Detach(c) PROVE Kept'
  <2> SUFFICES ASSUME NEW x \in Clients, NEW y \in Threads, Mine(x, y)' PROVE Safe(x, y)'
    BY DEF Kept
  <2>1. Mine(x, y) /\ Safe(x, y)
    <3>1. Mine(x, y)
      BY <1>5 DEF Detach, Forget, Goto, kthreaddVars, infoVars, stopVars, Mine
    <3> QED
      BY <3>1 DEF Kept
  <2>2. x # c
    <3>1. c # create /\ result[c] = None
      BY <1>5 DEF Detach, Forget, Infos
    <3>2. (k'[c] = None \/ pc'[c] \notin Owning) /\ UNCHANGED <<create, result>>
      BY <1>5 DEF Detach, Forget, Goto, kthreaddVars, infoVars, stopVars
    <3> QED
      BY <3>1, <3>2 DEF Mine
  <2>3. Mine(c, k[c]) /\ k[c] \in Threads
    BY <1>5 DEF Detach, Forget, Mine, Locked, Having
  <2>4. y # k[c]
    BY <2>1, <2>2, <2>3, OneOwner
  <2> QED
    BY <1>5, <2>1, <2>2, <2>4 DEF Detach, Forget, Goto, kthreaddVars, infoVars, stopVars, Safe
<1>6. ASSUME NEW c \in Clients, StopBegin(c) PROVE Kept'
  <2> SUFFICES ASSUME NEW x \in Clients, NEW y \in Threads, Mine(x, y)' PROVE Safe(x, y)'
    BY DEF Kept
  <2>1. Mine(x, y)
    BY <1>6 DEF StopBegin, Goto, kthreaddVars, infoVars, Mine
  <2>2. Safe(x, y)
    BY <2>1 DEF Kept
  <2> QED
    BY <1>6, <2>1, <2>2 DEF StopBegin, Goto, kthreaddVars, infoVars, Safe
<1>7. ASSUME NEW c \in Clients, StopSet(c) PROVE Kept'
  <2> SUFFICES ASSUME NEW x \in Clients, NEW y \in Threads, Mine(x, y)' PROVE Safe(x, y)'
    BY DEF Kept
  <2>1. Mine(x, y) /\ Safe(x, y)
    <3>1. Mine(x, y)
      BY <1>7 DEF StopSet, Goto, kthreaddVars, infoVars, threadVars, Mine
    <3> QED
      BY <3>1 DEF Kept
  <2>2. x # c
    <3>1. c # create /\ result[c] = None
      BY <1>7 DEF StopSet, Infos
    <3>2. (k'[c] = None \/ pc'[c] \notin Owning) /\ UNCHANGED <<create, result>>
      BY <1>7 DEF StopSet, Goto, kthreaddVars, infoVars, threadVars
    <3> QED
      BY <3>1, <3>2 DEF Mine
  <2>3. Mine(c, k[c]) /\ k[c] \in Threads
    BY <1>7 DEF StopSet, Mine, Locked, Having
  <2>4. y # k[c]
    BY <2>1, <2>2, <2>3, OneOwner
  <2> QED
    BY <1>7, <2>1, <2>2, <2>4 DEF StopSet, Goto, kthreaddVars, infoVars, threadVars, Safe
<1>8. ASSUME NEW c \in Clients, StopWake(c) PROVE Kept'
  <2> SUFFICES ASSUME NEW x \in Clients, NEW y \in Threads, Mine(x, y)' PROVE Safe(x, y)'
    BY DEF Kept
  <2>1. Mine(x, y) /\ Safe(x, y)
    <3>1. Mine(x, y)
      BY <1>8 DEF StopWake, WakeThread, Goto, kthreaddVars, infoVars, stopVars, Mine
    <3> QED
      BY <3>1 DEF Kept
  <2>2. y # k[c]
    <3>1. pc[c] = "s_wake" /\ Ending(c)
      BY <1>8 DEF StopWake, StopInfo
    <3>2. ~Mine(c, y)
      BY <3>1 DEF Mine, Infos
    <3> QED
      BY <2>1, <3>1, <3>2 DEF Ending, Safe
  <2> QED
    BY <1>8, <2>1, <2>2 DEF StopWake, WakeThread, Goto, kthreaddVars, infoVars, stopVars, Safe
<1>9. ASSUME NEW c \in Clients, StopEnd(c) PROVE Kept'
  <2> SUFFICES ASSUME NEW x \in Clients, NEW y \in Threads, Mine(x, y)' PROVE Safe(x, y)'
    BY DEF Kept
  <2>1. Mine(x, y)
    BY <1>9 DEF StopEnd, Goto, kthreaddVars, infoVars, threadVars, Mine
  <2>2. Safe(x, y)
    BY <2>1 DEF Kept
  <2> QED
    BY <1>9, <2>1, <2>2 DEF StopEnd, Goto, kthreaddVars, infoVars, threadVars, Safe
<1>10. ASSUME NEW c \in Clients, StopReturn(c) PROVE Kept'
  <2> SUFFICES ASSUME NEW x \in Clients, NEW y \in Threads, Mine(x, y)' PROVE Safe(x, y)'
    BY DEF Kept
  <2>1. Mine(x, y) /\ Safe(x, y)
    <3>1. Mine(x, y)
      BY <1>10 DEF StopReturn, Forget, Goto, kthreaddVars, infoVars, threadVars, stopVars, Mine
    <3> QED
      BY <3>1 DEF Kept
  <2>2. x # c
    <3>1. c # create /\ result[c] = None
      BY <1>10 DEF StopReturn, Forget, Infos
    <3>2. (k'[c] = None \/ pc'[c] \notin Owning) /\ UNCHANGED <<create, result>>
      BY <1>10 DEF StopReturn, Forget, Goto, kthreaddVars, infoVars, threadVars, stopVars
    <3> QED
      BY <3>1, <3>2 DEF Mine
  <2> QED
    BY <1>10, <2>1, <2>2 DEF StopReturn, Forget, Goto, kthreaddVars, infoVars, threadVars, stopVars, Safe
<1>11. ASSUME KthreaddPrepare PROVE Kept'
  <2> SUFFICES ASSUME NEW x \in Clients, NEW y \in Threads, Mine(x, y)' PROVE Safe(x, y)'
    BY DEF Kept
  <2>1. Mine(x, y)
    BY <1>11 DEF KthreaddPrepare, infoVars, threadVars, stopVars, clientVars, Mine
  <2>2. Safe(x, y)
    BY <2>1 DEF Kept
  <2> QED
    BY <1>11, <2>1, <2>2 DEF KthreaddPrepare, infoVars, threadVars, stopVars, clientVars, Safe
<1>12. ASSUME KthreaddCheck PROVE Kept'
  <2> SUFFICES ASSUME NEW x \in Clients, NEW y \in Threads, Mine(x, y)' PROVE Safe(x, y)'
    BY DEF Kept
  <2>1. Mine(x, y)
    BY <1>12 DEF KthreaddCheck, infoVars, threadVars, stopVars, clientVars, Mine
  <2>2. Safe(x, y)
    BY <2>1 DEF Kept
  <2> QED
    BY <1>12, <2>1, <2>2 DEF KthreaddCheck, infoVars, threadVars, stopVars, clientVars, Safe
<1>13. ASSUME KthreaddSchedule PROVE Kept'
  <2> SUFFICES ASSUME NEW x \in Clients, NEW y \in Threads, Mine(x, y)' PROVE Safe(x, y)'
    BY DEF Kept
  <2>1. Mine(x, y)
    BY <1>13 DEF KthreaddSchedule, infoVars, threadVars, stopVars, clientVars, Mine
  <2>2. Safe(x, y)
    BY <2>1 DEF Kept
  <2> QED
    BY <1>13, <2>1, <2>2 DEF KthreaddSchedule, infoVars, threadVars, stopVars, clientVars, Safe
<1>14. ASSUME KthreaddTake PROVE Kept'
  <2> SUFFICES ASSUME NEW x \in Clients, NEW y \in Threads, Mine(x, y)' PROVE Safe(x, y)'
    BY DEF Kept
  <2>1. Mine(x, y) /\ Safe(x, y)
    <3>1. pid = None /\ UNCHANGED <<pid, result, k, pc>>
      BY <1>14 DEF KthreaddTake, Hands, infoVars, clientVars
    <3>2. Mine(x, y)
      BY <3>1 DEF Mine
    <3> QED
      BY <3>2 DEF Kept
  <2> QED
    BY <1>14, <2>1 DEF KthreaddTake, threadVars, stopVars, clientVars, Safe
<1>15. ASSUME KernelThreadFails PROVE Kept'
  <2> SUFFICES ASSUME NEW x \in Clients, NEW y \in Threads, Mine(x, y)' PROVE Safe(x, y)'
    BY DEF Kept
  <2>1. Mine(x, y)
    BY <1>15 DEF KernelThreadFails, threadVars, stopVars, clientVars, Mine
  <2>2. Safe(x, y)
    BY <2>1 DEF Kept
  <2> QED
    BY <1>15, <2>1, <2>2 DEF KernelThreadFails, threadVars, stopVars, clientVars, Safe
<1>16. ASSUME StartedWait PROVE Kept'
  <2> SUFFICES ASSUME NEW x \in Clients, NEW y \in Threads, Mine(x, y)' PROVE Safe(x, y)'
    BY DEF Kept
  <2>1. Mine(x, y)
    BY <1>16 DEF StartedWait, infoVars, threadVars, stopVars, clientVars, Mine
  <2>2. Safe(x, y)
    BY <2>1 DEF Kept
  <2> QED
    BY <1>16, <2>1, <2>2 DEF StartedWait, infoVars, threadVars, stopVars, clientVars, Safe
<1>17. ASSUME StartedWake PROVE Kept'
  <2> SUFFICES ASSUME NEW x \in Clients, NEW y \in Threads, Mine(x, y)' PROVE Safe(x, y)'
    BY DEF Kept
  <2>1. Mine(x, y)
    BY <1>17 DEF StartedWake, infoVars, threadVars, stopVars, clientVars, Mine
  <2>2. Safe(x, y)
    BY <2>1 DEF Kept
  <2> QED
    BY <1>17, <2>1, <2>2 DEF StartedWake, infoVars, threadVars, stopVars, clientVars, Safe
<1>18. ASSUME FindTask PROVE Kept'
  <2> SUFFICES ASSUME NEW x \in Clients, NEW y \in Threads, Mine(x, y)' PROVE Safe(x, y)'
    BY DEF Kept
  <2>1. Mine(x, y)
    BY <1>18 DEF FindTask, threadVars, stopVars, clientVars, Mine
  <2>2. Safe(x, y)
    BY <2>1 DEF Kept
  <2> QED
    BY <1>18, <2>1, <2>2 DEF FindTask, threadVars, stopVars, clientVars, Safe
<1>19. ASSUME CompleteDone PROVE Kept'
  <2> SUFFICES ASSUME NEW x \in Clients, NEW y \in Threads, Mine(x, y)' PROVE Safe(x, y)'
    BY DEF Kept
  <2>1. Mine(x, y)
    BY <1>19 DEF CompleteDone, threadVars, stopVars, Mine
  <2>2. Safe(x, y)
    BY <2>1 DEF Kept
  <2> QED
    BY <1>19, <2>1, <2>2 DEF CompleteDone, threadVars, stopVars, Safe
<1>20. ASSUME NEW t \in Threads, KernelThread(t) PROVE Kept'
  <2> SUFFICES ASSUME NEW x \in Clients, NEW y \in Threads, Mine(x, y)' PROVE Safe(x, y)'
    BY DEF Kept
  <2>0. /\ UNCHANGED <<create, result, k, pc, woken, stopK>> /\ pid' = t
        /\ tpc[t] = "dead"
        /\ tpc' = [tpc EXCEPT ![t] = "start"] /\ tcreate' = [tcreate EXCEPT ![t] = create]
        /\ tstate' = [tstate EXCEPT ![t] = "RUNNING"] /\ detached' = detached \ {t}
    BY <1>20 DEF KernelThread, TGoto, infoVars, stopVars, clientVars
  <2>1. CASE x = create /\ y = t
    BY <2>0, <2>1 DEF Safe
  <2>2. CASE ~(x = create /\ y = t)
    <3>1. Mine(x, y)
      BY <2>0, <2>2 DEF Mine
    <3>2. Safe(x, y)
      BY <3>1 DEF Kept
    <3>3. y # t
      BY <2>0, <3>2 DEF Safe
    <3> QED
      BY <2>0, <3>2, <3>3 DEF Safe
  <2> QED
    BY <2>1, <2>2
<1>21. ASSUME NEW t \in Threads, ThreadStart(t) PROVE Kept'
  <2> SUFFICES ASSUME NEW x \in Clients, NEW y \in Threads, Mine(x, y)' PROVE Safe(x, y)'
    BY DEF Kept
  <2>1. Mine(x, y)
    BY <1>21 DEF ThreadStart, TGoto, kthreaddVars, infoVars, stopVars, clientVars, Mine
  <2>2. Safe(x, y)
    BY <2>1 DEF Kept
  <2> QED
    BY <1>21, <2>1, <2>2 DEF ThreadStart, TGoto, kthreaddVars, infoVars, stopVars, clientVars, Safe
<1>22. ASSUME NEW t \in Threads, ThreadTell(t) PROVE Kept'
  <2> SUFFICES ASSUME NEW x \in Clients, NEW y \in Threads, Mine(x, y)' PROVE Safe(x, y)'
    BY DEF Kept
  <2>1. Mine(x, y)
    BY <1>22 DEF ThreadTell, TGoto, stopVars, clientVars, Mine
  <2>2. Safe(x, y)
    BY <2>1 DEF Kept
  <2> QED
    BY <1>22, <2>1, <2>2 DEF ThreadTell, TGoto, stopVars, clientVars, Safe
<1>23. ASSUME NEW t \in Threads, ThreadRun(t) PROVE Kept'
  <2> SUFFICES ASSUME NEW x \in Clients, NEW y \in Threads, Mine(x, y)' PROVE Safe(x, y)'
    BY DEF Kept
  <2>1. Mine(x, y) /\ Safe(x, y)
    <3>1. Mine(x, y)
      BY <1>23 DEF ThreadRun, KthreadShouldStop, TGoto, kthreaddVars, infoVars, stopVars, Mine
    <3> QED
      BY <3>1 DEF Kept
  <2>2. CASE y = t
    <3>1. stopK # t
      <4>1. stopK = t => OwnerStops(t)
        BY <1>23 DEF ThreadRun, KthreadShouldStop
      <4>2. pc[x] \notin Stopping
        BY <2>1 DEF Mine, Infos
      <4> QED
        BY <2>1, <2>2, <4>1, <4>2 DEF OwnerStops, Safe
    <3> QED
      BY <1>23, <2>1, <2>2, <3>1 DEF ThreadRun, KthreadShouldStop, TGoto, kthreaddVars, infoVars, stopVars, Safe
  <2>3. CASE y # t
    BY <1>23, <2>1, <2>3 DEF ThreadRun, KthreadShouldStop, TGoto, kthreaddVars, infoVars, stopVars, Safe
  <2> QED
    BY <2>2, <2>3
<1>24. ASSUME NEW t \in Threads, FnPrepare(t) PROVE Kept'
  <2> SUFFICES ASSUME NEW x \in Clients, NEW y \in Threads, Mine(x, y)' PROVE Safe(x, y)'
    BY DEF Kept
  <2>1. Mine(x, y)
    BY <1>24 DEF FnPrepare, TGoto, kthreaddVars, infoVars, stopVars, clientVars, Mine
  <2>2. Safe(x, y)
    BY <2>1 DEF Kept
  <2> QED
    BY <1>24, <2>1, <2>2 DEF FnPrepare, TGoto, kthreaddVars, infoVars, stopVars, clientVars, Safe
<1>25. ASSUME NEW t \in Threads, FnTest(t) PROVE Kept'
  <2> SUFFICES ASSUME NEW x \in Clients, NEW y \in Threads, Mine(x, y)' PROVE Safe(x, y)'
    BY DEF Kept
  <2>1. Mine(x, y)
    BY <1>25 DEF FnTest, WakeThread, KthreadShouldStop, TGoto, kthreaddVars, infoVars, stopVars, clientVars, Mine
  <2>2. Safe(x, y)
    BY <2>1 DEF Kept
  <2> QED
    BY <1>25, <2>1, <2>2 DEF FnTest, WakeThread, KthreadShouldStop, TGoto, kthreaddVars, infoVars, stopVars, clientVars, Safe
<1>26. ASSUME NEW t \in Threads, FnSchedule(t) PROVE Kept'
  <2> SUFFICES ASSUME NEW x \in Clients, NEW y \in Threads, Mine(x, y)' PROVE Safe(x, y)'
    BY DEF Kept
  <2>1. Mine(x, y)
    BY <1>26 DEF FnSchedule, TGoto, kthreaddVars, infoVars, stopVars, clientVars, Mine
  <2>2. Safe(x, y)
    BY <2>1 DEF Kept
  <2> QED
    BY <1>26, <2>1, <2>2 DEF FnSchedule, TGoto, kthreaddVars, infoVars, stopVars, clientVars, Safe
<1>27. ASSUME NEW t \in Threads, ThreadCheck(t) PROVE Kept'
  <2> SUFFICES ASSUME NEW x \in Clients, NEW y \in Threads, Mine(x, y)' PROVE Safe(x, y)'
    BY DEF Kept
  <2>1. Mine(x, y)
    BY <1>27 DEF ThreadCheck, KthreadShouldStop, TGoto, kthreaddVars, infoVars, clientVars, Mine
  <2>2. Safe(x, y)
    BY <2>1 DEF Kept
  <2> QED
    BY <1>27, <2>1, <2>2 DEF ThreadCheck, KthreadShouldStop, TGoto, kthreaddVars, infoVars, clientVars, Safe
<1>28. ASSUME NEW t \in Threads, ThreadReport(t) PROVE Kept'
  <2> SUFFICES ASSUME NEW x \in Clients, NEW y \in Threads, Mine(x, y)' PROVE Safe(x, y)'
    BY DEF Kept
  <2>1. Mine(x, y)
    BY <1>28 DEF ThreadReport, TGoto, kthreaddVars, infoVars, Mine
  <2>2. Safe(x, y)
    BY <2>1 DEF Kept
  <2> QED
    BY <1>28, <2>1, <2>2 DEF ThreadReport, TGoto, kthreaddVars, infoVars, Safe
<1>29. ASSUME NEW t \in Threads, ThreadExit(t) PROVE Kept'
  <2> SUFFICES ASSUME NEW x \in Clients, NEW y \in Threads, Mine(x, y)' PROVE Safe(x, y)'
    BY DEF Kept
  <2>1. Mine(x, y)
    BY <1>29 DEF ThreadExit, WakeThread, TGoto, kthreaddVars, infoVars, stopVars, clientVars, Mine
  <2>2. Safe(x, y)
    BY <2>1 DEF Kept
  <2> QED
    BY <1>29, <2>1, <2>2 DEF ThreadExit, WakeThread, TGoto, kthreaddVars, infoVars, stopVars, clientVars, Safe
<1> QED
  BY <1>1, <1>2, <1>3, <1>4, <1>5, <1>6, <1>7, <1>8, <1>9, <1>10,
     <1>11, <1>12, <1>13, <1>14, <1>15, <1>16, <1>17, <1>18, <1>19, <1>20,
     <1>21, <1>22, <1>23, <1>24, <1>25, <1>26, <1>27, <1>28, <1>29
  DEF Next, ClientSteps, Kthreadd, ThreadSteps

(* A thread that can be stopped is parked or in its threadfn.              *)
LEMMA HasThread ==
  ASSUME TypeOK, Creation, Kept, NEW c \in Clients, pc[c] \in Owning
  PROVE  k[c] \in Threads /\ Safe(c, k[c]) /\ tpc[k[c]] \in {"park"} \cup Fn
<1>1. k[c] \in Threads /\ Mine(c, k[c])
  BY DEF Creation, Locked, Having, Mine
<1>2. Safe(c, k[c])
  BY <1>1 DEF Kept
<1>3. tpc[k[c]] \notin {"start", "tell"}
  BY <1>1, <1>2 DEF Creation, Newborn, Infos, Safe, Owning
<1> QED
  BY <1>1, <1>2, <1>3 DEF Safe, Unstarted

(* kthread_stop_info through the stop and the end of a thread.             *)
LEMMA StopInfoStep ==
  ASSUME TypeOK, Creation, Ownership, ~misled, ~misled', [Next]_vars
  PROVE  StopInfo'
<1> USE KthreadAssumption DEF TypeOK, Ownership, Creation, Fn, Unstarted, Owning, Stopping
<1>1. CASE UNCHANGED vars
  BY <1>1 DEF vars, StopInfo, Ending
<1>2. ASSUME NEW c \in Clients, KthreadCreate(c) PROVE StopInfo'
  BY <1>2 DEF KthreadCreate, Goto, threadVars, stopVars, StopInfo, Ending
<1>3. ASSUME NEW c \in Clients, CreateReturn(c) PROVE StopInfo'
  <2>1. /\ pc[c] = "c_wait" /\ pc'[c] \in {"idle", "has"}
        /\ \A x \in Clients : x # c => pc'[x] = pc[x] /\ k'[x] = k[x]
    BY <1>3 DEF CreateReturn, Goto
  <2>2. UNCHANGED <<stopK, stopDone, stopErr, tcreate, detached, tpc, ran>>
    BY <1>3 DEF CreateReturn, stopVars, threadVars
  <2>3. \A x \in Clients : pc'[x] \in Stopping \cup {"s_set"} \/ pc[x] \in Stopping \cup {"s_set"}
                            => pc'[x] = pc[x] /\ k'[x] = k[x]
    BY <2>1
  <2>4. \A x \in Clients : pc[x] \in Stopping /\ Ending(x) => Ending(x)'
    BY <2>2, <2>3 DEF Ending
  <2> QED
    BY <2>2, <2>3, <2>4 DEF StopInfo
<1>4. ASSUME NEW c \in Clients, WakeUpProcess(c) PROVE StopInfo'
  BY <1>4 DEF WakeUpProcess, WakeThread, kthreaddVars, infoVars, stopVars, StopInfo, Ending
<1>5. ASSUME NEW c \in Clients, Detach(c) PROVE StopInfo'
  <2>1. k[c] \in Threads /\ tcreate[k[c]] = c
    BY <1>5, HasThread DEF Detach, Safe
  <2>2. /\ pc[c] = "has" /\ pc' = [pc EXCEPT ![c] = "idle"] /\ k' = [k EXCEPT ![c] = None]
        /\ detached' = detached \cup {k[c]} /\ ran' = [ran EXCEPT ![c] = FALSE]
        /\ UNCHANGED <<stopK, stopDone, stopErr, tcreate, tpc>>
    BY <1>5 DEF Detach, Forget, Goto, stopVars
  <2> QED
    BY <2>1, <2>2 DEF StopInfo, Ending
<1>6. ASSUME NEW c \in Clients, StopBegin(c) PROVE StopInfo'
  <2>1. \A x \in Clients : pc[x] \notin Stopping
    BY <1>6 DEF StopBegin, Locked
  <2>2. stopDone' = 0 /\ pc' = [pc EXCEPT ![c] = "s_set"] /\ UNCHANGED <<stopK, k>>
    BY <1>6 DEF StopBegin, Goto
  <2> QED
    BY <2>1, <2>2 DEF StopInfo
<1>7. ASSUME NEW c \in Clients, StopSet(c) PROVE StopInfo'
  <2>1. k[c] \in Threads /\ Safe(c, k[c]) /\ tpc[k[c]] \in {"park"} \cup Fn
    BY <1>7, HasThread DEF StopSet
  <2>2. \A x \in Clients : pc[x] \in Stopping \cup {"s_set"} => x = c
    BY <1>7, OnePin DEF StopSet
  <2>3. /\ stopK' = k[c] /\ pc' = [pc EXCEPT ![c] = "s_wake"] /\ pc[c] = "s_set"
        /\ UNCHANGED <<stopDone, tcreate, detached, tpc, k>>
    BY <1>7 DEF StopSet, Goto, threadVars
  <2>4. Ending(c)'
    BY <2>1, <2>3 DEF Ending, Safe, StopInfo
  <2>5. \A x \in Clients : pc'[x] \in Stopping \cup {"s_set"} => x = c
    BY <2>2, <2>3
  <2> QED
    BY <2>1, <2>3, <2>4, <2>5 DEF StopInfo
<1>8. ASSUME NEW c \in Clients, StopWake(c) PROVE StopInfo'
  BY <1>8 DEF StopWake, WakeThread, Goto, kthreaddVars, infoVars, stopVars, StopInfo, Ending
<1>9. ASSUME NEW c \in Clients, StopEnd(c) PROVE StopInfo'
  <2>1. \A x \in Clients : pc[x] \in Stopping \cup {"s_set"} => x = c
    BY <1>9, OnePin DEF StopEnd
  <2>2. stopK' = None /\ pc' = [pc EXCEPT ![c] = "stopped"]
    BY <1>9 DEF StopEnd, Goto
  <2>3. \A x \in Clients : pc'[x] \notin Stopping \cup {"s_set"}
    BY <2>1, <2>2
  <2> QED
    BY <2>2, <2>3 DEF StopInfo
<1>10. ASSUME NEW c \in Clients, StopReturn(c) PROVE StopInfo'
  BY <1>10 DEF StopReturn, Forget, Goto, kthreaddVars, infoVars, threadVars, stopVars, StopInfo, Ending
<1>11. ASSUME KthreaddPrepare PROVE StopInfo'
  BY <1>11 DEF KthreaddPrepare, infoVars, threadVars, stopVars, clientVars, StopInfo, Ending
<1>12. ASSUME KthreaddCheck PROVE StopInfo'
  BY <1>12 DEF KthreaddCheck, infoVars, threadVars, stopVars, clientVars, StopInfo, Ending
<1>13. ASSUME KthreaddSchedule PROVE StopInfo'
  BY <1>13 DEF KthreaddSchedule, infoVars, threadVars, stopVars, clientVars, StopInfo, Ending
<1>14. ASSUME KthreaddTake PROVE StopInfo'
  BY <1>14 DEF KthreaddTake, infoVars, threadVars, stopVars, clientVars, StopInfo, Ending
<1>15. ASSUME KernelThreadFails PROVE StopInfo'
  BY <1>15 DEF KernelThreadFails, threadVars, stopVars, clientVars, StopInfo, Ending
<1>16. ASSUME StartedWait PROVE StopInfo'
  BY <1>16 DEF StartedWait, infoVars, threadVars, stopVars, clientVars, StopInfo, Ending
<1>17. ASSUME StartedWake PROVE StopInfo'
  BY <1>17 DEF StartedWake, infoVars, threadVars, stopVars, clientVars, StopInfo, Ending
<1>18. ASSUME FindTask PROVE StopInfo'
  BY <1>18 DEF FindTask, threadVars, stopVars, clientVars, StopInfo, Ending
<1>19. ASSUME CompleteDone PROVE StopInfo'
  BY <1>19 DEF CompleteDone, threadVars, stopVars, StopInfo, Ending
<1>20. ASSUME NEW t \in Threads, KernelThread(t) PROVE StopInfo'
  <2>1. /\ tpc[t] = "dead" /\ usage[t] = 0
        /\ tpc' = [tpc EXCEPT ![t] = "start"] /\ tcreate' = [tcreate EXCEPT ![t] = create]
        /\ detached' = detached \ {t} /\ UNCHANGED <<stopK, stopDone, stopErr, ran, pc, k>>
    BY <1>20 DEF KernelThread, TGoto, stopVars, clientVars
  <2>2. create \in Clients /\ pc[create] = "c_wait"
    BY <1>20 DEF KernelThread, Hands, Infos
  <2> SUFFICES ASSUME NEW x \in Clients, pc[x] \in Stopping PROVE Ending(x)'
    BY <2>1 DEF StopInfo
  <2>3. Ending(x) /\ k[x] \in Threads
    BY DEF StopInfo, Locked, Having
  <2>4. CASE k[x] = t
    <3>1. pc[x] # "s_wake"
      <4> SUFFICES ASSUME pc[x] = "s_wake" PROVE FALSE
        OBVIOUS
      <4>1. Pinned(t)
        BY <2>4 DEF Pinned
      <4>2. usage[t] >= 1
        BY <4>1, InUse
      <4> QED
        BY <2>1, <4>2
    <3> QED
      BY <2>1, <2>2, <2>3, <2>4, <3>1 DEF Ending
  <2>5. CASE k[x] # t
    BY <2>1, <2>3, <2>5 DEF Ending
  <2> QED
    BY <2>4, <2>5
<1>21. ASSUME NEW t \in Threads, ThreadStart(t) PROVE StopInfo'
  BY <1>21 DEF ThreadStart, TGoto, kthreaddVars, infoVars, stopVars, clientVars, StopInfo, Ending
<1>22. ASSUME NEW t \in Threads, ThreadTell(t) PROVE StopInfo'
  BY <1>22 DEF ThreadTell, TGoto, stopVars, clientVars, StopInfo, Ending
<1>23. ASSUME NEW t \in Threads, ThreadRun(t) PROVE StopInfo'
  <2> SUFFICES ASSUME NEW x \in Clients, pc[x] \in Stopping PROVE Ending(x)'
    BY <1>23 DEF ThreadRun, KthreadShouldStop, TGoto, kthreaddVars, infoVars, stopVars, StopInfo
  <2>1. /\ tpc[t] = "park" /\ tpc'[t] \in {"check", "f_loop"}
        /\ \A y \in Threads : y # t => tpc'[y] = tpc[y]
        /\ UNCHANGED <<stopDone, stopErr, tcreate, detached, k, pc>>
    BY <1>23 DEF ThreadRun, TGoto, stopVars
  <2>3. \A y \in Clients : k[y] # t => (ran'[y] <=> ran[y])
    <3>1. ran' = ran \/ ran' = [d \in Clients |-> ran[d] \/ (d = tcreate[t] /\ k[d] = t)]
      BY <1>23 DEF ThreadRun
    <3> QED
      BY <3>1, Zenon
  <2>2. Ending(x) /\ k[x] \in Threads /\ stopK = k[x]
    BY DEF StopInfo, Locked, Having
  <2>4. k[x] = t => tcreate[t] = x
    <3>1. stopK = t => OwnerStops(t)
      BY <1>23 DEF ThreadRun, KthreadShouldStop
    <3> QED
      BY <2>2, <3>1, OnePin DEF OwnerStops
  <2> QED
    BY <2>1, <2>2, <2>3, <2>4 DEF Ending
<1>24. ASSUME NEW t \in Threads, FnPrepare(t) PROVE StopInfo'
  BY <1>24 DEF FnPrepare, TGoto, kthreaddVars, infoVars, stopVars, clientVars, StopInfo, Ending
<1>25. ASSUME NEW t \in Threads, FnTest(t) PROVE StopInfo'
  <2> SUFFICES ASSUME NEW x \in Clients, pc[x] \in Stopping PROVE Ending(x)'
    BY <1>25 DEF FnTest, WakeThread, KthreadShouldStop, TGoto, kthreaddVars, infoVars, stopVars, clientVars, StopInfo
  <2>1. /\ tpc[t] = "f_test" /\ tpc'[t] \in {"check", "f_sched"}
        /\ \A y \in Threads : y # t => tpc'[y] = tpc[y]
        /\ UNCHANGED <<stopDone, stopErr, tcreate, detached, k, pc, ran>>
    BY <1>25 DEF FnTest, TGoto, stopVars, clientVars
  <2>2. Ending(x) /\ k[x] \in Threads
    BY DEF StopInfo, Locked, Having
  <2> QED
    BY <2>1, <2>2 DEF Ending
<1>26. ASSUME NEW t \in Threads, FnSchedule(t) PROVE StopInfo'
  BY <1>26 DEF FnSchedule, TGoto, kthreaddVars, infoVars, stopVars, clientVars, StopInfo, Ending
<1>27. ASSUME NEW t \in Threads, ThreadCheck(t) PROVE StopInfo'
  <2> SUFFICES ASSUME NEW x \in Clients, pc[x] \in Stopping PROVE Ending(x)'
    BY <1>27 DEF ThreadCheck, KthreadShouldStop, TGoto, kthreaddVars, infoVars, clientVars, StopInfo
  <2>1. /\ tpc[t] = "check" /\ (stopK = t => tpc'[t] = "report")
        /\ stopK # t => stopErr' = stopErr
        /\ \A y \in Threads : y # t => tpc'[y] = tpc[y]
        /\ UNCHANGED <<stopDone, tcreate, detached, k, pc, ran>>
    BY <1>27 DEF ThreadCheck, KthreadShouldStop, TGoto, clientVars
  <2>2. Ending(x) /\ k[x] \in Threads /\ stopK = k[x]
    BY DEF StopInfo, Locked, Having
  <2>3. CASE k[x] = t
    <3>1. stopDone = 0 /\ tcreate[t] = x /\ t \notin detached
      BY <2>1, <2>2, <2>3 DEF Ending
    <3>2. tpc'[t] = "report" /\ k'[x] = t
      BY <2>1, <2>2, <2>3
    <3> QED
      BY <2>1, <3>1, <3>2 DEF Ending
  <2>4. CASE k[x] # t
    BY <2>1, <2>2, <2>4 DEF Ending
  <2> QED
    BY <2>3, <2>4
<1>28. ASSUME NEW t \in Threads, ThreadReport(t) PROVE StopInfo'
  <2>1. PICK x \in Clients : pc[x] \in Stopping /\ k[x] = t
    BY <1>28 DEF ThreadReport, Results, Returned, StopInfo
  <2>2. \A y \in Clients : pc[y] \in Stopping \cup {"s_set"} => y = x
    BY <2>1, OnePin
  <2>3. /\ tpc[t] = "report" /\ tpc'[t] = "exit" /\ stopDone' = stopDone + 1
        /\ UNCHANGED <<stopK, stopErr, ran, k, pc>>
    BY <1>28 DEF ThreadReport, TGoto
  <2>4. stopDone = 0 /\ stopK = k[x] /\ tcreate[k[x]] = x
    BY <2>1, <2>3 DEF StopInfo, Ending
  <2>5. stopErr = IF ran[x] THEN k[x] ELSE EINTR
    BY <2>1, <2>3, <2>4 DEF Results, Returned, Recorded
  <2>6. Ending(x)'
    BY <2>1, <2>3, <2>4, <2>5 DEF Ending
  <2>7. \A y \in Clients : pc[y] # "s_set"
    BY <2>1, <2>2
  <2> QED
    BY <2>2, <2>3, <2>4, <2>6, <2>7 DEF StopInfo
<1>29. ASSUME NEW t \in Threads, ThreadExit(t) PROVE StopInfo'
  BY <1>29 DEF ThreadExit, WakeThread, TGoto, kthreaddVars, infoVars, stopVars, clientVars, StopInfo, Ending
<1> QED
  BY <1>1, <1>2, <1>3, <1>4, <1>5, <1>6, <1>7, <1>8, <1>9, <1>10,
     <1>11, <1>12, <1>13, <1>14, <1>15, <1>16, <1>17, <1>18, <1>19, <1>20,
     <1>21, <1>22, <1>23, <1>24, <1>25, <1>26, <1>27, <1>28, <1>29
  DEF Next, ClientSteps, Kthreadd, ThreadSteps

(* What threads return and what is recorded of it.                         *)
LEMMA ResultsStep ==
  ASSUME TypeOK, Creation, Ownership, ~misled, ~misled', [Next]_vars
  PROVE  Results'
<1> USE KthreadAssumption DEF TypeOK, Ownership, Creation, Fn, Unstarted, Owning, Stopping
<1>1. CASE UNCHANGED vars
  BY <1>1 DEF vars, Results, Returned, Recorded
<1>2. ASSUME NEW c \in Clients, KthreadCreate(c) PROVE Results'
  BY <1>2 DEF KthreadCreate, Goto, threadVars, stopVars, Results, Returned, Recorded
<1>3. ASSUME NEW c \in Clients, CreateReturn(c) PROVE Results'
  <2>1. pc[c] = "c_wait" /\ done[c] = 1
    BY <1>3 DEF CreateReturn, Infos
  <2>2. result[c] # None /\ ~ran[c] /\ ~woken[c]
    BY <2>1 DEF Infos, Locked, Having
  <2>3. /\ \A x \in Clients : x # c => pc'[x] = pc[x] /\ k'[x] = k[x]
        /\ UNCHANGED <<tpc, tcreate, ret, stopK, stopErr, ran>>
    BY <1>3 DEF CreateReturn, Goto, stopVars, threadVars
  <2>4. pc'[c] \in Owning \cup Stopping => Recorded(c)'
    <3>1. CASE result[c] = ENOMEM
      BY <1>3, <3>1 DEF CreateReturn, Goto
    <3>2. CASE result[c] # ENOMEM
      <4>1. k'[c] = result[c] /\ result[c] \in Threads
        BY <1>3, <2>2, <3>2 DEF CreateReturn
      <4>2. Mine(c, result[c])
        BY DEF Mine
      <4>3. tpc[k'[c]] \in Unstarted
        BY <2>2, <4>1, <4>2 DEF Kept, Safe
      <4> QED
        BY <2>2, <2>3, <4>1, <4>3 DEF Recorded
    <3> QED
      BY <3>1, <3>2
  <2>5. \A x \in Clients : x # c /\ Recorded(x) => Recorded(x)'
    BY <2>3 DEF Recorded
  <2>6. \A y \in Threads : Returned(y) => Returned(y)'
    BY <2>3 DEF Returned
  <2> QED
    BY <2>3, <2>4, <2>5, <2>6 DEF Results
<1>4. ASSUME NEW c \in Clients, WakeUpProcess(c) PROVE Results'
  BY <1>4 DEF WakeUpProcess, WakeThread, kthreaddVars, infoVars, stopVars, Results, Returned, Recorded
<1>5. ASSUME NEW c \in Clients, Detach(c) PROVE Results'
  BY <1>5 DEF Detach, Forget, Goto, kthreaddVars, infoVars, stopVars, Results, Returned, Recorded
<1>6. ASSUME NEW c \in Clients, StopBegin(c) PROVE Results'
  BY <1>6 DEF StopBegin, Goto, kthreaddVars, infoVars, Results, Returned, Recorded
<1>7. ASSUME NEW c \in Clients, StopSet(c) PROVE Results'
  <2>1. \A x \in Clients : pc[x] \notin Stopping
    BY <1>7, OnePin DEF StopSet
  <2>2. \A y \in Threads : stopK # y
    BY <2>1 DEF StopInfo
  <2>3. pc[c] = "s_set" /\ pc' = [pc EXCEPT ![c] = "s_wake"] /\ UNCHANGED <<tpc, tcreate, ret, stopErr, ran, k>>
    BY <1>7 DEF StopSet, Goto, threadVars
  <2> QED
    BY <2>2, <2>3 DEF Results, Returned, Recorded
<1>8. ASSUME NEW c \in Clients, StopWake(c) PROVE Results'
  BY <1>8 DEF StopWake, WakeThread, Goto, kthreaddVars, infoVars, stopVars, Results, Returned, Recorded
<1>9. ASSUME NEW c \in Clients, StopEnd(c) PROVE Results'
  <2>1. stopK = k[c] /\ k[c] \in Threads /\ tpc[k[c]] \in {"exit", "dead"} \cup Unstarted
    BY <1>9 DEF StopEnd, StopInfo, Ending, Locked, Having
  <2>2. pc' = [pc EXCEPT ![c] = "stopped"] /\ UNCHANGED <<tpc, tcreate, ret, ran, k>>
    BY <1>9 DEF StopEnd, Goto, threadVars
  <2>3. \A y \in Threads : tpc[y] \in {"check", "report"} => stopK # y
    BY <2>1
  <2> QED
    BY <2>2, <2>3 DEF Results, Returned, Recorded
<1>10. ASSUME NEW c \in Clients, StopReturn(c) PROVE Results'
  BY <1>10 DEF StopReturn, Forget, Goto, kthreaddVars, infoVars, threadVars, stopVars, Results, Returned, Recorded
<1>11. ASSUME KthreaddPrepare PROVE Results'
  BY <1>11 DEF KthreaddPrepare, infoVars, threadVars, stopVars, clientVars, Results, Returned, Recorded
<1>12. ASSUME KthreaddCheck PROVE Results'
  BY <1>12 DEF KthreaddCheck, infoVars, threadVars, stopVars, clientVars, Results, Returned, Recorded
<1>13. ASSUME KthreaddSchedule PROVE Results'
  BY <1>13 DEF KthreaddSchedule, infoVars, threadVars, stopVars, clientVars, Results, Returned, Recorded
<1>14. ASSUME KthreaddTake PROVE Results'
  BY <1>14 DEF KthreaddTake, infoVars, threadVars, stopVars, clientVars, Results, Returned, Recorded
<1>15. ASSUME KernelThreadFails PROVE Results'
  BY <1>15 DEF KernelThreadFails, threadVars, stopVars, clientVars, Results, Returned, Recorded
<1>16. ASSUME StartedWait PROVE Results'
  BY <1>16 DEF StartedWait, infoVars, threadVars, stopVars, clientVars, Results, Returned, Recorded
<1>17. ASSUME StartedWake PROVE Results'
  BY <1>17 DEF StartedWake, infoVars, threadVars, stopVars, clientVars, Results, Returned, Recorded
<1>18. ASSUME FindTask PROVE Results'
  BY <1>18 DEF FindTask, threadVars, stopVars, clientVars, Results, Returned, Recorded
<1>19. ASSUME CompleteDone PROVE Results'
  BY <1>19 DEF CompleteDone, threadVars, stopVars, Results, Returned, Recorded
<1>20. ASSUME NEW t \in Threads, KernelThread(t) PROVE Results'
  <2>1. /\ tpc[t] = "dead"
        /\ tpc' = [tpc EXCEPT ![t] = "start"] /\ ret' = [ret EXCEPT ![t] = EINTR]
        /\ tcreate' = [tcreate EXCEPT ![t] = create] /\ UNCHANGED <<stopK, stopErr, pc, k, ran>>
    BY <1>20 DEF KernelThread, TGoto, stopVars, clientVars
  <2>2. create \in Clients /\ pc[create] = "c_wait"
    BY <1>20 DEF KernelThread, Hands, Infos
  <2>3. ASSUME NEW y \in Threads PROVE Returned(y)'
    BY <2>1 DEF Results, Returned
  <2>4. ASSUME NEW x \in Clients, pc[x] \in Owning \cup Stopping, tcreate'[k[x]] = x PROVE Recorded(x)'
    <3>1. k[x] \in Threads /\ k[x] # t
      BY <2>1, <2>2, <2>4 DEF Locked, Having
    <3> QED
      BY <2>1, <2>4, <3>1 DEF Results, Recorded
  <2> QED
    BY <2>1, <2>3, <2>4 DEF Results
<1>21. ASSUME NEW t \in Threads, ThreadStart(t) PROVE Results'
  BY <1>21 DEF ThreadStart, TGoto, kthreaddVars, infoVars, stopVars, clientVars, Results, Returned, Recorded
<1>22. ASSUME NEW t \in Threads, ThreadTell(t) PROVE Results'
  BY <1>22 DEF ThreadTell, TGoto, stopVars, clientVars, Results, Returned, Recorded
<1>23. ASSUME NEW t \in Threads, ThreadRun(t) PROVE Results'
  <2>1. /\ tpc[t] = "park" /\ tpc'[t] = IF stopK = t THEN "check" ELSE "f_loop"
        /\ \A y \in Threads : y # t => tpc'[y] = tpc[y]
        /\ UNCHANGED <<stopK, stopErr, ret, tcreate, pc, k>>
    BY <1>23 DEF ThreadRun, KthreadShouldStop, TGoto, stopVars
  <2>2. \A x \in Clients : k[x] # t \/ stopK = t => (ran'[x] <=> ran[x])
    BY <1>23 DEF ThreadRun, KthreadShouldStop
  <2>3. ret[t] = EINTR
    BY <2>1 DEF Results, Returned
  <2>4. ASSUME NEW y \in Threads PROVE Returned(y)'
    <3>1. CASE y = t
      BY <2>1, <2>3, <3>1 DEF Returned
    <3>2. CASE y # t
      BY <2>1, <3>2 DEF Results, Returned
    <3> QED
      BY <3>1, <3>2
  <2>5. ASSUME NEW x \in Clients, pc[x] \in Owning \cup Stopping, tcreate[k[x]] = x PROVE Recorded(x)'
    <3>1. k[x] \in Threads /\ Recorded(x)
      BY <2>5 DEF Results, Locked, Having
    <3>2. CASE k[x] # t
      BY <2>1, <2>2, <3>1, <3>2 DEF Recorded
    <3>3. CASE k[x] = t /\ stopK = t
      BY <2>1, <2>2, <2>3, <3>1, <3>3 DEF Recorded
    <3>4. CASE k[x] = t /\ stopK # t
      <4>3. ran'[x]
        <5>1. ran' = [d \in Clients |-> ran[d] \/ (d = tcreate[t] /\ k[d] = t)]
          BY <1>23, <3>4 DEF ThreadRun, KthreadShouldStop
        <5> QED
          BY <2>5, <3>4, <5>1, Zenon
      <4> QED
        BY <2>1, <3>4, <4>3 DEF Recorded
    <3> QED
      BY <3>2, <3>3, <3>4
  <2> QED
    BY <2>1, <2>4, <2>5 DEF Results
<1>24. ASSUME NEW t \in Threads, FnPrepare(t) PROVE Results'
  BY <1>24 DEF FnPrepare, TGoto, kthreaddVars, infoVars, stopVars, clientVars, Results, Returned, Recorded
<1>25. ASSUME NEW t \in Threads, FnTest(t) PROVE Results'
  <2>1. /\ tpc[t] = "f_test" /\ \A y \in Threads : y # t => tpc'[y] = tpc[y] /\ ret'[y] = ret[y]
        /\ (tpc'[t] = "check" /\ ret'[t] = t) \/ tpc'[t] = "f_sched"
        /\ UNCHANGED <<stopK, stopErr, ran, tcreate, pc, k>>
    BY <1>25 DEF FnTest, TGoto, stopVars, clientVars
  <2>2. ASSUME NEW y \in Threads PROVE Returned(y)'
    BY <2>1 DEF Results, Returned
  <2>3. ASSUME NEW x \in Clients, pc[x] \in Owning \cup Stopping, tcreate[k[x]] = x PROVE Recorded(x)'
    <3>1. k[x] \in Threads /\ Recorded(x)
      BY <2>3 DEF Results, Locked, Having
    <3>2. CASE k[x] = t
      BY <2>1, <3>1, <3>2 DEF Recorded
    <3>3. CASE k[x] # t
      BY <2>1, <3>1, <3>3 DEF Recorded
    <3> QED
      BY <3>2, <3>3
  <2> QED
    BY <2>1, <2>2, <2>3 DEF Results
<1>26. ASSUME NEW t \in Threads, FnSchedule(t) PROVE Results'
  BY <1>26 DEF FnSchedule, TGoto, kthreaddVars, infoVars, stopVars, clientVars, Results, Returned, Recorded
<1>27. ASSUME NEW t \in Threads, ThreadCheck(t) PROVE Results'
  <2>1. /\ tpc[t] = "check" /\ \A y \in Threads : y # t => tpc'[y] = tpc[y]
        /\ tpc'[t] = IF stopK = t THEN "report" ELSE "exit"
        /\ stopErr' = IF stopK = t THEN ret[t] ELSE stopErr
        /\ UNCHANGED <<stopK, ret, ran, tcreate, pc, k>>
    BY <1>27 DEF ThreadCheck, KthreadShouldStop, TGoto, clientVars
  <2>2. \A x \in Clients : pc[x] \in Owning \cup Stopping => k[x] \in Threads
    BY DEF Locked, Having
  <2> QED
    BY <2>1, <2>2 DEF Results, Returned, Recorded
<1>28. ASSUME NEW t \in Threads, ThreadReport(t) PROVE Results'
  BY <1>28 DEF ThreadReport, TGoto, kthreaddVars, infoVars, Results, Returned, Recorded
<1>29. ASSUME NEW t \in Threads, ThreadExit(t) PROVE Results'
  BY <1>29 DEF ThreadExit, WakeThread, TGoto, kthreaddVars, infoVars, stopVars, clientVars, Results, Returned, Recorded
<1> QED
  BY <1>1, <1>2, <1>3, <1>4, <1>5, <1>6, <1>7, <1>8, <1>9, <1>10,
     <1>11, <1>12, <1>13, <1>14, <1>15, <1>16, <1>17, <1>18, <1>19, <1>20,
     <1>21, <1>22, <1>23, <1>24, <1>25, <1>26, <1>27, <1>28, <1>29
  DEF Next, ClientSteps, Kthreadd, ThreadSteps

(* What kthread_stop returns.                                              *)
LEMMA StopResultStep ==
  ASSUME TypeOK, Creation, Ownership, ~misled, ~misled', [Next]_vars
  PROVE  StopResult'
<1> USE KthreadAssumption DEF TypeOK, Ownership, Creation, Fn, Unstarted, Owning, Stopping
<1>1. CASE UNCHANGED vars
  BY <1>1 DEF vars, StopResult
<1>2. ASSUME NEW c \in Clients, KthreadCreate(c) PROVE StopResult'
  BY <1>2 DEF KthreadCreate, Goto, threadVars, stopVars, StopResult
<1>3. ASSUME NEW c \in Clients, CreateReturn(c) PROVE StopResult'
  BY <1>3 DEF CreateReturn, Goto, kthreaddVars, threadVars, stopVars, StopResult
<1>4. ASSUME NEW c \in Clients, WakeUpProcess(c) PROVE StopResult'
  BY <1>4 DEF WakeUpProcess, WakeThread, kthreaddVars, infoVars, stopVars, StopResult
<1>5. ASSUME NEW c \in Clients, Detach(c) PROVE StopResult'
  BY <1>5 DEF Detach, Forget, Goto, kthreaddVars, infoVars, stopVars, StopResult
<1>6. ASSUME NEW c \in Clients, StopBegin(c) PROVE StopResult'
  BY <1>6 DEF StopBegin, Goto, kthreaddVars, infoVars, StopResult
<1>7. ASSUME NEW c \in Clients, StopSet(c) PROVE StopResult'
  BY <1>7 DEF StopSet, Goto, kthreaddVars, infoVars, threadVars, StopResult
<1>8. ASSUME NEW c \in Clients, StopWake(c) PROVE StopResult'
  BY <1>8 DEF StopWake, WakeThread, Goto, kthreaddVars, infoVars, stopVars, StopResult
<1>9. ASSUME NEW c \in Clients, StopEnd(c) PROVE StopResult'
  <2>1. /\ k[c] \in Threads /\ stopErr = (IF ran[c] THEN k[c] ELSE EINTR)
        /\ tcreate[k[c]] = c => tpc[k[c]] \in {"exit", "dead"}
    BY <1>9 DEF StopEnd, StopInfo, Ending, Locked, Having
  <2>2. /\ pc' = [pc EXCEPT ![c] = "stopped"] /\ rv' = [rv EXCEPT ![c] = stopErr]
        /\ UNCHANGED <<tpc, tcreate, k, ran>>
    BY <1>9 DEF StopEnd, Goto, threadVars
  <2> QED
    BY <2>1, <2>2 DEF StopResult
<1>10. ASSUME NEW c \in Clients, StopReturn(c) PROVE StopResult'
  BY <1>10 DEF StopReturn, Forget, Goto, kthreaddVars, infoVars, threadVars, stopVars, StopResult
<1>11. ASSUME KthreaddPrepare PROVE StopResult'
  BY <1>11 DEF KthreaddPrepare, infoVars, threadVars, stopVars, clientVars, StopResult
<1>12. ASSUME KthreaddCheck PROVE StopResult'
  BY <1>12 DEF KthreaddCheck, infoVars, threadVars, stopVars, clientVars, StopResult
<1>13. ASSUME KthreaddSchedule PROVE StopResult'
  BY <1>13 DEF KthreaddSchedule, infoVars, threadVars, stopVars, clientVars, StopResult
<1>14. ASSUME KthreaddTake PROVE StopResult'
  BY <1>14 DEF KthreaddTake, infoVars, threadVars, stopVars, clientVars, StopResult
<1>15. ASSUME KernelThreadFails PROVE StopResult'
  BY <1>15 DEF KernelThreadFails, threadVars, stopVars, clientVars, StopResult
<1>16. ASSUME StartedWait PROVE StopResult'
  BY <1>16 DEF StartedWait, infoVars, threadVars, stopVars, clientVars, StopResult
<1>17. ASSUME StartedWake PROVE StopResult'
  BY <1>17 DEF StartedWake, infoVars, threadVars, stopVars, clientVars, StopResult
<1>18. ASSUME FindTask PROVE StopResult'
  BY <1>18 DEF FindTask, threadVars, stopVars, clientVars, StopResult
<1>19. ASSUME CompleteDone PROVE StopResult'
  BY <1>19 DEF CompleteDone, threadVars, stopVars, StopResult
<1>20. ASSUME NEW t \in Threads, KernelThread(t) PROVE StopResult'
  <2>1. /\ tpc' = [tpc EXCEPT ![t] = "start"] /\ tcreate' = [tcreate EXCEPT ![t] = create]
        /\ UNCHANGED <<pc, k, ran, rv>>
    BY <1>20 DEF KernelThread, TGoto, clientVars
  <2>2. create \in Clients /\ pc[create] = "c_wait"
    BY <1>20 DEF KernelThread, Hands, Infos
  <2> QED
    BY <2>1, <2>2 DEF StopResult
<1>21. ASSUME NEW t \in Threads, ThreadStart(t) PROVE StopResult'
  BY <1>21 DEF ThreadStart, TGoto, kthreaddVars, infoVars, stopVars, clientVars, StopResult
<1>22. ASSUME NEW t \in Threads, ThreadTell(t) PROVE StopResult'
  BY <1>22 DEF ThreadTell, TGoto, stopVars, clientVars, StopResult
<1>23. ASSUME NEW t \in Threads, ThreadRun(t) PROVE StopResult'
  <2>1. /\ tpc[t] = "park" /\ \A y \in Threads : y # t => tpc'[y] = tpc[y]
        /\ UNCHANGED <<tcreate, pc, k, rv>>
    BY <1>23 DEF ThreadRun, TGoto
  <2>2. \A x \in Clients : ~(tcreate[t] = x /\ k[x] = t) => (ran'[x] <=> ran[x])
    BY <1>23 DEF ThreadRun
  <2> QED
    BY <2>1, <2>2 DEF StopResult
<1>24. ASSUME NEW t \in Threads, FnPrepare(t) PROVE StopResult'
  BY <1>24 DEF FnPrepare, TGoto, kthreaddVars, infoVars, stopVars, clientVars, StopResult
<1>25. ASSUME NEW t \in Threads, FnTest(t) PROVE StopResult'
  <2>1. /\ tpc[t] = "f_test" /\ \A y \in Threads : y # t => tpc'[y] = tpc[y]
        /\ UNCHANGED <<tcreate, pc, k, rv, ran>>
    BY <1>25 DEF FnTest, TGoto, clientVars
  <2> QED
    BY <2>1 DEF StopResult
<1>26. ASSUME NEW t \in Threads, FnSchedule(t) PROVE StopResult'
  BY <1>26 DEF FnSchedule, TGoto, kthreaddVars, infoVars, stopVars, clientVars, StopResult
<1>27. ASSUME NEW t \in Threads, ThreadCheck(t) PROVE StopResult'
  <2>1. /\ tpc[t] = "check" /\ \A y \in Threads : y # t => tpc'[y] = tpc[y]
        /\ UNCHANGED <<tcreate, pc, k, rv, ran>>
    BY <1>27 DEF ThreadCheck, TGoto, clientVars
  <2> QED
    BY <2>1 DEF StopResult
<1>28. ASSUME NEW t \in Threads, ThreadReport(t) PROVE StopResult'
  BY <1>28 DEF ThreadReport, TGoto, kthreaddVars, infoVars, StopResult
<1>29. ASSUME NEW t \in Threads, ThreadExit(t) PROVE StopResult'
  BY <1>29 DEF ThreadExit, WakeThread, TGoto, kthreaddVars, infoVars, stopVars, clientVars, StopResult
<1> QED
  BY <1>1, <1>2, <1>3, <1>4, <1>5, <1>6, <1>7, <1>8, <1>9, <1>10,
     <1>11, <1>12, <1>13, <1>14, <1>15, <1>16, <1>17, <1>18, <1>19, <1>20,
     <1>21, <1>22, <1>23, <1>24, <1>25, <1>26, <1>27, <1>28, <1>29
  DEF Next, ClientSteps, Kthreadd, ThreadSteps

(* The whole invariant.                                                    *)
OInv == CInv /\ (~misled => Ownership)

LEMMA OwnershipInvariant == Spec => []OInv
<1>1. Init => OInv
  <2> SUFFICES ASSUME Init PROVE Ownership
    BY CreationInit DEF OInv
  <2> USE KthreadAssumption DEF Init
  <2>1. Kept
    BY DEF Kept, Mine
  <2>2. StopInfo /\ StopResult
    BY DEF StopInfo, Stopping, StopResult
  <2>3. Results
    BY DEF Results, Returned, Unstarted, Owning, Stopping
  <2> QED
    BY <2>1, <2>2, <2>3 DEF Ownership
<1>2. OInv /\ [Next]_vars => OInv'
  <2> SUFFICES ASSUME OInv, [Next]_vars PROVE OInv'
    OBVIOUS
  <2>1. CInv /\ TypeOK /\ Creation
    BY DEF OInv, CInv
  <2>2. CInv'
    BY <2>1, CreationStep
  <2>3. ASSUME ~misled' PROVE Ownership'
    <3>1. ~misled /\ Ownership
      BY <2>1, <2>3, MisledStays DEF OInv
    <3> QED
      BY <2>1, <2>3, <3>1, KeptStep, StopInfoStep, ResultsStep, StopResultStep DEF Ownership
  <2> QED
    BY <2>2, <2>3 DEF OInv
<1> QED
  BY <1>1, <1>2, PTL DEF Spec

(* A thread that kthread_create returned stays parked, and its owner's     *)
(* alone, until the owner calls wake_up_process; for any number of clients *)
(* and task structures, whatever wakes kthreadd meanwhile, also when the   *)
(* structure is that of a thread whose stop has not ended yet.             *)
THEOREM StartsParked == Spec => []CreatedParked
<1>1. OInv => CreatedParked
  <2> SUFFICES ASSUME CInv, Ownership, NEW c \in Clients, pc[c] = "has"
               PROVE  /\ ~woken[c] => tpc[k[c]] = "park" /\ tstate[k[c]] = "UNINTERRUPTIBLE"
                      /\ tcreate[k[c]] = c
                      /\ \A d \in Clients : d # c => k[d] # k[c] \/ pc[d] \in {"s_wait", "stopped"}
    BY DEF CreatedParked, OInv
  <2> USE KthreadAssumption DEF CInv, Ownership
  <2>1. k[c] \in Threads /\ Safe(c, k[c]) /\ tpc[k[c]] \in {"park"} \cup Fn
    BY HasThread DEF Owning
  <2>2. ~woken[c] => tpc[k[c]] = "park" /\ tstate[k[c]] = "UNINTERRUPTIBLE"
    BY <2>1 DEF Safe, Unstarted, Fn
  <2>3. ASSUME NEW d \in Clients, d # c, k[d] = k[c] PROVE pc[d] \in {"s_wait", "stopped"}
    <3>1. pc[d] \in Having
      BY <2>1, <2>3 DEF Creation, Locked
    <3>2. pc[d] \notin Owning
      BY <2>1, <2>3, HasThread DEF Safe
    <3>3. pc[d] # "s_wake"
      BY <2>1, <2>3 DEF Safe, StopInfo, Ending, Stopping, Fn
    <3> QED
      BY <3>1, <3>2, <3>3 DEF Having, Stopping
  <2> QED
    BY <2>1, <2>2, <2>3 DEF Safe
<1> QED
  BY <1>1, OwnershipInvariant, PTL

(* kthread_stop returns what the threadfn of its own thread returned, or   *)
(* -EINTR if that never ran, and the thread is over by then: concurrent    *)
(* stops that share kthread_stop_info do not mix up their threads, for     *)
(* any number of them, also when a structure is handed out again before    *)
(* its stop has ended, as long as no thread is misled by that.             *)
THEOREM StopReturnsResult == Spec => []StopResult
<1>1. OInv => StopResult
  BY DEF OInv, Ownership, StopResult
<1> QED
  BY <1>1, OwnershipInvariant, PTL

-----------------------------------------------------------------------------
(* A new thread is not given a structure that k points to.                 *)
NoEarlyReuse == \A t \in Threads : KernelThread(t) => stopK # t

(* Then a k that a new thread may find is its own.                         *)
OwnK == ~misled /\ \A t \in Threads : stopK = t /\ tpc[t] \in Unstarted => OwnerStops(t)

(* No step but the reuse of a structure leaves a stale k behind.           *)
LEMMA OwnKStep ==
  ASSUME OInv, OwnK, NoEarlyReuse, [Next]_vars
  PROVE  OwnK'
<1> USE KthreadAssumption DEF TypeOK, Creation, OInv, CInv, OwnK, OwnerStops, Unstarted
<1>1. CASE UNCHANGED vars
  BY <1>1 DEF vars
<1>2. ASSUME NEW c \in Clients, KthreadCreate(c) PROVE OwnK'
  BY <1>2 DEF KthreadCreate, Goto, threadVars, stopVars
<1>3. ASSUME NEW c \in Clients, CreateReturn(c) PROVE OwnK'
  BY <1>3 DEF CreateReturn, Goto, kthreaddVars, threadVars, stopVars
<1>4. ASSUME NEW c \in Clients, WakeUpProcess(c) PROVE OwnK'
  BY <1>4 DEF WakeUpProcess, WakeThread, kthreaddVars, infoVars, stopVars
<1>5. ASSUME NEW c \in Clients, Detach(c) PROVE OwnK'
  BY <1>5 DEF Detach, Forget, Goto, kthreaddVars, infoVars, stopVars
<1>6. ASSUME NEW c \in Clients, StopBegin(c) PROVE OwnK'
  BY <1>6 DEF StopBegin, Goto, kthreaddVars, infoVars
<1>7. ASSUME NEW c \in Clients, StopSet(c) PROVE OwnK'
  <2>1. k[c] \in Threads /\ tcreate[k[c]] = c
    BY <1>7, HasThread DEF StopSet, Ownership, Owning, Safe
  <2>2. /\ stopK' = k[c] /\ pc' = [pc EXCEPT ![c] = "s_wake"] /\ UNCHANGED <<tcreate, tpc, k, misled>>
    BY <1>7 DEF StopSet, Goto, threadVars
  <2> QED
    BY <2>1, <2>2
<1>8. ASSUME NEW c \in Clients, StopWake(c) PROVE OwnK'
  BY <1>8 DEF StopWake, WakeThread, Goto, kthreaddVars, infoVars, stopVars
<1>9. ASSUME NEW c \in Clients, StopEnd(c) PROVE OwnK'
  BY <1>9 DEF StopEnd, Goto, kthreaddVars, infoVars, threadVars
<1>10. ASSUME NEW c \in Clients, StopReturn(c) PROVE OwnK'
  BY <1>10 DEF StopReturn, Forget, Goto, kthreaddVars, infoVars, threadVars, stopVars
<1>11. ASSUME KthreaddPrepare PROVE OwnK'
  BY <1>11 DEF KthreaddPrepare, infoVars, threadVars, stopVars, clientVars
<1>12. ASSUME KthreaddCheck PROVE OwnK'
  BY <1>12 DEF KthreaddCheck, infoVars, threadVars, stopVars, clientVars
<1>13. ASSUME KthreaddSchedule PROVE OwnK'
  BY <1>13 DEF KthreaddSchedule, infoVars, threadVars, stopVars, clientVars
<1>14. ASSUME KthreaddTake PROVE OwnK'
  BY <1>14 DEF KthreaddTake, infoVars, threadVars, stopVars, clientVars
<1>15. ASSUME KernelThreadFails PROVE OwnK'
  BY <1>15 DEF KernelThreadFails, threadVars, stopVars, clientVars
<1>16. ASSUME StartedWait PROVE OwnK'
  BY <1>16 DEF StartedWait, infoVars, threadVars, stopVars, clientVars
<1>17. ASSUME StartedWake PROVE OwnK'
  BY <1>17 DEF StartedWake, infoVars, threadVars, stopVars, clientVars
<1>18. ASSUME FindTask PROVE OwnK'
  BY <1>18 DEF FindTask, threadVars, stopVars, clientVars
<1>19. ASSUME CompleteDone PROVE OwnK'
  BY <1>19 DEF CompleteDone, threadVars, stopVars
<1>20. ASSUME NEW t \in Threads, KernelThread(t) PROVE OwnK'
  <2>1. stopK # t
    BY <1>20 DEF NoEarlyReuse
  <2>2. /\ tpc' = [tpc EXCEPT ![t] = "start"] /\ tcreate' = [tcreate EXCEPT ![t] = create]
        /\ UNCHANGED <<stopK, pc, k, misled>>
    BY <1>20 DEF KernelThread, TGoto, stopVars, clientVars
  <2> QED
    BY <2>1, <2>2
<1>21. ASSUME NEW t \in Threads, ThreadStart(t) PROVE OwnK'
  BY <1>21 DEF ThreadStart, TGoto, kthreaddVars, infoVars, stopVars, clientVars
<1>22. ASSUME NEW t \in Threads, ThreadTell(t) PROVE OwnK'
  BY <1>22 DEF ThreadTell, TGoto, stopVars, clientVars
<1>23. ASSUME NEW t \in Threads, ThreadRun(t) PROVE OwnK'
  BY <1>23 DEF ThreadRun, KthreadShouldStop, TGoto, kthreaddVars, infoVars, stopVars
<1>24. ASSUME NEW t \in Threads, FnPrepare(t) PROVE OwnK'
  BY <1>24 DEF FnPrepare, TGoto, kthreaddVars, infoVars, stopVars, clientVars
<1>25. ASSUME NEW t \in Threads, FnTest(t) PROVE OwnK'
  BY <1>25 DEF FnTest, WakeThread, KthreadShouldStop, TGoto, kthreaddVars, infoVars, stopVars, clientVars
<1>26. ASSUME NEW t \in Threads, FnSchedule(t) PROVE OwnK'
  BY <1>26 DEF FnSchedule, TGoto, kthreaddVars, infoVars, stopVars, clientVars
<1>27. ASSUME NEW t \in Threads, ThreadCheck(t) PROVE OwnK'
  BY <1>27 DEF ThreadCheck, KthreadShouldStop, TGoto, kthreaddVars, infoVars, clientVars
<1>28. ASSUME NEW t \in Threads, ThreadReport(t) PROVE OwnK'
  BY <1>28 DEF ThreadReport, TGoto, kthreaddVars, infoVars
<1>29. ASSUME NEW t \in Threads, ThreadExit(t) PROVE OwnK'
  BY <1>29 DEF ThreadExit, WakeThread, TGoto, kthreaddVars, infoVars, stopVars, clientVars
<1> QED
  BY <1>1, <1>2, <1>3, <1>4, <1>5, <1>6, <1>7, <1>8, <1>9, <1>10,
     <1>11, <1>12, <1>13, <1>14, <1>15, <1>16, <1>17, <1>18, <1>19, <1>20,
     <1>21, <1>22, <1>23, <1>24, <1>25, <1>26, <1>27, <1>28, <1>29
  DEF Next, ClientSteps, Kthreadd, ThreadSteps

(* Early reuse is the only way for a thread to skip its threadfn without   *)
(* being stopped by its owner: if no new thread is given a structure that  *)
(* kthread_stop_info.k points to, "When woken, the thread will run         *)
(* @threadfn()" holds.                                                     *)
THEOREM WokenThreadsRun == Spec /\ [][NoEarlyReuse]_vars => []WokenRuns
<1>1. Init => OwnK
  BY KthreadAssumption DEF Init, OwnK
<1>2. OInv /\ OwnK /\ [Next]_vars /\ [NoEarlyReuse]_vars => OwnK'
  BY OwnKStep DEF OwnK, OwnerStops, vars
<1>3. OInv /\ OwnK => WokenRuns
  <2> SUFFICES ASSUME CInv, Ownership, NEW t \in Threads, tpc[t] \in {"check", "report"}, ret[t] = EINTR
               PROVE  OwnerStops(t)
    BY DEF WokenRuns, OInv, OwnK
  <2>1. stopK = t
    BY KthreadAssumption DEF Ownership, Results, Returned
  <2>2. PICK c \in Clients : pc[c] \in Stopping /\ k[c] = t
    BY <2>1 DEF Ownership, StopInfo
  <2>3. tcreate[t] = c
    BY <2>2 DEF Ownership, StopInfo, Ending, Unstarted
  <2> QED
    BY <2>2, <2>3 DEF Stopping, OwnerStops
<1> QED
  BY <1>1, <1>2, <1>3, OwnershipInvariant, PTL DEF Spec
=============================================================================
