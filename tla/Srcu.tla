-------------------------------- MODULE Srcu --------------------------------
(***************************************************************************)
(* kernel/srcu.c: sleepable read-copy-update.  Readers count themselves in *)
(* one of two ranks of per-CPU counters; synchronize_srcu flips the rank   *)
(* new readers use and waits until the old one has drained.                *)
(*                                                                         *)
(* The memory model is the one the comments of synchronize_srcu argue      *)
(* about.  srcu_barrier() only restrains the compiler, so the CPU may      *)
(* load the protected data before the increment of srcu_read_lock and      *)
(* after the decrement of srcu_read_unlock, but not across the edges of    *)
(* the preempt_disable() sections the two functions are: those edges are   *)
(* where synchronize_sched(), modelled by its contract, makes every CPU    *)
(* pass a barrier.  A reader therefore holds references from the           *)
(* preempt_disable of its srcu_read_lock to the preempt_enable of its      *)
(* srcu_read_unlock.                                                       *)
(*                                                                         *)
(* Locals are set back to 0 when they go out of scope.                     *)
(*                                                                         *)
(* The operators named Faulty... are deliberately wrong variants of the    *)
(* definition that follows them; no specification uses them.               *)
(***************************************************************************)
EXTENDS Integers, FiniteSets

CONSTANTS
  Readers, Updaters,
  NCpus,     \* the CPUs are 0 .. NCpus-1
  HalfInt,   \* half the values of the int "completed" (2^31), so that it wraps
             \* at 2 * HalfInt
  CountMod,  \* where the ints the readers are counted in wrap (2^32)
  None

ASSUME SrcuAssumption ==
  /\ IsFiniteSet(Readers)
  /\ NCpus \in Nat \ {0}
  /\ HalfInt \in Nat /\ HalfInt >= 4
  /\ CountMod \in Nat /\ Cardinality(Readers) < CountMod
  /\ None \notin Updaters

Cpus   == 0 .. NCpus - 1
IntMod == 2 * HalfInt
Words  == 0 .. IntMod - 1

(* A counter goes up on one CPU and down on another, so that each drifts   *)
(* without bound and wraps; only their sum means anything.                 *)
Wrap(n) == n % CountMod

VARIABLES
  completed, \* sp->completed, as the word it is
  c,         \* sp->per_cpu_ref: the two counters of each CPU
  mutex,     \* the updater that owns sp->mutex, or None
  rpc,       \* where each reader is
  rcpu,      \* the CPU a reader with preemption disabled runs on
  ridx,      \* the idx srcu_read_lock returned to each reader
  upc,       \* where each updater is
  idx,       \* the local idx of synchronize_srcu
  cpu,       \* the loop of srcu_readers_active_idx: the next CPU,
  sum,       \* and the sum so far
  inSched,   \* readers the owner's synchronize_sched still waits for
  waitFor    \* readers each caller has to outlive (history variable)

vars == <<completed, c, mutex, rpc, rcpu, ridx, upc, idx, cpu, sum, inSched, waitFor>>

readerVars  == <<rpc, rcpu, ridx>>
updaterVars == <<completed, mutex, upc, idx, cpu, sum>>

Init ==
  /\ completed = 0
  /\ c = [p \in Cpus |-> [i \in {0, 1} |-> 0]]
  /\ mutex = None
  /\ rpc = [r \in Readers |-> "out"]
  /\ rcpu = [r \in Readers |-> 0]
  /\ ridx = [r \in Readers |-> 0]
  /\ upc = [u \in Updaters |-> "idle"]
  /\ idx = [u \in Updaters |-> 0]
  /\ cpu = 0
  /\ sum = 0
  /\ inSched = {}
  /\ waitFor = [u \in Updaters |-> {}]

-----------------------------------------------------------------------------
(* Readers                                                                 *)

PreemptOff == {r \in Readers : rpc[r] \in {"lock", "count", "unlock"}}

(* preempt_disable() on CPU p: nobody else runs there with preemption off. *)
PreemptDisable(r, p) ==
  /\ \A s \in PreemptOff : rcpu[s] # p
  /\ rcpu' = [rcpu EXCEPT ![r] = p]

(* preempt_enable(): a quiescent state for synchronize_sched.              *)
PreemptEnable(r) ==
  /\ inSched' = inSched \ {r}
  /\ rcpu' = [rcpu EXCEPT ![r] = 0]

ReadLock(r, p) ==
  /\ rpc[r] = "out"
  /\ PreemptDisable(r, p)
  /\ rpc' = [rpc EXCEPT ![r] = "lock"]
  /\ UNCHANGED <<c, ridx, inSched, waitFor, updaterVars>>

ReadIdx(r) ==
  /\ rpc[r] = "lock"
  /\ ridx' = [ridx EXCEPT ![r] = completed % 2]
  /\ rpc' = [rpc EXCEPT ![r] = "count"]
  /\ UNCHANGED <<c, rcpu, inSched, waitFor, updaterVars>>

CountReader(r) ==
  /\ rpc[r] = "count"
  /\ c' = [c EXCEPT ![rcpu[r]][ridx[r]] = Wrap(@ + 1)]
  /\ PreemptEnable(r)
  /\ rpc' = [rpc EXCEPT ![r] = "in"]
  /\ UNCHANGED <<ridx, waitFor, updaterVars>>

(* Fault: the reader leaves the rank in use now, not the one it entered.   *)
FaultyReadUnlock(r, p) ==
  /\ rpc[r] = "in"
  /\ PreemptDisable(r, p)
  /\ c' = [c EXCEPT ![p][completed % 2] = Wrap(@ - 1)]
  /\ rpc' = [rpc EXCEPT ![r] = "unlock"]
  /\ UNCHANGED <<ridx, inSched, waitFor, updaterVars>>

(* The decrement, perhaps on another CPU than the increment.               *)
ReadUnlock(r, p) ==
  /\ rpc[r] = "in"
  /\ PreemptDisable(r, p)
  /\ c' = [c EXCEPT ![p][ridx[r]] = Wrap(@ - 1)]
  /\ rpc' = [rpc EXCEPT ![r] = "unlock"]
  /\ UNCHANGED <<ridx, inSched, waitFor, updaterVars>>

ReadUnlockDone(r) ==
  /\ rpc[r] = "unlock"
  /\ PreemptEnable(r)
  /\ rpc' = [rpc EXCEPT ![r] = "out"]
  /\ ridx' = [ridx EXCEPT ![r] = 0]
  /\ waitFor' = [u \in Updaters |-> waitFor[u] \ {r}]
  /\ UNCHANGED <<c, updaterVars>>

-----------------------------------------------------------------------------
(* synchronize_srcu                                                        *)

Goto(u, l) == upc' = [upc EXCEPT ![u] = l]

(* The start of synchronize_sched(): it waits for every CPU to leave the   *)
(* section with preemption disabled that it is in.                         *)
EnterSched == inSched' = PreemptOff

SynchronizeSrcu(u) ==
  /\ upc[u] = "idle"
  /\ idx' = [idx EXCEPT ![u] = completed]
  /\ waitFor' = [waitFor EXCEPT ![u] = {r \in Readers : rpc[r] # "out"}]
  /\ Goto(u, "lock")
  /\ UNCHANGED <<completed, c, mutex, readerVars, cpu, sum, inSched>>

Signed(n) == IF n >= HalfInt THEN n - IntMod ELSE n

Advances(u) == Signed((completed - idx[u]) % IntMod)

(* Fault: one advance of the counter is taken for enough.                  *)
FaultyHelped(u) == Advances(u) >= 1

(* "We need -two- advances of the counter, not just one."                  *)
Helped(u) == Advances(u) >= 2

EarlyExit(u) ==
  /\ upc[u] = "lock" /\ mutex = None
  /\ Helped(u)
  /\ mutex' = u
  /\ Goto(u, "return")
  /\ UNCHANGED <<completed, c, readerVars, idx, cpu, sum, inSched, waitFor>>

MutexLock(u) ==
  /\ upc[u] = "lock" /\ mutex = None
  /\ ~Helped(u)
  /\ mutex' = u
  /\ EnterSched
  /\ Goto(u, "flip")
  /\ UNCHANGED <<completed, c, readerVars, idx, cpu, sum, waitFor>>

(* Fault: readers still inside srcu_read_lock are not waited for after the *)
(* flip.                                                                   *)
FaultyFlip(u) ==
  /\ upc[u] = "flip" /\ inSched = {}
  /\ idx' = [idx EXCEPT ![u] = completed % 2]
  /\ completed' = (completed + 1) % IntMod
  /\ Goto(u, "scan")
  /\ UNCHANGED <<c, mutex, readerVars, cpu, sum, inSched, waitFor>>

Flip(u) ==
  /\ upc[u] = "flip" /\ inSched = {}
  /\ idx' = [idx EXCEPT ![u] = completed % 2]
  /\ completed' = (completed + 1) % IntMod
  /\ EnterSched
  /\ Goto(u, "scan")
  /\ UNCHANGED <<c, mutex, readerVars, cpu, sum, waitFor>>

(* srcu_readers_active_idx: one CPU's counter after the other.             *)
SumCpu(u) ==
  /\ upc[u] = "scan" /\ inSched = {}
  /\ cpu < NCpus
  /\ sum' = Wrap(sum + c[cpu][idx[u]])
  /\ cpu' = cpu + 1
  /\ UNCHANGED <<completed, c, mutex, readerVars, upc, idx, inSched, waitFor>>

(* The while loop: sleep a tick and sum again, or go on.                   *)
Poll(u) ==
  /\ upc[u] = "scan"
  /\ cpu = NCpus
  /\ cpu' = 0 /\ sum' = 0
  /\ IF sum # 0
     THEN UNCHANGED <<upc, inSched>>
     ELSE EnterSched /\ Goto(u, "drained")
  /\ UNCHANGED <<completed, c, mutex, readerVars, idx, waitFor>>

Drained(u) ==
  /\ upc[u] = "drained" /\ inSched = {}
  /\ Goto(u, "return")
  /\ UNCHANGED <<completed, c, mutex, readerVars, idx, cpu, sum, inSched, waitFor>>

(* mutex_unlock(&sp->mutex), and synchronize_srcu returns.                 *)
MutexUnlock(u) ==
  /\ upc[u] = "return"
  /\ mutex' = None
  /\ idx' = [idx EXCEPT ![u] = 0]
  /\ Goto(u, "idle")
  /\ UNCHANGED <<completed, c, readerVars, cpu, sum, inSched, waitFor>>

-----------------------------------------------------------------------------
Owner(u) ==
  Flip(u) \/ SumCpu(u) \/ Poll(u) \/ Drained(u) \/ MutexUnlock(u)

Next ==
  \/ \E r \in Readers :
       \/ \E p \in Cpus : ReadLock(r, p) \/ ReadUnlock(r, p)
       \/ ReadIdx(r) \/ CountReader(r) \/ ReadUnlockDone(r)
  \/ \E u \in Updaters : SynchronizeSrcu(u) \/ EarlyExit(u) \/ MutexLock(u) \/ Owner(u)

Spec == Init /\ [][Next]_vars

(* Sections with preemption disabled end, an owner of the mutex goes on,   *)
(* and a reader leaves its critical section, for which it needs a CPU      *)
(* again and again free of such sections.  Nobody has to enter or to call. *)
Fairness ==
  /\ \A r \in Readers :
       /\ WF_vars(ReadIdx(r) \/ CountReader(r) \/ ReadUnlockDone(r))
       /\ SF_vars(\E p \in Cpus : ReadUnlock(r, p))
  /\ \A u \in Updaters : WF_vars(Owner(u))

FairSpec == Spec /\ Fairness
-----------------------------------------------------------------------------
TypeOK ==
  /\ completed \in Words
  /\ c \in [Cpus -> [{0, 1} -> 0 .. CountMod - 1]]
  /\ mutex \in Updaters \cup {None}
  /\ rpc \in [Readers -> {"out", "lock", "count", "in", "unlock"}]
  /\ rcpu \in [Readers -> Cpus]
  /\ ridx \in [Readers -> {0, 1}]
  /\ upc \in [Updaters -> {"idle", "lock", "flip", "scan", "drained", "return"}]
  /\ idx \in [Updaters -> Words]
  /\ cpu \in 0 .. NCpus
  /\ sum \in 0 .. CountMod - 1
  /\ inSched \subseteq Readers
  /\ waitFor \in [Updaters -> SUBSET Readers]

(* Between two grace periods nobody is counted, or about to count itself,  *)
(* in the rank that is not in use: what the next flip relies on when it    *)
(* hands that rank to new readers, and why one flip per call is enough.    *)
IdleRankEmpty ==
  mutex = None =>
    \A r \in Readers : rpc[r] \in {"count", "in"} => ridx[r] = completed % 2

AGP == INSTANCE AbstractGracePeriod WITH
         readers <- {r \in Readers : rpc[r] # "out"},
         calling <- {u \in Updaters : upc[u] # "idle"},
         waitFor <- waitFor

(* synchronize_srcu "waits for prior SRCU read-side critical-section       *)
(* completion": it returns, by the early exit too, only after every reader *)
(* that could hold a reference at the call has dropped it, whatever the    *)
(* CPUs reorder within srcu_read_lock and srcu_read_unlock.                *)
ImplementsGracePeriod == AGP!Spec

(* The wait ends although new readers keep coming: they use the other      *)
(* rank, so the one being drained only shrinks.                            *)
GracePeriodEnds == \A u \in Updaters : (mutex = u) ~> (mutex # u)
=============================================================================
