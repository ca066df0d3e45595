----------------------------- MODULE SrcuProofs -----------------------------
(***************************************************************************)
(* Proofs about kernel/srcu.c for any finite set of readers, any set of    *)
(* updaters, any number of CPUs and any word sizes: the types, that the    *)
(* rank not in use is empty between grace periods, and that                *)
(* synchronize_srcu implements the abstract grace period.                  *)
(***************************************************************************)
EXTENDS Srcu, KernelLemmas

Held == {"flip", "scan", "drained", "return"}

(* sp->mutex is held exactly between mutex_lock and mutex_unlock.          *)
OneOwner == \A u \in Updaters : mutex = u <=> upc[u] \in Held

Scanning == \E u \in Updaters : upc[u] = "scan"
Draining == \E u \in Updaters : upc[u] = "drained"

(* The loop of srcu_readers_active_idx runs only in the scan, and only     *)
(* after the synchronize_sched before it has returned.                     *)
Loop ==
  /\ cpu = 0 => sum = 0
  /\ cpu # 0 => inSched = {} /\ Scanning

(* The rank being drained is the one new readers do not use.               *)
ScanRank == \A u \in Updaters : upc[u] = "scan" => idx[u] = 1 - (completed % 2)

(* Outside a scan nobody is, or is about to be, in the rank not in use;    *)
(* during one, only readers that the synchronize_sched after the flip      *)
(* waits for are about to enter it.                                        *)
Ranks ==
  /\ ~Scanning =>
       \A r \in Readers : rpc[r] \in {"count", "in"} => ridx[r] = completed % 2
  /\ Scanning =>
       \A r \in Readers : rpc[r] = "count" /\ ridx[r] # completed % 2 => r \in inSched

Inside(i) == {r \in Readers : rpc[r] = "in" /\ ridx[r] = i}

(* T[p] is what the counters of rank i on the CPUs p, p+1, ... would add   *)
(* up to if they did not wrap.  Over all CPUs that is the number of        *)
(* readers inside.  What the scan has summed and what it has still to sum  *)
(* make together a number m that may be out of date, as readers leave on   *)
(* CPUs it has passed, but never too small: nobody enters any more.        *)
Tally(i, T) ==
  /\ T[NCpus] = 0
  /\ T[0] = Cardinality(Inside(i))
  /\ \A p \in Cpus : c[p][i] = Wrap(T[p] - T[p + 1])

Summed(i, T) ==
  (\E u \in Updaters : upc[u] = "scan" /\ idx[u] = i) =>
    \E m \in 0 .. CountMod - 1 :
       Cardinality(Inside(i)) <= m /\ sum = Wrap(m - T[cpu])

Tallied == \A i \in {0, 1} : \E T \in [0..NCpus -> Int] : Tally(i, T) /\ Summed(i, T)

(* The readers u has to outlive that are still inside srcu_read_lock: they *)
(* may choose either rank, or have chosen and not counted themselves.      *)
InTransit(u) == {r \in waitFor[u] : rpc[r] \in {"lock", "count"}}

(* The grace period that is under way, or the ones before it, are enough   *)
(* for u: its readers are all in the rank being drained, or have left it   *)
(* and are waited for by the last synchronize_sched.                       *)
Covered(u) ==
  \/ waitFor[u] = {}
  \/ /\ Scanning
     /\ \A r \in waitFor[u] : \/ rpc[r] = "unlock"
                              \/ rpc[r] = "in" /\ ridx[r] # completed % 2
  \/ /\ Draining
     /\ \A r \in waitFor[u] : rpc[r] = "unlock" /\ r \in inSched

(* One flip since u read completed: the synchronize_sched after it puts    *)
(* u's readers in one of the ranks, but perhaps in the one not drained.    *)
OneAdvance(u) ==
  /\ completed = (idx[u] + 1) % IntMod
  /\ InTransit(u) \subseteq (IF Scanning THEN inSched ELSE {})

GraceOf(u) ==
  /\ upc[u] = "lock" => completed = idx[u] \/ OneAdvance(u) \/ Covered(u)
  /\ upc[u] = "flip" => InTransit(u) \subseteq inSched
  /\ upc[u] \in {"scan", "drained"} => Covered(u)
  /\ upc[u] = "return" => waitFor[u] = {}

Grace == \A u \in Updaters : GraceOf(u)

Present == \A u \in Updaters : \A r \in waitFor[u] : rpc[r] # "out"

IInv ==
  /\ TypeOK /\ OneOwner /\ Loop /\ ScanRank /\ Ranks /\ Tallied /\ Grace /\ Present

-----------------------------------------------------------------------------
(* The two ways out of the poll.                                           *)
PollAgain(u) ==
  /\ upc[u] = "scan" /\ cpu = NCpus /\ sum # 0
  /\ cpu' = 0 /\ sum' = 0
  /\ UNCHANGED <<completed, c, mutex, readerVars, upc, idx, inSched, waitFor>>

PollDone(u) ==
  /\ upc[u] = "scan" /\ cpu = NCpus /\ sum = 0
  /\ cpu' = 0 /\ sum' = 0
  /\ EnterSched /\ Goto(u, "drained")
  /\ UNCHANGED <<completed, c, mutex, readerVars, idx, waitFor>>

Step ==
  \/ \E r \in Readers, p \in Cpus : ReadLock(r, p) \/ ReadUnlock(r, p)
  \/ \E r \in Readers : ReadIdx(r) \/ CountReader(r) \/ ReadUnlockDone(r)
  \/ \E u \in Updaters :
       \/ SynchronizeSrcu(u) \/ EarlyExit(u) \/ MutexLock(u) \/ Flip(u) \/ SumCpu(u)
       \/ PollAgain(u) \/ PollDone(u) \/ Drained(u) \/ MutexUnlock(u)

(* A step of Next is one of these.                                         *)
LEMMA StepCases == ASSUME [Next]_vars PROVE UNCHANGED vars \/ Step
<1>1. ASSUME NEW u \in Updaters, Poll(u) PROVE PollAgain(u) \/ PollDone(u)
  BY <1>1 DEF Poll, PollAgain, PollDone
<1> QED
  BY <1>1 DEF Next, Owner, Step

(* What the assumptions say of the constants.                              *)
LEMMA Constants ==
  /\ NCpus \in Nat \ {0} /\ Cpus = 0 .. NCpus - 1 /\ 0 \in Cpus
  /\ CountMod \in Nat \ {0} /\ HalfInt \in Nat \ {0} /\ HalfInt >= 4
  /\ IntMod \in Nat \ {0} /\ Words = 0 .. 2 * HalfInt - 1
  /\ IsFiniteSet(Readers) /\ Cardinality(Readers) \in Nat
  /\ Cardinality(Readers) < CountMod
<1>1. Cardinality(Readers) \in Nat
  BY SrcuAssumption, FS_CardinalityType
<1>2. CountMod # 0
  BY <1>1, SrcuAssumption
<1> QED
  BY <1>1, <1>2, SrcuAssumption DEF Cpus, IntMod, Words

(* Every counter is a word.                                                *)
LEMMA WrapRange == ASSUME NEW n \in Int PROVE Wrap(n) \in 0 .. CountMod - 1
BY Constants, ModRange DEF Wrap

(* completed counts up modulo an even number, so its parity flips.         *)
LEMMA FlipParity ==
  ASSUME completed \in Words
  PROVE  /\ (completed + 1) % IntMod \in Words
         /\ ((completed + 1) % IntMod) % 2 = 1 - (completed % 2)
         /\ completed % 2 \in {0, 1}
<1>1. ((completed + 1) % IntMod) % 2 = 1 - (completed % 2)
  BY Constants, EvenModStep DEF IntMod
<1>2. completed \in Int
  BY Constants
<1>3. (completed + 1) % IntMod \in 0 .. IntMod - 1
  <2>1. completed + 1 \in Int
    BY <1>2
  <2> QED
    BY <2>1, Constants, ModRange
<1>4. completed % 2 \in {0, 1}
  BY <1>2
<1> QED
  BY <1>1, <1>3, <1>4 DEF Words


(* Every step keeps the types.                                             *)
LEMMA TypeStep ==
  ASSUME TypeOK, ScanRank, [Next]_vars
  PROVE  TypeOK'
<1> USE DEF TypeOK
<1>1. CASE UNCHANGED vars
  BY <1>1 DEF vars
<1>2. ASSUME NEW r \in Readers, NEW p \in Cpus, ReadLock(r, p) PROVE TypeOK'
  BY <1>2 DEF ReadLock, PreemptDisable, updaterVars
<1>3. ASSUME NEW r \in Readers, ReadIdx(r) PROVE TypeOK'
  <2>1. completed % 2 \in {0, 1}
    BY FlipParity
  <2> QED
    BY <1>3, <2>1 DEF ReadIdx, updaterVars
<1>4. ASSUME NEW r \in Readers, CountReader(r) PROVE TypeOK'
  <2>1. rcpu[r] \in Cpus /\ ridx[r] \in {0, 1} /\ c[rcpu[r]][ridx[r]] \in Int
    BY Constants
  <2>2. Wrap(c[rcpu[r]][ridx[r]] + 1) \in 0 .. CountMod - 1
    BY <2>1, WrapRange
  <2>3. c' \in [Cpus -> [{0, 1} -> 0 .. CountMod - 1]]
    BY <1>4, <2>1, <2>2 DEF CountReader
  <2>4. rcpu' \in [Readers -> Cpus] /\ inSched' \subseteq Readers
    BY <1>4, Constants DEF CountReader, PreemptEnable
  <2> QED
    BY <1>4, <2>3, <2>4 DEF CountReader, updaterVars
<1>5. ASSUME NEW r \in Readers, NEW p \in Cpus, ReadUnlock(r, p) PROVE TypeOK'
  <2>1. ridx[r] \in {0, 1} /\ c[p][ridx[r]] \in Int
    BY Constants
  <2>2. Wrap(c[p][ridx[r]] - 1) \in 0 .. CountMod - 1
    BY <2>1, WrapRange
  <2>3. c' \in [Cpus -> [{0, 1} -> 0 .. CountMod - 1]]
    BY <1>5, <2>1, <2>2 DEF ReadUnlock
  <2>4. rcpu' \in [Readers -> Cpus]
    BY <1>5 DEF ReadUnlock, PreemptDisable
  <2> QED
    BY <1>5, <2>3, <2>4 DEF ReadUnlock, updaterVars
<1>6. ASSUME NEW r \in Readers, ReadUnlockDone(r) PROVE TypeOK'
  BY <1>6, Constants DEF ReadUnlockDone, PreemptEnable, updaterVars
<1>7. ASSUME NEW u \in Updaters, SynchronizeSrcu(u) PROVE TypeOK'
  BY <1>7 DEF SynchronizeSrcu, Goto, readerVars
<1>8. ASSUME NEW u \in Updaters, EarlyExit(u) PROVE TypeOK'
  BY <1>8 DEF EarlyExit, Goto, readerVars
<1>9. ASSUME NEW u \in Updaters, MutexLock(u) PROVE TypeOK'
  BY <1>9 DEF MutexLock, Goto, EnterSched, readerVars, PreemptOff
<1>10. ASSUME NEW u \in Updaters, Flip(u) PROVE TypeOK'
  <2>1. completed % 2 \in {0, 1} /\ {0, 1} \subseteq Words
    BY FlipParity, Constants
  <2>2. completed' \in Words
    BY <1>10, FlipParity DEF Flip
  <2>3. idx' \in [Updaters -> Words]
    BY <1>10, <2>1 DEF Flip
  <2> QED
    BY <1>10, <2>2, <2>3 DEF Flip, Goto, EnterSched, readerVars, PreemptOff
<1>11. ASSUME NEW u \in Updaters, SumCpu(u) PROVE TypeOK'
  <2>1. cpu \in Cpus /\ cpu + 1 \in 0 .. NCpus
    BY <1>11, Constants DEF SumCpu
  <2>2. c[cpu][idx[u]] \in Int
    <3>1. idx[u] \in {0, 1}
      BY <1>11, FlipParity DEF SumCpu, ScanRank
    <3> QED
      BY <2>1, <3>1, Constants
  <2>3. sum' \in 0 .. CountMod - 1
    <3>0. sum \in Int
      BY Constants
    <3>1. sum + c[cpu][idx[u]] \in Int
      BY <2>2, <3>0
    <3> QED
      BY <1>11, <3>1, WrapRange DEF SumCpu
  <2> QED
    BY <1>11, <2>1, <2>3 DEF SumCpu, readerVars
<1>12. ASSUME NEW u \in Updaters, PollAgain(u) PROVE TypeOK'
  BY <1>12, Constants DEF PollAgain, readerVars
<1>13. ASSUME NEW u \in Updaters, PollDone(u) PROVE TypeOK'
  BY <1>13, Constants DEF PollDone, Goto, EnterSched, readerVars, PreemptOff
<1>14. ASSUME NEW u \in Updaters, Drained(u) PROVE TypeOK'
  BY <1>14 DEF Drained, Goto, readerVars
<1>15. ASSUME NEW u \in Updaters, MutexUnlock(u) PROVE TypeOK'
  <2>1. 0 \in Words
    BY Constants
  <2> QED
    BY <1>15, <2>1 DEF MutexUnlock, Goto, readerVars
<1> QED
  BY <1>1, <1>2, <1>3, <1>4, <1>5, <1>6, <1>7, <1>8, <1>9, <1>10, <1>11,
     <1>12, <1>13, <1>14, <1>15, StepCases DEF Step


(* Every step keeps the mutex with the updater inside its section.         *)
LEMMA OwnerStep ==
  ASSUME TypeOK, OneOwner, [Next]_vars
  PROVE  OneOwner'
<1> USE DEF TypeOK, OneOwner, Held
<1>1. CASE UNCHANGED vars
  BY <1>1 DEF vars
<1>2. ASSUME NEW r \in Readers, NEW p \in Cpus, ReadLock(r, p) PROVE OneOwner'
  BY <1>2, SrcuAssumption DEF ReadLock, PreemptDisable, updaterVars
<1>3. ASSUME NEW r \in Readers, ReadIdx(r) PROVE OneOwner'
  BY <1>3, SrcuAssumption DEF ReadIdx, updaterVars
<1>4. ASSUME NEW r \in Readers, CountReader(r) PROVE OneOwner'
  BY <1>4, SrcuAssumption DEF CountReader, PreemptEnable, updaterVars
<1>5. ASSUME NEW r \in Readers, NEW p \in Cpus, ReadUnlock(r, p)
      PROVE  OneOwner'
  BY <1>5, SrcuAssumption DEF ReadUnlock, PreemptDisable, updaterVars
<1>6. ASSUME NEW r \in Readers, ReadUnlockDone(r) PROVE OneOwner'
  BY <1>6, SrcuAssumption DEF ReadUnlockDone, PreemptEnable, updaterVars
<1>7. ASSUME NEW u \in Updaters, SynchronizeSrcu(u) PROVE OneOwner'
  BY <1>7, SrcuAssumption DEF SynchronizeSrcu, Goto, readerVars
<1>8. ASSUME NEW u \in Updaters, EarlyExit(u) PROVE OneOwner'
  BY <1>8, SrcuAssumption DEF EarlyExit, Goto, readerVars
<1>9. ASSUME NEW u \in Updaters, MutexLock(u) PROVE OneOwner'
  BY <1>9, SrcuAssumption DEF MutexLock, Goto, EnterSched, readerVars
<1>10. ASSUME NEW u \in Updaters, Flip(u) PROVE OneOwner'
  BY <1>10, SrcuAssumption DEF Flip, Goto, EnterSched, readerVars
<1>11. ASSUME NEW u \in Updaters, SumCpu(u) PROVE OneOwner'
  BY <1>11, SrcuAssumption DEF SumCpu, readerVars
<1>12. ASSUME NEW u \in Updaters, PollAgain(u) PROVE OneOwner'
  BY <1>12, SrcuAssumption DEF PollAgain, readerVars
<1>13. ASSUME NEW u \in Updaters, PollDone(u) PROVE OneOwner'
  BY <1>13, SrcuAssumption DEF PollDone, Goto, EnterSched, readerVars
<1>14. ASSUME NEW u \in Updaters, Drained(u) PROVE OneOwner'
  BY <1>14, SrcuAssumption DEF Drained, Goto, readerVars
<1>15. ASSUME NEW u \in Updaters, MutexUnlock(u) PROVE OneOwner'
  BY <1>15, SrcuAssumption DEF MutexUnlock, Goto, readerVars
<1> QED
  BY <1>1, <1>2, <1>3, <1>4, <1>5, <1>6, <1>7, <1>8, <1>9, <1>10, <1>11,
     <1>12, <1>13, <1>14, <1>15, StepCases DEF Step


(* At most one updater is in the critical section of sp->mutex.            *)
LEMMA OneScans ==
  ASSUME OneOwner, NEW u \in Updaters, NEW v \in Updaters, upc[u] \in Held, upc[v] \in Held
  PROVE  u = v
BY DEF OneOwner

LEMMA NobodyScans ==
  ASSUME OneOwner, mutex = None
  PROVE  ~Scanning /\ ~Draining
BY SrcuAssumption DEF OneOwner, Scanning, Draining, Held

LEMMA OwnerScans ==
  ASSUME OneOwner, NEW u \in Updaters, upc[u] \in Held
  PROVE  (Scanning <=> upc[u] = "scan") /\ (Draining <=> upc[u] = "drained")
BY OneScans DEF Scanning, Draining, Held


(* How the steps move between the parts of the critical section.           *)
LEMMA ReaderPhases ==
  ASSUME upc' = upc PROVE (Scanning' <=> Scanning) /\ (Draining' <=> Draining)
BY DEF Scanning, Draining

LEMMA OwnerPhases ==
  ASSUME TypeOK, OneOwner, OneOwner', NEW u \in Updaters
  PROVE  /\ SynchronizeSrcu(u) => (Scanning' <=> Scanning) /\ (Draining' <=> Draining)
         /\ EarlyExit(u) \/ MutexLock(u) =>
              ~Scanning /\ ~Draining /\ ~Scanning' /\ ~Draining'
         /\ Flip(u)     => ~Scanning /\ ~Draining /\ Scanning' /\ ~Draining'
         /\ PollDone(u) => Scanning /\ ~Draining /\ ~Scanning' /\ Draining'
         /\ Drained(u)  => ~Scanning /\ Draining /\ ~Scanning' /\ ~Draining'
         /\ MutexUnlock(u) => ~Scanning /\ ~Draining /\ ~Scanning' /\ ~Draining'
<1> USE DEF TypeOK
<1>1. SynchronizeSrcu(u) => (Scanning' <=> Scanning) /\ (Draining' <=> Draining)
  BY DEF SynchronizeSrcu, Goto, Scanning, Draining
<1>2. EarlyExit(u) \/ MutexLock(u) => ~Scanning /\ ~Draining
  BY NobodyScans DEF EarlyExit, MutexLock
<1>3. EarlyExit(u) \/ MutexLock(u) => ~Scanning' /\ ~Draining'
  BY <1>2 DEF EarlyExit, MutexLock, Goto, Scanning, Draining
<1>4. Flip(u) => ~Scanning /\ ~Draining
  BY OwnerScans DEF Flip, Held
<1>5. Flip(u) => Scanning' /\ ~Draining'
  BY <1>4 DEF Flip, Goto, Scanning, Draining
<1>6. PollDone(u) => Scanning /\ ~Draining
  BY OwnerScans DEF PollDone, Held
<1>7. PollDone(u) => ~Scanning' /\ Draining'
  <2> SUFFICES ASSUME PollDone(u) PROVE ~Scanning' /\ Draining'
    OBVIOUS
  <2>1. \A v \in Updaters : v # u => upc[v] # "scan"
    BY OneScans DEF PollDone, Held
  <2> QED
    BY <2>1 DEF PollDone, Goto, Scanning, Draining
<1>8. Drained(u) => ~Scanning /\ Draining
  BY OwnerScans DEF Drained, Held
<1>9. Drained(u) => ~Scanning' /\ ~Draining'
  <2> SUFFICES ASSUME Drained(u) PROVE ~Scanning' /\ ~Draining'
    OBVIOUS
  <2>1. \A v \in Updaters : v # u => upc[v] \notin {"scan", "drained"}
    BY OneScans DEF Drained, Held
  <2> QED
    BY <2>1 DEF Drained, Goto, Scanning, Draining
<1>10. MutexUnlock(u) => ~Scanning /\ ~Draining
  BY OwnerScans DEF MutexUnlock, Held
<1>11. MutexUnlock(u) => ~Scanning' /\ ~Draining'
  BY <1>10 DEF MutexUnlock, Goto, Scanning, Draining
<1> QED
  BY <1>1, <1>2, <1>3, <1>4, <1>5, <1>6, <1>7, <1>8, <1>9, <1>10, <1>11


(* Every step keeps the loop of the scan inside the scan.                  *)
LEMMA LoopStep ==
  ASSUME TypeOK, OneOwner, OneOwner', Loop, [Next]_vars
  PROVE  Loop'
<1> USE DEF TypeOK, Loop
<1>1. CASE UNCHANGED vars
  BY <1>1, ReaderPhases DEF vars
<1>2. ASSUME NEW r \in Readers, NEW p \in Cpus, ReadLock(r, p) PROVE Loop'
  BY <1>2, ReaderPhases DEF ReadLock, PreemptDisable, updaterVars
<1>3. ASSUME NEW r \in Readers, ReadIdx(r) PROVE Loop'
  BY <1>3, ReaderPhases DEF ReadIdx, updaterVars
<1>4. ASSUME NEW r \in Readers, CountReader(r) PROVE Loop'
  BY <1>4, ReaderPhases DEF CountReader, PreemptEnable, updaterVars
<1>5. ASSUME NEW r \in Readers, NEW p \in Cpus, ReadUnlock(r, p) PROVE Loop'
  BY <1>5, ReaderPhases DEF ReadUnlock, PreemptDisable, updaterVars
<1>6. ASSUME NEW r \in Readers, ReadUnlockDone(r) PROVE Loop'
  BY <1>6, ReaderPhases DEF ReadUnlockDone, PreemptEnable, updaterVars
<1>7. ASSUME NEW u \in Updaters, SynchronizeSrcu(u) PROVE Loop'
  BY <1>7, OwnerPhases DEF SynchronizeSrcu, Goto, readerVars
<1>8. ASSUME NEW u \in Updaters, EarlyExit(u) PROVE Loop'
  BY <1>8, OwnerPhases DEF EarlyExit, Goto, readerVars
<1>9. ASSUME NEW u \in Updaters, MutexLock(u) PROVE Loop'
  BY <1>9, OwnerPhases DEF MutexLock, Goto, EnterSched, readerVars
<1>10. ASSUME NEW u \in Updaters, Flip(u) PROVE Loop'
  BY <1>10, OwnerPhases DEF Flip, Goto, EnterSched, readerVars
<1>11. ASSUME NEW u \in Updaters, SumCpu(u) PROVE Loop'
  BY <1>11, ReaderPhases, Constants DEF SumCpu, readerVars, Scanning
<1>12. ASSUME NEW u \in Updaters, PollAgain(u) PROVE Loop'
  BY <1>12, ReaderPhases, Constants DEF PollAgain, readerVars
<1>13. ASSUME NEW u \in Updaters, PollDone(u) PROVE Loop'
  BY <1>13, OwnerPhases DEF PollDone, Goto, EnterSched, readerVars
<1>14. ASSUME NEW u \in Updaters, Drained(u) PROVE Loop'
  BY <1>14, OwnerPhases DEF Drained, Goto, readerVars
<1>15. ASSUME NEW u \in Updaters, MutexUnlock(u) PROVE Loop'
  BY <1>15, OwnerPhases DEF MutexUnlock, Goto, readerVars
<1> QED
  BY <1>1, <1>2, <1>3, <1>4, <1>5, <1>6, <1>7, <1>8, <1>9, <1>10, <1>11,
     <1>12, <1>13, <1>14, <1>15, StepCases DEF Step


(* Every step keeps the scan on the rank not in use.                       *)
LEMMA ScanRankStep ==
  ASSUME TypeOK, OneOwner, ScanRank, [Next]_vars
  PROVE  ScanRank'
<1> USE DEF TypeOK, ScanRank
<1>1. CASE UNCHANGED vars
  BY <1>1 DEF vars
<1>2. ASSUME NEW r \in Readers, NEW p \in Cpus, ReadLock(r, p) PROVE ScanRank'
  BY <1>2 DEF ReadLock, PreemptDisable, updaterVars
<1>3. ASSUME NEW r \in Readers, ReadIdx(r) PROVE ScanRank'
  BY <1>3 DEF ReadIdx, updaterVars
<1>4. ASSUME NEW r \in Readers, CountReader(r) PROVE ScanRank'
  BY <1>4 DEF CountReader, PreemptEnable, updaterVars
<1>5. ASSUME NEW r \in Readers, NEW p \in Cpus, ReadUnlock(r, p)
      PROVE  ScanRank'
  BY <1>5 DEF ReadUnlock, PreemptDisable, updaterVars
<1>6. ASSUME NEW r \in Readers, ReadUnlockDone(r) PROVE ScanRank'
  BY <1>6 DEF ReadUnlockDone, PreemptEnable, updaterVars
<1>7. ASSUME NEW u \in Updaters, SynchronizeSrcu(u) PROVE ScanRank'
  BY <1>7 DEF SynchronizeSrcu, Goto, readerVars
<1>8. ASSUME NEW u \in Updaters, EarlyExit(u) PROVE ScanRank'
  BY <1>8 DEF EarlyExit, Goto, readerVars
<1>9. ASSUME NEW u \in Updaters, MutexLock(u) PROVE ScanRank'
  BY <1>9 DEF MutexLock, Goto, EnterSched, readerVars
<1>10. ASSUME NEW u \in Updaters, Flip(u) PROVE ScanRank'
  <2>1. completed' % 2 = 1 - (completed % 2) /\ completed % 2 \in {0, 1}
    BY <1>10, FlipParity DEF Flip
  <2>2. \A v \in Updaters : upc'[v] = "scan" => v = u
    BY <1>10, OwnerScans DEF Flip, Goto, Held, Scanning
  <2>3. idx'[u] = completed % 2
    BY <1>10 DEF Flip
  <2> QED
    BY <2>1, <2>2, <2>3
<1>11. ASSUME NEW u \in Updaters, SumCpu(u) PROVE ScanRank'
  BY <1>11 DEF SumCpu, readerVars
<1>12. ASSUME NEW u \in Updaters, PollAgain(u) PROVE ScanRank'
  BY <1>12 DEF PollAgain, readerVars
<1>13. ASSUME NEW u \in Updaters, PollDone(u) PROVE ScanRank'
  BY <1>13 DEF PollDone, Goto, EnterSched, readerVars
<1>14. ASSUME NEW u \in Updaters, Drained(u) PROVE ScanRank'
  BY <1>14 DEF Drained, Goto, readerVars
<1>15. ASSUME NEW u \in Updaters, MutexUnlock(u) PROVE ScanRank'
  BY <1>15 DEF MutexUnlock, Goto, readerVars
<1> QED
  BY <1>1, <1>2, <1>3, <1>4, <1>5, <1>6, <1>7, <1>8, <1>9, <1>10, <1>11,
     <1>12, <1>13, <1>14, <1>15, StepCases DEF Step


-----------------------------------------------------------------------------
(* The sum of the counters.                                                *)

(* The readers inside a rank can be counted in a word.                     *)
LEMMA InsideFacts ==
  ASSUME NEW i \in {0, 1}
  PROVE  /\ IsFiniteSet(Inside(i)) /\ Cardinality(Inside(i)) \in 0 .. CountMod - 1
         /\ Cardinality(Inside(i)) = 0 => Inside(i) = {}
<1>1. Inside(i) \subseteq Readers
  BY DEF Inside
<1>2. IsFiniteSet(Inside(i)) /\ Cardinality(Inside(i)) <= Cardinality(Readers)
  BY <1>1, Constants, FS_Subset
<1>3. Cardinality(Inside(i)) \in Nat
  BY <1>2, FS_CardinalityType
<1>4. Cardinality(Inside(i)) = 0 => Inside(i) = {}
  BY <1>2, FS_EmptySet
<1> QED
  BY <1>2, <1>3, <1>4, Constants

(* The same after a step.                                                  *)
LEMMA InsideFactsNext ==
  ASSUME NEW i \in {0, 1}
  PROVE  IsFiniteSet(Inside(i)') /\ Cardinality(Inside(i)') \in 0 .. CountMod - 1
<1>1. Inside(i)' \subseteq Readers
  BY DEF Inside
<1>2. IsFiniteSet(Inside(i)') /\ Cardinality(Inside(i)') <= Cardinality(Readers)
  BY <1>1, Constants, FS_Subset
<1>3. Cardinality(Inside(i)') \in Nat
  BY <1>2, FS_CardinalityType
<1> QED
  BY <1>2, <1>3, Constants

(* When the poll finds a sum of zero nobody is in the rank it summed: the  *)
(* number it stands for is below the modulus, so it is zero, and readers   *)
(* that left meanwhile only made it too large.                             *)
LEMMA ZeroSum ==
  ASSUME TypeOK, ScanRank, Tallied, NEW u \in Updaters, upc[u] = "scan",
         cpu = NCpus, sum = 0
  PROVE  Inside(1 - (completed % 2)) = {}
<1> DEFINE i == 1 - (completed % 2)
<1>1. i \in {0, 1} /\ idx[u] = i
  BY FlipParity DEF TypeOK, ScanRank
<1> HIDE DEF i
<1>2. PICK T \in [0..NCpus -> Int] : Tally(i, T) /\ Summed(i, T)
  BY <1>1 DEF Tallied
<1>3. PICK m \in 0 .. CountMod - 1 :
        Cardinality(Inside(i)) <= m /\ sum = Wrap(m - T[cpu])
  BY <1>1, <1>2 DEF Summed
<1>4. T[cpu] = 0
  BY <1>2 DEF Tally
<1>5. Wrap(m - T[cpu]) = m
  <2>1. m - T[cpu] = m
    BY <1>4, Constants
  <2> QED
    BY <2>1, Constants, ModIdentity DEF Wrap
<1>6. Cardinality(Inside(i)) <= 0
  BY <1>3, <1>5
<1>7. Inside(i) = {}
  BY <1>6, <1>1, InsideFacts
<1> QED
  BY <1>7 DEF i

(* A scan that has summed nothing yet will sum the readers inside.         *)
LEMMA FreshSum ==
  ASSUME Loop', cpu' = 0, NEW i \in {0, 1}, NEW T \in [0..NCpus -> Int], Tally(i, T)'
  PROVE  Summed(i, T)'
<1> DEFINE m == Cardinality(Inside(i)')
<1>1. m \in 0 .. CountMod - 1
  BY InsideFactsNext
<1>2. T[0] = m /\ T[cpu'] = m
  BY DEF Tally
<1>3. m - T[cpu'] = 0
  BY <1>1, <1>2, Constants
<1>4. sum' = 0 /\ Wrap(0) = 0
  BY Constants, ModIdentity DEF Loop, Wrap
<1>5. m <= m
  BY <1>1, Constants
<1> QED
  BY <1>1, <1>3, <1>4, <1>5 DEF Summed

(* Most steps leave the counters, the readers inside and the scan alone.   *)
LEMMA SameTally ==
  ASSUME c' = c, NEW i \in {0, 1}, Inside(i)' = Inside(i),
         NEW T \in [0..NCpus -> Int], Tally(i, T)
  PROVE  Tally(i, T)'
BY DEF Tally

LEMMA SameSum ==
  ASSUME NEW i \in {0, 1}, Inside(i)' = Inside(i), cpu' = cpu, sum' = sum,
         \A v \in Updaters : upc'[v] = "scan" => upc[v] = "scan" /\ idx'[v] = idx[v],
         NEW T \in [0..NCpus -> Int], Summed(i, T)
  PROVE  Summed(i, T)'
BY DEF Summed

LEMMA SameTallied ==
  ASSUME Tallied, c' = c, rpc' = rpc, ridx' = ridx, cpu' = cpu, sum' = sum,
         \A v \in Updaters : upc'[v] = "scan" => upc[v] = "scan" /\ idx'[v] = idx[v]
  PROVE  Tallied'
<1> SUFFICES ASSUME NEW i \in {0, 1}
             PROVE  \E T \in [0..NCpus -> Int] : Tally(i, T)' /\ Summed(i, T)'
  BY DEF Tallied
<1>1. Inside(i)' = Inside(i)
  BY DEF Inside
<1>2. PICK T \in [0..NCpus -> Int] : Tally(i, T) /\ Summed(i, T)
  BY DEF Tallied
<1> QED
  BY <1>1, <1>2, SameTally, SameSum

LEMMA FreshTallied ==
  ASSUME Tallied, Loop', cpu' = 0, c' = c, rpc' = rpc, ridx' = ridx
  PROVE  Tallied'
<1> SUFFICES ASSUME NEW i \in {0, 1}
             PROVE  \E T \in [0..NCpus -> Int] : Tally(i, T)' /\ Summed(i, T)'
  BY DEF Tallied
<1>1. Inside(i)' = Inside(i)
  BY DEF Inside
<1>2. PICK T \in [0..NCpus -> Int] : Tally(i, T) /\ Summed(i, T)
  BY DEF Tallied
<1>3. Tally(i, T)'
  BY <1>1, <1>2, SameTally
<1> QED
  BY <1>2, <1>3, FreshSum

(* Wrapped additions add up.                                               *)
LEMMA WrapAdd ==
  ASSUME NEW a \in Int, NEW b \in Int
  PROVE  Wrap(Wrap(a) + b) = Wrap(a + b) /\ Wrap(Wrap(a) + Wrap(b)) = Wrap(a + b)
BY Constants, ModAdd, ModAddMod DEF Wrap

(* A reader enters or leaves rank i on CPU p: the tally of p and of the    *)
(* CPUs before it changes by d.                                            *)
LEMMA MoveTally ==
  ASSUME TypeOK, NEW i \in {0, 1}, NEW p \in Cpus, NEW d \in {1, -1},
         NEW T \in [0..NCpus -> Int], Tally(i, T),
         c' = [c EXCEPT ![p][i] = Wrap(@ + d)],
         Cardinality(Inside(i)') = Cardinality(Inside(i)) + d
  PROVE  \E U \in [0..NCpus -> Int] :
           /\ Tally(i, U)'
           /\ \A q \in 0..NCpus : U[q] = IF q <= p THEN T[q] + d ELSE T[q]
<1> DEFINE U == [q \in 0..NCpus |-> IF q <= p THEN T[q] + d ELSE T[q]]
<1>1. U \in [0..NCpus -> Int] /\ p \in 0..NCpus /\ NCpus \in 0..NCpus /\ 0 \in 0..NCpus
      /\ ~(NCpus <= p) /\ 0 <= p
  <2>1. p \in Int /\ p \in 0..NCpus /\ NCpus \in 0..NCpus /\ 0 \in 0..NCpus /\ ~(NCpus <= p) /\ 0 <= p
    BY Constants
  <2>2. d \in Int
    OBVIOUS
  <2>3. \A q \in 0..NCpus : T[q] \in Int /\ T[q] + d \in Int
    BY <2>2
  <2>4. U \in [0..NCpus -> Int]
    BY <2>3
  <2> QED
    BY <2>1, <2>4
<1>2. U[NCpus] = 0 /\ U[0] = Cardinality(Inside(i)')
  BY <1>1 DEF Tally
<1>3. ASSUME NEW q \in Cpus PROVE c'[q][i] = Wrap(U[q] - U[q + 1])
  <2>1. q \in 0..NCpus /\ q + 1 \in 0..NCpus /\ T[q] \in Int /\ T[q + 1] \in Int
        /\ q \in Int /\ p \in Int
    BY Constants
  <2>2. c[q][i] = Wrap(T[q] - T[q + 1])
    BY DEF Tally
  <2>3. CASE q = p
    <3>1. c'[q][i] = Wrap(c[q][i] + d)
      BY <2>3 DEF TypeOK
    <3>2. U[q] - U[q + 1] = (T[q] - T[q + 1]) + d
      BY <2>1, <2>3
    <3> QED
      <4>1. T[q] - T[q + 1] \in Int /\ d \in Int
        BY <2>1
      <4> QED
        BY <2>2, <3>1, <3>2, <4>1, WrapAdd
  <2>4. CASE q # p
    <3>1. c'[q][i] = c[q][i]
      BY <2>4 DEF TypeOK
    <3>2. U[q] - U[q + 1] = T[q] - T[q + 1]
      BY <2>1, <2>4
    <3> QED
      BY <2>2, <3>1, <3>2
  <2> QED
    BY <2>3, <2>4
<1>4. Tally(i, U)'
  BY <1>2, <1>3 DEF Tally
<1>5. \A q \in 0..NCpus : U[q] = IF q <= p THEN T[q] + d ELSE T[q]
  OBVIOUS
<1> HIDE DEF U
<1> QED
  BY <1>1, <1>4, <1>5


(* Every step keeps the tallies of the counters.                           *)
LEMMA TallyStep ==
  ASSUME TypeOK, OneOwner, OneOwner', Loop, Loop', ScanRank, Ranks, Tallied, [Next]_vars
  PROVE  Tallied'
<1>1. CASE UNCHANGED vars
  BY <1>1, SameTallied DEF vars
<1>2. ASSUME NEW r \in Readers, NEW p \in Cpus, ReadLock(r, p) PROVE Tallied'
  <2> SUFFICES ASSUME NEW i \in {0, 1}
               PROVE  \E T \in [0..NCpus -> Int] : Tally(i, T)' /\ Summed(i, T)'
    BY DEF Tallied
  <2>1. Inside(i)' = Inside(i)
    BY <1>2 DEF ReadLock, PreemptDisable, updaterVars, Inside, TypeOK
  <2>2. PICK T \in [0..NCpus -> Int] : Tally(i, T) /\ Summed(i, T)
    BY DEF Tallied
  <2>3. c' = c /\ cpu' = cpu /\ sum' = sum /\ upc' = upc /\ idx' = idx
    BY <1>2 DEF ReadLock, PreemptDisable, updaterVars
  <2> QED
    BY <2>1, <2>2, <2>3, SameTally, SameSum
<1>3. ASSUME NEW r \in Readers, ReadIdx(r) PROVE Tallied'
  <2> SUFFICES ASSUME NEW i \in {0, 1}
               PROVE  \E T \in [0..NCpus -> Int] : Tally(i, T)' /\ Summed(i, T)'
    BY DEF Tallied
  <2>1. Inside(i)' = Inside(i)
    BY <1>3 DEF ReadIdx, updaterVars, Inside, TypeOK
  <2>2. PICK T \in [0..NCpus -> Int] : Tally(i, T) /\ Summed(i, T)
    BY DEF Tallied
  <2>3. c' = c /\ cpu' = cpu /\ sum' = sum /\ upc' = upc /\ idx' = idx
    BY <1>3 DEF ReadIdx, updaterVars
  <2> QED
    BY <2>1, <2>2, <2>3, SameTally, SameSum
<1>4. ASSUME NEW r \in Readers, CountReader(r) PROVE Tallied'
  <2> SUFFICES ASSUME NEW i \in {0, 1}
               PROVE  \E T \in [0..NCpus -> Int] : Tally(i, T)' /\ Summed(i, T)'
    BY DEF Tallied
  <2>1. PICK T \in [0..NCpus -> Int] : Tally(i, T) /\ Summed(i, T)
    BY DEF Tallied
  <2>2. cpu' = cpu /\ sum' = sum /\ upc' = upc /\ idx' = idx /\ rcpu[r] \in Cpus
    BY <1>4 DEF CountReader, PreemptEnable, updaterVars, TypeOK
  <2>3. CASE ridx[r] # i
    <3>1. Inside(i)' = Inside(i)
      BY <1>4, <2>3 DEF CountReader, PreemptEnable, updaterVars, Inside, TypeOK
    <3>2. \A q \in Cpus : c'[q][i] = c[q][i]
      BY <1>4, <2>3, <2>2 DEF CountReader, PreemptEnable, updaterVars, TypeOK
    <3>3. Tally(i, T)'
      BY <2>1, <3>1, <3>2 DEF Tally
    <3> QED
      BY <2>1, <2>2, <3>1, <3>3, SameSum
  <2>4. CASE ridx[r] = i
    <3>1. Inside(i)' = Inside(i) \cup {r} /\ r \notin Inside(i)
      BY <1>4, <2>4 DEF CountReader, PreemptEnable, updaterVars, Inside, TypeOK
    <3>2. Cardinality(Inside(i)') = Cardinality(Inside(i)) + 1
      BY <3>1, InsideFacts, CardAdd
    <3>3. c' = [c EXCEPT ![rcpu[r]][i] = Wrap(@ + 1)]
      BY <1>4, <2>4 DEF CountReader
    <3>4. PICK U \in [0..NCpus -> Int] : Tally(i, U)'
      BY <2>1, <2>2, <3>2, <3>3, MoveTally
    <3>5. CASE cpu = 0
      BY <3>4, <3>5, <2>2, FreshSum
    <3>6. CASE cpu # 0
      <4>1. ridx[r] = completed % 2
        BY <1>4, <3>6 DEF CountReader, Loop, Ranks
      <4>2. i # 1 - (completed % 2)
        BY <4>1, <2>4, FlipParity DEF TypeOK
      <4>3. \A v \in Updaters : upc'[v] = "scan" => idx'[v] # i
        BY <4>2, <2>2 DEF ScanRank
      <4>4. Summed(i, U)'
        BY <4>3 DEF Summed
      <4> QED
        BY <3>4, <4>4
    <3> QED
      BY <3>5, <3>6
  <2> QED
    BY <2>3, <2>4
<1>5. ASSUME NEW r \in Readers, NEW p \in Cpus, ReadUnlock(r, p) PROVE Tallied'
  <2> SUFFICES ASSUME NEW i \in {0, 1}
               PROVE  \E T \in [0..NCpus -> Int] : Tally(i, T)' /\ Summed(i, T)'
    BY DEF Tallied
  <2>1. PICK T \in [0..NCpus -> Int] : Tally(i, T) /\ Summed(i, T)
    BY DEF Tallied
  <2>2. cpu' = cpu /\ sum' = sum /\ upc' = upc /\ idx' = idx
    BY <1>5 DEF ReadUnlock, PreemptDisable, updaterVars
  <2>3. CASE ridx[r] # i
    <3>1. Inside(i)' = Inside(i)
      BY <1>5, <2>3 DEF ReadUnlock, PreemptDisable, updaterVars, Inside, TypeOK
    <3>2. \A q \in Cpus : c'[q][i] = c[q][i]
      BY <1>5, <2>3, <2>2 DEF ReadUnlock, PreemptDisable, updaterVars, TypeOK
    <3>3. Tally(i, T)'
      BY <2>1, <3>1, <3>2 DEF Tally
    <3> QED
      BY <2>1, <2>2, <3>1, <3>3, SameSum
  <2>4. CASE ridx[r] = i
    <3>1. Inside(i)' = Inside(i) \ {r} /\ r \in Inside(i)
      BY <1>5, <2>4 DEF ReadUnlock, PreemptDisable, updaterVars, Inside, TypeOK
    <3>2. Cardinality(Inside(i)') = Cardinality(Inside(i)) - 1
      BY <3>1, InsideFacts, CardRemove
    <3>3. Cardinality(Inside(i)') = Cardinality(Inside(i)) + -1
      BY <3>2, InsideFacts, Constants
    <3>4. c' = [c EXCEPT ![p][i] = Wrap(@ + -1)]
      <4>1. c[p][i] \in Int
        <5>1. c[p][i] \in 0 .. CountMod - 1
          BY DEF TypeOK
        <5> QED
          BY <5>1, Constants
      <4>2. c[p][i] - 1 = c[p][i] + -1
        BY <4>1
      <4>3. c' = [c EXCEPT ![p][i] = Wrap(c[p][i] - 1)]
        BY <1>5, <2>4 DEF ReadUnlock, TypeOK
      <4> QED
        BY <4>2, <4>3 DEF TypeOK
    <3>5. PICK U \in [0..NCpus -> Int] :
            /\ Tally(i, U)'
            /\ \A q \in 0..NCpus : U[q] = IF q <= p THEN T[q] + -1 ELSE T[q]
      BY <2>1, <3>3, <3>4, MoveTally
    <3>6. Summed(i, U)'
      <4> SUFFICES ASSUME NEW v \in Updaters, upc[v] = "scan", idx[v] = i
                   PROVE  \E m \in 0 .. CountMod - 1 :
                            Cardinality(Inside(i)') <= m /\ sum = Wrap(m - U[cpu])
        BY <2>2 DEF Summed
      <4>1. PICK m \in 0 .. CountMod - 1 :
              Cardinality(Inside(i)) <= m /\ sum = Wrap(m - T[cpu])
        BY <2>1 DEF Summed
      <4>2. cpu \in 0..NCpus /\ T[cpu] \in Int /\ p \in Int /\ m \in Int /\ m < CountMod
        BY Constants DEF TypeOK
      <4>3. Cardinality(Inside(i)) \in Int /\ Cardinality(Inside(i)') \in Nat
        <5>1. Cardinality(Inside(i)) \in 0 .. CountMod - 1
              /\ Cardinality(Inside(i)') \in 0 .. CountMod - 1
          BY InsideFacts, InsideFactsNext
        <5> QED
          BY <5>1, Constants
      <4>4. CASE cpu <= p
        <5>1. m - 1 \in 0 .. CountMod - 1 /\ Cardinality(Inside(i)') <= m - 1
          <6>1. 1 <= m /\ Cardinality(Inside(i)') <= m - 1
            BY <4>1, <4>2, <4>3, <3>2
          <6> QED
            BY <6>1, <4>2, Constants
        <5>2. (m - 1) - U[cpu] = m - T[cpu]
          BY <4>2, <4>4, <3>5
        <5> QED
          BY <5>1, <5>2, <4>1
      <4>5. CASE ~(cpu <= p)
        <5>1. Cardinality(Inside(i)') <= m
          BY <4>1, <4>2, <4>3, <3>2
        <5>2. U[cpu] = T[cpu]
          BY <4>2, <4>5, <3>5
        <5> QED
          BY <5>1, <5>2, <4>1
      <4> QED
        BY <4>4, <4>5
    <3> QED
      BY <3>5, <3>6
  <2> QED
    BY <2>3, <2>4
<1>6. ASSUME NEW r \in Readers, ReadUnlockDone(r) PROVE Tallied'
  <2> SUFFICES ASSUME NEW i \in {0, 1}
               PROVE  \E T \in [0..NCpus -> Int] : Tally(i, T)' /\ Summed(i, T)'
    BY DEF Tallied
  <2>1. Inside(i)' = Inside(i)
    BY <1>6 DEF ReadUnlockDone, PreemptEnable, updaterVars, Inside, TypeOK
  <2>2. PICK T \in [0..NCpus -> Int] : Tally(i, T) /\ Summed(i, T)
    BY DEF Tallied
  <2>3. c' = c /\ cpu' = cpu /\ sum' = sum /\ upc' = upc /\ idx' = idx
    BY <1>6 DEF ReadUnlockDone, PreemptEnable, updaterVars
  <2> QED
    BY <2>1, <2>2, <2>3, SameTally, SameSum
<1>7. ASSUME NEW u \in Updaters, SynchronizeSrcu(u) PROVE Tallied'
  BY <1>7, SameTallied DEF SynchronizeSrcu, Goto, readerVars, TypeOK
<1>8. ASSUME NEW u \in Updaters, EarlyExit(u) PROVE Tallied'
  BY <1>8, SameTallied DEF EarlyExit, Goto, readerVars, TypeOK
<1>9. ASSUME NEW u \in Updaters, MutexLock(u) PROVE Tallied'
  BY <1>9, SameTallied DEF MutexLock, Goto, EnterSched, readerVars, TypeOK
<1>10. ASSUME NEW u \in Updaters, Flip(u) PROVE Tallied'
  <2>1. cpu' = 0
    BY <1>10, OwnerPhases DEF Flip, Loop
  <2> QED
    BY <1>10, <2>1, FreshTallied DEF Flip, readerVars
<1>11. ASSUME NEW u \in Updaters, SumCpu(u) PROVE Tallied'
  <2> SUFFICES ASSUME NEW i \in {0, 1}
               PROVE  \E T \in [0..NCpus -> Int] : Tally(i, T)' /\ Summed(i, T)'
    BY DEF Tallied
  <2>1. PICK T \in [0..NCpus -> Int] : Tally(i, T) /\ Summed(i, T)
    BY DEF Tallied
  <2>2. Inside(i)' = Inside(i) /\ c' = c /\ upc' = upc /\ idx' = idx /\ cpu' = cpu + 1
    BY <1>11 DEF SumCpu, readerVars, Inside
  <2>3. Tally(i, T)'
    BY <2>1, <2>2, SameTally
  <2>4. Summed(i, T)'
    <3> SUFFICES ASSUME NEW v \in Updaters, upc[v] = "scan", idx[v] = i
                 PROVE  \E m \in 0 .. CountMod - 1 :
                          Cardinality(Inside(i)) <= m /\ sum' = Wrap(m - T[cpu + 1])
      BY <2>2 DEF Summed
    <3>1. PICK m \in 0 .. CountMod - 1 :
            Cardinality(Inside(i)) <= m /\ sum = Wrap(m - T[cpu])
      BY <2>1 DEF Summed
    <3>2. v = u
      BY <1>11, OneScans DEF SumCpu, Held
    <3>3. cpu \in Cpus /\ T[cpu] \in Int /\ T[cpu + 1] \in Int /\ m \in Int
      BY <1>11, Constants DEF SumCpu, TypeOK
    <3>4. sum' = Wrap(Wrap(m - T[cpu]) + Wrap(T[cpu] - T[cpu + 1]))
      BY <1>11, <2>1, <3>1, <3>2, <3>3 DEF SumCpu, Tally
    <3>5. (m - T[cpu]) + (T[cpu] - T[cpu + 1]) = m - T[cpu + 1]
          /\ m - T[cpu] \in Int /\ T[cpu] - T[cpu + 1] \in Int
      BY <3>3
    <3>6. sum' = Wrap(m - T[cpu + 1])
      <4> DEFINE x == m - T[cpu]
                 y == T[cpu] - T[cpu + 1]
      <4>1. x \in Int /\ y \in Int /\ x + y = m - T[cpu + 1] /\ sum' = Wrap(Wrap(x) + Wrap(y))
        BY <3>4, <3>5
      <4> HIDE DEF x, y
      <4>2. Wrap(Wrap(x) + Wrap(y)) = Wrap(x + y)
        BY <4>1, WrapAdd
      <4> QED
        BY <4>1, <4>2
    <3> QED
      BY <3>1, <3>6
  <2> QED
    BY <2>3, <2>4
<1>12. ASSUME NEW u \in Updaters, PollAgain(u) PROVE Tallied'
  BY <1>12, FreshTallied DEF PollAgain, readerVars
<1>13. ASSUME NEW u \in Updaters, PollDone(u) PROVE Tallied'
  BY <1>13, FreshTallied DEF PollDone, Goto, EnterSched, readerVars
<1>14. ASSUME NEW u \in Updaters, Drained(u) PROVE Tallied'
  BY <1>14, SameTallied DEF Drained, Goto, readerVars, TypeOK
<1>15. ASSUME NEW u \in Updaters, MutexUnlock(u) PROVE Tallied'
  BY <1>15, SameTallied DEF MutexUnlock, Goto, readerVars, TypeOK
<1> QED
  BY <1>1, <1>2, <1>3, <1>4, <1>5, <1>6, <1>7, <1>8, <1>9, <1>10, <1>11,
     <1>12, <1>13, <1>14, <1>15, StepCases DEF Step


(* Every step keeps readers out of the rank not in use.                    *)
LEMMA RanksStep ==
  ASSUME TypeOK, OneOwner, OneOwner', Loop, ScanRank, Ranks, Tallied, [Next]_vars
  PROVE  Ranks'
<1>1. CASE UNCHANGED vars
  BY <1>1, ReaderPhases DEF vars, Ranks
<1>2. ASSUME NEW r \in Readers, NEW p \in Cpus, ReadLock(r, p) PROVE Ranks'
  BY <1>2, ReaderPhases DEF ReadLock, PreemptDisable, updaterVars, TypeOK, Ranks
<1>3. ASSUME NEW r \in Readers, ReadIdx(r) PROVE Ranks'
  BY <1>3, ReaderPhases DEF ReadIdx, updaterVars, TypeOK, Ranks
<1>4. ASSUME NEW r \in Readers, CountReader(r) PROVE Ranks'
  BY <1>4, ReaderPhases DEF CountReader, PreemptEnable, updaterVars, TypeOK, Ranks
<1>5. ASSUME NEW r \in Readers, NEW p \in Cpus, ReadUnlock(r, p) PROVE Ranks'
  BY <1>5, ReaderPhases DEF ReadUnlock, PreemptDisable, updaterVars, TypeOK, Ranks
<1>6. ASSUME NEW r \in Readers, ReadUnlockDone(r) PROVE Ranks'
  BY <1>6, ReaderPhases DEF ReadUnlockDone, PreemptEnable, updaterVars, TypeOK, Ranks
<1>7. ASSUME NEW u \in Updaters, SynchronizeSrcu(u) PROVE Ranks'
  BY <1>7, OwnerPhases DEF SynchronizeSrcu, Goto, readerVars, Ranks
<1>8. ASSUME NEW u \in Updaters, EarlyExit(u) PROVE Ranks'
  BY <1>8, OwnerPhases DEF EarlyExit, Goto, readerVars, Ranks
<1>9. ASSUME NEW u \in Updaters, MutexLock(u) PROVE Ranks'
  BY <1>9, OwnerPhases DEF MutexLock, Goto, EnterSched, readerVars, Ranks
<1>10. ASSUME NEW u \in Updaters, Flip(u) PROVE Ranks'
  <2>1. completed' % 2 = 1 - (completed % 2) /\ completed % 2 \in {0, 1}
    BY <1>10, FlipParity DEF Flip, TypeOK
  <2> QED
    BY <1>10, <2>1, OwnerPhases DEF Flip, Goto, EnterSched, readerVars, Ranks, PreemptOff
<1>11. ASSUME NEW u \in Updaters, SumCpu(u) PROVE Ranks'
  BY <1>11, ReaderPhases DEF SumCpu, readerVars, Ranks
<1>12. ASSUME NEW u \in Updaters, PollAgain(u) PROVE Ranks'
  BY <1>12, ReaderPhases DEF PollAgain, readerVars, Ranks
<1>13. ASSUME NEW u \in Updaters, PollDone(u) PROVE Ranks'
  <2>1. Inside(1 - (completed % 2)) = {}
    BY <1>13, ZeroSum DEF PollDone
  <2>2. inSched = {} /\ Scanning /\ ~Scanning'
    BY <1>13, OwnerPhases, Constants DEF PollDone, Loop
  <2>3. \A r \in Readers : ridx[r] \in {0, 1} /\ completed % 2 \in {0, 1}
    BY FlipParity DEF TypeOK
  <2>4. \A r \in Readers : rpc[r] \in {"count", "in"} => ridx[r] = completed % 2
    BY <2>1, <2>2, <2>3 DEF Inside, Ranks
  <2> QED
    BY <1>13, <2>2, <2>4 DEF PollDone, readerVars, Ranks
<1>14. ASSUME NEW u \in Updaters, Drained(u) PROVE Ranks'
  BY <1>14, OwnerPhases DEF Drained, Goto, readerVars, Ranks
<1>15. ASSUME NEW u \in Updaters, MutexUnlock(u) PROVE Ranks'
  BY <1>15, OwnerPhases DEF MutexUnlock, Goto, readerVars, Ranks
<1> QED
  BY <1>1, <1>2, <1>3, <1>4, <1>5, <1>6, <1>7, <1>8, <1>9, <1>10, <1>11,
     <1>12, <1>13, <1>14, <1>15, StepCases DEF Step


(* Nobody waits for a reader that has left.                                *)
LEMMA PresentStep ==
  ASSUME TypeOK, Present, [Next]_vars
  PROVE  Present'
<1>1. CASE UNCHANGED vars
  BY <1>1 DEF vars, Present
<1>2. ASSUME NEW r \in Readers, NEW p \in Cpus, ReadLock(r, p) PROVE Present'
  BY <1>2 DEF ReadLock, PreemptDisable, updaterVars, TypeOK, Present
<1>3. ASSUME NEW r \in Readers, ReadIdx(r) PROVE Present'
  BY <1>3 DEF ReadIdx, updaterVars, TypeOK, Present
<1>4. ASSUME NEW r \in Readers, CountReader(r) PROVE Present'
  BY <1>4 DEF CountReader, PreemptEnable, updaterVars, TypeOK, Present
<1>5. ASSUME NEW r \in Readers, NEW p \in Cpus, ReadUnlock(r, p) PROVE Present'
  BY <1>5 DEF ReadUnlock, PreemptDisable, updaterVars, TypeOK, Present
<1>6. ASSUME NEW r \in Readers, ReadUnlockDone(r) PROVE Present'
  BY <1>6 DEF ReadUnlockDone, PreemptEnable, updaterVars, TypeOK, Present
<1>7. ASSUME NEW u \in Updaters, SynchronizeSrcu(u) PROVE Present'
  BY <1>7 DEF SynchronizeSrcu, Goto, readerVars, TypeOK, Present
<1>8. ASSUME NEW u \in Updaters, EarlyExit(u) PROVE Present'
  BY <1>8 DEF EarlyExit, Goto, readerVars, TypeOK, Present
<1>9. ASSUME NEW u \in Updaters, MutexLock(u) PROVE Present'
  BY <1>9 DEF MutexLock, Goto, EnterSched, readerVars, TypeOK, Present
<1>10. ASSUME NEW u \in Updaters, Flip(u) PROVE Present'
  BY <1>10 DEF Flip, Goto, EnterSched, readerVars, TypeOK, Present
<1>11. ASSUME NEW u \in Updaters, SumCpu(u) PROVE Present'
  BY <1>11 DEF SumCpu, readerVars, TypeOK, Present
<1>12. ASSUME NEW u \in Updaters, PollAgain(u) PROVE Present'
  BY <1>12 DEF PollAgain, readerVars, TypeOK, Present
<1>13. ASSUME NEW u \in Updaters, PollDone(u) PROVE Present'
  BY <1>13 DEF PollDone, Goto, EnterSched, readerVars, TypeOK, Present
<1>14. ASSUME NEW u \in Updaters, Drained(u) PROVE Present'
  BY <1>14 DEF Drained, Goto, readerVars, TypeOK, Present
<1>15. ASSUME NEW u \in Updaters, MutexUnlock(u) PROVE Present'
  BY <1>15 DEF MutexUnlock, Goto, readerVars, TypeOK, Present
<1> QED
  BY <1>1, <1>2, <1>3, <1>4, <1>5, <1>6, <1>7, <1>8, <1>9, <1>10, <1>11,
     <1>12, <1>13, <1>14, <1>15, StepCases DEF Step


-----------------------------------------------------------------------------
(* The grace period.                                                       *)

(* The early exit is not taken after no advance or one, wrapped or not.    *)
LEMMA NotHelped ==
  ASSUME TypeOK, NEW u \in Updaters,
         completed = idx[u] \/ completed = (idx[u] + 1) % IntMod
  PROVE  ~Helped(u)
<1> DEFINE a == completed
           b == idx[u]
           d == (a - b) % IntMod
<1>1. a \in 0 .. 2 * HalfInt - 1 /\ b \in 0 .. 2 * HalfInt - 1 /\ HalfInt \in Nat
      /\ HalfInt >= 4 /\ IntMod = 2 * HalfInt
  BY Constants DEF TypeOK, IntMod
<1>2. (b + 1) % IntMod = IF b = 2 * HalfInt - 1 THEN 0 ELSE b + 1
  BY <1>1, EvenModStep, Constants
<1>3. a = b \/ (a = 0 /\ b = 2 * HalfInt - 1) \/ a = b + 1
  BY <1>2
<1> HIDE DEF a, b
<1>4. d \in {0, 1}
  BY <1>1, <1>3
<1> HIDE DEF d
<1>5. Signed(d) = d
  BY <1>1, <1>4 DEF Signed
<1>6. ~(Signed(d) >= 2)
  BY <1>4, <1>5
<1> QED
  BY <1>6 DEF Helped, Advances, a, b, d

(* When the mutex is free, or its owner has not flipped yet or is about to *)
(* return, a caller that is covered has nobody left to wait for.           *)
LEMMA CoveredDone ==
  ASSUME ~Scanning, ~Draining, NEW v \in Updaters
  PROVE  Covered(v) => waitFor[v] = {}
BY DEF Covered

(* What the steps of a reader leave of the obligations of the callers.     *)
ReaderKeeps(v) ==
  /\ waitFor'[v] \subseteq waitFor[v]
  /\ Covered(v) => Covered(v)'
  /\ InTransit(v)' \subseteq InTransit(v)
  /\ InTransit(v) \subseteq inSched => InTransit(v)' \subseteq inSched'

(* Such a step keeps every caller's part of the invariant.                 *)
LEMMA ReaderGrace ==
  ASSUME Grace, upc' = upc, idx' = idx, completed' = completed,
         NEW v \in Updaters, ReaderKeeps(v)
  PROVE  GraceOf(v)'
<1>1. Scanning' <=> Scanning
  BY ReaderPhases
<1>2. OneAdvance(v) => OneAdvance(v)'
  BY <1>1 DEF ReaderKeeps, OneAdvance
<1>3. GraceOf(v)
  BY DEF Grace
<1> QED
  BY <1>2, <1>3 DEF ReaderKeeps, GraceOf


(* Every step keeps the obligations of the callers.                        *)
LEMMA GraceStep ==
  ASSUME TypeOK, OneOwner, OneOwner', Loop, ScanRank, Ranks, Tallied, Present,
         Grace, [Next]_vars
  PROVE  Grace'
<1>1. CASE UNCHANGED vars
  <2>1. upc' = upc /\ idx' = idx /\ completed' = completed /\ waitFor' = waitFor
        /\ rpc' = rpc /\ ridx' = ridx /\ inSched' = inSched
    BY <1>1 DEF vars
  <2>2. ASSUME NEW v \in Updaters PROVE ReaderKeeps(v)
    BY <2>1, ReaderPhases DEF ReaderKeeps, Covered, InTransit
  <2> QED
    BY <2>1, <2>2, ReaderGrace DEF Grace
<1>2. ASSUME NEW r \in Readers, NEW p \in Cpus, ReadLock(r, p) PROVE Grace'
  <2>1. upc' = upc /\ idx' = idx /\ completed' = completed
    BY <1>2 DEF ReadLock, PreemptDisable, updaterVars
  <2>2. (Scanning' <=> Scanning) /\ (Draining' <=> Draining)
    BY <2>1, ReaderPhases
  <2> SUFFICES ASSUME NEW v \in Updaters PROVE ReaderKeeps(v)
    BY <2>1, ReaderGrace DEF Grace
  <2>3. waitFor'[v] \subseteq waitFor[v]
    BY <1>2 DEF ReadLock, PreemptDisable, updaterVars, TypeOK
  <2>4. Covered(v) => Covered(v)'
    BY <1>2, <2>1, <2>2, <2>3 DEF ReadLock, PreemptDisable, updaterVars, TypeOK, Covered, Present
  <2>5. InTransit(v)' \subseteq InTransit(v)
        /\ (InTransit(v) \subseteq inSched => InTransit(v)' \subseteq inSched')
    BY <1>2 DEF ReadLock, PreemptDisable, updaterVars, TypeOK, InTransit, Present
  <2> QED
    BY <2>3, <2>4, <2>5 DEF ReaderKeeps
<1>3. ASSUME NEW r \in Readers, ReadIdx(r) PROVE Grace'
  <2>1. upc' = upc /\ idx' = idx /\ completed' = completed
    BY <1>3 DEF ReadIdx, updaterVars
  <2>2. (Scanning' <=> Scanning) /\ (Draining' <=> Draining)
    BY <2>1, ReaderPhases
  <2> SUFFICES ASSUME NEW v \in Updaters PROVE ReaderKeeps(v)
    BY <2>1, ReaderGrace DEF Grace
  <2>3. waitFor'[v] \subseteq waitFor[v]
    BY <1>3 DEF ReadIdx, updaterVars, TypeOK
  <2>4. Covered(v) => Covered(v)'
    BY <1>3, <2>1, <2>2, <2>3 DEF ReadIdx, updaterVars, TypeOK, Covered, Present
  <2>5. InTransit(v)' \subseteq InTransit(v)
        /\ (InTransit(v) \subseteq inSched => InTransit(v)' \subseteq inSched')
    BY <1>3 DEF ReadIdx, updaterVars, TypeOK, InTransit, Present
  <2> QED
    BY <2>3, <2>4, <2>5 DEF ReaderKeeps
<1>4. ASSUME NEW r \in Readers, CountReader(r) PROVE Grace'
  <2>1. upc' = upc /\ idx' = idx /\ completed' = completed
    BY <1>4 DEF CountReader, PreemptEnable, updaterVars
  <2>2. (Scanning' <=> Scanning) /\ (Draining' <=> Draining)
    BY <2>1, ReaderPhases
  <2> SUFFICES ASSUME NEW v \in Updaters PROVE ReaderKeeps(v)
    BY <2>1, ReaderGrace DEF Grace
  <2>3. waitFor'[v] \subseteq waitFor[v]
    BY <1>4 DEF CountReader, PreemptEnable, updaterVars, TypeOK
  <2>4. Covered(v) => Covered(v)'
    BY <1>4, <2>1, <2>2, <2>3 DEF CountReader, PreemptEnable, updaterVars, TypeOK, Covered, Present
  <2>5. InTransit(v)' \subseteq InTransit(v)
        /\ (InTransit(v) \subseteq inSched => InTransit(v)' \subseteq inSched')
    BY <1>4 DEF CountReader, PreemptEnable, updaterVars, TypeOK, InTransit, Present
  <2> QED
    BY <2>3, <2>4, <2>5 DEF ReaderKeeps
<1>5. ASSUME NEW r \in Readers, NEW p \in Cpus, ReadUnlock(r, p) PROVE Grace'
  <2>1. upc' = upc /\ idx' = idx /\ completed' = completed
    BY <1>5 DEF ReadUnlock, PreemptDisable, updaterVars
  <2>2. (Scanning' <=> Scanning) /\ (Draining' <=> Draining)
    BY <2>1, ReaderPhases
  <2> SUFFICES ASSUME NEW v \in Updaters PROVE ReaderKeeps(v)
    BY <2>1, ReaderGrace DEF Grace
  <2>3. waitFor'[v] \subseteq waitFor[v]
    BY <1>5 DEF ReadUnlock, PreemptDisable, updaterVars, TypeOK
  <2>4. Covered(v) => Covered(v)'
    BY <1>5, <2>1, <2>2, <2>3 DEF ReadUnlock, PreemptDisable, updaterVars, TypeOK, Covered, Present
  <2>5. InTransit(v)' \subseteq InTransit(v)
        /\ (InTransit(v) \subseteq inSched => InTransit(v)' \subseteq inSched')
    BY <1>5 DEF ReadUnlock, PreemptDisable, updaterVars, TypeOK, InTransit, Present
  <2> QED
    BY <2>3, <2>4, <2>5 DEF ReaderKeeps
<1>6. ASSUME NEW r \in Readers, ReadUnlockDone(r) PROVE Grace'
  <2>1. upc' = upc /\ idx' = idx /\ completed' = completed
    BY <1>6 DEF ReadUnlockDone, PreemptEnable, updaterVars
  <2>2. (Scanning' <=> Scanning) /\ (Draining' <=> Draining)
    BY <2>1, ReaderPhases
  <2> SUFFICES ASSUME NEW v \in Updaters PROVE ReaderKeeps(v)
    BY <2>1, ReaderGrace DEF Grace
  <2>3. waitFor'[v] \subseteq waitFor[v]
    BY <1>6 DEF ReadUnlockDone, PreemptEnable, updaterVars, TypeOK
  <2>4. Covered(v) => Covered(v)'
    BY <1>6, <2>1, <2>2, <2>3 DEF ReadUnlockDone, PreemptEnable, updaterVars, TypeOK, Covered, Present
  <2>5. InTransit(v)' \subseteq InTransit(v)
        /\ (InTransit(v) \subseteq inSched => InTransit(v)' \subseteq inSched')
    BY <1>6 DEF ReadUnlockDone, PreemptEnable, updaterVars, TypeOK, InTransit, Present
  <2> QED
    BY <2>3, <2>4, <2>5 DEF ReaderKeeps
<1>7. ASSUME NEW u \in Updaters, SynchronizeSrcu(u) PROVE Grace'
  <2> SUFFICES ASSUME NEW v \in Updaters PROVE GraceOf(v)'
    BY DEF Grace
  <2>1. CASE v = u
    <3>1. upc'[v] = "lock" /\ completed' = idx'[v]
      BY <1>7, <2>1 DEF SynchronizeSrcu, Goto, TypeOK
    <3> QED
      BY <3>1 DEF GraceOf
  <2>2. CASE v # u
    <3>1. upc'[v] = upc[v] /\ idx'[v] = idx[v] /\ waitFor'[v] = waitFor[v]
          /\ completed' = completed /\ rpc' = rpc /\ ridx' = ridx /\ inSched' = inSched
      BY <1>7, <2>2 DEF SynchronizeSrcu, Goto, readerVars, TypeOK
    <3>2. (Scanning' <=> Scanning) /\ (Draining' <=> Draining)
      BY <1>7, OwnerPhases
    <3>3. (Covered(v)' <=> Covered(v)) /\ InTransit(v)' = InTransit(v)
      BY <3>1, <3>2 DEF Covered, InTransit
    <3>4. OneAdvance(v)' <=> OneAdvance(v)
      BY <3>1, <3>2, <3>3 DEF OneAdvance
    <3> QED
      BY <3>1, <3>3, <3>4 DEF Grace, GraceOf
  <2> QED
    BY <2>1, <2>2
<1>8. ASSUME NEW u \in Updaters, EarlyExit(u) PROVE Grace'
  <2> SUFFICES ASSUME NEW v \in Updaters PROVE GraceOf(v)'
    BY DEF Grace
  <2>1. GraceOf(v) /\ GraceOf(u)
    BY DEF Grace
  <2>2. ~Scanning /\ ~Scanning' /\ ~Draining'
    BY <1>8, OwnerPhases
  <2>3. InTransit(v)' = InTransit(v) /\ waitFor' = waitFor /\ completed' = completed
    BY <1>8 DEF EarlyExit, Goto, readerVars, InTransit
  <2>4. Covered(v) => waitFor[v] = {}
    BY <1>8, OwnerPhases, CoveredDone
  <2>5. waitFor[v] = {} => Covered(v)'
    BY <2>3 DEF Covered
  <2>6. CASE v = u
    <3>1. ~(completed = idx[u]) /\ ~OneAdvance(u)
      BY <1>8, NotHelped DEF EarlyExit, OneAdvance
    <3>2. waitFor'[v] = {} /\ upc'[v] = "return"
      BY <1>8, <2>1, <2>3, <2>4, <2>6, <3>1 DEF EarlyExit, Goto, GraceOf, TypeOK
    <3> QED
      BY <3>2 DEF GraceOf
  <2>7. CASE v # u
    <3>1. upc'[v] = upc[v] /\ idx'[v] = idx[v]
      BY <1>8, <2>7 DEF EarlyExit, Goto, readerVars, TypeOK
    <3>2. OneAdvance(v) => OneAdvance(v)'
      BY <2>2, <2>3, <3>1 DEF OneAdvance
    <3>3. upc[v] # "flip"
      BY <1>8, SrcuAssumption DEF EarlyExit, Goto, readerVars, OneOwner, Held
    <3> QED
      BY <2>1, <2>3, <2>4, <2>5, <3>1, <3>2, <3>3 DEF GraceOf
  <2> QED
    BY <2>6, <2>7
<1>9. ASSUME NEW u \in Updaters, MutexLock(u) PROVE Grace'
  <2> SUFFICES ASSUME NEW v \in Updaters PROVE GraceOf(v)'
    BY DEF Grace
  <2>1. GraceOf(v) /\ GraceOf(u)
    BY DEF Grace
  <2>2. ~Scanning /\ ~Scanning' /\ ~Draining'
    BY <1>9, OwnerPhases
  <2>3. InTransit(v)' = InTransit(v) /\ waitFor' = waitFor /\ completed' = completed
    BY <1>9 DEF MutexLock, Goto, EnterSched, readerVars, InTransit
  <2>4. Covered(v) => waitFor[v] = {}
    BY <1>9, OwnerPhases, CoveredDone
  <2>5. waitFor[v] = {} => Covered(v)'
    BY <2>3 DEF Covered
  <2>6. CASE v = u
    <3>1. upc'[v] = "flip"
      BY <1>9, <2>6 DEF MutexLock, Goto, TypeOK
    <3>2. InTransit(v) \subseteq inSched'
      BY <1>9 DEF MutexLock, EnterSched, PreemptOff, InTransit, TypeOK
    <3> QED
      BY <2>3, <3>1, <3>2 DEF GraceOf
  <2>7. CASE v # u
    <3>1. upc'[v] = upc[v] /\ idx'[v] = idx[v]
      BY <1>9, <2>7 DEF MutexLock, Goto, EnterSched, readerVars, TypeOK
    <3>2. OneAdvance(v) => OneAdvance(v)'
      BY <2>2, <2>3, <3>1 DEF OneAdvance
    <3>3. upc[v] # "flip"
      BY <1>9, SrcuAssumption DEF MutexLock, Goto, EnterSched, readerVars, OneOwner, Held
    <3> QED
      BY <2>1, <2>3, <2>4, <2>5, <3>1, <3>2, <3>3 DEF GraceOf
  <2> QED
    BY <2>6, <2>7
<1>10. ASSUME NEW u \in Updaters, Flip(u) PROVE Grace'
  <2> SUFFICES ASSUME NEW v \in Updaters PROVE GraceOf(v)'
    BY DEF Grace
  <2>1. GraceOf(v) /\ GraceOf(u)
    BY DEF Grace
  <2>2. ~Scanning /\ ~Draining /\ Scanning'
    BY <1>10, OwnerPhases
  <2>3. rpc' = rpc /\ ridx' = ridx /\ waitFor' = waitFor /\ inSched' = PreemptOff
        /\ completed' = (completed + 1) % IntMod /\ inSched = {}
    BY <1>10 DEF Flip, Goto, EnterSched, readerVars
  <2>4. completed' % 2 # completed % 2
    BY <2>3, FlipParity DEF TypeOK
  <2>5. InTransit(v)' \subseteq inSched'
    BY <2>3 DEF InTransit, PreemptOff, TypeOK
  <2>6. ASSUME InTransit(v) = {} PROVE Covered(v)'
    <3>1. \A r \in waitFor[v] : r \in Readers /\ rpc[r] \in {"in", "unlock"}
      BY <2>6 DEF TypeOK, Present, InTransit
    <3>2. \A r \in waitFor[v] : rpc[r] = "in" => ridx[r] # completed' % 2
      BY <2>2, <2>4, <3>1 DEF Ranks
    <3> QED
      BY <2>2, <2>3, <3>1, <3>2 DEF Covered
  <2>7. CASE v = u
    <3>1. upc'[v] = "scan" /\ InTransit(v) = {}
      BY <1>10, <2>1, <2>3, <2>7 DEF Flip, Goto, GraceOf, TypeOK
    <3> QED
      BY <3>1, <2>6 DEF GraceOf
  <2>8. CASE v # u
    <3>1. upc'[v] = upc[v] /\ idx'[v] = idx[v] /\ upc[v] \notin Held
      BY <1>10, <2>8, OneScans DEF Flip, Goto, TypeOK, Held
    <3>2. completed = idx[v] => OneAdvance(v)'
      BY <2>2, <2>3, <2>5, <3>1 DEF OneAdvance
    <3>3. OneAdvance(v) => Covered(v)'
      <4>1. OneAdvance(v) => InTransit(v) = {}
        BY <2>2 DEF OneAdvance
      <4> QED
        BY <4>1, <2>6
    <3>4. Covered(v) => Covered(v)'
      <4>1. Covered(v) => waitFor[v] = {}
        BY <2>2, CoveredDone
      <4>2. waitFor[v] = {} => InTransit(v) = {}
        BY DEF InTransit
      <4> QED
        BY <4>1, <4>2, <2>6
    <3> QED
      BY <2>1, <3>1, <3>2, <3>3, <3>4 DEF GraceOf, Held
  <2> QED
    BY <2>7, <2>8
<1>11. ASSUME NEW u \in Updaters, SumCpu(u) PROVE Grace'
  <2>1. upc' = upc /\ idx' = idx /\ completed' = completed /\ waitFor' = waitFor
        /\ rpc' = rpc /\ ridx' = ridx /\ inSched' = inSched
    BY <1>11 DEF SumCpu, readerVars
  <2>2. ASSUME NEW v \in Updaters PROVE ReaderKeeps(v)
    BY <2>1, ReaderPhases DEF ReaderKeeps, Covered, InTransit
  <2> QED
    BY <2>1, <2>2, ReaderGrace DEF Grace
<1>12. ASSUME NEW u \in Updaters, PollAgain(u) PROVE Grace'
  <2>1. upc' = upc /\ idx' = idx /\ completed' = completed /\ waitFor' = waitFor
        /\ rpc' = rpc /\ ridx' = ridx /\ inSched' = inSched
    BY <1>12 DEF PollAgain, readerVars
  <2>2. ASSUME NEW v \in Updaters PROVE ReaderKeeps(v)
    BY <2>1, ReaderPhases DEF ReaderKeeps, Covered, InTransit
  <2> QED
    BY <2>1, <2>2, ReaderGrace DEF Grace
<1>13. ASSUME NEW u \in Updaters, PollDone(u) PROVE Grace'
  <2> SUFFICES ASSUME NEW v \in Updaters PROVE GraceOf(v)'
    BY DEF Grace
  <2>1. GraceOf(v) /\ GraceOf(u)
    BY DEF Grace
  <2>2. Scanning /\ ~Draining /\ ~Scanning' /\ Draining'
    BY <1>13, OwnerPhases
  <2>3. rpc' = rpc /\ ridx' = ridx /\ waitFor' = waitFor /\ inSched' = PreemptOff
        /\ completed' = completed /\ inSched = {} /\ idx' = idx
    BY <1>13, Constants DEF PollDone, Goto, EnterSched, readerVars, Loop
  <2>4. Covered(v) => Covered(v)'
    <3> SUFFICES ASSUME Covered(v), waitFor[v] # {}
                 PROVE  \A r \in waitFor[v] : rpc[r] = "unlock" /\ r \in PreemptOff
      BY <2>2, <2>3 DEF Covered
    <3>1. Inside(1 - (completed % 2)) = {}
      BY <1>13, ZeroSum DEF PollDone
    <3>2. \A r \in waitFor[v] : r \in Readers /\ ridx[r] \in {0, 1} /\ completed % 2 \in {0, 1}
      BY FlipParity DEF TypeOK
    <3>3. \A r \in waitFor[v] : rpc[r] = "unlock"
      BY <2>2, <3>1, <3>2 DEF Covered, Inside
    <3> QED
      BY <3>2, <3>3 DEF PreemptOff
  <2>5. OneAdvance(v) => OneAdvance(v)'
    BY <2>2, <2>3 DEF OneAdvance, InTransit
  <2>6. CASE v = u
    BY <1>13, <2>1, <2>4, <2>6 DEF PollDone, Goto, GraceOf, TypeOK
  <2>7. CASE v # u
    <3>1. upc'[v] = upc[v] /\ upc[v] \notin Held
      BY <1>13, <2>7, OneScans DEF PollDone, Goto, TypeOK, Held
    <3> QED
      BY <2>1, <2>3, <2>4, <2>5, <3>1 DEF GraceOf, Held
  <2> QED
    BY <2>6, <2>7
<1>14. ASSUME NEW u \in Updaters, Drained(u) PROVE Grace'
  <2> SUFFICES ASSUME NEW v \in Updaters PROVE GraceOf(v)'
    BY DEF Grace
  <2>1. GraceOf(v) /\ GraceOf(u)
    BY DEF Grace
  <2>2. ~Scanning /\ ~Scanning' /\ ~Draining'
    BY <1>14, OwnerPhases
  <2>3. InTransit(v)' = InTransit(v) /\ waitFor' = waitFor /\ completed' = completed
    BY <1>14 DEF Drained, Goto, readerVars, InTransit
  <2>4. Covered(v) => waitFor[v] = {}
    <3>1. ~Scanning /\ inSched = {}
      BY <1>14, <2>2 DEF Drained
    <3> QED
      BY <3>1 DEF Covered
  <2>5. waitFor[v] = {} => Covered(v)'
    BY <2>3 DEF Covered
  <2>6. CASE v = u
    <3>1. waitFor'[v] = {} /\ upc'[v] = "return"
      BY <1>14, <2>1, <2>3, <2>4, <2>6 DEF Drained, Goto, GraceOf, TypeOK
    <3> QED
      BY <3>1 DEF GraceOf
  <2>7. CASE v # u
    <3>1. upc'[v] = upc[v] /\ idx'[v] = idx[v]
      BY <1>14, <2>7 DEF Drained, Goto, readerVars, TypeOK
    <3>2. OneAdvance(v) => OneAdvance(v)'
      BY <2>2, <2>3, <3>1 DEF OneAdvance
    <3>3. upc[v] # "flip"
      BY <1>14, <2>7, OneScans DEF Drained, Goto, readerVars, Held
    <3> QED
      BY <2>1, <2>3, <2>4, <2>5, <3>1, <3>2, <3>3 DEF GraceOf
  <2> QED
    BY <2>6, <2>7
<1>15. ASSUME NEW u \in Updaters, MutexUnlock(u) PROVE Grace'
  <2> SUFFICES ASSUME NEW v \in Updaters PROVE GraceOf(v)'
    BY DEF Grace
  <2>1. GraceOf(v) /\ GraceOf(u)
    BY DEF Grace
  <2>2. ~Scanning /\ ~Scanning' /\ ~Draining'
    BY <1>15, OwnerPhases
  <2>3. InTransit(v)' = InTransit(v) /\ waitFor' = waitFor /\ completed' = completed
    BY <1>15 DEF MutexUnlock, Goto, readerVars, InTransit
  <2>4. Covered(v) => waitFor[v] = {}
    BY <1>15, OwnerPhases, CoveredDone
  <2>5. waitFor[v] = {} => Covered(v)'
    BY <2>3 DEF Covered
  <2>6. CASE v = u
    <3>1. upc'[v] = "idle"
      BY <1>15, <2>6 DEF MutexUnlock, Goto, TypeOK
    <3> QED
      BY <3>1 DEF GraceOf
  <2>7. CASE v # u
    <3>1. upc'[v] = upc[v] /\ idx'[v] = idx[v]
      BY <1>15, <2>7 DEF MutexUnlock, Goto, readerVars, TypeOK
    <3>2. OneAdvance(v) => OneAdvance(v)'
      BY <2>2, <2>3, <3>1 DEF OneAdvance
    <3>3. upc[v] # "flip"
      BY <1>15, <2>7, OneScans DEF MutexUnlock, Goto, readerVars, Held
    <3> QED
      BY <2>1, <2>3, <2>4, <2>5, <3>1, <3>2, <3>3 DEF GraceOf
  <2> QED
    BY <2>6, <2>7
<1> QED
  BY <1>1, <1>2, <1>3, <1>4, <1>5, <1>6, <1>7, <1>8, <1>9, <1>10, <1>11,
     <1>12, <1>13, <1>14, <1>15, StepCases DEF Step


-----------------------------------------------------------------------------
(* The theorems.                                                           *)

(* The invariant holds initially, every step keeps it, so it always holds. *)
LEMMA InitInv == Init => IInv
<1> SUFFICES ASSUME Init PROVE IInv
  OBVIOUS
<1>1. TypeOK
  BY Constants DEF Init, TypeOK
<1>2. ~Scanning
  BY DEF Init, Scanning
<1>3. OneOwner /\ Loop /\ ScanRank /\ Ranks /\ Present
  BY <1>2, SrcuAssumption DEF Init, OneOwner, Held, Loop, ScanRank, Ranks, Present
<1>4. Grace
  BY DEF Init, Grace, GraceOf
<1>5. Tallied
  <2> SUFFICES ASSUME NEW i \in {0, 1}
               PROVE  \E T \in [0..NCpus -> Int] : Tally(i, T) /\ Summed(i, T)
    BY DEF Tallied
  <2> DEFINE T == [q \in 0..NCpus |-> 0]
  <2>1. T \in [0..NCpus -> Int] /\ T[NCpus] = 0 /\ T[0] = 0
    BY Constants
  <2>2. Inside(i) = {}
    BY DEF Init, Inside
  <2>3. Cardinality(Inside(i)) = 0
    BY <2>2, FS_EmptySet
  <2>4. Wrap(0) = 0
    BY Constants, ModIdentity DEF Wrap
  <2>5. ASSUME NEW p \in Cpus PROVE c[p][i] = Wrap(T[p] - T[p + 1])
    <3>1. p \in 0..NCpus /\ p + 1 \in 0..NCpus
      BY Constants
    <3>2. T[p] - T[p + 1] = 0
      BY <3>1
    <3> QED
      BY <3>2, <2>4 DEF Init
  <2>6. Summed(i, T)
    BY <1>2 DEF Summed, Scanning
  <2> QED
    BY <2>1, <2>3, <2>5, <2>6 DEF Tally
<1> QED
  BY <1>1, <1>3, <1>4, <1>5 DEF IInv

LEMMA InvStep == ASSUME IInv, [Next]_vars PROVE IInv'
<1> USE DEF IInv
<1>1. TypeOK'
  BY TypeStep
<1>2. OneOwner'
  BY OwnerStep
<1>3. Loop'
  BY <1>2, LoopStep
<1>4. ScanRank'
  BY ScanRankStep
<1>5. Ranks'
  BY <1>2, RanksStep
<1>6. Tallied'
  BY <1>2, <1>3, TallyStep
<1>7. Grace'
  BY <1>2, GraceStep
<1>8. Present'
  BY PresentStep
<1> QED
  BY <1>1, <1>2, <1>3, <1>4, <1>5, <1>6, <1>7, <1>8

LEMMA Invariance == Spec => []IInv
<1>1. IInv /\ [Next]_vars => IInv'
  BY InvStep
<1> QED
  BY InitInv, <1>1, PTL DEF Spec

(* Every variable keeps its type; the counters and completed stay words.   *)
THEOREM TypeCorrect == Spec => []TypeOK
<1>1. IInv => TypeOK
  BY DEF IInv
<1> QED
  BY Invariance, <1>1, PTL

(* Between grace periods the rank not in use is empty, whatever the CPUs   *)
(* the readers enter and leave on and however often the counters wrapped.  *)
THEOREM IdleRank == Spec => []IdleRankEmpty
<1>1. IInv => IdleRankEmpty
  BY NobodyScans DEF IInv, IdleRankEmpty, Ranks
<1> QED
  BY Invariance, <1>1, PTL

(* Every step of the code is a step of the abstract grace period or leaves *)
(* it alone.                                                               *)
LEMMA RefineStep ==
  ASSUME IInv, [Next]_vars
  PROVE  [AGP!Next]_<<{r \in Readers : rpc[r] # "out"},
                      {u \in Updaters : upc[u] # "idle"}, waitFor>>

<1> DEFINE readers == {r \in Readers : rpc[r] # "out"}
           calling == {u \in Updaters : upc[u] # "idle"}
<1> USE DEF IInv, TypeOK
<1>1. CASE UNCHANGED vars
  BY <1>1 DEF vars
<1>2. ASSUME NEW r \in Readers, NEW p \in Cpus, ReadLock(r, p)
      PROVE  AGP!Next \/ UNCHANGED <<readers, calling, waitFor>>
  <2>1. r \notin readers /\ readers' = readers \cup {r}
    BY <1>2 DEF ReadLock
  <2>2. calling' = calling /\ waitFor' = waitFor
    BY <1>2 DEF ReadLock, updaterVars
  <2> QED
    BY <2>1, <2>2 DEF AGP!Next, AGP!Begin
<1>3. ASSUME NEW r \in Readers, ReadIdx(r)
      PROVE  AGP!Next \/ UNCHANGED <<readers, calling, waitFor>>
  <2>1. readers' = readers
    BY <1>3 DEF ReadIdx, updaterVars
  <2> QED
    BY <1>3, <2>1 DEF ReadIdx, updaterVars
<1>4. ASSUME NEW r \in Readers, CountReader(r)
      PROVE  AGP!Next \/ UNCHANGED <<readers, calling, waitFor>>
  <2>1. readers' = readers
    BY <1>4 DEF CountReader, PreemptEnable, updaterVars
  <2> QED
    BY <1>4, <2>1 DEF CountReader, PreemptEnable, updaterVars
<1>5. ASSUME NEW r \in Readers, NEW p \in Cpus, ReadUnlock(r, p)
      PROVE  AGP!Next \/ UNCHANGED <<readers, calling, waitFor>>
  <2>1. readers' = readers
    BY <1>5 DEF ReadUnlock, PreemptDisable, updaterVars
  <2> QED
    BY <1>5, <2>1 DEF ReadUnlock, PreemptDisable, updaterVars
<1>6. ASSUME NEW r \in Readers, ReadUnlockDone(r)
      PROVE  AGP!Next \/ UNCHANGED <<readers, calling, waitFor>>
  <2>1. r \in readers /\ readers' = readers \ {r}
    BY <1>6 DEF ReadUnlockDone
  <2>2. calling' = calling /\ waitFor' = [v \in Updaters |-> waitFor[v] \ {r}]
    BY <1>6 DEF ReadUnlockDone, updaterVars
  <2> QED
    BY <2>1, <2>2 DEF AGP!Next, AGP!End
<1>7. ASSUME NEW u \in Updaters, SynchronizeSrcu(u)
      PROVE  AGP!Next \/ UNCHANGED <<readers, calling, waitFor>>
  <2>1. u \notin calling /\ calling' = calling \cup {u}
    BY <1>7 DEF SynchronizeSrcu, Goto
  <2>2. readers' = readers /\ waitFor' = [waitFor EXCEPT ![u] = readers]
    BY <1>7 DEF SynchronizeSrcu, readerVars
  <2> QED
    BY <2>1, <2>2 DEF AGP!Next, AGP!Call
<1>8. ASSUME NEW u \in Updaters, EarlyExit(u)
      PROVE  AGP!Next \/ UNCHANGED <<readers, calling, waitFor>>
  <2>1. calling' = calling
    BY <1>8 DEF EarlyExit, Goto, readerVars
  <2> QED
    BY <1>8, <2>1 DEF EarlyExit, Goto, readerVars
<1>9. ASSUME NEW u \in Updaters, MutexLock(u)
      PROVE  AGP!Next \/ UNCHANGED <<readers, calling, waitFor>>
  <2>1. calling' = calling
    BY <1>9 DEF MutexLock, Goto, EnterSched, readerVars
  <2> QED
    BY <1>9, <2>1 DEF MutexLock, Goto, EnterSched, readerVars
<1>10. ASSUME NEW u \in Updaters, Flip(u)
      PROVE  AGP!Next \/ UNCHANGED <<readers, calling, waitFor>>
  <2>1. calling' = calling
    BY <1>10 DEF Flip, Goto, EnterSched, readerVars
  <2> QED
    BY <1>10, <2>1 DEF Flip, Goto, EnterSched, readerVars
<1>11. ASSUME NEW u \in Updaters, SumCpu(u)
      PROVE  AGP!Next \/ UNCHANGED <<readers, calling, waitFor>>
  <2>1. calling' = calling
    BY <1>11 DEF SumCpu, readerVars
  <2> QED
    BY <1>11, <2>1 DEF SumCpu, readerVars
<1>12. ASSUME NEW u \in Updaters, PollAgain(u)
      PROVE  AGP!Next \/ UNCHANGED <<readers, calling, waitFor>>
  <2>1. calling' = calling
    BY <1>12 DEF PollAgain, readerVars
  <2> QED
    BY <1>12, <2>1 DEF PollAgain, readerVars
<1>13. ASSUME NEW u \in Updaters, PollDone(u)
      PROVE  AGP!Next \/ UNCHANGED <<readers, calling, waitFor>>
  <2>1. calling' = calling
    BY <1>13 DEF PollDone, Goto, EnterSched, readerVars
  <2> QED
    BY <1>13, <2>1 DEF PollDone, Goto, EnterSched, readerVars
<1>14. ASSUME NEW u \in Updaters, Drained(u)
      PROVE  AGP!Next \/ UNCHANGED <<readers, calling, waitFor>>
  <2>1. calling' = calling
    BY <1>14 DEF Drained, Goto, readerVars
  <2> QED
    BY <1>14, <2>1 DEF Drained, Goto, readerVars
<1>15. ASSUME NEW u \in Updaters, MutexUnlock(u)
      PROVE  AGP!Next \/ UNCHANGED <<readers, calling, waitFor>>
  <2>1. u \in calling /\ calling' = calling \ {u}
    BY <1>15 DEF MutexUnlock, Goto
  <2>2. readers' = readers /\ waitFor' = waitFor /\ waitFor[u] = {}
    BY <1>15 DEF MutexUnlock, readerVars, Grace, GraceOf
  <2> QED
    BY <2>1, <2>2 DEF AGP!Next, AGP!Return
<1> QED
  BY <1>1, <1>2, <1>3, <1>4, <1>5, <1>6, <1>7, <1>8, <1>9, <1>10, <1>11,
     <1>12, <1>13, <1>14, <1>15, StepCases DEF Step

(* synchronize_srcu implements the abstract grace period: it returns, by   *)
(* the early exit too, only after every reader that could hold a reference *)
(* when it was called has dropped it.                                      *)
THEOREM Refinement == Spec => ImplementsGracePeriod
<1>1. Init => AGP!Init
  BY DEF Init, AGP!Init
<1>2. IInv /\ [Next]_vars =>
        [AGP!Next]_<<{r \in Readers : rpc[r] # "out"},
                     {u \in Updaters : upc[u] # "idle"}, waitFor>>
  BY RefineStep
<1> QED
  BY <1>1, <1>2, Invariance, PTL DEF Spec, ImplementsGracePeriod, AGP!Spec
=============================================================================
