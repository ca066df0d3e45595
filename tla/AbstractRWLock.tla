--------------------------- MODULE AbstractRWLock ---------------------------
(***************************************************************************)
(* What a reader/writer lock promises its callers: any number of readers   *)
(* or one writer, and a writer may turn into a reader without letting      *)
(* another writer in between.                                              *)
(***************************************************************************)
CONSTANTS Tasks, NoTask

VARIABLES readers, writer

Init == readers = {} /\ writer = NoTask

AcquireRead(t) ==
  /\ writer = NoTask
  /\ t \notin readers
  /\ readers' = readers \cup {t}
  /\ UNCHANGED writer

ReleaseRead(t) ==
  /\ t \in readers
  /\ readers' = readers \ {t}
  /\ UNCHANGED writer

AcquireWrite(t) ==
  /\ writer = NoTask
  /\ readers = {}
  /\ writer' = t
  /\ UNCHANGED readers

ReleaseWrite(t) ==
  /\ writer = t
  /\ writer' = NoTask
  /\ UNCHANGED readers

Downgrade(t) ==
  /\ writer = t
  /\ writer' = NoTask
  /\ readers' = {t}

Next ==
  \E t \in Tasks :
    AcquireRead(t) \/ ReleaseRead(t) \/ AcquireWrite(t) \/ ReleaseWrite(t) \/ Downgrade(t)

Spec == Init /\ [][Next]_<<readers, writer>>
=============================================================================
