---------------------------- MODULE AbstractLock ----------------------------
(***************************************************************************)
(* What a blocking mutual-exclusion lock promises its callers, whatever    *)
(* its implementation: the lock has at most one owner, only a free lock is *)
(* acquired, and only its owner gives it up.                               *)
(***************************************************************************)
CONSTANTS Tasks, NoTask

VARIABLE owner

Init == owner = NoTask

Acquire(t) ==
  /\ owner = NoTask
  /\ owner' = t

Release(t) ==
  /\ owner = t
  /\ owner' = NoTask

Next == \E t \in Tasks : Acquire(t) \/ Release(t)

Spec == Init /\ [][Next]_owner
=============================================================================
