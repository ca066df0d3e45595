------------------------- MODULE AbstractGracePeriod -------------------------
(***************************************************************************)
(* What a "synchronize" primitive of the RCU family promises: it returns   *)
(* only when every reader that held a reference at the time of the call    *)
(* has dropped it.  Readers come and go as they like meanwhile.            *)
(***************************************************************************)
CONSTANTS Readers, Updaters

VARIABLES
  readers,   \* the readers that may hold a reference
  calling,   \* the updaters inside synchronize
  waitFor    \* for each of them, the readers it still has to outlive

Init ==
  /\ readers = {}
  /\ calling = {}
  /\ waitFor = [u \in Updaters |-> {}]

Begin(r) ==
  /\ r \notin readers
  /\ readers' = readers \cup {r}
  /\ UNCHANGED <<calling, waitFor>>

End(r) ==
  /\ r \in readers
  /\ readers' = readers \ {r}
  /\ waitFor' = [u \in Updaters |-> waitFor[u] \ {r}]
  /\ UNCHANGED calling

Call(u) ==
  /\ u \notin calling
  /\ calling' = calling \cup {u}
  /\ waitFor' = [waitFor EXCEPT ![u] = readers]
  /\ UNCHANGED readers

Return(u) ==
  /\ u \in calling
  /\ waitFor[u] = {}
  /\ calling' = calling \ {u}
  /\ UNCHANGED <<readers, waitFor>>

Next ==
  \/ \E r \in Readers : Begin(r) \/ End(r)
  \/ \E u \in Updaters : Call(u) \/ Return(u)

Spec == Init /\ [][Next]_<<readers, calling, waitFor>>
=============================================================================
