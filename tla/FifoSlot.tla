------------------------------ MODULE FifoSlot ------------------------------
(***************************************************************************)
(* What the speedtest queue promises, without its lock, its handler        *)
(* goroutine or its channels.  Clients wait for one slot.  It is granted   *)
(* only while nobody holds it, and only to a client that no other waiting  *)
(* client has preceded.  A waiting client may give up.  Once the queue is  *)
(* closed nobody waits any more.                                           *)
(***************************************************************************)
CONSTANT Clients

VARIABLES
  waiting,  \* clients that want the slot and do not have it
  before,   \* pairs of waiting clients: the first one joined earlier
  active,   \* clients that have been let through and are not finished
  closed    \* the queue has been shut down

vars == <<waiting, before, active, closed>>

Init ==
  /\ waiting = {}
  /\ before = {}
  /\ active = {}
  /\ closed = FALSE

Join(c) ==
  /\ ~closed
  /\ c \notin waiting \cup active
  /\ waiting' = waiting \cup {c}
  /\ before' = before \cup (waiting \X {c})
  /\ UNCHANGED <<active, closed>>

(* After the shutdown a client is let through at once. *)
JoinClosed(c) ==
  /\ closed
  /\ c \notin active
  /\ active' = active \cup {c}
  /\ UNCHANGED <<waiting, before, closed>>

StopWaiting(c) ==
  /\ c \in waiting
  /\ waiting' = waiting \ {c}
  /\ before' = {p \in before : c \notin {p[1], p[2]}}

Grant(c) ==
  /\ ~closed
  /\ active = {}
  /\ \A d \in waiting : <<d, c>> \notin before
  /\ StopWaiting(c)
  /\ active' = {c}
  /\ UNCHANGED closed

GiveUp(c) == StopWaiting(c) /\ UNCHANGED <<active, closed>>

Finish(c) ==
  /\ c \in active
  /\ active' = active \ {c}
  /\ UNCHANGED <<waiting, before, closed>>

Close ==
  /\ ~closed
  /\ closed' = TRUE
  /\ active' = active \cup waiting
  /\ waiting' = {}
  /\ before' = {}

Next ==
  \/ \E c \in Clients : Join(c) \/ JoinClosed(c) \/ Grant(c) \/ GiveUp(c) \/ Finish(c)
  \/ Close

Spec == Init /\ [][Next]_vars
=============================================================================
