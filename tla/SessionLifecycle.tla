-------------------------- MODULE SessionLifecycle --------------------------
(***************************************************************************)
(* What the registry of sessions promises to those who only look at it: a  *)
(* session enters the map once, when its page has not been sent anything,  *)
(* and never comes back; others may take it out at any time; when its      *)
(* handler has returned it is out.  Ids, resumes, clocks and the deferred  *)
(* functions do not matter here.                                           *)
(***************************************************************************)
CONSTANT Sessions

VARIABLES
  registered,  \* the sessions that are in the map
  page         \* page[h]: how far the handler of h is with its page

vars == <<registered, page>>

Init ==
  /\ registered = {}
  /\ page = [h \in Sessions |-> "away"]

Proceed(h, from, to) ==
  /\ page[h] = from
  /\ page' = [page EXCEPT ![h] = to]

(* The entry may take the place of another one. *)
Register(h) ==
  /\ Proceed(h, "away", "joined")
  /\ \E left \in SUBSET registered : registered' = (registered \ left) \cup {h}

Stream(h) == Proceed(h, "joined", "streams") /\ UNCHANGED registered

Stop(h) == Proceed(h, "streams", "stopped") /\ UNCHANGED registered

(* Whatever the handler removes at its end, its own entry is gone. *)
Return(h) ==
  /\ Proceed(h, "stopped", "returned")
  /\ registered' \in SUBSET (registered \ {h})

Leave ==
  /\ registered' \in SUBSET registered
  /\ UNCHANGED page

Next ==
  \/ \E h \in Sessions : Register(h) \/ Stream(h) \/ Stop(h) \/ Return(h)
  \/ Leave

Spec == Init /\ [][Next]_vars
=============================================================================
