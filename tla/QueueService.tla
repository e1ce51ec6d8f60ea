---------------------------- MODULE QueueService ----------------------------
(***************************************************************************)
(* What the process sees of its speedtest queue: requests are in it or     *)
(* not, it may get stuck while they are, and the goroutine that shuts the  *)
(* process down gets past it as long as it is not stuck.                   *)
(* SpeedtestQueue implements this; ServerProcess is composed with it.      *)
(***************************************************************************)
VARIABLES
  queue,   \* "idle", "busy" with requests, or "stuck" with them
  passed   \* ShutdownQueue has returned to the signal goroutine

vars == <<queue, passed>>

Init ==
  /\ queue = "idle"
  /\ passed = FALSE

(* The first request comes, the last one has returned. *)
Enter  == queue = "idle" /\ queue' = "busy" /\ UNCHANGED passed
Finish == queue = "busy" /\ queue' = "idle" /\ UNCHANGED passed

(* HandleQueue waits for the lock that it holds, and there is no way back. *)
Block == queue = "busy" /\ queue' = "stuck" /\ UNCHANGED passed

Pass ==
  /\ ~passed
  /\ queue # "stuck"
  /\ passed' = TRUE
  /\ UNCHANGED queue

Next == Enter \/ Finish \/ Block \/ Pass

Spec == Init /\ [][Next]_vars
=============================================================================
