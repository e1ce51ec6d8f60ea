------------------------ MODULE MCTrafficBroadcast ------------------------
(* TrafficBroadcast for TLC: handlers are interchangeable. *)
EXTENDS TrafficBroadcast, TLC

HandlersAreAlike == Permutations(Handlers)
=============================================================================
