------------------------- MODULE MCSessionRegistry -------------------------
(* SessionRegistry for TLC.  Handlers are model values; liveness is among   *)
(* the properties, so no symmetry is used.                                  *)
EXTENDS SessionRegistry
=============================================================================
