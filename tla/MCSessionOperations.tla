------------------------ MODULE MCSessionOperations ------------------------
(* SessionOperations for TLC.  Operations and handlers are model values;    *)
(* liveness is among the properties, so no symmetry is used.                *)
EXTENDS SessionOperations
=============================================================================
