--------------------------- MODULE MCOutputPipes ---------------------------
(* OutputPipes for TLC.  Pipes are model values; liveness is among the       *)
(* properties, so no symmetry is used.                                      *)
EXTENDS OutputPipes
=============================================================================
