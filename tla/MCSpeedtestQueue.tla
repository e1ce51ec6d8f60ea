-------------------------- MODULE MCSpeedtestQueue --------------------------
(* The instances of SpeedtestQueue for TLC: see MCQueue.cfg and             *)
(* MCQueueCallbackBlocks.cfg.                                               *)
EXTENDS SpeedtestQueue
=============================================================================
