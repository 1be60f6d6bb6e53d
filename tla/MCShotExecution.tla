-------------------------- MODULE MCShotExecution --------------------------
(* ShotExecution for TLC: a window of two quotes with room for two signals, and
   four sub-orders on two workers. *)
EXTENDS ShotExecution

\* Each price is more than 1 % above the one before.
MCPrices == {100, 103, 106}
=============================================================================
