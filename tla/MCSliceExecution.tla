------------------------- MODULE MCSliceExecution -------------------------
(* A buy of six lots in four slices of up to three rounds. *)
EXTENDS SliceExecution

\* Most of the volume in the first minute: the plan, padded at its end, falls.
MCVolCurve == <<22, 1, 1, 1, 1>>
=============================================================================
