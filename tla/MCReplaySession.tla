--------------------------- MODULE MCReplaySession ---------------------------
(* A day with a break between 24 and 40 and eight quotes; windows that begin before
   the open, in the morning and in the break, and end in the morning, in the
   afternoon and after the close; rounds shorter and longer than a quote period. *)
EXTENDS ReplaySession

MCQuoteTimes == <<12, 15, 18, 21, 42, 45, 48, 54>>
==============================================================================
