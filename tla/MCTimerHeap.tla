----------------------------- MODULE MCTimerHeap -----------------------------
(* TimerHeap for TLC: an array of one node that doubles twice. *)
EXTENDS TimerHeap
=============================================================================
