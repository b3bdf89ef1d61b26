------------------------------ MODULE BatchLog ------------------------------
(***************************************************************************)
(* What the ring of log buffers promises while memory lasts, independently *)
(* of cells, locks and pointers: records are gathered in one open batch;   *)
(* batches are sealed in turn, and written to the log file whole, in the   *)
(* order in which they were sealed, each of them once.                     *)
(***************************************************************************)
EXTENDS Sequences

CONSTANT Records

VARIABLES
  open,    \* the batch that collects records
  sealed,  \* the batches that wait for the consumer
  disk     \* the batches in the log file

vars == <<open, sealed, disk>>

Init ==
  /\ open = <<>>
  /\ sealed = <<>>
  /\ disk = <<>>

Accept(r) ==
  /\ open' = Append(open, r)
  /\ UNCHANGED <<sealed, disk>>

Seal ==
  /\ open # <<>>
  /\ sealed' = Append(sealed, open)
  /\ open' = <<>>
  /\ UNCHANGED disk

Write ==
  /\ sealed # <<>>
  /\ disk' = Append(disk, Head(sealed))
  /\ sealed' = Tail(sealed)
  /\ UNCHANGED open

Next == (\E r \in Records : Accept(r)) \/ Seal \/ Write

Spec == Init /\ [][Next]_vars
=============================================================================
