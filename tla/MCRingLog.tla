------------------------------ MODULE MCRingLog ------------------------------
(* Instances of RingLog for TLC, and the symmetry of its producers. *)
EXTENDS RingLog, TLC

ProducerSymmetry == Permutations(Producers)

=============================================================================
