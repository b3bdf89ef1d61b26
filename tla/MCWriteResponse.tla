--------------------------- MODULE MCWriteResponse ---------------------------
(* Every header of 1 to 4 bytes with every file of 0 to 4 bytes. *)
EXTENDS WriteResponse
=============================================================================
