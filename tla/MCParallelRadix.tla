--------------------------- MODULE MCParallelRadix ---------------------------
(* ParallelRadix on small arrays, for TLC. *)
EXTENDS ParallelRadix

\* Three bytes with LOW = 2, the last of them with two elements.
MCValue == {0, 2, 4, 5}

=============================================================================
