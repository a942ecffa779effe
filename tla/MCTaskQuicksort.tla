--------------------------- MODULE MCTaskQuicksort ---------------------------
(* TaskQuicksort on small arrays, for TLC. *)
EXTENDS TaskQuicksort

CONSTANTS MaxValue   \* elements are drawn from 0 .. MaxValue

MCValue == 0 .. MaxValue

=============================================================================
