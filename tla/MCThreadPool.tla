----------------------------- MODULE MCThreadPool ----------------------------
(* ThreadPool on small arrays, for TLC. *)
EXTENDS ThreadPool

CONSTANTS MaxValue   \* elements are drawn from 0 .. MaxValue

MCValue == 0 .. MaxValue

=============================================================================
