-------------------------- MODULE MCSequentialCalls --------------------------
(* SequentialCalls on small arrays, for TLC. *)
EXTENDS SequentialCalls

CONSTANTS MaxValue   \* elements are drawn from 0 .. MaxValue

MCValue == 0 .. MaxValue

=============================================================================
