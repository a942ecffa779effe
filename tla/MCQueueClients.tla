---------------------------- MODULE MCQueueClients ---------------------------
(* QueueClients with a few threads and jobs, for TLC. *)
EXTENDS QueueClients, TLC

\* Threads are interchangeable, and so are jobs.
ClientSymmetry == Permutations(Threads) \cup Permutations(Jobs)

=============================================================================
