--------------------------- MODULE MCWorkQueueImpl ---------------------------
(* WorkQueueImpl with a few threads and jobs, for TLC. *)
EXTENDS WorkQueueImpl, TLC

\* Threads are interchangeable, and so are jobs.
ImplSymmetry == Permutations(Threads) \cup Permutations(Jobs)

=============================================================================
