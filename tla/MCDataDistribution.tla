-------------------------- MODULE MCDataDistribution --------------------------
(* DataDistribution on small workloads and hosts, for TLC. *)
EXTENDS DataDistribution

\* Two buckets of two values each, with LOW = 4; T_MAX is one of them.
MCValue == {0, 3, 4, 7}
MCT_MAX == 7

Host(workers, memory) ==
  [worker_count |-> workers, worker_mem_size |-> memory, host_mem_size |-> 20, thread_count |-> 1]

\* Memory for one or two elements: more than enough workers, just enough, too few, and
\* one that notices; and hosts that are not admitted.
MCHosts ==
  {Host(6, 8), Host(3, 8), Host(5, 4), Host(2, 8), Host(1, 4)}
    \cup {[Host(3, 8) EXCEPT !.host_mem_size = 16], [Host(3, 8) EXCEPT !.thread_count = 3]}

=============================================================================
