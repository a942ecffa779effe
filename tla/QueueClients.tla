----------------------------- MODULE QueueClients ----------------------------
(***************************************************************************)
(* The work queue under any client: threads that push, pop and report jobs *)
(* processed in whatever order they like, as long as they report only what *)
(* they popped.  thread_pool_serve and the unit tests are such clients.    *)
(*                                                                         *)
(* The module is what the queue promises; WorkQueueImpl, the code with its *)
(* lock and its linked list, is shown to implement it.                     *)
(***************************************************************************)
EXTENDS WorkQueue, FiniteSets, Functions

CONSTANT Jobs     \* the jobs the clients ever push, each of them once

VARIABLES
  fresh,          \* jobs not pushed yet
  popping,        \* threads inside work_queue_pop, asleep or not
  held            \* the jobs each thread has popped and not reported

clientVars == <<stack, total_pop, total_processed, terminate, waiters, fresh, popping, held>>

Init ==
  /\ QueueInit(<<>>)
  /\ fresh = Jobs
  /\ popping = {}
  /\ held = [t \in Threads |-> {}]

Push(t) ==
  /\ t \notin popping
  /\ \E job \in fresh :
       /\ work_queue_push(job)
       /\ fresh' = fresh \ {job}
  /\ UNCHANGED <<popping, held>>

CallPop(t) ==
  /\ t \notin popping
  /\ popping' = popping \cup {t}
  /\ UNCHANGED <<queueVars, fresh, held>>

TakeJob(t) ==
  /\ t \in popping
  /\ PopJob(t)
  /\ popping' = popping \ {t}
  /\ held' = [held EXCEPT ![t] = @ \cup {Head_job}]
  /\ UNCHANGED fresh

Wait(t) ==
  /\ t \in popping
  /\ PopWait(t)
  /\ UNCHANGED <<fresh, popping, held>>

GetNull(t) ==
  /\ t \in popping
  /\ PopClose(t) \/ PopNull(t)
  /\ popping' = popping \ {t}
  /\ UNCHANGED <<fresh, held>>

Report(t) ==
  /\ t \notin popping
  /\ MarkProcessed
  /\ \E job \in held[t] : held' = [held EXCEPT ![t] = @ \ {job}]
  /\ UNCHANGED <<fresh, popping>>

Wake(t) ==
  /\ SpuriousWake(t)
  /\ UNCHANGED <<fresh, popping, held>>

Next ==
  \E t \in Threads :
    \/ Push(t) \/ CallPop(t)
    \/ TakeJob(t) \/ Wait(t) \/ GetNull(t)
    \/ Report(t) \/ Wake(t)

Spec == Init /\ [][Next]_clientVars

-----------------------------------------------------------------------------
(* Correctness. *)

\* The type invariant.
TypeOK ==
  /\ stack \in Seq(Jobs)
  /\ total_pop \in Nat
  /\ total_processed \in Nat
  /\ terminate \in BOOLEAN
  /\ waiters \subseteq popping
  /\ fresh \subseteq Jobs
  /\ popping \subseteq Threads
  /\ held \in [Threads -> SUBSET Jobs]

\* No push is wasted on a thread already awake: while a thread sleeps in
\* work_queue_pop, there are at least as many others awake in it as jobs in the list, so
\* pthread_cond_signal, which wakes one thread only, is enough (work_queue.c:42, 56, 67).
EnoughAwake == waiters # {} => Len(stack) <= Cardinality(popping \ waiters)

\* Nobody sleeps in front of a closed queue: nothing would ever wake them
\* (work_queue.c:56, 59-60, 67).
ClosedWakesAll == terminate => waiters = {}

\* No job is handed out twice, or handed out and still listed (work_queue.c:78-85).
HandedOutOnce ==
  /\ \A i, j \in DOMAIN stack : stack[i] = stack[j] => i = j
  /\ \A t \in Threads : held[t] \cap (fresh \cup Range(stack)) = {}
  /\ \A t, u \in Threads : t # u => held[t] \cap held[u] = {}

\* The queue closes at a moment when no job is listed and none is in service,
\* though it only compares two counters (work_queue.c:57-59).
ClosesWhenIdle ==
  [][~terminate /\ terminate' => stack = <<>> /\ \A t \in Threads : held[t] = {}]_clientVars

=============================================================================
