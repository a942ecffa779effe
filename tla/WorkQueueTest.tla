----------------------------- MODULE WorkQueueTest ---------------------------
(***************************************************************************)
(* test_multiThreadPop_shouldPopAllTheElements of tests/work_queue_test.c: *)
(* a team shares out the iterations of one loop, of which the even ones    *)
(* pop and the odd ones push, and asserts at the end that every pop took   *)
(* an element.  The queue is that of WorkQueue, one critical section a     *)
(* step, and no thread ever reports a job processed.                       *)
(***************************************************************************)
EXTENDS WorkQueue, Integers

CONSTANTS
  TEAM,          \* omp_get_max_threads
  ITERATIONS     \* 200 in the test

ASSUME TestAssumption ==
  /\ TEAM \in Nat \ {0} /\ Threads = 0 .. TEAM - 1
  /\ ITERATIONS \in Nat

VARIABLES
  iteration,       \* the one each thread is in: schedule(static, 1) gives thread t
                   \* t, t + TEAM, t + 2 * TEAM, ...
  counting,        \* threads back from the queue, about to count
  pushed, popped   \* what they have counted

vars == <<stack, total_pop, total_processed, terminate, waiters, iteration, counting, pushed, popped>>

\* setUp.
Init ==
  /\ QueueInit(<<>>)
  /\ iteration = [t \in Threads |-> t]
  /\ counting = {}
  /\ pushed = 0 /\ popped = 0

Runs(t) == iteration[t] < ITERATIONS
Pops(t) == iteration[t] % 2 = 0

PopReturns(t) ==
  /\ t \notin counting /\ Runs(t) /\ Pops(t)
  /\ PopJob(t) \/ PopClose(t) \/ PopNull(t)
  /\ counting' = counting \cup {t}
  /\ UNCHANGED <<iteration, pushed, popped>>

PopSleeps(t) ==
  /\ t \notin counting /\ Runs(t) /\ Pops(t)
  /\ PopWait(t)
  /\ UNCHANGED <<iteration, counting, pushed, popped>>

Push(t) ==
  /\ t \notin counting /\ Runs(t) /\ ~Pops(t)
  /\ work_queue_push(iteration[t])
  /\ counting' = counting \cup {t}
  /\ UNCHANGED <<iteration, pushed, popped>>

\* The atomic increment that ends an iteration.
Count(t) ==
  /\ t \in counting
  /\ IF Pops(t)
     THEN popped' = popped + 1 /\ UNCHANGED pushed
     ELSE pushed' = pushed + 1 /\ UNCHANGED popped
  /\ counting' = counting \ {t}
  /\ iteration' = [iteration EXCEPT ![t] = @ + TEAM]
  /\ UNCHANGED queueVars

Wake(t) ==
  /\ SpuriousWake(t)
  /\ UNCHANGED <<iteration, counting, pushed, popped>>

Step(t) == PopReturns(t) \/ PopSleeps(t) \/ Push(t) \/ Count(t)

\* The end of the parallel loop.
LoopDone == \A t \in Threads : t \notin counting /\ ~Runs(t)

Stutter == LoopDone /\ UNCHANGED vars

Next ==
  \/ \E t \in Threads : Step(t) \/ Wake(t)
  \/ Stutter

Spec == Init /\ [][Next]_vars

\* Every thread that can run does.
FairSpec == Spec /\ \A t \in Threads : WF_vars(Step(t))

-----------------------------------------------------------------------------
\* The assertions that follow the loop (work_queue_test.c:125-128): the queue is left
\* with what was pushed and not popped, and every call of work_queue_pop was one of
\* its total_pop.
AssertionsHold ==
  LoopDone =>
    /\ pushed + popped = ITERATIONS
    /\ Len(stack) = pushed - popped
    /\ total_pop = popped

\* The loop ends, closed queue or not: a pop that sleeps is matched by a push of some
\* other thread.  That is so for an even TEAM, where no thread both pops and pushes.
LoopEnds == <>LoopDone

=============================================================================
