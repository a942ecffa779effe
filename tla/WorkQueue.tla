------------------------------ MODULE WorkQueue ------------------------------
(***************************************************************************)
(* The work queue of commons/dataStructure/work_queue.c: a LIFO list of    *)
(* jobs behind one mutex and one condition variable, which also decides    *)
(* when the pool of threads that serve it is out of work.                  *)
(*                                                                         *)
(* Every critical section is one action.  The only field written outside   *)
(* the mutex is total_processed, an atomic counter that a critical section *)
(* reads once per turn of its loop, so running the section in one step     *)
(* loses no behaviour.  A thread that pthread_cond_wait put to sleep is in *)
(* waiters; once woken it takes the mutex again and repeats the loop test, *)
(* which is what it does when it first calls work_queue_pop, so it simply  *)
(* calls again.                                                            *)
(*                                                                         *)
(* The module defines the operations.  Its clients (ThreadPool, the unit   *)
(* tests in WorkQueueTest) say which thread calls what.                    *)
(***************************************************************************)
EXTENDS Naturals, Sequences

CONSTANT Threads     \* the threads of the OpenMP team that share the queue

VARIABLES
  stack,             \* the linked list, oldest item first: its last element is head
  total_pop,         \* jobs handed out
  total_processed,   \* jobs their client has reported finished
  terminate,         \* no job will ever be handed out again
  waiters            \* threads blocked in pthread_cond_wait

queueVars == <<stack, total_pop, total_processed, terminate, waiters>>

\* The state work_queue_init leaves, with the given jobs pushed afterwards.
QueueInit(jobs) ==
  /\ stack = jobs
  /\ total_pop = 0
  /\ total_processed = 0
  /\ terminate = FALSE
  /\ waiters = {}

-----------------------------------------------------------------------------
\* pthread_cond_signal: wakes one waiter of the library's choice, if there is one.
Signal ==
  \/ waiters = {} /\ UNCHANGED waiters
  \/ \E t \in waiters : waiters' = waiters \ {t}

\* POSIX lets pthread_cond_wait return without a signal.
SpuriousWake(t) ==
  /\ t \in waiters
  /\ waiters' = waiters \ {t}
  /\ UNCHANGED <<stack, total_pop, total_processed, terminate>>

\* Mutant: pushes without the signal.
work_queue_push_Silent(job) ==
  /\ stack' = Append(stack, job)
  /\ UNCHANGED <<total_pop, total_processed, terminate, waiters>>

work_queue_push(job) ==
  /\ stack' = Append(stack, job)
  /\ Signal
  /\ UNCHANGED <<total_pop, total_processed, terminate>>

\* What work_queue_pop would return.
Head_job == stack[Len(stack)]

\* Mutant: the head is handed out but not unlinked.
Prev_items_KeepsHead == stack

\* The list it would leave.
Prev_items == SubSeq(stack, 1, Len(stack) - 1)

\* Mutant: takes a job without having been woken for it.
PopJob_Asleep(t) ==
  /\ ~terminate
  /\ stack # <<>>
  /\ stack' = Prev_items
  /\ total_pop' = total_pop + 1
  /\ UNCHANGED <<total_processed, terminate, waiters>>

\* The four ways through work_queue_pop: it hands out the newest job, ...
PopJob(t) ==
  /\ t \notin waiters
  /\ ~terminate
  /\ stack # <<>>
  /\ stack' = Prev_items
  /\ total_pop' = total_pop + 1
  /\ UNCHANGED <<total_processed, terminate, waiters>>

\* Mutant: closes as soon as the list is empty, whatever is in service.
PopClose_EmptyIsEnough(t) ==
  /\ t \notin waiters
  /\ ~terminate
  /\ stack = <<>>
  /\ terminate' = TRUE
  /\ waiters' = {}
  /\ UNCHANGED <<stack, total_pop, total_processed>>

\* Mutant: closes without the broadcast.
PopClose_Silent(t) ==
  /\ t \notin waiters
  /\ ~terminate
  /\ stack = <<>>
  /\ total_pop = total_processed
  /\ terminate' = TRUE
  /\ UNCHANGED <<stack, total_pop, total_processed, waiters>>

\* ... or it finds every job handed out to be processed, closes the queue,
\* wakes everybody and returns NULL, ...
PopClose(t) ==
  /\ t \notin waiters
  /\ ~terminate
  /\ stack = <<>>
  /\ total_pop = total_processed
  /\ terminate' = TRUE
  /\ waiters' = {}
  /\ UNCHANGED <<stack, total_pop, total_processed>>

\* ... or it goes to sleep, because a job in service may still push others, ...
PopWait(t) ==
  /\ t \notin waiters
  /\ ~terminate
  /\ stack = <<>>
  /\ total_pop # total_processed
  /\ waiters' = waiters \cup {t}
  /\ UNCHANGED <<stack, total_pop, total_processed, terminate>>

\* ... or it finds the queue closed and returns NULL, whatever the list holds.
PopNull(t) ==
  /\ t \notin waiters
  /\ terminate
  /\ UNCHANGED queueVars

\* wq->total_processed++, which a client does without the mutex.
MarkProcessed ==
  /\ total_processed' = total_processed + 1
  /\ UNCHANGED <<stack, total_pop, terminate, waiters>>

=============================================================================
