----------------------------- MODULE WorkQueueImpl ---------------------------
(***************************************************************************)
(* commons/dataStructure/work_queue.c statement by statement: the mutex,   *)
(* the condition variable, the size and the doubly linked list, under the  *)
(* clients of QueueClients.  A statement of a critical section is a step   *)
(* of its own, so that total_processed++, which needs no lock, can fall    *)
(* between any two of them.                                                *)
(*                                                                         *)
(* The item that a push allocates is named by the job it carries.          *)
(***************************************************************************)
EXTENDS Naturals, Sequences, FiniteSets

CONSTANTS Threads, Jobs,
          NULL      \* the null pointer

\* Items are finitely many addresses, and no address is the null pointer.
ASSUME ImplAssumption == IsFiniteSet(Jobs) /\ NULL \notin Jobs /\ NULL \notin Threads

VARIABLES
  lock,                   \* the thread that owns the mutex, or NULL
  cond,                   \* threads blocked on the condition variable
  head, next, prev,       \* the list; next and prev are the fields of every item
  size, total_pop, total_processed, terminate,
  pc,                     \* the next statement of each thread
  job,                    \* the job each thread is pushing, or has unlinked
  fresh, held             \* the clients: jobs not pushed yet, jobs in service

(* Two history variables, which no guard reads: what the queue held when the  *)
(* mutex was last free, and whom the open critical section has woken.         *)
VARIABLES committed, woken

list == <<head, next, prev>>
sync == <<lock, cond>>
client == <<fresh, held>>
history == <<committed, woken>>
vars == <<lock, cond, head, next, prev, size, total_pop, total_processed, terminate,
          pc, job, fresh, held, committed, woken>>

\* What can be walked from head through prev, oldest item first.
Chains == {s \in UNION {[1 .. n -> Jobs] : n \in 0 .. Cardinality(Jobs)} :
             /\ s # <<>> => s[Len(s)] = head
             /\ \A i \in 1 .. Len(s) - 1 : s[i] = prev[s[i + 1]]}

\* The items reachable from head: the longest walk.
Listed == CHOOSE s \in Chains : \A u \in Chains : Len(u) <= Len(s)

Snapshot == [stack |-> Listed, total_pop |-> total_pop, terminate |-> terminate]

-----------------------------------------------------------------------------
\* work_queue_init.
Init ==
  /\ lock = NULL /\ cond = {}
  /\ head = NULL /\ size = 0
  /\ next = [i \in Jobs |-> NULL] /\ prev = [i \in Jobs |-> NULL]
  /\ total_pop = 0 /\ total_processed = 0 /\ terminate = FALSE
  /\ pc = [t \in Threads |-> "idle"]
  /\ job = [t \in Threads |-> NULL]
  /\ fresh = Jobs /\ held = [t \in Threads |-> {}]
  /\ committed = [stack |-> <<>>, total_pop |-> 0, terminate |-> FALSE]
  /\ woken = {}

\* Moves t from one statement to the next.
At(t, from, to) == pc[t] = from /\ pc' = [pc EXCEPT ![t] = to]

\* Mutant: does not wait for the owner.
Lock_Barges(t, from, to) ==
  /\ At(t, from, to)
  /\ lock' = t
  /\ UNCHANGED <<cond, list, size, total_pop, total_processed, terminate, job, client, history>>

\* pthread_mutex_lock and pthread_mutex_unlock.
Lock(t, from, to) ==
  /\ lock = NULL
  /\ At(t, from, to)
  /\ lock' = t
  /\ UNCHANGED <<cond, list, size, total_pop, total_processed, terminate, job, client, history>>

Unlock(t) ==
  /\ lock' = NULL
  /\ committed' = Snapshot
  /\ woken' = {}

-----------------------------------------------------------------------------
\* work_queue_push: allocates an item, whose link fields are not initialised, ...
CallPush(t) ==
  /\ At(t, "idle", "push_lock")
  /\ \E j \in fresh, garbage \in Jobs \cup {NULL} :
       /\ fresh' = fresh \ {j}
       /\ job' = [job EXCEPT ![t] = j]
       /\ next' = [next EXCEPT ![j] = garbage]
       /\ prev' = [prev EXCEPT ![j] = garbage]
  /\ UNCHANGED <<sync, head, size, total_pop, total_processed, terminate, held, history>>

PushLock(t) == Lock(t, "push_lock", "push_link")

\* Mutant: forgets the back link of an item pushed on a non-empty list.
PushLink_NoPrev(t) ==
  /\ At(t, "push_link", "push_size")
  /\ next' = IF head = NULL THEN [next EXCEPT ![job[t]] = NULL] ELSE [next EXCEPT ![head] = job[t]]
  /\ prev' = IF head = NULL THEN [prev EXCEPT ![job[t]] = NULL] ELSE prev
  /\ head' = job[t]
  /\ UNCHANGED <<sync, size, total_pop, total_processed, terminate, job, client, history>>

\* ... links it in front of the head, ...
PushLink(t) ==
  /\ At(t, "push_link", "push_size")
  /\ IF head = NULL
     THEN /\ next' = [next EXCEPT ![job[t]] = NULL]
          /\ prev' = [prev EXCEPT ![job[t]] = NULL]
     ELSE /\ next' = [next EXCEPT ![head] = job[t]]
          /\ prev' = [prev EXCEPT ![job[t]] = head]
  /\ head' = job[t]
  /\ UNCHANGED <<sync, size, total_pop, total_processed, terminate, job, client, history>>

PushSize(t) ==
  /\ At(t, "push_size", "push_signal")
  /\ size' = size + 1
  /\ UNCHANGED <<sync, list, total_pop, total_processed, terminate, job, client, history>>

\* ... and signals.
PushSignal(t) ==
  /\ At(t, "push_signal", "push_unlock")
  /\ \/ cond = {} /\ UNCHANGED <<cond, woken>>
     \/ \E u \in cond : cond' = cond \ {u} /\ woken' = woken \cup {u}
  /\ UNCHANGED <<lock, list, size, total_pop, total_processed, terminate, job, client, committed>>

PushUnlock(t) ==
  /\ At(t, "push_unlock", "idle")
  /\ Unlock(t)
  /\ job' = [job EXCEPT ![t] = NULL]
  /\ UNCHANGED <<cond, list, size, total_pop, total_processed, terminate, client>>

-----------------------------------------------------------------------------
\* work_queue_pop, called with or without jobs in service.
CallPop(t) ==
  /\ At(t, "idle", "pop_lock")
  /\ UNCHANGED <<sync, list, size, total_pop, total_processed, terminate, job, client, history>>

PopLock(t) == Lock(t, "pop_lock", "pop_loop")

\* The loop condition, ...
PopLoop(t) ==
  /\ At(t, "pop_loop", IF size = 0 /\ ~terminate THEN "pop_compare" ELSE "pop_closed")
  /\ UNCHANGED <<sync, list, size, total_pop, total_processed, terminate, job, client, history>>

\* Mutant: goes to sleep after the counters have been found equal.
PopCompare_NeverCloses(t) ==
  /\ At(t, "pop_compare", "pop_retest")
  /\ UNCHANGED <<sync, list, size, total_pop, total_processed, terminate, job, client, history>>

\* ... the comparison of the counters, one of which needs no lock, ...
PopCompare(t) ==
  /\ At(t, "pop_compare", IF total_pop = total_processed THEN "pop_terminate" ELSE "pop_retest")
  /\ UNCHANGED <<sync, list, size, total_pop, total_processed, terminate, job, client, history>>

PopTerminate(t) ==
  /\ At(t, "pop_terminate", "pop_broadcast")
  /\ terminate' = TRUE
  /\ UNCHANGED <<sync, list, size, total_pop, total_processed, job, client, history>>

PopBroadcast(t) ==
  /\ At(t, "pop_broadcast", "pop_closed")
  /\ cond' = {}
  /\ woken' = woken \cup cond
  /\ UNCHANGED <<lock, list, size, total_pop, total_processed, terminate, job, client, committed>>

\* ... the second test of terminate inside the loop, ...
PopRetest(t) ==
  /\ At(t, "pop_retest", IF terminate THEN "pop_null" ELSE "pop_wait")
  /\ UNCHANGED <<sync, list, size, total_pop, total_processed, terminate, job, client, history>>

\* ... and pthread_cond_wait, which blocks and releases the mutex in one step.
PopWait(t) ==
  /\ At(t, "pop_wait", "pop_blocked")
  /\ Unlock(t)
  /\ cond' = cond \cup {t}
  /\ UNCHANGED <<list, size, total_pop, total_processed, terminate, job, client>>

\* Mutant: an if where the code has a while.
PopRelock_NoRetest(t) ==
  /\ t \notin cond
  /\ Lock(t, "pop_blocked", "pop_closed")

\* A woken thread takes the mutex again before pthread_cond_wait returns.
PopRelock(t) ==
  /\ t \notin cond
  /\ Lock(t, "pop_blocked", "pop_loop")

\* The test after the loop, ...
PopClosed(t) ==
  /\ At(t, "pop_closed", IF terminate THEN "pop_null" ELSE "pop_unlink")
  /\ UNCHANGED <<sync, list, size, total_pop, total_processed, terminate, job, client, history>>

PopNull(t) ==
  /\ At(t, "pop_null", "idle")
  /\ Unlock(t)
  /\ UNCHANGED <<cond, list, size, total_pop, total_processed, terminate, job, client>>

\* ... and the removal of the head, ...
PopUnlink(t) ==
  /\ At(t, "pop_unlink", "pop_count")
  /\ job' = [job EXCEPT ![t] = head]
  /\ head' = prev[head]
  /\ next' = IF prev[head] = NULL THEN next ELSE [next EXCEPT ![prev[head]] = NULL]
  /\ UNCHANGED <<sync, prev, size, total_pop, total_processed, terminate, client, history>>

\* ... which is counted, and returned to the client.
PopCount(t) ==
  /\ At(t, "pop_count", "pop_unlock")
  /\ size' = size - 1
  /\ total_pop' = total_pop + 1
  /\ UNCHANGED <<sync, list, total_processed, terminate, job, client, history>>

PopUnlock(t) ==
  /\ At(t, "pop_unlock", "idle")
  /\ Unlock(t)
  /\ held' = [held EXCEPT ![t] = @ \cup {job[t]}]
  /\ job' = [job EXCEPT ![t] = NULL]
  /\ UNCHANGED <<cond, list, size, total_pop, total_processed, terminate, fresh>>

-----------------------------------------------------------------------------
\* total_processed++ by a client, at any time.
Report(t) ==
  /\ pc[t] = "idle"
  /\ total_processed' = total_processed + 1
  /\ \E j \in held[t] : held' = [held EXCEPT ![t] = @ \ {j}]
  /\ UNCHANGED <<sync, list, size, total_pop, terminate, pc, job, fresh, history>>

SpuriousWake(t) ==
  /\ t \in cond
  /\ cond' = cond \ {t}
  /\ UNCHANGED <<lock, list, size, total_pop, total_processed, terminate, pc, job, client, history>>

Next ==
  \E t \in Threads :
    \/ CallPush(t) \/ PushLock(t) \/ PushLink(t) \/ PushSize(t) \/ PushSignal(t) \/ PushUnlock(t)
    \/ CallPop(t) \/ PopLock(t) \/ PopLoop(t)
    \/ PopCompare(t) \/ PopTerminate(t) \/ PopBroadcast(t)
    \/ PopRetest(t) \/ PopWait(t) \/ PopRelock(t)
    \/ PopClosed(t) \/ PopNull(t) \/ PopUnlink(t) \/ PopCount(t) \/ PopUnlock(t)
    \/ Report(t) \/ SpuriousWake(t)

Spec == Init /\ [][Next]_vars

-----------------------------------------------------------------------------
(* Correctness. *)

Pushing == {"push_lock", "push_link", "push_size", "push_signal", "push_unlock"}
PoppingLocked == {"pop_loop", "pop_compare", "pop_terminate", "pop_broadcast", "pop_retest",
                  "pop_wait", "pop_closed", "pop_null", "pop_unlink", "pop_count", "pop_unlock"}
Popping == PoppingLocked \cup {"pop_lock", "pop_blocked"}
Critical == PoppingLocked \cup (Pushing \ {"push_lock"})

\* The type invariant; the mutex is owned by whoever is in a critical section.
TypeOK ==
  /\ lock \in Threads \cup {NULL}
  /\ \A t \in Threads : (lock = t) <=> (pc[t] \in Critical)
  /\ cond \subseteq {t \in Threads : pc[t] = "pop_blocked"}
  /\ head \in Jobs \cup {NULL}
  /\ next \in [Jobs -> Jobs \cup {NULL}] /\ prev \in [Jobs -> Jobs \cup {NULL}]
  /\ size \in 0 .. Cardinality(Jobs)
  /\ total_pop \in Nat /\ total_processed \in Nat /\ terminate \in BOOLEAN
  /\ pc \in [Threads -> {"idle"} \cup Pushing \cup Popping]
  /\ job \in [Threads -> Jobs \cup {NULL}]
  /\ fresh \subseteq Jobs /\ held \in [Threads -> SUBSET Jobs]

\* Between critical sections size is the length of the list, and the list can be
\* walked in both directions, although a push leaves one link of the item it
\* allocates uninitialised (work_queue.c:21-36, 80-88).  The newest item's next
\* is that link.
ListWellFormed ==
  lock = NULL =>
    /\ Len(Listed) = size
    /\ size > 0 => prev[Listed[1]] = NULL
    /\ \A i \in 1 .. size - 1 : next[Listed[i]] = Listed[i + 1]

\* assert(queue->head != NULL), work_queue.c:77: after the loop and the test of
\* terminate there is an item, whoever ran between the wakeup and the mutex.
HeadAsserted == \A t \in Threads : pc[t] = "pop_unlink" => head # NULL

\* Each operation takes effect in one step, as in QueueClients: when it releases
\* the mutex, or, if it goes to sleep, when it has compared the counters.
Clients == INSTANCE QueueClients WITH
  stack <- committed.stack,
  total_pop <- committed.total_pop,
  terminate <- committed.terminate,
  waiters <- cond \cup woken \cup {t \in Threads : pc[t] \in {"pop_retest", "pop_wait"}},
  popping <- {t \in Threads : pc[t] \in Popping},
  fresh <- fresh \cup {job[t] : t \in {u \in Threads : pc[u] \in Pushing}}
ImplementsQueueClients == Clients!Spec

=============================================================================
