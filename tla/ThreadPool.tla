------------------------------ MODULE ThreadPool -----------------------------
(***************************************************************************)
(* quicksort_threadpool_parallelism of sorts/quicksort/quicksort_mt.c: the *)
(* threads of an OpenMP team take ranges of one shared array from a work   *)
(* queue, partition them, and push the two halves back, until the queue    *)
(* tells them that no work is left.                                        *)
(*                                                                         *)
(* A thread runs by itself between its accesses to shared state: one       *)
(* action is one critical section of the queue, one comparison or exchange *)
(* of a partition, or one access to the atomic counter.                    *)
(***************************************************************************)
EXTENDS WorkQueue, Partition

CONSTANTS
  N,                     \* the size of the array
  Value,                 \* what its elements may be
  QSORT_GROUP_MIN_DIST   \* shorter ranges are sorted by the thread that takes them

ASSUME PoolAssumption ==
  /\ N \in Nat \ {0}
  /\ N - 1 <= SIZE_MAX
  /\ Value \subseteq Nat
  /\ QSORT_GROUP_MIN_DIST \in Nat
  /\ IsFiniteSet(Threads) /\ Threads # {}

\* Lets a place be named by the thread it belongs to, or "stack" (see Places).
ASSUME PlaceAssumption == "stack" \notin Threads

VARIABLES
  array,    \* the shared array
  pc,       \* where each thread is
  todo,     \* the ranges each thread holds: its job, then the halves it has still
            \* to push, or the pending calls of its quicksort_rec_seq, next one first
  frame     \* the activation record of each thread's call of hoare_partition

vars == <<stack, total_pop, total_processed, terminate, waiters, array, pc, todo, frame>>

Index == 0 .. N - 1

NoFrame == [start |-> 0, end |-> 0, k |-> 0, j |-> 0, pivot |-> 0]

-----------------------------------------------------------------------------
\* prepare_queue, before the team starts.
Init ==
  /\ QueueInit(<<SortJob(0, Dec(N))>>)
  /\ array \in [Index -> Value]
  /\ pc = [t \in Threads |-> "pop"]
  /\ todo = [t \in Threads |-> <<>>]
  /\ frame = [t \in Threads |-> NoFrame]

Goto(t, label) == pc' = [pc EXCEPT ![t] = label]

\* The loop condition of thread_pool_serve: a job to serve, ...
Take(t) ==
  /\ pc[t] = "pop"
  /\ PopJob(t)
  /\ todo' = [todo EXCEPT ![t] = <<Head_job>>]
  /\ Goto(t, "serve")
  /\ UNCHANGED <<array, frame>>

\* ... a while asleep inside work_queue_pop, ...
Sleep(t) ==
  /\ pc[t] = "pop"
  /\ PopWait(t)
  /\ UNCHANGED <<array, pc, todo, frame>>

\* ... or NULL, and the thread leaves the parallel region.
Leave(t) ==
  /\ pc[t] = "pop"
  /\ PopClose(t) \/ PopNull(t)
  /\ Goto(t, "exit")
  /\ UNCHANGED <<array, todo, frame>>

\* Enters hoare_partition with the first range t holds.
Enter(t, label) ==
  LET r == Head(todo[t]) IN
  /\ array' = HoareArray(array, r)
  /\ frame' = [frame EXCEPT ![t] = HoareFrame(array, r)]
  /\ todo' = [todo EXCEPT ![t] = Tail(todo[t])]
  /\ Goto(t, label)

\* Mutant: takes two elements for one.
Trivial_OffByOne(r) == r.start + 1 >= r.end

Trivial(r) == r.start >= r.end
Small(r) == r.end - r.start < QSORT_GROUP_MIN_DIST

\* Mutant: a trivial job is dropped without being counted.
ServeTrivial_Uncounted(t) ==
  /\ pc[t] = "serve"
  /\ Trivial(Head(todo[t]))
  /\ todo' = [todo EXCEPT ![t] = <<>>]
  /\ Goto(t, "pop")
  /\ UNCHANGED <<queueVars, array, frame>>

\* The three cases of thread_pool_serve's loop body.
ServeTrivial(t) ==
  /\ pc[t] = "serve"
  /\ Trivial(Head(todo[t]))
  /\ todo' = [todo EXCEPT ![t] = <<>>]
  /\ Goto(t, "finish")
  /\ UNCHANGED <<queueVars, array, frame>>

ServeSmall(t) ==
  /\ pc[t] = "serve"
  /\ ~Trivial(Head(todo[t]))
  /\ Small(Head(todo[t]))
  /\ Goto(t, "seq")
  /\ UNCHANGED <<queueVars, array, todo, frame>>

ServeLarge(t) ==
  /\ pc[t] = "serve"
  /\ ~Trivial(Head(todo[t]))
  /\ ~Small(Head(todo[t]))
  /\ Enter(t, "partition")
  /\ UNCHANGED queueVars

-----------------------------------------------------------------------------
\* hoare_partition, called by thread_pool_serve or by quicksort_rec_seq.
InPartition(t) == pc[t] \in {"partition", "rec_partition"}

ScanUp(t) ==
  /\ InPartition(t)
  /\ ScansUp(array, frame[t])
  /\ frame' = [frame EXCEPT ![t] = AfterScanUp(frame[t])]
  /\ UNCHANGED <<queueVars, array, pc, todo>>

ScanDown(t) ==
  /\ InPartition(t)
  /\ ScansDown(array, frame[t])
  /\ frame' = [frame EXCEPT ![t] = AfterScanDown(frame[t])]
  /\ UNCHANGED <<queueVars, array, pc, todo>>

Exchange(t) ==
  /\ InPartition(t)
  /\ Exchanges(array, frame[t])
  /\ array' = Swap(array, frame[t].k, frame[t].j)
  /\ frame' = [frame EXCEPT ![t] = AfterExchange(frame[t])]
  /\ UNCHANGED <<queueVars, pc, todo>>

Return(t) ==
  /\ InPartition(t)
  /\ Returns(array, frame[t])
  /\ todo' = [todo EXCEPT ![t] = <<LeftOf(frame[t]), RightOf(frame[t])>> \o todo[t]]
  /\ Goto(t, IF pc[t] = "partition" THEN "push" ELSE "seq")
  /\ frame' = [frame EXCEPT ![t] = NoFrame]
  /\ UNCHANGED <<queueVars, array>>

-----------------------------------------------------------------------------
\* thread_pool_serve pushes the left half, then the right half.
Push(t) ==
  /\ pc[t] = "push"
  /\ work_queue_push(Head(todo[t]))
  /\ todo' = [todo EXCEPT ![t] = Tail(todo[t])]
  /\ Goto(t, IF Len(todo[t]) = 1 THEN "finish" ELSE "push")
  /\ UNCHANGED <<array, frame>>

\* quicksort_rec_seq: a call that returns at once, ...
RecReturn(t) ==
  /\ pc[t] = "seq"
  /\ todo[t] # <<>>
  /\ Trivial(Head(todo[t]))
  /\ todo' = [todo EXCEPT ![t] = Tail(todo[t])]
  /\ UNCHANGED <<queueVars, array, pc, frame>>

\* ... a call that partitions its range and recurs on the two halves, ...
RecPartition(t) ==
  /\ pc[t] = "seq"
  /\ todo[t] # <<>>
  /\ ~Trivial(Head(todo[t]))
  /\ Enter(t, "rec_partition")
  /\ UNCHANGED queueVars

\* ... and the return of the outermost call.
RecDone(t) ==
  /\ pc[t] = "seq"
  /\ todo[t] = <<>>
  /\ Goto(t, "finish")
  /\ UNCHANGED <<queueVars, array, todo, frame>>

\* total_processed++, the last thing done for a job.
Finish(t) ==
  /\ pc[t] = "finish"
  /\ MarkProcessed
  /\ Goto(t, "pop")
  /\ UNCHANGED <<array, todo, frame>>

Wake(t) ==
  /\ SpuriousWake(t)
  /\ UNCHANGED <<array, pc, todo, frame>>

-----------------------------------------------------------------------------
Step(t) ==
  \/ Take(t) \/ Sleep(t) \/ Leave(t)
  \/ ServeTrivial(t) \/ ServeSmall(t) \/ ServeLarge(t)
  \/ ScanUp(t) \/ ScanDown(t) \/ Exchange(t) \/ Return(t)
  \/ Push(t)
  \/ RecReturn(t) \/ RecPartition(t) \/ RecDone(t)
  \/ Finish(t)

\* The barrier at the end of the parallel region: every thread has left the loop.
Returned == \A t \in Threads : pc[t] = "exit"

Stutter == Returned /\ UNCHANGED vars

Next ==
  \/ \E t \in Threads : Step(t) \/ Wake(t)
  \/ Stutter

Spec == Init /\ [][Next]_vars

\* The operating system runs every thread that can run; it owes nobody a spurious wakeup.
FairSpec == Spec /\ \A t \in Threads : WF_vars(Step(t))

-----------------------------------------------------------------------------
(* Correctness. *)

Jobs == [start : Index, end : Index]

Frames == [start : Index, end : Index, k : Index, j : Index, pivot : Value \cup {0}]

Labels == {"pop", "serve", "partition", "push", "seq", "rec_partition", "finish", "exit"}

\* The type invariant.  That every bound stays in Index is a claim about pivot - 1
\* and j--: neither wraps to SIZE_MAX (quicksort_mt.c:111, quicksort_common.c:26, 113).
TypeOK ==
  /\ stack \in Seq(Jobs)
  /\ total_pop \in Nat
  /\ total_processed \in Nat
  /\ terminate \in BOOLEAN
  /\ waiters \subseteq Threads
  /\ array \in [Index -> Value]
  /\ pc \in [Threads -> Labels]
  /\ todo \in [Threads -> Seq(Jobs)]
  /\ frame \in [Threads -> Frames]

\* The threads that have taken a job and not reported it processed yet.
Busy == {t \in Threads : pc[t] \notin {"pop", "exit"}}

\* The two counters of the queue differ by the jobs in service, so that comparing
\* them without looking at the threads decides whether any is (work_queue.c:57).
PopAccounting == total_pop = total_processed + Cardinality(Busy)

\* work_queue_pop closes the queue, and threads leave, only when no job is queued
\* and no thread can push another (work_queue.c:57-61, 71-74).
TerminationSound ==
  (terminate \/ \E t \in Threads : pc[t] = "exit") => terminate /\ stack = <<>> /\ Busy = {}

\* A wakeup is never lost: while any thread is still in the loop one of them is
\* awake, so nobody waits for a signal that nobody will send (work_queue.c:42, 60, 67).
SomeoneAwake ==
  Returned \/ \E t \in Threads : pc[t] # "exit" /\ t \notin waiters

\* The ranges still to be sorted, by where they are kept.
Queued == {<<"stack", i>> : i \in DOMAIN stack}
Held == UNION {{<<t, i>> : i \in DOMAIN todo[t]} : t \in Threads}
Partitioning == {<<t, 0>> : t \in {u \in Threads : InPartition(u)}}
Places == Queued \cup Held \cup Partitioning

RangeAt(p) ==
  IF p[1] = "stack" THEN stack[p[2]]
  ELSE IF p[2] = 0 THEN SortJob(frame[p[1]].start, frame[p[1]].end)
  ELSE todo[p[1]][p[2]]

Outstanding == [p \in Places |-> RangeAt(p)]

\* No element belongs to two ranges still to be sorted: threads share the array
\* without a lock, so the queue must never hand out overlapping jobs
\* (quicksort_mt.c:110-116).
ExclusiveRanges == PairwiseApart(Outstanding)

\* Every call of hoare_partition keeps its invariant, although other threads write to
\* the array all the time: its two indices stop inside its range, which no test in
\* its inner loops makes sure of (quicksort_common.c:26-36).
PartitionsUndisturbed ==
  \A t \in Threads : InPartition(t) => HoareInvariant(array, frame[t])

\* Nothing is forgotten: two elements in the wrong order lie together in a range
\* that somebody holds or the queue keeps, so an early return, a job too short to
\* serve or a closed queue never leaves them behind.
DisorderIsOutstanding == CoverDisorder(Outstanding, array)

\* The array that quicksort_threadpool_parallelism returns is its argument, sorted.
Sort == INSTANCE SortSpec WITH done <- Returned
ImplementsSortSpec == Sort!Spec

\* Every thread finds its way out of work_queue_pop, and the call returns.
Termination == <>Returned

=============================================================================
