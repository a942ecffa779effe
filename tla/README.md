# A specification of the Quick-Sort repository

This directory holds TLA+ specifications of the sorting programs of this
repository, the TLC configurations that check them on small instances, and
proofs, checked by TLAPS, of what holds for every instance. Paths below are
relative to `src/OpenMP/hierarchicalSort/` unless they start with `src/`.

## 1. The system

The repository is a set of programs that sort arrays of integers: on shared
memory with OpenMP, on UPMEM processing-in-memory hardware, and on one core as a
baseline.

| component | where | state | operations |
|---|---|---|---|
| work queue | `commons/dataStructure/work_queue.c` | a doubly linked LIFO list, `size`, `total_pop`, `total_processed`, `terminate`, a mutex, a condition variable | init, push, pop (which also decides that no work is left), destroy |
| thread-pool quicksort | `sorts/quicksort/quicksort_mt.c` 71-148 | the shared array, one work queue, one job per thread | `prepare_queue`, `thread_pool_serve` |
| task-parallel quicksort | `sorts/quicksort/quicksort_mt.c` 19-61 | the shared array, the tree of OpenMP tasks | `task_serve` |
| partition functions | `commons/quicksort_common.c` 19-94 | indices and pivot of a call | `hoare_partition`, `lomuto_partition`, `partition` |
| sequential quicksorts | `commons/quicksort_common.c` 108-156 | call stack, or an array of bounds | `quicksort_rec_seq`, `quicksort_stack_seq` |
| radix sorts | `sorts/radix/`, `commons/radixsort_common.c` | the array, histograms, the head and tail of every bucket per thread | MSB in place (parallel, sequential), LSB with extra space |
| data distribution | `dataDistribution/` | a host's array, the workers' memories | `two_step_sort`, `partition_and_merge` |
| UPMEM programs | `src/UPmem/` | each DPU's MRAM and WRAM, the host's buffers | the DPU's quicksort, the host's distribution and merge |
| baseline | `src/baseline/` | as the DPU's quicksort | `quicksort` |
| unit tests | `tests/work_queue_test.c` | a work queue | seven tests |
| benchmarks, plotters, build files | `benchmarks/`, CMake files | none of their own | call the above |

**Interaction.** `quicksort_threadpool_parallelism` pushes the whole array as one
job and starts an OpenMP team; every thread of the team loops on
`work_queue_pop`, partitions the range it got and pushes the two halves. The
threads share the array without any lock: only the way jobs are cut keeps them
apart. They also share the queue; everything in it is under its mutex except
`total_processed`, an atomic counter that clients increment without the mutex
and that `work_queue_pop` compares with `total_pop` to find out that nothing is in
service. Ranges below `QSORT_GROUP_MIN_DIST` are sorted on the spot by
`quicksort_rec_seq`, which uses the same partition functions.

**What is hard.** Termination detection by two counters, one of which is written
outside the lock; wakeups (one signal per push, one broadcast at the end, none
for `total_processed++`); the exclusivity of ranges that several threads hold,
queue and have still to push; inner loops of `hoare_partition` that test no
bound; arithmetic on `size_t` below zero; OpenMP tasks that read the record of the
call that created them only when they start; an explicit stack of bounds; parts of an array
that have to come back to their places; the progress of the in-place radix permutation, whose
tasks hold elements in hand and have room for only some; a loop variable that tasks share; the
memory of the workers, which a division in whole buckets has to respect; and merges whose initial
minimum is also a value of the elements. `PROJECT.json` lists each such
hazard at its line, with the properties that are about it.

**What makes each component correct.**

- work queue: each job is handed out once; the linked list and `size` agree; jobs are
  never left listed while all threads sleep; it closes exactly when nothing is
  listed or in service, and then nobody stays asleep.
- thread pool: it returns; the array is then a sorted permutation of the argument;
  meanwhile ranges never overlap, no disorder is forgotten, no index leaves the array.
- task-parallel quicksort: the same, with the wait for tasks in place of the queue.
- partition functions: they split their range as their comments say, and touch nothing else.
- sequential quicksorts: the array is sorted; the stack is read where it has been written.
- radix sorts: permutation, order by the digits treated so far, every element is
  moved to its bucket in the end, threads write to disjoint parts of each bucket.
- data distribution, UPMEM: every element goes to one worker and comes back once;
  buffers suffice; merging keeps the order.

## 2. The modules

```
                SortSpec            what every sort promises
                   ^
                   | ImplementsSortSpec, of ThreadPool, TaskQuicksort, Upmem and DataDistribution
                   |
Partition <-+-- ThreadPool ------> WorkQueue <------ WorkQueueTest
            |                         ^
            |                         |
            |                    QueueClients  <== ImplementsQueueClients ==  WorkQueueImpl
            +-- TaskQuicksort
            |
            +-- WholePartition <-+-- StackQuicksort
                                 +-- BaselineQuicksort <-+-- Upmem
                                                         +-- SequentialCalls --> LsbRadix

Sorting <-- Partition, ParallelRadix, LsbRadix, DataDistribution, SortSpec
```

- **WorkQueue** has the queue's state and operations, one action for each critical
  section; it has no next-state relation, its clients have. `stack` is the list
  with the oldest item first, so its last element is `head`; `size` is its length.
  `work_queue_pop` has four outcomes, one action each: `PopJob`, `PopClose`,
  `PopWait`, `PopNull`. A thread that is woken is one that is no longer in `waiters`: it
  repeats the loop test, which is what a new call does. The branch at
  `work_queue.c:62-64` (a second test of `terminate` in the loop) can be reached only
  with `terminate = 0`, and leads nowhere; `WorkQueueImpl` has it.
- **QueueClients** is the queue under the most general client: threads push, pop and report
  in any order what they have popped. It is the abstract specification of the queue.
- **WorkQueueImpl** is `work_queue.c` statement by statement: the mutex, the condition
  variable with its atomic release, the links (with the garbage that `malloc` leaves in
  them), `size`, and the point at which each counter is read. It implements QueueClients.
- **WorkQueueTest** is the multi-threaded pop test of `tests/work_queue_test.c`.
- **Partition** holds `hoare_partition` as an activation record (`HoareFrame`) and its
  steps (`ScansUp`, `ScansDown`, `Exchanges`, `Returns`), arithmetic on `size_t` (`Dec`), and
  the predicates on ranges that the quicksorts share: `PairwiseApart`, `CoverDisorder`,
  `HoareInvariant`.
- **ThreadPool** composes the two into `quicksort_threadpool_parallelism`. `pc[t]` is the
  place of a thread in `thread_pool_serve` or in the calls it makes; `todo[t]` is the list
  of ranges it holds: its job, then the two halves it has still to push, or the
  pending calls of its `quicksort_rec_seq`, next one first; `frame[t]` is its call of
  `hoare_partition`. One action is one critical section, one
  comparison or exchange of a partition, or one access to the atomic counter, so other
  threads' writes to the array fall between any two comparisons.
- **TaskQuicksort** is `quicksort_task_parallelism`. A task is named by its place in the tree of
  tasks; `calls[p]` is the activation record of the call of `task_serve` in task `p`, which
  has the `start`, `pivot` and `end` that its two tasks share; `running[t]` is the stack of
  tasks a thread has started. `Start` is what a thread may do at a task scheduling point
  under OpenMP's rules for tied tasks: at the barrier start any task, at a `taskwait` or behind a task
  construct only a descendant of its current task. A task construct puts the task off or runs it at
  once (`Defer`, `Undefer`), as an implementation is free to do. The steps of the partition are as in
  ThreadPool.
- **WholePartition** has `hoare_partition`, `lomuto_partition` and `partition` as functions of an
  array and a range, for callers that have the array to themselves.
- **StackQuicksort** is `quicksort_stack_seq`, a turn of its loop at a time. `bounds` is the part of its
  local array that has been written; a push beyond the array leads to `pc = "no_room"`, a pop of
  what was never pushed to `pc = "not_pushed"`.
- **BaselineQuicksort** has the quicksort of `src/baseline`, which the UPMEM kernels repeat, as
  functions. **LsbRadix** is the radix sort with extra space, also a function: a pass gives each
  element the place that the histogram, the prefix sums and the elements before it leave for it.
- **SequentialCalls** calls these functions and those of WholePartition, one of them once in a
  behaviour, for every small array and range.
- **Upmem** is the hosts and kernels of `src/UPmem`: a step is a transfer, a
  kernel, or an element merged. `program` says which of the two programs runs; the single-DPU one
  has a random pivot and nothing to merge.
- **DataDistribution** is `partition_and_merge` and `two_step_sort`. `s1[w]` and `m1` are the code's
  arrays, as far as they have been filled; `bucket`, `worker` and `ptrs` the loop variables and the
  merge pointers. One action is a turn of the loop over the buckets (`PartitionBucket`), the sort of a
  worker (they are called one after another), or an element taken by a merge. The two sorts that
  the host calls are single steps that do what ThreadPool and ParallelRadix are shown to do:
  `FirstLevel` permutes the array in any way that leaves the first bytes in order. (That is ParallelRadix without the race of section 6.) Where the code goes on beyond
  an array or sorts a part without elements, the model ends in `pc = "undefined"`. The merge pointers
  of `two_step_sort` exceed their array by one, which may or may not overwrite other data: every merge may
  go on or end in `pc = "overrun"`.
- **ParallelRadix** is `msb_radix_sort_parallel_in_place` and the `mrssip_step` it calls for short arrays. An
  element is a number whose byte is `get_byte_at` of it. `gh`, `gt`, `head` and `tail` are the
  code's arrays; `tasks[t]` has the local variables of a task of `permute` (or, as task 0, of
  `sort_and_swap`), among them the element it holds in `temp`; `repairing[b]` those of the task
  of `repair` for bucket `b`; `i` is the loop variable that those share. A step is a turn
  of one of the inner loops. The inner search of `repair` is one step, as nobody else has the bucket.
  Tasks that are not put off make the loop wait (`Advance`); one that was put off and
  finds another bucket in `i` leads to `pc = "raced"`, where the model ends, because nothing can be
  said of what follows. `config.h` makes `H` one byte, so there is no recursion.
- **Sorting** has what all of them share: `Swap`, `SameElements`, `Sorted`.
- **SortSpec** is what every in-place sort promises: it permutes the array, and returns
  only when it is sorted.
- **MC*** modules instantiate these for TLC.
- **DataLemmas**, **Partition_proof**, **QueueClients_proof**, **WorkQueueImpl_proof**,
  **ThreadPool_proof**, **TaskQuicksort_proof**, **ParallelRadix_proof** and
  **DataDistribution_proof** hold the proofs (section 5).

Definitions marked `Mutant:` in their comments are deliberately wrong forms of
the definition that follows them. No specification uses them; `PROJECT.json`
pairs each property with one that breaks it.

Names follow the code. Elements are natural numbers from `Value`; jobs are records with
`start` and `end`, both included in the range; memory is freed nowhere, because a
freed job or item is not used again (`free(job)` at `quicksort_mt.c:119` comes after the last
use of the job).

## 3. The runs

| run | instance | what it shows |
|---|---|---|
| `QueueClients` | 3 threads, 4 jobs | jobs are handed out once; while a thread sleeps there are no more listed jobs than threads awake in `work_queue_pop`; the queue closes only when idle, and closed it has no sleepers |
| `WorkQueueImpl` | 3 threads, 3 jobs | mutual exclusion, the list and its size, the assertion at line 77, and that the code implements QueueClients |
| `ThreadPool` | 3 threads, 6 elements in 0..1, threshold 2 | the safety properties of section 4, that the call implements SortSpec, and that it returns |
| `WorkQueueTest_ends` | a team of 4, 12 iterations | the loop of the test ends, whether or not the queue is closed early |
| `TaskQuicksort` | 2 threads, 5 elements in 0..1, threshold 2 | tasks find their creator's record in place, never share an element, and the region ends with the array sorted |
| `SequentialCalls` | 5 elements in 0..3; bytes of 0..1 | the partition functions split any range, the baseline's quicksort and the radix sort with extra space sort it, and none touches anything else |
| `Upmem` | 2 DPUs, 4 elements each, in 1..3; 8 elements on one | the merge takes every element once and in order; distribution, kernels and merge implement SortSpec |
| `DataDistribution` | 5 elements of four values, two buckets; 1 to 6 workers with memory for one or two | the parts fit, if the memory suffices in all, and both functions implement SortSpec |
| `ParallelRadix` | 2 tasks, 5 elements with 3 bytes; 3 elements sequentially | nothing is lost or placed twice, the parts stay apart, the rounds end and leave the bytes in order |
| `RepairRace` | 2 tasks, 4 elements, tasks put off | a counterexample: a task of `repair` finds another bucket in `i` (section 6) |
| `StackQuicksort` | 12 equal elements, HOARE | a counterexample: bounds are popped that were never pushed (section 6) |
| `WorkQueueTest` | a team of 2, 4 iterations | a counterexample: the test's own assertions fail in some schedules (section 6) |

**Bounds.** Three threads are the least for which one thread can sleep, one be woken and a
third take the job in between. Four jobs in `QueueClients` allow two listed jobs with two
in service. In `WorkQueueImpl` three jobs give a list with a first, a middle and a last
item, so each branch of the unlinking is taken. In `ThreadPool` six elements and a
threshold of 2 give jobs that are partitioned twice over, jobs sorted sequentially
and trivial ones; two values give equal elements, which stop both scans,
and distinct ones, and the proofs of section 5 cover any other set of values. `SIZE_MAX` is 15 in the runs:
any value outside the array serves to show a wraparound. In `TaskQuicksort` five elements and a threshold of 2
give three levels of tasks, and two threads are enough for a task to be run by another
thread than its creator's, by a waiting ancestor, or at once. In `ParallelRadix` five elements make buckets that two tasks cut unevenly, parts that are empty, full,
or have room, and up to several rounds; the third byte has two elements; the threshold for putting
tasks off lies between two and three buckets, so that both ways are taken. Two DPUs of
four elements let each part run out first. In `DataDistribution` five elements in two buckets, with
memory for one or two in each worker, give buckets that fit, that fill up the worker before them, and that
take three workers; two merge jobs that share a worker; and merges in which only `T_MAX`, 7 here, is left. The hosts
have more than enough workers, just enough, and too few, with which the code runs out of
`s1`; one has memory so small that even the check of the worker notices; two are not admitted. In `StackQuicksort` twelve entries are more than the run ever
pushes, so that what it shows is not a lack of room. In the test, the number of
iterations is a parameter, 200 in the code.

**Symmetry** is declared for threads and jobs in the runs of the queue modules, which check
safety properties only (refinements included; the abstract specification treats threads and
jobs alike). `ThreadPool` checks liveness too and has none.

**Deadlock** is checked in every run. In `ThreadPool` and `WorkQueueTest` the final states
stutter explicitly (`Stutter`), so a state in which all threads sleep would be reported.

**Fairness.** `FairSpec` has weak fairness for the steps of each thread: the operating system
runs every thread that can run. Mutex acquisition is part of the critical section's
step; weak fairness of it is enough, because the sections are always enabled when their
thread is awake. In `TaskQuicksort` a thread that may start a task, or finish waiting, does so in the end;
in `ParallelRadix` the thread that runs `mrpip_step`, and some thread for each task.
Nothing is assumed about spurious wakeups, or about which
thread a signal wakes.

## 4. The properties

Of the queue (QueueClients): `EnoughAwake`, `ClosedWakesAll`, `HandedOutOnce`,
`ClosesWhenIdle`. Of the code of the queue (WorkQueueImpl): `ListWellFormed`, `HeadAsserted`,
`ImplementsQueueClients`. The refinement mapping takes the list, `total_pop` and
`terminate` from the last release of the mutex (`committed`), since nobody else can
see them change before that; `total_processed` is taken as it is. An operation takes effect when
it releases the mutex, but a pop that goes to sleep does so when it compares the
counters: afterwards, another thread's `total_processed++` may already have made them equal.

Of the pool (ThreadPool):

- `PopAccounting`, `TerminationSound`: the two counters differ by the number of busy
  threads, so the queue closes, and a thread leaves, only when no work is left.
- `SomeoneAwake`, `Termination`: never do all remaining threads sleep; all of them leave.
- `ExclusiveRanges`: the ranges that are queued, held or being partitioned never overlap.
- `PartitionsUndisturbed`: every call of `hoare_partition` keeps the invariant that
  stops its scans inside the range.
- `DisorderIsOutstanding`: any two elements in the wrong order lie together in one range
  that is still to be sorted.
- `TypeOK`: among the rest, that no bound wraps around to `SIZE_MAX`. That depends on the
  pivot being parked at `end` before the first scan: the index returned is then never
  `start`, so `pivot - 1` is never `-1`, and both halves are shorter than the range.
- `ImplementsSortSpec`: the call refines SortSpec.

Of the tasks (TaskQuicksort), besides `ExclusiveRanges`, `DisorderIsOutstanding` and
`ImplementsSortSpec` with the tasks in the place of the queue: `FramesOutliveTasks`, that a task put off
finds the record of its creator, which is what the `taskwait` is for; and `Termination`,
that threads waiting for their children, and allowed to run only descendants meanwhile,
never wait for one another.

Of the radix sort (ParallelRadix): `KeepsElements`, that no step loses an element, those in hand
counted (the array with each of them put back is `Filled`); `PartsApart`, that no two tasks may
write to the same place; `PlacedBehindHeads`, that `repair` need not look at what `permute` has
passed; `ReturnsSorted`; `Termination`, that each round places something: each bucket that is not
finished has a part with room for the last task; and `TypeOK`, by which the head of a bucket never passes
its tail, although the sequential sort tests no bound. They hold up to a race of `repair`'s tasks.

Of the sequential code (SequentialCalls): `PartitionsSplit` is what the
comments of the partition functions promise, as far as the code keeps it; `KeepsElements`, that
no call loses an element or touches one outside its range; `SortsRange`, that the baseline sorts around
any first pivot, and that the passes of the radix sort add up, which needs each to keep the order of
equal bytes. `StackKeepsBounds` (StackQuicksort) is what the comment of
`quicksort_stack_seq` says of what it pops.

Of UPMEM: `ImplementsSortSpec`, for each whole program, from the host's random buffer to its
test or output, with `sorted_buffer` and what is left of each part standing for the array during the
merge; and `MergedSoFar`, that in every turn of the merge what has been merged is exactly what the pointers
have left behind, in order, so that no pointer is given up too early and there is one to follow until the end (with
none, the code would use `min_index = -1` as an index). With it goes `TypeOK`, by which a merge pointer stays in the
part of its DPU.

Of the data distribution (DataDistribution):

- `DivisionFits`: if the workers' memory suffices in all, as the code assumes
  (`partition_and_merge.c:139`), every element is in the part of exactly one worker, no part exceeds
  the worker's memory, and the division never needs one worker or job more than there are. What
  is left is a part without elements, and that only in `partition_and_merge` and only where
  there are fewer elements than workers (section 6). It does not speak of the merge pointers (`overrun`).
- `DisorderIsOutstanding`: any two elements in the wrong order are together in a part still to be
  sorted or in a merge job still to be done, so that no job may leave out a worker of its bucket.
- `TypeOK`: a merge pointer stays in the part of its worker, and is NULL once that is used up, although
  after the last element below `T_MAX` it is always the first pointer that moves on.
- `ImplementsSortSpec`: both functions sort. The array that SortSpec sees is the workload with the
  current merge finished off: what has been merged, and behind it what is left of each part.

## 5. The proofs

The proofs hold for every finite set of threads, array length, set of values, threshold and
`SIZE_MAX`, under the assumptions that the modules state:

- `SizeAssumption`: `SIZE_MAX` is a natural number.
- `PoolAssumption` (ThreadPool) and `TeamAssumption` (TaskQuicksort): the array is not empty and can be
  indexed with a `size_t`, values are natural numbers, the team is finite and not empty.
- `PlaceAssumption` (ThreadPool) and `ImplAssumption` (WorkQueueImpl): conventions on names (no
  thread is called `"stack"`, no thread or job `NULL`), and that the jobs are finitely many.
- `RadixAssumption` (ParallelRadix): arrays are not empty, elements are natural numbers (the code's are unsigned),
  there is at least one task, and the byte sorted by is above a power of two, of which the proof
  needs only that it is not zero.
- `DistributionAssumption` (DataDistribution): the workload is not empty, elements are natural numbers up to
  `T_MAX`, each host has at least one worker and a worker's memory holds at least one element
  (the code divides by both), the numbers of workers that a workload takes fit in `wp_id`'s 16 bits, and
  `division_value` and `reminder`, which `init_props` keeps in a `T`, fit in one.
  Nothing is assumed of how the memory compares with the workload; only `DivisionFits` has that as
  a hypothesis, which is the code's own (`partition_and_merge.c:139`).

RECURSIVE operators occur only in WholePartition and BaselineQuicksort, and so in modules that
only TLC uses.

- **DataLemmas** has what the proofs need to know of data: what `Append`, `Tail`, `SubSeq` and `\o` do to
  lengths and elements; that a set of natural numbers has a least element, and a bounded one a greatest;
  that an exchange (`Swap`) keeps the number of elements of each kind, and so the elements; what
  a quotient and its remainder add up to. `Rearranged(D, a, E, b)` says that a one-to-one map of `D` onto `E`
  carries `a` to `b`. Such maps can be composed, inverted and united; `RearrangedSame` shows that they are
  what `SameElements` counts, and `SortedOnce` that there is only one way to sort. The
  least element comes from the library's statement that `<` is well-founded on the naturals. With it
  the proofs do without induction over data: where a parameter would grow, they take the least
  counterexample.
- **QueueClients_proof** shows the queue's type invariant and its four properties, for any number
  of threads and jobs. `EnoughAwake` is inductive only together with `ClosedWakesAll`
  (`WakeInv`): a thread that leaves a closed queue is one awake less. `HandedOutOnce` needs
  that a job still to be pushed is not listed (`OnceInv`), and `ClosesWhenIdle` that
  `total_pop` exceeds `total_processed` by the number of jobs held.
- **WorkQueueImpl_proof** shows that the statements of `work_queue.c` implement QueueClients
  (`CodeImplementsQueue`), and with it type correctness, `ListWellFormed` and `HeadAsserted`. The
  invariant, `ImplInv`, begins with the lock: the mutex is held by exactly the thread whose next statement is
  in a critical section, so that only one thread at a time sees the list between two states of the
  abstract queue. The rest says, for each statement of a critical section, how far the owner has come:
  what the list holds (`Contents`), how far `size` and `total_pop` lag behind it (`CountInv`), what the
  tests so far have established (`TestsInv`), and whom it has woken (`WokenInv`). `CloseInv` is why
  comparing the counters under the mutex is enough, although `total_processed` is written
  without it: where they are found equal nobody has a job to report, so they are still equal when the mutex
  is released. That rests on invariants of the abstract queue, which come from QueueClients_proof by
  INSTANCE, under the refinement mapping.
- **Partition_proof** is the sequential argument: entering establishes `HoareInvariant`, each
  step keeps it, and a return splits the range into two non-empty, disjoint ones with
  nothing out of order across them.
- **ThreadPool_proof** is the concurrent one. It begins with the queue's part, `PopAccounting`,
  `TerminationSound` and `SomeoneAwake`, which does not know of the array: a thread may go to sleep only
  if the counters differ, that is, if some thread is busy; a busy thread is awake; the last one to report
  goes on to call `work_queue_pop` itself, and finds the counters equal. Then `SortInv` joins the types, what each label
  says of the ranges a thread holds (`HoldsByLabel`), `ExclusiveRanges`, `DisorderIsOutstanding`
  (together with the fact that no range is empty, `RangesInv`) and
  `PartitionsUndisturbed`. None is inductive alone: a partition is
  undisturbed because ranges are exclusive, the ranges a partition returns are
  non-empty and exclusive because of its invariant, and disorder never
  leaves the outstanding ranges because an exchange stays inside one. Each step of the
  algorithm does one of five things to the outstanding ranges (moves one to another place,
  `RangesMove`; drops a trivial one, `FirstRangeGoes`; splits one, `RangeSplits`; exchanges
  elements in one, `ExchangeInside`; nothing, `RangesStay`), and there is a lemma for each. The module ends
  with `Refinement`: the pool implements SortSpec, using `TerminationDetected` and
  `DisorderNeverForgotten` for the return (no outstanding ranges, hence no disorder) and
  a counting argument on exchanges for the permutation.
- **TaskQuicksort_proof** is the same argument with tasks in the place of threads:
  type correctness, `FramesOutliveTasks`, `ExclusiveRanges`, `DisorderIsOutstanding` and the refinement of
  SortSpec. What takes the place of the queue is the tree of tasks. That a task put off finds its creator's
  record is not inductive by itself: `ParentsWait` says of every task not finished, started or not,
  that the call that created it is still there and has not got past its `taskwait`, and `CallsInv` that the bounds
  its two tasks read there are those of a range that has been split. The steps of the partition use
  Partition_proof.
- **ParallelRadix_proof** shows all five safety properties of the in-place radix sort. The invariant,
  `RadixInv`, rests on two facts that no step disturbs. `gt` is never written after the start; and
  counting those in hand, the number of elements of each byte never changes, because an element in hand stands
  in `Filled` at the place it was taken from, where it is the only one, and every step then exchanges two elements
  of `Filled`, or none (`Exchanged`). So each bucket always has exactly as many places
  as there are elements of its byte (`Counts`), and the buckets stay one behind the other (`Layout`). On this
  rests the argument for the sequential sort, which writes to the head of a bucket without a test:
  were the bucket full, its places and the one whose element is in hand would be one more
  than there are elements of that byte (`RoomForHand`). For the parallel one, `PermuteInv` says that each part
  is filled from its beginning (`PartFilled`), and the arithmetic of the cuts that parts do not meet; `RepairInv`
  says of a task of `repair` what it has looked at, and of the parts it has still to look at that what
  `permute` placed there is in place: it exchanges only elements behind both. On return every bucket is full, and every
  place is in a bucket. What follows a race of `repair`'s tasks is excluded, as in the model (section 6).
- **DataDistribution_proof** shows all four properties of `partition_and_merge` and `two_step_sort`, the
  refinement of SortSpec included. The invariant, `IInv`, was first checked by TLC on the instance of the
  run. `PartsInv` says what the division has come to: in `two_step_sort` all parts but the last are full
  (`FullParts`), so that the last worker's number says how much has been dealt out, and the last part ends
  where the next bucket starts (`Phases`); in `partition_and_merge` the parts are those of the formula. Either
  way they lie one behind the other (`Tiles`), which comes from the arithmetic of the cuts (`CutsTile`), and
  with enough memory none is too large (`PartsFit`). `HeldTogether` is `DisorderIsOutstanding` before the
  merges. It needs `BucketsInOrder`, because two elements in the wrong order are in one bucket, and
  `JobsInv`, that a job merges exactly one bucket and begins and ends in the parts of its first and last
  worker (`JobFits`). `MergeInv` is the merge itself: the pointers stay in their parts (`PtrsFit`), what has been
  merged is sorted and not above what is left (`MergedSoFar`). What is left is `Remaining`, a set of
  places, and a turn of the merge takes one place from it or, when only `T_MAX` is left, may forget one without
  having taken it (`MergeTakes`): hence the count of what is merged and left may then exceed the job,
  and all that is left is `T_MAX`, which is why it does no harm. That a candidate lies inside the job, although
  nobody compares a pointer with the job's end, is because an element behind the job's end is of a
  higher bucket. For the refinement, `FlattenStretches` says that the rests of the parts, put behind one
  another, have the elements of the places left, and `MergeRearranges` that a turn of the merge only
  rearranges the result.

Model-checked only: the liveness properties (`Termination`, `LoopEnds`), which need
fairness and ENABLED; what the recursive functions compute (SequentialCalls), and the UPMEM
programs, which call one of them, because that would take induction over data and a module that
reaches a RECURSIVE operator is beyond the prover; and the test, which has only a liveness property and a counterexample.

## 6. Findings

**1. The multi-threaded pop test.** `test_multiThreadPop_shouldPopAllTheElements` asserts at `tests/work_queue_test.c:125-128` that the
queue holds what was pushed and not popped, and that `total_pop` is the number of
calls of `work_queue_pop`. A pop that reaches the queue before the first push finds both
counters at zero and closes the queue for good (`work_queue.c:57-60`): it returns NULL and
so do all later pops, whatever is pushed. The test then counts pops that took nothing,
and its assertions fail. The run `WorkQueueTest` shows the shortest schedule. The
pool itself is not affected: `prepare_queue` pushes before the team starts.

**2. The explicit stack.** `quicksort_stack_seq` starts with `top = 0`, writes its first bound to
`stack[1]` and loops `while (top >= 0)` (`commons/quicksort_common.c:132-140`). Once all ranges are
sorted `top` is 0 again, so the loop takes one more turn, which reads `stack[0]`, never written, and
`stack[-1]`, outside the array. "Using a stack to keep track of the range boundaries" (line 122) it
pops boundaries that nobody pushed. The run `StackQuicksort` shows it for twelve equal elements, and
the same happens for every longer array. Moreover, `end - start + 1` entries can be too few for arrays
of up to four elements: the first push of one or two elements reaches past them, and that of two halves of three
or four.

**3. The shared loop variable.** `repair` "ensures that elements are correctly positioned according to
the provided bucket indices" (`sorts/radix/msb_radix_parallel_in_place.c:112-113`), with a task for each bucket.
The tasks share the loop variable `i` (line 132) and, when there are more than
`RSORT_MAX_BYTE_THRESHOLD` (64) buckets, which any array of random numbers has, may be put off. A task that
starts after the loop has moved on works on another bucket; one that starts after the
loop has ended indexes `gh`, `gt` and the rows with `max + 1`. The run `RepairRace` shows the first such
step. `firstprivate(i)` would do.

Without a run: `worker_psort_and_tick` "checks if the worker's memory size is
sufficient for the workload" (`dataDistribution/worker.h:45`), but compares a size in bytes, as
`radix/two_step_sort.c:178` and `:235` take it to be, with a number of elements (line 54): it lets parts pass
that are up to `sizeof(T)` times too large, and workers sort them. `DivisionFits` says when the division makes up
for it. `repair`'s comment (`sorts/radix/msb_radix_parallel_in_place.c:123`) promises to return a count, and it returns nothing.
`quicksort_common.c:15` says of `hoare_partition` that it returns the final index of
the pivot. It returns the start of the right half, where the pivot need not be, and all its callers
take it as that; `HoareSplits` states what it does return.

In `dataDistribution`, also without a run: `merge_partitions` declares `ptrs` one entry short
(`radix/two_step_sort.c:113`) and uses all, in every merge. `partition_and_merge` with more workers than elements
gives the last of them empty parts, for which `quicksort_threadpool_parallelism` makes the job `0 .. SIZE_MAX`.

## 7. Not modelled, and the plan

Out of scope: benchmarks, plotters and build files (no logic of their own);
`work_queue_destroy` and the freeing of memory; `NULL` queues; the failures of the UPMEM SDK, which
end the program. An empty array, for which
`prepare_queue` makes the job `0 .. SIZE_MAX`, is excluded by `PoolAssumption`; only
`partition_and_merge` may pass one, which DataDistribution shows. That module assumes that the numbers of workers a workload takes fit in 16 bits (`DistributionAssumption`), the width of `wp_id`. `quicksort_rec_seq` and `task_serve` are modelled with HOARE,
the method of every caller: with LOMUTO the right half begins at the pivot's own
index, which may be the start of the range, and the recursion need not end. Of the
baseline, RANDOM and LAST are called by nobody. The levels below the first of the radix sorts are
disabled by `config.h`. The other unit tests are sequential or only push.

A next step would be proofs for the UPMEM programs. Upmem calls `BaselineQuicksort`, which is RECURSIVE;
the kernel would first have to become an operator that the module assumes to sort, as the two sorts
in DataDistribution are, and its merge could then be reasoned about as the merge there.
