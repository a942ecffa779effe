--------------------------- MODULE DataDistribution ---------------------------
(***************************************************************************)
(* dataDistribution: a host divides a workload among workers of bounded    *)
(* memory, lets one after another sort its part, and merges the parts.     *)
(*                                                                         *)
(*   partition_and_merge  cuts the workload into equal parts and merges    *)
(*                        all of them into another array;                  *)
(*   two_step_sort        sorts by the first bytes, deals out whole        *)
(*                        buckets as long as they fit, and merges only the *)
(*                        buckets that several workers share.              *)
(*                                                                         *)
(* The two sorts the host calls are one step each, which does what they    *)
(* promise: SortSpec is what ThreadPool implements, and ParallelRadix's    *)
(* KeepsElements and ReturnsSorted are what the first level does.          *)
(***************************************************************************)
EXTENDS Sorting, SequencesExt

CONSTANTS
  N, Value,    \* the workload's length, and what it may hold
  T_MAX,       \* the largest T
  SIZEOF_T,    \* bytes of an element
  LOW,         \* 2 to the number of bits below those of H
  Hosts,       \* values of host_t, without its timers and tasklet_count
  PROCS        \* omp_get_num_procs()

W(h) == h.worker_mem_size \div SIZEOF_T

ASSUME DistributionAssumption ==
  /\ N \in Nat \ {0} /\ LOW \in Nat \ {0} /\ SIZEOF_T \in Nat \ {0} /\ PROCS \in Nat
  /\ T_MAX \in Nat /\ Value \subseteq 0 .. T_MAX
  /\ \A h \in Hosts :
       /\ h.worker_count \in Nat \ {0} /\ h.worker_mem_size \in Nat /\ W(h) \in Nat \ {0}
       /\ h.host_mem_size \in Nat /\ h.thread_count \in Nat
       /\ N <= 65535 * W(h)   \* the numbers of workers fit their 16 bits
       /\ N \div h.worker_count <= T_MAX /\ h.worker_count - 1 <= T_MAX
                               \* division_value and reminder fit in a T

VARIABLES
  host, strategy,   \* who is called, and which function
  array,            \* the workload
  bucket,           \* bucket_idx
  s1,               \* the part of each worker that has one
  m1,               \* the merge jobs that are not finished
  worker,           \* the worker whose turn it is to sort
  ptrs,             \* the next element to merge from each worker of a job, or NULL
  temp,             \* what has been merged: temp, or output
  pc

vars == <<host, strategy, array, bucket, s1, m1, worker, ptrs, temp, pc>>

Index == 0 .. N - 1
Strategies == {"partition_and_merge", "two_step_sort"}
NULL == -1

get_h_at(number) == number \div LOW
Hs == 0 .. get_h_at(T_MAX)

\* The elements that one worker's memory holds.
worker_mem_size_elems == W(host)

Part(input, count) == [input |-> input, element_in_partition |-> count]
PartEnd(p) == p.input + p.element_in_partition
Places(p) == p.input .. PartEnd(p) - 1

Init ==
  /\ host \in Hosts
  /\ strategy \in Strategies
  /\ array \in [Index -> Value]
  /\ bucket = 0 /\ worker = 0
  /\ s1 = <<>> /\ m1 = <<>> /\ ptrs = <<>> /\ temp = <<>>
  /\ pc = "start"

\* check_memory_bound.
Admitted == host.host_mem_size >= N * SIZEOF_T /\ PROCS >= host.thread_count

Start ==
  /\ pc = "start"
  /\ pc' = IF ~Admitted THEN "exit"
           ELSE IF strategy = "two_step_sort" THEN "first_level" ELSE "init_props"
  /\ UNCHANGED <<host, strategy, array, bucket, s1, m1, worker, ptrs, temp>>

-----------------------------------------------------------------------------
(* partition_and_merge: equal parts, and one job for all of them. *)

EqualPart(w) ==
  LET division_value == N \div host.worker_count
      reminder == N % host.worker_count
  IN Part(w * division_value + (IF w < reminder THEN w ELSE reminder),
          division_value + (IF w < reminder THEN 1 ELSE 0))

Job(first, last, start, end) == [w_first |-> first, w_last |-> last, start |-> start, end |-> end]

init_props ==
  /\ pc = "init_props"
  /\ s1' = [w \in 0 .. host.worker_count - 1 |-> EqualPart(w)]
  /\ m1' = <<Job(0, host.worker_count, 0, N)>>
  /\ pc' = "sort"
  /\ UNCHANGED <<host, strategy, array, bucket, worker, ptrs, temp>>

-----------------------------------------------------------------------------
(* two_step_sort *)

\* What msb_radix_sort_parallel_in_place may leave.
InBucketOrder == {a \in [Index -> Value] : Sorted([x \in Index |-> get_h_at(a[x])])}

FirstLevel ==
  /\ pc = "first_level"
  /\ \E a \in InBucketOrder : SameElements(array, a) /\ array' = a
  /\ s1' = [w \in {0} |-> Part(0, 0)]
  /\ pc' = "partition"
  /\ UNCHANGED <<host, strategy, bucket, m1, worker, ptrs, temp>>

\* buckets: the elements of each bucket, and then where it ends.
BucketEnd(h) == Cardinality({x \in Index : get_h_at(array[x]) <= h})
BucketStart(h) == IF h = 0 THEN 0 ELSE BucketEnd(h - 1)
Elements(h) == BucketEnd(h) - BucketStart(h)

\* The worker whose part is the last.
cwp_id(s) == Cardinality(DOMAIN s) - 1

\* When that part is full, the next worker gets one.
Opened(s) ==
  LET last == s[cwp_id(s)]
  IN IF last.element_in_partition = worker_mem_size_elems
     THEN [w \in 0 .. cwp_id(s) + 1 |-> IF w \in DOMAIN s THEN s[w] ELSE Part(PartEnd(last), 0)]
     ELSE s

\* Mutant: rounds down and adds one.
get_corresponding_worker_id_Floor(index) == index \div worker_mem_size_elems + 1

\* How many workers it takes to hold the elements before index.
get_corresponding_worker_id(index) ==
  (index + worker_mem_size_elems - 1) \div worker_mem_size_elems

Least(a, b) == IF a < b THEN a ELSE b

\* A bucket that does not fit: the last part is filled up, and what remains is dealt
\* to workers up to wp_id.
Dealt(s, elements, wp_id) ==
  LET cwp == cwp_id(s)
      remaining == elements - (worker_mem_size_elems - s[cwp].element_in_partition)
      before(w) == (w - cwp - 1) * worker_mem_size_elems
  IN [w \in 0 .. wp_id - 1 |->
        IF w < cwp THEN s[w]
        ELSE IF w = cwp THEN [s[w] EXCEPT !.element_in_partition = worker_mem_size_elems]
        ELSE Part(s[cwp].input + (w - cwp) * worker_mem_size_elems,
                  Least(remaining - before(w), worker_mem_size_elems))]

\* Mutant: the job leaves out what the first of its workers has.
BucketJob_FromNext(s, h, wp_id) ==
  Job(cwp_id(s), wp_id, s[cwp_id(s)].input + worker_mem_size_elems, BucketEnd(h))

\* Its workers' parts of that bucket are to be merged.
BucketJob(s, h, wp_id) == Job(cwp_id(s), wp_id, BucketStart(h), BucketEnd(h))

\* One turn of partition_data's loop.  s1 and m1 have worker_count entries; nobody looks
\* whether that is enough.
PartitionBucket ==
  /\ pc = "partition"
  /\ bucket \in Hs
  /\ LET s == Opened(s1)
         wp_id == get_corresponding_worker_id(BucketEnd(bucket))
         inside == cwp_id(s) < host.worker_count /\ wp_id <= host.worker_count
     IN \/ /\ Elements(bucket) = 0
           /\ UNCHANGED <<s1, m1, pc>>
        \/ /\ Elements(bucket) > 0 /\ ~inside
           /\ pc' = "undefined"
           /\ UNCHANGED <<s1, m1>>
        \/ /\ Elements(bucket) > 0 /\ inside /\ wp_id - 1 > cwp_id(s)
           /\ s1' = Dealt(s, Elements(bucket), wp_id)
           /\ m1' = Append(m1, BucketJob(s, bucket, wp_id))
           /\ UNCHANGED pc
        \/ /\ Elements(bucket) > 0 /\ inside /\ wp_id - 1 <= cwp_id(s)
           /\ s1' = [s EXCEPT ![cwp_id(s)].element_in_partition = @ + Elements(bucket)]
           /\ UNCHANGED <<m1, pc>>
  /\ bucket' = bucket + 1
  /\ UNCHANGED <<host, strategy, array, worker, ptrs, temp>>

Partitioned ==
  /\ pc = "partition"
  /\ bucket \notin Hs
  /\ pc' = "sort"
  /\ UNCHANGED <<host, strategy, array, bucket, s1, m1, worker, ptrs, temp>>

-----------------------------------------------------------------------------
(* The workers *)

\* What quicksort_threadpool_parallelism may leave at the places of p.
SortsOf(a, p) ==
  {b \in [Places(p) -> Value] : Sorted(b) /\ SameElements([x \in Places(p) |-> a[x]], b)}

\* "It checks if the worker's memory size is sufficient for the workload", but counts the
\* memory in bytes and the workload in elements.  The first job of an empty workload is
\* 0 .. SIZE_MAX.
worker_psort_and_tick ==
  /\ pc = "sort"
  /\ worker \in DOMAIN s1
  /\ LET p == s1[worker] IN
       \/ /\ host.worker_mem_size < p.element_in_partition
          /\ pc' = "exit"
          /\ UNCHANGED <<array, worker>>
       \/ /\ host.worker_mem_size >= p.element_in_partition
          /\ p.element_in_partition = 0
          /\ pc' = "undefined"
          /\ UNCHANGED <<array, worker>>
       \/ /\ host.worker_mem_size >= p.element_in_partition
          /\ p.element_in_partition > 0
          /\ \E b \in SortsOf(array, p) :
               array' = [x \in Index |-> IF x \in Places(p) THEN b[x] ELSE array[x]]
          /\ worker' = worker + 1
          /\ UNCHANGED pc
  /\ UNCHANGED <<host, strategy, bucket, s1, m1, ptrs, temp>>

SortedAll ==
  /\ pc = "sort"
  /\ worker \notin DOMAIN s1
  /\ pc' = "next_job"
  /\ UNCHANGED <<host, strategy, array, bucket, s1, m1, worker, ptrs, temp>>

-----------------------------------------------------------------------------
(* The merges: merge, and merge_partitions *)

job == Head(m1)
ptr_size(j) == j.w_last - j.w_first

\* merge_partitions declares one pointer less than it uses.  What lies behind them on the
\* stack may be overwritten, or may be unused.
PtrsOverrun == strategy = "two_step_sort"

BeginJob ==
  /\ pc = "next_job"
  /\ m1 # <<>>
  /\ ptrs' = [j \in 0 .. ptr_size(job) - 1 |-> IF j = 0 THEN job.start ELSE s1[job.w_first + j].input]
  /\ temp' = <<>>
  /\ pc' \in {"merge"} \cup (IF PtrsOverrun THEN {"overrun"} ELSE {})
  /\ UNCHANGED <<host, strategy, array, bucket, s1, m1, worker>>

\* The pointers to what is less than T_MAX; the first of the least is taken.
Candidates == {j \in DOMAIN ptrs : ptrs[j] # NULL /\ array[ptrs[j]] < T_MAX}
NextOf(j) == array[ptrs[j]]
FirstLeast ==
  CHOOSE j \in Candidates : \A k \in Candidates :
    NextOf(j) < NextOf(k) \/ (NextOf(j) = NextOf(k) /\ j <= k)

\* With only T_MAX left, current_min and ptr_index keep their first values.
ptr_index == IF Candidates = {} THEN 0 ELSE FirstLeast
current_min == IF Candidates = {} THEN T_MAX ELSE NextOf(FirstLeast)

\* Mutant: goes on into the next part.
Following_NoEnd(j) == IF ptrs[j] = NULL THEN NULL ELSE ptrs[j] + 1

Following(j) ==
  IF ptrs[j] = NULL \/ ptrs[j] + 1 = PartEnd(s1[job.w_first + j]) THEN NULL ELSE ptrs[j] + 1

Merge ==
  /\ pc = "merge"
  /\ Len(temp) < job.end - job.start
  /\ temp' = Append(temp, current_min)
  /\ ptrs' = [ptrs EXCEPT ![ptr_index] = Following(ptr_index)]
  /\ UNCHANGED <<host, strategy, array, bucket, s1, m1, worker, pc>>

\* Mutant: leaves the copy in temp.
CopiedBack_Not == array

\* memcpy.
CopiedBack ==
  [x \in Index |-> IF x \in job.start .. job.end - 1 THEN temp[x - job.start + 1] ELSE array[x]]

\* partition_and_merge has merged into its output.
FinishJob ==
  /\ pc = "merge"
  /\ Len(temp) = job.end - job.start
  /\ IF strategy = "two_step_sort"
     THEN array' = CopiedBack /\ m1' = Tail(m1) /\ temp' = <<>> /\ pc' = "next_job"
     ELSE UNCHANGED <<array, m1, temp>> /\ pc' = "return"
  /\ ptrs' = <<>>
  /\ UNCHANGED <<host, strategy, bucket, s1, worker>>

Return ==
  /\ pc = "next_job"
  /\ m1 = <<>>
  /\ pc' = "return"
  /\ UNCHANGED <<host, strategy, array, bucket, s1, m1, worker, ptrs, temp>>

Stutter == pc \in {"return", "exit", "undefined", "overrun"} /\ UNCHANGED vars

Next ==
  \/ Start \/ init_props
  \/ FirstLevel \/ PartitionBucket \/ Partitioned
  \/ worker_psort_and_tick \/ SortedAll
  \/ BeginJob \/ Merge \/ FinishJob \/ Return
  \/ Stutter

Spec == Init /\ [][Next]_vars

-----------------------------------------------------------------------------
(* Correctness. *)

\* What a job has merged, and behind it what is left of each part.
Rest(j) ==
  LET end == Least(PartEnd(s1[job.w_first + j]), job.end)
  IN IF ptrs[j] = NULL THEN <<>> ELSE [n \in 1 .. end - ptrs[j] |-> array[ptrs[j] + n - 1]]
Merged == temp \o FlattenSeq([n \in 1 .. Cardinality(DOMAIN ptrs) |-> Rest(n - 1)])

\* The array the caller gets, with the merge that is going on finished off that way.
Result ==
  [x \in Index |->
     IF pc \in {"merge", "return"} /\ m1 # <<>> /\ x \in job.start .. job.end - 1
     THEN Merged[x - job.start + 1] ELSE array[x]]

\* The type invariant; a pointer stays in the part of its worker (two_step_sort.c:137-139).
TypeOK ==
  /\ host \in Hosts /\ strategy \in Strategies
  /\ array \in [Index -> Value]
  /\ bucket \in 0 .. get_h_at(T_MAX) + 1
  /\ DOMAIN s1 \subseteq 0 .. host.worker_count - 1
  /\ \A w \in DOMAIN s1 : Places(s1[w]) \subseteq Index
  /\ \A n \in DOMAIN m1 : 0 <= m1[n].start /\ m1[n].start < m1[n].end /\ m1[n].end <= N
  /\ worker \in 0 .. host.worker_count
  /\ \A j \in DOMAIN ptrs : ptrs[j] \in {NULL} \cup Places(s1[job.w_first + j])
  /\ temp \in Seq(Value)

\* Where the sorts of the workers and the merges begin, the elements have been divided.
Divided == pc \in {"sort", "next_job", "merge", "return"}

\* "This function assumes that the total memory available for all worker threads combined
\* is sufficient" (partition_and_merge.c:139): then both divisions give every place to one
\* worker, none more than its memory holds, and never look for one more worker or job.
\* Only partition_and_merge may leave a worker without an element, and only where there are
\* fewer of them than workers.
DivisionFits ==
  N <= host.worker_count * worker_mem_size_elems =>
    /\ Divided => \A x \in Index : Cardinality({w \in DOMAIN s1 : x \in Places(s1[w])}) = 1
    /\ Divided => \A w \in DOMAIN s1 : s1[w].element_in_partition <= worker_mem_size_elems
    /\ pc = "exit" => ~Admitted
    /\ pc = "undefined" => strategy = "partition_and_merge" /\ N < host.worker_count

\* Two elements in the wrong order lie in a part that is still to be sorted or in a job
\* that is still to be merged: no job leaves out what several workers share
\* (two_step_sort.c:195-219).
DisorderIsOutstanding ==
  Divided => \A x, y \in Index : x < y /\ Result[x] > Result[y] =>
    \/ \E w \in DOMAIN s1 : w >= worker /\ {x, y} \subseteq Places(s1[w])
    \/ \E n \in DOMAIN m1 : {x, y} \subseteq m1[n].start .. m1[n].end - 1

\* Both functions sort, whatever the parts, the equal elements and the elements T_MAX
\* that the merges take for none: nothing is lost or merged twice
\* (partition_and_merge.c:99-123, two_step_sort.c:102-150).
Sort == INSTANCE SortSpec WITH array <- Result, done <- pc = "return"
ImplementsSortSpec == Sort!Spec

=============================================================================
