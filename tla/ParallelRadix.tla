---------------------------- MODULE ParallelRadix ----------------------------
(***************************************************************************)
(* msb_radix_sort_parallel_in_place of                                     *)
(* sorts/radix/msb_radix_parallel_in_place.c: elements are moved to the    *)
(* bucket of their byte in rounds.  Every bucket is cut into one part for  *)
(* each task; each task permutes the elements of its own parts as far as   *)
(* they have room (permute); then what could not be placed is gathered at  *)
(* the end of its bucket (repair) for the next round.                      *)
(*                                                                         *)
(* Short arrays go to mrssip_step of msb_radix_sequential_in_place.c.      *)
(*                                                                         *)
(* config.h makes H one byte, so that neither step calls itself for a      *)
(* further level.                                                          *)
(***************************************************************************)
EXTENDS Sorting

CONSTANTS
  Sizes,                     \* lengths an array may have
  Value,                     \* what its elements may be
  LOW,                       \* 2 to the number of bits below the byte to sort by
  RUNNER_THREADS_NUM,        \* the number of tasks of a round
  RSORT_GROUP_MIN_DIST,      \* shorter arrays are sorted by one thread
  RSORT_MAX_BYTE_THRESHOLD   \* repair's tasks are put off when there are more buckets

ASSUME RadixAssumption ==
  /\ Sizes \subseteq Nat \ {0}
  /\ Value \subseteq Nat
  /\ LOW \in Nat \ {0}
  /\ RUNNER_THREADS_NUM \in Nat \ {0}
  /\ RSORT_GROUP_MIN_DIST \in Nat
  /\ RSORT_MAX_BYTE_THRESHOLD \in Nat

VARIABLES
  array,
  gh, gt,       \* where the part of each bucket begins that is not in order, and ends
  head, tail,   \* processors_buckets_head and _tail
  tasks,        \* the local variables of the tasks of permute, and of sort_and_swap
  repairing,    \* the local variables of the tasks of repair, by bucket
  i,            \* the loop variable of repair, which its tasks share
  pc            \* the thread that runs mrpip_step

vars == <<array, gh, gt, head, tail, tasks, repairing, i, pc>>

Tids == 0 .. RUNNER_THREADS_NUM - 1
Buckets == DOMAIN gh
Top == Cardinality(Buckets)      \* max + 1

get_byte_at(number) == (number \div LOW) % 256

Byte(x) == get_byte_at(array[x])

\* create_histograms and prefix_sum: where the bucket of byte b begins, ...
HeadOf(a, b) == Cardinality({x \in DOMAIN a : get_byte_at(a[x]) < b})

\* Mutant: ends every bucket but the first one element early.
TailOf_Short(a, b) == Cardinality({x \in DOMAIN a : get_byte_at(a[x]) <= b}) - (IF b = 0 THEN 0 ELSE 1)

\* ... and where it ends.
TailOf(a, b) == Cardinality({x \in DOMAIN a : get_byte_at(a[x]) <= b})

\* The bytes 0 .. max.
Bytes == {b \in 0 .. 255 : \E x \in DOMAIN array : b <= Byte(x)}

Init ==
  /\ \E n \in Sizes : array \in [0 .. n - 1 -> Value]
  /\ gh = <<>> /\ gt = <<>> /\ head = <<>> /\ tail = <<>>
  /\ tasks = <<>> /\ repairing = <<>>
  /\ i = 0
  /\ pc = "start"

\* A task that permutes: the bucket whose part it fills, an index into it, and an
\* element it holds, which it has taken from that index.
Task(b, h) == [bucket |-> b, head |-> h, holding |-> FALSE, temp |-> 0]

Start ==
  /\ pc = "start"
  /\ gh' = [b \in Bytes |-> HeadOf(array, b)]
  /\ gt' = [b \in Bytes |-> TailOf(array, b)]
  /\ \/ /\ Cardinality(DOMAIN array) < RSORT_GROUP_MIN_DIST
        /\ tasks' = [t \in {0} |-> Task(0, 0)]
        /\ pc' = "sort_and_swap"
     \/ /\ Cardinality(DOMAIN array) >= RSORT_GROUP_MIN_DIST
        /\ pc' = "partition"
        /\ UNCHANGED tasks
  /\ UNCHANGED <<array, head, tail, repairing, i>>

-----------------------------------------------------------------------------
(* partition_buckets *)

\* Where the part of task t begins, ...
Cut(b, t) == gh[b] + ((gt[b] - gh[b]) * t) \div RUNNER_THREADS_NUM

\* Mutant: rounds the end of a part up.
PartEnd_RoundsUp(b, t) ==
  gh[b] + ((gt[b] - gh[b]) * (t + 1) + RUNNER_THREADS_NUM - 1) \div RUNNER_THREADS_NUM

\* ... and where it ends.
PartEnd(b, t) == IF t = RUNNER_THREADS_NUM - 1 THEN gt[b] ELSE Cut(b, t + 1)

\* Its tasks write to a row each, and read what nobody writes.  The tasks of permute
\* are created next.
partition_buckets ==
  /\ pc = "partition"
  /\ head' = [t \in Tids |-> [b \in Buckets |-> Cut(b, t)]]
  /\ tail' = [t \in Tids |-> [b \in Buckets |-> PartEnd(b, t)]]
  /\ tasks' = [t \in Tids |-> Task(0, Cut(0, t))]
  /\ pc' = "permute"
  /\ UNCHANGED <<array, gh, gt, repairing, i>>

-----------------------------------------------------------------------------
(* permute, one task at a time *)

Permuting(t) == pc = "permute" /\ t \in DOMAIN tasks
TempByte(t) == get_byte_at(tasks[t].temp)

PermuteRest == UNCHANGED <<gh, gt, tail, repairing, i, pc>>

\* The while loop over the part of a bucket is done: on to the next bucket, if any.
NextBucket(t) ==
  /\ Permuting(t)
  /\ LET b == tasks[t].bucket IN
       /\ ~tasks[t].holding
       /\ tasks[t].head >= tail[t][b]
       /\ \/ b + 1 \in Buckets /\ tasks' = [tasks EXCEPT ![t] = Task(b + 1, head[t][b + 1])]
          \/ b + 1 \notin Buckets /\ tasks' = [u \in DOMAIN tasks \ {t} |-> tasks[u]]
  /\ UNCHANGED <<array, head>> /\ PermuteRest

PickUp(t) ==
  /\ Permuting(t)
  /\ ~tasks[t].holding
  /\ tasks[t].head < tail[t][tasks[t].bucket]
  /\ tasks' = [tasks EXCEPT ![t].holding = TRUE, ![t].temp = array[tasks[t].head]]
  /\ UNCHANGED <<array, head>> /\ PermuteRest

\* The element in hand goes to the part of its bucket, if there is room, ...
SwapOut(t) ==
  /\ Permuting(t)
  /\ tasks[t].holding
  /\ LET b == TempByte(t) IN
       /\ b # tasks[t].bucket
       /\ head[t][b] < tail[t][b]
       /\ tasks' = [tasks EXCEPT ![t].temp = array[head[t][b]]]
       /\ array' = [array EXCEPT ![head[t][b]] = tasks[t].temp]
       /\ head' = [head EXCEPT ![t][b] = @ + 1]
  /\ PermuteRest

\* Mutant: overwrites the element that was to make room.
Home_Overwrites(t, h) == [array EXCEPT ![h] = tasks[t].temp]

\* The two assignments by which it changes places with the element at h.
Home(t, h) == [[array EXCEPT ![tasks[t].head] = array[h]] EXCEPT ![h] = tasks[t].temp]

\* ... one of this bucket joins those already placed, ...
PutHome(t) ==
  /\ Permuting(t)
  /\ tasks[t].holding
  /\ LET b == tasks[t].bucket IN
       /\ TempByte(t) = b
       /\ array' = Home(t, head[t][b])
       /\ head' = [head EXCEPT ![t][b] = @ + 1]
  /\ tasks' = [tasks EXCEPT ![t].holding = FALSE, ![t].head = @ + 1]
  /\ PermuteRest

\* ... and one there is no room for stays where a place is free.
PutBack(t) ==
  /\ Permuting(t)
  /\ tasks[t].holding
  /\ LET b == TempByte(t) IN b # tasks[t].bucket /\ head[t][b] >= tail[t][b]
  /\ array' = [array EXCEPT ![tasks[t].head] = tasks[t].temp]
  /\ tasks' = [tasks EXCEPT ![t].holding = FALSE, ![t].head = @ + 1]
  /\ UNCHANGED head /\ PermuteRest

\* taskwait.
Permuted ==
  /\ pc = "permute"
  /\ DOMAIN tasks = {}
  /\ i' = 0
  /\ pc' = "repair"
  /\ UNCHANGED <<array, gh, gt, head, tail, tasks, repairing>>

-----------------------------------------------------------------------------
(* repair *)

Deferred == Top - 1 > RSORT_MAX_BYTE_THRESHOLD

\* The loop creates a task for bucket i and goes on, at once if the task is put off.
CreateRepair ==
  /\ pc = "repair"
  /\ i < Top
  /\ repairing' = [b \in DOMAIN repairing \cup {i} |->
       IF b = i THEN [tid |-> 0, head |-> head[0][i], tail |-> gt[i]] ELSE repairing[b]]
  /\ pc' = "repair_next"
  /\ UNCHANGED <<array, gh, gt, head, tail, tasks, i>>

Advance ==
  /\ pc = "repair_next"
  /\ Deferred \/ DOMAIN repairing = {}
  /\ i' = i + 1
  /\ pc' = "repair"
  /\ UNCHANGED <<array, gh, gt, head, tail, tasks, repairing>>

\* The task of bucket b at work, which finds its bucket in i.
Repairing(b) == pc # "raced" /\ b \in DOMAIN repairing /\ i = b
Looking(b) ==
  LET r == repairing[b] IN r.head < tail[r.tid][b] /\ r.head < r.tail

\* The last element of b's own, from the head on, or the head if there is none.
Exchangeable(b) ==
  LET r == repairing[b]
      right == {x \in r.head .. r.tail - 1 : Byte(x) = b}
  IN IF right = {} THEN r.head ELSE CHOOSE x \in right : \A y \in right : y <= x

Look(b) ==
  /\ Repairing(b)
  /\ Looking(b)
  /\ LET h == repairing[b].head IN
       \/ /\ Byte(h) = b
          /\ repairing' = [repairing EXCEPT ![b].head = h + 1]
          /\ UNCHANGED array
       \/ /\ Byte(h) # b
          /\ array' = Swap(array, h, Exchangeable(b))
          /\ repairing' = [repairing EXCEPT ![b].head = h + 1, ![b].tail = Exchangeable(b)]
  /\ UNCHANGED <<gh, gt, head, tail, tasks, i, pc>>

NextPart(b) ==
  /\ Repairing(b)
  /\ ~Looking(b)
  /\ LET t == repairing[b].tid + 1 IN
       /\ t \in Tids
       /\ repairing' = [repairing EXCEPT ![b].tid = t, ![b].head = head[t][b]]
  /\ UNCHANGED <<array, gh, gt, head, tail, tasks, i, pc>>

\* Mutant: the index it has looked at last.
PlacedUpTo_Head(b) == repairing[b].head

\* Mutant: does not tell the next round what has been placed.
PlacedUpTo_Unchanged(b) == gh[b]

\* Where the next round begins.
PlacedUpTo(b) == repairing[b].tail

FinishRepair(b) ==
  /\ Repairing(b)
  /\ ~Looking(b)
  /\ repairing[b].tid + 1 \notin Tids
  /\ gh' = [gh EXCEPT ![b] = PlacedUpTo(b)]
  /\ repairing' = [c \in DOMAIN repairing \ {b} |-> repairing[c]]
  /\ UNCHANGED <<array, gt, head, tail, tasks, i, pc>>

\* A task that was put off reads i after the loop has changed it: it may take another
\* bucket for its own, or none that exists.
Race(b) ==
  /\ pc # "raced"
  /\ b \in DOMAIN repairing
  /\ i # b
  /\ pc' = "raced"
  /\ UNCHANGED <<array, gh, gt, head, tail, tasks, repairing, i>>

\* Mutant: looks at one bucket only.
Finished_FirstBucket == gh[0] = gt[0]

Finished == gh = gt

\* taskwait, and the test that ends the rounds.
Check ==
  /\ pc = "repair"
  /\ i = Top
  /\ DOMAIN repairing = {}
  /\ pc' = IF Finished THEN "return" ELSE "partition"
  /\ UNCHANGED <<array, gh, gt, head, tail, tasks, repairing, i>>

-----------------------------------------------------------------------------
(* sort_and_swap: one thread, and no bounds but those the counts imply *)

Sequential == pc = "sort_and_swap"
Hand == tasks[0]
SeqRest == UNCHANGED <<gt, head, tail, repairing, i>>

SeqPickUp ==
  /\ Sequential
  /\ ~Hand.holding
  /\ gh[Hand.bucket] < gt[Hand.bucket]
  /\ tasks' = [t \in {0} |-> [Hand EXCEPT !.holding = TRUE, !.head = gh[Hand.bucket],
                                          !.temp = array[gh[Hand.bucket]]]]
  /\ UNCHANGED <<array, gh, pc>> /\ SeqRest

SeqSwapOut ==
  /\ Sequential
  /\ Hand.holding
  /\ LET b == TempByte(0) IN
       /\ b # Hand.bucket
       /\ tasks' = [t \in {0} |-> [Hand EXCEPT !.temp = array[gh[b]]]]
       /\ array' = [array EXCEPT ![gh[b]] = Hand.temp]
       /\ gh' = [gh EXCEPT ![b] = @ + 1]
  /\ UNCHANGED pc /\ SeqRest

SeqPutHome ==
  /\ Sequential
  /\ Hand.holding
  /\ TempByte(0) = Hand.bucket
  /\ array' = [array EXCEPT ![gh[Hand.bucket]] = Hand.temp]
  /\ gh' = [gh EXCEPT ![Hand.bucket] = @ + 1]
  /\ tasks' = [t \in {0} |-> [Hand EXCEPT !.holding = FALSE]]
  /\ UNCHANGED pc /\ SeqRest

SeqNextBucket ==
  /\ Sequential
  /\ ~Hand.holding
  /\ gh[Hand.bucket] >= gt[Hand.bucket]
  /\ IF Hand.bucket + 1 \in Buckets
     THEN tasks' = [t \in {0} |-> Task(Hand.bucket + 1, 0)] /\ UNCHANGED pc
     ELSE tasks' = <<>> /\ pc' = "return"
  /\ UNCHANGED <<array, gh>> /\ SeqRest

-----------------------------------------------------------------------------
PermuteStep(t) ==
  NextBucket(t) \/ PickUp(t) \/ SwapOut(t) \/ PutHome(t) \/ PutBack(t)

RepairStep(b) == Look(b) \/ NextPart(b) \/ FinishRepair(b) \/ Race(b)

Master ==
  \/ Start \/ partition_buckets \/ Permuted \/ CreateRepair \/ Advance \/ Check
  \/ SeqPickUp \/ SeqSwapOut \/ SeqPutHome \/ SeqNextBucket

Returned == pc = "return"

Stutter == pc \in {"return", "raced"} /\ UNCHANGED vars

Next ==
  \/ Master
  \/ \E t \in Tids : PermuteStep(t)
  \/ \E b \in DOMAIN repairing : RepairStep(b)
  \/ Stutter

Spec == Init /\ [][Next]_vars

\* Some thread of the team runs each task.
FairSpec ==
  /\ Spec
  /\ WF_vars(Master)
  /\ \A t \in Tids : WF_vars(PermuteStep(t))
  /\ WF_vars(\E b \in DOMAIN repairing : RepairStep(b))

-----------------------------------------------------------------------------
(* Correctness. *)

\* The array with every element that is in some task's hand put back where it came from.
Filled ==
  [x \in DOMAIN array |->
     LET holders == {t \in DOMAIN tasks : tasks[t].holding /\ tasks[t].head = x}
     IN IF holders = {} THEN array[x] ELSE tasks[CHOOSE t \in holders : TRUE].temp]

Rounds == {"permute", "repair", "repair_next"}

\* The type invariant; heads stay within their parts, and parts within their buckets, also
\* where sort_and_swap writes to a bucket without a look whether it has room
\* (msb_radix_sequential_in_place.c:44-46).
TypeOK ==
  /\ \E n \in Sizes : array \in [0 .. n - 1 -> Value]
  /\ pc \in Rounds \cup {"start", "partition", "sort_and_swap", "return", "raced"}
  /\ DOMAIN gt = Buckets
  /\ pc # "start" => \A b \in Buckets : HeadOf(Filled, b) <= gh[b] /\ gh[b] <= gt[b]
  /\ i \in 0 .. Top
  /\ DOMAIN repairing \subseteq Buckets
  /\ pc \in Rounds => \A t \in Tids, b \in Buckets :
       HeadOf(Filled, b) <= head[t][b] /\ head[t][b] <= tail[t][b] /\ tail[t][b] <= gt[b]
  /\ \A t \in DOMAIN tasks : tasks[t].holding =>
       /\ tasks[t].bucket \in Buckets
       /\ tasks[t].head \in DOMAIN array
       /\ tasks[t].temp \in Value

\* No step loses an element or makes a second one of it, those in hand included
\* (msb_radix_parallel_in_place.c:87-97).
KeepsElements == [][SameElements(Filled, Filled')]_vars

\* The places a task of permute has still to fill are its own alone
\* (msb_radix_parallel_in_place.c:39-47).
PartsApart ==
  pc = "permute" =>
    \A t, u \in DOMAIN tasks, b, c \in Buckets : <<t, b>> # <<u, c>> =>
      (head[t][b] .. tail[t][b] - 1) \cap (head[u][c] .. tail[u][c] - 1) = {}

\* What is behind the head of a bucket, or of a part, has the byte of its bucket: repair
\* looks at nothing that permute has put there (msb_radix_parallel_in_place.c:134-156).
PlacedBehindHeads ==
  /\ pc # "sort_and_swap" => \A b \in Buckets : \A x \in HeadOf(Filled, b) .. gh[b] - 1 : Byte(x) = b
  /\ pc = "permute" => \A t \in Tids, b \in Buckets :
       \A x \in (IF t = 0 THEN gh[b] ELSE tail[t - 1][b]) .. head[t][b] - 1 : Byte(x) = b

\* In the end the elements are in the order of their bytes (two_step_sort.c:51).
ReturnsSorted == Returned => Sorted([x \in DOMAIN array |-> Byte(x)])

\* Each round places something, so that there is a last one
\* (msb_radix_parallel_in_place.c:195-211).
Termination == <>(pc \in {"return", "raced"})

\* "It ensures that elements are correctly positioned according to the provided bucket
\* indices" (msb_radix_parallel_in_place.c:112-113): each task of repair works on the
\* bucket it was created for.
RepairsItsOwnBucket == pc # "raced"

=============================================================================
