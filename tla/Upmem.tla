-------------------------------- MODULE Upmem --------------------------------
(***************************************************************************)
(* src/UPmem/multi_dpu: a host divides its buffer among DPUs, each of      *)
(* which sorts its part in its own memory, and merges what they send back. *)
(* src/UPmem/single_dpu gives the whole buffer to one DPU, with a random   *)
(* number for its pivot, and has nothing to merge.                         *)
(*                                                                         *)
(* A transfer is one step, for all DPUs, as dpu_push_xfer is; the kernels  *)
(* run in parallel, and each is one step because nobody else can see its   *)
(* memory before the launch, which is synchronous, is over.                *)
(***************************************************************************)
EXTENDS BaselineQuicksort

CONSTANTS
  NB_DPUS,
  DPU_BUFFER_SIZE,   \* elements of each DPU of multi_dpu
  MAX_RANDOM         \* the largest element

ASSUME UpmemAssumption ==
  NB_DPUS \in Nat \ {0} /\ DPU_BUFFER_SIZE \in Nat \ {0} /\ MAX_RANDOM \in Nat \ {0}

VARIABLES
  program,              \* which of the two
  buffer,               \* the host's array
  mram, pivot,          \* the memory of each DPU: its buffer and pre_determined_pivot
  running,              \* DPUs that have been launched and are not done
  sub_buffer_pointer,   \* the next element to merge from each part, or NULL
  sorted_buffer,        \* what has been merged
  pc                    \* the next step of the host

vars == <<program, buffer, mram, pivot, running, sub_buffer_pointer, sorted_buffer, pc>>

BUFFER_SIZE == NB_DPUS * DPU_BUFFER_SIZE
Dpus == IF program = "multi_dpu" THEN 0 .. NB_DPUS - 1 ELSE {0}
PartSize == IF program = "multi_dpu" THEN DPU_BUFFER_SIZE ELSE BUFFER_SIZE
Cells == 0 .. PartSize - 1
NULL == -1

\* Where a DPU's part of the host's buffer begins.
Begin(d) == d * PartSize

-----------------------------------------------------------------------------
\* fill_random_buffer.  The DPUs' memories hold nothing yet that can be in the buffer.
Init ==
  /\ program \in {"multi_dpu", "single_dpu"}
  /\ buffer \in [0 .. BUFFER_SIZE - 1 -> 1 .. MAX_RANDOM]
  /\ mram = [d \in Dpus |-> [i \in Cells |-> 0]]
  /\ pivot = [d \in Dpus |-> 0]
  /\ running = {}
  /\ sub_buffer_pointer = [d \in Dpus |-> NULL]
  /\ sorted_buffer = <<>>
  /\ pc = "populate"

Host(from, to) == pc = from /\ pc' = to /\ UNCHANGED program

populate_mram ==
  /\ Host("populate", "pivots")
  /\ mram' = [d \in Dpus |-> [i \in Cells |-> buffer[Begin(d) + i]]]
  /\ UNCHANGED <<buffer, pivot, running, sub_buffer_pointer, sorted_buffer>>

\* The first element of each part.
SendPivots ==
  /\ program = "multi_dpu"
  /\ Host("pivots", "launch")
  /\ pivot' = [d \in Dpus |-> buffer[Begin(d)]]
  /\ UNCHANGED <<buffer, mram, running, sub_buffer_pointer, sorted_buffer>>

\* rand() % MAX_RANDOM + 1.
SendRandomPivot ==
  /\ program = "single_dpu"
  /\ Host("pivots", "launch")
  /\ \E value \in 1 .. MAX_RANDOM : pivot' = [d \in Dpus |-> value]
  /\ UNCHANGED <<buffer, mram, running, sub_buffer_pointer, sorted_buffer>>

Launch ==
  /\ Host("launch", "retrieve")
  /\ running' = Dpus
  /\ UNCHANGED <<buffer, mram, pivot, sub_buffer_pointer, sorted_buffer>>

\* The kernel.
Kernel(d) ==
  /\ d \in running
  /\ mram' = [mram EXCEPT ![d] = quicksort(@, Span(0, PartSize), pivot[d])]
  /\ running' = running \ {d}
  /\ UNCHANGED <<program, buffer, pivot, sub_buffer_pointer, sorted_buffer, pc>>

\* The launch returns when every kernel is done; the parts come back to their places.
Returned == [i \in DOMAIN buffer |-> mram[i \div PartSize][i % PartSize]]

RetrieveOnly ==
  /\ program = "single_dpu"
  /\ running = {}
  /\ Host("retrieve", "print")
  /\ buffer' = Returned
  /\ UNCHANGED <<mram, pivot, running, sub_buffer_pointer, sorted_buffer>>

Retrieve ==
  /\ program = "multi_dpu"
  /\ running = {}
  /\ Host("retrieve", "merge")
  /\ buffer' = Returned
  /\ sub_buffer_pointer' = [d \in Dpus |-> Begin(d)]
  /\ UNCHANGED <<mram, pivot, running, sorted_buffer>>

\* The first of the least elements that the pointers point to.
Candidates == {d \in Dpus : sub_buffer_pointer[d] # NULL}
NextOf(d) == buffer[sub_buffer_pointer[d]]
MinIndex ==
  CHOOSE d \in Candidates : \A e \in Candidates :
    NextOf(d) < NextOf(e) \/ (NextOf(d) = NextOf(e) /\ d <= e)

\* Mutant: gives the pointer up one element early.
Following_Early(d) ==
  IF sub_buffer_pointer[d] + 2 >= Begin(d + 1) THEN NULL ELSE sub_buffer_pointer[d] + 1

\* The pointer is given up at the end of its part.
Following(d) ==
  IF sub_buffer_pointer[d] + 1 = Begin(d + 1) THEN NULL ELSE sub_buffer_pointer[d] + 1

Merge ==
  /\ pc = "merge"
  /\ Len(sorted_buffer) < BUFFER_SIZE
  /\ sorted_buffer' = Append(sorted_buffer, NextOf(MinIndex))
  /\ sub_buffer_pointer' = [sub_buffer_pointer EXCEPT ![MinIndex] = Following(MinIndex)]
  /\ UNCHANGED <<program, buffer, mram, pivot, running, pc>>

Done ==
  /\ Len(sorted_buffer) = BUFFER_SIZE
  /\ Host("merge", "done")
  /\ UNCHANGED <<buffer, mram, pivot, running, sub_buffer_pointer, sorted_buffer>>

\* What came back is the result.
print_buffer ==
  /\ Host("print", "done")
  /\ UNCHANGED <<buffer, mram, pivot, running, sub_buffer_pointer, sorted_buffer>>

Stutter == pc = "done" /\ UNCHANGED vars

Next ==
  \/ populate_mram \/ SendPivots \/ SendRandomPivot \/ Launch \/ Retrieve \/ RetrieveOnly
  \/ \E d \in Dpus : Kernel(d)
  \/ Merge \/ Done \/ print_buffer \/ Stutter

Spec == Init /\ [][Next]_vars

-----------------------------------------------------------------------------
(* Correctness. *)

\* The type invariant; a pointer stays in its DPU's part of the buffer (host.c:140-143).
TypeOK ==
  /\ program \in {"multi_dpu", "single_dpu"}
  /\ buffer \in [0 .. BUFFER_SIZE - 1 -> 1 .. MAX_RANDOM]
  /\ mram \in [Dpus -> [Cells -> 0 .. MAX_RANDOM]]
  /\ pivot \in [Dpus -> 0 .. MAX_RANDOM]
  /\ running \subseteq Dpus
  /\ \A d \in Dpus : sub_buffer_pointer[d] \in {NULL} \cup (Begin(d) .. Begin(d + 1) - 1)
  /\ sorted_buffer \in Seq(1 .. MAX_RANDOM)

\* The places of its part that a DPU's pointer has left behind; when it has been given
\* up, all of them.
Behind(d) ==
  Begin(d) .. (IF sub_buffer_pointer[d] = NULL THEN Begin(d + 1) ELSE sub_buffer_pointer[d]) - 1

\* The variables keep their types, and in every turn of the merge what has been merged is what the
\* pointers have left behind, each element as often as it is there: no pointer is given up
\* while there is something left of its part, so that there is one to follow, and min_index
\* does not stay -1, until the buffer is full.  What has been merged is in order, and not
\* above anything left (host.c:130-144).
MergedSoFar ==
  /\ TypeOK
  /\ program = "multi_dpu" /\ pc \in {"merge", "done"} =>
       /\ \A value \in 1 .. MAX_RANDOM :
            Cardinality({n \in DOMAIN sorted_buffer : sorted_buffer[n] = value}) =
            Cardinality({i \in UNION {Behind(d) : d \in Dpus} : buffer[i] = value})
       /\ Sorted([i \in 0 .. Len(sorted_buffer) - 1 |-> sorted_buffer[i + 1]])
       /\ \A n \in DOMAIN sorted_buffer, d \in Candidates : sorted_buffer[n] <= NextOf(d)

\* What has been merged, and behind it what is left of each part.
Rest(d) == IF sub_buffer_pointer[d] = NULL THEN <<>>
           ELSE [n \in 1 .. Begin(d + 1) - sub_buffer_pointer[d] |-> buffer[sub_buffer_pointer[d] + n - 1]]
Merged == sorted_buffer \o FlattenSeq([n \in 1 .. Cardinality(Dpus) |-> Rest(n - 1)])

\* Both programs sort: no element is lost or merged twice on its way through the DPUs,
\* and what the host tests or prints in the end is in order (multi_dpu host.c:49-55,
\* 121-149; single_dpu host.c:69-77).
Sort == INSTANCE SortSpec WITH
  array <- IF program = "multi_dpu" /\ pc \in {"merge", "done"} THEN [i \in DOMAIN buffer |-> Merged[i + 1]] ELSE buffer,
  done <- pc = "done",
  N <- BUFFER_SIZE,
  Value <- 1 .. MAX_RANDOM
ImplementsSortSpec == Sort!Spec

=============================================================================
