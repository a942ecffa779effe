--------------------------- MODULE SequentialCalls ---------------------------
(***************************************************************************)
(* The functions that have their array to themselves, each called once     *)
(* with any array and any range of it: the partition functions of          *)
(* commons/quicksort_common.c, which are compared with what their comments *)
(* say, the quicksort of src/baseline, and the radix sort with extra space.*)
(***************************************************************************)
EXTENDS BaselineQuicksort, LsbRadix

CONSTANTS N, Value

VARIABLES
  array,
  input,     \* the array before the call
  range,     \* the range it is called for
  called,    \* the function or its method, or "none" before the call
  index      \* what the call returns

vars == <<array, input, range, called, index>>

Index == 0 .. N - 1

Init ==
  /\ array \in [Index -> Value]
  /\ input = array
  /\ range \in {r \in [start : Index, end : Index] : r.start < r.end}
  /\ called = "none"
  /\ index = 0

Partition(method) ==
  /\ called = "none"
  /\ called' = method
  /\ LET p == partition(array, range, method) IN array' = p.array /\ index' = p.index
  /\ UNCHANGED <<input, range>>

\* The range of the baseline's calls does not include its high end.
Quicksort(method) ==
  /\ called = "none"
  /\ called' = method
  /\ LET r == Span(range.start, range.end + 1) IN
       \/ method = "FIRST" /\ array' = QuicksortFirst(array, r)
       \/ method = "PREDETERMINED" /\ \E pivot \in Value : array' = quicksort(array, r, pivot)
  /\ UNCHANGED <<input, range, index>>

\* It is given a size and no range.
RadixSort ==
  /\ called = "none"
  /\ range = [start |-> 0, end |-> N - 1]
  /\ called' = "LSB"
  /\ array' = msb_radix_sort_sequential_extra_space(array, array).input
  /\ UNCHANGED <<input, range, index>>

Stutter == called # "none" /\ UNCHANGED vars

Next ==
  \/ \E method \in {"LOMUTO", "HOARE"} : Partition(method)
  \/ \E method \in {"FIRST", "PREDETERMINED"} : Quicksort(method)
  \/ RadixSort
  \/ Stutter

Spec == Init /\ [][Next]_vars

-----------------------------------------------------------------------------
(* Correctness. *)

\* No call loses an element or touches one outside its range, although a scan of the
\* baseline's partition may run out of it (quicksort.c:66-68).
KeepsElements ==
  /\ SameElements(array, input)
  /\ \A i \in Index : ~Within(i, range) => array[i] = input[i]

\* "elements lesser than the pivot value are placed before it, and all elements greater
\* than or equal to the pivot value are placed after it"; the index is the pivot's
\* (quicksort_common.c:42-49).
LomutoSplits ==
  called = "LOMUTO" =>
    /\ Within(index, range)
    /\ array[index] = input[range.end]
    /\ \A i \in range.start .. index - 1 : array[i] < array[index]
    /\ \A i \in index .. range.end : array[i] >= array[index]

\* The index hoare_partition returns opens a right half of the range that is neither
\* empty nor all of it, and no element left of it is greater than one from it on.
\* (The index need not be the pivot's, which quicksort_common.c:15 says it is.)
HoareSplits ==
  called = "HOARE" =>
    /\ range.start < index /\ index <= range.end
    /\ \A i \in range.start .. index - 1, j \in index .. range.end : array[i] <= array[j]

\* Both partition functions split their range (quicksort_common.c:19-67).
PartitionsSplit == LomutoSplits /\ HoareSplits

\* The baseline's quicksort sorts its range around any first pivot, also one that is not
\* in it (quicksort.c:92-106), and the passes of the radix sort, each of which sorts by
\* one byte only, add up (lsb_radix_sequential_extra_space.c:56-73).
SortsRange ==
  called \in {"FIRST", "PREDETERMINED", "LSB"} =>
    \A i, j \in range.start .. range.end : i < j => array[i] <= array[j]

=============================================================================
