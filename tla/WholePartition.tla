---------------------------- MODULE WholePartition ---------------------------
(***************************************************************************)
(* The partition functions of commons/quicksort_common.c as their callers  *)
(* see them when no other thread has the array: a call is one step, which  *)
(* gives the array it leaves and the index it returns.                     *)
(***************************************************************************)
EXTENDS Partition, SequencesExt

\* from, from + 1, ..., to.
Upwards(from, to) == [n \in 1 .. to - from + 1 |-> from + n - 1]

\* hoare_partition, run to its end.
RECURSIVE HoareFrom(_, _)
HoareFrom(a, f) ==
  CASE ScansUp(a, f)   -> HoareFrom(a, AfterScanUp(f))
    [] ScansDown(a, f) -> HoareFrom(a, AfterScanDown(f))
    [] Exchanges(a, f) -> HoareFrom(Swap(a, f.k, f.j), AfterExchange(f))
    [] Returns(a, f)   -> [array |-> a, index |-> f.k]

hoare_partition(a, r) == HoareFrom(HoareArray(a, r), HoareFrame(a, r))

\* Elements below the pivot are moved to the front, index being the first place not
\* yet taken by one.
Gather(a, first, places, pivot) ==
  FoldLeft(LAMBDA s, j : IF s.array[j] < pivot
                         THEN [array |-> Swap(s.array, s.index, j), index |-> s.index + 1]
                         ELSE s,
           [array |-> a, index |-> first],
           places)

\* Mutant: the pivot, at the end of the range, is compared with itself too and is not
\* put in its place.
lomuto_partition_PivotLeft(a, r) == Gather(a, r.start, Upwards(r.start, r.end), a[r.end])

lomuto_partition(a, r) ==
  LET s == Gather(a, r.start, Upwards(r.start, r.end - 1), a[r.end])
  IN [array |-> Swap(s.array, s.index, r.end), index |-> s.index]

\* LOMUTO is also the default of the switch.
partition(a, r, method) ==
  IF method = "HOARE" THEN hoare_partition(a, r) ELSE lomuto_partition(a, r)

=============================================================================
