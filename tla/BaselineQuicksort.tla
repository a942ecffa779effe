--------------------------- MODULE BaselineQuicksort --------------------------
(***************************************************************************)
(* The quicksort of src/baseline and of the UPMEM kernels, run by one      *)
(* thread: its ranges do not include their high end, its first partition   *)
(* is around a value that need not be in the array, and the others are     *)
(* around their first element.                                             *)
(***************************************************************************)
EXTENDS WholePartition

\* A range of the indices low .. high - 1.
Span(low, high) == [low |-> low, high |-> high]

-----------------------------------------------------------------------------
\* partition with PREDETERMINED: where the scans from i and from j come to rest.
Up(a, i, high, value) == Min({x \in i .. high : x = high \/ a[x] > value})
Down(a, j, value) == Max({x \in 0 .. j : x = 0 \/ a[x] <= value})

RECURSIVE TwoWay(_, _, _, _, _)
TwoWay(a, i, j, high, value) ==
  IF i >= j THEN [array |-> a, index |-> i]
  ELSE LET u == Up(a, i, high, value)
           d == Down(a, j, value)
       IN TwoWay(IF u < d THEN Swap(a, u, d) ELSE a, u, d, high, value)

PartitionPredetermined(a, r, value) == TwoWay(a, r.low, r.high - 1, r.high, value)

\* partition with FIRST: choose_first_pivot, whose swap with low changes nothing, and
\* one pass over the rest.
PartitionFirst(a, r) ==
  LET s == Gather(a, r.low + 1, Upwards(r.low + 1, r.high - 1), a[r.low])
  IN [array |-> Swap(s.array, r.low, s.index - 1), index |-> s.index - 1]

\* Mutant: leaves out the last element of the left half, as for a range with its end.
RECURSIVE QuicksortFirst_Closed(_, _)
QuicksortFirst_Closed(a, r) ==
  IF r.low >= r.high THEN a
  ELSE LET p == PartitionFirst(a, r)
       IN QuicksortFirst_Closed(QuicksortFirst_Closed(p.array, Span(r.low, p.index - 1)),
                                Span(p.index + 1, r.high))

\* quicksort with FIRST, ...
RECURSIVE QuicksortFirst(_, _)
QuicksortFirst(a, r) ==
  IF r.low >= r.high THEN a
  ELSE LET p == PartitionFirst(a, r)
       IN QuicksortFirst(QuicksortFirst(p.array, Span(r.low, p.index)), Span(p.index + 1, r.high))

\* ... and with PREDETERMINED, which goes on with FIRST.
quicksort(a, r, value) ==
  LET p == PartitionPredetermined(a, r, value)
  IN QuicksortFirst(QuicksortFirst(p.array, Span(r.low, p.index)), Span(p.index, r.high))

=============================================================================
