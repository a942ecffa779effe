------------------------------ MODULE Partition ------------------------------
(***************************************************************************)
(* The partition functions of commons/quicksort_common.c as operators: the *)
(* activation record of one call and the steps it takes, to be run by the  *)
(* processes of the modules that use them, and what such steps preserve.   *)
(*                                                                         *)
(* Indices are size_t: Dec(0) is SIZE_MAX, as in C.                        *)
(***************************************************************************)
EXTENDS Sorting, Sequences

CONSTANT SIZE_MAX    \* the largest size_t

ASSUME SizeAssumption == SIZE_MAX \in Nat

\* x - 1 on a size_t.
Dec(x) == IF x = 0 THEN SIZE_MAX ELSE x - 1

\* A sort_job_t, or the arguments of a call: both ends belong to the range.
SortJob(s, e) == [start |-> s, end |-> e]

Within(i, r) == r.start <= i /\ i <= r.end

-----------------------------------------------------------------------------
(* hoare_partition(array, start, end), entered with start < end. *)

Middle(r) == (r.start + r.end) \div 2

\* Mutant: leaves the pivot where it found it.
HoareArray_PivotNotParked(a, r) == a

\* The array and the activation record at the head of the for loop: the pivot
\* has been parked at end, where it stops the upward scan.
HoareArray(a, r) == Swap(a, r.end, Middle(r))

HoareFrame(a, r) ==
  [start |-> r.start, end |-> r.end, k |-> r.start, j |-> r.end, pivot |-> a[Middle(r)]]

\* What the call does next, decided by the elements under its two indices.
ScansUp(a, f)   == a[f.k] < f.pivot
ScansDown(a, f) == ~ScansUp(a, f) /\ a[f.j] > f.pivot
Stopped(a, f)   == ~ScansUp(a, f) /\ ~ScansDown(a, f)
\* Mutant: goes on when the indices meet.
Exchanges_WhenMet(a, f) == Stopped(a, f) /\ f.k <= f.j

Exchanges(a, f) == Stopped(a, f) /\ f.k < f.j
Returns(a, f)   == Stopped(a, f) /\ f.k >= f.j

AfterScanUp(f)   == [f EXCEPT !.k = f.k + 1]
AfterScanDown(f) == [f EXCEPT !.j = Dec(f.j)]
AfterExchange(f) == [f EXCEPT !.k = f.k + 1, !.j = Dec(f.j)]

\* Mutant: the left half keeps the element that opens the right half.
LeftOf_Overlaps(f) == SortJob(f.start, f.k)

\* The two ranges its callers sort next: the index it returns opens the right one.
LeftOf(f)  == SortJob(f.start, Dec(f.k))
RightOf(f) == SortJob(f.k, f.end)

-----------------------------------------------------------------------------
(* A function rs gives the ranges that some algorithm has still to sort, by where it *)
(* keeps them.                                                                       *)
Apart(r, q) == r.end < q.start \/ q.end < r.start

\* No element belongs to two of them.
PairwiseApart(rs) == \A p, q \in DOMAIN rs : p # q => Apart(rs[p], rs[q])

\* Any two elements in the wrong order belong to one of them.
CoverDisorder(rs, a) ==
  \A i, j \in DOMAIN a :
    i < j /\ a[i] > a[j] => \E p \in DOMAIN rs : Within(i, rs[p]) /\ Within(j, rs[p])

\* What hoare_partition knows while it scans: where its indices are, and how the
\* elements they have passed compare with the pivot.
HoareInvariant(a, f) ==
  /\ f.start < f.end
  /\ Within(f.k, f) /\ Within(f.j, f) /\ f.k <= f.j + 1
  /\ f.k = f.start => f.j = f.end
  /\ f.j = f.end => a[f.end] = f.pivot
  /\ \A i \in f.start .. f.k - 1 : a[i] <= f.pivot
  /\ \A i \in f.j + 1 .. f.end : a[i] >= f.pivot

=============================================================================
