------------------------------- MODULE Sorting -------------------------------
(***************************************************************************)
(* What all sorts of the repository share: exchanging two elements, and    *)
(* what it means to keep and to sort the elements of an array.             *)
(***************************************************************************)
EXTENDS Integers, FiniteSets

\* Mutant: exchanges two elements without a temporary.
Swap_Overwrites(a, x, y) == [a EXCEPT ![x] = a[y]]

\* utils.h's SWAP.
Swap(a, x, y) == [a EXCEPT ![x] = a[y], ![y] = a[x]]

SameElements(a, b) ==
  /\ DOMAIN a = DOMAIN b
  /\ \A v \in {a[i] : i \in DOMAIN a} \cup {b[i] : i \in DOMAIN b} :
       Cardinality({i \in DOMAIN a : a[i] = v}) = Cardinality({i \in DOMAIN b : b[i] = v})

Sorted(a) == \A i, j \in DOMAIN a : i < j => a[i] <= a[j]

=============================================================================
