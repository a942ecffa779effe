------------------------------ MODULE SortSpec -------------------------------
(***************************************************************************)
(* What every in-place sort of the repository promises its caller: until   *)
(* it returns it may rearrange the array, never lose or invent an element, *)
(* and when it returns the array is in order.                              *)
(***************************************************************************)
EXTENDS Sorting

CONSTANTS N, Value   \* the array's length, and what it may hold

VARIABLES array, done

Arrays == [0 .. N - 1 -> Value]

Init ==
  /\ array \in Arrays
  /\ done = FALSE

Rearrange ==
  /\ ~done
  /\ array' \in Arrays
  /\ SameElements(array, array')
  /\ UNCHANGED done

Return ==
  /\ ~done
  /\ Sorted(array)
  /\ done' = TRUE
  /\ UNCHANGED array

Next == Rearrange \/ Return

Spec == Init /\ [][Next]_<<array, done>>

=============================================================================
