---------------------------- MODULE StackQuicksort ---------------------------
(***************************************************************************)
(* quicksort_stack_seq of commons/quicksort_common.c: quicksort with an    *)
(* array of range bounds in the place of the recursion, called for a whole *)
(* array.  It runs by itself, so a turn of its loop is one step.           *)
(***************************************************************************)
EXTENDS WholePartition

CONSTANTS N, Value,
  Methods    \* of LOMUTO and HOARE, those it is called with

VARIABLES
  array,
  method,
  bounds,   \* its local array, stack, as far as it has been written
  top,      \* the int64_t that points to the last entry in use
  pc

vars == <<array, method, bounds, top, pc>>

\* size_t stack[end - start + 1].
Size == N

InStack(i) == 0 <= i /\ i < Size

\* Nothing can be said of what follows a push beyond the array, "no_room", or a pop of
\* what was never pushed, "not_pushed".
Undefined(access) ==
  /\ pc' = access
  /\ UNCHANGED <<array, method, bounds, top>>

\* Writes the ends of the ranges rs after the entry from.
Push(rs, from) ==
  LET ends == FlattenSeq([n \in DOMAIN rs |-> <<rs[n].start, rs[n].end>>]) IN
  /\ \A n \in DOMAIN ends : InStack(from + n)
  /\ bounds' = [i \in {from + n : n \in DOMAIN ends} |-> ends[i - from]] @@ bounds
  /\ top' = from + Len(ends)

Init ==
  /\ array \in [0 .. N - 1 -> Value]
  /\ method \in Methods
  /\ bounds = <<>>
  /\ top = 0
  /\ pc = "enter"

\* Pushes the whole range.
Enter ==
  /\ pc = "enter"
  /\ \/ /\ Push(<<SortJob(0, N - 1)>>, top)
        /\ pc' = "loop"
        /\ UNCHANGED <<array, method>>
     \/ ~InStack(top + 2) /\ Undefined("no_room")

\* A turn of the loop pops a range, ...
InLoop == pc = "loop" /\ top >= 0
Popped == SortJob(bounds[top - 1], bounds[top])
Trivial == Popped.start >= Popped.end

\* ... which may not be there, ...
TurnUndefined ==
  /\ InLoop
  /\ \/ ~({top - 1, top} \subseteq DOMAIN bounds)
     \/ ~Trivial /\ Popped.end \notin DOMAIN array
  /\ Undefined("not_pushed")

\* ... or be trivial, ...
TurnTrivial ==
  /\ InLoop
  /\ {top - 1, top} \subseteq DOMAIN bounds
  /\ Trivial
  /\ top' = top - 2
  /\ UNCHANGED <<array, method, bounds, pc>>

\* ... or be partitioned, and one half or both are pushed.
TurnPartition ==
  /\ InLoop
  /\ {top - 1, top} \subseteq DOMAIN bounds
  /\ ~Trivial
  /\ Popped.end \in DOMAIN array
  /\ LET p == partition(array, Popped, method)
         left == IF p.index >= Popped.start THEN <<SortJob(Popped.start, Dec(p.index))>> ELSE <<>>
         right == IF p.index < Popped.end THEN <<SortJob(p.index, Popped.end)>> ELSE <<>>
     IN \/ /\ Push(left \o right, top - 2)
           /\ array' = p.array
           /\ UNCHANGED <<method, pc>>
        \/ /\ ~InStack(top - 2 + 2 * Len(left \o right))
           /\ Undefined("no_room")

Leave ==
  /\ pc = "loop"
  /\ top < 0
  /\ pc' = "return"
  /\ UNCHANGED <<array, method, bounds, top>>

Stutter == pc \in {"return", "no_room", "not_pushed"} /\ UNCHANGED vars

Next == Enter \/ TurnUndefined \/ TurnTrivial \/ TurnPartition \/ Leave \/ Stutter

Spec == Init /\ [][Next]_vars

\* The stack keeps the bounds of the ranges still to be sorted
\* (quicksort_common.c:121-122): every entry that is popped has been pushed.
StackKeepsBounds == pc # "not_pushed"

=============================================================================
