------------------------------- MODULE LsbRadix -------------------------------
(***************************************************************************)
(* msb_radix_sort_sequential_extra_space of                                *)
(* sorts/radix/lsb_radix_sequential_extra_space.c, which, whatever its     *)
(* name, goes from the least significant byte to the most: each pass puts  *)
(* the elements of one array into the other in the order of one byte, and  *)
(* leaves those with the same byte in the order the last pass has given    *)
(* them.                                                                   *)
(***************************************************************************)
EXTENDS Sorting, SequencesExt

CONSTANTS
  BYTE_VALUES,   \* 256 in the code
  PASSES         \* sizeof(T): an even number, so that the last pass writes to input

ASSUME LsbAssumption == BYTE_VALUES \in Nat \ {0} /\ PASSES \in Nat /\ PASSES % 2 = 0

byte(number, pass) == (number \div BYTE_VALUES ^ pass) % BYTE_VALUES

\* histogram_calc and prefix_calc: where the elements with a byte begin.
prefix(a, pass, b) == Cardinality({x \in DOMAIN a : byte(a[x], pass) < b})

\* Mutant: fills each byte's places from their end.
Place_Backwards(a, pass, x) ==
  prefix(a, pass, byte(a[x], pass))
    + Cardinality({y \in DOMAIN a : y > x /\ byte(a[y], pass) = byte(a[x], pass)})

\* They are placed one behind the other.
Place(a, pass, x) ==
  prefix(a, pass, byte(a[x], pass))
    + Cardinality({y \in DOMAIN a : y < x /\ byte(a[y], pass) = byte(a[x], pass)})

rearrange_values_prefix(a, pass) ==
  [p \in DOMAIN a |-> a[CHOOSE x \in DOMAIN a : Place(a, pass, x) = p]]

\* The pass with an odd number goes from output to input.
Pass(s, pass) ==
  IF pass % 2 = 1
  THEN [s EXCEPT !.input = rearrange_values_prefix(s.output, pass)]
  ELSE [s EXCEPT !.output = rearrange_values_prefix(s.input, pass)]

\* What the call leaves in its two arrays; the first pass overwrites all of output.
msb_radix_sort_sequential_extra_space(input, output) ==
  FoldLeft(Pass, [input |-> input, output |-> output], [n \in 1 .. PASSES |-> n - 1])

=============================================================================
