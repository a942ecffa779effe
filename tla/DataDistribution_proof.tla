------------------------ MODULE DataDistribution_proof ------------------------
(***************************************************************************)
(* dataDistribution sorts: for every workload and every division that the  *)
(* host's memory, its workers and their memory ask for, the parts of the   *)
(* workers cover the workload once, two elements in the wrong order are    *)
(* always in a part that is to be sorted or in a job that is to be merged, *)
(* and what is merged has the elements of the places it is merged from.    *)
(***************************************************************************)
EXTENDS DataDistribution, DataLemmas

(***************************************************************************)
(* Cutting numbers into intervals.                                         *)
(***************************************************************************)
LEMMA TimesInOrder ==
  ASSUME NEW a \in Nat, NEW b \in Nat, NEW c \in Nat, a <= b
  PROVE  a * c \in Nat /\ b * c \in Nat /\ a * c <= b * c
<1>1. PICK d \in Nat : b = a + d
  <2>1. b - a \in Nat /\ b = a + (b - a)
    OBVIOUS
  <2>2. QED BY <2>1
<1>2. b * c = a * c + d * c
  BY <1>1
<1>3. a * c \in Nat /\ b * c \in Nat /\ d * c \in Nat
  OBVIOUS
<1>4. QED BY <1>2, <1>3

LEMMA OneMoreTime ==
  ASSUME NEW a \in Nat, NEW c \in Nat
  PROVE  (a + 1) * c = a * c + c
OBVIOUS

\* As many full pieces as it takes.
LEMMA RoundedUp ==
  ASSUME NEW e \in Nat, NEW m \in Nat \ {0}
  PROVE  \E q \in Nat : q = (e + m - 1) \div m /\ e <= q * m /\ q * m < e + m
<1>1. PICK a \in Nat : a = e + m - 1
  OBVIOUS
<1>2. PICK q \in Nat : q = a \div m /\ m * q <= a /\ a < m * q + m
  BY Quotient
<1>3. m * q = q * m
  OBVIOUS
<1>4. PICK p \in Nat : p = q * m
  OBVIOUS
<1>5. p <= a /\ a < p + m
  BY <1>2, <1>3, <1>4
<1>6. e <= p /\ p < e + m
  BY <1>1, <1>5
<1>7. QED BY <1>1, <1>2, <1>4, <1>6

\* Between the first and the last cut every number has a place.
LEMMA BetweenCuts ==
  ASSUME NEW n \in Nat, NEW c \in [0 .. n -> Nat], NEW x \in Nat, c[0] <= x, x < c[n]
  PROVE  \E w \in 0 .. n - 1 : c[w] <= x /\ x < c[w + 1]
<1> DEFINE T == {w \in 0 .. n : x < c[w]}
<1>1. PICK t \in T : \A m \in T : t <= m
  <2>1. T \subseteq Nat /\ n \in T
    OBVIOUS
  <2> HIDE DEF T
  <2>2. QED BY <2>1, LeastNat
<1>2. t \in 0 .. n /\ x < c[t]
  BY <1>1
<1>3. t # 0
  <2>1. c[0] \in Nat
    OBVIOUS
  <2>2. QED BY <1>2, <2>1
<1>4. t - 1 \in 0 .. n - 1 /\ t - 1 \in 0 .. n /\ t - 1 \notin T /\ t - 1 + 1 = t
  <2>1. t - 1 \in 0 .. n - 1 /\ t - 1 \in 0 .. n /\ ~(t <= t - 1) /\ t - 1 + 1 = t
    BY <1>2, <1>3
  <2> HIDE DEF T
  <2>2. QED BY <1>1, <2>1
<1>5. ~(x < c[t - 1]) /\ c[t - 1] \in Nat
  BY <1>4
<1>6. QED BY <1>2, <1>4, <1>5

\* The parts s[0] .. s[k] cover the places before end, one behind the other.
Tiles(s, k, end) ==
  /\ k \in Nat /\ end \in Nat
  /\ DOMAIN s = 0 .. k
  /\ \A w \in 0 .. k : s[w] \in [input : Nat, element_in_partition : Nat]
  /\ PartEnd(s[k]) = end
  /\ \A w \in 0 .. k : PartEnd(s[w]) <= end
  /\ \A v, w \in 0 .. k : v < w => PartEnd(s[v]) <= s[w].input
  /\ \A x \in 0 .. end - 1 : \E w \in 0 .. k : x \in Places(s[w])

LEMMA CutsTile ==
  ASSUME NEW k \in Nat, NEW c \in [0 .. k + 1 -> Nat], c[0] = 0,
         \A v, w \in 0 .. k + 1 : v <= w => c[v] <= c[w],
         NEW s, DOMAIN s = 0 .. k, \A w \in 0 .. k : s[w] = Part(c[w], c[w + 1] - c[w])
  PROVE  Tiles(s, k, c[k + 1])
<1>1. ASSUME NEW w \in 0 .. k
      PROVE  /\ s[w].input = c[w] /\ PartEnd(s[w]) = c[w + 1]
             /\ s[w] \in [input : Nat, element_in_partition : Nat]
             /\ Places(s[w]) = c[w] .. c[w + 1] - 1
  <2>1. PICK a, b : a = c[w] /\ b = c[w + 1]
    OBVIOUS
  <2>2. w \in 0 .. k + 1 /\ w + 1 \in 0 .. k + 1 /\ w <= w + 1
    OBVIOUS
  <2>3. a \in Nat /\ b \in Nat /\ a <= b
    BY <2>1, <2>2
  <2>4. s[w] = Part(a, b - a)
    BY <2>1
  <2>5. s[w].input = a /\ s[w].element_in_partition = b - a
    BY <2>4 DEF Part
  <2>6. PartEnd(s[w]) = b
    BY <2>3, <2>5 DEF PartEnd
  <2>7. s[w] \in [input : Nat, element_in_partition : Nat]
    BY <2>3, <2>4 DEF Part
  <2>8. Places(s[w]) = a .. b - 1
    BY <2>5, <2>6 DEF Places
  <2>9. QED BY <2>1, <2>5, <2>6, <2>7, <2>8
<1>2. c[k + 1] \in Nat
  OBVIOUS
<1>3. PartEnd(s[k]) = c[k + 1]
  BY <1>1
<1>4. \A w \in 0 .. k : PartEnd(s[w]) <= c[k + 1]
  <2> TAKE w \in 0 .. k
  <2>1. w + 1 \in 0 .. k + 1 /\ k + 1 \in 0 .. k + 1 /\ w + 1 <= k + 1
    OBVIOUS
  <2>2. QED BY <1>1, <2>1
<1>5. \A v, w \in 0 .. k : v < w => PartEnd(s[v]) <= s[w].input
  <2> TAKE v, w \in 0 .. k
  <2>1. v + 1 \in 0 .. k + 1 /\ w \in 0 .. k + 1 /\ (v < w => v + 1 <= w)
    OBVIOUS
  <2>2. QED BY <1>1, <2>1
<1>6. \A x \in 0 .. c[k + 1] - 1 : \E w \in 0 .. k : x \in Places(s[w])
  <2> TAKE x \in 0 .. c[k + 1] - 1
  <2>1. PICK w \in 0 .. k : c[w] <= x /\ x < c[w + 1]
    <3>1. x \in Nat /\ c[0] <= x /\ x < c[k + 1] /\ k + 1 \in Nat /\ k + 1 - 1 = k
      BY <1>2
    <3>2. PICK n \in Nat : n = k + 1
      OBVIOUS
    <3>3. \E w \in 0 .. n - 1 : c[w] <= x /\ x < c[w + 1]
      BY <3>1, <3>2, BetweenCuts
    <3>4. QED BY <3>2, <3>3
  <2>2. PICK a \in Nat, b \in Nat : a = c[w] /\ b = c[w + 1]
    <3>1. w \in 0 .. k + 1 /\ w + 1 \in 0 .. k + 1
      OBVIOUS
    <3>2. c[w] \in Nat /\ c[w + 1] \in Nat
      BY <3>1
    <3>3. QED BY <3>2
  <2>3. x \in a .. b - 1
    BY <1>2, <2>1, <2>2
  <2>4. QED BY <1>1, <2>2, <2>3
<1>7. QED BY <1>1, <1>2, <1>3, <1>4, <1>5, <1>6 DEF Tiles

\* No place is in two parts, and what lies between two of a part is in it.
LEMMA TilesApart ==
  ASSUME NEW s, NEW k, NEW end, Tiles(s, k, end),
         NEW v \in 0 .. k, NEW w \in 0 .. k, NEW x \in Places(s[v]), NEW y \in Places(s[w])
  PROVE  /\ x \in 0 .. end - 1
         /\ x <= y => v <= w
         /\ x = y => v = w
<1>1. PICK a \in Nat, b \in Nat, c \in Nat, d \in Nat :
        a = s[v].input /\ b = s[v].element_in_partition /\ c = s[w].input /\ d = s[w].element_in_partition
  <2>1. s[v] \in [input : Nat, element_in_partition : Nat] /\ s[w] \in [input : Nat, element_in_partition : Nat]
    BY DEF Tiles
  <2>2. /\ s[v].input \in Nat /\ s[v].element_in_partition \in Nat
        /\ s[w].input \in Nat /\ s[w].element_in_partition \in Nat
    BY <2>1
  <2>3. QED BY <2>2
<1>2. PartEnd(s[v]) = a + b /\ PartEnd(s[w]) = c + d
  BY <1>1 DEF PartEnd
<1>3. Places(s[v]) = a .. (a + b) - 1 /\ Places(s[w]) = c .. (c + d) - 1
  BY <1>1, <1>2 DEF Places
<1>4. k \in Nat /\ end \in Nat /\ a + b <= end
  BY <1>2 DEF Tiles
<1>5. (v < w => a + b <= c) /\ (w < v => c + d <= a)
  BY <1>1, <1>2 DEF Tiles
<1>6. x \in a .. a + b - 1 /\ y \in c .. c + d - 1 /\ v \in Int /\ w \in Int
  BY <1>3, <1>4
<1>7. QED BY <1>4, <1>5, <1>6

(***************************************************************************)
(* The invariant.                                                          *)
(***************************************************************************)

\* The workload has been divided, or, in two_step_sort, is being divided.
SetUp == DOMAIN s1 # {}
LastPart == s1[cwp_id(s1)]

\* What the first level leaves, no step undoes.
InOrder(a) == \A x, y \in Index : x < y => get_h_at(a[x]) <= get_h_at(a[y])
BucketsInOrder == strategy = "two_step_sort" /\ SetUp => InOrder(array)

\* The parts of two_step_sort are full, except for the last.
FullParts(s, k, m) ==
  /\ k \in Nat /\ DOMAIN s = 0 .. k
  /\ \A w \in 0 .. k - 1 : s[w] = Part(w * m, m)
  /\ s[k] = Part(k * m, s[k].element_in_partition)
  /\ s[k].element_in_partition \in 0 .. m

PartsInv ==
  SetUp =>
    /\ cwp_id(s1) \in 0 .. host.worker_count - 1
    /\ PartEnd(LastPart) <= N
    /\ strategy = "two_step_sort" =>
         /\ FullParts(s1, cwp_id(s1), worker_mem_size_elems)
         /\ cwp_id(s1) # 0 => LastPart.element_in_partition > 0
    /\ strategy = "partition_and_merge" => s1 = [w \in 0 .. host.worker_count - 1 |-> EqualPart(w)]

Labels == {"start", "exit", "first_level", "partition", "init_props", "sort", "next_job", "merge",
           "return", "undefined", "overrun"}

\* Where the function is.
Phases ==
  /\ host \in Hosts /\ strategy \in Strategies /\ pc \in Labels
  /\ array \in [Index -> Value]
  /\ bucket \in 0 .. get_h_at(T_MAX) + 1
  /\ worker \in 0 .. host.worker_count
  /\ temp \in Seq(Value)
  /\ pc \in {"start", "first_level", "init_props"} => ~SetUp /\ bucket = 0
  /\ ~SetUp => m1 = <<>> /\ worker = 0
  /\ pc \in {"first_level", "partition"} => strategy = "two_step_sort"
  /\ pc = "init_props" => strategy = "partition_and_merge"
  /\ pc = "partition" => SetUp /\ worker = 0 /\ PartEnd(LastPart) = BucketStart(bucket)
  /\ Divided => SetUp /\ PartEnd(LastPart) = N
  /\ pc \in {"next_job", "merge", "return"} => worker \notin DOMAIN s1
  /\ pc \notin {"merge", "overrun"} => ptrs = <<>>
  /\ pc \notin {"merge", "return"} => temp = <<>>
  /\ pc = "return" /\ strategy = "two_step_sort" => m1 = <<>>

\* The parts of the workers that have had their turn.
PartsSorted ==
  \A w \in DOMAIN s1 : w < worker =>
    /\ s1[w].element_in_partition > 0
    /\ \A x, y \in Places(s1[w]) : x < y => array[x] <= array[y]

\* A job begins in the part of its first worker and ends in that of its last.
JobRecords == [w_first : Nat, w_last : Nat, start : Nat, end : Nat]
JobPlaces(j) == j.start .. j.end - 1
JobFits(j, s) ==
  /\ j \in JobRecords
  /\ j.start < j.end /\ j.end <= N
  /\ j.w_first < j.w_last
  /\ j.w_first \in DOMAIN s /\ j.start \in Places(s[j.w_first])
  /\ j.w_last - 1 \in DOMAIN s /\ j.end - 1 \in Places(s[j.w_last - 1])

\* A job of two_step_sort merges one bucket.
IsBucket(j, a) == \E h \in Hs : \A x \in Index : x \in JobPlaces(j) <=> get_h_at(a[x]) = h

JobsInv ==
  /\ m1 \in Seq(JobRecords)
  /\ strategy = "two_step_sort" => \A n \in DOMAIN m1 : JobFits(m1[n], s1) /\ IsBucket(m1[n], array)
  /\ strategy = "partition_and_merge" /\ SetUp => m1 = <<Job(0, host.worker_count, 0, N)>>

\* Two places with elements in the wrong order are in one part or one job.
HeldTogether ==
  SetUp => \A x, y \in Index : x < y /\ y < PartEnd(LastPart) /\ array[x] > array[y] =>
    \/ \E w \in DOMAIN s1 : w >= worker /\ {x, y} \subseteq Places(s1[w])
    \/ \E n \in DOMAIN m1 : {x, y} \subseteq JobPlaces(m1[n])

\* What is left to merge of the part of a job's worker, and of all its workers.
SegmentEnd(s, jb, j) == Least(PartEnd(s[jb.w_first + j]), jb.end)
Left(s, jb, p, j) == IF p[j] = NULL THEN {} ELSE p[j] .. SegmentEnd(s, jb, j) - 1
Remaining(s, jb, p) == UNION {Left(s, jb, p, j) : j \in 0 .. ptr_size(jb) - 1}

\* The pointers stay in their parts, and in the first of them behind the job's start.
PtrsFit(s, jb, p) ==
  /\ DOMAIN p = 0 .. ptr_size(jb) - 1
  /\ \A j \in DOMAIN p : p[j] # NULL =>
       p[j] \in Places(s[jb.w_first + j]) /\ jb.start <= p[j]

\* What is left comes behind what has been merged, and is all the rest.  Where a pointer has
\* been lost to an element that the merge takes for none, enough of these elements are left.
MergedSoFar(a, jb, t, rest) ==
  /\ Sorted(t)
  /\ \A k \in DOMAIN t : (\A x \in rest : t[k] <= a[x]) /\ (\E x \in JobPlaces(jb) : t[k] = a[x])
  /\ Len(t) <= jb.end - jb.start
  /\ Len(t) + Cardinality(rest) >= jb.end - jb.start
  /\ Len(t) + Cardinality(rest) > jb.end - jb.start => \A x \in rest : a[x] = T_MAX

MergeInv ==
  /\ pc = "merge" => /\ m1 # <<>> /\ JobFits(job, s1) /\ PtrsFit(s1, job, ptrs)
                     /\ MergedSoFar(array, job, temp, Remaining(s1, job, ptrs))
  /\ pc = "overrun" => m1 # <<>> /\ PtrsFit(s1, job, ptrs)

\* Given enough memory, nothing but a small host or a small workload ends the function early.
SizeInv ==
  N <= host.worker_count * worker_mem_size_elems =>
    /\ pc = "exit" => ~Admitted
    /\ pc = "undefined" => strategy = "partition_and_merge" /\ N < host.worker_count

IInv == Phases /\ PartsInv /\ BucketsInOrder /\ PartsSorted /\ JobsInv /\ HeldTogether /\ MergeInv /\ SizeInv

(***************************************************************************)
(* The parts.                                                              *)
(***************************************************************************)
LEMMA HostFacts ==
  ASSUME host \in Hosts
  PROVE  /\ N \in Nat \ {0} /\ T_MAX \in Nat /\ LOW \in Nat \ {0} /\ Value \subseteq 0 .. T_MAX
         /\ host.worker_count \in Nat \ {0} /\ worker_mem_size_elems \in Nat \ {0}
         /\ host.worker_mem_size \in Nat /\ worker_mem_size_elems <= host.worker_mem_size
<1>1. /\ N \in Nat \ {0} /\ T_MAX \in Nat /\ LOW \in Nat \ {0} /\ Value \subseteq 0 .. T_MAX
      /\ host.worker_count \in Nat \ {0} /\ worker_mem_size_elems \in Nat \ {0}
      /\ host.worker_mem_size \in Nat /\ SIZEOF_T \in Nat \ {0}
  BY DistributionAssumption DEF worker_mem_size_elems
<1>2. worker_mem_size_elems <= host.worker_mem_size
  <2>1. PICK a \in Nat, d \in Nat, q \in Nat :
          a = host.worker_mem_size /\ d + 1 = SIZEOF_T /\ q = worker_mem_size_elems
    <3>1. SIZEOF_T - 1 \in Nat /\ SIZEOF_T - 1 + 1 = SIZEOF_T
      BY <1>1
    <3>2. QED BY <1>1, <3>1
  <2>2. q = a \div (d + 1) /\ d + 1 \in Nat \ {0}
    BY <1>1, <2>1 DEF worker_mem_size_elems, W
  <2>3. (d + 1) * q <= a
    BY <2>2, Quotient
  <2>4. (d + 1) * q = d * q + q /\ d * q \in Nat
    OBVIOUS
  <2>5. PICK e \in Nat : e = d * q
    BY <2>4
  <2>6. q <= a
    BY <2>3, <2>4, <2>5
  <2>7. QED BY <2>1, <2>6
<1>3. QED BY <1>1, <1>2

LEMMA LastOfParts ==
  ASSUME NEW s, NEW k \in Nat, DOMAIN s = 0 .. k
  PROVE  cwp_id(s) = k
<1>1. 0 \in Int /\ k \in Int
  OBVIOUS
<1>2. Cardinality(0 .. k) = IF 0 > k THEN 0 ELSE k - 0 + 1
  BY <1>1, FS_Interval
<1>3. Cardinality(DOMAIN s) = k + 1
  BY <1>2
<1>4. QED BY <1>3 DEF cwp_id

LEMMA FullPartsTile ==
  ASSUME NEW s, NEW k, NEW m \in Nat \ {0}, FullParts(s, k, m)
  PROVE  /\ Tiles(s, k, k * m + s[k].element_in_partition)
         /\ k * m \in Nat
<1>1. k \in Nat /\ DOMAIN s = 0 .. k
  BY DEF FullParts
<1>2. PICK e \in Nat : e = s[k].element_in_partition /\ e <= m
  BY DEF FullParts
<1>3. \A w \in Nat : w * m \in Nat
  OBVIOUS
<1> DEFINE c == [w \in 0 .. k + 1 |-> IF w <= k THEN w * m ELSE k * m + e]
<1>4. \A w \in 0 .. k : c[w] = w * m
  BY <1>1
<1>5. c[k + 1] = k * m + e
  BY <1>1
<1>6. c \in [0 .. k + 1 -> Nat]
  BY <1>1, <1>3
<1> HIDE DEF c
<1>7. \A v, w \in 0 .. k + 1 : v <= w => c[v] <= c[w]
  <2> SUFFICES ASSUME NEW v \in 0 .. k + 1, NEW w \in 0 .. k + 1, v <= w
               PROVE  c[v] <= c[w]
    OBVIOUS
  <2>1. CASE w \in 0 .. k
    <3>1. v \in 0 .. k /\ v \in Nat /\ w \in Nat
      BY <1>1, <2>1
    <3>2. v * m <= w * m
      BY <3>1, TimesInOrder
    <3>3. QED BY <1>4, <2>1, <3>1, <3>2
  <2>2. CASE w = k + 1 /\ v \in 0 .. k
    <3>1. v * m \in Nat /\ k * m \in Nat /\ v * m <= k * m
      BY <1>1, <2>2, TimesInOrder
    <3>2. PICK p \in Nat, q \in Nat : p = v * m /\ q = k * m
      BY <3>1
    <3>3. p <= q + e
      BY <3>1, <3>2
    <3>4. QED BY <1>4, <1>5, <2>2, <3>2, <3>3
  <2>3. CASE v = k + 1 /\ w = k + 1
    <3>1. c[w] \in Nat
      BY <1>6
    <3>2. QED BY <2>3, <3>1
  <2>4. QED BY <1>1, <2>1, <2>2, <2>3
<1>8. c[0] = 0
  BY <1>1, <1>4
<1>9. \A w \in 0 .. k : s[w] = Part(c[w], c[w + 1] - c[w])
  <2> TAKE w \in 0 .. k
  <2>1. CASE w = k
    <3>1. PICK q \in Nat : q = k * m
      BY <1>1, <1>3
    <3>2. q + e - q = e
      OBVIOUS
    <3>3. s[w] = Part(k * m, e)
      BY <1>2, <2>1 DEF FullParts
    <3>4. QED BY <1>4, <1>5, <2>1, <3>1, <3>2, <3>3
  <2>2. CASE w # k
    <3>1. w \in 0 .. k - 1 /\ w + 1 \in 0 .. k /\ w \in Nat
      BY <1>1, <2>2
    <3>2. PICK q \in Nat : q = w * m
      BY <1>3, <3>1
    <3>3. (w + 1) * m = q + m
      BY <3>1, <3>2, OneMoreTime
    <3>4. q + m - q = m
      OBVIOUS
    <3>5. s[w] = Part(w * m, m)
      BY <3>1 DEF FullParts
    <3>6. QED BY <1>4, <3>1, <3>2, <3>3, <3>4, <3>5
  <2>3. QED BY <2>1, <2>2
<1>10. Tiles(s, k, c[k + 1])
  BY <1>1, <1>6, <1>7, <1>8, <1>9, CutsTile
<1>11. QED BY <1>1, <1>2, <1>3, <1>5, <1>10

\* Where the w-th of n equal parts begins.
Cut(n, w) == w * (N \div n) + (IF w < N % n THEN w ELSE N % n)

LEMMA CutsInOrder ==
  ASSUME N \in Nat, NEW n \in Nat \ {0}
  PROVE  /\ Cut(n, 0) = 0 /\ Cut(n, n) = N
         /\ \A w \in Nat : Cut(n, w) \in Nat /\ Cut(n, w) <= Cut(n, w + 1)
         /\ \A v, w \in Nat : v <= w => Cut(n, v) <= Cut(n, w)
         /\ \A w \in Nat : Cut(n, w + 1) = Cut(n, w) + (N \div n) + (IF w < N % n THEN 1 ELSE 0)
<1>1. PICK q \in Nat, r \in Nat : q = N \div n /\ r = N % n /\ r < n /\ N = n * q + r
  BY Quotient
<1>2. \A w : Cut(n, w) = w * q + (IF w < r THEN w ELSE r)
  BY <1>1 DEF Cut
<1>3. Cut(n, 0) = 0
  <2>1. 0 * q = 0 /\ (IF 0 < r THEN 0 ELSE r) = 0
    BY <1>1
  <2>2. QED BY <1>2, <2>1
<1>4. Cut(n, n) = N
  <2>1. (IF n < r THEN n ELSE r) = r
    BY <1>1
  <2>2. Cut(n, n) = n * q + r
    BY <1>2, <2>1
  <2>3. QED BY <1>1, <2>2
<1>5. ASSUME NEW v \in Nat, NEW w \in Nat, v <= w
      PROVE  Cut(n, v) \in Nat /\ Cut(n, w) \in Nat /\ Cut(n, v) <= Cut(n, w)
  <2>1. v * q \in Nat /\ w * q \in Nat /\ v * q <= w * q
    BY <1>5, TimesInOrder
  <2>2. PICK a \in Nat, b \in Nat : a = v * q /\ b = w * q
    BY <2>1
  <2>3. Cut(n, v) = a + (IF v < r THEN v ELSE r) /\ Cut(n, w) = b + (IF w < r THEN w ELSE r)
    BY <1>2, <2>2
  <2>4. PICK c \in Nat, d \in Nat : c = (IF v < r THEN v ELSE r) /\ d = (IF w < r THEN w ELSE r)
    OBVIOUS
  <2>5. c <= d
    BY <1>5, <2>4
  <2>6. QED BY <2>1, <2>2, <2>3, <2>4, <2>5
<1>6. ASSUME NEW w \in Nat
      PROVE  Cut(n, w + 1) = Cut(n, w) + (N \div n) + (IF w < N % n THEN 1 ELSE 0)
  <2>1. PICK a \in Nat : a = w * q
    OBVIOUS
  <2>2. (w + 1) * q = a + q
    BY <2>1, OneMoreTime
  <2>3. Cut(n, w) = a + (IF w < r THEN w ELSE r) /\ Cut(n, w + 1) = a + q + (IF w + 1 < r THEN w + 1 ELSE r)
    BY <1>2, <2>1, <2>2
  <2>4. (IF w + 1 < r THEN w + 1 ELSE r) = (IF w < r THEN w ELSE r) + (IF w < r THEN 1 ELSE 0)
    OBVIOUS
  <2>5. QED BY <1>1, <2>3, <2>4
<1>7. \A w \in Nat : Cut(n, w) \in Nat /\ Cut(n, w) <= Cut(n, w + 1)
  <2> TAKE w \in Nat
  <2>1. w + 1 \in Nat /\ w <= w + 1
    OBVIOUS
  <2>2. QED BY <1>5, <2>1
<1>8. QED BY <1>3, <1>4, <1>5, <1>6, <1>7

LEMMA EqualPartsTile ==
  ASSUME host \in Hosts, NEW s, s = [w \in 0 .. host.worker_count - 1 |-> EqualPart(w)]
  PROVE  /\ Tiles(s, host.worker_count - 1, N)
         /\ cwp_id(s) = host.worker_count - 1
<1>1. PICK n \in Nat \ {0} : n = host.worker_count
  BY HostFacts
<1>2. PICK k \in Nat : k = n - 1 /\ k + 1 = n
  OBVIOUS
<1>3. N \in Nat
  BY HostFacts
<1> DEFINE c == [w \in 0 .. k + 1 |-> Cut(n, w)]
<1>4. /\ \A w \in 0 .. k + 1 : c[w] = Cut(n, w) /\ w \in Nat
      /\ k + 1 \in 0 .. k + 1 /\ 0 \in 0 .. k + 1
  OBVIOUS
<1>5. c \in [0 .. k + 1 -> Nat]
  <2>1. \A w \in Nat : Cut(n, w) \in Nat
    BY <1>3, CutsInOrder, Zenon
  <2>2. \A w \in 0 .. k + 1 : Cut(n, w) \in Nat
    BY <1>4, <2>1, Zenon
  <2>3. QED BY <2>2
<1> HIDE DEF c
<1>6. \A v, w \in 0 .. k + 1 : v <= w => c[v] <= c[w]
  <2>1. \A v, w \in Nat : v <= w => Cut(n, v) <= Cut(n, w)
    BY <1>3, CutsInOrder, Zenon
  <2>2. QED BY <1>4, <2>1, Zenon
<1>7. c[0] = 0 /\ c[k + 1] = N
  BY <1>2, <1>3, <1>4, CutsInOrder
<1>8. DOMAIN s = 0 .. k
  BY <1>1, <1>2
<1>9. \A w \in 0 .. k : s[w] = Part(c[w], c[w + 1] - c[w])
  <2> TAKE w \in 0 .. k
  <2>1. w \in Nat /\ w \in 0 .. k + 1 /\ w + 1 \in 0 .. k + 1 /\ w \in 0 .. n - 1
    BY <1>2
  <2>2. s[w] = EqualPart(w)
    BY <1>1, <2>1
  <2>3. PICK q \in Nat, r \in Nat : q = N \div n /\ r = N % n
    <3>1. N \div n \in Nat /\ N % n \in Nat
      BY <1>3
    <3>2. QED BY <3>1
  <2>4. s[w] = Part(w * q + (IF w < r THEN w ELSE r), q + (IF w < r THEN 1 ELSE 0))
    BY <1>1, <2>2, <2>3 DEF EqualPart
  <2>5. c[w] = w * q + (IF w < r THEN w ELSE r)
    BY <1>4, <2>1, <2>3 DEF Cut
  <2>6. c[w + 1] = c[w] + q + (IF w < r THEN 1 ELSE 0)
    BY <1>3, <1>4, <2>1, <2>3, CutsInOrder
  <2>7. PICK a \in Nat, b \in Nat : a = c[w] /\ b = (IF w < r THEN 1 ELSE 0)
    BY <1>5, <2>1
  <2>8. a + q + b - a = q + b
    OBVIOUS
  <2>9. c[w + 1] - c[w] = q + b
    BY <2>6, <2>7, <2>8
  <2>10. QED BY <2>4, <2>5, <2>7, <2>9
<1>10. Tiles(s, k, c[k + 1])
  BY <1>5, <1>6, <1>7, <1>8, <1>9, CutsTile
<1>11. QED BY <1>1, <1>2, <1>7, <1>8, <1>10, LastOfParts

\* The parts cover the places up to the end of the last, one behind the other.
LEMMA PartsTile ==
  ASSUME Phases, PartsInv, SetUp
  PROVE  /\ Tiles(s1, cwp_id(s1), PartEnd(LastPart))
         /\ PartEnd(LastPart) \in 0 .. N
         /\ cwp_id(s1) \in 0 .. host.worker_count - 1
<1>1. host \in Hosts /\ strategy \in Strategies
  BY DEF Phases
<1>2. PICK k : k = cwp_id(s1)
  OBVIOUS
<1>3. k \in 0 .. host.worker_count - 1 /\ PartEnd(LastPart) <= N /\ N \in Nat
  BY <1>1, <1>2, HostFacts DEF PartsInv
<1>4. Tiles(s1, k, PartEnd(LastPart))
  <2>1. CASE strategy = "two_step_sort"
    <3>1. PICK m \in Nat \ {0} : m = worker_mem_size_elems
      BY <1>1, HostFacts
    <3>2. FullParts(s1, k, m)
      BY <1>2, <2>1, <3>1 DEF PartsInv
    <3>3. s1[k] = Part(k * m, s1[k].element_in_partition)
      BY <3>2 DEF FullParts
    <3>4. PartEnd(s1[k]) = k * m + s1[k].element_in_partition
      <4>1. s1[k].input = k * m
        BY <3>3 DEF Part
      <4>2. QED BY <4>1 DEF PartEnd
    <3>5. QED BY <1>2, <3>2, <3>4, FullPartsTile DEF LastPart
  <2>2. CASE strategy = "partition_and_merge"
    <3>1. s1 = [w \in 0 .. host.worker_count - 1 |-> EqualPart(w)]
      BY <2>2 DEF PartsInv
    <3>2. Tiles(s1, host.worker_count - 1, N) /\ k = host.worker_count - 1
      BY <1>1, <1>2, <3>1, EqualPartsTile
    <3>3. Tiles(s1, k, N)
      BY <3>2
    <3>4. PartEnd(s1[k]) = N
      BY <3>3 DEF Tiles
    <3>5. QED BY <1>2, <3>3, <3>4 DEF LastPart
  <2>3. QED BY <1>1, <2>1, <2>2 DEF Strategies
<1>5. PartEnd(LastPart) \in Nat
  BY <1>4 DEF Tiles
<1>6. QED BY <1>2, <1>3, <1>4, <1>5

(***************************************************************************)
(* The buckets.                                                            *)
(***************************************************************************)
LEMMA ConstantFacts ==
  /\ N \in Nat \ {0} /\ T_MAX \in Nat /\ LOW \in Nat \ {0} /\ Value \subseteq 0 .. T_MAX
  /\ get_h_at(T_MAX) \in Nat
<1>1. N \in Nat \ {0} /\ T_MAX \in Nat /\ LOW \in Nat \ {0} /\ Value \subseteq 0 .. T_MAX
  BY DistributionAssumption
<1>2. T_MAX \div LOW \in Nat
  BY <1>1, Quotient
<1>3. QED BY <1>1, <1>2 DEF get_h_at

LEMMA BucketOfValue ==
  ASSUME NEW u \in Value
  PROVE  /\ u \in 0 .. T_MAX /\ get_h_at(u) \in Nat /\ get_h_at(u) <= get_h_at(T_MAX)
         /\ \A v \in Value : u <= v => get_h_at(u) <= get_h_at(v)
<1>1. Value \subseteq 0 .. T_MAX /\ T_MAX \in Nat
  BY ConstantFacts
<1>2. u \in 0 .. T_MAX
  BY <1>1
<1>3. u \in Nat /\ u <= T_MAX
  BY <1>1, <1>2
<1>4. PICK d \in Nat \ {0} : d = LOW
  BY ConstantFacts
<1>5. get_h_at(u) \in Nat
  <2>1. u \div d \in Nat
    BY <1>3, Quotient
  <2>2. QED BY <1>4, <2>1 DEF get_h_at
<1>6. get_h_at(u) <= get_h_at(T_MAX)
  <2>1. u \div d <= T_MAX \div d
    BY <1>1, <1>3, QuotientsInOrder
  <2>2. QED BY <1>4, <2>1 DEF get_h_at
<1>7. ASSUME NEW v \in Value, u <= v
      PROVE  get_h_at(u) <= get_h_at(v)
  <2>1. v \in Nat
    BY <1>1
  <2>2. u \div d <= v \div d
    BY <1>3, <1>7, <2>1, QuotientsInOrder
  <2>3. QED BY <1>4, <2>2 DEF get_h_at
<1>8. QED BY <1>2, <1>5, <1>6, <1>7

\* Only elements of one bucket can be in the wrong order.
LEMMA SameBucket ==
  ASSUME NEW a \in [Index -> Value], InOrder(a), NEW x \in Index, NEW y \in Index, x < y, a[x] > a[y]
  PROVE  get_h_at(a[x]) = get_h_at(a[y])
<1>1. PICK u \in Value, v \in Value : u = a[x] /\ v = a[y]
  OBVIOUS
<1>2. u \in Int /\ v \in Int
  BY <1>1, BucketOfValue
<1>3. v <= u
  BY <1>1, <1>2
<1>4. get_h_at(v) <= get_h_at(u) /\ get_h_at(u) \in Nat /\ get_h_at(v) \in Nat
  BY <1>3, BucketOfValue
<1>5. get_h_at(u) <= get_h_at(v)
  BY <1>1 DEF InOrder
<1>6. QED BY <1>1, <1>4, <1>5

LEMMA BucketBounds ==
  ASSUME array \in [Index -> Value], InOrder(array), NEW h \in Nat
  PROVE  /\ BucketEnd(h) \in 0 .. N
         /\ \A x \in Index : x < BucketEnd(h) <=> get_h_at(array[x]) <= h
<1> DEFINE S == {x \in Index : get_h_at(array[x]) <= h}
<1>1. N \in Nat
  BY ConstantFacts
<1>2. S \subseteq 0 .. N - 1
  BY DEF Index
<1>3. \A x \in S : \A y \in 0 .. N - 1 : y < x => y \in S
  <2> SUFFICES ASSUME NEW x \in S, NEW y \in 0 .. N - 1, y < x
               PROVE  y \in S
    OBVIOUS
  <2>1. x \in Index /\ y \in Index /\ get_h_at(array[x]) <= h
    BY DEF Index
  <2>2. get_h_at(array[y]) <= get_h_at(array[x])
    BY <2>1 DEF InOrder
  <2>3. PICK g \in Nat, f \in Nat : g = get_h_at(array[x]) /\ f = get_h_at(array[y])
    <3>1. array[x] \in Value /\ array[y] \in Value
      BY <2>1
    <3>2. get_h_at(array[x]) \in Nat /\ get_h_at(array[y]) \in Nat
      BY <3>1, BucketOfValue
    <3>3. QED BY <3>2
  <2>4. get_h_at(array[y]) <= h
    BY <2>1, <2>2, <2>3
  <2>5. QED BY <2>1, <2>4
<1> HIDE DEF S
<1>4. PICK c : c = Cardinality(S)
  OBVIOUS
<1>5. c \in 0 .. N /\ S = 0 .. c - 1
  BY <1>1, <1>2, <1>3, <1>4, InitialSegment
<1>6. BucketEnd(h) = c
  BY <1>4 DEF BucketEnd, S
<1>7. \A x \in Index : x \in S <=> get_h_at(array[x]) <= h
  BY DEF S
<1>8. \A x \in Index : x \in S <=> x < c
  BY <1>1, <1>5 DEF Index
<1>9. QED BY <1>5, <1>6, <1>7, <1>8

\* Where a bucket is.
LEMMA BucketPlaces ==
  ASSUME array \in [Index -> Value], InOrder(array), NEW h \in Nat
  PROVE  /\ BucketStart(h) \in 0 .. N /\ BucketEnd(h) \in BucketStart(h) .. N
         /\ \A x \in Index : x \in BucketStart(h) .. BucketEnd(h) - 1 <=> get_h_at(array[x]) = h
<1>1. N \in Nat
  BY ConstantFacts
<1>2. PICK c : c = BucketEnd(h)
  OBVIOUS
<1>3. c \in 0 .. N /\ \A x \in Index : x < c <=> get_h_at(array[x]) <= h
  BY <1>2, BucketBounds
<1>4. \A x \in Index : get_h_at(array[x]) \in Nat
  BY BucketOfValue
<1>5. PICK b : b = BucketStart(h)
  OBVIOUS
<1>6. b \in 0 .. N /\ \A x \in Index : x < b <=> get_h_at(array[x]) < h
  <2>1. CASE h = 0
    <3>1. b = 0
      BY <1>5, <2>1 DEF BucketStart
    <3>2. \A x \in Index : ~(x < 0) /\ ~(get_h_at(array[x]) < 0)
      BY <1>1, <1>4 DEF Index
    <3>3. QED BY <1>1, <2>1, <3>1, <3>2
  <2>2. CASE h # 0
    <3>1. PICK g \in Nat : g = h - 1
      BY <2>2
    <3>2. b = BucketEnd(g)
      BY <1>5, <2>2, <3>1 DEF BucketStart
    <3>3. b \in 0 .. N /\ \A x \in Index : x < b <=> get_h_at(array[x]) <= g
      BY <3>2, BucketBounds
    <3>4. \A f \in Nat : f <= g <=> f < h
      BY <3>1
    <3>5. QED BY <1>4, <3>3, <3>4
  <2>3. QED BY <2>1, <2>2
<1>7. b <= c
  <2> SUFFICES ASSUME c < b
               PROVE  FALSE
    BY <1>3, <1>6
  <2>1. c \in Index
    BY <1>1, <1>3, <1>6 DEF Index
  <2>2. get_h_at(array[c]) < h /\ ~(get_h_at(array[c]) <= h)
    BY <1>3, <1>6, <2>1
  <2>3. QED BY <1>4, <2>1, <2>2
<1>8. \A x \in Index : x \in b .. c - 1 <=> get_h_at(array[x]) = h
  <2> TAKE x \in Index
  <2>1. PICK f \in Nat : f = get_h_at(array[x])
    BY <1>4
  <2>2. (x < c <=> f <= h) /\ (x < b <=> f < h)
    BY <1>3, <1>6, <2>1
  <2>3. x \in Int /\ b \in Int /\ c \in Int
    BY <1>3, <1>6, <1>1 DEF Index
  <2>4. x \in b .. c - 1 <=> f = h
    BY <2>2, <2>3
  <2>5. QED BY <2>1, <2>4
<1>9. c \in b .. N
  BY <1>3, <1>6, <1>7
<1>10. QED BY <1>2, <1>5, <1>6, <1>8, <1>9

LEMMA BucketsFollow ==
  ASSUME array \in [Index -> Value], InOrder(array)
  PROVE  /\ \A h \in Nat : BucketStart(h + 1) = BucketEnd(h)
         /\ BucketStart(get_h_at(T_MAX) + 1) = N
<1>1. ASSUME NEW h \in Nat
      PROVE  BucketStart(h + 1) = BucketEnd(h)
  <2>1. h + 1 # 0 /\ h + 1 - 1 = h
    OBVIOUS
  <2>2. QED BY <2>1 DEF BucketStart
<1>2. PICK g \in Nat : g = get_h_at(T_MAX)
  BY ConstantFacts
<1>3. PICK c : c = BucketEnd(g)
  OBVIOUS
<1>4. c \in 0 .. N /\ \A x \in Index : x < c <=> get_h_at(array[x]) <= g
  BY <1>3, BucketBounds
<1>5. \A x \in Index : get_h_at(array[x]) <= g
  BY <1>2, BucketOfValue
<1>6. c = N
  <2>1. N \in Nat \ {0}
    BY ConstantFacts
  <2>2. N - 1 \in Index
    BY <2>1 DEF Index
  <2>3. N - 1 < c
    BY <1>4, <1>5, <2>2
  <2>4. QED BY <1>4, <2>1, <2>3
<1>7. QED BY <1>1, <1>2, <1>3, <1>6

(***************************************************************************)
(* Dealing a bucket out.                                                   *)
(***************************************************************************)

\* Parts only grow.
Grown(s, t) == DOMAIN s \subseteq DOMAIN t /\ \A w \in DOMAIN s : Places(s[w]) \subseteq Places(t[w])

LEMMA PlacesOfPart ==
  ASSUME NEW a \in Nat, NEW b \in Nat
  PROVE  PartEnd(Part(a, b)) = a + b /\ Places(Part(a, b)) = a .. (a + b) - 1
<1>1. PartEnd(Part(a, b)) = a + b
  BY DEF PartEnd, Part
<1>2. Part(a, b).input = a
  BY DEF Part
<1>3. QED BY <1>1, <1>2 DEF Places

\* The parts that a bucket is dealt from, the last of them with room.
Open(s, k, m) == FullParts(s, k, m) /\ s[k].element_in_partition < m

LEMMA OpenedParts ==
  ASSUME host \in Hosts, NEW k, NEW m, m = worker_mem_size_elems, FullParts(s1, k, m),
         NEW s, s = Opened(s1)
  PROVE  \E l \in Nat : /\ l = cwp_id(s) /\ Open(s, l, m)
                        /\ PartEnd(s[l]) = PartEnd(s1[k])
                        /\ Grown(s1, s)
<1>1. m \in Nat \ {0}
  BY HostFacts
<1>2. /\ k \in Nat /\ DOMAIN s1 = 0 .. k
      /\ \A w \in 0 .. k - 1 : s1[w] = Part(w * m, m)
      /\ s1[k] = Part(k * m, s1[k].element_in_partition)
      /\ s1[k].element_in_partition \in 0 .. m
  BY DEF FullParts
<1>3. cwp_id(s1) = k
  BY <1>2, LastOfParts
<1>4. CASE s1[k].element_in_partition # m
  <2>1. s = s1
    BY <1>3, <1>4 DEF Opened
  <2>2. s1[k].element_in_partition < m
    BY <1>1, <1>2, <1>4
  <2>3. QED BY <1>2, <1>3, <2>1, <2>2 DEF Open, Grown
<1>5. CASE s1[k].element_in_partition = m
  <2>1. s = [w \in 0 .. k + 1 |-> IF w \in 0 .. k THEN s1[w] ELSE Part(PartEnd(s1[k]), 0)]
    BY <1>2, <1>3, <1>5 DEF Opened
  <2>2. PICK l \in Nat : l = k + 1 /\ l - 1 = k
    BY <1>2
  <2>3. PICK p \in Nat : p = k * m
    BY <1>1, <1>2
  <2>4. (k + 1) * m = p + m
    BY <1>1, <1>2, <2>3, OneMoreTime
  <2>5. PartEnd(s1[k]) = p + m
    BY <1>1, <1>2, <1>5, <2>3, PlacesOfPart
  <2>6. DOMAIN s = 0 .. l
    BY <2>1, <2>2
  <2>7. \A w \in 0 .. k : s[w] = s1[w] /\ w \in 0 .. l
    BY <2>1, <2>2
  <2>8. s[l] = Part(p + m, 0)
    <3>1. l \in 0 .. k + 1 /\ l \notin 0 .. k
      BY <2>2
    <3>2. QED BY <2>1, <2>5, <3>1
  <2>9. \A w \in 0 .. l - 1 : s[w] = Part(w * m, m)
    <3> TAKE w \in 0 .. l - 1
    <3>1. w \in 0 .. k /\ (w # k => w \in 0 .. k - 1)
      BY <1>2, <2>2
    <3>2. QED BY <1>2, <1>5, <2>7, <3>1
  <2>10. s[l].element_in_partition = 0 /\ s[l] = Part(l * m, s[l].element_in_partition)
    <3>1. s[l].element_in_partition = 0
      BY <2>8 DEF Part
    <3>2. l * m = p + m
      BY <2>2, <2>4
    <3>3. QED BY <2>8, <3>1, <3>2
  <2>11. Open(s, l, m)
    BY <1>1, <2>6, <2>9, <2>10 DEF Open, FullParts
  <2>12. PartEnd(s[l]) = PartEnd(s1[k])
    <3>1. PartEnd(s[l]) = p + m + 0
      BY <1>1, <2>8, PlacesOfPart
    <3>2. QED BY <1>1, <2>5, <3>1
  <2>13. Grown(s1, s)
    BY <1>2, <2>6, <2>7 DEF Grown
  <2>14. cwp_id(s) = l
    BY <2>6, LastOfParts
  <2>15. QED BY <2>11, <2>12, <2>13, <2>14
<1>6. QED BY <1>4, <1>5

\* The bucket fits into the last part.
Extended(s, k, e) == [s EXCEPT ![k].element_in_partition = @ + e]

LEMMA ExtendedParts ==
  ASSUME NEW s, NEW k, NEW m \in Nat \ {0}, Open(s, k, m), NEW e \in Nat \ {0},
         NEW end, end = PartEnd(s[k]) + e, end <= (k + 1) * m,
         NEW t, t = Extended(s, k, e)
  PROVE  /\ FullParts(t, k, m) /\ t[k].element_in_partition > 0
         /\ PartEnd(t[k]) = end
         /\ Grown(s, t)
         /\ PartEnd(s[k]) .. end - 1 \subseteq Places(t[k])
<1>1. /\ k \in Nat /\ DOMAIN s = 0 .. k
      /\ \A w \in 0 .. k - 1 : s[w] = Part(w * m, m)
      /\ s[k] = Part(k * m, s[k].element_in_partition)
      /\ s[k].element_in_partition \in 0 .. m
  BY DEF Open, FullParts
<1>2. PICK p \in Nat, i \in Nat : p = k * m /\ i = s[k].element_in_partition
  <2>1. k \in Nat /\ s[k].element_in_partition \in Nat
    BY <1>1
  <2>2. k * m \in Nat
    BY <2>1
  <2>3. QED BY <2>1, <2>2
<1>3. s[k] = Part(p, i) /\ (k + 1) * m = p + m
  BY <1>1, <1>2, OneMoreTime
<1>4. PartEnd(s[k]) = p + i
  BY <1>3, PlacesOfPart
<1>5. end = p + i + e /\ i + e <= m /\ i + e \in Nat
  <2>1. end = p + i + e
    BY <1>4
  <2>2. p + i + e <= p + m
    BY <1>3, <2>1
  <2>3. QED BY <2>1, <2>2
<1>6. t[k] = Part(p, i + e) /\ DOMAIN t = 0 .. k /\ \A w \in 0 .. k : w # k => t[w] = s[w]
  <2>1. s[k] = [input |-> p, element_in_partition |-> i]
    BY <1>3 DEF Part
  <2>2. /\ t[k] = [s[k] EXCEPT !.element_in_partition = s[k].element_in_partition + e]
        /\ DOMAIN t = 0 .. k /\ \A w \in 0 .. k : w # k => t[w] = s[w]
    <3>1. k \in DOMAIN s
      BY <1>1
    <3>2. t = [s EXCEPT ![k] = [s[k] EXCEPT !.element_in_partition = s[k].element_in_partition + e]]
      BY DEF Extended
    <3>3. QED BY <1>1, <3>1, <3>2
  <2>3. t[k] = [input |-> p, element_in_partition |-> i + e]
    BY <2>1, <2>2
  <2>4. QED BY <2>2, <2>3 DEF Part
<1>7. t[k].element_in_partition = i + e
  BY <1>6 DEF Part
<1>8. FullParts(t, k, m)
  <2>1. \A w \in 0 .. k - 1 : t[w] = Part(w * m, m)
    <3> TAKE w \in 0 .. k - 1
    <3>1. w \in 0 .. k /\ w # k
      BY <1>1
    <3>2. QED BY <1>1, <1>6, <3>1
  <2>2. t[k] = Part(k * m, t[k].element_in_partition)
    BY <1>2, <1>6, <1>7
  <2>3. QED BY <1>1, <1>5, <1>6, <1>7, <2>1, <2>2 DEF FullParts
<1>9. PartEnd(t[k]) = end /\ Places(t[k]) = p .. end - 1
  <2>1. PICK d \in Nat : d = i + e
    BY <1>5
  <2>2. t[k] = Part(p, d) /\ end = p + d
    BY <1>5, <1>6, <2>1
  <2>3. PartEnd(Part(p, d)) = p + d /\ Places(Part(p, d)) = p .. (p + d) - 1
    BY PlacesOfPart
  <2>4. QED BY <2>2, <2>3
<1>10. Places(s[k]) = p .. (p + i) - 1
  BY <1>3, PlacesOfPart
<1>11. Grown(s, t)
  <2>1. Places(s[k]) \subseteq Places(t[k])
    BY <1>5, <1>9, <1>10
  <2>2. \A w \in 0 .. k : Places(s[w]) \subseteq Places(t[w])
    BY <1>6, <2>1
  <2>3. QED BY <1>1, <1>6, <2>2 DEF Grown
<1>12. PartEnd(s[k]) .. end - 1 \subseteq Places(t[k])
  <2>1. PICK f \in Nat : f = p + i /\ p <= f /\ f = PartEnd(s[k])
    BY <1>4
  <2>2. end \in Nat
    BY <1>4
  <2>3. f .. end - 1 \subseteq p .. end - 1
    BY <2>1, <2>2
  <2>4. QED BY <1>9, <2>1, <2>3
<1>13. t[k].element_in_partition > 0
  BY <1>7
<1>14. QED BY <1>8, <1>9, <1>11, <1>12, <1>13

\* It does not: what remains of it takes the workers up to q.
LEMMA DealtParts ==
  ASSUME host \in Hosts, NEW m, m = worker_mem_size_elems,
         NEW s, NEW k, Open(s, k, m), NEW e \in Nat \ {0},
         NEW end, end = PartEnd(s[k]) + e,
         NEW q \in Nat, end <= q * m, q * m < end + m, q - 1 > k,
         NEW t, t = Dealt(s, e, q)
  PROVE  /\ FullParts(t, q - 1, m) /\ t[q - 1].element_in_partition > 0
         /\ PartEnd(t[q - 1]) = end
         /\ Grown(s, t)
         /\ PartEnd(s[k]) \in Places(t[k]) /\ end - 1 \in Places(t[q - 1])
<1>1. m \in Nat \ {0}
  BY HostFacts
<1>2. /\ k \in Nat /\ DOMAIN s = 0 .. k
      /\ \A w \in 0 .. k - 1 : s[w] = Part(w * m, m)
      /\ s[k] = Part(k * m, s[k].element_in_partition)
      /\ s[k].element_in_partition \in 0 .. m /\ s[k].element_in_partition < m
  BY DEF Open, FullParts
<1>3. cwp_id(s) = k
  BY <1>2, LastOfParts
<1>4. PICK p \in Nat, i \in Nat : p = k * m /\ i = s[k].element_in_partition
  <2>1. k \in Nat /\ s[k].element_in_partition \in Nat
    BY <1>1, <1>2
  <2>2. k * m \in Nat
    BY <1>1, <2>1
  <2>3. QED BY <2>1, <2>2
<1>5. s[k] = Part(p, i) /\ s[k].input = p /\ i < m
  BY <1>2, <1>4 DEF Part
<1>6. PartEnd(s[k]) = p + i /\ end = p + i + e
  BY <1>5, PlacesOfPart
<1>7. t = [w \in 0 .. q - 1 |->
             IF w < k THEN s[w]
             ELSE IF w = k THEN [s[w] EXCEPT !.element_in_partition = m]
             ELSE Part(p + (w - k) * m, Least((e - (m - i)) - (w - k - 1) * m, m))]
  BY <1>3, <1>4, <1>5 DEF Dealt
<1>8. \A w \in 0 .. k : w \in 0 .. q - 1
  BY <1>2
<1>9. \A w \in 0 .. k - 1 : t[w] = s[w] /\ w \in 0 .. q - 1
  BY <1>2, <1>7
<1>10. t[k] = Part(p, m)
  <2>1. k \in 0 .. q - 1 /\ ~(k < k)
    BY <1>2
  <2>2. t[k] = [s[k] EXCEPT !.element_in_partition = m]
    BY <1>7, <2>1
  <2>3. s[k] = [input |-> p, element_in_partition |-> i]
    BY <1>5 DEF Part
  <2>4. QED BY <2>2, <2>3 DEF Part
<1>11. ASSUME NEW w \in k + 1 .. q - 1
       PROVE  t[w] = Part(w * m, Least(end - w * m, m)) /\ w * m \in Nat
  <2>1. w \in 0 .. q - 1 /\ ~(w < k) /\ w # k /\ w \in Nat
    BY <1>2
  <2>2. t[w] = Part(p + (w - k) * m, Least((e - (m - i)) - (w - k - 1) * m, m))
    BY <1>7, <2>1
  <2>3. PICK d \in Nat : d = w - k - 1 /\ w = k + d + 1 /\ w - k = d + 1
    BY <1>2, <2>1
  <2>4. PICK f \in Nat : f = d * m
    BY <1>1
  <2>5. (w - k) * m = f + m /\ (w - k - 1) * m = f
    <3>1. (d + 1) * m = f + m
      BY <1>1, <2>4, OneMoreTime
    <3>2. (w - k) * m = f + m
      BY <2>3, <3>1
    <3>3. (w - k - 1) * m = f
      BY <2>3, <2>4
    <3>4. QED BY <3>2, <3>3
  <2>6. w * m = p + f + m
    BY <1>1, <1>2, <1>4, <2>3, <2>4
  <2>7. p + (w - k) * m = w * m /\ (e - (m - i)) - (w - k - 1) * m = end - w * m
    BY <1>1, <1>6, <2>5, <2>6
  <2>8. QED BY <1>1, <2>2, <2>6, <2>7
<1>12. PICK r \in Nat : r = q - 1 /\ r > k /\ q = r + 1
  BY <1>2
<1>13. PICK b \in Nat : b = r * m
  BY <1>1
<1>14. q * m = b + m
  BY <1>1, <1>12, <1>13, OneMoreTime
<1>15. end \in Nat /\ b < end /\ end <= b + m
  <2>1. end \in Nat
    BY <1>6
  <2>2. QED BY <1>1, <1>14, <2>1
<1>16. t[r] = Part(b, end - b)
  <2>1. r \in k + 1 .. q - 1
    BY <1>2, <1>12
  <2>2. t[r] = Part(b, Least(end - b, m))
    BY <1>11, <1>13, <2>1
  <2>3. Least(end - b, m) = end - b
    BY <1>1, <1>15 DEF Least
  <2>4. QED BY <2>2, <2>3
<1>17. PICK l \in Nat : l = end - b /\ l > 0 /\ l <= m /\ b + l = end
  BY <1>1, <1>15
<1>18. t[r].element_in_partition = l /\ t[r] = Part(r * m, t[r].element_in_partition)
  <2>1. t[r].element_in_partition = l
    BY <1>16, <1>17 DEF Part
  <2>2. QED BY <1>13, <1>16, <1>17, <2>1
<1>19. \A w \in 0 .. r - 1 : t[w] = Part(w * m, m)
  <2> TAKE w \in 0 .. r - 1
  <2>1. CASE w \in 0 .. k - 1
    BY <1>2, <1>9, <2>1
  <2>2. CASE w = k
    BY <1>4, <1>10, <2>2
  <2>3. CASE w \in k + 1 .. q - 1
    <3>1. w \in Nat /\ w + 1 <= r /\ w + 1 \in Nat
      BY <1>12
    <3>2. PICK g \in Nat : g = w * m
      BY <1>1, <3>1
    <3>3. (w + 1) * m = g + m
      BY <1>1, <3>1, <3>2, OneMoreTime
    <3>4. (w + 1) * m <= r * m
      BY <1>1, <3>1, TimesInOrder
    <3>5. g + m <= b
      BY <1>13, <3>3, <3>4
    <3>6. Least(end - g, m) = m
      BY <1>1, <1>15, <3>5 DEF Least
    <3>7. QED BY <1>11, <2>3, <3>2, <3>6
  <2>4. QED BY <1>2, <1>12, <2>1, <2>2, <2>3
<1>20. FullParts(t, r, m)
  <2>1. DOMAIN t = 0 .. r
    BY <1>7, <1>12
  <2>2. QED BY <1>17, <1>18, <1>19, <2>1 DEF FullParts
<1>21. PartEnd(t[r]) = end /\ Places(t[r]) = b .. end - 1
  <2>1. t[r] = Part(b, l)
    BY <1>16, <1>17
  <2>2. PartEnd(t[r]) = b + l /\ Places(t[r]) = b .. (b + l) - 1
    BY <2>1, PlacesOfPart
  <2>3. QED BY <1>17, <2>2
<1>22. Places(t[k]) = p .. (p + m) - 1 /\ Places(s[k]) = p .. (p + i) - 1
  BY <1>1, <1>5, <1>10, PlacesOfPart
<1>23. Grown(s, t)
  <2>1. Places(s[k]) \subseteq Places(t[k])
    BY <1>1, <1>5, <1>22
  <2>2. \A w \in 0 .. k : Places(s[w]) \subseteq Places(t[w])
    <3> TAKE w \in 0 .. k
    <3>1. w = k \/ w \in 0 .. k - 1
      BY <1>2
    <3>2. QED BY <1>9, <2>1, <3>1
  <2>3. DOMAIN t = 0 .. q - 1
    BY <1>7
  <2>4. QED BY <1>2, <1>8, <2>2, <2>3 DEF Grown
<1>24. PartEnd(s[k]) \in Places(t[k])
  BY <1>1, <1>5, <1>6, <1>22
<1>25. end - 1 \in Places(t[r])
  BY <1>15, <1>21
<1>26. QED BY <1>12, <1>17, <1>18, <1>20, <1>21, <1>23, <1>24, <1>25

(***************************************************************************)
(* The invariant holds at the start, and while the workload is divided.    *)
(***************************************************************************)
LEMMA PartsKept ==
  ASSUME PartsInv, UNCHANGED <<host, strategy, s1>>
  PROVE  PartsInv'
<1>1. host' = host /\ strategy' = strategy /\ s1' = s1
  OBVIOUS
<1>2. worker_mem_size_elems' = worker_mem_size_elems
  BY <1>1 DEF worker_mem_size_elems
<1>3. \A w : EqualPart(w)' = EqualPart(w)
  BY <1>1 DEF EqualPart
<1>4. SetUp' = SetUp /\ LastPart' = LastPart
  BY <1>1 DEF SetUp, LastPart
<1>5. QED BY <1>1, <1>2, <1>3, <1>4 DEF PartsInv

LEMMA OrderKept ==
  ASSUME BucketsInOrder, UNCHANGED <<strategy, s1, array>>
  PROVE  BucketsInOrder'
BY DEF BucketsInOrder, SetUp

LEMMA SortedKept ==
  ASSUME PartsSorted, UNCHANGED <<s1, worker, array>>
  PROVE  PartsSorted'
BY DEF PartsSorted

LEMMA JobsKept ==
  ASSUME JobsInv, UNCHANGED <<host, strategy, array, s1, m1>>
  PROVE  JobsInv'
BY DEF JobsInv, SetUp

LEMMA HeldKept ==
  ASSUME HeldTogether, UNCHANGED <<array, s1, m1, worker>>
  PROVE  HeldTogether'
<1>1. array' = array /\ s1' = s1 /\ m1' = m1 /\ worker' = worker
  OBVIOUS
<1>2. SetUp' = SetUp /\ LastPart' = LastPart
  BY <1>1 DEF SetUp, LastPart
<1>3. QED BY <1>1, <1>2 DEF HeldTogether

LEMMA InvInit ==
  ASSUME Init
  PROVE  IInv
<1> USE DEF Init
<1>1. ~SetUp
  BY DEF SetUp
<1>2. N \in Nat /\ get_h_at(T_MAX) \in Nat /\ host.worker_count \in Nat
  BY ConstantFacts, HostFacts
<1>3. Phases
  <2>1. <<>> \in Seq(Value)
    OBVIOUS
  <2>2. bucket \in 0 .. get_h_at(T_MAX) + 1 /\ worker \in 0 .. host.worker_count
    BY <1>2
  <2>3. QED BY <1>1, <2>1, <2>2 DEF Phases, Labels, Divided
<1>4. PartsInv /\ BucketsInOrder /\ HeldTogether
  BY <1>1 DEF PartsInv, BucketsInOrder, HeldTogether
<1>5. PartsSorted
  BY <1>1 DEF PartsSorted, SetUp
<1>6. JobsInv
  BY <1>1 DEF JobsInv
<1>7. MergeInv /\ SizeInv
  BY DEF MergeInv, SizeInv
<1>8. QED BY <1>3, <1>4, <1>5, <1>6, <1>7 DEF IInv

LEMMA InvStart ==
  ASSUME IInv, Start
  PROVE  IInv'
<1>1. /\ pc = "start" /\ UNCHANGED <<host, strategy, array, bucket, s1, m1, worker, ptrs, temp>>
      /\ pc' = IF ~Admitted THEN "exit"
               ELSE IF strategy = "two_step_sort" THEN "first_level" ELSE "init_props"
  BY DEF Start
<1>2. Phases /\ PartsInv /\ BucketsInOrder /\ PartsSorted /\ JobsInv /\ HeldTogether
  BY DEF IInv
<1>3. ~SetUp /\ bucket = 0 /\ ptrs = <<>> /\ temp = <<>> /\ strategy \in Strategies
  BY <1>1, <1>2 DEF Phases
<1>4. SetUp' = SetUp
  BY <1>1 DEF SetUp
<1>5. Phases'
  BY <1>1, <1>2, <1>3, <1>4 DEF Phases, Labels, Strategies, Divided
<1>6. MergeInv'
  BY <1>1 DEF MergeInv
<1>7. SizeInv'
  BY <1>1 DEF SizeInv, Admitted
<1>8. QED BY <1>1, <1>2, <1>5, <1>6, <1>7, PartsKept, OrderKept, SortedKept, JobsKept, HeldKept DEF IInv

LEMMA Inv_init_props ==
  ASSUME IInv, init_props
  PROVE  IInv'
<1>1. /\ pc = "init_props" /\ pc' = "sort"
      /\ s1' = [w \in 0 .. host.worker_count - 1 |-> EqualPart(w)]
      /\ m1' = <<Job(0, host.worker_count, 0, N)>>
      /\ host' = host /\ strategy' = strategy /\ array' = array /\ bucket' = bucket
      /\ worker' = worker /\ ptrs' = ptrs /\ temp' = temp
  BY DEF init_props
<1>2. Phases
  BY DEF IInv
<1>3. /\ host \in Hosts /\ strategy = "partition_and_merge" /\ array \in [Index -> Value]
      /\ worker = 0 /\ ptrs = <<>> /\ temp = <<>>
      /\ bucket \in 0 .. get_h_at(T_MAX) + 1 /\ worker \in 0 .. host.worker_count
  BY <1>1, <1>2 DEF Phases
<1>4. PICK n \in Nat \ {0} : n = host.worker_count
  BY <1>3, HostFacts
<1>5. N \in Nat \ {0}
  BY ConstantFacts
<1>6. PICK s : s = s1'
  OBVIOUS
<1>7. Tiles(s, n - 1, N) /\ cwp_id(s) = n - 1
  BY <1>1, <1>3, <1>4, <1>6, EqualPartsTile
<1>8. DOMAIN s = 0 .. n - 1 /\ PartEnd(s[n - 1]) = N
  BY <1>7 DEF Tiles
<1>9. SetUp' /\ PartEnd(LastPart)' = N
  BY <1>4, <1>6, <1>7, <1>8 DEF SetUp, LastPart
<1>10. Phases'
  BY <1>1, <1>3, <1>9 DEF Phases, Labels, Strategies, Divided
<1>11. PartsInv'
  <2>1. cwp_id(s) \in 0 .. n - 1
    BY <1>4, <1>7
  <2>2. \A w : EqualPart(w)' = EqualPart(w)
    BY <1>1 DEF EqualPart
  <2>3. QED BY <1>1, <1>3, <1>4, <1>5, <1>6, <1>9, <2>1, <2>2 DEF PartsInv
<1>12. BucketsInOrder'
  BY <1>1, <1>3 DEF BucketsInOrder
<1>13. PartsSorted'
  <2>1. \A w \in 0 .. n - 1 : ~(w < 0)
    OBVIOUS
  <2>2. QED BY <1>1, <1>3, <1>6, <1>8, <2>1 DEF PartsSorted
<1>14. JobsInv'
  <2>1. Job(0, n, 0, N) \in JobRecords
    BY <1>5 DEF Job, JobRecords
  <2>2. m1' \in Seq(JobRecords)
    BY <1>1, <1>4, <2>1
  <2>3. QED BY <1>1, <1>3, <2>2 DEF JobsInv
<1>15. HeldTogether'
  <2>1. PICK m : m = m1'
    OBVIOUS
  <2>2. 1 \in DOMAIN m /\ m[1] = Job(0, n, 0, N)
    BY <1>1, <1>4, <2>1
  <2>3. JobPlaces(m[1]) = Index
    BY <2>2 DEF JobPlaces, Job, Index
  <2>4. \A x, y \in Index : \E i \in DOMAIN m : {x, y} \subseteq JobPlaces(m[i])
    BY <2>2, <2>3
  <2>5. QED BY <2>1, <2>4 DEF HeldTogether
<1>16. MergeInv' /\ SizeInv'
  BY <1>1 DEF MergeInv, SizeInv
<1>17. QED BY <1>10, <1>11, <1>12, <1>13, <1>14, <1>15, <1>16 DEF IInv

LEMMA InvFirstLevel ==
  ASSUME IInv, FirstLevel
  PROVE  IInv'
<1>1. /\ pc = "first_level" /\ pc' = "partition"
      /\ array' \in InBucketOrder
      /\ s1' = [w \in {0} |-> Part(0, 0)]
      /\ host' = host /\ strategy' = strategy /\ bucket' = bucket /\ m1' = m1
      /\ worker' = worker /\ ptrs' = ptrs /\ temp' = temp
  BY DEF FirstLevel
<1>2. Phases
  BY DEF IInv
<1>3. /\ host \in Hosts /\ strategy = "two_step_sort" /\ m1 = <<>>
      /\ worker = 0 /\ ptrs = <<>> /\ temp = <<>> /\ bucket = 0
      /\ bucket \in 0 .. get_h_at(T_MAX) + 1 /\ worker \in 0 .. host.worker_count /\ temp \in Seq(Value)
  BY <1>1, <1>2 DEF Phases
<1>4. PICK n \in Nat \ {0}, m \in Nat \ {0} : n = host.worker_count /\ m = worker_mem_size_elems
  BY <1>3, HostFacts
<1>5. N \in Nat \ {0}
  BY ConstantFacts
<1>6. array' \in [Index -> Value] /\ InOrder(array')
  <2>1. PICK a : a = array'
    OBVIOUS
  <2>2. a \in [Index -> Value] /\ Sorted([x \in Index |-> get_h_at(a[x])])
    BY <1>1, <2>1 DEF InBucketOrder
  <2>3. InOrder(a)
    BY <2>2 DEF InOrder, Sorted
  <2>4. QED BY <2>1, <2>2, <2>3
<1>7. PICK s : s = s1'
  OBVIOUS
<1>8. DOMAIN s = 0 .. 0 /\ s[0] = Part(0, 0) /\ 0 \in DOMAIN s
  BY <1>1, <1>7
<1>9. cwp_id(s) = 0
  BY <1>8, LastOfParts
<1>10. PartEnd(s[0]) = 0 /\ s[0].element_in_partition = 0
  BY <1>8 DEF PartEnd, Part
<1>11. SetUp' /\ PartEnd(LastPart)' = 0
  BY <1>7, <1>8, <1>9, <1>10 DEF SetUp, LastPart
<1>12. BucketStart(bucket)' = 0
  BY <1>1, <1>3 DEF BucketStart
<1>13. Phases'
  BY <1>1, <1>3, <1>6, <1>11, <1>12 DEF Phases, Labels, Strategies, Divided
<1>14. PartsInv'
  <2>1. FullParts(s, 0, m)
    <3>1. 0 * m = 0 /\ 0 \in 0 .. m /\ \A w \in 0 .. 0 - 1 : FALSE
      OBVIOUS
    <3>2. QED BY <1>8, <1>10, <3>1 DEF FullParts
  <2>2. worker_mem_size_elems' = m
    BY <1>1, <1>4 DEF worker_mem_size_elems
  <2>3. 0 \in 0 .. n - 1 /\ 0 <= N
    BY <1>5
  <2>4. QED BY <1>1, <1>3, <1>4, <1>7, <1>9, <1>11, <2>1, <2>2, <2>3 DEF PartsInv
<1>15. BucketsInOrder'
  BY <1>6 DEF BucketsInOrder
<1>16. PartsSorted'
  <2>1. \A w \in DOMAIN s : ~(w < 0)
    BY <1>8
  <2>2. QED BY <1>1, <1>3, <1>7, <2>1 DEF PartsSorted
<1>17. JobsInv'
  <2>1. <<>> \in Seq(JobRecords) /\ DOMAIN <<>> = {}
    OBVIOUS
  <2>2. QED BY <1>1, <1>3, <2>1 DEF JobsInv
<1>18. HeldTogether'
  <2>1. \A x, y \in Index : ~(x < y /\ y < 0)
    BY <1>5 DEF Index
  <2>2. QED BY <1>11, <2>1 DEF HeldTogether
<1>19. MergeInv' /\ SizeInv'
  BY <1>1 DEF MergeInv, SizeInv
<1>20. QED BY <1>13, <1>14, <1>15, <1>16, <1>17, <1>18, <1>19 DEF IInv

\* The parts have grown to the end of the bucket: it lies in the last of them, or in a new job.
LEMMA InvDealt ==
  ASSUME IInv, pc = "partition", bucket \in Hs, bucket' = bucket + 1,
         UNCHANGED <<host, strategy, array, worker, ptrs, temp, pc>>,
         NEW k \in Nat, k <= host.worker_count - 1, FullParts(s1', k, worker_mem_size_elems),
         k # 0 => s1'[k].element_in_partition > 0,
         PartEnd(s1'[k]) = BucketEnd(bucket), Grown(s1, s1'),
         \/ /\ m1' = m1
            /\ BucketStart(bucket) .. BucketEnd(bucket) - 1 \subseteq Places(s1'[k])
         \/ \E jb : /\ m1' = Append(m1, jb) /\ JobFits(jb, s1')
                    /\ JobPlaces(jb) = BucketStart(bucket) .. BucketEnd(bucket) - 1
  PROVE  IInv'
<1>1. host' = host /\ strategy' = strategy /\ array' = array /\ worker' = worker /\ ptrs' = ptrs
      /\ temp' = temp /\ pc' = pc
  OBVIOUS
<1>2. Phases /\ PartsInv /\ BucketsInOrder /\ JobsInv /\ HeldTogether
  BY DEF IInv
<1>3. /\ host \in Hosts /\ strategy = "two_step_sort" /\ SetUp /\ array \in [Index -> Value]
      /\ worker = 0 /\ ptrs = <<>> /\ temp = <<>> /\ PartEnd(LastPart) = BucketStart(bucket)
      /\ worker \in 0 .. host.worker_count /\ temp \in Seq(Value)
  BY <1>2 DEF Phases
<1>4. PICK n \in Nat \ {0}, m \in Nat \ {0} : n = host.worker_count /\ m = worker_mem_size_elems
  BY <1>3, HostFacts
<1>5. InOrder(array)
  BY <1>2, <1>3 DEF BucketsInOrder
<1>6. bucket \in Nat /\ get_h_at(T_MAX) \in Nat /\ bucket + 1 \in 0 .. get_h_at(T_MAX) + 1
  BY ConstantFacts DEF Hs
<1>7. PICK start, end : start = BucketStart(bucket) /\ end = BucketEnd(bucket)
  OBVIOUS
<1>8. /\ start \in 0 .. N /\ end \in start .. N /\ N \in Nat
      /\ \A x \in Index : x \in start .. end - 1 <=> get_h_at(array[x]) = bucket
  BY <1>3, <1>5, <1>6, <1>7, BucketPlaces, ConstantFacts
<1>9. PICK t, mm : t = s1' /\ mm = m1'
  OBVIOUS
<1>10. DOMAIN t = 0 .. k /\ cwp_id(t) = k /\ k \in DOMAIN t
  <2>1. DOMAIN t = 0 .. k
    BY <1>9 DEF FullParts
  <2>2. QED BY <2>1, LastOfParts
<1>11. SetUp' /\ LastPart' = t[k] /\ PartEnd(t[k]) = end
  BY <1>7, <1>9, <1>10 DEF SetUp, LastPart
<1>12. PartEnd(LastPart)' = end
  BY <1>11
<1>13. BucketStart(bucket)' = end
  <2>1. bucket' # 0 /\ bucket' - 1 = bucket
    BY <1>6
  <2>2. BucketStart(bucket)' = Cardinality({x \in Index : get_h_at(array[x]) <= bucket' - 1})
    BY <1>1, <2>1 DEF BucketStart, BucketEnd
  <2>3. QED BY <1>7, <2>1, <2>2 DEF BucketEnd
<1>14. Phases'
  BY <1>1, <1>3, <1>6, <1>11, <1>12, <1>13 DEF Phases, Labels, Strategies, Divided
<1>15. PartsInv'
  <2>1. worker_mem_size_elems' = m
    BY <1>1, <1>4 DEF worker_mem_size_elems
  <2>2. k \in 0 .. n - 1 /\ end <= N
    BY <1>4, <1>8
  <2>3. QED BY <1>1, <1>3, <1>4, <1>9, <1>10, <1>11, <2>1, <2>2 DEF PartsInv, Strategies
<1>16. BucketsInOrder'
  BY <1>1, <1>5 DEF BucketsInOrder
<1>17. PartsSorted'
  <2>1. \A w \in DOMAIN t : ~(w < 0)
    BY <1>10
  <2>2. QED BY <1>1, <1>3, <1>9, <2>1 DEF PartsSorted
<1>18. \A j : JobFits(j, s1) => JobFits(j, t)
  BY <1>9 DEF JobFits, Grown
<1>19. m1 \in Seq(JobRecords) /\ \A i \in DOMAIN m1 : JobFits(m1[i], s1) /\ IsBucket(m1[i], array)
  BY <1>2, <1>3 DEF JobsInv
<1>20. /\ mm \in Seq(JobRecords)
       /\ \A i \in DOMAIN mm : JobFits(mm[i], t) /\ IsBucket(mm[i], array)
       /\ \A i \in DOMAIN m1 : i \in DOMAIN mm /\ mm[i] = m1[i]
       /\ \/ start .. end - 1 \subseteq Places(t[k])
          \/ \E i \in DOMAIN mm : JobPlaces(mm[i]) = start .. end - 1
  <2>1. CASE mm = m1 /\ start .. end - 1 \subseteq Places(t[k])
    BY <1>18, <1>19, <2>1
  <2>2. ASSUME NEW jb, mm = Append(m1, jb), JobFits(jb, t), JobPlaces(jb) = start .. end - 1
        PROVE  /\ mm \in Seq(JobRecords)
               /\ \A i \in DOMAIN mm : JobFits(mm[i], t) /\ IsBucket(mm[i], array)
               /\ \A i \in DOMAIN m1 : i \in DOMAIN mm /\ mm[i] = m1[i]
               /\ \E i \in DOMAIN mm : JobPlaces(mm[i]) = start .. end - 1
    <3>1. jb \in JobRecords
      BY <2>2 DEF JobFits
    <3>2. PICK l \in Nat : l = Len(m1) /\ DOMAIN m1 = 1 .. l
      BY <1>19
    <3>3. /\ mm \in Seq(JobRecords) /\ DOMAIN mm = 1 .. l + 1
          /\ \A i \in 1 .. l : mm[i] = m1[i]
          /\ mm[l + 1] = jb
      BY <1>19, <2>2, <3>1, <3>2, OneMore
    <3>4. IsBucket(jb, array)
      BY <1>8, <2>2 DEF IsBucket
    <3>5. \A i \in 1 .. l + 1 : i \in 1 .. l \/ i = l + 1
      OBVIOUS
    <3>6. l + 1 \in 1 .. l + 1 /\ \A i \in 1 .. l : i \in 1 .. l + 1
      OBVIOUS
    <3>7. \A i \in DOMAIN mm : JobFits(mm[i], t) /\ IsBucket(mm[i], array)
      BY <1>18, <1>19, <2>2, <3>2, <3>3, <3>4, <3>5
    <3>8. \E i \in DOMAIN mm : JobPlaces(mm[i]) = start .. end - 1
      BY <2>2, <3>3, <3>6
    <3>9. \A i \in DOMAIN m1 : i \in DOMAIN mm /\ mm[i] = m1[i]
      BY <3>2, <3>3, <3>6
    <3>10. QED BY <3>3, <3>7, <3>8, <3>9
  <2>3. QED BY <1>7, <1>9, <2>1, <2>2
<1>21. JobsInv'
  BY <1>1, <1>3, <1>9, <1>20 DEF JobsInv, Strategies
<1>22. HeldTogether'
  <2>1. ASSUME NEW x \in Index, NEW y \in Index, x < y, y < end, array[x] > array[y]
        PROVE  \/ \E w \in DOMAIN t : w >= 0 /\ {x, y} \subseteq Places(t[w])
               \/ \E i \in DOMAIN mm : {x, y} \subseteq JobPlaces(mm[i])
    <3>1. x \in Int /\ y \in Int
      BY <1>8 DEF Index
    <3>2. CASE y < start
      <4>1. \/ \E w \in DOMAIN s1 : w >= 0 /\ {x, y} \subseteq Places(s1[w])
            \/ \E i \in DOMAIN m1 : {x, y} \subseteq JobPlaces(m1[i])
        BY <1>2, <1>3, <1>7, <2>1, <3>2 DEF HeldTogether
      <4>2. QED BY <1>9, <1>20, <4>1 DEF Grown
    <3>3. CASE ~(y < start)
      <4>1. y \in start .. end - 1
        BY <1>8, <2>1, <3>1, <3>3
      <4>2. get_h_at(array[x]) = get_h_at(array[y])
        BY <1>3, <1>5, <2>1, SameBucket
      <4>3. x \in start .. end - 1
        BY <1>8, <4>1, <4>2
      <4>4. k \in DOMAIN t /\ k >= 0
        BY <1>10
      <4>5. QED BY <1>20, <4>1, <4>3, <4>4
    <3>4. QED BY <3>2, <3>3
  <2>2. QED BY <1>1, <1>3, <1>9, <1>12, <2>1 DEF HeldTogether
<1>23. MergeInv' /\ SizeInv'
  BY <1>1 DEF MergeInv, SizeInv
<1>24. QED BY <1>14, <1>15, <1>16, <1>17, <1>21, <1>22, <1>23 DEF IInv

LEMMA InvPartitionBucket ==
  ASSUME IInv, PartitionBucket
  PROVE  IInv'
<1>1. PICK s, q :
        /\ s = Opened(s1) /\ q = get_corresponding_worker_id(BucketEnd(bucket))
        /\ pc = "partition" /\ bucket \in Hs /\ bucket' = bucket + 1
        /\ UNCHANGED <<host, strategy, array, worker, ptrs, temp>>
        /\ \/ Elements(bucket) = 0 /\ UNCHANGED <<s1, m1, pc>>
           \/ /\ Elements(bucket) > 0 /\ ~(cwp_id(s) < host.worker_count /\ q <= host.worker_count)
              /\ pc' = "undefined" /\ UNCHANGED <<s1, m1>>
           \/ /\ Elements(bucket) > 0 /\ cwp_id(s) < host.worker_count /\ q <= host.worker_count
              /\ q - 1 > cwp_id(s)
              /\ s1' = Dealt(s, Elements(bucket), q)
              /\ m1' = Append(m1, BucketJob(s, bucket, q)) /\ pc' = pc
           \/ /\ Elements(bucket) > 0 /\ cwp_id(s) < host.worker_count /\ q <= host.worker_count
              /\ q - 1 <= cwp_id(s)
              /\ s1' = [s EXCEPT ![cwp_id(s)].element_in_partition = @ + Elements(bucket)]
              /\ m1' = m1 /\ pc' = pc
  BY DEF PartitionBucket
<1>2. Phases /\ PartsInv /\ BucketsInOrder /\ PartsSorted /\ JobsInv /\ HeldTogether
  BY DEF IInv
<1>3. /\ host \in Hosts /\ strategy = "two_step_sort" /\ SetUp /\ array \in [Index -> Value]
      /\ worker = 0 /\ ptrs = <<>> /\ temp = <<>> /\ PartEnd(LastPart) = BucketStart(bucket)
      /\ worker \in 0 .. host.worker_count /\ temp \in Seq(Value)
  BY <1>1, <1>2 DEF Phases
<1>4. PICK n \in Nat \ {0}, m \in Nat \ {0} : n = host.worker_count /\ m = worker_mem_size_elems
  BY <1>3, HostFacts
<1>5. InOrder(array)
  BY <1>2, <1>3 DEF BucketsInOrder
<1>6. bucket \in Nat /\ get_h_at(T_MAX) \in Nat /\ bucket + 1 \in 0 .. get_h_at(T_MAX) + 1
  BY <1>1, ConstantFacts DEF Hs
<1>7. PICK start, end : start = BucketStart(bucket) /\ end = BucketEnd(bucket)
  OBVIOUS
<1>8. start \in 0 .. N /\ end \in start .. N /\ N \in Nat
  BY <1>3, <1>5, <1>6, <1>7, BucketPlaces, ConstantFacts
<1>9. PICK e \in Nat : e = Elements(bucket) /\ end = start + e
  BY <1>7, <1>8 DEF Elements
<1>10. PICK k : /\ k = cwp_id(s1) /\ FullParts(s1, k, m) /\ k \in 0 .. n - 1
                /\ k # 0 => s1[k].element_in_partition > 0
  BY <1>2, <1>3, <1>4 DEF PartsInv, LastPart
<1>11. PartEnd(s1[k]) = start
  BY <1>3, <1>7, <1>10 DEF LastPart
<1>12. PICK l \in Nat : /\ l = cwp_id(s) /\ Open(s, l, m)
                        /\ PartEnd(s[l]) = start /\ Grown(s1, s)
  BY <1>1, <1>3, <1>4, <1>10, <1>11, OpenedParts
<1>13. q \in Nat /\ end <= q * m /\ q * m < end + m
  <2>1. end \in Nat
    BY <1>8
  <2>2. q = (end + m - 1) \div m
    BY <1>1, <1>4, <1>7 DEF get_corresponding_worker_id
  <2>3. QED BY <2>1, <2>2, RoundedUp
<1>14. CASE e = 0
  <2>1. UNCHANGED <<s1, m1, pc>>
    BY <1>1, <1>9, <1>14
  <2>2. Grown(s1, s1')
    BY <2>1 DEF Grown
  <2>3. start .. end - 1 \subseteq Places(s1'[k])
    BY <1>8, <1>9, <1>14
  <2>4. k \in Nat /\ k <= host.worker_count - 1
    BY <1>4, <1>10
  <2>5. FullParts(s1', k, worker_mem_size_elems) /\ PartEnd(s1'[k]) = BucketEnd(bucket)
    BY <1>4, <1>7, <1>8, <1>9, <1>10, <1>11, <1>14, <2>1
  <2>6. k # 0 => s1'[k].element_in_partition > 0
    BY <1>10, <2>1
  <2>7. QED BY <1>1, <1>7, <2>1, <2>2, <2>3, <2>4, <2>5, <2>6, InvDealt
<1>15. CASE e > 0 /\ ~(l < n /\ q <= n)
  <2>1. pc' = "undefined" /\ UNCHANGED <<s1, m1>>
    BY <1>1, <1>4, <1>9, <1>12, <1>15
  <2>2. N > n * m
    <3> SUFFICES ASSUME N <= n * m
                 PROVE  FALSE
      <4>1. n * m \in Nat
        OBVIOUS
      <4>2. QED BY <1>8, <4>1
    <3>1. PICK p \in Nat : p = n * m
      OBVIOUS
    <3>2. CASE l >= n
      <4>1. n * m <= l * m /\ l * m \in Nat
        BY <3>2, TimesInOrder
      <4>2. PICK b \in Nat, i \in Nat : b = l * m /\ i = s[l].element_in_partition /\ s[l] = Part(b, i)
        <5>1. l * m \in Nat
          BY <4>1
        <5>2. s[l].element_in_partition \in Nat /\ s[l] = Part(l * m, s[l].element_in_partition)
          BY <1>12 DEF Open, FullParts
        <5>3. QED BY <5>1, <5>2
      <4>3. start = b + i
        <5>1. PartEnd(Part(b, i)) = b + i
          BY PlacesOfPart
        <5>2. QED BY <1>12, <4>2, <5>1
      <4>4. p <= b /\ N <= p
        BY <3>1, <4>1, <4>2
      <4>5. end = b + i + e /\ end <= N
        BY <1>8, <1>9, <4>3
      <4>6. QED BY <1>8, <1>15, <4>4, <4>5
    <3>3. CASE q > n
      <4>1. (n + 1) * m <= q * m /\ (n + 1) * m = p + m /\ q * m \in Nat
        BY <1>13, <3>1, <3>3, TimesInOrder, OneMoreTime
      <4>2. QED BY <1>8, <1>13, <3>1, <4>1
    <3>4. QED BY <1>13, <1>15, <3>2, <3>3
  <2>3. SetUp' = SetUp
    BY <2>1 DEF SetUp
  <2>4. Phases'
    BY <1>1, <1>2, <1>3, <1>6, <2>1, <2>3 DEF Phases, Labels, Strategies, Divided
  <2>5. MergeInv'
    BY <1>1, <1>3, <2>1 DEF MergeInv
  <2>6. SizeInv'
    <3>1. worker_mem_size_elems' = m
      BY <1>1, <1>4 DEF worker_mem_size_elems
    <3>2. ~(N <= n * m)
      <4>1. n * m \in Nat
        OBVIOUS
      <4>2. QED BY <1>8, <2>2, <4>1
    <3>3. QED BY <1>1, <1>4, <3>1, <3>2 DEF SizeInv
  <2>7. QED BY <1>1, <1>2, <2>1, <2>4, <2>5, <2>6, PartsKept, OrderKept, SortedKept, JobsKept, HeldKept
            DEF IInv
<1>16. CASE e > 0 /\ l < n /\ q <= n /\ q - 1 > l
  <2>1. s1' = Dealt(s, e, q) /\ m1' = Append(m1, BucketJob(s, bucket, q)) /\ pc' = pc
    BY <1>1, <1>4, <1>9, <1>12, <1>13, <1>16
  <2>2. PICK t : t = s1'
    OBVIOUS
  <2>3. /\ FullParts(t, q - 1, m) /\ t[q - 1].element_in_partition > 0
        /\ PartEnd(t[q - 1]) = end /\ Grown(s, t)
        /\ start \in Places(t[l]) /\ end - 1 \in Places(t[q - 1])
    BY <1>3, <1>4, <1>9, <1>12, <1>13, <1>16, <2>1, <2>2, DealtParts, SMTT(30)
  <2>4. PICK jb : jb = Job(l, q, start, end)
    OBVIOUS
  <2>5. m1' = Append(m1, jb)
    BY <1>7, <1>12, <2>1, <2>4 DEF BucketJob
  <2>6. jb.w_first = l /\ jb.w_last = q /\ jb.start = start /\ jb.end = end
    BY <2>4 DEF Job
  <2>7. JobFits(jb, t)
    <3>1. l \in Nat /\ q \in Nat /\ start \in Nat /\ end \in Nat /\ start < end /\ end <= N
      BY <1>8, <1>9, <1>13, <1>16
    <3>2. jb \in JobRecords
      BY <2>4, <3>1 DEF Job, JobRecords
    <3>3. l \in 0 .. q - 1 /\ q - 1 \in 0 .. q - 1 /\ l < q
      BY <1>13, <1>16
    <3>4. DOMAIN t = 0 .. q - 1
      BY <2>3 DEF FullParts
    <3>5. QED BY <2>3, <2>6, <3>1, <3>2, <3>3, <3>4 DEF JobFits
  <2>8. JobPlaces(jb) = start .. end - 1
    BY <2>6 DEF JobPlaces
  <2>9. Grown(s1, t)
    BY <1>12, <2>3 DEF Grown
  <2>10. PICK r \in Nat : r = q - 1 /\ r <= host.worker_count - 1
    BY <1>4, <1>13, <1>16
  <2>11. FullParts(s1', r, worker_mem_size_elems) /\ s1'[r].element_in_partition > 0
    BY <1>4, <2>2, <2>3, <2>10
  <2>12. PartEnd(s1'[r]) = BucketEnd(bucket) /\ Grown(s1, s1')
    BY <1>7, <2>2, <2>3, <2>9, <2>10
  <2>13. \E j : /\ m1' = Append(m1, j) /\ JobFits(j, s1')
                /\ JobPlaces(j) = BucketStart(bucket) .. BucketEnd(bucket) - 1
    BY <1>7, <2>2, <2>5, <2>7, <2>8
  <2>14. QED BY <1>1, <2>1, <2>10, <2>11, <2>12, <2>13, InvDealt
<1>17. CASE e > 0 /\ l < n /\ q <= n /\ q - 1 <= l
  <2>1. s1' = [s EXCEPT ![l].element_in_partition = @ + e] /\ m1' = m1 /\ pc' = pc
    BY <1>1, <1>4, <1>9, <1>12, <1>13, <1>17
  <2>2. PICK t : t = s1'
    OBVIOUS
  <2>3. end <= (l + 1) * m
    <3>1. q <= l + 1 /\ l + 1 \in Nat
      BY <1>13, <1>17
    <3>2. q * m \in Nat /\ (l + 1) * m \in Nat /\ q * m <= (l + 1) * m
      BY <1>13, <3>1, TimesInOrder
    <3>3. QED BY <1>8, <1>13, <3>2
  <2>4. /\ FullParts(t, l, m) /\ t[l].element_in_partition > 0
        /\ PartEnd(t[l]) = end /\ Grown(s, t) /\ start .. end - 1 \subseteq Places(t[l])
    <3>1. e \in Nat \ {0} /\ end = PartEnd(s[l]) + e
      BY <1>9, <1>12, <1>17
    <3>2. t = Extended(s, l, e)
      BY <2>1, <2>2 DEF Extended
    <3>3. Open(s, l, m)
      BY <1>12
    <3>4. /\ FullParts(t, l, m) /\ t[l].element_in_partition > 0
          /\ PartEnd(t[l]) = end /\ Grown(s, t) /\ PartEnd(s[l]) .. end - 1 \subseteq Places(t[l])
      BY <2>3, <3>1, <3>2, <3>3, ExtendedParts
    <3>5. QED BY <1>12, <3>4
  <2>5. Grown(s1, t)
    BY <1>12, <2>4 DEF Grown
  <2>6. l <= host.worker_count - 1
    BY <1>4, <1>17
  <2>7. FullParts(s1', l, worker_mem_size_elems) /\ s1'[l].element_in_partition > 0
    BY <1>4, <2>2, <2>4
  <2>8. PartEnd(s1'[l]) = BucketEnd(bucket) /\ Grown(s1, s1')
    BY <1>7, <2>2, <2>4, <2>5
  <2>9. BucketStart(bucket) .. BucketEnd(bucket) - 1 \subseteq Places(s1'[l])
    BY <1>7, <2>2, <2>4
  <2>10. QED BY <1>1, <2>1, <2>6, <2>7, <2>8, <2>9, InvDealt
<1>18. QED
  BY <1>4, <1>9, <1>12, <1>13, <1>14, <1>15, <1>16, <1>17

LEMMA InvPartitioned ==
  ASSUME IInv, Partitioned
  PROVE  IInv'
<1>1. /\ pc = "partition" /\ bucket \notin Hs /\ pc' = "sort"
      /\ UNCHANGED <<host, strategy, array, bucket, s1, m1, worker, ptrs, temp>>
  BY DEF Partitioned
<1>2. Phases /\ PartsInv /\ BucketsInOrder /\ PartsSorted /\ JobsInv /\ HeldTogether
  BY DEF IInv
<1>3. /\ host \in Hosts /\ strategy = "two_step_sort" /\ SetUp /\ array \in [Index -> Value]
      /\ ptrs = <<>> /\ temp = <<>> /\ PartEnd(LastPart) = BucketStart(bucket)
      /\ bucket \in 0 .. get_h_at(T_MAX) + 1
  BY <1>1, <1>2 DEF Phases
<1>4. bucket = get_h_at(T_MAX) + 1
  <2>1. get_h_at(T_MAX) \in Nat
    BY ConstantFacts
  <2>2. QED BY <1>1, <1>3, <2>1 DEF Hs
<1>5. InOrder(array)
  BY <1>2, <1>3 DEF BucketsInOrder
<1>6. PartEnd(LastPart) = N
  BY <1>3, <1>4, <1>5, BucketsFollow
<1>7. SetUp' = SetUp /\ LastPart' = LastPart
  BY <1>1 DEF SetUp, LastPart
<1>8. Phases'
  BY <1>1, <1>2, <1>3, <1>6, <1>7 DEF Phases, Labels, Strategies, Divided
<1>9. MergeInv' /\ SizeInv'
  BY <1>1 DEF MergeInv, SizeInv
<1>10. QED BY <1>1, <1>2, <1>8, <1>9, PartsKept, OrderKept, SortedKept, JobsKept, HeldKept DEF IInv

(***************************************************************************)
(* The workers sort.                                                       *)
(***************************************************************************)
LEMMA IndexIsFinite ==
  IsFiniteSet(Index) /\ Index \subseteq Int /\ \A D : D \subseteq Index => IsFiniteSet(D)
<1>1. N \in Nat
  BY ConstantFacts
<1>2. 0 \in Int /\ N - 1 \in Int
  BY <1>1
<1>3. IsFiniteSet(0 .. N - 1)
  BY <1>2, FS_Interval
<1>4. Index = 0 .. N - 1 /\ Index \subseteq Int
  BY <1>1 DEF Index
<1>5. QED BY <1>3, <1>4, FS_Subset

\* What a part holds when it has been sorted.
SortedFrom(a, D, b) ==
  /\ b \in [D -> Value]
  /\ \A x, y \in D : x < y => b[x] <= b[y]
  /\ Rearranged(D, a, D, b)
  /\ \A x \in D : \E z \in D : b[x] = a[z]

LEMMA SortedPart ==
  ASSUME NEW a, NEW p, NEW D, D = Places(p), D \subseteq Index, NEW b \in SortsOf(a, p)
  PROVE  SortedFrom(a, D, b)
<1>1. /\ b \in [D -> Value] /\ Sorted(b) /\ SameElements([x \in D |-> a[x]], b)
  BY DEF SortsOf
<1>2. \A x, y \in D : x < y => b[x] <= b[y]
  BY <1>1 DEF Sorted
<1>3. PICK c : c = [x \in D |-> a[x]]
  OBVIOUS
<1>4. IsFiniteSet(D)
  BY IndexIsFinite
<1>5. Rearranged(D, c, D, b)
  <2>1. DOMAIN c = D /\ DOMAIN b = D /\ SameElements(c, b)
    BY <1>1, <1>3
  <2>2. QED BY <1>4, <2>1, RearrangedSame
<1>6. \A x \in D : a[x] = c[x]
  BY <1>3
<1>7. Rearranged(D, a, D, b)
  BY <1>5, <1>6, RearrangedReflexive, RearrangedTransitive
<1>8. \A x \in D : \E z \in D : b[x] = a[z]
  BY <1>7 DEF Rearranged, OneToOne
<1>9. QED BY <1>1, <1>2, <1>7, <1>8 DEF SortedFrom

\* Sorting moves no element to where one of another bucket was.
LEMMA SortedKeepsBuckets ==
  ASSUME NEW a \in [Index -> Value], InOrder(a), NEW D, D \subseteq Index, NEW b, SortedFrom(a, D, b)
  PROVE  \A x \in D : get_h_at(b[x]) = get_h_at(a[x])
<1>1. /\ b \in [D -> Value]
      /\ \A x, y \in D : x < y => b[x] <= b[y]
      /\ Rearranged(D, a, D, b)
  BY DEF SortedFrom
<1> DEFINE f == [x \in D |-> get_h_at(a[x])]
           g == [x \in D |-> get_h_at(b[x])]
<1>2. \A x \in D : f[x] = get_h_at(a[x]) /\ g[x] = get_h_at(b[x])
  OBVIOUS
<1> HIDE DEF f, g
<1>3. \A x \in D : a[x] \in Value /\ b[x] \in Value
  BY <1>1
<1>4. \A x \in D : f[x] \in Int /\ g[x] \in Int
  <2>1. \A v \in Value : get_h_at(v) \in Int
    BY BucketOfValue
  <2>2. QED BY <1>2, <1>3, <2>1
<1>5. \A x, y \in D : x < y => f[x] <= f[y]
  BY <1>2 DEF InOrder
<1>6. \A x, y \in D : x < y => g[x] <= g[y]
  <2>1. \A u, v \in Value : u <= v => get_h_at(u) <= get_h_at(v)
    BY BucketOfValue
  <2>2. ASSUME NEW x \in D, NEW y \in D, x < y
        PROVE  g[x] <= g[y]
    <3>1. b[x] <= b[y] /\ b[x] \in Value /\ b[y] \in Value
      BY <1>1, <1>3, <2>2
    <3>2. get_h_at(b[x]) <= get_h_at(b[y])
      BY <2>1, <3>1
    <3>3. QED BY <1>2, <3>2
  <2>3. QED BY <2>2
<1>7. Rearranged(D, f, D, g)
  <2>1. PICK h : OneToOne(h, D, D) /\ \A x \in D : a[x] = b[h[x]]
    BY <1>1 DEF Rearranged
  <2>2. \A x \in D : h[x] \in D
    BY <2>1 DEF OneToOne
  <2>3. \A x \in D : f[x] = g[h[x]]
    BY <1>2, <2>1, <2>2
  <2>4. QED BY <2>1, <2>3 DEF Rearranged
<1>8. IsFiniteSet(D) /\ \A x \in D : x \in Int
  BY IndexIsFinite
<1>9. \A x, y \in D : x < y => f[x] <= f[y] /\ g[x] <= g[y]
  BY <1>5, <1>6
<1>10. \A x \in D : f[x] = g[x]
  <2>1. BothSorted(D, f, g)
    BY <1>4, <1>9 DEF BothSorted
  <2>2. QED BY <1>7, <1>8, <2>1, SortedOnce
<1>11. QED BY <1>2, <1>10

\* A part that is sorted, and the array around it.
Around(a, D, b) == [x \in Index |-> IF x \in D THEN b[x] ELSE a[x]]

IsAround(c, a, D, b) ==
  /\ c \in [Index -> Value]
  /\ \A x \in D : c[x] = b[x]
  /\ \A x \in Index : x \notin D => c[x] = a[x]
  /\ Rearranged(Index, a, Index, c)
  /\ InOrder(a) => \A x \in Index : get_h_at(c[x]) = get_h_at(a[x])

LEMMA AroundPart ==
  ASSUME NEW a \in [Index -> Value], NEW D, D \subseteq Index, NEW b, SortedFrom(a, D, b)
  PROVE  IsAround(Around(a, D, b), a, D, b)
<1> DEFINE c == Around(a, D, b)
<1>1. b \in [D -> Value] /\ Rearranged(D, a, D, b)
  BY DEF SortedFrom
<1>2. /\ \A x \in D : c[x] = b[x]
      /\ \A x \in Index : x \notin D => c[x] = a[x]
  BY DEF Around
<1>3. c \in [Index -> Value]
  BY <1>1 DEF Around
<1> HIDE DEF c
<1>4. Rearranged(Index, a, Index, c)
  <2>1. Rearranged(D, b, D, c)
    BY <1>2, RearrangedReflexive
  <2>2. Rearranged(D, a, D, c)
    BY <1>1, <2>1, RearrangedTransitive
  <2>3. PICK E : E = Index \ D
    OBVIOUS
  <2>4. \A x \in E : a[x] = c[x]
    BY <1>2, <2>3
  <2>5. Rearranged(E, a, E, c)
    BY <2>4, RearrangedReflexive
  <2>6. D \cap E = {} /\ D \cup E = Index
    BY <2>3
  <2>7. Rearranged(D \cup E, a, D \cup E, c)
    BY <2>2, <2>5, <2>6, RearrangedUnion
  <2>8. QED BY <2>6, <2>7
<1>5. ASSUME InOrder(a)
      PROVE  \A x \in Index : get_h_at(c[x]) = get_h_at(a[x])
  <2>1. \A x \in D : get_h_at(b[x]) = get_h_at(a[x])
    BY <1>5, SortedKeepsBuckets
  <2>2. QED BY <1>2, <2>1
<1>6. IsAround(c, a, D, b)
  BY <1>2, <1>3, <1>4, <1>5 DEF IsAround
<1>7. QED BY <1>6 DEF c

\* What lies on one side of a part lies on that side of all of it.
LEMMA BesidePart ==
  ASSUME NEW s, NEW k, NEW end, Tiles(s, k, end), end <= N, NEW w \in 0 .. k,
         NEW x \in Index, NEW y \in Index, NEW z \in Places(s[w])
  PROVE  /\ z \in Index /\ Places(s[w]) \subseteq Index
         /\ x < y /\ x \in Places(s[w]) /\ y \notin Places(s[w]) => z < y
         /\ x < y /\ y \in Places(s[w]) /\ x \notin Places(s[w]) => x < z
<1>1. PICK a \in Nat, b \in Nat : s[w].input = a /\ s[w].element_in_partition = b
  <2>1. s[w] \in [input : Nat, element_in_partition : Nat]
    BY DEF Tiles
  <2>2. s[w].input \in Nat /\ s[w].element_in_partition \in Nat
    BY <2>1
  <2>3. QED BY <2>2
<1>2. PartEnd(s[w]) = a + b
  BY <1>1 DEF PartEnd
<1>3. Places(s[w]) = a .. (a + b) - 1
  BY <1>1, <1>2 DEF Places
<1>4. a + b <= end /\ end \in Nat /\ N \in Nat
  BY <1>2, ConstantFacts DEF Tiles
<1>5. Places(s[w]) \subseteq Index
  BY <1>3, <1>4 DEF Index
<1>6. x \in Int /\ y \in Int /\ z \in Int
  BY <1>4, <1>5 DEF Index
<1>7. QED BY <1>3, <1>5, <1>6

LEMMA InvWorkerSorts ==
  ASSUME IInv, pc = "sort", worker \in DOMAIN s1, s1[worker].element_in_partition > 0,
         NEW b \in SortsOf(array, s1[worker]),
         array' = [x \in Index |-> IF x \in Places(s1[worker]) THEN b[x] ELSE array[x]],
         worker' = worker + 1,
         UNCHANGED <<host, strategy, bucket, s1, m1, ptrs, temp, pc>>
  PROVE  IInv'
<1>1. /\ host' = host /\ strategy' = strategy /\ bucket' = bucket /\ s1' = s1 /\ m1' = m1
      /\ ptrs' = ptrs /\ temp' = temp /\ pc' = pc
  OBVIOUS
<1>2. Phases /\ PartsInv /\ BucketsInOrder /\ PartsSorted /\ JobsInv /\ HeldTogether
  BY DEF IInv
<1>3. /\ host \in Hosts /\ strategy \in Strategies /\ SetUp /\ PartEnd(LastPart) = N
      /\ array \in [Index -> Value] /\ worker \in 0 .. host.worker_count
      /\ bucket \in 0 .. get_h_at(T_MAX) + 1 /\ temp \in Seq(Value) /\ ptrs = <<>> /\ temp = <<>>
  BY <1>2 DEF Phases, Divided
<1>4. PICK k : k = cwp_id(s1)
  OBVIOUS
<1>5. Tiles(s1, k, N) /\ k \in 0 .. host.worker_count - 1
  BY <1>2, <1>3, <1>4, PartsTile
<1>6. DOMAIN s1 = 0 .. k /\ k \in Nat /\ N \in Nat /\ N <= N
  BY <1>5, ConstantFacts DEF Tiles
<1>7. PICK D : D = Places(s1[worker])
  OBVIOUS
<1>8. /\ D \subseteq Index
      /\ \A x, y \in Index, z \in D :
           /\ x < y /\ x \in D /\ y \notin D => z < y
           /\ x < y /\ y \in D /\ x \notin D => x < z
  <2>1. \A x, y \in Index, z \in D :
           /\ z \in Index
           /\ x < y /\ x \in D /\ y \notin D => z < y
           /\ x < y /\ y \in D /\ x \notin D => x < z
    BY <1>5, <1>6, <1>7, BesidePart
  <2>2. D \subseteq Index
    <3>1. \A z \in D : z \in 0 .. N - 1
      BY <1>5, <1>6, <1>7, TilesApart
    <3>2. QED BY <3>1 DEF Index
  <2>3. QED BY <2>1, <2>2
<1>9. SortedFrom(array, D, b)
  BY <1>7, <1>8, SortedPart
<1>10. PICK c : c = array'
  OBVIOUS
<1>11. c = Around(array, D, b)
  BY <1>7, <1>10 DEF Around
<1>12. /\ c \in [Index -> Value]
       /\ \A x \in D : c[x] = b[x]
       /\ \A x \in Index : x \notin D => c[x] = array[x]
       /\ InOrder(array) => \A x \in Index : get_h_at(c[x]) = get_h_at(array[x])
  <2>1. IsAround(c, array, D, b)
    BY <1>3, <1>8, <1>9, <1>11, AroundPart
  <2>2. QED BY <2>1 DEF IsAround
<1>13. /\ \A x, y \in D : x < y => b[x] <= b[y]
       /\ \A x \in D : \E z \in D : b[x] = array[z]
  BY <1>9 DEF SortedFrom
<1>14. worker \in 0 .. k /\ worker + 1 \in 0 .. host.worker_count
  <2>1. host.worker_count \in Nat
    BY <1>3, HostFacts
  <2>2. QED BY <1>5, <1>6, <2>1
<1>15. SetUp' = SetUp /\ LastPart' = LastPart
  BY <1>1 DEF SetUp, LastPart
<1>16. Phases'
  BY <1>1, <1>3, <1>10, <1>12, <1>14, <1>15 DEF Phases, Labels, Strategies, Divided
<1>17. strategy = "two_step_sort" => InOrder(array) /\ InOrder(c) /\
                                     \A x \in Index : get_h_at(c[x]) = get_h_at(array[x])
  BY <1>2, <1>3, <1>12 DEF BucketsInOrder, InOrder
<1>18. BucketsInOrder'
  BY <1>1, <1>10, <1>17 DEF BucketsInOrder
<1>19. PartsSorted'
  <2>1. ASSUME NEW w \in 0 .. k, w < worker + 1, NEW x \in Places(s1[w]), NEW y \in Places(s1[w]), x < y
        PROVE  c[x] <= c[y]
    <3>1. CASE w = worker
      BY <1>7, <1>12, <1>13, <2>1, <3>1
    <3>2. CASE w # worker
      <4>1. w < worker
        BY <1>14, <2>1, <3>2
      <4>2. array[x] <= array[y]
        BY <1>2, <1>6, <2>1, <4>1 DEF PartsSorted
      <4>3. \A z \in Places(s1[w]) : z \in 0 .. N - 1 /\ z \notin D
        <5> TAKE z \in Places(s1[w])
        <5>1. z \in 0 .. N - 1
          BY <1>5, TilesApart
        <5>2. z \notin D
          BY <1>5, <1>7, <1>14, <3>2, TilesApart
        <5>3. QED BY <5>1, <5>2
      <4>4. c[x] = array[x] /\ c[y] = array[y]
        BY <1>12, <4>3 DEF Index
      <4>5. QED BY <4>2, <4>4
    <3>3. QED BY <3>1, <3>2
  <2>2. \A w \in 0 .. k : w < worker + 1 => s1[w].element_in_partition > 0
    <3> TAKE w \in 0 .. k
    <3>1. w < worker + 1 => w = worker \/ w < worker
      BY <1>14
    <3>2. QED BY <1>2, <1>6, <3>1 DEF PartsSorted
  <2>3. QED BY <1>1, <1>6, <1>10, <2>1, <2>2 DEF PartsSorted
<1>20. JobsInv'
  <2>1. SetUp' = SetUp
    BY <1>1 DEF SetUp
  <2>2. strategy = "two_step_sort" => \A j : IsBucket(j, array) => IsBucket(j, c)
    BY <1>17 DEF IsBucket
  <2>3. QED BY <1>1, <1>2, <1>10, <2>1, <2>2 DEF JobsInv
<1>21. HeldTogether'
  <2>1. ASSUME NEW x \in Index, NEW y \in Index, x < y, c[x] > c[y]
        PROVE  \/ \E w \in DOMAIN s1 : w >= worker + 1 /\ {x, y} \subseteq Places(s1[w])
               \/ \E i \in DOMAIN m1 : {x, y} \subseteq JobPlaces(m1[i])
    <3>1. CASE strategy = "partition_and_merge"
      <4>1. m1 = <<Job(0, host.worker_count, 0, N)>>
        BY <1>2, <1>3, <3>1 DEF JobsInv
      <4>2. 1 \in DOMAIN m1 /\ JobPlaces(m1[1]) = Index
        BY <4>1 DEF JobPlaces, Job, Index
      <4>3. QED BY <2>1, <4>2
    <3>2. CASE strategy = "two_step_sort"
      <4>1. \A u, v \in Index : u < v /\ array[u] > array[v] =>
              \/ \E w \in DOMAIN s1 : w >= worker /\ {u, v} \subseteq Places(s1[w])
              \/ \E i \in DOMAIN m1 : {u, v} \subseteq JobPlaces(m1[i])
        <5>1. \A v \in Index : v < N
          BY <1>6 DEF Index
        <5>2. QED BY <1>2, <1>3, <5>1 DEF HeldTogether
      <4>2. \A i \in DOMAIN m1 : IsBucket(m1[i], array)
        BY <1>2, <3>2 DEF JobsInv
      <4>3. /\ InOrder(c)
            /\ \A z \in Index : get_h_at(c[z]) = get_h_at(array[z])
        BY <1>17, <3>2
      <4>4. get_h_at(array[x]) = get_h_at(array[y])
        BY <1>12, <2>1, <4>3, SameBucket
      <4>5. \A w \in 0 .. k, z \in D : z \in Places(s1[w]) => w = worker
        BY <1>5, <1>7, <1>14, TilesApart
      <4>6. \A i \in DOMAIN m1, u, v \in Index :
              get_h_at(array[u]) = get_h_at(array[v]) /\ u \in JobPlaces(m1[i]) => v \in JobPlaces(m1[i])
        BY <4>2 DEF IsBucket
      <4>7. CASE x \in D /\ y \in D
        <5>1. c[x] <= c[y] /\ c[x] \in Value /\ c[y] \in Value
          BY <1>12, <1>13, <2>1, <4>7
        <5>2. c[x] \in Nat /\ c[y] \in Nat
          BY <5>1, BucketOfValue
        <5>3. QED BY <2>1, <5>1, <5>2
      <4>8. CASE x \notin D /\ y \notin D
        <5>1. c[x] = array[x] /\ c[y] = array[y]
          BY <1>12, <4>8
        <5>2. \/ \E w \in DOMAIN s1 : w >= worker /\ {x, y} \subseteq Places(s1[w])
              \/ \E i \in DOMAIN m1 : {x, y} \subseteq JobPlaces(m1[i])
          BY <2>1, <4>1, <5>1
        <5>3. ASSUME NEW w \in 0 .. k, w >= worker, {x, y} \subseteq Places(s1[w])
              PROVE  w >= worker + 1
          <6>1. w # worker
            BY <1>7, <4>8, <5>3
          <6>2. QED BY <1>14, <5>3, <6>1
        <5>4. QED BY <1>6, <5>2, <5>3
      <4>9. CASE x \in D /\ y \notin D
        <5>1. PICK z \in D : b[x] = array[z]
          BY <1>13, <4>9
        <5>2. z < y /\ z \in Index
          BY <1>8, <2>1, <4>9
        <5>3. array[z] > array[y]
          BY <1>12, <2>1, <4>9, <5>1
        <5>4. ~ \E w \in DOMAIN s1 : {z, y} \subseteq Places(s1[w])
          BY <1>6, <1>7, <4>5, <4>9
        <5>5. PICK i \in DOMAIN m1 : {z, y} \subseteq JobPlaces(m1[i])
          BY <4>1, <5>2, <5>3, <5>4
        <5>6. x \in JobPlaces(m1[i])
          BY <4>4, <4>6, <5>5
        <5>7. QED BY <5>5, <5>6
      <4>10. CASE x \notin D /\ y \in D
        <5>1. PICK z \in D : b[y] = array[z]
          BY <1>13, <4>10
        <5>2. x < z /\ z \in Index
          BY <1>8, <2>1, <4>10
        <5>3. array[x] > array[z]
          BY <1>12, <2>1, <4>10, <5>1
        <5>4. ~ \E w \in DOMAIN s1 : {x, z} \subseteq Places(s1[w])
          BY <1>6, <1>7, <4>5, <4>10
        <5>5. PICK i \in DOMAIN m1 : {x, z} \subseteq JobPlaces(m1[i])
          BY <4>1, <5>2, <5>3, <5>4
        <5>6. y \in JobPlaces(m1[i])
          BY <4>4, <4>6, <5>5
        <5>7. QED BY <5>5, <5>6
      <4>11. QED BY <4>7, <4>8, <4>9, <4>10
    <3>3. QED BY <1>3, <3>1, <3>2 DEF Strategies
  <2>2. QED BY <1>1, <1>10, <2>1 DEF HeldTogether
<1>22. MergeInv' /\ SizeInv'
  BY <1>1 DEF MergeInv, SizeInv
<1>23. QED BY <1>1, <1>2, <1>16, <1>18, <1>19, <1>20, <1>21, <1>22, PartsKept DEF IInv

\* With enough memory every part fits into its worker's.
LEMMA PartsFit ==
  ASSUME Phases, PartsInv, SetUp, N <= host.worker_count * worker_mem_size_elems
  PROVE  \A w \in DOMAIN s1 : s1[w].element_in_partition <= worker_mem_size_elems
<1>1. host \in Hosts /\ strategy \in Strategies
  BY DEF Phases
<1>2. PICK n \in Nat \ {0}, m \in Nat \ {0} : n = host.worker_count /\ m = worker_mem_size_elems
  BY <1>1, HostFacts
<1>3. CASE strategy = "two_step_sort"
  <2>1. PICK k : FullParts(s1, k, m)
    BY <1>2, <1>3 DEF PartsInv
  <2>2. /\ k \in Nat /\ DOMAIN s1 = 0 .. k
        /\ \A w \in 0 .. k - 1 : s1[w] = Part(w * m, m)
        /\ s1[k].element_in_partition \in 0 .. m
    BY <2>1 DEF FullParts
  <2>3. ASSUME NEW w \in 0 .. k
        PROVE  s1[w].element_in_partition <= m
    <3>1. CASE w = k
      BY <2>2, <3>1
    <3>2. CASE w # k
      <4>1. w \in 0 .. k - 1
        BY <2>2, <3>2
      <4>2. PICK p : p = w * m
        OBVIOUS
      <4>3. s1[w] = Part(p, m)
        BY <2>2, <4>1, <4>2
      <4>4. s1[w].element_in_partition = m
        BY <4>3 DEF Part
      <4>5. QED BY <4>4
    <3>3. QED BY <3>1, <3>2
  <2>4. QED BY <1>2, <2>2, <2>3
<1>4. CASE strategy = "partition_and_merge"
  <2>1. N \in Nat
    BY ConstantFacts
  <2>2. PICK q \in Nat, r \in Nat : q = N \div n /\ r = N % n /\ N = n * q + r
    <3>1. N \div n \in Nat /\ N % n \in 0 .. n - 1 /\ N = n * (N \div n) + (N % n)
      BY <2>1, Quotient
    <3>2. N % n \in Nat
      BY <3>1
    <3>3. QED BY <3>1, <3>2
  <2>3. \A w \in DOMAIN s1 : s1[w].element_in_partition = q + (IF w < r THEN 1 ELSE 0) /\ w >= 0 /\ w \in Int
    <3>1. s1 = [w \in 0 .. n - 1 |-> EqualPart(w)]
      BY <1>2, <1>4 DEF PartsInv
    <3>2. \A w : EqualPart(w).element_in_partition = q + (IF w < r THEN 1 ELSE 0)
      BY <1>2, <2>2 DEF EqualPart, Part
    <3>3. QED BY <3>1, <3>2
  <2>4. PICK p \in Nat : p = n * m
    OBVIOUS
  <2>5. PICK d \in Nat : d = n * q
    OBVIOUS
  <2>6. d + r <= p
    BY <1>2, <2>2, <2>4, <2>5
  <2>7. ~(q > m)
    <3> SUFFICES ASSUME q > m
                 PROVE  FALSE
      OBVIOUS
    <3>1. (m + 1) * n <= q * n /\ (m + 1) * n = m * n + n
      BY TimesInOrder, OneMoreTime
    <3>2. m * n = p /\ q * n = d
      BY <2>4, <2>5
    <3>3. p + n <= d
      BY <3>1, <3>2
    <3>4. QED BY <2>6, <3>3
  <2>8. r > 0 => q # m
    BY <2>4, <2>5, <2>6
  <2>9. \A w \in DOMAIN s1 : q + (IF w < r THEN 1 ELSE 0) <= m
    BY <2>3, <2>7, <2>8
  <2>10. QED BY <1>2, <2>3, <2>9
<1>5. QED BY <1>1, <1>3, <1>4 DEF Strategies

\* Only equal parts of too few elements can be empty.
LEMMA EmptyPart ==
  ASSUME Phases, PartsInv, SetUp, PartEnd(LastPart) = N,
         NEW w \in DOMAIN s1, s1[w].element_in_partition = 0
  PROVE  strategy = "partition_and_merge" /\ N < host.worker_count
<1>1. host \in Hosts /\ strategy \in Strategies
  BY DEF Phases
<1>2. PICK n \in Nat \ {0}, m \in Nat \ {0} : n = host.worker_count /\ m = worker_mem_size_elems
  BY <1>1, HostFacts
<1>3. N \in Nat \ {0}
  BY ConstantFacts
<1>4. ASSUME strategy = "two_step_sort"
      PROVE  FALSE
  <2>1. PICK k : k = cwp_id(s1) /\ FullParts(s1, k, m) /\ (k # 0 => s1[k].element_in_partition > 0)
    BY <1>2, <1>4 DEF PartsInv, LastPart
  <2>2. /\ k \in Nat /\ DOMAIN s1 = 0 .. k
        /\ \A v \in 0 .. k - 1 : s1[v] = Part(v * m, m)
        /\ s1[k] = Part(k * m, s1[k].element_in_partition)
    BY <2>1 DEF FullParts
  <2>3. w = k
    <3> SUFFICES ASSUME w # k
                 PROVE  FALSE
      OBVIOUS
    <3>1. w \in 0 .. k - 1
      BY <2>2
    <3>2. PICK p : p = w * m
      OBVIOUS
    <3>3. s1[w] = Part(p, m)
      BY <2>2, <3>1, <3>2
    <3>4. s1[w].element_in_partition = m
      BY <3>3 DEF Part
    <3>5. QED BY <3>4
  <2>4. k = 0
    BY <2>1, <2>3
  <2>5. 0 * m = 0
    OBVIOUS
  <2>6. s1[k] = Part(0, 0)
    BY <2>2, <2>3, <2>4, <2>5
  <2>7. PartEnd(s1[k]) = 0
    BY <2>6 DEF PartEnd, Part
  <2>8. QED BY <1>3, <2>1, <2>7 DEF LastPart
<1>5. strategy = "partition_and_merge"
  BY <1>1, <1>4 DEF Strategies
<1>6. PICK q \in Nat, r \in Nat : q = N \div n /\ r = N % n /\ N = n * q + r /\ r < n
  <2>1. N \div n \in Nat /\ N % n \in 0 .. n - 1 /\ N = n * (N \div n) + (N % n)
    BY <1>3, Quotient
  <2>2. N % n \in Nat /\ N % n < n
    BY <2>1
  <2>3. QED BY <2>1, <2>2
<1>7. q + (IF w < r THEN 1 ELSE 0) = 0
  <2>1. s1 = [v \in 0 .. n - 1 |-> EqualPart(v)]
    BY <1>2, <1>5 DEF PartsInv
  <2>2. s1[w] = EqualPart(w)
    BY <2>1
  <2>3. EqualPart(w).element_in_partition = q + (IF w < r THEN 1 ELSE 0)
    BY <1>2, <1>6 DEF EqualPart, Part
  <2>4. QED BY <2>2, <2>3
<1>8. q = 0
  BY <1>7
<1>9. n * q = 0
  BY <1>8
<1>10. QED BY <1>2, <1>5, <1>6, <1>9

LEMMA Inv_worker_psort_and_tick ==
  ASSUME IInv, worker_psort_and_tick
  PROVE  IInv'
<1>1. /\ pc = "sort" /\ worker \in DOMAIN s1
      /\ UNCHANGED <<host, strategy, bucket, s1, m1, ptrs, temp>>
      /\ \/ /\ host.worker_mem_size < s1[worker].element_in_partition
            /\ pc' = "exit" /\ UNCHANGED <<array, worker>>
         \/ /\ s1[worker].element_in_partition = 0
            /\ pc' = "undefined" /\ UNCHANGED <<array, worker>>
         \/ /\ s1[worker].element_in_partition > 0
            /\ \E b \in SortsOf(array, s1[worker]) :
                 array' = [x \in Index |-> IF x \in Places(s1[worker]) THEN b[x] ELSE array[x]]
            /\ worker' = worker + 1 /\ UNCHANGED pc
  BY DEF worker_psort_and_tick
<1>2. Phases /\ PartsInv /\ BucketsInOrder /\ PartsSorted /\ JobsInv /\ HeldTogether
  BY DEF IInv
<1>3. SetUp /\ PartEnd(LastPart) = N /\ ptrs = <<>> /\ temp = <<>> /\ host \in Hosts
  BY <1>1, <1>2 DEF Phases, Divided
<1>4. CASE pc' \in {"exit", "undefined"} /\ UNCHANGED <<array, worker>>
  <2>1. SetUp' = SetUp /\ LastPart' = LastPart
    BY <1>1 DEF SetUp, LastPart
  <2>2. Phases'
    BY <1>1, <1>2, <1>3, <1>4, <2>1 DEF Phases, Labels, Divided
  <2>3. MergeInv'
    BY <1>1, <1>3, <1>4 DEF MergeInv
  <2>4. worker_mem_size_elems' = worker_mem_size_elems
    BY <1>1 DEF worker_mem_size_elems
  <2>5. ASSUME N <= host.worker_count * worker_mem_size_elems
        PROVE  /\ pc' # "exit"
               /\ pc' = "undefined" => strategy = "partition_and_merge" /\ N < host.worker_count
    <3>1. PICK e, a, m :
            /\ e = s1[worker].element_in_partition /\ a = host.worker_mem_size
            /\ m = worker_mem_size_elems /\ a \in Nat /\ m \in Nat /\ m <= a
      <4>1. host.worker_mem_size \in Nat /\ worker_mem_size_elems \in Nat
            /\ worker_mem_size_elems <= host.worker_mem_size
        BY <1>3, HostFacts
      <4>2. QED BY <4>1
    <3>2. e <= m /\ e \in Nat
      <4>1. e <= m
        BY <1>1, <1>2, <1>3, <2>5, <3>1, PartsFit
      <4>2. PICK k : Tiles(s1, k, N)
        BY <1>2, <1>3, PartsTile
      <4>3. s1[worker] \in [input : Nat, element_in_partition : Nat]
        BY <1>1, <4>2 DEF Tiles
      <4>4. QED BY <3>1, <4>1, <4>3
    <3>3. ~(a < e)
      BY <3>1, <3>2
    <3>4. pc' = "undefined" /\ e = 0
      BY <1>1, <1>4, <3>1, <3>3
    <3>5. QED BY <1>1, <1>2, <1>3, <3>1, <3>4, EmptyPart
  <2>6. SizeInv'
    BY <1>1, <2>4, <2>5 DEF SizeInv
  <2>7. QED BY <1>1, <1>2, <1>4, <2>2, <2>3, <2>6, PartsKept, OrderKept, SortedKept, JobsKept, HeldKept
            DEF IInv
<1>5. ASSUME s1[worker].element_in_partition > 0, NEW b \in SortsOf(array, s1[worker]),
             array' = [x \in Index |-> IF x \in Places(s1[worker]) THEN b[x] ELSE array[x]],
             worker' = worker + 1, UNCHANGED pc
      PROVE  IInv'
  BY <1>1, <1>5, InvWorkerSorts
<1>6. QED BY <1>1, <1>4, <1>5

LEMMA InvSortedAll ==
  ASSUME IInv, SortedAll
  PROVE  IInv'
<1>1. /\ pc = "sort" /\ worker \notin DOMAIN s1 /\ pc' = "next_job"
      /\ UNCHANGED <<host, strategy, array, bucket, s1, m1, worker, ptrs, temp>>
  BY DEF SortedAll
<1>2. Phases /\ PartsInv /\ BucketsInOrder /\ PartsSorted /\ JobsInv /\ HeldTogether
  BY DEF IInv
<1>3. SetUp' = SetUp /\ LastPart' = LastPart
  BY <1>1 DEF SetUp, LastPart
<1>4. Phases'
  BY <1>1, <1>2, <1>3 DEF Phases, Labels, Divided
<1>5. MergeInv' /\ SizeInv'
  BY <1>1 DEF MergeInv, SizeInv
<1>6. QED BY <1>1, <1>2, <1>4, <1>5, PartsKept, OrderKept, SortedKept, JobsKept, HeldKept DEF IInv

(***************************************************************************)
(* The merges.                                                             *)
(***************************************************************************)
JobSetting(s, k, jb) == Tiles(s, k, N) /\ JobFits(jb, s)

\* A job's workers have parts, and its places are places of the array.
LEMMA JobFacts ==
  ASSUME NEW s, NEW k, NEW jb, JobSetting(s, k, jb)
  PROVE  /\ jb.w_first \in 0 .. k /\ jb.w_last - 1 \in 0 .. k /\ jb.w_first < jb.w_last
         /\ jb.w_first \in Nat /\ jb.w_last \in Nat /\ k \in Nat /\ N \in Nat
         /\ jb.start \in Nat /\ jb.end \in Nat /\ jb.start < jb.end /\ jb.end <= N
         /\ ptr_size(jb) \in Nat \ {0} /\ \A j \in 0 .. ptr_size(jb) - 1 : jb.w_first + j \in 0 .. k
         /\ JobPlaces(jb) \subseteq Index
<1>1. jb \in JobRecords /\ DOMAIN s = 0 .. k /\ k \in Nat
  BY DEF JobSetting, JobFits, Tiles
<1>2. /\ jb.w_first \in Nat /\ jb.w_last \in Nat /\ jb.start \in Nat /\ jb.end \in Nat
  BY <1>1 DEF JobRecords
<1>3. /\ jb.start < jb.end /\ jb.end <= N /\ jb.w_first < jb.w_last
      /\ jb.w_first \in 0 .. k /\ jb.w_last - 1 \in 0 .. k
  BY <1>1 DEF JobSetting, JobFits
<1>4. PICK f \in Nat, l \in Nat : f = jb.w_first /\ l = jb.w_last
  BY <1>2
<1>5. ptr_size(jb) = l - f
  BY <1>4 DEF ptr_size
<1>6. l - f \in Nat \ {0} /\ \A j \in 0 .. (l - f) - 1 : f + j \in 0 .. k
  <2>1. f < l /\ f \in 0 .. k /\ l - 1 \in 0 .. k
    BY <1>3, <1>4
  <2>2. QED BY <1>1, <2>1
<1>7. N \in Nat
  BY ConstantFacts
<1>8. JobPlaces(jb) \subseteq Index
  BY <1>2, <1>3, <1>7 DEF JobPlaces, Index
<1>9. QED BY <1>1, <1>2, <1>3, <1>4, <1>5, <1>6, <1>7, <1>8

\* There are as many places as it takes to hold what is merged.
LEMMA JobSize ==
  ASSUME NEW s, NEW k, NEW jb, JobSetting(s, k, jb)
  PROVE  IsFiniteSet(JobPlaces(jb)) /\ Cardinality(JobPlaces(jb)) = jb.end - jb.start
<1>1. PICK a \in Int, b \in Int : a = jb.start /\ b = jb.end - 1 /\ a <= b
  <2>1. jb.start \in Nat /\ jb.end \in Nat /\ jb.start < jb.end
    BY JobFacts
  <2>2. QED BY <2>1
<1>2. IsFiniteSet(a .. b) /\ Cardinality(a .. b) = b - a + 1
  <2>1. a \in Int /\ b \in Int /\ ~(a > b)
    BY <1>1
  <2>2. QED BY <2>1, FS_Interval
<1>3. JobPlaces(jb) = a .. b /\ jb.end - jb.start = b - a + 1
  <2>1. jb.start \in Nat /\ jb.end \in Nat
    BY JobFacts
  <2>2. QED BY <1>1, <2>1 DEF JobPlaces
<1>4. QED BY <1>2, <1>3

\* What a pointer may come to: its part, and its part of the job.
LEMMA PtrFacts ==
  ASSUME NEW s, NEW k, NEW jb, JobSetting(s, k, jb), NEW p, PtrsFit(s, jb, p),
         NEW j \in 0 .. ptr_size(jb) - 1
  PROVE  /\ p[j] # NULL => /\ p[j] \in Places(s[jb.w_first + j]) /\ p[j] \in Index /\ jb.start <= p[j]
                           /\ p[j] \notin Left(s, jb, p, j) => p[j] >= jb.end
                           /\ PartEnd(s[jb.w_first + j]) \in Nat
                           /\ p[j] + 1 <= PartEnd(s[jb.w_first + j])
         /\ SegmentEnd(s, jb, j) \in Nat
         /\ \A x \in Left(s, jb, p, j) : /\ p[j] # NULL /\ p[j] <= x
                                         /\ x \in Places(s[jb.w_first + j]) /\ x \in JobPlaces(jb)
<1>1. PICK w : w = jb.w_first + j
  OBVIOUS
<1>2. w \in 0 .. k /\ jb.start \in Nat /\ jb.end \in Nat /\ N \in Nat
  BY <1>1, JobFacts
<1>3. PICK a \in Nat, b \in Nat : a = s[w].input /\ b = s[w].element_in_partition
  <2>1. s[w] \in [input : Nat, element_in_partition : Nat]
    BY <1>2 DEF JobSetting, Tiles
  <2>2. QED BY <2>1
<1>4. PartEnd(s[w]) = a + b /\ Places(s[w]) = a .. (a + b) - 1
  BY <1>3 DEF PartEnd, Places
<1>5. SegmentEnd(s, jb, j) = IF a + b < jb.end THEN a + b ELSE jb.end
  BY <1>1, <1>4 DEF SegmentEnd, Least
<1>6. CASE p[j] = NULL
  <2>1. Left(s, jb, p, j) = {}
    BY <1>6 DEF Left
  <2>2. QED BY <1>2, <1>5, <1>6, <2>1
<1>7. CASE p[j] # NULL
  <2>1. p[j] \in a .. (a + b) - 1 /\ jb.start <= p[j]
    BY <1>1, <1>4, <1>7 DEF PtrsFit
  <2>2. PICK q \in Nat : q = p[j]
    BY <2>1
  <2>3. Left(s, jb, p, j) = q .. (IF a + b < jb.end THEN a + b ELSE jb.end) - 1
    BY <1>5, <1>7, <2>2 DEF Left
  <2>4. \A x \in Left(s, jb, p, j) : q <= x /\ x \in a .. (a + b) - 1 /\ x \in jb.start .. jb.end - 1
    BY <1>2, <2>1, <2>2, <2>3
  <2>5. q \notin Left(s, jb, p, j) => q >= jb.end
    BY <1>2, <2>1, <2>2, <2>3
  <2>6. q \in Index
    <3>1. q \in Places(s[w])
      BY <1>4, <2>1, <2>2
    <3>2. Tiles(s, k, N)
      BY DEF JobSetting
    <3>3. QED BY <1>2, <3>1, <3>2, TilesApart DEF Index
  <2>7. q + 1 <= a + b /\ a + b \in Nat /\ SegmentEnd(s, jb, j) \in Nat
    BY <1>2, <1>5, <2>1, <2>2
  <2>8. QED BY <1>1, <1>4, <1>7, <2>1, <2>2, <2>4, <2>5, <2>6, <2>7 DEF JobPlaces
<1>8. QED BY <1>6, <1>7

\* What is left to merge is in the job.
LEMMA RemainingFacts ==
  ASSUME NEW s, NEW k, NEW jb, JobSetting(s, k, jb), NEW p, PtrsFit(s, jb, p)
  PROVE  /\ Remaining(s, jb, p) \subseteq JobPlaces(jb)
         /\ Remaining(s, jb, p) \subseteq Index
         /\ IsFiniteSet(Remaining(s, jb, p))
<1>1. \A j \in 0 .. ptr_size(jb) - 1 : Left(s, jb, p, j) \subseteq JobPlaces(jb)
  BY PtrFacts
<1>2. Remaining(s, jb, p) \subseteq JobPlaces(jb)
  BY <1>1 DEF Remaining
<1>3. JobPlaces(jb) \subseteq Index
  BY JobFacts
<1>4. QED BY <1>2, <1>3, IndexIsFinite

\* At first all of the job is.
LEMMA FirstPointers ==
  ASSUME NEW s, NEW k, NEW jb, JobSetting(s, k, jb),
         \A w \in DOMAIN s : s[w].element_in_partition > 0,
         NEW p, p = [j \in 0 .. ptr_size(jb) - 1 |-> IF j = 0 THEN jb.start ELSE s[jb.w_first + j].input]
  PROVE  PtrsFit(s, jb, p) /\ Remaining(s, jb, p) = JobPlaces(jb)
<1>1. PICK f \in Nat, n \in Nat \ {0} : f = jb.w_first /\ n = ptr_size(jb)
  BY JobFacts
<1>2. /\ \A j \in 0 .. n - 1 : f + j \in 0 .. k
      /\ jb.start \in Nat /\ jb.end \in Nat /\ jb.start < jb.end /\ jb.end <= N /\ N \in Nat /\ k \in Nat
      /\ f \in 0 .. k
  BY <1>1, JobFacts
<1>3. Tiles(s, k, N) /\ DOMAIN s = 0 .. k
  BY DEF JobSetting, Tiles
<1>4. jb.start \in Places(s[f]) /\ jb.end - 1 \in Places(s[jb.w_last - 1]) /\ jb.w_last - 1 \in 0 .. k
  BY <1>1, JobFacts DEF JobSetting, JobFits
<1>5. ASSUME NEW w \in 0 .. k
      PROVE  /\ s[w].input \in Nat /\ s[w].element_in_partition \in Nat
             /\ Places(s[w]) = s[w].input .. PartEnd(s[w]) - 1
             /\ PartEnd(s[w]) \in Nat /\ s[w].input < PartEnd(s[w])
  <2>1. s[w] \in [input : Nat, element_in_partition : Nat] /\ s[w].element_in_partition > 0
    BY <1>3 DEF Tiles
  <2>2. PICK a \in Nat, b \in Nat : a = s[w].input /\ b = s[w].element_in_partition
    BY <2>1
  <2>3. PartEnd(s[w]) = a + b /\ b > 0
    BY <2>1, <2>2 DEF PartEnd
  <2>4. QED BY <2>1, <2>2, <2>3 DEF Places
<1>6. ASSUME NEW j \in 0 .. n - 1
      PROVE  /\ p[j] \in Places(s[f + j]) /\ jb.start <= p[j]
             /\ \A x \in Places(s[f + j]) : jb.start <= x => p[j] <= x
  <2>1. CASE j = 0
    <3>1. f + j = f /\ p[j] = jb.start
      BY <1>1, <2>1
    <3>2. \A x \in Places(s[f]) : jb.start <= x => p[j] <= x
      BY <3>1
    <3>3. jb.start <= p[j]
      BY <1>2, <3>1
    <3>4. QED BY <1>4, <3>1, <3>2, <3>3
  <2>2. CASE j # 0
    <3>1. PICK w \in 0 .. k : w = f + j
      BY <1>2
    <3>2. p[j] = s[w].input
      BY <1>1, <2>2, <3>1
    <3>3. s[w].input \in Places(s[w]) /\ \A x \in Places(s[w]) : s[w].input <= x
      BY <1>5
    <3>4. f < w
      BY <1>1, <2>2, <3>1
    <3>5. ~(s[w].input <= jb.start)
      <4>1. PICK z \in Places(s[w]) : z = s[w].input
        BY <3>3
      <4>2. PICK y \in Places(s[f]) : y = jb.start
        BY <1>4
      <4>3. z <= y => w <= f
        BY <1>2, <1>3, TilesApart
      <4>4. w \in Nat /\ f \in Nat
        BY <1>2
      <4>5. QED BY <3>4, <4>1, <4>2, <4>3, <4>4
    <3>6. s[w].input \in Nat
      BY <1>5
    <3>7. jb.start <= p[j]
      BY <1>2, <3>2, <3>5, <3>6
    <3>8. QED BY <3>1, <3>2, <3>3, <3>7
  <2>3. QED BY <2>1, <2>2
<1>7. PtrsFit(s, jb, p)
  BY <1>1, <1>6 DEF PtrsFit
<1>8. ASSUME NEW x \in JobPlaces(jb)
      PROVE  x \in Remaining(s, jb, p)
  <2>1. x \in jb.start .. jb.end - 1 /\ x \in 0 .. N - 1
    BY <1>2 DEF JobPlaces
  <2>2. PICK w \in 0 .. k : x \in Places(s[w])
    BY <1>3, <2>1 DEF Tiles
  <2>3. f <= w
    <3>1. jb.start <= x
      BY <2>1
    <3>2. QED BY <1>2, <1>3, <1>4, <2>2, <3>1, TilesApart, SMTT(30)
  <2>4. w <= jb.w_last - 1
    <3>1. x <= jb.end - 1
      BY <2>1
    <3>2. PICK v \in 0 .. k : v = jb.w_last - 1
      BY <1>4
    <3>3. PICK y \in Places(s[v]) : y = jb.end - 1
      BY <1>4, <3>2
    <3>4. x <= y => w <= v
      BY <1>3, <2>2, TilesApart, ZenonT(40)
    <3>5. QED BY <3>1, <3>2, <3>3, <3>4
  <2>5. PICK j \in 0 .. n - 1 : w = f + j
    <3>1. PICK l \in Nat : l = jb.w_last
      BY JobFacts
    <3>2. n = l - f
      BY <1>1, <3>1 DEF ptr_size
    <3>3. w - f \in 0 .. n - 1 /\ w = f + (w - f)
      BY <2>3, <2>4, <3>1, <3>2
    <3>4. QED BY <3>3
  <2>6. p[j] <= x /\ p[j] # NULL /\ p[j] \in Nat
    <3>1. p[j] <= x /\ p[j] \in Places(s[w])
      <4>1. jb.start <= x
        BY <2>1
      <4>2. QED BY <1>6, <2>2, <2>5, <4>1
    <3>2. p[j] \in Nat
      BY <1>5, <3>1
    <3>3. QED BY <3>1, <3>2 DEF NULL
  <2>7. x < SegmentEnd(s, jb, j)
    <3>1. x < PartEnd(s[w])
      BY <1>5, <2>2
    <3>2. x < jb.end
      BY <1>2, <2>1
    <3>3. QED BY <1>1, <2>5, <3>1, <3>2 DEF SegmentEnd, Least
  <2>8. SegmentEnd(s, jb, j) \in Nat
    BY <1>1, <1>7, PtrFacts
  <2>9. x \in Left(s, jb, p, j)
    BY <2>1, <2>6, <2>7, <2>8 DEF Left
  <2>10. QED BY <1>1, <2>9 DEF Remaining
<1>9. QED BY <1>7, <1>8, RemainingFacts

\* Taking an element from what is left.
Taken(a, v, z, rest) ==
  /\ \A x \in rest : v <= a[x]
  /\ \E x \in rest : v = a[x]
  /\ (z \in rest /\ a[z] = v) \/ (\A x \in rest : a[x] = T_MAX)

LEMMA OneFewer ==
  ASSUME NEW R, IsFiniteSet(R), NEW z
  PROVE  /\ IsFiniteSet(R \ {z}) /\ Cardinality(R) \in Nat /\ Cardinality(R \ {z}) \in Nat
         /\ Cardinality(R \ {z}) = Cardinality(R) - (IF z \in R THEN 1 ELSE 0)
<1>1. Cardinality(R) \in Nat /\ IsFiniteSet(R \ {z}) /\ Cardinality(R \ {z}) \in Nat
  BY FS_CardinalityType, FS_Subset
<1>2. z \in R => Cardinality(R \ {z}) = Cardinality(R) - 1
  BY FS_RemoveElement
<1>3. z \notin R => R \ {z} = R
  OBVIOUS
<1>4. QED BY <1>1, <1>2, <1>3

LEMMA MergedOneMore ==
  ASSUME NEW a, NEW jb, NEW rest, IsFiniteSet(rest), rest \subseteq JobPlaces(jb),
         NEW size \in Nat, size = jb.end - jb.start,
         NEW t \in Seq(Nat), MergedSoFar(a, jb, t, rest), Len(t) < size,
         NEW v \in Nat, NEW z, Taken(a, v, z, rest)
  PROVE  MergedSoFar(a, jb, Append(t, v), rest \ {z})
<1>1. PICK u : u = Append(t, v)
  OBVIOUS
<1>2. PICK n \in Nat : n = Len(t)
  OBVIOUS
<1>3. /\ u \in Seq(Nat) /\ Len(u) = n + 1
      /\ \A i \in 1 .. n : u[i] = t[i]
      /\ u[n + 1] = v
  BY <1>1, <1>2, OneMore
<1>4. /\ \A i \in 1 .. n : (\A x \in rest : t[i] <= a[x]) /\ (\E x \in JobPlaces(jb) : t[i] = a[x])
      /\ n + Cardinality(rest) >= size
      /\ n + Cardinality(rest) > size => \A x \in rest : a[x] = T_MAX
      /\ \A i, j \in 1 .. n : i < j => t[i] <= t[j]
  <2>1. DOMAIN t = 1 .. n
    BY <1>2
  <2>2. \A i, j \in 1 .. n : i < j => t[i] <= t[j]
    BY <2>1 DEF MergedSoFar, Sorted
  <2>3. \A i \in 1 .. n : (\A x \in rest : t[i] <= a[x]) /\ (\E x \in JobPlaces(jb) : t[i] = a[x])
    BY <2>1 DEF MergedSoFar
  <2>4. QED BY <1>2, <2>2, <2>3 DEF MergedSoFar
<1>5. DOMAIN u = 1 .. n + 1
  BY <1>2, <1>3
<1>6. PICK y \in rest : v = a[y]
  BY DEF Taken
<1>7. Sorted(u)
  <2>1. \A i \in 1 .. n : t[i] <= v
    BY <1>4, <1>6
  <2>2. ASSUME NEW i \in 1 .. n + 1, NEW j \in 1 .. n + 1, i < j
        PROVE  u[i] <= u[j]
    <3>1. i \in 1 .. n
      BY <2>2
    <3>2. CASE j \in 1 .. n
      BY <1>3, <1>4, <2>2, <3>1, <3>2
    <3>3. CASE j = n + 1
      BY <1>3, <2>1, <3>1, <3>3
    <3>4. QED BY <3>2, <3>3
  <2>3. QED BY <1>5, <2>2 DEF Sorted
<1>8. ASSUME NEW i \in 1 .. n + 1
      PROVE  (\A x \in rest \ {z} : u[i] <= a[x]) /\ (\E x \in JobPlaces(jb) : u[i] = a[x])
  <2>1. CASE i \in 1 .. n
    <3>1. u[i] = t[i]
      BY <1>3, <2>1
    <3>2. QED BY <1>4, <2>1, <3>1
  <2>2. CASE i = n + 1
    <3>1. u[i] = v
      BY <1>3, <2>2
    <3>2. \A x \in rest : v <= a[x]
      BY DEF Taken
    <3>3. QED BY <1>6, <3>1, <3>2
  <2>3. QED BY <2>1, <2>2
<1>9. PICK c \in Nat, d \in Nat : /\ c = Cardinality(rest) /\ d = Cardinality(rest \ {z})
                                 /\ d = c - (IF z \in rest THEN 1 ELSE 0)
  <2>1. /\ Cardinality(rest) \in Nat /\ Cardinality(rest \ {z}) \in Nat
        /\ Cardinality(rest \ {z}) = Cardinality(rest) - (IF z \in rest THEN 1 ELSE 0)
    BY OneFewer
  <2>2. QED BY <2>1
<1>10. (n + 1) + d >= size
  BY <1>4, <1>9
<1>11. (n + 1) + d > size => \A x \in rest \ {z} : a[x] = T_MAX
  <2>1. CASE \A x \in rest : a[x] = T_MAX
    BY <2>1
  <2>2. CASE z \in rest
    BY <1>4, <1>9, <2>2
  <2>3. QED BY <2>1, <2>2 DEF Taken
<1>12. n + 1 <= size
  BY <1>2
<1>13. QED BY <1>1, <1>3, <1>5, <1>7, <1>8, <1>9, <1>10, <1>11, <1>12 DEF MergedSoFar

\* A pointer that goes on leaves the element behind it, and no other.
Further(s, jb, p, i) ==
  [p EXCEPT ![i] = IF p[i] = NULL \/ p[i] + 1 = PartEnd(s[jb.w_first + i]) THEN NULL ELSE p[i] + 1]

LEMMA PointerFurther ==
  ASSUME NEW s, NEW k, NEW jb, JobSetting(s, k, jb), NEW p, PtrsFit(s, jb, p),
         NEW i \in 0 .. ptr_size(jb) - 1, NEW q, q = Further(s, jb, p, i)
  PROVE  /\ PtrsFit(s, jb, q)
         /\ Remaining(s, jb, q) = Remaining(s, jb, p) \ {p[i]}
<1>1. PICK n \in Nat : n = ptr_size(jb)
  BY JobFacts
<1>2. DOMAIN p = 0 .. n - 1
  BY <1>1 DEF PtrsFit
<1>3. /\ DOMAIN q = 0 .. n - 1
      /\ q[i] = IF p[i] = NULL \/ p[i] + 1 = PartEnd(s[jb.w_first + i]) THEN NULL ELSE p[i] + 1
      /\ \A j \in 0 .. n - 1 : j # i => q[j] = p[j]
  BY <1>1, <1>2 DEF Further
<1>4. Tiles(s, k, N) /\ \A j \in 0 .. n - 1 : jb.w_first + j \in 0 .. k
  BY <1>1, JobFacts DEF JobSetting
<1>5. ASSUME NEW j \in 0 .. n - 1, q[j] # NULL
      PROVE  q[j] \in Places(s[jb.w_first + j]) /\ jb.start <= q[j]
  <2>1. CASE j # i
    BY <1>1, <1>2, <1>3, <1>5, <2>1 DEF PtrsFit
  <2>2. CASE j = i
    <3>1. p[i] # NULL /\ p[i] + 1 # PartEnd(s[jb.w_first + i]) /\ q[i] = p[i] + 1
      BY <1>3, <1>5, <2>2
    <3>2. /\ p[i] \in Places(s[jb.w_first + i]) /\ p[i] \in Index /\ jb.start <= p[i]
          /\ PartEnd(s[jb.w_first + i]) \in Nat /\ p[i] + 1 <= PartEnd(s[jb.w_first + i])
      BY <3>1, PtrFacts
    <3>3. PICK e, b : /\ e \in Nat /\ e = PartEnd(s[jb.w_first + i])
                      /\ b = s[jb.w_first + i].input
      BY <3>2
    <3>4. b \in Nat /\ Places(s[jb.w_first + i]) = b .. e - 1
      <4>1. s[jb.w_first + i] \in [input : Nat, element_in_partition : Nat]
        BY <1>1, <1>4 DEF Tiles
      <4>2. QED BY <3>3, <4>1 DEF Places
    <3>5. p[i] + 1 \in b .. e - 1 /\ jb.start <= p[i] + 1
      <4>1. p[i] \in b .. e - 1 /\ p[i] + 1 <= e /\ p[i] + 1 # e
            /\ jb.start \in Nat /\ jb.start <= p[i] /\ p[i] \in Nat
        BY <3>1, <3>2, <3>3, <3>4, JobFacts, ConstantFacts DEF Index
      <4>2. QED BY <3>3, <3>4, <4>1
    <3>6. QED BY <2>2, <3>1, <3>4, <3>5
  <2>3. QED BY <2>1, <2>2
<1>6. PtrsFit(s, jb, q)
  BY <1>1, <1>3, <1>5 DEF PtrsFit
<1>7. Left(s, jb, q, i) = Left(s, jb, p, i) \ {p[i]}
  <2>1. PICK e \in Nat : e = SegmentEnd(s, jb, i)
    BY PtrFacts
  <2>2. CASE p[i] = NULL
    BY <1>3, <2>2 DEF Left
  <2>3. CASE p[i] # NULL /\ p[i] + 1 = PartEnd(s[jb.w_first + i])
    <3>1. PICK x \in Nat : x = p[i]
      <4>1. p[i] \in Index
        BY <2>3, PtrFacts
      <4>2. QED BY <4>1, ConstantFacts DEF Index
    <3>2. e <= x + 1
      <4>1. jb.end \in Nat
        BY JobFacts
      <4>2. QED BY <2>1, <2>3, <3>1, <4>1 DEF SegmentEnd, Least
    <3>3. Left(s, jb, q, i) = {}
      BY <1>3, <2>3 DEF Left
    <3>4. Left(s, jb, p, i) = x .. e - 1
      BY <2>1, <2>3, <3>1 DEF Left
    <3>5. (x .. e - 1) \ {x} = {}
      BY <3>2
    <3>6. QED BY <3>1, <3>3, <3>4, <3>5
  <2>4. CASE p[i] # NULL /\ p[i] + 1 # PartEnd(s[jb.w_first + i])
    <3>1. PICK x \in Nat : x = p[i]
      <4>1. p[i] \in Index
        BY <2>4, PtrFacts
      <4>2. QED BY <4>1, ConstantFacts DEF Index
    <3>2. Left(s, jb, p, i) = x .. e - 1
      BY <2>1, <2>4, <3>1 DEF Left
    <3>3. q[i] = x + 1 /\ q[i] # NULL
      BY <1>3, <2>4, <3>1 DEF NULL
    <3>4. Left(s, jb, q, i) = x + 1 .. e - 1
      BY <2>1, <3>3 DEF Left
    <3>5. QED BY <3>1, <3>2, <3>4
  <2>5. QED BY <2>2, <2>3, <2>4
<1>8. ASSUME NEW j \in 0 .. n - 1, j # i
      PROVE  Left(s, jb, q, j) = Left(s, jb, p, j) /\ p[i] \notin Left(s, jb, p, j)
  <2>1. q[j] = p[j]
    BY <1>3, <1>8
  <2>2. ASSUME p[i] \in Left(s, jb, p, j)
        PROVE  FALSE
    <3>1. p[i] \in Places(s[jb.w_first + j]) /\ p[i] \in JobPlaces(jb)
      BY <1>1, <2>2, PtrFacts
    <3>2. p[i] \in Nat
      BY <3>1, JobFacts, ConstantFacts DEF JobPlaces
    <3>3. p[i] # NULL
      BY <3>2 DEF NULL
    <3>4. p[i] \in Places(s[jb.w_first + i])
      BY <3>3, PtrFacts
    <3>5. PICK v \in 0 .. k, w \in 0 .. k : v = jb.w_first + i /\ w = jb.w_first + j
      BY <1>1, <1>4
    <3>6. v = w
      <4>1. PICK x \in Places(s[v]), y \in Places(s[w]) : x = p[i] /\ y = p[i]
        BY <3>1, <3>4, <3>5
      <4>2. x = y => v = w
        BY <1>4, TilesApart
      <4>3. QED BY <4>1, <4>2
    <3>7. jb.w_first \in Nat
      BY JobFacts
    <3>8. QED BY <1>1, <1>8, <3>5, <3>6, <3>7
  <2>3. QED BY <2>1, <2>2 DEF Left
<1>9. Remaining(s, jb, q) = Remaining(s, jb, p) \ {p[i]}
  <2>1. \A j \in 0 .. n - 1 : Left(s, jb, q, j) = Left(s, jb, p, j) \ {p[i]}
    BY <1>7, <1>8
  <2>2. QED BY <1>1, <2>1 DEF Remaining
<1>10. QED BY <1>6, <1>9

AllSorted(a, s, k) == \A w \in 0 .. k : \A x, y \in Places(s[w]) : x < y => a[x] <= a[y]

\* The parts are sorted when the merges begin.
LEMMA WhenAllSorted ==
  ASSUME IInv, pc \in {"next_job", "merge", "return"}
  PROVE  /\ SetUp /\ PartEnd(LastPart) = N
         /\ Tiles(s1, cwp_id(s1), N) /\ cwp_id(s1) \in 0 .. host.worker_count - 1
         /\ AllSorted(array, s1, cwp_id(s1))
         /\ \A w \in DOMAIN s1 : s1[w].element_in_partition > 0
         /\ array \in [Index -> Value] /\ host \in Hosts
         /\ strategy = "two_step_sort" => InOrder(array)
<1>1. Phases /\ PartsInv /\ BucketsInOrder /\ PartsSorted
  BY DEF IInv
<1>2. /\ SetUp /\ PartEnd(LastPart) = N /\ worker \notin DOMAIN s1
      /\ worker \in 0 .. host.worker_count /\ array \in [Index -> Value] /\ host \in Hosts
  BY <1>1 DEF Phases, Divided
<1>3. PICK k : k = cwp_id(s1)
  OBVIOUS
<1>4. Tiles(s1, k, N) /\ k \in 0 .. host.worker_count - 1 /\ DOMAIN s1 = 0 .. k
  BY <1>1, <1>2, <1>3, PartsTile DEF Tiles
<1>5. host.worker_count \in Nat
  BY <1>2, HostFacts
<1>6. \A w \in 0 .. k : w < worker
  BY <1>2, <1>4, <1>5
<1>7. \A w \in 0 .. k : /\ s1[w].element_in_partition > 0
                        /\ \A x, y \in Places(s1[w]) : x < y => array[x] <= array[y]
  BY <1>1, <1>4, <1>6 DEF PartsSorted
<1>8. QED BY <1>1, <1>2, <1>3, <1>4, <1>7 DEF AllSorted, BucketsInOrder

LEMMA WhenMerging ==
  ASSUME IInv, pc = "merge"
  PROVE  /\ JobSetting(s1, cwp_id(s1), job) /\ PtrsFit(s1, job, ptrs)
         /\ MergedSoFar(array, job, temp, Remaining(s1, job, ptrs))
         /\ m1 # <<>> /\ temp \in Seq(Value) /\ temp \in Seq(Nat)
         /\ strategy = "two_step_sort" => IsBucket(job, array)
         /\ strategy = "partition_and_merge" => job.start = 0 /\ job.end = N
<1>1. Phases /\ JobsInv /\ MergeInv
  BY DEF IInv
<1>2. JobSetting(s1, cwp_id(s1), job)
  BY <1>1, WhenAllSorted DEF MergeInv, JobSetting
<1>3. temp \in Seq(Value) /\ temp \in Seq(Nat)
  <2>1. temp \in Seq(Value) /\ Value \subseteq Nat
    <3>1. \A v \in Value : v \in 0 .. T_MAX /\ T_MAX \in Nat
      BY ConstantFacts, BucketOfValue
    <3>2. \A v \in Value : v \in Nat
      BY <3>1
    <3>3. temp \in Seq(Value)
      BY <1>1 DEF Phases
    <3>4. QED BY <3>2, <3>3
  <2>2. QED BY <2>1, SeqMonotonic
<1>4. /\ m1 # <<>> /\ PtrsFit(s1, job, ptrs)
      /\ MergedSoFar(array, job, temp, Remaining(s1, job, ptrs))
  BY <1>1 DEF MergeInv
<1>5. strategy = "two_step_sort" => IsBucket(job, array)
  <2>1. m1 \in Seq(JobRecords)
    BY <1>1 DEF JobsInv
  <2>2. 1 \in DOMAIN m1 /\ job = m1[1]
    BY <1>4, <2>1 DEF job
  <2>3. QED BY <1>1, <2>2 DEF JobsInv
<1>6. strategy = "partition_and_merge" => job.start = 0 /\ job.end = N
  <2>1. SetUp
    BY WhenAllSorted
  <2>2. QED BY <1>1, <2>1 DEF JobsInv, job, Job
<1>7. QED BY <1>2, <1>3, <1>4, <1>5, <1>6

\* The least of the candidates.
LEMMA FirstLeastFacts ==
  ASSUME array \in [Index -> Value], NEW n \in Nat, DOMAIN ptrs = 0 .. n - 1,
         \A j \in 0 .. n - 1 : ptrs[j] # NULL => ptrs[j] \in Index,
         Candidates # {}
  PROVE  FirstLeast \in Candidates /\ \A j \in Candidates : NextOf(FirstLeast) <= NextOf(j)
<1>1. Candidates \subseteq 0 .. n - 1 /\ \A j \in Candidates : NextOf(j) \in Nat
  <2>1. \A j \in Candidates : j \in 0 .. n - 1 /\ ptrs[j] \in Index
    BY DEF Candidates
  <2>2. \A j \in Candidates : NextOf(j) \in Value
    BY <2>1 DEF NextOf
  <2>3. \A v \in Value : v \in 0 .. T_MAX
    BY BucketOfValue
  <2>4. \A v \in Value : v \in Nat
    BY <2>3, ConstantFacts
  <2>5. QED BY <2>1, <2>2, <2>4
<1>2. PICK v : v \in {NextOf(j) : j \in Candidates} /\ \A u \in {NextOf(j) : j \in Candidates} : v <= u
  <2>1. PICK T : T = {NextOf(j) : j \in Candidates}
    OBVIOUS
  <2>2. T \subseteq Nat /\ T # {}
    BY <1>1, <2>1
  <2>3. QED BY <2>1, <2>2, LeastNat
<1>3. PICK T : T = {j \in Candidates : NextOf(j) = v}
  OBVIOUS
<1>4. T \subseteq Nat /\ T # {}
  BY <1>1, <1>2, <1>3
<1>5. PICK i \in T : \A j \in T : i <= j
  BY <1>4, LeastNat
<1>6. i \in Candidates /\ NextOf(i) = v /\ v \in Nat
  BY <1>1, <1>3, <1>5
<1>7. \A j \in Candidates : v <= NextOf(j)
  BY <1>2
<1>8. \A j \in Candidates : NextOf(i) < NextOf(j) \/ (NextOf(i) = NextOf(j) /\ i <= j)
  <2> TAKE j \in Candidates
  <2>1. v <= NextOf(j) /\ NextOf(j) \in Nat
    BY <1>1, <1>7
  <2>2. CASE NextOf(j) = v
    BY <1>3, <1>5, <1>6, <2>2
  <2>3. CASE NextOf(j) # v
    BY <1>6, <2>1, <2>3
  <2>4. QED BY <2>2, <2>3
<1>9. /\ FirstLeast \in Candidates
      /\ \A j \in Candidates : NextOf(FirstLeast) < NextOf(j) \/
                               (NextOf(FirstLeast) = NextOf(j) /\ FirstLeast <= j)
  BY <1>6, <1>8 DEF FirstLeast
<1>10. \A j \in Candidates : NextOf(FirstLeast) <= NextOf(j)
  BY <1>1, <1>9
<1>11. QED BY <1>9, <1>10

\* merge takes one of the least elements that are left, or, when only T_MAX is left, an
\* element of which it may leave the place behind.
LEMMA MergeTakes ==
  ASSUME IInv, pc = "merge", Len(temp) < job.end - job.start
  PROVE  /\ ptr_index \in 0 .. ptr_size(job) - 1
         /\ Taken(array, current_min, ptrs[ptr_index], Remaining(s1, job, ptrs))
<1>1. PICK k : k = cwp_id(s1)
  OBVIOUS
<1>2. PICK jb : jb = job
  OBVIOUS
<1>3. PICK R : R = Remaining(s1, jb, ptrs)
  OBVIOUS
<1>4. /\ JobSetting(s1, k, jb) /\ PtrsFit(s1, jb, ptrs) /\ MergedSoFar(array, jb, temp, R)
      /\ temp \in Seq(Nat)
  BY <1>1, <1>2, <1>3, WhenMerging
<1>5. /\ AllSorted(array, s1, k) /\ array \in [Index -> Value] /\ Tiles(s1, k, N)
      /\ strategy = "two_step_sort" => InOrder(array)
  BY <1>1, WhenAllSorted
<1>6. PICK n \in Nat \ {0} : n = ptr_size(jb)
  BY <1>4, JobFacts
<1>7. /\ jb.start \in Nat /\ jb.end \in Nat /\ jb.end <= N /\ N \in Nat
      /\ \A j \in 0 .. n - 1 : jb.w_first + j \in 0 .. k
  BY <1>4, <1>6, JobFacts
<1>8. R \subseteq JobPlaces(jb) /\ R \subseteq Index /\ IsFiniteSet(R)
  BY <1>3, <1>4, RemainingFacts
<1>9. \A x \in Index : array[x] \in Nat /\ array[x] <= T_MAX
  <2>1. \A v \in Value : v \in 0 .. T_MAX
    BY BucketOfValue
  <2>2. \A v \in Value : v \in Nat /\ v <= T_MAX
    BY <2>1, ConstantFacts
  <2>3. QED BY <1>5, <2>2
<1>10. T_MAX \in Nat
  BY ConstantFacts
<1>11. DOMAIN ptrs = 0 .. n - 1 /\ \A j \in 0 .. n - 1 : ptrs[j] # NULL => ptrs[j] \in Index
  BY <1>4, <1>6, PtrFacts DEF PtrsFit
<1>12. R # {}
  <2>1. Len(temp) + Cardinality(R) >= jb.end - jb.start
    BY <1>4 DEF MergedSoFar
  <2>2. Len(temp) \in Nat
    BY <1>4
  <2>3. R = {} => Cardinality(R) = 0
    BY FS_EmptySet
  <2>4. QED BY <1>2, <1>7, <2>1, <2>2, <2>3
<1>13. ASSUME NEW x \in R
       PROVE  \E j \in 0 .. n - 1 : ptrs[j] # NULL /\ ptrs[j] \in Index /\ array[ptrs[j]] <= array[x]
  <2>1. PICK j \in 0 .. n - 1 : x \in Left(s1, jb, ptrs, j)
    BY <1>3, <1>6 DEF Remaining
  <2>2. /\ ptrs[j] # NULL /\ ptrs[j] <= x
        /\ x \in Places(s1[jb.w_first + j]) /\ ptrs[j] \in Places(s1[jb.w_first + j])
    BY <1>4, <1>6, <2>1, PtrFacts
  <2>3. PICK w \in 0 .. k : w = jb.w_first + j
    BY <1>7
  <2>4. ptrs[j] \in Index /\ x \in Index
    BY <1>8, <1>11, <2>2
  <2>5. CASE ptrs[j] = x
    BY <1>9, <2>2, <2>4, <2>5
  <2>6. CASE ptrs[j] # x
    <3>1. ptrs[j] < x
      BY <1>7, <2>2, <2>4, <2>6 DEF Index
    <3>2. array[ptrs[j]] <= array[x]
      BY <1>5, <2>2, <2>3, <3>1 DEF AllSorted
    <3>3. QED BY <2>2, <2>4, <3>2
  <2>7. QED BY <2>5, <2>6
<1>14. CASE Candidates = {}
  <2>1. \A x \in R : array[x] = T_MAX
    <3> TAKE x \in R
    <3>1. PICK j \in 0 .. n - 1 : ptrs[j] # NULL /\ ptrs[j] \in Index /\ array[ptrs[j]] <= array[x]
      BY <1>13
    <3>2. ~(array[ptrs[j]] < T_MAX)
      BY <1>11, <1>14, <3>1 DEF Candidates
    <3>3. QED BY <1>8, <1>9, <1>10, <3>1, <3>2
  <2>2. current_min = T_MAX /\ ptr_index = 0
    BY <1>14 DEF current_min, ptr_index
  <2>3. \A x \in R : current_min <= array[x]
    BY <1>10, <2>1, <2>2
  <2>4. 0 \in 0 .. n - 1
    OBVIOUS
  <2>5. QED BY <1>2, <1>3, <1>6, <1>12, <2>1, <2>2, <2>3, <2>4 DEF Taken
<1>15. CASE Candidates # {}
  <2>1. PICK i : i = FirstLeast
    OBVIOUS
  <2>2. i \in Candidates /\ \A j \in Candidates : NextOf(i) <= NextOf(j)
    BY <1>5, <1>11, <1>15, <2>1, FirstLeastFacts
  <2>3. current_min = NextOf(i) /\ ptr_index = i
    BY <1>15, <2>1 DEF current_min, ptr_index
  <2>4. PICK z : z = ptrs[i]
    OBVIOUS
  <2>5. i \in 0 .. n - 1 /\ z # NULL /\ z \in Index /\ array[z] < T_MAX /\ current_min = array[z]
    BY <1>11, <2>2, <2>3, <2>4 DEF Candidates, NextOf
  <2>6. \A x \in R : array[z] <= array[x]
    <3> TAKE x \in R
    <3>1. PICK j \in 0 .. n - 1 : ptrs[j] # NULL /\ ptrs[j] \in Index /\ array[ptrs[j]] <= array[x]
      BY <1>13
    <3>2. CASE array[ptrs[j]] < T_MAX
      <4>1. j \in Candidates
        BY <1>11, <3>1, <3>2 DEF Candidates
      <4>2. array[z] <= array[ptrs[j]]
        BY <2>2, <2>3, <2>5, <4>1 DEF NextOf
      <4>3. QED BY <1>8, <1>9, <2>5, <3>1, <4>2
    <3>3. CASE ~(array[ptrs[j]] < T_MAX)
      BY <1>8, <1>9, <1>10, <2>5, <3>1, <3>3
    <3>4. QED BY <3>2, <3>3
  <2>7. z \in R
    <3> SUFFICES ASSUME z \notin R
                 PROVE  FALSE
      OBVIOUS
    <3>1. z \notin Left(s1, jb, ptrs, i)
      BY <1>3, <1>6, <2>5 DEF Remaining
    <3>2. z >= jb.end
      BY <1>4, <1>6, <2>4, <2>5, <3>1, PtrFacts
    <3>3. PICK x \in R : TRUE
      BY <1>12
    <3>4. x \in JobPlaces(jb) /\ x \in Index /\ array[z] <= array[x]
      BY <1>8, <2>6
    <3>5. x < z /\ z \notin JobPlaces(jb)
      BY <1>7, <2>5, <3>2, <3>4 DEF JobPlaces, Index
    <3>6. CASE strategy = "partition_and_merge"
      <4>1. jb.end = N
        BY <1>2, <3>6, WhenMerging
      <4>2. QED BY <1>7, <2>5, <3>2, <4>1 DEF Index
    <3>7. CASE strategy = "two_step_sort"
      <4>1. PICK h : \A y \in Index : y \in JobPlaces(jb) <=> get_h_at(array[y]) = h
        BY <1>2, <3>7, WhenMerging DEF IsBucket
      <4>2. get_h_at(array[x]) = h /\ get_h_at(array[z]) # h
        BY <2>5, <3>4, <3>5, <4>1
      <4>3. get_h_at(array[x]) <= get_h_at(array[z])
        BY <1>5, <2>5, <3>4, <3>5, <3>7 DEF InOrder
      <4>4. array[x] \in Value /\ array[z] \in Value
        BY <1>5, <2>5, <3>4
      <4>5. get_h_at(array[z]) <= get_h_at(array[x]) /\ get_h_at(array[z]) \in Nat /\ get_h_at(array[x]) \in Nat
        BY <3>4, <4>4, BucketOfValue
      <4>6. QED BY <4>2, <4>3, <4>5
    <3>8. strategy \in Strategies
      BY DEF IInv, Phases
    <3>9. QED BY <3>6, <3>7, <3>8 DEF Strategies
  <2>8. QED BY <1>2, <1>3, <1>6, <2>3, <2>4, <2>5, <2>6, <2>7 DEF Taken
<1>16. QED BY <1>14, <1>15

\* The job that begins is one of the parts' division.
LEMMA JobBegins ==
  ASSUME IInv, pc = "next_job", m1 # <<>>
  PROVE  JobSetting(s1, cwp_id(s1), job)
<1>1. Phases /\ PartsInv /\ JobsInv
  BY DEF IInv
<1>2. PICK k : k = cwp_id(s1)
  OBVIOUS
<1>3. /\ SetUp /\ PartEnd(LastPart) = N /\ Tiles(s1, k, N)
      /\ \A w \in DOMAIN s1 : s1[w].element_in_partition > 0
      /\ host \in Hosts
  BY <1>2, WhenAllSorted
<1>4. m1 \in Seq(JobRecords) /\ 1 \in DOMAIN m1 /\ job = m1[1] /\ strategy \in Strategies
  <2>1. m1 \in Seq(JobRecords) /\ strategy \in Strategies
    BY <1>1 DEF JobsInv, Phases
  <2>2. QED BY <2>1 DEF job
<1>5. CASE strategy = "two_step_sort"
  <2>1. JobFits(job, s1)
    BY <1>1, <1>4, <1>5 DEF JobsInv
  <2>2. QED BY <1>2, <1>3, <2>1 DEF JobSetting
<1>6. CASE strategy = "partition_and_merge"
  <2>1. PICK n \in Nat \ {0} : n = host.worker_count
    BY <1>3, HostFacts
  <2>2. job = Job(0, n, 0, N)
    BY <1>1, <1>3, <1>4, <1>6, <2>1 DEF JobsInv
  <2>3. k = n - 1
    <3>1. s1 = [w \in 0 .. host.worker_count - 1 |-> EqualPart(w)]
      BY <1>1, <1>3, <1>6 DEF PartsInv
    <3>2. QED BY <1>2, <1>3, <2>1, <3>1, EqualPartsTile
  <2>4. N \in Nat \ {0} /\ DOMAIN s1 = 0 .. k /\ 0 \in 0 .. k /\ k \in 0 .. k
    BY <1>3, <2>3, ConstantFacts DEF Tiles
  <2>5. ASSUME NEW w \in 0 .. k
        PROVE  /\ s1[w].input \in Nat /\ PartEnd(s1[w]) \in Nat
               /\ Places(s1[w]) = s1[w].input .. PartEnd(s1[w]) - 1
               /\ s1[w].input < PartEnd(s1[w])
    <3>1. s1[w] \in [input : Nat, element_in_partition : Nat] /\ s1[w].element_in_partition > 0
      BY <1>3, <2>4 DEF Tiles
    <3>2. PICK a \in Nat, b \in Nat : a = s1[w].input /\ b = s1[w].element_in_partition
      BY <3>1
    <3>3. PartEnd(s1[w]) = a + b /\ b > 0
      BY <3>1, <3>2 DEF PartEnd
    <3>4. QED BY <3>2, <3>3 DEF Places
  <2>6. 0 \in Places(s1[0])
    <3>1. PICK v \in 0 .. k : 0 \in Places(s1[v])
      <4>1. 0 \in 0 .. N - 1
        BY <2>4
      <4>2. QED BY <1>3, <4>1 DEF Tiles
    <3>2. PICK y \in Places(s1[0]) : y \in Nat
      <4>1. s1[0].input \in Places(s1[0]) /\ s1[0].input \in Nat
        BY <2>4, <2>5
      <4>2. QED BY <4>1
    <3>3. 0 <= y => v <= 0
      BY <1>3, <2>4, <3>1, TilesApart
    <3>4. v = 0
      BY <3>2, <3>3
    <3>5. QED BY <3>1, <3>4
  <2>7. N - 1 \in Places(s1[k])
    <3>1. PartEnd(s1[k]) = N
      BY <1>3 DEF Tiles
    <3>2. QED BY <2>4, <2>5, <3>1, SMTT(30)
  <2>8. job \in JobRecords /\ job.start = 0 /\ job.end = N /\ job.w_first = 0 /\ job.w_last = n
    <3>1. Job(0, n, 0, N) \in JobRecords
      BY <2>4 DEF Job, JobRecords
    <3>2. QED BY <2>2, <3>1 DEF Job
  <2>9. JobFits(job, s1)
    BY <2>3, <2>4, <2>6, <2>7, <2>8 DEF JobFits
  <2>10. QED BY <1>2, <1>3, <2>9 DEF JobSetting
<1>7. QED BY <1>4, <1>5, <1>6 DEF Strategies

LEMMA NothingMerged ==
  ASSUME NEW s, NEW k, NEW jb, JobSetting(s, k, jb), NEW a
  PROVE  MergedSoFar(a, jb, <<>>, JobPlaces(jb))
<1>1. PICK size \in Nat : size = jb.end - jb.start /\ size = Cardinality(JobPlaces(jb))
  <2>1. jb.start \in Nat /\ jb.end \in Nat /\ jb.start < jb.end
    BY JobFacts
  <2>2. jb.end - jb.start \in Nat
    BY <2>1
  <2>3. QED BY <2>2, JobSize
<1>2. Len(<<>>) = 0 /\ DOMAIN <<>> = {}
  OBVIOUS
<1>3. Sorted(<<>>)
  BY <1>2 DEF Sorted
<1>4. QED BY <1>1, <1>2, <1>3 DEF MergedSoFar

LEMMA InvBeginJob ==
  ASSUME IInv, BeginJob
  PROVE  IInv'
<1>1. /\ pc = "next_job" /\ m1 # <<>>
      /\ ptrs' = [j \in 0 .. ptr_size(job) - 1 |-> IF j = 0 THEN job.start ELSE s1[job.w_first + j].input]
      /\ temp' = <<>>
      /\ pc' \in {"merge", "overrun"}
      /\ UNCHANGED <<host, strategy, array, bucket, s1, m1, worker>>
  BY DEF BeginJob
<1>2. Phases /\ PartsInv /\ BucketsInOrder /\ PartsSorted /\ JobsInv /\ HeldTogether
  BY DEF IInv
<1>3. SetUp' = SetUp /\ LastPart' = LastPart /\ job' = job
  BY <1>1 DEF SetUp, LastPart, job
<1>4. Phases'
  <2>1. temp' \in Seq(Value)
    BY <1>1
  <2>2. QED BY <1>1, <1>2, <1>3, <2>1 DEF Phases, Labels, Divided
<1>5. JobSetting(s1, cwp_id(s1), job)
  BY <1>1, JobBegins
<1>6. \A w \in DOMAIN s1 : s1[w].element_in_partition > 0
  BY <1>1, WhenAllSorted
<1>7. PtrsFit(s1, job, ptrs') /\ Remaining(s1, job, ptrs') = JobPlaces(job)
  <2>1. PICK jb : jb = job
    OBVIOUS
  <2>2. PICK p : p = ptrs'
    OBVIOUS
  <2>3. p = [j \in 0 .. ptr_size(jb) - 1 |-> IF j = 0 THEN jb.start ELSE s1[jb.w_first + j].input]
    BY <1>1, <2>1, <2>2
  <2>4. JobSetting(s1, cwp_id(s1), jb)
    BY <1>5, <2>1
  <2>5. PtrsFit(s1, jb, p) /\ Remaining(s1, jb, p) = JobPlaces(jb)
    BY <1>6, <2>3, <2>4, FirstPointers
  <2>6. QED BY <2>1, <2>2, <2>5
<1>8. MergedSoFar(array, job, <<>>, JobPlaces(job))
  BY <1>5, NothingMerged
<1>9. JobFits(job, s1)
  BY <1>5 DEF JobSetting
<1>10. MergeInv'
  BY <1>1, <1>3, <1>7, <1>8, <1>9 DEF MergeInv
<1>11. SizeInv'
  BY <1>1 DEF SizeInv
<1>12. QED BY <1>1, <1>2, <1>4, <1>10, <1>11, PartsKept, OrderKept, SortedKept, JobsKept, HeldKept DEF IInv

\* A turn of merge.
LEMMA MergeStep ==
  ASSUME IInv, Merge
  PROVE  /\ JobSetting(s1, cwp_id(s1), job)
         /\ ptr_index \in 0 .. ptr_size(job) - 1
         /\ Taken(array, current_min, ptrs[ptr_index], Remaining(s1, job, ptrs))
         /\ current_min \in Value
         /\ PtrsFit(s1, job, ptrs')
         /\ Remaining(s1, job, ptrs') = Remaining(s1, job, ptrs) \ {ptrs[ptr_index]}
<1>1. /\ pc = "merge" /\ Len(temp) < job.end - job.start
      /\ ptrs' = [ptrs EXCEPT ![ptr_index] = Following(ptr_index)]
  BY DEF Merge
<1>2. PICK jb, k : jb = job /\ k = cwp_id(s1)
  OBVIOUS
<1>3. JobSetting(s1, k, jb) /\ PtrsFit(s1, jb, ptrs)
  BY <1>1, <1>2, WhenMerging
<1>4. PICK i : i = ptr_index
  OBVIOUS
<1>5. i \in 0 .. ptr_size(jb) - 1 /\ Taken(array, current_min, ptrs[i], Remaining(s1, jb, ptrs))
  BY <1>1, <1>2, <1>4, MergeTakes
<1>6. PICK q : q = ptrs'
  OBVIOUS
<1>7. q = Further(s1, jb, ptrs, i)
  BY <1>1, <1>2, <1>4, <1>6 DEF Further, Following
<1>8. PtrsFit(s1, jb, q) /\ Remaining(s1, jb, q) = Remaining(s1, jb, ptrs) \ {ptrs[i]}
  BY <1>3, <1>5, <1>7, PointerFurther
<1>9. current_min \in Value
  <2>1. PICK x \in Remaining(s1, jb, ptrs) : current_min = array[x]
    BY <1>5 DEF Taken
  <2>2. x \in Index
    BY <1>3, RemainingFacts
  <2>3. array \in [Index -> Value]
    BY <1>1, WhenAllSorted
  <2>4. QED BY <2>1, <2>2, <2>3
<1>10. QED BY <1>2, <1>3, <1>4, <1>5, <1>6, <1>8, <1>9

LEMMA InvMerge ==
  ASSUME IInv, Merge
  PROVE  IInv'
<1>1. /\ pc = "merge" /\ Len(temp) < job.end - job.start
      /\ temp' = Append(temp, current_min)
      /\ UNCHANGED <<host, strategy, array, bucket, s1, m1, worker, pc>>
  BY DEF Merge
<1>2. Phases /\ PartsInv /\ BucketsInOrder /\ PartsSorted /\ JobsInv /\ HeldTogether /\ MergeInv
  BY DEF IInv
<1>3. SetUp' = SetUp /\ LastPart' = LastPart /\ job' = job
  BY <1>1 DEF SetUp, LastPart, job
<1>4. /\ JobSetting(s1, cwp_id(s1), job)
      /\ Taken(array, current_min, ptrs[ptr_index], Remaining(s1, job, ptrs))
      /\ current_min \in Value
      /\ PtrsFit(s1, job, ptrs')
      /\ Remaining(s1, job, ptrs') = Remaining(s1, job, ptrs) \ {ptrs[ptr_index]}
  BY MergeStep
<1>5. temp' \in Seq(Value)
  <2>1. temp \in Seq(Value)
    BY <1>2 DEF Phases
  <2>2. QED BY <1>1, <1>4, <2>1
<1>6. Phases'
  BY <1>1, <1>2, <1>3, <1>5 DEF Phases, Labels, Divided
<1>7. MergedSoFar(array, job, temp', Remaining(s1, job, ptrs'))
  <2>1. PICK jb, R, z, v : /\ jb = job /\ R = Remaining(s1, job, ptrs) /\ z = ptrs[ptr_index]
                           /\ v = current_min
    OBVIOUS
  <2>2. JobSetting(s1, cwp_id(s1), jb) /\ PtrsFit(s1, jb, ptrs) /\ temp \in Seq(Nat)
        /\ MergedSoFar(array, jb, temp, R) /\ Taken(array, v, z, R)
    BY <1>1, <1>4, <2>1, WhenMerging
  <2>3. R \subseteq JobPlaces(jb) /\ IsFiniteSet(R)
    BY <2>1, <2>2, RemainingFacts
  <2>4. PICK size \in Nat : size = jb.end - jb.start
    <3>1. jb.start \in Nat /\ jb.end \in Nat /\ jb.start < jb.end
      BY <2>2, JobFacts
    <3>2. jb.end - jb.start \in Nat
      BY <3>1
    <3>3. QED BY <3>2
  <2>5. v \in Nat
    <3>1. v \in 0 .. T_MAX
      BY <1>4, <2>1, BucketOfValue
    <3>2. QED BY <3>1, ConstantFacts
  <2>6. Len(temp) < size
    BY <1>1, <2>1, <2>4
  <2>7. MergedSoFar(array, jb, Append(temp, v), R \ {z})
    BY <2>2, <2>3, <2>4, <2>5, <2>6, MergedOneMore
  <2>8. QED BY <1>1, <1>4, <2>1, <2>7
<1>8. MergeInv'
  BY <1>1, <1>2, <1>3, <1>4, <1>7 DEF MergeInv
<1>9. SizeInv'
  BY <1>1 DEF SizeInv
<1>10. QED BY <1>1, <1>2, <1>6, <1>8, <1>9, PartsKept, OrderKept, SortedKept, JobsKept, HeldKept DEF IInv

LEMMA InvReturn ==
  ASSUME IInv, Return
  PROVE  IInv'
<1>1. /\ pc = "next_job" /\ m1 = <<>> /\ pc' = "return"
      /\ UNCHANGED <<host, strategy, array, bucket, s1, m1, worker, ptrs, temp>>
  BY DEF Return
<1>2. Phases /\ PartsInv /\ BucketsInOrder /\ PartsSorted /\ JobsInv /\ HeldTogether
  BY DEF IInv
<1>3. SetUp' = SetUp /\ LastPart' = LastPart
  BY <1>1 DEF SetUp, LastPart
<1>4. Phases'
  BY <1>1, <1>2, <1>3 DEF Phases, Labels, Divided
<1>5. MergeInv' /\ SizeInv'
  BY <1>1 DEF MergeInv, SizeInv
<1>6. QED BY <1>1, <1>2, <1>4, <1>5, PartsKept, OrderKept, SortedKept, JobsKept, HeldKept DEF IInv

\* What is merged completely has elements of the job's places, in order.
LEMMA JobMerged ==
  ASSUME IInv, pc = "merge", Len(temp) = job.end - job.start
  PROVE  \A x \in JobPlaces(job) :
           /\ x - job.start + 1 \in DOMAIN temp
           /\ CopiedBack[x] = temp[x - job.start + 1]
           /\ CopiedBack[x] \in Value
           /\ \E z \in JobPlaces(job) : CopiedBack[x] = array[z]
<1>1. PICK jb : jb = job
  OBVIOUS
<1>2. /\ JobSetting(s1, cwp_id(s1), jb) /\ temp \in Seq(Value)
      /\ MergedSoFar(array, jb, temp, Remaining(s1, jb, ptrs))
  BY <1>1, WhenMerging
<1>3. PICK a \in Nat, b \in Nat : a = jb.start /\ b = jb.end
  BY <1>2, JobFacts
<1>4. JobPlaces(jb) \subseteq Index /\ JobPlaces(jb) = a .. b - 1
  BY <1>2, <1>3, JobFacts DEF JobPlaces
<1>5. DOMAIN temp = 1 .. b - a
  BY <1>1, <1>2, <1>3
<1>6. ASSUME NEW x \in JobPlaces(jb)
      PROVE  /\ x - a + 1 \in DOMAIN temp
             /\ CopiedBack[x] = temp[x - a + 1]
             /\ CopiedBack[x] \in Value
             /\ \E z \in JobPlaces(jb) : CopiedBack[x] = array[z]
  <2>1. x - a + 1 \in 1 .. b - a
    BY <1>4
  <2>2. PICK i \in DOMAIN temp : i = x - a + 1
    BY <1>5, <2>1
  <2>3. x \in Index /\ x \in jb.start .. jb.end - 1
    BY <1>3, <1>4
  <2>4. CopiedBack[x] = temp[i]
    BY <1>1, <1>3, <2>2, <2>3 DEF CopiedBack
  <2>5. temp[i] \in Value
    BY <1>2, <2>2, ElementOfSeq
  <2>6. \E z \in JobPlaces(jb) : temp[i] = array[z]
    BY <1>2 DEF MergedSoFar
  <2>7. QED BY <2>2, <2>4, <2>5, <2>6
<1>7. QED BY <1>1, <1>3, <1>6

\* The job's elements are put back into their bucket.
LEMMA InvCopiedBack ==
  ASSUME IInv, pc = "merge", strategy = "two_step_sort", Len(temp) = job.end - job.start,
         array' = CopiedBack, m1' = Tail(m1), temp' = <<>>, pc' = "next_job", ptrs' = <<>>,
         UNCHANGED <<host, strategy, bucket, s1, worker>>
  PROVE  IInv'
<1>1. /\ host' = host /\ strategy' = strategy /\ bucket' = bucket /\ s1' = s1 /\ worker' = worker
      /\ pc' = "next_job" /\ ptrs' = <<>> /\ temp' = <<>> /\ m1' = Tail(m1)
  OBVIOUS
<1>2. Phases /\ PartsInv /\ BucketsInOrder /\ PartsSorted /\ JobsInv /\ HeldTogether
  BY DEF IInv
<1>3. PICK k, jb, c : k = cwp_id(s1) /\ jb = job /\ c = array'
  OBVIOUS
<1>4. /\ SetUp /\ PartEnd(LastPart) = N /\ Tiles(s1, k, N) /\ DOMAIN s1 = 0 .. k
      /\ AllSorted(array, s1, k) /\ array \in [Index -> Value] /\ InOrder(array)
      /\ \A w \in DOMAIN s1 : s1[w].element_in_partition > 0
  BY <1>3, WhenAllSorted DEF Tiles
<1>5. /\ JobSetting(s1, k, jb) /\ IsBucket(jb, array) /\ m1 # <<>> /\ temp \in Seq(Nat)
      /\ Sorted(temp)
  BY <1>3, WhenMerging DEF MergedSoFar
<1>6. JobPlaces(jb) \subseteq Index
  BY <1>5, JobFacts
<1>7. \A x \in Index : x \notin JobPlaces(jb) => c[x] = array[x]
  BY <1>3 DEF CopiedBack, JobPlaces
<1>8. \A x \in JobPlaces(jb) : c[x] \in Value /\ \E z \in JobPlaces(jb) : c[x] = array[z]
  BY <1>3, JobMerged
<1>9. c \in [Index -> Value]
  <2>1. \A x \in Index : c[x] \in Value
    BY <1>4, <1>7, <1>8
  <2>2. c = [x \in Index |-> c[x]]
    BY <1>3 DEF CopiedBack
  <2>3. QED BY <2>1, <2>2
<1>10. \A x, y \in JobPlaces(jb) : x < y => c[x] <= c[y]
  <2> TAKE x, y \in JobPlaces(jb)
  <2> HAVE x < y
  <2>1. PICK a \in Nat, b \in Nat : a = jb.start /\ b = jb.end
    BY <1>5, JobFacts
  <2>2. x \in a .. b - 1 /\ y \in a .. b - 1
    BY <2>1 DEF JobPlaces
  <2>3. /\ x - a + 1 \in DOMAIN temp /\ c[x] = temp[x - a + 1]
        /\ y - a + 1 \in DOMAIN temp /\ c[y] = temp[y - a + 1]
    BY <1>3, <2>1, JobMerged
  <2>4. x - a + 1 < y - a + 1
    BY <2>1, <2>2
  <2>5. QED BY <1>5, <2>3, <2>4 DEF Sorted
<1>11. \A x \in Index : get_h_at(c[x]) = get_h_at(array[x])
  <2> TAKE x \in Index
  <2>1. CASE x \notin JobPlaces(jb)
    BY <1>7, <2>1
  <2>2. CASE x \in JobPlaces(jb)
    <3>1. PICK h : \A y \in Index : y \in JobPlaces(jb) <=> get_h_at(array[y]) = h
      BY <1>5 DEF IsBucket
    <3>2. PICK z \in JobPlaces(jb) : c[x] = array[z]
      BY <1>8, <2>2
    <3>3. get_h_at(array[z]) = h /\ get_h_at(array[x]) = h
      BY <1>6, <2>2, <3>1
    <3>4. QED BY <3>2, <3>3
  <2>3. QED BY <2>1, <2>2
<1>12. InOrder(c)
  BY <1>4, <1>11 DEF InOrder
<1>13. SetUp' = SetUp /\ LastPart' = LastPart
  BY <1>1 DEF SetUp, LastPart
<1>14. Phases'
  BY <1>1, <1>2, <1>3, <1>4, <1>9, <1>13 DEF Phases, Labels, Divided
<1>15. BucketsInOrder'
  BY <1>3, <1>12 DEF BucketsInOrder
<1>16. PartsSorted'
  <2>1. ASSUME NEW w \in 0 .. k, NEW x \in Places(s1[w]), NEW y \in Places(s1[w]), x < y
        PROVE  c[x] <= c[y]
    <3>1. x \in Index /\ y \in Index
      <4>1. x \in 0 .. N - 1 /\ y \in 0 .. N - 1
        BY <1>4, TilesApart
      <4>2. QED BY <4>1 DEF Index
    <3>2. CASE x \in JobPlaces(jb) /\ y \in JobPlaces(jb)
      BY <1>10, <2>1, <3>2
    <3>3. CASE x \notin JobPlaces(jb) /\ y \notin JobPlaces(jb)
      <4>1. array[x] <= array[y]
        BY <1>4, <2>1 DEF AllSorted
      <4>2. QED BY <1>7, <3>1, <3>3, <4>1
    <3>4. CASE (x \in JobPlaces(jb)) # (y \in JobPlaces(jb))
      <4>1. PICK h : \A z \in Index : z \in JobPlaces(jb) <=> get_h_at(array[z]) = h
        BY <1>5 DEF IsBucket
      <4>2. get_h_at(array[x]) # get_h_at(array[y])
        BY <3>1, <3>4, <4>1
      <4>3. get_h_at(c[x]) # get_h_at(c[y])
        BY <1>11, <3>1, <4>2
      <4>4. c[x] \in Nat /\ c[y] \in Nat
        <5>1. c[x] \in Value /\ c[y] \in Value
          BY <1>9, <3>1
        <5>2. c[x] \in 0 .. T_MAX /\ c[y] \in 0 .. T_MAX
          BY <5>1, BucketOfValue
        <5>3. QED BY <5>2, ConstantFacts
      <4>5. ~(c[x] > c[y])
        BY <1>9, <1>12, <2>1, <3>1, <4>3, SameBucket
      <4>6. QED BY <4>4, <4>5
    <3>5. QED BY <3>2, <3>3, <3>4
  <2>2. QED BY <1>1, <1>3, <1>4, <2>1 DEF PartsSorted
<1>17. /\ m1 \in Seq(JobRecords) /\ Tail(m1) \in Seq(JobRecords)
       /\ \A n \in DOMAIN Tail(m1) : n + 1 \in DOMAIN m1 /\ Tail(m1)[n] = m1[n + 1]
       /\ \A n \in DOMAIN m1 : n = 1 \/ (n - 1 \in DOMAIN Tail(m1) /\ Tail(m1)[n - 1] = m1[n])
       /\ m1[1] = jb
  <2>1. m1 \in Seq(JobRecords)
    BY <1>2 DEF JobsInv
  <2>2. PICK t : t = Tail(m1)
    OBVIOUS
  <2>3. PICK n \in Nat : n = Len(m1)
    BY <2>1
  <2>4. /\ t \in Seq(JobRecords) /\ Len(t) = n - 1 /\ \A i \in 1 .. n - 1 : t[i] = m1[i + 1]
        /\ Head(m1) = m1[1]
    BY <1>5, <2>1, <2>2, <2>3, AllButFirst
  <2>5. DOMAIN t = 1 .. n - 1 /\ DOMAIN m1 = 1 .. n
    BY <2>1, <2>3, <2>4
  <2>6. \A i \in 1 .. n - 1 : i + 1 \in 1 .. n
    BY <2>3
  <2>7. \A i \in 1 .. n : i = 1 \/ (i - 1 \in 1 .. n - 1 /\ t[i - 1] = m1[i])
    <3> TAKE i \in 1 .. n
    <3>1. CASE i # 1
      <4>1. i - 1 \in 1 .. n - 1 /\ (i - 1) + 1 = i
        BY <2>3, <3>1
      <4>2. QED BY <2>4, <4>1
    <3>2. QED BY <3>1
  <2>8. QED BY <1>3, <2>1, <2>2, <2>4, <2>5, <2>6, <2>7 DEF job
<1>18. JobsInv'
  <2>1. \A j : IsBucket(j, array) => IsBucket(j, c)
    BY <1>11 DEF IsBucket
  <2>2. \A n \in DOMAIN Tail(m1) : JobFits(Tail(m1)[n], s1) /\ IsBucket(Tail(m1)[n], c)
    BY <1>2, <1>17, <2>1 DEF JobsInv
  <2>3. QED BY <1>1, <1>3, <1>17, <2>2 DEF JobsInv
<1>19. HeldTogether'
  <2>1. ASSUME NEW x \in Index, NEW y \in Index, x < y, c[x] > c[y]
        PROVE  \E n \in DOMAIN Tail(m1) : {x, y} \subseteq JobPlaces(Tail(m1)[n])
    <3>1. get_h_at(c[x]) = get_h_at(c[y])
      BY <1>9, <1>12, <2>1, SameBucket
    <3>2. get_h_at(array[x]) = get_h_at(array[y])
      BY <1>11, <3>1
    <3>3. x \in JobPlaces(jb) <=> y \in JobPlaces(jb)
      <4>1. PICK h : \A z \in Index : z \in JobPlaces(jb) <=> get_h_at(array[z]) = h
        BY <1>5 DEF IsBucket
      <4>2. QED BY <3>2, <4>1
    <3>4. \A z \in Index : c[z] \in Nat
      <4>1. \A v \in Value : v \in 0 .. T_MAX
        BY BucketOfValue
      <4>2. \A v \in Value : v \in Nat
        BY <4>1, ConstantFacts
      <4>3. QED BY <1>9, <4>2
    <3>5. x \notin JobPlaces(jb) /\ y \notin JobPlaces(jb)
      <4>1. ASSUME x \in JobPlaces(jb), y \in JobPlaces(jb)
            PROVE  FALSE
        <5>1. c[x] <= c[y]
          BY <1>10, <2>1, <4>1
        <5>2. QED BY <2>1, <3>4, <5>1
      <4>2. QED BY <3>3, <4>1
    <3>6. array[x] > array[y] /\ y < N
      <4>1. y < N
        BY ConstantFacts DEF Index
      <4>2. QED BY <1>7, <2>1, <3>5, <4>1
    <3>7. \/ \E w \in DOMAIN s1 : w >= worker /\ {x, y} \subseteq Places(s1[w])
          \/ \E n \in DOMAIN m1 : {x, y} \subseteq JobPlaces(m1[n])
      BY <1>2, <1>4, <2>1, <3>6 DEF HeldTogether
    <3>8. ~ \E w \in DOMAIN s1 : {x, y} \subseteq Places(s1[w])
      <4> SUFFICES ASSUME NEW w \in 0 .. k, x \in Places(s1[w]), y \in Places(s1[w])
                   PROVE  FALSE
        BY <1>4
      <4>1. array[x] <= array[y]
        BY <1>4, <2>1 DEF AllSorted
      <4>2. array[x] \in Nat /\ array[y] \in Nat
        BY <1>7, <3>4, <3>5
      <4>3. QED BY <3>6, <4>1, <4>2
    <3>9. PICK n \in DOMAIN m1 : {x, y} \subseteq JobPlaces(m1[n])
      BY <3>7, <3>8
    <3>10. n # 1
      BY <1>17, <3>5, <3>9
    <3>11. n - 1 \in DOMAIN Tail(m1) /\ {x, y} \subseteq JobPlaces(Tail(m1)[n - 1])
      BY <1>17, <3>9, <3>10
    <3>12. QED BY <3>11
  <2>2. QED BY <1>1, <1>3, <2>1 DEF HeldTogether
<1>20. MergeInv' /\ SizeInv'
  BY <1>1 DEF MergeInv, SizeInv
<1>21. QED BY <1>1, <1>2, <1>14, <1>15, <1>16, <1>18, <1>19, <1>20, PartsKept DEF IInv

LEMMA InvFinishJob ==
  ASSUME IInv, FinishJob
  PROVE  IInv'
<1>1. /\ pc = "merge" /\ Len(temp) = job.end - job.start
      /\ IF strategy = "two_step_sort"
         THEN array' = CopiedBack /\ m1' = Tail(m1) /\ temp' = <<>> /\ pc' = "next_job"
         ELSE UNCHANGED <<array, m1, temp>> /\ pc' = "return"
      /\ ptrs' = <<>>
      /\ UNCHANGED <<host, strategy, bucket, s1, worker>>
  BY DEF FinishJob
<1>2. CASE strategy = "two_step_sort"
  BY <1>1, <1>2, InvCopiedBack
<1>3. CASE strategy # "two_step_sort"
  <2>1. /\ UNCHANGED <<host, strategy, array, bucket, s1, m1, worker, temp>>
        /\ pc' = "return" /\ ptrs' = <<>> /\ pc = "merge"
    BY <1>1, <1>3
  <2>2. Phases /\ PartsInv /\ BucketsInOrder /\ PartsSorted /\ JobsInv /\ HeldTogether
    BY DEF IInv
  <2>3. SetUp' = SetUp /\ LastPart' = LastPart
    BY <2>1 DEF SetUp, LastPart
  <2>4. Phases'
    BY <1>3, <2>1, <2>2, <2>3 DEF Phases, Labels, Divided
  <2>5. MergeInv' /\ SizeInv'
    BY <2>1 DEF MergeInv, SizeInv
  <2>6. QED BY <2>1, <2>2, <2>4, <2>5, PartsKept, OrderKept, SortedKept, JobsKept, HeldKept DEF IInv
<1>4. QED BY <1>2, <1>3

LEMMA InvStutter ==
  ASSUME IInv, UNCHANGED vars
  PROVE  IInv'
<1>1. UNCHANGED <<host, strategy, array, bucket, s1, m1, worker, ptrs, temp, pc>>
  BY DEF vars
<1>2. Phases /\ PartsInv /\ BucketsInOrder /\ PartsSorted /\ JobsInv /\ HeldTogether /\ MergeInv /\ SizeInv
  BY DEF IInv
<1>3. SetUp' = SetUp /\ LastPart' = LastPart /\ job' = job /\ worker_mem_size_elems' = worker_mem_size_elems
  BY <1>1 DEF SetUp, LastPart, job, worker_mem_size_elems
<1>4. Phases'
  <2>1. BucketStart(bucket)' = BucketStart(bucket)
    BY <1>1 DEF BucketStart, BucketEnd
  <2>2. Index' = Index /\ get_h_at(T_MAX)' = get_h_at(T_MAX)
    BY DEF Index, get_h_at
  <2>3. QED BY <1>1, <1>2, <1>3, <2>1, <2>2 DEF Phases, Divided, Labels
<1>5. MergeInv'
  BY <1>1, <1>2, <1>3 DEF MergeInv
<1>6. SizeInv'
  <2>1. Admitted' = Admitted
    BY <1>1 DEF Admitted
  <2>2. QED BY <1>1, <1>2, <1>3, <2>1 DEF SizeInv
<1>7. QED BY <1>1, <1>2, <1>4, <1>5, <1>6, PartsKept, OrderKept, SortedKept, JobsKept, HeldKept DEF IInv

LEMMA InvNext ==
  ASSUME IInv, [Next]_vars
  PROVE  IInv'
<1>1. CASE UNCHANGED vars
  BY <1>1, InvStutter
<1>2. CASE Stutter
  BY <1>2, InvStutter DEF Stutter
<1>3. CASE Start \/ init_props \/ FirstLevel \/ PartitionBucket \/ Partitioned
  BY <1>3, InvStart, Inv_init_props, InvFirstLevel, InvPartitionBucket, InvPartitioned
<1>4. CASE worker_psort_and_tick \/ SortedAll
  BY <1>4, Inv_worker_psort_and_tick, InvSortedAll
<1>5. CASE BeginJob \/ Merge \/ FinishJob \/ Return
  BY <1>5, InvBeginJob, InvMerge, InvFinishJob, InvReturn
<1>6. QED BY <1>1, <1>2, <1>3, <1>4, <1>5 DEF Next

\* The invariant holds for every workload, every division of values into buckets and every
\* host that the assumption admits.
THEOREM Invariant == Spec => []IInv
<1>1. Init => IInv
  BY InvInit
<1>2. IInv /\ [Next]_vars => IInv'
  BY InvNext
<1>3. QED BY <1>1, <1>2, PTL DEF Spec

\* FlattenSeq puts the sequences behind one another.
Flattens(f, s, n, S) ==
  /\ f \in [1 .. n -> Seq(S)]
  /\ FlattenSeq(s) = f[n]
  /\ f[1] = s[1] /\ \A i \in 2 .. n : f[i] = f[i - 1] \o s[i]

LEMMA FlattenEquation ==
  ASSUME NEW S, NEW n \in Nat \ {0}, NEW s \in [1 .. n -> Seq(S)]
  PROVE  \E f : Flattens(f, s, n, S)
<1> DEFINE Eq(f, m) == f = [i \in 1 .. m |-> IF i = 1 THEN s[i] ELSE f[i - 1] \o s[i]]
           Good == {m \in 1 .. n : \E f : Eq(f, m)}
           Bad == (1 .. n) \ Good
<1>1. Bad = {}
  <2> SUFFICES ASSUME Bad # {}
               PROVE  FALSE
    OBVIOUS
  <2>1. PICK m \in Bad : \A k \in Bad : m <= k
    <3> HIDE DEF Good
    <3>1. Bad \subseteq Nat
      OBVIOUS
    <3> HIDE DEF Bad
    <3>2. QED BY <3>1, LeastNat
  <2>2. m \in 1 .. n /\ m \notin Good
    BY <2>1
  <2>3. CASE m = 1
    <3>1. Eq([i \in 1 .. 1 |-> s[i]], 1)
      OBVIOUS
    <3> HIDE DEF Eq
    <3>2. 1 \in Good
      BY <3>1
    <3>3. QED BY <2>2, <2>3, <3>2
  <2>4. CASE m # 1
    <3>1. m - 1 \in 1 .. n /\ m - 1 \in Good
      <4> HIDE DEF Good
      <4>1. m - 1 \in 1 .. n /\ ~(m <= m - 1)
        BY <2>2, <2>4
      <4>2. QED BY <2>1, <4>1
    <3>2. PICK f : Eq(f, m - 1)
      BY <3>1
    <3> DEFINE g == [i \in 1 .. m |-> IF i = m THEN f[m - 1] \o s[m] ELSE f[i]]
    <3>3. \A i \in 1 .. m - 1 : f[i] = IF i = 1 THEN s[i] ELSE f[i - 1] \o s[i]
      BY <3>2
    <3>4. \A i \in 1 .. m - 1 : g[i] = f[i]
      BY <2>2
    <3>5. g[m] = f[m - 1] \o s[m] /\ DOMAIN g = 1 .. m
      BY <2>2
    <3> HIDE DEF g
    <3>6. \A i \in 1 .. m : g[i] = IF i = 1 THEN s[i] ELSE g[i - 1] \o s[i]
      <4> TAKE i \in 1 .. m
      <4>1. CASE i = m
        <5>1. m - 1 \in 1 .. m - 1 /\ m # 1
          BY <2>2, <2>4
        <5>2. QED BY <3>4, <3>5, <4>1, <5>1
      <4>2. CASE i # m
        <5>1. i \in 1 .. m - 1 /\ (i # 1 => i - 1 \in 1 .. m - 1)
          BY <2>2, <4>2
        <5>2. QED BY <3>3, <3>4, <5>1
      <4>3. QED BY <4>1, <4>2
    <3>7. g = [i \in 1 .. m |-> g[i]]
      BY <3>5 DEF g
    <3>8. Eq(g, m)
      BY <3>6, <3>7
    <3>9. QED BY <2>2, <3>8
  <2>5. QED BY <2>3, <2>4
<1>2. PICK f : f = CHOOSE g : Eq(g, n)
  OBVIOUS
<1>3. Eq(f, n)
  <2> HIDE DEF Eq
  <2>1. n \in Good
    <3> HIDE DEF Good
    <3>1. n \in 1 .. n
      OBVIOUS
    <3>2. QED BY <1>1, <3>1
  <2>2. QED BY <1>2, <2>1
<1>4. \A i \in 1 .. n : f[i] = IF i = 1 THEN s[i] ELSE f[i - 1] \o s[i]
  BY <1>3
<1>5. DOMAIN f = 1 .. n /\ f = [i \in 1 .. n |-> f[i]]
  <2>1. PICK e : e = [i \in 1 .. n |-> IF i = 1 THEN s[i] ELSE f[i - 1] \o s[i]]
    OBVIOUS
  <2>2. f = e
    BY <1>3, <2>1
  <2>3. DOMAIN e = 1 .. n /\ e = [i \in 1 .. n |-> e[i]]
    BY <2>1
  <2>4. QED BY <2>2, <2>3
<1>6. FlattenSeq(s) = f[n]
  <2>1. Len(s) = n
    OBVIOUS
  <2>2. QED BY <1>2, <2>1 DEF FlattenSeq
<1>7. \A i \in 1 .. n : f[i] \in Seq(S)
  <2> DEFINE Odd == {i \in 1 .. n : f[i] \notin Seq(S)}
  <2> SUFFICES ASSUME Odd # {}
               PROVE  FALSE
    OBVIOUS
  <2>1. PICK m \in Odd : \A k \in Odd : m <= k
    <3>1. Odd \subseteq Nat
      OBVIOUS
    <3> HIDE DEF Odd
    <3>2. QED BY <3>1, LeastNat
  <2>2. m \in 1 .. n /\ f[m] \notin Seq(S) /\ s[m] \in Seq(S)
    BY <2>1
  <2>3. CASE m = 1
    BY <1>4, <2>2, <2>3
  <2>4. CASE m # 1
    <3>1. m - 1 \in 1 .. n /\ m - 1 \notin Odd
      BY <2>1, <2>2, <2>4
    <3>2. f[m - 1] \in Seq(S)
      BY <3>1
    <3>3. f[m - 1] \o s[m] \in Seq(S)
      BY <2>2, <3>2, ConcatProperties
    <3>4. QED BY <1>4, <2>2, <2>4, <3>3
  <2>5. QED BY <2>3, <2>4
<1>8. f \in [1 .. n -> Seq(S)]
  BY <1>5, <1>7
<1>9. f[1] = s[1] /\ \A i \in 2 .. n : f[i] = f[i - 1] \o s[i]
  <2>1. 1 \in 1 .. n /\ \A i \in 2 .. n : i \in 1 .. n /\ i # 1
    OBVIOUS
  <2>2. QED BY <1>4, <2>1
<1>10. QED BY <1>6, <1>8, <1>9 DEF Flattens

\* A stretch of an array and the same elements in a sequence.
LEMMA Stretch ==
  ASSUME NEW l \in Int, NEW h \in Int, NEW d \in Nat, NEW len \in Nat,
         len = IF h > l THEN h - l ELSE 0,
         NEW c, NEW a, \A k \in 1 .. len : c[d + k] = a[l + k - 1]
  PROVE  Rearranged(d + 1 .. d + len, c, l .. h - 1, a)
<1> DEFINE g == [x \in d + 1 .. d + len |-> l + x - d - 1]
<1>1. \A x \in d + 1 .. d + len : g[x] = l + x - d - 1 /\ g[x] \in l .. h - 1
  OBVIOUS
<1>2. \A x \in d + 1 .. d + len : c[x] = a[g[x]]
  <2> TAKE x \in d + 1 .. d + len
  <2>1. PICK k : k = x - d
    OBVIOUS
  <2>2. k \in 1 .. len /\ x = d + k /\ g[x] = l + k - 1
    BY <2>1
  <2>3. QED BY <2>2
<1>3. g \in [d + 1 .. d + len -> l .. h - 1]
  BY <1>1
<1> HIDE DEF g
<1>4. \A x, y \in d + 1 .. d + len : g[x] = g[y] => x = y
  BY <1>1
<1>5. \A z \in l .. h - 1 : \E x \in d + 1 .. d + len : g[x] = z
  <2> TAKE z \in l .. h - 1
  <2>1. PICK x : x = z - l + d + 1
    OBVIOUS
  <2>2. x \in d + 1 .. d + len /\ l + x - d - 1 = z
    BY <2>1
  <2>3. QED BY <1>1, <2>2
<1>6. OneToOne(g, d + 1 .. d + len, l .. h - 1)
  BY <1>3, <1>4, <1>5 DEF OneToOne
<1>7. QED BY <1>2, <1>6 DEF Rearranged

LEMMA StretchAlone ==
  ASSUME NEW S, NEW q \in Seq(S), NEW a, NEW l \in Int, NEW h \in Int,
         Len(q) = IF h > l THEN h - l ELSE 0,
         \A k \in 1 .. Len(q) : q[k] = a[l + k - 1]
  PROVE  Rearranged(1 .. Len(q), q, l .. h - 1, a)
<1>1. PICK len, d : len = Len(q) /\ d = 0
  OBVIOUS
<1>2. len \in Nat /\ d \in Nat
  BY <1>1, LenProperties
<1>3. \A k \in 1 .. len : q[d + k] = a[l + k - 1]
  <2> TAKE k \in 1 .. len
  <2>1. d + k = k
    BY <1>1
  <2>2. QED BY <1>1, <2>1
<1>4. len = IF h > l THEN h - l ELSE 0
  BY <1>1
<1>5. Rearranged(d + 1 .. d + len, q, l .. h - 1, a)
  BY <1>2, <1>3, <1>4, Stretch
<1>6. d + 1 .. d + len = 1 .. len
  BY <1>1, <1>2
<1>7. QED BY <1>1, <1>5, <1>6

LEMMA StretchBehind ==
  ASSUME NEW S, NEW p \in Seq(S), NEW q \in Seq(S), NEW c, c = p \o q, NEW a, NEW P,
         Rearranged(1 .. Len(p), p, P, a),
         NEW l \in Int, NEW h \in Int, P \cap (l .. h - 1) = {},
         Len(q) = IF h > l THEN h - l ELSE 0,
         \A k \in 1 .. Len(q) : q[k] = a[l + k - 1]
  PROVE  Rearranged(1 .. Len(c), c, P \cup (l .. h - 1), a)
<1>1. PICK d, len : d = Len(p) /\ len = Len(q)
  OBVIOUS
<1>2. d \in Nat /\ len \in Nat
  BY <1>1, LenProperties
<1>3. Len(c) = d + len /\ \A x \in 1 .. d + len : c[x] = IF x <= d THEN p[x] ELSE q[x - d]
  BY <1>1, ConcatProperties
<1>4. /\ \A x \in 1 .. d : c[x] = p[x]
      /\ \A k \in 1 .. len : c[d + k] = q[k]
  <2>1. \A x \in 1 .. d : x \in 1 .. d + len /\ x <= d
    BY <1>2
  <2>2. \A k \in 1 .. len : d + k \in 1 .. d + len /\ ~(d + k <= d) /\ d + k - d = k
    BY <1>2
  <2>3. \A x \in 1 .. d : c[x] = p[x]
    BY <1>3, <2>1
  <2>4. ASSUME NEW k \in 1 .. len
        PROVE  c[d + k] = q[k]
    <3>1. PICK x : x = d + k
      OBVIOUS
    <3>2. x \in 1 .. d + len /\ ~(x <= d) /\ x - d = k
      BY <1>2, <3>1
    <3>3. c[x] = q[x - d]
      <4>1. c[x] = IF x <= d THEN p[x] ELSE q[x - d]
        BY <1>3, <3>2, Zenon
      <4>2. QED BY <3>2, <4>1, Zenon
    <3>4. QED BY <3>1, <3>2, <3>3
  <2>5. QED BY <2>3, <2>4
<1>5. Rearranged(1 .. d, c, P, a)
  <2>1. Rearranged(1 .. d, c, 1 .. d, p)
    BY <1>4, RearrangedReflexive
  <2>2. QED BY <1>1, <2>1, RearrangedTransitive
<1>6. Rearranged(d + 1 .. d + len, c, l .. h - 1, a)
  <2>1. \A k \in 1 .. len : c[d + k] = a[l + k - 1]
    BY <1>1, <1>4
  <2>2. len = IF h > l THEN h - l ELSE 0
    BY <1>1
  <2>3. QED BY <1>2, <2>1, <2>2, Stretch
<1>7. (1 .. d) \cap (d + 1 .. d + len) = {} /\ (1 .. d) \cup (d + 1 .. d + len) = 1 .. d + len
  BY <1>2
<1>8. QED
  <2>1. PICK D, F, G : D = 1 .. d /\ F = d + 1 .. d + len /\ G = l .. h - 1
    OBVIOUS
  <2>2. D \cap F = {} /\ P \cap G = {} /\ Rearranged(D, c, P, a) /\ Rearranged(F, c, G, a)
    BY <1>5, <1>6, <1>7, <2>1
  <2>3. Rearranged(D \cup F, c, P \cup G, a)
    BY <2>2, RearrangedUnion
  <2>4. D \cup F = 1 .. Len(c)
    BY <1>3, <1>7, <2>1
  <2>5. QED BY <2>1, <2>3, <2>4

\* Of stretches of an array FlattenSeq makes a sequence with their elements.
Stretches(m, lo, hi) == UNION {lo[i] .. hi[i] - 1 : i \in 1 .. m}

AreStretches(s, n, S, a, lo, hi) ==
  /\ s \in [1 .. n -> Seq(S)] /\ lo \in [1 .. n -> Int] /\ hi \in [1 .. n -> Int]
  /\ \A i \in 1 .. n : Len(s[i]) = IF hi[i] > lo[i] THEN hi[i] - lo[i] ELSE 0
  /\ \A i \in 1 .. n : \A k \in 1 .. Len(s[i]) : s[i][k] = a[lo[i] + k - 1]
  /\ \A i, j \in 1 .. n : i < j => (lo[i] .. hi[i] - 1) \cap (lo[j] .. hi[j] - 1) = {}

LEMMA OneStretch ==
  ASSUME NEW n \in Nat \ {0}, NEW s, NEW S, NEW a, NEW lo, NEW hi, AreStretches(s, n, S, a, lo, hi),
         NEW m \in 1 .. n
  PROVE  /\ s[m] \in Seq(S) /\ lo[m] \in Int /\ hi[m] \in Int
         /\ Len(s[m]) = IF hi[m] > lo[m] THEN hi[m] - lo[m] ELSE 0
         /\ \A k \in 1 .. Len(s[m]) : s[m][k] = a[lo[m] + k - 1]
<1>1. s[m] \in Seq(S) /\ lo[m] \in Int /\ hi[m] \in Int
  BY DEF AreStretches
<1>2. Len(s[m]) = IF hi[m] > lo[m] THEN hi[m] - lo[m] ELSE 0
  BY DEF AreStretches
<1>3. \A k \in 1 .. Len(s[m]) : s[m][k] = a[lo[m] + k - 1]
  BY DEF AreStretches
<1>4. QED BY <1>1, <1>2, <1>3

LEMMA FirstStretch ==
  ASSUME NEW lo, NEW hi
  PROVE  Stretches(1, lo, hi) = lo[1] .. hi[1] - 1
<1>1. 1 .. 1 = {1}
  OBVIOUS
<1>2. QED BY <1>1, Zenon DEF Stretches

LEMMA NextStretch ==
  ASSUME NEW n \in Nat \ {0}, NEW s, NEW S, NEW a, NEW lo, NEW hi, AreStretches(s, n, S, a, lo, hi),
         NEW m \in 1 .. n, m # 1
  PROVE  /\ Stretches(m - 1, lo, hi) \cap (lo[m] .. hi[m] - 1) = {}
         /\ Stretches(m, lo, hi) = Stretches(m - 1, lo, hi) \cup (lo[m] .. hi[m] - 1)
<1> DEFINE T(i) == lo[i] .. hi[i] - 1
<1>1. 1 .. m = (1 .. m - 1) \cup {m} /\ \A i \in 1 .. m - 1 : i \in 1 .. n /\ i < m
  OBVIOUS
<1>2. \A i, j \in 1 .. n : i < j => T(i) \cap T(j) = {}
  BY DEF AreStretches
<1>3. \A k, x : x \in Stretches(k, lo, hi) <=> \E i \in 1 .. k : x \in T(i)
  BY Zenon DEF Stretches
<1> HIDE DEF T
<1>4. \A i \in 1 .. m - 1 : T(i) \cap T(m) = {}
  BY <1>1, <1>2
<1>5. ASSUME NEW x, x \in Stretches(m - 1, lo, hi), x \in T(m)
      PROVE  FALSE
  <2>1. PICK i \in 1 .. m - 1 : x \in T(i)
    BY <1>3, <1>5
  <2>2. QED BY <1>4, <1>5, <2>1
<1>6. ASSUME NEW x
      PROVE  x \in Stretches(m, lo, hi) <=> x \in Stretches(m - 1, lo, hi) \/ x \in T(m)
  <2>1. PICK D, E : D = 1 .. m - 1 /\ E = 1 .. m
    OBVIOUS
  <2>2. E = D \cup {m}
    BY <1>1, <2>1
  <2>3. (\E i \in E : x \in T(i)) <=> (\E i \in D : x \in T(i)) \/ x \in T(m)
    BY <2>2, Zenon
  <2>4. QED BY <1>3, <2>1, <2>3
<1>7. QED BY <1>5, <1>6 DEF T

LEMMA FlattenStretches ==
  ASSUME NEW n \in Nat \ {0}, NEW s, NEW S, NEW a, NEW lo, NEW hi, AreStretches(s, n, S, a, lo, hi)
  PROVE  /\ FlattenSeq(s) \in Seq(S)
         /\ Rearranged(1 .. Len(FlattenSeq(s)), FlattenSeq(s), Stretches(n, lo, hi), a)
<1>1. PICK f : Flattens(f, s, n, S)
  <2>1. s \in [1 .. n -> Seq(S)]
    BY DEF AreStretches
  <2>2. QED BY <2>1, FlattenEquation
<1>2. /\ f \in [1 .. n -> Seq(S)] /\ FlattenSeq(s) = f[n]
      /\ f[1] = s[1] /\ \A i \in 2 .. n : f[i] = f[i - 1] \o s[i]
  BY <1>1 DEF Flattens
<1> DEFINE Bad == {m \in 1 .. n : ~Rearranged(1 .. Len(f[m]), f[m], Stretches(m, lo, hi), a)}
<1>3. ASSUME Bad # {}
      PROVE  FALSE
  <2>1. PICK m \in Bad : \A k \in Bad : m <= k
    <3>1. Bad \subseteq Nat
      OBVIOUS
    <3> HIDE DEF Bad
    <3>2. QED BY <1>3, <3>1, LeastNat
  <2>2. m \in 1 .. n /\ ~Rearranged(1 .. Len(f[m]), f[m], Stretches(m, lo, hi), a)
    BY <2>1
  <2>3. PICK q, c, l, h, P : q = s[m] /\ c = f[m] /\ l = lo[m] /\ h = hi[m] /\ P = Stretches(m, lo, hi)
    OBVIOUS
  <2>4. /\ q \in Seq(S) /\ l \in Int /\ h \in Int
        /\ Len(q) = IF h > l THEN h - l ELSE 0
        /\ \A k \in 1 .. Len(q) : q[k] = a[l + k - 1]
    BY <2>2, <2>3, OneStretch
  <2>5. CASE m = 1
    <3>1. P = l .. h - 1 /\ c = q
      BY <1>2, <2>3, <2>5, FirstStretch
    <3>2. Rearranged(1 .. Len(q), q, l .. h - 1, a)
      BY <2>4, StretchAlone
    <3>3. QED BY <2>2, <2>3, <3>1, <3>2
  <2>6. CASE m # 1
    <3>1. m - 1 \in 1 .. n /\ m \in 2 .. n /\ m - 1 \notin Bad
      <4>1. m - 1 \in 1 .. n /\ m \in 2 .. n /\ ~(m <= m - 1)
        BY <2>2, <2>6
      <4> HIDE DEF Bad
      <4>2. QED BY <2>1, <4>1
    <3>2. PICK p, Q : p = f[m - 1] /\ Q = Stretches(m - 1, lo, hi)
      OBVIOUS
    <3>3. p \in Seq(S) /\ c = p \o q
      BY <1>2, <2>3, <3>1, <3>2
    <3>4. Rearranged(1 .. Len(p), p, Q, a)
      BY <3>1, <3>2
    <3>5. Q \cap (l .. h - 1) = {} /\ P = Q \cup (l .. h - 1)
      BY <2>2, <2>3, <2>6, <3>2, NextStretch
    <3>6. Rearranged(1 .. Len(c), c, Q \cup (l .. h - 1), a)
      <4> HIDE DEF Bad
      <4>1. QED BY <2>4, <3>3, <3>4, <3>5, StretchBehind
    <3>7. QED BY <2>2, <2>3, <3>5, <3>6
  <2>7. QED BY <2>5, <2>6
<1>4. QED
  <2>1. n \in 1 .. n /\ n \notin Bad
    BY <1>3
  <2>2. Rearranged(1 .. Len(f[n]), f[n], Stretches(n, lo, hi), a)
    BY <2>1
  <2>3. QED BY <1>2, <2>1, <2>2

(***************************************************************************)
(* What the merges make of the array.                                      *)
(***************************************************************************)
RestOf(a, s, jb, p, j) ==
  IF p[j] = NULL THEN <<>> ELSE [n \in 1 .. SegmentEnd(s, jb, j) - p[j] |-> a[p[j] + n - 1]]
RestsOf(a, s, jb, p) == [n \in 1 .. ptr_size(jb) |-> RestOf(a, s, jb, p, n - 1)]
MergedOf(a, s, jb, p, t) == t \o FlattenSeq(RestsOf(a, s, jb, p))

LEMMA RestFacts ==
  ASSUME NEW s, NEW k, NEW jb, JobSetting(s, k, jb), NEW p, PtrsFit(s, jb, p),
         NEW a \in [Index -> Value], NEW j \in 0 .. ptr_size(jb) - 1,
         NEW lo, lo = (IF p[j] = NULL THEN 0 ELSE p[j]),
         NEW hi, hi = (IF p[j] = NULL THEN 0 ELSE SegmentEnd(s, jb, j)),
         NEW r, r = RestOf(a, s, jb, p, j)
  PROVE  /\ lo \in Int /\ hi \in Int
         /\ lo .. hi - 1 = Left(s, jb, p, j)
         /\ r \in Seq(Value)
         /\ Len(r) = IF hi > lo THEN hi - lo ELSE 0
         /\ \A i \in 1 .. Len(r) : r[i] = a[lo + i - 1]
<1>1. CASE p[j] = NULL
  <2>1. lo = 0 /\ hi = 0 /\ r = <<>> /\ Left(s, jb, p, j) = {}
    BY <1>1 DEF RestOf, Left
  <2>2. r \in Seq(Value) /\ Len(r) = 0 /\ 0 .. 0 - 1 = {}
    BY <2>1
  <2>3. QED BY <2>1, <2>2
<1>2. CASE p[j] # NULL
  <2>1. /\ SegmentEnd(s, jb, j) \in Nat /\ p[j] \in Index
        /\ \A x \in Left(s, jb, p, j) : x \in JobPlaces(jb)
    BY <1>2, PtrFacts
  <2>2. PICK l \in Nat, h \in Nat : l = p[j] /\ h = SegmentEnd(s, jb, j)
    <3>1. p[j] \in Nat
      BY <2>1, ConstantFacts DEF Index
    <3>2. QED BY <2>1, <3>1
  <2>3. lo = l /\ hi = h /\ Left(s, jb, p, j) = l .. h - 1
    BY <1>2, <2>2 DEF Left
  <2>4. r = [n \in 1 .. h - l |-> a[l + n - 1]]
    BY <1>2, <2>2 DEF RestOf
  <2>5. \A x \in l .. h - 1 : a[x] \in Value
    <3>1. \A x \in l .. h - 1 : x \in Index
      BY <2>1, <2>3, JobFacts
    <3>2. QED BY <3>1
  <2>6. PICK m \in Nat : m = IF h > l THEN h - l ELSE 0
    <3>1. (IF h > l THEN h - l ELSE 0) \in Nat
      OBVIOUS
    <3>2. QED BY <3>1
  <2>7. 1 .. h - l = 1 .. m
    BY <2>6
  <2>8. \A n \in 1 .. m : a[l + n - 1] \in Value
    <3>1. \A n \in 1 .. m : l + n - 1 \in l .. h - 1
      BY <2>6
    <3>2. QED BY <2>5, <3>1
  <2>9. r = [n \in 1 .. m |-> a[l + n - 1]]
    BY <2>4, <2>7
  <2>10. r \in Seq(Value) /\ Len(r) = m
    BY <2>8, <2>9
  <2>11. \A i \in 1 .. m : r[i] = a[l + i - 1]
    BY <2>9
  <2>12. QED BY <2>3, <2>6, <2>10, <2>11
<1>3. QED BY <1>1, <1>2

LEMMA LeftApart ==
  ASSUME NEW s, NEW k, NEW jb, JobSetting(s, k, jb), NEW p, PtrsFit(s, jb, p),
         NEW i \in 0 .. ptr_size(jb) - 1, NEW j \in 0 .. ptr_size(jb) - 1, i # j
  PROVE  Left(s, jb, p, i) \cap Left(s, jb, p, j) = {}
<1> SUFFICES ASSUME NEW x, x \in Left(s, jb, p, i), x \in Left(s, jb, p, j)
             PROVE  FALSE
  OBVIOUS
<1>1. PICK f \in Nat, n \in Nat : f = jb.w_first /\ n = ptr_size(jb)
  BY JobFacts
<1>2. PICK v \in 0 .. k, w \in 0 .. k : v = f + i /\ w = f + j
  BY <1>1, JobFacts
<1>3. x \in Places(s[v]) /\ x \in Places(s[w])
  BY <1>1, <1>2, PtrFacts
<1>4. PICK y \in Places(s[v]), z \in Places(s[w]) : y = x /\ z = x
  BY <1>3
<1>5. Tiles(s, k, N)
  BY DEF JobSetting
<1>6. y = z => v = w
  BY <1>5, TilesApart
<1>7. QED BY <1>1, <1>2, <1>4, <1>6

\* What is behind the merged elements is what is left.
IsMerged(c, t, a, R) ==
  /\ c \in Seq(Value)
  /\ Len(c) = Len(t) + Cardinality(R)
  /\ \A i \in 1 .. Len(t) : c[i] = t[i]
  /\ Rearranged(Len(t) + 1 .. Len(c), c, R, a)

LEMMA RestsFlatten ==
  ASSUME NEW s, NEW k, NEW jb, JobSetting(s, k, jb), NEW p, PtrsFit(s, jb, p),
         NEW a \in [Index -> Value],
         NEW F, F = FlattenSeq(RestsOf(a, s, jb, p))
  PROVE  F \in Seq(Value) /\ Rearranged(1 .. Len(F), F, Remaining(s, jb, p), a)
<1>1. PICK n \in Nat \ {0} : n = ptr_size(jb)
  BY JobFacts
<1>2. PICK lo : lo = [i \in 1 .. n |-> IF p[i - 1] = NULL THEN 0 ELSE p[i - 1]]
  OBVIOUS
<1>3. PICK hi : hi = [i \in 1 .. n |-> IF p[i - 1] = NULL THEN 0 ELSE SegmentEnd(s, jb, i - 1)]
  OBVIOUS
<1>4. PICK q : q = RestsOf(a, s, jb, p)
  OBVIOUS
<1>5. \A i \in 1 .. n :
        /\ lo[i] \in Int /\ hi[i] \in Int
        /\ lo[i] .. hi[i] - 1 = Left(s, jb, p, i - 1)
        /\ q[i] \in Seq(Value)
        /\ Len(q[i]) = IF hi[i] > lo[i] THEN hi[i] - lo[i] ELSE 0
        /\ \A m \in 1 .. Len(q[i]) : q[i][m] = a[lo[i] + m - 1]
  <2> TAKE i \in 1 .. n
  <2>1. PICK j \in 0 .. n - 1 : j = i - 1
    BY <1>1
  <2>2. lo[i] = (IF p[j] = NULL THEN 0 ELSE p[j])
    BY <1>2, <2>1
  <2>3. hi[i] = (IF p[j] = NULL THEN 0 ELSE SegmentEnd(s, jb, j))
    BY <1>3, <2>1
  <2>4. q[i] = RestOf(a, s, jb, p, j)
    BY <1>1, <1>4, <2>1 DEF RestsOf
  <2>5. /\ lo[i] \in Int /\ hi[i] \in Int
        /\ lo[i] .. hi[i] - 1 = Left(s, jb, p, j)
        /\ q[i] \in Seq(Value)
        /\ Len(q[i]) = IF hi[i] > lo[i] THEN hi[i] - lo[i] ELSE 0
        /\ \A m \in 1 .. Len(q[i]) : q[i][m] = a[lo[i] + m - 1]
    BY <1>1, <2>2, <2>3, <2>4, RestFacts, SMTT(30)
  <2>6. QED BY <2>1, <2>5
<1>6. lo \in [1 .. n -> Int]
  BY <1>2, <1>5
<1>7. hi \in [1 .. n -> Int]
  BY <1>3, <1>5
<1>8. q \in [1 .. n -> Seq(Value)]
  <2>1. q = [i \in 1 .. n |-> RestOf(a, s, jb, p, i - 1)]
    BY <1>1, <1>4 DEF RestsOf
  <2>2. q = [i \in 1 .. n |-> q[i]]
    BY <2>1
  <2>3. QED BY <1>5, <2>2
<1>9. \A i, j \in 1 .. n : i < j => (lo[i] .. hi[i] - 1) \cap (lo[j] .. hi[j] - 1) = {}
  <2> TAKE i, j \in 1 .. n
  <2> HAVE i < j
  <2>1. i - 1 \in 0 .. n - 1 /\ j - 1 \in 0 .. n - 1 /\ i - 1 # j - 1
    OBVIOUS
  <2>2. Left(s, jb, p, i - 1) \cap Left(s, jb, p, j - 1) = {}
    BY <1>1, <2>1, LeftApart
  <2>3. QED BY <1>5, <2>2
<1>10. AreStretches(q, n, Value, a, lo, hi)
  BY <1>5, <1>6, <1>7, <1>8, <1>9 DEF AreStretches
<1>11. Stretches(n, lo, hi) = Remaining(s, jb, p)
  <2>1. ASSUME NEW x
        PROVE  (\E i \in 1 .. n : x \in lo[i] .. hi[i] - 1) <=>
               (\E j \in 0 .. n - 1 : x \in Left(s, jb, p, j))
    <3>1. \A i \in 1 .. n : i - 1 \in 0 .. n - 1
      OBVIOUS
    <3>2. \A j \in 0 .. n - 1 : j + 1 \in 1 .. n /\ (j + 1) - 1 = j
      OBVIOUS
    <3>3. \A j \in 0 .. n - 1 : lo[j + 1] .. hi[j + 1] - 1 = Left(s, jb, p, j)
      <4> TAKE j \in 0 .. n - 1
      <4>1. PICK i \in 1 .. n : i = j + 1 /\ i - 1 = j
        BY <3>2
      <4>2. QED BY <1>5, <4>1
    <3>4. QED BY <1>5, <3>1, <3>2, <3>3, ZenonT(40)
  <2>2. \A x : x \in Stretches(n, lo, hi) <=> \E i \in 1 .. n : x \in lo[i] .. hi[i] - 1
    BY DEF Stretches
  <2>3. \A x : x \in Remaining(s, jb, p) <=> \E j \in 0 .. n - 1 : x \in Left(s, jb, p, j)
    BY <1>1 DEF Remaining
  <2>4. QED BY <2>1, <2>2, <2>3
<1>12. FlattenSeq(q) \in Seq(Value)
       /\ Rearranged(1 .. Len(FlattenSeq(q)), FlattenSeq(q), Stretches(n, lo, hi), a)
  BY <1>10, FlattenStretches
<1>13. QED BY <1>4, <1>11, <1>12

LEMMA MergedFacts ==
  ASSUME NEW s, NEW k, NEW jb, JobSetting(s, k, jb), NEW p, PtrsFit(s, jb, p),
         NEW a \in [Index -> Value], NEW t \in Seq(Value),
         NEW c, c = MergedOf(a, s, jb, p, t)
  PROVE  IsMerged(c, t, a, Remaining(s, jb, p))
<1>1. PICK F : F = FlattenSeq(RestsOf(a, s, jb, p))
  OBVIOUS
<1>2. PICK R : R = Remaining(s, jb, p)
  OBVIOUS
<1>3. F \in Seq(Value) /\ Rearranged(1 .. Len(F), F, R, a)
  BY <1>1, <1>2, RestsFlatten
<1>4. c = t \o F
  BY <1>1 DEF MergedOf
<1>5. PICK d \in Nat, len \in Nat : d = Len(t) /\ len = Len(F)
  BY <1>3
<1>6. /\ c \in Seq(Value) /\ Len(c) = d + len
      /\ \A i \in 1 .. d : c[i] = t[i]
      /\ \A i \in 1 .. len : c[d + i] = F[i]
  <2>1. c \in Seq(Value) /\ Len(c) = d + len
    BY <1>3, <1>4, <1>5, ConcatProperties
  <2>2. \A i \in 1 .. Len(t) + Len(F) : c[i] = IF i <= Len(t) THEN t[i] ELSE F[i - Len(t)]
    BY <1>3, <1>4, ConcatProperties
  <2>3. \A i \in 1 .. d : c[i] = t[i]
    BY <1>5, <2>2
  <2>4. \A i \in 1 .. len : c[d + i] = F[i]
    <3> TAKE i \in 1 .. len
    <3>1. d + i \in 1 .. d + len /\ ~(d + i <= d) /\ (d + i) - d = i
      BY <1>5
    <3>2. QED BY <1>5, <2>2, <3>1
  <2>5. QED BY <2>1, <2>3, <2>4
<1>7. Rearranged(d + 1 .. d + len, c, 1 .. len, F)
  <2>1. \A i \in 1 .. len : c[d + i] = F[1 + i - 1]
    BY <1>6
  <2>2. PICK l \in Int, h \in Int : l = 1 /\ h = len + 1
    OBVIOUS
  <2>3. len = (IF h > l THEN h - l ELSE 0) /\ h - 1 = len
    BY <2>2
  <2>4. \A i \in 1 .. len : c[d + i] = F[l + i - 1]
    BY <2>1, <2>2
  <2>5. Rearranged(d + 1 .. d + len, c, l .. h - 1, F)
    BY <1>5, <2>3, <2>4, Stretch
  <2>6. QED BY <2>2, <2>3, <2>5
<1>8. Rearranged(d + 1 .. Len(c), c, R, a)
  BY <1>3, <1>5, <1>6, <1>7, RearrangedTransitive
<1>9. Len(c) = d + Cardinality(R)
  <2>1. PICK f : OneToOne(f, 1 .. Len(F), R)
    BY <1>3 DEF Rearranged
  <2>2. IsFiniteSet(R)
    BY <1>2, RemainingFacts
  <2>3. Cardinality(1 .. Len(F)) = Cardinality(R)
    BY <2>1, <2>2, OneToOneCounts
  <2>4. Cardinality(1 .. len) = len
    <3>1. 1 \in Int /\ len \in Int
      OBVIOUS
    <3>2. Cardinality(1 .. len) = IF 1 > len THEN 0 ELSE len - 1 + 1
      BY <3>1, FS_Interval
    <3>3. QED BY <3>2
  <2>5. QED BY <1>5, <1>6, <2>3, <2>4
<1>10. QED BY <1>2, <1>5, <1>6, <1>8, <1>9 DEF IsMerged

LEMMA InvTypeOK ==
  ASSUME IInv
  PROVE  TypeOK
<1>1. Phases /\ PartsInv /\ JobsInv /\ MergeInv
  BY DEF IInv
<1>2. DOMAIN s1 \subseteq 0 .. host.worker_count - 1 /\ \A w \in DOMAIN s1 : Places(s1[w]) \subseteq Index
  <2>1. CASE SetUp
    <3>1. PICK k, end : k = cwp_id(s1) /\ end = PartEnd(LastPart)
      OBVIOUS
    <3>2. Tiles(s1, k, end) /\ end \in 0 .. N /\ k \in 0 .. host.worker_count - 1
      BY <1>1, <2>1, <3>1, PartsTile
    <3>3. DOMAIN s1 = 0 .. k /\ k \in Nat /\ end \in Nat /\ N \in Nat /\ end <= N
      BY <3>2, ConstantFacts DEF Tiles
    <3>4. \A w \in 0 .. k : \A x \in Places(s1[w]) : x \in 0 .. end - 1
      BY <3>2, TilesApart
    <3>5. host.worker_count \in Nat
      BY <1>1, HostFacts DEF Phases
    <3>6. 0 .. k \subseteq 0 .. host.worker_count - 1 /\ 0 .. end - 1 \subseteq Index
      BY <3>2, <3>3, <3>5 DEF Index
    <3>7. QED BY <3>3, <3>4, <3>6
  <2>2. CASE ~SetUp
    BY <2>2 DEF SetUp
  <2>3. QED BY <2>1, <2>2
<1>3. \A n \in DOMAIN m1 : 0 <= m1[n].start /\ m1[n].start < m1[n].end /\ m1[n].end <= N
  <2> TAKE n \in DOMAIN m1
  <2>1. SetUp
    <3>1. ~SetUp => m1 = <<>>
      BY <1>1 DEF Phases
    <3>2. QED BY <3>1
  <2>2. CASE strategy = "two_step_sort"
    <3>1. JobFits(m1[n], s1)
      BY <1>1, <2>2 DEF JobsInv
    <3>2. m1[n].start \in Nat /\ m1[n].start < m1[n].end /\ m1[n].end <= N
      BY <3>1 DEF JobFits, JobRecords
    <3>3. QED BY <3>2
  <2>3. CASE strategy = "partition_and_merge"
    <3>1. m1 = <<Job(0, host.worker_count, 0, N)>>
      BY <1>1, <2>1, <2>3 DEF JobsInv
    <3>2. m1[n] = Job(0, host.worker_count, 0, N)
      BY <3>1
    <3>3. QED BY <3>2, ConstantFacts DEF Job
  <2>4. QED BY <1>1, <2>2, <2>3 DEF Phases, Strategies
<1>4. \A j \in DOMAIN ptrs : ptrs[j] \in {NULL} \cup Places(s1[job.w_first + j])
  <2>1. CASE ptrs = <<>>
    BY <2>1
  <2>2. CASE ptrs # <<>>
    <3>1. pc = "merge" \/ pc = "overrun"
      BY <1>1, <2>2 DEF Phases
    <3>2. PtrsFit(s1, job, ptrs)
      BY <1>1, <2>2, <3>1 DEF MergeInv
    <3>3. QED BY <3>2 DEF PtrsFit
  <2>3. QED BY <2>1, <2>2
<1>5. QED BY <1>1, <1>2, <1>3, <1>4 DEF TypeOK, Phases

\* Every part lies in the array, a job's places too, and a pointer stays in the part of its
\* worker or is lost (two_step_sort.c:137-139), however many workers and buckets there are.
THEOREM TypeCorrect == Spec => []TypeOK
<1>1. IInv => TypeOK
  BY InvTypeOK
<1>2. QED BY <1>1, Invariant, PTL

LEMMA InvDivisionFits ==
  ASSUME IInv
  PROVE  DivisionFits
<1>1. Phases /\ PartsInv /\ SizeInv
  BY DEF IInv
<1>2. ASSUME Divided, NEW x \in Index
      PROVE  Cardinality({w \in DOMAIN s1 : x \in Places(s1[w])}) = 1
  <2>1. SetUp /\ PartEnd(LastPart) = N
    BY <1>1, <1>2 DEF Phases
  <2>2. PICK k : k = cwp_id(s1)
    OBVIOUS
  <2>3. Tiles(s1, k, N)
    BY <1>1, <2>1, <2>2, PartsTile
  <2>4. DOMAIN s1 = 0 .. k
    BY <2>3 DEF Tiles
  <2>5. PICK w \in 0 .. k : x \in Places(s1[w])
    BY <2>3 DEF Tiles, Index
  <2>6. \A v \in 0 .. k : x \in Places(s1[v]) => v = w
    <3> TAKE v \in 0 .. k
    <3> HAVE x \in Places(s1[v])
    <3>1. PICK y \in Places(s1[v]), z \in Places(s1[w]) : y = x /\ z = x
      BY <2>5
    <3>2. y = z => v = w
      BY <2>3, TilesApart
    <3>3. QED BY <3>1, <3>2
  <2>7. {v \in DOMAIN s1 : x \in Places(s1[v])} = {w}
    BY <2>4, <2>5, <2>6
  <2>8. Cardinality({w}) = 1
    BY FS_Singleton
  <2>9. QED BY <2>7, <2>8
<1>3. ASSUME Divided, N <= host.worker_count * worker_mem_size_elems
      PROVE  \A w \in DOMAIN s1 : s1[w].element_in_partition <= worker_mem_size_elems
  <2>1. SetUp
    BY <1>1, <1>3 DEF Phases
  <2>2. QED BY <1>1, <1>3, <2>1, PartsFit
<1>4. N <= host.worker_count * worker_mem_size_elems =>
        /\ pc = "exit" => ~Admitted
        /\ pc = "undefined" => strategy = "partition_and_merge" /\ N < host.worker_count
  BY <1>1 DEF SizeInv
<1>5. QED BY <1>2, <1>3, <1>4 DEF DivisionFits

\* When the workers' memory holds the workload (partition_and_merge.c:139), both divisions
\* give each place to one worker and none more than it holds, and never need one more worker
\* or job, whatever the workload and its buckets.
THEOREM DivisionAlwaysFits == Spec => []DivisionFits
<1>1. IInv => DivisionFits
  BY InvDivisionFits
<1>2. QED BY <1>1, Invariant, PTL

\* While it merges, Result has what is merged at the job's places.
LEMMA MergedWhileMerging ==
  ASSUME IInv, pc = "merge"
  PROVE  /\ Merged = MergedOf(array, s1, job, ptrs, temp)
         /\ IsMerged(Merged, temp, array, Remaining(s1, job, ptrs))
<1>1. PICK k, jb : k = cwp_id(s1) /\ jb = job
  OBVIOUS
<1>2. JobSetting(s1, k, jb) /\ PtrsFit(s1, jb, ptrs) /\ temp \in Seq(Value)
  BY <1>1, WhenMerging
<1>3. array \in [Index -> Value]
  BY WhenAllSorted
<1>4. PICK n \in Nat \ {0} : n = ptr_size(jb)
  BY <1>2, JobFacts
<1>5. Cardinality(DOMAIN ptrs) = n
  <2>1. DOMAIN ptrs = 0 .. n - 1
    BY <1>2, <1>4 DEF PtrsFit
  <2>2. 0 \in Int /\ n - 1 \in Int
    OBVIOUS
  <2>3. Cardinality(0 .. n - 1) = IF 0 > n - 1 THEN 0 ELSE (n - 1) - 0 + 1
    BY <2>2, FS_Interval
  <2>4. QED BY <2>1, <2>3
<1>6. \A j : Rest(j) = RestOf(array, s1, jb, ptrs, j)
  BY <1>1 DEF Rest, RestOf, SegmentEnd
<1>7. [i \in 1 .. Cardinality(DOMAIN ptrs) |-> Rest(i - 1)] = RestsOf(array, s1, jb, ptrs)
  BY <1>4, <1>5, <1>6 DEF RestsOf
<1>8. Merged = MergedOf(array, s1, jb, ptrs, temp)
  BY <1>7 DEF Merged, MergedOf
<1>9. IsMerged(Merged, temp, array, Remaining(s1, jb, ptrs))
  BY <1>2, <1>3, <1>8, MergedFacts
<1>10. QED BY <1>1, <1>8, <1>9

\* What has been merged, and what is behind it, are elements of the job.
LEMMA ResultInJob ==
  ASSUME IInv, pc = "merge"
  PROVE  \A x \in JobPlaces(job) :
           /\ x - job.start + 1 \in 1 .. Len(Merged)
           /\ Result[x] = Merged[x - job.start + 1]
           /\ Result[x] \in Value
           /\ \E z \in JobPlaces(job) : Result[x] = array[z]
<1>1. PICK jb, R, c : jb = job /\ R = Remaining(s1, job, ptrs) /\ c = Merged
  OBVIOUS
<1>2. /\ JobSetting(s1, cwp_id(s1), jb) /\ PtrsFit(s1, jb, ptrs) /\ MergedSoFar(array, jb, temp, R)
      /\ m1 # <<>> /\ temp \in Seq(Value)
  BY <1>1, WhenMerging
<1>3. IsMerged(c, temp, array, R)
  BY <1>1, MergedWhileMerging
<1>4. PICK a \in Nat, b \in Nat : a = jb.start /\ b = jb.end
  BY <1>2, JobFacts
<1>5. JobPlaces(jb) \subseteq Index /\ JobPlaces(jb) = a .. b - 1 /\ R \subseteq JobPlaces(jb)
  BY <1>1, <1>2, <1>4, JobFacts, RemainingFacts DEF JobPlaces
<1>6. PICK d \in Nat, len \in Nat : d = Len(temp) /\ len = Len(c)
  BY <1>2, <1>3 DEF IsMerged
<1>7. b - a <= len
  BY <1>2, <1>3, <1>4, <1>6 DEF IsMerged, MergedSoFar
<1>8. \A i \in 1 .. len : c[i] \in Value
  BY <1>3, <1>6, ElementOfSeq DEF IsMerged
<1>9. \A i \in 1 .. len : \E z \in JobPlaces(jb) : c[i] = array[z]
  <2> TAKE i \in 1 .. len
  <2>1. CASE i <= d
    <3>1. c[i] = temp[i] /\ i \in DOMAIN temp
      BY <1>2, <1>3, <1>6, <2>1 DEF IsMerged
    <3>2. QED BY <1>2, <3>1 DEF MergedSoFar
  <2>2. CASE i > d
    <3>1. PICK f : OneToOne(f, d + 1 .. len, R) /\ \A n \in d + 1 .. len : c[n] = array[f[n]]
      BY <1>3, <1>6 DEF IsMerged, Rearranged
    <3>2. i \in d + 1 .. len
      BY <2>2
    <3>3. f[i] \in R /\ c[i] = array[f[i]]
      BY <3>1, <3>2 DEF OneToOne
    <3>4. QED BY <1>5, <3>3
  <2>3. QED BY <1>6, <2>1, <2>2
<1>10. ASSUME NEW x \in JobPlaces(jb)
       PROVE  /\ x - a + 1 \in 1 .. len
              /\ Result[x] = c[x - a + 1]
              /\ Result[x] \in Value
              /\ \E z \in JobPlaces(jb) : Result[x] = array[z]
  <2>1. x - a + 1 \in 1 .. len
    BY <1>5, <1>7
  <2>2. x \in Index /\ x \in jb.start .. jb.end - 1
    BY <1>4, <1>5
  <2>3. Result[x] = c[x - a + 1]
    BY <1>1, <1>2, <1>4, <2>2 DEF Result
  <2>4. QED BY <1>8, <1>9, <2>1, <2>3
<1>11. QED BY <1>1, <1>4, <1>6, <1>10

\* Elsewhere, and before and after the merges, it is the array.
LEMMA ResultElsewhere ==
  ASSUME NEW x \in Index, pc \notin {"merge", "return"} \/ m1 = <<>> \/ x \notin JobPlaces(job)
  PROVE  Result[x] = array[x]
BY DEF Result, JobPlaces

LEMMA InvDisorder ==
  ASSUME IInv
  PROVE  DisorderIsOutstanding
<1> SUFFICES ASSUME Divided, NEW x \in Index, NEW y \in Index, x < y, Result[x] > Result[y]
             PROVE  \/ \E w \in DOMAIN s1 : w >= worker /\ {x, y} \subseteq Places(s1[w])
                    \/ \E n \in DOMAIN m1 : {x, y} \subseteq m1[n].start .. m1[n].end - 1
  BY DEF DisorderIsOutstanding
<1>1. Phases /\ JobsInv /\ HeldTogether
  BY DEF IInv
<1>2. SetUp /\ PartEnd(LastPart) = N /\ strategy \in Strategies /\ array \in [Index -> Value]
  BY <1>1 DEF Phases
<1>3. ASSUME Result[x] = array[x], Result[y] = array[y]
      PROVE  \/ \E w \in DOMAIN s1 : w >= worker /\ {x, y} \subseteq Places(s1[w])
             \/ \E n \in DOMAIN m1 : {x, y} \subseteq m1[n].start .. m1[n].end - 1
  <2>1. y < N
    BY ConstantFacts DEF Index
  <2>2. QED BY <1>1, <1>2, <1>3, <2>1 DEF HeldTogether, JobPlaces
<1>4. CASE strategy = "partition_and_merge"
  <2>1. m1 = <<Job(0, host.worker_count, 0, N)>>
    BY <1>1, <1>2, <1>4 DEF JobsInv
  <2>2. 1 \in DOMAIN m1 /\ {x, y} \subseteq m1[1].start .. m1[1].end - 1
    BY <2>1 DEF Job, Index
  <2>3. QED BY <2>2
<1>5. CASE strategy = "two_step_sort" /\ pc # "merge"
  <2>1. pc \notin {"merge", "return"} \/ m1 = <<>>
    BY <1>1, <1>5 DEF Phases
  <2>2. QED BY <1>3, <2>1, ResultElsewhere
<1>6. CASE strategy = "two_step_sort" /\ pc = "merge"
  <2>1. PICK jb : jb = job
    OBVIOUS
  <2>2. /\ IsBucket(jb, array) /\ m1 # <<>> /\ JobSetting(s1, cwp_id(s1), jb)
        /\ m1 \in Seq(JobRecords)
    BY <1>1, <1>6, <2>1, WhenMerging DEF JobsInv
  <2>3. JobPlaces(jb) \subseteq Index /\ InOrder(array)
    BY <1>6, <2>2, JobFacts, WhenAllSorted
  <2>4. 1 \in DOMAIN m1 /\ jb = m1[1]
    BY <2>1, <2>2 DEF job
  <2>5. CASE x \in JobPlaces(jb) /\ y \in JobPlaces(jb)
    BY <2>4, <2>5 DEF JobPlaces
  <2>6. CASE x \notin JobPlaces(jb) /\ y \notin JobPlaces(jb)
    BY <1>3, <2>1, <2>6, ResultElsewhere
  <2>7. CASE (x \in JobPlaces(jb)) # (y \in JobPlaces(jb))
    <3>1. PICK h : \A z \in Index : z \in JobPlaces(jb) <=> get_h_at(array[z]) = h
      BY <2>2 DEF IsBucket
    <3>2. ASSUME NEW z \in Index
          PROVE  get_h_at(Result[z]) = get_h_at(array[z]) /\ Result[z] \in Value
      <4>1. CASE z \in JobPlaces(jb)
        <5>1. PICK u \in JobPlaces(jb) : Result[z] = array[u]
          BY <1>6, <2>1, <4>1, ResultInJob
        <5>2. get_h_at(array[u]) = h /\ get_h_at(array[z]) = h /\ array[u] \in Value
          BY <1>2, <2>3, <3>1, <4>1
        <5>3. QED BY <5>1, <5>2
      <4>2. CASE z \notin JobPlaces(jb)
        <5>1. Result[z] = array[z]
          BY <2>1, <4>2, ResultElsewhere
        <5>2. QED BY <1>2, <5>1
      <4>3. QED BY <4>1, <4>2
    <3>3. get_h_at(array[x]) # get_h_at(array[y]) /\ get_h_at(array[x]) <= get_h_at(array[y])
      BY <2>3, <2>7, <3>1 DEF InOrder
    <3>4. PICK u \in Value, v \in Value : u = Result[x] /\ v = Result[y]
      BY <3>2
    <3>5. get_h_at(u) # get_h_at(v) /\ get_h_at(u) <= get_h_at(v)
      BY <3>2, <3>3, <3>4
    <3>6. /\ u \in 0 .. T_MAX /\ v \in 0 .. T_MAX /\ T_MAX \in Nat
          /\ get_h_at(u) \in Nat /\ get_h_at(v) \in Nat
          /\ v <= u => get_h_at(v) <= get_h_at(u)
      BY BucketOfValue, ConstantFacts
    <3>7. u > v
      BY <3>4
    <3>8. QED BY <3>5, <3>6, <3>7
  <2>8. QED BY <2>5, <2>6, <2>7
<1>7. QED BY <1>2, <1>4, <1>5, <1>6 DEF Strategies

\* Two elements of the result in the wrong order always lie in a part that is still to be
\* sorted or in a job that is still to be merged: no job leaves out what several workers
\* share (two_step_sort.c:195-219).
THEOREM DisorderNeverForgotten == Spec => []DisorderIsOutstanding
<1>1. IInv => DisorderIsOutstanding
  BY InvDisorder
<1>2. QED BY <1>1, Invariant, PTL

(***************************************************************************)
(* The merges only rearrange the result.                                   *)
(***************************************************************************)
IsResult(r, a, jb, c, t, R) ==
  /\ r \in [Index -> Value]
  /\ \A x \in Index : x \notin JobPlaces(jb) => r[x] = a[x]
  /\ \A x \in JobPlaces(jb) : x - jb.start + 1 \in 1 .. Len(c) /\ r[x] = c[x - jb.start + 1]
  /\ IsMerged(c, t, a, R)

LEMMA ResultInMerge ==
  IInv => (pc = "merge" => IsResult(Result, array, job, Merged, temp, Remaining(s1, job, ptrs)))
<1> SUFFICES ASSUME IInv, pc = "merge"
             PROVE  IsResult(Result, array, job, Merged, temp, Remaining(s1, job, ptrs))
  OBVIOUS
<1>1. \A x \in Index : x \notin JobPlaces(job) => Result[x] = array[x]
  BY ResultElsewhere
<1>2. \A x \in JobPlaces(job) : /\ x - job.start + 1 \in 1 .. Len(Merged)
                                /\ Result[x] = Merged[x - job.start + 1]
                                /\ Result[x] \in Value
  BY ResultInJob
<1>3. Result \in [Index -> Value]
  <2>1. array \in [Index -> Value]
    BY WhenAllSorted
  <2>2. \A x \in Index : Result[x] \in Value
    BY <1>1, <1>2, <2>1
  <2>3. Result = [x \in Index |-> Result[x]]
    BY DEF Result
  <2>4. QED BY <2>2, <2>3
<1>4. QED BY <1>1, <1>2, <1>3, MergedWhileMerging DEF IsResult

\* The job's places have the first of the merged elements.
LEMMA JobShifted ==
  ASSUME NEW s, NEW k, NEW jb, JobSetting(s, k, jb),
         NEW r, NEW a, NEW c, NEW t, NEW R, IsResult(r, a, jb, c, t, R),
         NEW size, size = jb.end - jb.start
  PROVE  /\ size \in Nat \ {0} /\ size <= Len(c) /\ Len(c) \in Nat
         /\ Rearranged(JobPlaces(jb), r, 1 .. size, c)
<1>1. PICK l \in Nat, h \in Nat : l = jb.start /\ h = jb.end /\ l < h
  BY JobFacts
<1>2. size \in Nat \ {0} /\ size = h - l
  BY <1>1
<1>3. JobPlaces(jb) = l .. h - 1
  BY <1>1 DEF JobPlaces
<1>4. Len(c) \in Nat
  BY DEF IsResult, IsMerged
<1>5. \A x \in l .. h - 1 : x - l + 1 \in 1 .. Len(c) /\ r[x] = c[x - l + 1]
  BY <1>1, <1>3 DEF IsResult
<1>6. size <= Len(c)
  <2>1. h - 1 \in l .. h - 1 /\ (h - 1) - l + 1 = size
    BY <1>1, <1>2
  <2>2. size \in 1 .. Len(c)
    BY <1>5, <2>1
  <2>3. QED BY <1>4, <2>2
<1>7. \A i \in 1 .. size : c[0 + i] = r[l + i - 1]
  <2> TAKE i \in 1 .. size
  <2>1. PICK x \in l .. h - 1 : x = l + i - 1
    BY <1>1, <1>2
  <2>2. x - l + 1 = i /\ 0 + i = i
    BY <1>1, <2>1
  <2>3. QED BY <1>5, <2>1, <2>2
<1>8. Rearranged(1 .. size, c, JobPlaces(jb), r)
  <2>1. PICK d \in Nat : d = 0
    OBVIOUS
  <2>2. size = (IF h > l THEN h - l ELSE 0) /\ d + 1 = 1 /\ d + size = size
    BY <1>1, <1>2, <2>1
  <2>3. \A i \in 1 .. size : c[d + i] = r[l + i - 1]
    BY <1>7, <2>1
  <2>4. l \in Int /\ h \in Int /\ size \in Nat
    BY <1>2
  <2>5. Rearranged(d + 1 .. d + size, c, l .. h - 1, r)
    BY <2>2, <2>3, <2>4, Stretch
  <2>6. QED BY <1>3, <2>2, <2>5
<1>9. QED BY <1>2, <1>4, <1>6, <1>8, RearrangedSymmetric

LEMMA RearrangedAround ==
  ASSUME NEW D, NEW r, NEW q, D \subseteq Index, Rearranged(D, r, D, q),
         \A x \in Index : x \notin D => r[x] = q[x]
  PROVE  Rearranged(Index, r, Index, q)
<1>1. PICK E : E = Index \ D
  OBVIOUS
<1>2. Rearranged(E, r, E, q)
  <2>1. \A x \in E : r[x] = q[x]
    BY <1>1
  <2>2. QED BY <2>1, RearrangedReflexive
<1>3. D \cap E = {}
  BY <1>1
<1>4. Rearranged(D \cup E, r, D \cup E, q)
  BY <1>2, <1>3, RearrangedUnion
<1>5. D \cup E = Index
  BY <1>1
<1>6. QED BY <1>4, <1>5

LEMMA BeginRearranges ==
  ASSUME NEW s, NEW k, NEW jb, JobSetting(s, k, jb),
         NEW r, NEW a, NEW c, IsResult(r, a, jb, c, <<>>, JobPlaces(jb))
  PROVE  Rearranged(Index, a, Index, r)
<1>1. PICK D : D = JobPlaces(jb)
  OBVIOUS
<1>2. PICK size : size = jb.end - jb.start
  OBVIOUS
<1>3. Rearranged(D, r, 1 .. size, c) /\ size \in Nat
  BY <1>1, <1>2, JobShifted
<1>4. Cardinality(D) = size
  BY <1>1, <1>2, JobSize
<1>5. Len(<<>>) = 0
  OBVIOUS
<1>6. Len(c) = size /\ Rearranged(1 .. size, c, D, a)
  <2>1. Len(c) = 0 + Cardinality(D) /\ Rearranged(0 + 1 .. Len(c), c, D, a)
    BY <1>1, <1>5 DEF IsResult, IsMerged
  <2>2. 0 + size = size /\ 0 + 1 = 1
    BY <1>3
  <2>3. QED BY <1>4, <2>1, <2>2
<1>7. Rearranged(D, r, D, a)
  BY <1>3, <1>6, RearrangedTransitive
<1>8. Rearranged(D, a, D, r)
  BY <1>7, RearrangedSymmetric
<1>9. D \subseteq Index /\ \A x \in Index : x \notin D => a[x] = r[x]
  BY <1>1, JobFacts DEF IsResult
<1>10. QED BY <1>8, <1>9, RearrangedAround

\* An element that is taken is the next of the merged elements.
LEMMA TakenIsNext ==
  ASSUME NEW a, NEW t \in Seq(Value), NEW v \in Value, NEW z, NEW R, z \in R, a[z] = v,
         IsFiniteSet(R), NEW c, NEW e, IsMerged(c, t, a, R), IsMerged(e, Append(t, v), a, R \ {z})
  PROVE  /\ Len(e) = Len(c)
         /\ Rearranged(1 .. Len(c), c, 1 .. Len(c), e)
<1>1. PICK d \in Nat : d = Len(t)
  OBVIOUS
<1>2. PICK u : u = Append(t, v)
  OBVIOUS
<1>3. Len(u) = d + 1 /\ u[d + 1] = v /\ \A i \in 1 .. d : u[i] = t[i]
  BY <1>1, <1>2, OneMore
<1>4. PICK n \in Nat, m \in Nat : n = Cardinality(R) /\ m = Cardinality(R \ {z}) /\ n = m + 1
  <2>1. /\ Cardinality(R) \in Nat /\ Cardinality(R \ {z}) \in Nat
        /\ Cardinality(R \ {z}) = Cardinality(R) - (IF z \in R THEN 1 ELSE 0)
    BY OneFewer
  <2>2. QED BY <2>1
<1>5. Len(c) = d + n /\ Len(e) = d + n
  <2>1. Len(c) = d + n /\ Len(e) = (d + 1) + m
    BY <1>1, <1>2, <1>3, <1>4 DEF IsMerged
  <2>2. QED BY <1>4, <2>1
<1>6. /\ \A i \in 1 .. d : c[i] = t[i] /\ e[i] = t[i]
      /\ e[d + 1] = v
  <2>1. \A i \in 1 .. d + 1 : e[i] = u[i]
    BY <1>2, <1>3 DEF IsMerged
  <2>2. \A i \in 1 .. d : i \in 1 .. d + 1
    OBVIOUS
  <2>3. d + 1 \in 1 .. d + 1
    OBVIOUS
  <2>4. \A i \in 1 .. d : c[i] = t[i]
    BY <1>1 DEF IsMerged
  <2>5. QED BY <1>3, <2>1, <2>2, <2>3, <2>4
<1>7. Rearranged(d + 1 .. d + n, c, R, a)
  BY <1>1, <1>5 DEF IsMerged
<1>8. Rearranged((d + 1) + 1 .. d + n, e, R \ {z}, a)
  BY <1>2, <1>3, <1>5 DEF IsMerged
<1>9. Rearranged({d + 1}, e, {z}, a)
  <2>1. PICK f : f = [i \in {d + 1} |-> z]
    OBVIOUS
  <2>2. OneToOne(f, {d + 1}, {z})
    BY <2>1 DEF OneToOne
  <2>3. \A i \in {d + 1} : e[i] = a[f[i]]
    BY <1>6, <2>1
  <2>4. QED BY <2>2, <2>3 DEF Rearranged
<1>10. Rearranged(d + 1 .. d + n, e, R, a)
  <2>1. {d + 1} \cap ((d + 1) + 1 .. d + n) = {} /\ {z} \cap (R \ {z}) = {}
    OBVIOUS
  <2>2. Rearranged({d + 1} \cup ((d + 1) + 1 .. d + n), e, {z} \cup (R \ {z}), a)
    BY <1>8, <1>9, <2>1, RearrangedUnion
  <2>3. {d + 1} \cup ((d + 1) + 1 .. d + n) = d + 1 .. d + n /\ {z} \cup (R \ {z}) = R
    BY <1>4
  <2>4. QED BY <2>2, <2>3
<1>11. Rearranged(d + 1 .. d + n, c, d + 1 .. d + n, e)
  BY <1>7, <1>10, RearrangedSymmetric, RearrangedTransitive
<1>12. Rearranged(1 .. d, c, 1 .. d, e)
  BY <1>6, RearrangedReflexive
<1>13. Rearranged(1 .. d + n, c, 1 .. d + n, e)
  <2>1. (1 .. d) \cap (d + 1 .. d + n) = {}
    OBVIOUS
  <2>2. Rearranged((1 .. d) \cup (d + 1 .. d + n), c, (1 .. d) \cup (d + 1 .. d + n), e)
    BY <1>11, <1>12, <2>1, RearrangedUnion
  <2>3. (1 .. d) \cup (d + 1 .. d + n) = 1 .. d + n
    OBVIOUS
  <2>4. QED BY <2>2, <2>3
<1>14. QED BY <1>5, <1>13

\* When only T_MAX is left, merge adds what was behind it.
LEMMA OnlyMaxima ==
  ASSUME NEW a, NEW t \in Seq(Value), NEW v \in Value, NEW R, NEW S, S \subseteq R,
         \A x \in R : a[x] = v,
         NEW c, NEW e, IsMerged(c, t, a, R), IsMerged(e, Append(t, v), a, S)
  PROVE  \A i \in 1 .. Len(c) : i <= Len(e) => c[i] = e[i]
<1>1. PICK d \in Nat : d = Len(t)
  OBVIOUS
<1>2. PICK u : u = Append(t, v)
  OBVIOUS
<1>3. Len(u) = d + 1 /\ u[d + 1] = v /\ \A i \in 1 .. d : u[i] = t[i]
  BY <1>1, <1>2, OneMore
<1>4. PICK m \in Nat, n \in Nat : m = Len(c) /\ n = Len(e)
  BY DEF IsMerged
<1>5. ASSUME NEW i \in d + 1 .. m
      PROVE  c[i] = v
  <2>1. PICK f : OneToOne(f, d + 1 .. m, R) /\ \A j \in d + 1 .. m : c[j] = a[f[j]]
    BY <1>1, <1>4 DEF IsMerged, Rearranged
  <2>2. f[i] \in R
    BY <2>1 DEF OneToOne
  <2>3. QED BY <2>1, <2>2
<1>6. ASSUME NEW i \in (d + 1) + 1 .. n
      PROVE  e[i] = v
  <2>1. PICK f : OneToOne(f, (d + 1) + 1 .. n, S) /\ \A j \in (d + 1) + 1 .. n : e[j] = a[f[j]]
    BY <1>2, <1>3, <1>4 DEF IsMerged, Rearranged
  <2>2. f[i] \in S
    BY <2>1 DEF OneToOne
  <2>3. QED BY <2>1, <2>2
<1>7. \A i \in 1 .. d + 1 : e[i] = u[i]
  BY <1>2, <1>3 DEF IsMerged
<1>8. \A i \in 1 .. d : c[i] = t[i]
  BY <1>1 DEF IsMerged
<1>9. ASSUME NEW i \in 1 .. m, i <= n
      PROVE  c[i] = e[i]
  <2>1. CASE i <= d
    <3>1. i \in 1 .. d /\ i \in 1 .. d + 1
      BY <2>1
    <3>2. QED BY <1>3, <1>7, <1>8, <3>1
  <2>2. CASE i = d + 1
    <3>1. i \in d + 1 .. m /\ i \in 1 .. d + 1
      BY <2>2
    <3>2. QED BY <1>3, <1>5, <1>7, <2>2, <3>1
  <2>3. CASE i > d + 1
    <3>1. i \in d + 1 .. m /\ i \in (d + 1) + 1 .. n
      BY <1>9, <2>3
    <3>2. QED BY <1>5, <1>6, <3>1
  <2>4. QED BY <2>1, <2>2, <2>3
<1>10. QED BY <1>4, <1>9

LEMMA MergeRearranges ==
  ASSUME NEW s, NEW k, NEW jb, JobSetting(s, k, jb), NEW a, NEW t \in Seq(Value), NEW v \in Value,
         NEW z, NEW R, IsFiniteSet(R),
         MergedSoFar(a, jb, t, R), Taken(a, v, z, R),
         NEW r, NEW c, IsResult(r, a, jb, c, t, R),
         NEW q, NEW e, IsResult(q, a, jb, e, Append(t, v), R \ {z})
  PROVE  Rearranged(Index, r, Index, q)
<1>1. PICK D : D = JobPlaces(jb)
  OBVIOUS
<1>2. PICK size : size = jb.end - jb.start
  OBVIOUS
<1>3. /\ size \in Nat /\ size <= Len(c) /\ size <= Len(e) /\ Len(c) \in Nat /\ Len(e) \in Nat
      /\ Rearranged(D, r, 1 .. size, c) /\ Rearranged(D, q, 1 .. size, e)
  BY <1>1, <1>2, JobShifted
<1>4. IsMerged(c, t, a, R) /\ IsMerged(e, Append(t, v), a, R \ {z})
  BY DEF IsResult
<1>5. Rearranged(1 .. size, c, 1 .. size, e)
  <2>1. CASE \A x \in R : a[x] = T_MAX
    <3>1. \A x \in R : a[x] = v
      BY <2>1 DEF Taken
    <3>2. R \ {z} \subseteq R
      OBVIOUS
    <3>3. \A i \in 1 .. Len(c) : i <= Len(e) => c[i] = e[i]
      BY <1>4, <3>1, <3>2, OnlyMaxima
    <3>4. \A i \in 1 .. size : c[i] = e[i]
      BY <1>3, <3>3
    <3>5. QED BY <3>4, RearrangedReflexive
  <2>2. CASE ~ \A x \in R : a[x] = T_MAX
    <3>1. z \in R /\ a[z] = v
      BY <2>2 DEF Taken
    <3>2. Rearranged(1 .. Len(c), c, 1 .. Len(c), e)
      BY <1>4, <3>1, TakenIsNext
    <3>3. Len(c) = Len(t) + Cardinality(R)
      BY <1>4 DEF IsMerged
    <3>4. ~(Len(t) + Cardinality(R) > size)
      BY <1>2, <2>2 DEF MergedSoFar
    <3>5. Len(c) = size
      BY <1>3, <3>3, <3>4
    <3>6. QED BY <3>2, <3>5
  <2>3. QED BY <2>1, <2>2
<1>6. Rearranged(D, r, D, q)
  <2>1. Rearranged(D, r, 1 .. size, e)
    BY <1>3, <1>5, RearrangedTransitive
  <2>2. Rearranged(1 .. size, e, D, q)
    BY <1>3, RearrangedSymmetric
  <2>3. QED BY <2>1, <2>2, RearrangedTransitive
<1>7. D \subseteq Index /\ \A x \in Index : x \notin D => r[x] = q[x]
  BY <1>1, JobFacts DEF IsResult
<1>8. QED BY <1>6, <1>7, RearrangedAround

(***************************************************************************)
(* Both functions implement SortSpec.                                      *)
(***************************************************************************)
Returned == pc = "return"
SortStep == Sort!Next \/ UNCHANGED <<Result, Returned>>

LEMMA ResultIsArray ==
  ASSUME IInv, pc \notin {"merge", "return"} \/ m1 = <<>>
  PROVE  Result = array
<1>1. array \in [Index -> Value]
  BY DEF IInv, Phases
<1>2. \A x \in Index : Result[x] = array[x]
  BY ResultElsewhere
<1>3. Result = [x \in Index |-> Result[x]]
  BY DEF Result
<1>4. QED BY <1>1, <1>2, <1>3

LEMMA ResultAtRest == IInv => (pc \notin {"merge", "return"} \/ m1 = <<>> => Result = array)
BY ResultIsArray

\* A step that rearranges the result.
LEMMA Rearranges ==
  ASSUME pc # "return", pc' # "return", Result \in [Index -> Value], Result' \in [Index -> Value],
         Rearranged(Index, Result, Index, Result')
  PROVE  SortStep
<1>1. SameElements(Result, Result')
  <2>1. PICK r, q : r = Result /\ q = Result'
    OBVIOUS
  <2>2. DOMAIN r = Index /\ DOMAIN q = Index /\ IsFiniteSet(Index)
    BY <2>1, IndexIsFinite
  <2>3. SameElements(r, q)
    BY <2>1, <2>2, RearrangedSame
  <2>4. QED BY <2>1, <2>3
<1>2. Result' \in Sort!Arrays
  BY DEF Sort!Arrays, Index
<1>3. Sort!SameElements(Result, Result')
  <2>1. \A S : Sort!Cardinality(S) = Cardinality(S)
    BY DEF Cardinality, Sort!Cardinality
  <2>2. QED BY <1>1, <2>1 DEF SameElements, Sort!SameElements
<1>4. Sort!Rearrange
  <2>1. (pc = "return") = FALSE /\ (pc' = "return") = FALSE
    OBVIOUS
  <2>2. QED BY <1>2, <1>3, <2>1 DEF Sort!Rearrange
<1>5. QED BY <1>4 DEF SortStep, Sort!Next

LEMMA StepFirstLevel ==
  ASSUME IInv, IInv', FirstLevel
  PROVE  SortStep
<1>1. pc = "first_level" /\ pc' = "partition" /\ \E a \in InBucketOrder : SameElements(array, a) /\ array' = a
  BY DEF FirstLevel
<1>2. PICK b, c : b = array /\ c = array'
  OBVIOUS
<1>3. b \in [Index -> Value] /\ c \in [Index -> Value] /\ SameElements(b, c)
  BY <1>1, <1>2 DEF IInv, Phases, InBucketOrder
<1>4. DOMAIN b = Index /\ DOMAIN c = Index /\ IsFiniteSet(Index)
  BY <1>3, IndexIsFinite
<1>5. Rearranged(Index, b, Index, c)
  BY <1>3, <1>4, RearrangedSame
<1>6. Result = array /\ Result' = array'
  <2>1. Result = array
    BY <1>1, ResultIsArray
  <2>2. IInv' => ((pc \notin {"merge", "return"} \/ m1 = <<>>)' => (Result = array)')
    BY ResultAtRest, PTL
  <2>3. QED BY <1>1, <2>1, <2>2
<1>7. QED BY <1>1, <1>2, <1>3, <1>5, <1>6, Rearranges

LEMMA StepWorkerSorts ==
  ASSUME IInv, IInv', worker_psort_and_tick
  PROVE  SortStep
<1>1. /\ pc = "sort" /\ worker \in DOMAIN s1
      /\ \/ pc' \in {"exit", "undefined"} /\ UNCHANGED array
         \/ /\ pc' = pc
            /\ \E b \in SortsOf(array, s1[worker]) :
                 array' = [x \in Index |-> IF x \in Places(s1[worker]) THEN b[x] ELSE array[x]]
  BY DEF worker_psort_and_tick
<1>2. Result = array /\ Result' = array'
  <2>1. Result = array
    BY <1>1, ResultIsArray
  <2>2. IInv' => ((pc \notin {"merge", "return"} \/ m1 = <<>>)' => (Result = array)')
    BY ResultAtRest, PTL
  <2>3. QED BY <1>1, <2>1, <2>2
<1>3. CASE pc' \in {"exit", "undefined"} /\ UNCHANGED array
  BY <1>1, <1>2, <1>3 DEF SortStep, Returned
<1>4. ASSUME pc' = pc, NEW b \in SortsOf(array, s1[worker]),
             array' = [x \in Index |-> IF x \in Places(s1[worker]) THEN b[x] ELSE array[x]]
      PROVE  SortStep
  <2>1. PICK D : D = Places(s1[worker])
    OBVIOUS
  <2>2. array \in [Index -> Value] /\ D \subseteq Index
    <3>1. TypeOK
      BY InvTypeOK
    <3>2. QED BY <1>1, <2>1, <3>1 DEF TypeOK
  <2>3. PICK c : c = array'
    OBVIOUS
  <2>4. c = Around(array, D, b)
    BY <1>4, <2>1, <2>3 DEF Around
  <2>5. SortedFrom(array, D, b)
    BY <2>1, <2>2, SortedPart
  <2>6. IsAround(c, array, D, b)
    BY <2>2, <2>4, <2>5, AroundPart
  <2>7. c \in [Index -> Value] /\ Rearranged(Index, array, Index, c)
    BY <2>6 DEF IsAround
  <2>8. QED BY <1>1, <1>2, <1>4, <2>2, <2>3, <2>7, Rearranges
<1>5. QED BY <1>1, <1>3, <1>4

LEMMA StepBeginJob ==
  ASSUME IInv, IInv', BeginJob
  PROVE  SortStep
<1>1. /\ pc = "next_job" /\ pc' \in {"merge", "overrun"} /\ temp' = <<>>
      /\ UNCHANGED <<array, s1, m1>>
      /\ m1 # <<>>
      /\ ptrs' = [j \in 0 .. ptr_size(job) - 1 |-> IF j = 0 THEN job.start ELSE s1[job.w_first + j].input]
  BY DEF BeginJob
<1>2. Result = array
  BY <1>1, ResultIsArray
<1>3. CASE pc' = "overrun"
  <2>1. IInv' => ((pc \notin {"merge", "return"} \/ m1 = <<>>)' => (Result = array)')
    BY ResultAtRest, PTL
  <2>2. QED BY <1>1, <1>2, <1>3, <2>1 DEF SortStep, Returned
<1>4. CASE pc' = "merge"
  <2>1. (IsResult(Result, array, job, Merged, temp, Remaining(s1, job, ptrs)))'
    <3>1. IInv' => ((pc = "merge")' => (IsResult(Result, array, job, Merged, temp, Remaining(s1, job, ptrs)))')
      BY ResultInMerge, PTL
    <3>2. QED BY <1>4, <3>1
  <2>2. PICK jb, k, p : jb = job /\ k = cwp_id(s1) /\ p = ptrs'
    OBVIOUS
  <2>3. job' = job
    BY <1>1 DEF job
  <2>4. JobSetting(s1, k, jb) /\ \A w \in DOMAIN s1 : s1[w].element_in_partition > 0
    BY <1>1, <2>2, JobBegins, WhenAllSorted
  <2>5. p = [j \in 0 .. ptr_size(jb) - 1 |-> IF j = 0 THEN jb.start ELSE s1[jb.w_first + j].input]
    BY <1>1, <2>2
  <2>6. Remaining(s1, jb, p) = JobPlaces(jb)
    BY <2>4, <2>5, FirstPointers
  <2>7. PICK r, c : r = Result' /\ c = Merged'
    OBVIOUS
  <2>8. IsResult(r, array, jb, c, <<>>, JobPlaces(jb))
    BY <1>1, <2>1, <2>2, <2>3, <2>6, <2>7
  <2>9. Rearranged(Index, array, Index, r)
    BY <2>4, <2>8, BeginRearranges
  <2>10. array \in [Index -> Value] /\ r \in [Index -> Value]
    BY <2>8 DEF IInv, Phases, IsResult
  <2>11. QED BY <1>1, <1>2, <1>4, <2>7, <2>9, <2>10, Rearranges
<1>5. QED BY <1>1, <1>3, <1>4

LEMMA StepMerge ==
  ASSUME IInv, IInv', Merge
  PROVE  SortStep
<1>1. /\ pc = "merge" /\ pc' = "merge" /\ temp' = Append(temp, current_min)
      /\ UNCHANGED <<array, s1, m1>>
  BY DEF Merge
<1>2. PICK jb, k, R, z, v : /\ jb = job /\ k = cwp_id(s1) /\ R = Remaining(s1, job, ptrs)
                            /\ z = ptrs[ptr_index] /\ v = current_min
  OBVIOUS
<1>3. IsResult(Result, array, jb, Merged, temp, R)
  BY <1>1, <1>2, ResultInMerge
<1>4. (IsResult(Result, array, job, Merged, temp, Remaining(s1, job, ptrs)))'
  <2>1. IInv' => ((pc = "merge")' => (IsResult(Result, array, job, Merged, temp, Remaining(s1, job, ptrs)))')
    BY ResultInMerge, PTL
  <2>2. QED BY <1>1, <2>1
<1>5. job' = job
  BY <1>1 DEF job
<1>6. /\ JobSetting(s1, k, jb) /\ Taken(array, v, z, R) /\ v \in Value
      /\ Remaining(s1, jb, ptrs') = R \ {z}
  BY <1>2, MergeStep
<1>7. PICK r, q, c, e : r = Result /\ q = Result' /\ c = Merged /\ e = Merged'
  OBVIOUS
<1>8. IsResult(r, array, jb, c, temp, R)
  BY <1>3, <1>7
<1>9. IsResult(q, array, jb, e, Append(temp, v), R \ {z})
  <2>1. IsResult(Result', array', job', Merged', temp', Remaining(s1', job', ptrs'))
    BY <1>4
  <2>2. QED BY <1>1, <1>2, <1>5, <1>6, <1>7, <2>1
<1>10. temp \in Seq(Value) /\ MergedSoFar(array, jb, temp, R) /\ PtrsFit(s1, jb, ptrs)
  BY <1>1, <1>2, WhenMerging
<1>11. IsFiniteSet(R)
  BY <1>2, <1>6, <1>10, RemainingFacts
<1>12. Rearranged(Index, r, Index, q)
  BY <1>6, <1>8, <1>9, <1>10, <1>11, MergeRearranges
<1>13. r \in [Index -> Value] /\ q \in [Index -> Value]
  BY <1>8, <1>9 DEF IsResult
<1>14. QED BY <1>1, <1>7, <1>12, <1>13, Rearranges

\* What is merged completely stands at the job's places.
LEMMA ResultWhenMerged ==
  ASSUME IInv, pc = "merge", Len(temp) = job.end - job.start
  PROVE  \A x \in JobPlaces(job) : /\ x - job.start + 1 \in DOMAIN temp
                                   /\ Result[x] = temp[x - job.start + 1]
                                   /\ Result[x] = CopiedBack[x]
<1> TAKE x \in JobPlaces(job)
<1>1. x - job.start + 1 \in DOMAIN temp /\ CopiedBack[x] = temp[x - job.start + 1]
  BY JobMerged
<1>2. PICK i : i = x - job.start + 1
  OBVIOUS
<1>3. temp \in Seq(Value)
  BY WhenMerging
<1>4. i \in 1 .. Len(temp)
  BY <1>1, <1>2, <1>3
<1>5. Result[x] = Merged[i]
  BY <1>2, ResultInJob
<1>6. Merged[i] = temp[i]
  BY <1>4, MergedWhileMerging DEF IsMerged
<1>7. QED BY <1>1, <1>2, <1>5, <1>6

LEMMA StepFinishJob ==
  ASSUME IInv, IInv', FinishJob
  PROVE  SortStep
<1>1. /\ pc = "merge" /\ Len(temp) = job.end - job.start
      /\ IF strategy = "two_step_sort"
         THEN array' = CopiedBack /\ m1' = Tail(m1) /\ temp' = <<>> /\ pc' = "next_job"
         ELSE UNCHANGED <<array, m1, temp>> /\ pc' = "return"
      /\ ptrs' = <<>>
  BY DEF FinishJob
<1>2. /\ \A x \in JobPlaces(job) : /\ x - job.start + 1 \in DOMAIN temp
                                   /\ Result[x] = temp[x - job.start + 1]
                                   /\ Result[x] = CopiedBack[x]
      /\ \A x \in Index : x \notin JobPlaces(job) => Result[x] = array[x]
  BY <1>1, ResultWhenMerged, ResultElsewhere
<1>3. /\ m1 # <<>> /\ temp \in Seq(Value) /\ Sorted(temp) /\ JobSetting(s1, cwp_id(s1), job)
      /\ strategy = "partition_and_merge" => job.start = 0 /\ job.end = N
  BY <1>1, WhenMerging DEF MergedSoFar
<1>4. Result = [x \in Index |-> Result[x]]
  BY DEF Result
<1>5. CASE strategy = "two_step_sort"
  <2>1. array' = CopiedBack /\ pc' = "next_job"
    BY <1>1, <1>5
  <2>2. Result' = array'
    <3>1. IInv' => ((pc \notin {"merge", "return"} \/ m1 = <<>>)' => (Result = array)')
      BY ResultAtRest, PTL
    <3>2. QED BY <2>1, <3>1
  <2>3. \A x \in Index : x \notin JobPlaces(job) => CopiedBack[x] = array[x]
    BY DEF CopiedBack, JobPlaces
  <2>4. CopiedBack = [x \in Index |-> CopiedBack[x]]
    BY DEF CopiedBack
  <2>5. \A x \in Index : Result[x] = CopiedBack[x]
    BY <1>2, <2>3
  <2>6. CopiedBack = Result
    BY <1>4, <2>4, <2>5
  <2>7. QED BY <1>1, <2>1, <2>2, <2>6 DEF SortStep, Returned
<1>6. CASE strategy = "partition_and_merge"
  <2>1. UNCHANGED <<array, m1, temp>> /\ pc' = "return" /\ ptrs' = <<>>
    BY <1>1, <1>6
  <2>2. JobPlaces(job) = Index
    BY <1>3, <1>6 DEF JobPlaces, Index
  <2>3. Merged' = temp
    <3>1. PICK q : q = [n \in 1 .. Cardinality(DOMAIN ptrs') |-> Rest(n - 1)']
      OBVIOUS
    <3>2. Cardinality(DOMAIN ptrs') = 0
      <4>1. DOMAIN ptrs' = {}
        BY <2>1
      <4>2. QED BY <4>1, FS_EmptySet
    <3>3. q = <<>>
      BY <3>1, <3>2
    <3>4. FlattenSeq(q) = <<>>
      <4>1. Len(q) = 0
        BY <3>3
      <4>2. QED BY <3>3, <4>1 DEF FlattenSeq
    <3>5. Merged' = temp' \o FlattenSeq(q)
      BY <3>1 DEF Merged
    <3>6. temp \o <<>> = temp
      BY <1>3
    <3>7. QED BY <2>1, <3>4, <3>5, <3>6
  <2>4. Result' = Result
    <3>1. job' = job /\ m1' # <<>>
      BY <1>3, <2>1 DEF job
    <3>2. \A x \in Index : x \in job.start .. job.end - 1
      BY <2>2 DEF JobPlaces
    <3>3. Result' = [x \in Index |->
             IF pc' \in {"merge", "return"} /\ m1' # <<>> /\ x \in job'.start .. job'.end - 1
             THEN Merged'[x - job'.start + 1] ELSE array'[x]]
      BY DEF Result
    <3>4. Result' = [x \in Index |-> temp[x - job.start + 1]]
      BY <2>1, <2>3, <3>1, <3>2, <3>3
    <3>5. \A x \in Index : Result[x] = temp[x - job.start + 1]
      BY <1>2, <2>2
    <3>6. QED BY <1>4, <3>4, <3>5
  <2>5. Sorted(Result)
    <3>1. DOMAIN Result = Index
      BY <1>4
    <3>2. ASSUME NEW x \in Index, NEW y \in Index, x < y
          PROVE  Result[x] <= Result[y]
      <4>1. x - 0 + 1 \in DOMAIN temp /\ y - 0 + 1 \in DOMAIN temp
            /\ Result[x] = temp[x - 0 + 1] /\ Result[y] = temp[y - 0 + 1]
        BY <1>2, <1>3, <1>6, <2>2
      <4>2. x - 0 + 1 < y - 0 + 1
        BY <3>2, ConstantFacts DEF Index
      <4>3. QED BY <1>3, <4>1, <4>2 DEF Sorted
    <3>3. QED BY <3>1, <3>2 DEF Sorted
  <2>6. Sort!Return
    <3>1. (pc = "return") = FALSE /\ (pc' = "return") = TRUE
      BY <1>1, <2>1
    <3>2. QED BY <2>4, <2>5, <3>1 DEF Sort!Return, Sort!Sorted, Sorted
  <2>7. QED BY <2>6 DEF SortStep, Sort!Next
<1>7. QED BY <1>5, <1>6 DEF IInv, Phases, Strategies

LEMMA StepReturn ==
  ASSUME IInv, IInv', Return
  PROVE  SortStep
<1>1. pc = "next_job" /\ m1 = <<>> /\ pc' = "return" /\ UNCHANGED <<array, m1>>
  BY DEF Return
<1>2. Result = array /\ Result' = array'
  <2>1. Result = array
    BY <1>1, ResultIsArray
  <2>2. IInv' => ((pc \notin {"merge", "return"} \/ m1 = <<>>)' => (Result = array)')
    BY ResultAtRest, PTL
  <2>3. QED BY <1>1, <2>1, <2>2
<1>3. Phases /\ HeldTogether /\ SetUp /\ PartEnd(LastPart) = N /\ array \in [Index -> Value]
  BY <1>1, WhenAllSorted DEF IInv
<1>4. ASSUME NEW x \in Index, NEW y \in Index, x < y
      PROVE  array[x] <= array[y]
  <2>1. /\ SetUp /\ PartEnd(LastPart) = N /\ worker \notin DOMAIN s1
        /\ Tiles(s1, cwp_id(s1), N) /\ AllSorted(array, s1, cwp_id(s1))
    BY <1>1, <1>3, WhenAllSorted DEF Phases
  <2>2. array[x] \in Nat /\ array[y] \in Nat
    <3>1. array[x] \in 0 .. T_MAX /\ array[y] \in 0 .. T_MAX
      BY <1>3, BucketOfValue
    <3>2. QED BY <3>1, ConstantFacts
  <2>3. ASSUME array[x] > array[y]
        PROVE  FALSE
    <3>1. y < N
      BY ConstantFacts DEF Index
    <3>2. PICK w \in DOMAIN s1 : {x, y} \subseteq Places(s1[w])
      BY <1>1, <1>3, <1>4, <2>3, <3>1 DEF HeldTogether
    <3>3. array[x] <= array[y]
      BY <1>4, <2>1, <3>2 DEF AllSorted, Tiles
    <3>4. QED BY <2>2, <2>3, <3>3
  <2>4. QED BY <2>2, <2>3
<1>5. Sorted(Result)
  BY <1>2, <1>3, <1>4 DEF Sorted
<1>6. Sort!Return
  <2>1. (pc = "return") = FALSE /\ (pc' = "return") = TRUE
    BY <1>1
  <2>2. QED BY <1>1, <1>2, <1>5, <2>1 DEF Sort!Return, Sort!Sorted, Sorted
<1>7. QED BY <1>6 DEF SortStep, Sort!Next

\* The steps before the merges that leave the array alone.
LEMMA StepDivides ==
  ASSUME IInv, IInv', Start \/ init_props \/ PartitionBucket \/ Partitioned \/ SortedAll
  PROVE  SortStep
<1>1. pc \notin {"merge", "return"} /\ pc' \notin {"merge", "return"} /\ UNCHANGED array
  BY DEF Start, init_props, PartitionBucket, Partitioned, SortedAll
<1>2. Result = array
  BY <1>1, ResultIsArray
<1>3. Result' = array'
  <2>1. IInv' => ((pc \notin {"merge", "return"} \/ m1 = <<>>)' => (Result = array)')
    BY ResultAtRest, PTL
  <2>2. QED BY <1>1, <2>1
<1>4. QED BY <1>1, <1>2, <1>3 DEF SortStep, Returned

LEMMA StepStutters ==
  ASSUME UNCHANGED vars
  PROVE  SortStep
<1>1. UNCHANGED <<s1, array, m1, ptrs, temp, pc>>
  BY DEF vars
<1>2. job' = job
  BY <1>1 DEF job
<1>3. \A j : Rest(j)' = Rest(j)
  BY <1>1, <1>2 DEF Rest
<1>4. Merged' = Merged
  BY <1>1, <1>3 DEF Merged
<1>5. Result' = Result
  BY <1>1, <1>2, <1>4 DEF Result
<1>6. QED BY <1>1, <1>5 DEF SortStep, Returned

LEMMA StepRefines ==
  ASSUME IInv, IInv', [Next]_vars
  PROVE  [Sort!Next]_<<Result, Returned>>
<1>1. CASE UNCHANGED vars \/ Stutter
  BY <1>1, StepStutters DEF SortStep, Stutter
<1>2. CASE Start \/ init_props \/ PartitionBucket \/ Partitioned \/ SortedAll
  BY <1>2, StepDivides DEF SortStep
<1>3. CASE FirstLevel \/ worker_psort_and_tick
  BY <1>3, StepFirstLevel, StepWorkerSorts DEF SortStep
<1>4. CASE BeginJob \/ Merge \/ FinishJob \/ Return
  BY <1>4, StepBeginJob, StepMerge, StepFinishJob, StepReturn DEF SortStep
<1>5. QED BY <1>1, <1>2, <1>3, <1>4 DEF Next

\* Whatever the host, the workload, its equal elements and its elements T_MAX, either
\* function only rearranges the workload, and returns it sorted: no merge loses an element or
\* takes one twice (partition_and_merge.c:99-123, two_step_sort.c:102-150).
THEOREM Refinement == Spec => ImplementsSortSpec
<1>1. Init => Sort!Init
  <2> SUFFICES ASSUME Init
               PROVE  Sort!Init
    OBVIOUS
  <2>1. IInv /\ pc = "start"
    BY InvInit DEF Init
  <2>2. Result = array /\ array \in [Index -> Value]
    BY <2>1, ResultIsArray DEF IInv, Phases
  <2>3. QED BY <2>1, <2>2 DEF Sort!Init, Sort!Arrays, Index
<1>2. IInv /\ IInv' /\ [Next]_vars => [Sort!Next]_<<Result, Returned>>
  BY StepRefines
<1>3. QED
  BY <1>1, <1>2, Invariant, PTL DEF Spec, ImplementsSortSpec, Sort!Spec, Returned

=============================================================================
