-------------------------- MODULE ParallelRadix_proof -------------------------
(***************************************************************************)
(* The in-place radix sort, for every array, number of tasks and           *)
(* thresholds: no step loses an element, tasks of permute never share a    *)
(* place, what is behind the heads is in its bucket, and the array is in   *)
(* the order of its bytes on return.                                       *)
(*                                                                         *)
(* gt never changes, and neither does the number of elements of each byte, *)
(* counting those in the tasks' hands: an element that is in hand stands   *)
(* in Filled at the place it was taken from, and every step exchanges two  *)
(* elements of Filled, or none.  So the buckets stay where Start has put   *)
(* them, and everything else is arithmetic on the bounds of their parts.   *)
(***************************************************************************)
EXTENDS ParallelRadix, DataLemmas

(***************************************************************************)
(* The inductive invariant.                                                *)
(***************************************************************************)

\* Where the bucket of byte b begins.
Lo(b) == IF b = 0 THEN 0 ELSE gt[b - 1]

TaskRecords == [bucket : Nat, head : Nat, holding : BOOLEAN, temp : Nat]
Rows == [Tids -> [Buckets -> Nat]]

Types ==
  /\ \E n \in Sizes : array \in [0 .. n - 1 -> Value]
  /\ pc \in Rounds \cup {"start", "partition", "sort_and_swap", "return", "raced"}
  /\ tasks \in [DOMAIN tasks -> TaskRecords]
  /\ i \in 0 .. Top
  /\ DOMAIN repairing \subseteq Buckets
  /\ DOMAIN gt = Buckets
  /\ pc = "start" => Buckets = {}

\* The buckets lie one behind the other, and cover the array.
Layout ==
  /\ \E max \in 0 .. 255 : Buckets = 0 .. max
  /\ gt \in [Buckets -> Nat]
  /\ \A b \in Buckets : Lo(b) <= gt[b] /\ Lo(b) .. gt[b] - 1 \subseteq DOMAIN array
  /\ \A b, c \in Buckets : b < c => gt[b] <= Lo(c)
  /\ \A x \in DOMAIN array : \E b \in Buckets : x \in Lo(b) .. gt[b] - 1

\* They have as much room as there are elements with their byte.
Counts ==
  /\ \A b \in Buckets : HeadOf(Filled, b) = Lo(b) /\ TailOf(Filled, b) = gt[b]
  /\ \A x \in DOMAIN array : get_byte_at(Filled[x]) \in Buckets

HeadsWithin ==
  /\ gh \in [Buckets -> Nat]
  /\ \A b \in Buckets : Lo(b) <= gh[b] /\ gh[b] <= gt[b]

InPlace(b, from, to) == \A x \in from .. to - 1 : Byte(x) = b

Placed == \A b \in Buckets : InPlace(b, Lo(b), gh[b])

\* The part of bucket b that t permutes, and how far it has been filled.
PartBounds(b, t) ==
  /\ tail[t][b] = PartEnd(b, t)
  /\ Cut(b, t) <= head[t][b] /\ head[t][b] <= tail[t][b]

PartFilled(b, t) == InPlace(b, Cut(b, t), head[t][b])

InPart(t) ==
  LET k == tasks[t] IN
    /\ k.bucket \in Buckets
    /\ head[t][k.bucket] <= k.head /\ k.head <= tail[t][k.bucket]
    /\ k.holding => k.head < tail[t][k.bucket] /\ k.temp \in Value

PermuteInv ==
  pc = "permute" =>
    /\ head \in Rows /\ tail \in Rows
    /\ \A t \in Tids, b \in Buckets : PartBounds(b, t) /\ PartFilled(b, t)
    /\ DOMAIN tasks \subseteq Tids
    /\ \A t \in DOMAIN tasks : InPart(t)

\* The task of repair for bucket i: behind its head, and before its tail, everything is
\* in place, and so is what permute has left in the parts it has still to look at.
InRepair(r) ==
  /\ r \in [tid : Tids, head : Nat, tail : Nat]
  /\ gh[i] <= r.head /\ r.head <= tail[r.tid][i]
  /\ gh[i] <= r.tail /\ r.tail <= gt[i]
  /\ \A t \in Tids : PartBounds(i, t)
  /\ \A x \in gh[i] .. r.tail - 1 : x < r.head => Byte(x) = i
  /\ \A t \in Tids : t > r.tid =>
       \A x \in Cut(i, t) .. head[t][i] - 1 : x < r.tail => Byte(x) = i

Unrepaired == {b \in Buckets : b > i \/ (b = i /\ pc = "repair")}

RepairInv ==
  pc \in {"repair", "repair_next"} =>
    /\ head \in Rows /\ tail \in Rows
    /\ \A t \in Tids, b \in Buckets :
         Lo(b) <= head[t][b] /\ head[t][b] <= tail[t][b] /\ tail[t][b] <= gt[b]
    /\ pc = "repair_next" => i \in Buckets
    /\ \A b \in DOMAIN repairing : b \notin Unrepaired
    /\ \A t \in Tids, b \in Unrepaired : PartBounds(b, t) /\ PartFilled(b, t)
    /\ i \in DOMAIN repairing => InRepair(repairing[i])

SequentialInv ==
  pc = "sort_and_swap" =>
    /\ DOMAIN tasks = {0}
    /\ Hand.bucket \in Buckets
    /\ Hand.holding => /\ Hand.head = gh[Hand.bucket] /\ gh[Hand.bucket] < gt[Hand.bucket]
                       /\ Hand.temp \in Value
    /\ \A b \in Buckets : b < Hand.bucket => gh[b] = gt[b]

\* Tasks exist only in their phase.
Phases ==
  /\ pc \notin {"permute", "sort_and_swap"} => DOMAIN tasks = {}
  /\ pc \notin {"repair", "repair_next", "raced"} => DOMAIN repairing = {}
  /\ pc = "return" => gh = gt

BucketsInv == pc # "start" => Layout /\ Counts /\ HeadsWithin /\ Placed

RadixInv == Types /\ BucketsInv /\ PermuteInv /\ RepairInv /\ SequentialInv /\ Phases

(***************************************************************************)
(* Bytes and their counts.                                                 *)
(***************************************************************************)
LEMMA ByteRange ==
  ASSUME NEW v \in Nat
  PROVE  get_byte_at(v) \in 0 .. 255
<1>1. v \div LOW \in Nat
  BY RadixAssumption
<1>2. QED BY <1>1 DEF get_byte_at

\* Elements whose byte is less than b.
Below(b) == {v \in Nat : get_byte_at(v) < b}

LEMMA HeadCounts ==
  ASSUME NEW D, NEW a \in [D -> Nat], NEW b \in Nat
  PROVE  /\ HeadOf(a, b) = CountOf(a, D, Below(b))
         /\ TailOf(a, b) = CountOf(a, D, Below(b + 1))
<1>1. {x \in D : get_byte_at(a[x]) < b} = {x \in D : a[x] \in Below(b)}
  BY DEF Below
<1>2. {x \in D : get_byte_at(a[x]) <= b} = {x \in D : a[x] \in Below(b + 1)}
  <2>1. \A x \in D : a[x] \in Nat /\ get_byte_at(a[x]) \in Nat
    BY ByteRange
  <2>2. QED BY <2>1 DEF Below
<1>3. DOMAIN a = D
  OBVIOUS
<1>4. QED BY <1>1, <1>2, <1>3 DEF HeadOf, TailOf, CountOf

\* An exchange of two elements moves no bucket.
LEMMA ExchangeKeepsCounts ==
  ASSUME NEW D, IsFiniteSet(D), NEW a \in [D -> Nat], NEW x \in D, NEW y \in D, NEW b \in Nat
  PROVE  /\ HeadOf(Swap(a, x, y), b) = HeadOf(a, b)
         /\ TailOf(Swap(a, x, y), b) = TailOf(a, b)
<1>1. Swap(a, x, y) \in [D -> Nat]
  BY SwapType
<1>2. /\ CountOf(a, D, Below(b)) = CountOf(Swap(a, x, y), D, Below(b))
      /\ CountOf(a, D, Below(b + 1)) = CountOf(Swap(a, x, y), D, Below(b + 1))
  BY SwapCounts
<1>3. QED BY <1>1, <1>2, HeadCounts

\* The end of one bucket is the beginning of the next, ...
LEMMA CountsInOrder ==
  ASSUME NEW n \in Nat, NEW D, IsFiniteSet(D), Cardinality(D) = n, NEW a \in [D -> Nat],
         NEW b \in Nat, NEW c \in Nat, b <= c
  PROVE  /\ HeadOf(a, 0) = 0
         /\ HeadOf(a, b + 1) = TailOf(a, b)
         /\ HeadOf(a, b) \in 0 .. n /\ TailOf(a, b) \in 0 .. n
         /\ HeadOf(a, b) <= TailOf(a, c) /\ TailOf(a, b) <= TailOf(a, c)
<1> DEFINE S(k) == {x \in D : get_byte_at(a[x]) < k}
<1>1. \A x \in D : get_byte_at(a[x]) \in Nat
  BY ByteRange
<1>2. IsFiniteSet(D) /\ Cardinality(D) = n
  OBVIOUS
<1>3. \A k : HeadOf(a, k) = Cardinality(S(k))
  BY DEF HeadOf
<1>4. \A k \in Nat : TailOf(a, k) = Cardinality(S(k + 1))
  <2> TAKE k \in Nat
  <2>1. {x \in D : get_byte_at(a[x]) <= k} = S(k + 1)
    BY <1>1
  <2>2. QED BY <2>1 DEF TailOf
<1>5. S(0) = {}
  BY <1>1
<1>6. \A k : S(k) \subseteq D
  OBVIOUS
<1>7. S(b) \subseteq S(c + 1) /\ S(b + 1) \subseteq S(c + 1)
  BY <1>1
<1> HIDE DEF S
<1>8. \A k : IsFiniteSet(S(k)) /\ Cardinality(S(k)) <= n /\ Cardinality(S(k)) \in Nat
  BY <1>2, <1>6, FS_Subset, FS_CardinalityType
<1>9. Cardinality(S(b)) <= Cardinality(S(c + 1)) /\ Cardinality(S(b + 1)) <= Cardinality(S(c + 1))
  BY <1>7, <1>8, FS_Subset
<1>10. HeadOf(a, 0) = 0
  BY <1>3, <1>5, FS_EmptySet
<1>11. /\ HeadOf(a, b) = Cardinality(S(b)) /\ TailOf(a, b) = Cardinality(S(b + 1))
       /\ HeadOf(a, b + 1) = Cardinality(S(b + 1)) /\ TailOf(a, c) = Cardinality(S(c + 1))
  BY <1>3, <1>4
<1>12. \A k : Cardinality(S(k)) \in 0 .. n
  BY <1>8
<1>13. QED BY <1>9, <1>10, <1>11, <1>12

\* ... the last one ends with the array, ...
LEMMA CountsCover ==
  ASSUME NEW n \in Nat, NEW D, D = 0 .. n - 1, NEW a \in [D -> Nat], NEW m \in Nat,
         \A x \in D : get_byte_at(a[x]) <= m
  PROVE  TailOf(a, m) = n
<1>1. {x \in DOMAIN a : get_byte_at(a[x]) <= m} = D
  OBVIOUS
<1>2. Cardinality(D) = n
  BY FS_Interval
<1>3. QED BY <1>1, <1>2 DEF TailOf

\* ... and so every place is in a bucket.
LEMMA EveryPlaceInBucket ==
  ASSUME NEW n \in Nat, NEW D, D = 0 .. n - 1, NEW a \in [D -> Nat], NEW m \in Nat,
         \A x \in D : get_byte_at(a[x]) <= m,
         NEW x \in D
  PROVE  \E b \in 0 .. m : (IF b = 0 THEN 0 ELSE TailOf(a, b - 1)) <= x /\ x < TailOf(a, b)
<1> DEFINE B == {b \in 0 .. m : x < TailOf(a, b)}
<1>1. m \in B
  <2>1. TailOf(a, m) = n
    BY CountsCover
  <2>2. QED BY <2>1
<1>2. PICK b \in B : \A c \in B : b <= c
  <2>1. B # {} /\ B \subseteq Nat
    BY <1>1
  <2> HIDE DEF B
  <2>2. QED BY <2>1, LeastNat
<1>3. b = 0 \/ TailOf(a, b - 1) <= x
  <2>1. CASE b # 0
    <3>1. PICK c \in Nat : c = b - 1
      BY <2>1
    <3>2. TailOf(a, c) \in 0 .. n
      <4>1. c <= c /\ IsFiniteSet(D) /\ Cardinality(D) = n
        BY FS_Interval
      <4>2. QED BY <4>1, CountsInOrder
    <3>3. c \in 0 .. m /\ c \notin B
      BY <1>2, <2>1, <3>1
    <3>4. QED BY <3>1, <3>2, <3>3
  <2>2. QED BY <2>1
<1>4. QED BY <1>2, <1>3

(***************************************************************************)
(* The parts of a bucket: one behind the other, and all of it.             *)
(***************************************************************************)
LEMMA ShareOf ==
  ASSUME NEW d \in Nat, NEW t \in Nat, NEW u \in Nat, NEW R \in Nat \ {0}, t <= u, u <= R
  PROVE  /\ (d * t) \div R \in 0 .. d /\ (d * u) \div R \in 0 .. d
         /\ (d * t) \div R <= (d * u) \div R
         /\ (d * 0) \div R = 0 /\ (d * R) \div R = d
<1>1. d * t \in Nat /\ d * u \in Nat /\ d * R \in Nat /\ d * t <= d * u /\ d * u <= d * R
  OBVIOUS
<1>2. (d * t) \div R <= (d * u) \div R
  BY <1>1
<1>3. (d * u) \div R <= (d * R) \div R
  BY <1>1
<1>4. (d * R) \div R = d /\ (d * 0) \div R = 0
  OBVIOUS
<1>5. (d * t) \div R \in Nat /\ (d * u) \div R \in Nat
  BY <1>1
<1>6. QED BY <1>2, <1>3, <1>4, <1>5

LEMMA CutInBucket ==
  ASSUME NEW b, gh[b] \in Nat, gt[b] \in Nat, gh[b] <= gt[b],
         NEW t \in Nat, NEW u \in Nat, t <= u, u <= RUNNER_THREADS_NUM
  PROVE  /\ Cut(b, t) \in gh[b] .. gt[b] /\ Cut(b, u) \in gh[b] .. gt[b]
         /\ Cut(b, t) <= Cut(b, u)
         /\ Cut(b, 0) = gh[b] /\ Cut(b, RUNNER_THREADS_NUM) = gt[b]
<1>1. PICK d \in Nat : d = gt[b] - gh[b]
  OBVIOUS
<1>2. RUNNER_THREADS_NUM \in Nat \ {0}
  BY RadixAssumption
<1> DEFINE ct == (d * t) \div RUNNER_THREADS_NUM
           cu == (d * u) \div RUNNER_THREADS_NUM
<1>3. ct \in 0 .. d /\ cu \in 0 .. d /\ ct <= cu
  BY <1>2, ShareOf
<1>4. (d * 0) \div RUNNER_THREADS_NUM = 0 /\ (d * RUNNER_THREADS_NUM) \div RUNNER_THREADS_NUM = d
  BY <1>2, ShareOf
<1>5. /\ Cut(b, t) = gh[b] + ct /\ Cut(b, u) = gh[b] + cu
      /\ Cut(b, 0) = gh[b] + (d * 0) \div RUNNER_THREADS_NUM
      /\ Cut(b, RUNNER_THREADS_NUM) = gh[b] + (d * RUNNER_THREADS_NUM) \div RUNNER_THREADS_NUM
  BY <1>1 DEF Cut
<1> HIDE DEF ct, cu
<1>6. QED BY <1>1, <1>3, <1>4, <1>5

LEMMA PartInBucket ==
  ASSUME NEW b, gh[b] \in Nat, gt[b] \in Nat, gh[b] <= gt[b], NEW t \in Tids
  PROVE  /\ Cut(b, t) \in gh[b] .. gt[b] /\ PartEnd(b, t) \in gh[b] .. gt[b]
         /\ Cut(b, t) <= PartEnd(b, t)
         /\ PartEnd(b, t) = Cut(b, t + 1)
         /\ Cut(b, 0) = gh[b]
         /\ t + 1 \notin Tids => PartEnd(b, t) = gt[b]
         /\ \A u \in Tids : t < u => PartEnd(b, t) <= Cut(b, u)
<1>1. /\ RUNNER_THREADS_NUM \in Nat \ {0}
      /\ t \in Nat /\ t + 1 \in Nat /\ t <= t + 1 /\ t + 1 <= RUNNER_THREADS_NUM
      /\ t + 1 \notin Tids => t = RUNNER_THREADS_NUM - 1
  BY RadixAssumption DEF Tids
<1>2. /\ Cut(b, t) \in gh[b] .. gt[b] /\ Cut(b, t + 1) \in gh[b] .. gt[b]
      /\ Cut(b, t) <= Cut(b, t + 1) /\ Cut(b, 0) = gh[b] /\ Cut(b, RUNNER_THREADS_NUM) = gt[b]
  BY <1>1, CutInBucket
<1>3. PartEnd(b, t) = Cut(b, t + 1)
  BY <1>1, <1>2 DEF PartEnd
<1>4. ASSUME NEW u \in Tids, t < u
      PROVE  PartEnd(b, t) <= Cut(b, u)
  <2>1. u \in Nat /\ t + 1 <= u /\ u <= RUNNER_THREADS_NUM
    BY <1>1, <1>4, RadixAssumption DEF Tids
  <2>2. Cut(b, t + 1) <= Cut(b, u)
    BY <1>1, <2>1, CutInBucket
  <2>3. QED BY <1>3, <2>2
<1>5. t + 1 \notin Tids => PartEnd(b, t) = gt[b]
  BY <1>1 DEF PartEnd
<1>6. QED BY <1>2, <1>3, <1>4, <1>5

\* Where a bucket lies, and its head.
LEMMA BucketFacts ==
  ASSUME Layout, HeadsWithin, NEW b \in Buckets
  PROVE  b \in 0 .. 255 /\ Lo(b) \in Nat /\ gh[b] \in Nat /\ gt[b] \in Nat /\ Lo(b) <= gh[b] /\ gh[b] <= gt[b]
<1>1. PICK max \in 0 .. 255 : Buckets = 0 .. max
  BY DEF Layout
<1>2. b \in 0 .. 255 /\ (b # 0 => b - 1 \in Buckets)
  BY <1>1
<1>3. gt \in [Buckets -> Nat] /\ gh \in [Buckets -> Nat]
  BY DEF Layout, HeadsWithin
<1>4. gh[b] \in Nat /\ gt[b] \in Nat /\ Lo(b) \in Nat
  BY <1>2, <1>3 DEF Lo
<1>5. QED BY <1>2, <1>4 DEF HeadsWithin

\* No place is in two parts, and none in a part and behind the head of a bucket.
LEMMA PartsDoNotMeet ==
  ASSUME Layout, HeadsWithin, NEW b \in Buckets, NEW t \in Tids,
         NEW x \in Cut(b, t) .. PartEnd(b, t) - 1
  PROVE  /\ x \in DOMAIN array /\ x \in Nat /\ gh[b] <= x /\ x < gt[b]
         /\ \A c \in Buckets : x \notin Lo(c) .. gh[c] - 1
         /\ \A c \in Buckets, u \in Tids : <<c, u>> # <<b, t>> => x \notin Cut(c, u) .. PartEnd(c, u) - 1
<1>1. \A c \in Buckets : /\ c \in Nat /\ Lo(c) \in Nat /\ gh[c] \in Nat /\ gt[c] \in Nat
                         /\ Lo(c) <= gh[c] /\ gh[c] <= gt[c]
  <2>1. \A c \in Buckets : c \in 0 .. 255
    BY BucketFacts
  <2>2. \A c \in Buckets : c \in Nat
    BY <2>1
  <2>3. QED BY <2>2, BucketFacts
<1>2. \A c \in Buckets, u \in Tids :
        /\ Cut(c, u) \in gh[c] .. gt[c] /\ PartEnd(c, u) \in gh[c] .. gt[c]
        /\ \A v \in Tids : u < v => PartEnd(c, u) <= Cut(c, v)
  BY <1>1, PartInBucket
<1>3. x \in Int /\ gh[b] <= x /\ x < gt[b]
  BY <1>1, <1>2
<1>4. x \in DOMAIN array /\ x \in Nat
  <2>1. x \in Nat /\ x \in Lo(b) .. gt[b] - 1
    BY <1>1, <1>3
  <2>2. Lo(b) .. gt[b] - 1 \subseteq DOMAIN array
    BY DEF Layout
  <2>3. QED BY <2>1, <2>2, Zenon
<1>5. ASSUME NEW c \in Buckets
      PROVE  x \notin Lo(c) .. gh[c] - 1
  <2>1. c = b \/ c < b \/ b < c
    BY <1>1
  <2>2. (c < b => gt[c] <= Lo(b)) /\ (b < c => gt[b] <= Lo(c))
    BY DEF Layout
  <2>3. QED BY <1>1, <1>3, <2>1, <2>2
<1>6. ASSUME NEW c \in Buckets, NEW u \in Tids, <<c, u>> # <<b, t>>
      PROVE  x \notin Cut(c, u) .. PartEnd(c, u) - 1
  <2>1. (c = b /\ u # t) \/ c < b \/ b < c
    BY <1>1, <1>6
  <2>2. CASE c = b /\ u # t
    <3>1. u \in Int /\ t \in Int
      BY DEF Tids
    <3>2. u < t \/ t < u
      BY <2>2, <3>1
    <3>3. PartEnd(b, u) <= Cut(b, t) \/ PartEnd(b, t) <= Cut(b, u)
      BY <1>2, <3>2
    <3>4. QED BY <1>1, <1>2, <2>2, <3>3
  <2>3. CASE c < b \/ b < c
    <3>1. (c < b => gt[c] <= Lo(b)) /\ (b < c => gt[b] <= Lo(c))
      BY DEF Layout
    <3>2. QED BY <1>1, <1>2, <1>3, <2>3, <3>1
  <2>4. QED BY <2>1, <2>2, <2>3
<1>7. QED BY <1>3, <1>4, <1>5, <1>6

(***************************************************************************)
(* Filled.                                                                 *)
(***************************************************************************)
Fill(a, hands) ==
  [x \in DOMAIN a |->
     LET holders == {t \in DOMAIN hands : hands[t].holding /\ hands[t].head = x}
     IN IF holders = {} THEN a[x] ELSE hands[CHOOSE t \in holders : TRUE].temp]

OneHolder(hands) ==
  \A t, u \in DOMAIN hands :
    hands[t].holding /\ hands[u].holding /\ hands[t].head = hands[u].head => t = u

LEMMA FilledIsFill == Filled = Fill(array, tasks) /\ Filled' = Fill(array', tasks')
BY DEF Filled, Fill

LEMMA FillAt ==
  ASSUME NEW a, NEW hands, OneHolder(hands), NEW x \in DOMAIN a
  PROVE  /\ \A t \in DOMAIN hands :
              hands[t].holding /\ hands[t].head = x => Fill(a, hands)[x] = hands[t].temp
         /\ (\A t \in DOMAIN hands : ~(hands[t].holding /\ hands[t].head = x)) => Fill(a, hands)[x] = a[x]
<1> DEFINE holders == {t \in DOMAIN hands : hands[t].holding /\ hands[t].head = x}
<1>1. Fill(a, hands)[x] = IF holders = {} THEN a[x] ELSE hands[CHOOSE t \in holders : TRUE].temp
  BY DEF Fill
<1>2. ASSUME NEW t \in DOMAIN hands, hands[t].holding, hands[t].head = x
      PROVE  Fill(a, hands)[x] = hands[t].temp
  <2>1. t \in holders /\ \A u \in holders : u = t
    BY <1>2 DEF OneHolder
  <2> HIDE DEF holders
  <2>2. (CHOOSE u \in holders : TRUE) = t
    BY <2>1
  <2>3. QED BY <1>1, <2>1, <2>2
<1>3. QED BY <1>1, <1>2

\* With nobody holding anything, Filled is the array.
LEMMA FillNothing ==
  ASSUME NEW D, NEW V, NEW a \in [D -> V], NEW hands, \A t \in DOMAIN hands : ~hands[t].holding
  PROVE  Fill(a, hands) = a
<1>1. \A x \in D : Fill(a, hands)[x] = a[x]
  BY FillAt DEF OneHolder
<1>2. Fill(a, hands) = [x \in D |-> Fill(a, hands)[x]]
  BY DEF Fill
<1>3. QED BY <1>1, <1>2

\* Holding the same elements of the same array.
LEMMA FillSame ==
  ASSUME NEW a, NEW H, NEW G, OneHolder(H), OneHolder(G),
         \A u \in DOMAIN G : G[u].holding => u \in DOMAIN H /\ H[u] = G[u],
         \A u \in DOMAIN H : H[u].holding => u \in DOMAIN G /\ G[u] = H[u]
  PROVE  Fill(a, G) = Fill(a, H)
<1>1. ASSUME NEW x \in DOMAIN a
      PROVE  Fill(a, G)[x] = Fill(a, H)[x]
  <2>1. CASE \E u \in DOMAIN H : H[u].holding /\ H[u].head = x
    <3>1. PICK u \in DOMAIN H : H[u].holding /\ H[u].head = x
      BY <2>1
    <3>2. u \in DOMAIN G /\ G[u] = H[u]
      BY <3>1
    <3>3. QED BY <3>1, <3>2, FillAt
  <2>2. CASE ~ \E u \in DOMAIN H : H[u].holding /\ H[u].head = x
    <3>1. \A u \in DOMAIN G : ~(G[u].holding /\ G[u].head = x)
      BY <2>2
    <3>2. QED BY <2>2, <3>1, FillAt
  <2>3. QED BY <2>1, <2>2
<1>2. /\ Fill(a, G) = [x \in DOMAIN a |-> Fill(a, G)[x]]
      /\ Fill(a, H) = [x \in DOMAIN a |-> Fill(a, H)[x]]
  BY DEF Fill
<1>3. QED BY <1>1, <1>2

\* Task t takes, changes or puts down what it holds at p, and writes to p and q.
AtHand(a, hands, t, p) == IF hands[t].holding THEN hands[t].temp ELSE a[p]

HandStep(a, b, H, G, t, p, q) ==
  /\ t \in DOMAIN H /\ DOMAIN G = DOMAIN H
  /\ \A u \in DOMAIN H : u # t => G[u] = H[u]
  /\ \A u \in DOMAIN H : u # t /\ H[u].holding => H[u].head # p /\ H[u].head # q
  /\ H[t].holding => H[t].head = p
  /\ G[t].holding => G[t].head = p
  /\ \A x \in DOMAIN a : x # p /\ x # q => b[x] = a[x]
  /\ p = q => AtHand(b, G, t, p) = AtHand(a, H, t, p)
  /\ p # q => AtHand(b, G, t, p) = a[q] /\ b[q] = AtHand(a, H, t, p)

LEMMA FillStep ==
  ASSUME NEW D, NEW a \in [D -> Nat], NEW b \in [D -> Nat], NEW p \in D, NEW q \in D,
         NEW H, NEW G, OneHolder(H), OneHolder(G), NEW t, HandStep(a, b, H, G, t, p, q)
  PROVE  Fill(b, G) = Swap(Fill(a, H), p, q)
<1>0. PICK old, new : old = AtHand(a, H, t, p) /\ new = AtHand(b, G, t, p)
  OBVIOUS
<1> USE <1>0 DEF AtHand, HandStep
<1>1. Fill(a, H)[p] = old /\ Fill(b, G)[p] = new
  <2>1. \A u \in DOMAIN H : u # t => ~(H[u].holding /\ H[u].head = p) /\ ~(G[u].holding /\ G[u].head = p)
    OBVIOUS
  <2>2. p \in DOMAIN a /\ p \in DOMAIN b
    OBVIOUS
  <2>3. Fill(a, H)[p] = old
    BY <2>1, <2>2, FillAt
  <2>4. Fill(b, G)[p] = new
    BY <2>1, <2>2, FillAt
  <2>5. QED BY <2>3, <2>4
<1>2. q # p => Fill(a, H)[q] = a[q] /\ Fill(b, G)[q] = b[q]
  <2>1. q # p => \A u \in DOMAIN H : ~(H[u].holding /\ H[u].head = q) /\ ~(G[u].holding /\ G[u].head = q)
    OBVIOUS
  <2>2. q \in DOMAIN a /\ q \in DOMAIN b
    OBVIOUS
  <2>3. QED BY <2>1, <2>2, FillAt
<1>3. ASSUME NEW x \in D, x # p, x # q
      PROVE  Fill(a, H)[x] = Fill(b, G)[x]
  <2>1. x \in DOMAIN a /\ x \in DOMAIN b /\ b[x] = a[x]
    BY <1>3
  <2>2. CASE \E u \in DOMAIN H : H[u].holding /\ H[u].head = x
    <3>1. PICK u \in DOMAIN H : H[u].holding /\ H[u].head = x
      BY <2>2
    <3>2. u # t /\ G[u] = H[u] /\ u \in DOMAIN G
      BY <1>3, <3>1
    <3>3. Fill(a, H)[x] = H[u].temp
      BY <2>1, <3>1, FillAt
    <3>4. Fill(b, G)[x] = G[u].temp
      BY <2>1, <3>1, <3>2, FillAt
    <3>5. QED BY <3>2, <3>3, <3>4
  <2>3. CASE ~ \E u \in DOMAIN H : H[u].holding /\ H[u].head = x
    <3>1. \A u \in DOMAIN G : ~(G[u].holding /\ G[u].head = x)
      BY <1>3, <2>3
    <3>2. Fill(a, H)[x] = a[x]
      BY <2>1, <2>3, FillAt
    <3>3. Fill(b, G)[x] = b[x]
      BY <2>1, <3>1, FillAt
    <3>4. QED BY <2>1, <3>2, <3>3
  <2>4. QED BY <2>2, <2>3
<1>4. /\ Fill(a, H) = [x \in D |-> Fill(a, H)[x]]
      /\ Fill(b, G) = [x \in D |-> Fill(b, G)[x]]
  BY DEF Fill
<1> DEFINE F == Fill(a, H)
           E == Fill(b, G)
<1>5. F = [x \in D |-> F[x]] /\ E = [x \in D |-> E[x]]
  BY <1>4
<1>6. /\ \A x \in D : x # p /\ x # q => E[x] = F[x]
      /\ E[p] = F[q] /\ E[q] = F[p]
  BY <1>1, <1>2, <1>3
<1> HIDE DEF E, F
<1>7. E = Swap(F, p, q)
  BY <1>5, <1>6 DEF Swap
<1>8. QED BY <1>7 DEF E, F

(***************************************************************************)
(* What the invariant says of the array and of the tasks.                  *)
(***************************************************************************)
LEMMA ArrayShape ==
  ASSUME Types
  PROVE  /\ array \in [DOMAIN array -> Value] /\ array \in [DOMAIN array -> Nat]
         /\ IsFiniteSet(DOMAIN array) /\ DOMAIN array \subseteq Nat /\ DOMAIN array # {}
         /\ \E n \in Nat \ {0} : n \in Sizes /\ DOMAIN array = 0 .. n - 1 /\ Cardinality(DOMAIN array) = n
<1>1. PICK n \in Sizes : array \in [0 .. n - 1 -> Value]
  BY DEF Types
<1>2. n \in Nat \ {0} /\ Value \subseteq Nat /\ 0 .. n - 1 \subseteq Nat /\ 0 \in 0 .. n - 1
  BY RadixAssumption
<1>3. IsFiniteSet(0 .. n - 1) /\ Cardinality(0 .. n - 1) = n
  BY <1>2, FS_Interval
<1>4. DOMAIN array = 0 .. n - 1
  BY <1>1
<1>5. array \in [DOMAIN array -> Value]
  BY <1>1, <1>4
<1>6. array \in [DOMAIN array -> Nat]
  BY <1>2, <1>5
<1>7. QED BY <1>2, <1>3, <1>4, <1>5, <1>6

\* The element a task holds, or is to pick up, comes from its own part.
LEMMA PlaceOfTask ==
  ASSUME RadixInv, pc = "permute", NEW t \in DOMAIN tasks,
         tasks[t].head < tail[t][tasks[t].bucket]
  PROVE  /\ t \in Tids /\ tasks[t].bucket \in Buckets
         /\ tasks[t].head \in Cut(tasks[t].bucket, t) .. PartEnd(tasks[t].bucket, t) - 1
         /\ head[t][tasks[t].bucket] <= tasks[t].head
<1> DEFINE b == tasks[t].bucket
<1>1. t \in Tids /\ b \in Buckets /\ head[t][b] <= tasks[t].head /\ tasks[t].head \in Nat
  BY DEF RadixInv, PermuteInv, InPart, Types, TaskRecords
<1>2. PartBounds(b, t) /\ head \in Rows
  BY <1>1 DEF RadixInv, PermuteInv
<1>3. head[t][b] \in Nat
  BY <1>1, <1>2 DEF Rows
<1>4. Cut(b, t) \in Int /\ PartEnd(b, t) \in Int
  <2>1. gh[b] \in Nat /\ gt[b] \in Nat /\ gh[b] <= gt[b]
    BY <1>1, BucketFacts DEF RadixInv, BucketsInv
  <2>2. QED BY <1>1, <2>1, PartInBucket
<1>5. QED BY <1>1, <1>2, <1>3, <1>4 DEF PartBounds

LEMMA PlacesDiffer ==
  ASSUME RadixInv, pc = "permute", NEW t \in DOMAIN tasks, NEW u \in DOMAIN tasks, t # u,
         tasks[t].head < tail[t][tasks[t].bucket], tasks[u].head < tail[u][tasks[u].bucket]
  PROVE  tasks[t].head # tasks[u].head
<1>1. <<tasks[t].bucket, t>> # <<tasks[u].bucket, u>>
  OBVIOUS
<1>2. Layout /\ HeadsWithin
  BY DEF RadixInv, BucketsInv
<1>3. QED BY <1>1, <1>2, PlaceOfTask, PartsDoNotMeet

LEMMA OneHolderNow ==
  ASSUME RadixInv
  PROVE  OneHolder(tasks)
<1>1. CASE pc = "permute"
  <2>1. \A t \in DOMAIN tasks : tasks[t].holding => tasks[t].head < tail[t][tasks[t].bucket]
    BY <1>1 DEF RadixInv, PermuteInv, InPart
  <2>2. QED BY <1>1, <2>1, PlacesDiffer DEF OneHolder
<1>2. CASE pc # "permute"
  <2>1. DOMAIN tasks = {} \/ DOMAIN tasks = {0}
    BY <1>2 DEF RadixInv, SequentialInv, Phases
  <2>2. QED BY <2>1 DEF OneHolder
<1>3. QED BY <1>1, <1>2

LEMMA FilledShape ==
  ASSUME RadixInv
  PROVE  Filled \in [DOMAIN array -> Nat]
<1>1. OneHolder(tasks) /\ \A t \in DOMAIN tasks : tasks[t].temp \in Nat
  BY OneHolderNow DEF RadixInv, Types, TaskRecords
<1>2. \A x \in DOMAIN array : array[x] \in Nat
  BY ArrayShape DEF RadixInv
<1>3. \A x \in DOMAIN array : Fill(array, tasks)[x] \in Nat
  <2> TAKE x \in DOMAIN array
  <2>1. CASE \E t \in DOMAIN tasks : tasks[t].holding /\ tasks[t].head = x
    BY <1>1, <2>1, FillAt
  <2>2. CASE ~ \E t \in DOMAIN tasks : tasks[t].holding /\ tasks[t].head = x
    BY <1>1, <1>2, <2>2, FillAt
  <2>3. QED BY <2>1, <2>2
<1>4. Fill(array, tasks) = [x \in DOMAIN array |-> Fill(array, tasks)[x]]
  BY DEF Fill
<1>5. QED BY <1>3, <1>4, FilledIsFill

\* An element in hand stands in Filled at its place; its byte has a bucket.
LEMMA InHand ==
  ASSUME RadixInv, NEW t \in DOMAIN tasks, tasks[t].holding
  PROVE  /\ tasks[t].head \in DOMAIN array
         /\ Filled[tasks[t].head] = tasks[t].temp
         /\ tasks[t].temp \in Value
         /\ pc # "start" => TempByte(t) \in Buckets
<1>1. pc = "permute" \/ pc = "sort_and_swap"
  BY DEF RadixInv, Phases
<1>2. Layout /\ HeadsWithin /\ Counts
  BY <1>1 DEF RadixInv, BucketsInv
<1>3. tasks[t].head \in DOMAIN array /\ tasks[t].temp \in Value
  <2>1. CASE pc = "permute"
    <3>1. tasks[t].head < tail[t][tasks[t].bucket] /\ tasks[t].temp \in Value
      BY <2>1 DEF RadixInv, PermuteInv, InPart
    <3>2. QED BY <1>2, <2>1, <3>1, PlaceOfTask, PartsDoNotMeet
  <2>2. CASE pc = "sort_and_swap"
    <3>1. /\ t = 0 /\ Hand.bucket \in Buckets /\ Hand.head = gh[Hand.bucket]
          /\ gh[Hand.bucket] < gt[Hand.bucket] /\ Hand.temp \in Value
      BY <2>2 DEF RadixInv, SequentialInv, Hand
    <3>2. gh[Hand.bucket] \in Lo(Hand.bucket) .. gt[Hand.bucket] - 1
      BY <1>2, <3>1, BucketFacts
    <3>3. gh[Hand.bucket] \in DOMAIN array
      BY <1>2, <3>1, <3>2 DEF Layout
    <3>4. QED BY <3>1, <3>3 DEF Hand
  <2>3. QED BY <1>1, <2>1, <2>2
<1>4. Filled[tasks[t].head] = tasks[t].temp
  BY <1>3, OneHolderNow, FillAt, FilledIsFill
<1>5. QED BY <1>2, <1>3, <1>4 DEF Counts, TempByte

(***************************************************************************)
(* What every step keeps.                                                  *)
(***************************************************************************)

\* A step exchanges two elements of Filled, or an element with itself.
Exchanged == \E x, y \in DOMAIN array : Filled' = Swap(Filled, x, y)

LEMMA NothingExchanged ==
  ASSUME RadixInv, Filled' = Filled
  PROVE  Exchanged
<1>1. PICK x \in DOMAIN array : TRUE
  BY ArrayShape DEF RadixInv
<1>2. PICK F : F = Filled
  OBVIOUS
<1>3. F \in [DOMAIN array -> Nat]
  BY <1>2, FilledShape
<1>4. Swap(F, x, x) = F
  BY <1>3 DEF Swap
<1>5. QED BY <1>1, <1>2, <1>4 DEF Exchanged

LEMMA CountsStay ==
  ASSUME RadixInv, pc # "start", Exchanged, gt' = gt, DOMAIN gh' = DOMAIN gh,
         DOMAIN array' = DOMAIN array
  PROVE  Counts'
<1>1. PICK x \in DOMAIN array, y \in DOMAIN array : Filled' = Swap(Filled, x, y)
  BY DEF Exchanged
<1>2. PICK F, D : F = Filled /\ D = DOMAIN array
  OBVIOUS
<1>3. F \in [D -> Nat] /\ IsFiniteSet(D) /\ x \in D /\ y \in D
  BY <1>2, FilledShape, ArrayShape DEF RadixInv
<1>4. Filled' = Swap(F, x, y) /\ Counts /\ Layout
  BY <1>1, <1>2 DEF RadixInv, BucketsInv
<1>5. \A b \in Buckets : b \in Nat
  BY <1>4 DEF Layout
<1>6. \A b \in Buckets : HeadOf(Swap(F, x, y), b) = HeadOf(F, b) /\ TailOf(Swap(F, x, y), b) = TailOf(F, b)
  BY <1>3, <1>5, ExchangeKeepsCounts
<1>7. \A z \in D : get_byte_at(Swap(F, x, y)[z]) \in Buckets
  <2>1. \A z \in D : get_byte_at(F[z]) \in Buckets
    BY <1>2, <1>4 DEF Counts
  <2>2. \A z \in D : Swap(F, x, y)[z] = IF z = y THEN F[x] ELSE IF z = x THEN F[y] ELSE F[z]
    BY <1>3 DEF Swap
  <2>3. QED BY <1>3, <2>1, <2>2
<1>8. Buckets' = Buckets /\ \A b : Lo(b)' = Lo(b)
  BY DEF Buckets, Lo
<1>9. \A b \in Buckets : HeadOf(F, b) = Lo(b) /\ TailOf(F, b) = gt[b]
  BY <1>2, <1>4 DEF Counts
<1>10. QED BY <1>2, <1>4, <1>6, <1>7, <1>8, <1>9 DEF Counts

LEMMA LayoutStays ==
  ASSUME Layout, gt' = gt, DOMAIN gh' = DOMAIN gh, DOMAIN array' = DOMAIN array
  PROVE  Layout'
<1>1. Buckets' = Buckets /\ \A b : Lo(b)' = Lo(b)
  BY DEF Buckets, Lo
<1>2. QED BY <1>1 DEF Layout

LEMMA ArrayStays ==
  ASSUME Types, array' \in [DOMAIN array -> Value]
  PROVE  DOMAIN array' = DOMAIN array /\ \E n \in Sizes : array' \in [0 .. n - 1 -> Value]
<1>1. PICK n \in Nat \ {0} : n \in Sizes /\ DOMAIN array = 0 .. n - 1
  BY ArrayShape
<1>2. QED BY <1>1

(***************************************************************************)
(* permute                                                                 *)
(***************************************************************************)
LEMMA PermuteKeeps ==
  ASSUME RadixInv, pc = "permute", UNCHANGED <<gh, gt, tail, repairing, i, pc>>, Exchanged,
         array' \in [DOMAIN array -> Value], head' \in Rows,
         \A u \in Tids, b \in Buckets :
           /\ Cut(b, u) <= head'[u][b] /\ head'[u][b] <= tail[u][b]
           /\ \A x \in Cut(b, u) .. head'[u][b] - 1 : get_byte_at(array'[x]) = b,
         \A b \in Buckets : \A x \in Lo(b) .. gh[b] - 1 : get_byte_at(array'[x]) = b,
         tasks' \in [DOMAIN tasks' -> TaskRecords], DOMAIN tasks' \subseteq Tids,
         \A t \in DOMAIN tasks' : InPart(t)'
  PROVE  RadixInv'
<1>1. /\ Types /\ Layout /\ HeadsWithin /\ tail \in Rows /\ DOMAIN repairing = {}
      /\ \A u \in Tids, b \in Buckets : tail[u][b] = PartEnd(b, u)
  BY DEF RadixInv, BucketsInv, PermuteInv, PartBounds, Phases
<1>2. DOMAIN array' = DOMAIN array /\ \E n \in Sizes : array' \in [0 .. n - 1 -> Value]
  BY <1>1, ArrayStays
<1>3. Layout' /\ Counts'
  BY <1>1, <1>2, LayoutStays, CountsStay
<1>4. /\ Buckets' = Buckets /\ Top' = Top /\ Rows' = Rows
      /\ \A b : Lo(b)' = Lo(b)
      /\ \A b, t : Cut(b, t)' = Cut(b, t) /\ PartEnd(b, t)' = PartEnd(b, t)
  BY DEF Buckets, Top, Rows, Lo, Cut, PartEnd
<1>5. HeadsWithin' /\ Placed'
  BY <1>1, <1>4 DEF HeadsWithin, Placed, InPlace, Byte
<1>6. PermuteInv'
  BY <1>1, <1>4 DEF PermuteInv, PartBounds, PartFilled, InPlace, Byte
<1>7. Types'
  BY <1>1, <1>2, <1>4 DEF Types
<1>8. RepairInv' /\ SequentialInv' /\ Phases'
  BY <1>1 DEF RepairInv, SequentialInv, Phases
<1>9. QED BY <1>3, <1>5, <1>6, <1>7, <1>8 DEF RadixInv, BucketsInv

\* A task that writes to a place of its own and to the head of one of its parts.
LEMMA FillsPart ==
  ASSUME RadixInv, pc = "permute",
         NEW t \in Tids, NEW b \in Buckets, NEW c \in Buckets,
         NEW p \in Cut(b, t) .. PartEnd(b, t) - 1, NEW q \in Cut(c, t) .. PartEnd(c, t) - 1,
         NEW new \in [DOMAIN array -> Nat],
         \A x \in DOMAIN array : x # p /\ x # q => new[x] = array[x],
         NEW heads \in Rows,
         \A u \in Tids, d \in Buckets : <<d, u>> # <<c, t>> => heads[u][d] = head[u][d],
         \/ heads[t][c] = head[t][c] /\ head[t][c] <= q
         \/ heads[t][c] = head[t][c] + 1 /\ head[t][c] = q /\ get_byte_at(new[q]) = c,
         p = q \/ heads[t][b] <= p
  PROVE  /\ \A u \in Tids, d \in Buckets :
              \A x \in Cut(d, u) .. heads[u][d] - 1 : get_byte_at(new[x]) = d
         /\ \A d \in Buckets : \A x \in Lo(d) .. gh[d] - 1 : get_byte_at(new[x]) = d
         /\ \A u \in Tids, d \in Buckets :
              Cut(d, u) <= heads[u][d] /\ heads[u][d] <= tail[u][d]
<1>1. /\ Layout /\ HeadsWithin /\ Placed /\ head \in Rows /\ tail \in Rows
      /\ \A u \in Tids, d \in Buckets : PartBounds(d, u) /\ PartFilled(d, u)
  BY DEF RadixInv, BucketsInv, PermuteInv
<1>2. \A u \in Tids, d \in Buckets :
        Cut(d, u) \in Nat /\ head[u][d] \in Nat /\ tail[u][d] \in Nat /\ heads[u][d] \in Nat
  <2> TAKE u \in Tids, d \in Buckets
  <2>1. gh[d] \in Nat /\ gt[d] \in Nat /\ gh[d] <= gt[d]
    BY <1>1, BucketFacts
  <2>2. Cut(d, u) \in Nat
    BY <2>1, PartInBucket
  <2>3. QED BY <1>1, <2>2 DEF Rows
<1>3. p \in Nat /\ q \in Nat
  BY <1>1, PartsDoNotMeet
<1>4. ASSUME NEW u \in Tids, NEW d \in Buckets
      PROVE  Cut(d, u) <= heads[u][d] /\ heads[u][d] <= tail[u][d]
  <2>1. CASE <<d, u>> = <<c, t>>
    BY <1>1, <1>2, <1>3, <2>1 DEF PartBounds
  <2>2. CASE <<d, u>> # <<c, t>>
    BY <1>1, <2>2 DEF PartBounds
  <2>3. QED BY <2>1, <2>2
<1>5. ASSUME NEW u \in Tids, NEW d \in Buckets, NEW x \in Cut(d, u) .. heads[u][d] - 1
      PROVE  get_byte_at(new[x]) = d
  <2>1. x \in Int /\ x \in Cut(d, u) .. PartEnd(d, u) - 1
    BY <1>1, <1>2, <1>4 DEF PartBounds
  <2>2. x \in DOMAIN array
    BY <1>1, <2>1, PartsDoNotMeet
  <2>3. x = q => get_byte_at(new[x]) = d
    <3> SUFFICES ASSUME x = q
                 PROVE  get_byte_at(new[x]) = d
      OBVIOUS
    <3>1. <<d, u>> = <<c, t>>
      BY <1>1, <2>1, PartsDoNotMeet
    <3>2. QED BY <1>2, <1>3, <3>1
  <2>4. x # p \/ x = q
    <3> SUFFICES ASSUME x = p, p # q
                 PROVE  FALSE
      OBVIOUS
    <3>1. <<d, u>> = <<b, t>>
      BY <1>1, <2>1, PartsDoNotMeet
    <3>2. QED BY <1>2, <1>3, <3>1
  <2>5. CASE x # q
    <3>1. new[x] = array[x]
      BY <2>2, <2>4, <2>5
    <3>2. x \in Cut(d, u) .. head[u][d] - 1
      <4>1. CASE <<d, u>> = <<c, t>>
        BY <1>2, <1>3, <2>1, <2>5, <4>1
      <4>2. CASE <<d, u>> # <<c, t>>
        BY <4>2
      <4>3. QED BY <4>1, <4>2
    <3>3. QED BY <1>1, <3>1, <3>2 DEF PartFilled, InPlace, Byte
  <2>6. QED BY <2>3, <2>5
<1>6. ASSUME NEW d \in Buckets, NEW x \in Lo(d) .. gh[d] - 1
      PROVE  get_byte_at(new[x]) = d
  <2>1. x # p /\ x # q
    BY <1>1, PartsDoNotMeet
  <2>2. x \in DOMAIN array
    <3>1. Lo(d) .. gt[d] - 1 \subseteq DOMAIN array
      BY <1>1 DEF Layout
    <3>2. x \in Lo(d) .. gt[d] - 1
      BY <1>1, BucketFacts
    <3>3. QED BY <3>1, <3>2, Zenon
  <2>3. QED BY <1>1, <2>1, <2>2 DEF Placed, InPlace, Byte
<1>7. QED BY <1>4, <1>5, <1>6

LEMMA PermuteFacts ==
  ASSUME RadixInv, pc = "permute"
  PROVE  /\ array \in [DOMAIN array -> Value] /\ head \in Rows /\ tail \in Rows
         /\ tasks \in [DOMAIN tasks -> TaskRecords] /\ DOMAIN tasks \subseteq Tids
         /\ Layout /\ HeadsWithin
         /\ \A t \in DOMAIN tasks : InPart(t)
         /\ \A u \in Tids, b \in Buckets :
              /\ Cut(b, u) <= head[u][b] /\ head[u][b] <= tail[u][b] /\ tail[u][b] = PartEnd(b, u)
              /\ \A x \in Cut(b, u) .. head[u][b] - 1 : get_byte_at(array[x]) = b
         /\ \A b \in Buckets : \A x \in Lo(b) .. gh[b] - 1 : get_byte_at(array[x]) = b
BY ArrayShape DEF RadixInv, BucketsInv, PermuteInv, Types, PartBounds, PartFilled, Placed, InPlace, Byte

LEMMA NextBucketKeeps ==
  ASSUME RadixInv, NEW t \in Tids, NextBucket(t)
  PROVE  RadixInv' /\ Exchanged
<1> DEFINE b == tasks[t].bucket
<1>1. /\ pc = "permute" /\ t \in DOMAIN tasks /\ ~tasks[t].holding
      /\ UNCHANGED <<gh, gt, tail, repairing, i, pc>> /\ array' = array /\ head' = head
      /\ \/ b + 1 \in Buckets /\ tasks' = [tasks EXCEPT ![t] = Task(b + 1, head[t][b + 1])]
         \/ b + 1 \notin Buckets /\ tasks' = [u \in DOMAIN tasks \ {t} |-> tasks[u]]
  BY DEF NextBucket, Permuting, PermuteRest
<1>2. tasks \in [DOMAIN tasks -> TaskRecords] /\ DOMAIN tasks \subseteq Tids
  BY <1>1, PermuteFacts
<1>3. /\ DOMAIN tasks' \subseteq DOMAIN tasks
      /\ \A u \in DOMAIN tasks : u # t => u \in DOMAIN tasks' /\ tasks'[u] = tasks[u]
      /\ t \in DOMAIN tasks' => b + 1 \in Buckets /\ tasks'[t] = Task(b + 1, head[t][b + 1])
  BY <1>1, <1>2
<1>4. ASSUME NEW c \in Buckets
      PROVE  /\ head[t][c] \in Nat /\ head[t][c] <= tail[t][c]
             /\ Task(c, head[t][c]) \in TaskRecords
  <2>1. head \in Rows /\ head[t][c] <= tail[t][c] /\ c \in 0 .. 255
    BY <1>1, PermuteFacts, BucketFacts
  <2>2. head[t][c] \in Nat
    BY <2>1 DEF Rows
  <2>3. QED BY <2>1, <2>2 DEF Task, TaskRecords
<1>5. tasks' \in [DOMAIN tasks' -> TaskRecords]
  <2>1. tasks' = [u \in DOMAIN tasks' |-> tasks'[u]]
    BY <1>1, <1>2
  <2>2. \A u \in DOMAIN tasks' : tasks'[u] \in TaskRecords
    <3> TAKE u \in DOMAIN tasks'
    <3>1. CASE u = t
      BY <1>3, <1>4, <3>1
    <3>2. CASE u # t
      BY <1>2, <1>3, <3>2
    <3>3. QED BY <3>1, <3>2
  <2>3. QED BY <2>1, <2>2
<1>6. ASSUME NEW u \in DOMAIN tasks'
      PROVE  InPart(u)'
  <2>1. CASE u = t
    <3>1. /\ tasks'[u].bucket = b + 1 /\ b + 1 \in Buckets /\ tasks'[u].head = head[t][b + 1]
          /\ tasks'[u].holding = FALSE
      BY <1>3, <2>1 DEF Task
    <3>2. QED BY <1>1, <1>4, <2>1, <3>1 DEF InPart, Buckets
  <2>2. CASE u # t
    <3>1. InPart(u) /\ tasks'[u] = tasks[u]
      BY <1>1, <1>3, <2>2, PermuteFacts
    <3>2. QED BY <1>1, <3>1 DEF InPart, Buckets
  <2>3. QED BY <2>1, <2>2
<1>7. Exchanged
  <2>1. \A u \in DOMAIN tasks' : tasks'[u].holding => u # t
    BY <1>3 DEF Task
  <2>2. OneHolder(tasks) /\ OneHolder(tasks')
    BY <1>3, <2>1, OneHolderNow DEF OneHolder
  <2>3. Fill(array, tasks') = Fill(array, tasks)
    BY <1>1, <1>3, <2>1, <2>2, FillSame
  <2>4. QED BY <1>1, <2>3, FilledIsFill, NothingExchanged
<1>8. QED
  <2> HIDE DEF b
  <2>1. DOMAIN tasks' \subseteq Tids
    BY <1>2, <1>3
  <2>2. QED BY <1>1, <1>5, <1>6, <1>7, <2>1, PermuteFacts, PermuteKeeps

LEMMA PickUpKeeps ==
  ASSUME RadixInv, NEW t \in Tids, PickUp(t)
  PROVE  RadixInv' /\ Exchanged
<1> DEFINE p == tasks[t].head
<1>1. /\ pc = "permute" /\ t \in DOMAIN tasks /\ ~tasks[t].holding
      /\ p < tail[t][tasks[t].bucket]
      /\ tasks' = [tasks EXCEPT ![t].holding = TRUE, ![t].temp = array[tasks[t].head]]
      /\ UNCHANGED <<gh, gt, tail, repairing, i, pc>> /\ array' = array /\ head' = head
  BY DEF PickUp, Permuting, PermuteRest
<1>2. tasks \in [DOMAIN tasks -> TaskRecords] /\ DOMAIN tasks \subseteq Tids
  BY <1>1, PermuteFacts
<1>3. /\ DOMAIN tasks' = DOMAIN tasks
      /\ \A u \in DOMAIN tasks : u # t => tasks'[u] = tasks[u]
      /\ tasks'[t] = [bucket |-> tasks[t].bucket, head |-> p, holding |-> TRUE, temp |-> array[p]]
  BY <1>1, <1>2 DEF TaskRecords
<1>4. p \in DOMAIN array /\ array[p] \in Value /\ array[p] \in Nat
  BY <1>1, PlaceOfTask, PartsDoNotMeet, PermuteFacts, RadixAssumption
<1>5. tasks' \in [DOMAIN tasks' -> TaskRecords]
  <2>1. tasks[t] \in TaskRecords
    BY <1>1, <1>2
  <2>2. [tasks[t] EXCEPT !.holding = TRUE, !.temp = array[p]] \in TaskRecords
    BY <1>4, <2>1 DEF TaskRecords
  <2>3. tasks' = [tasks EXCEPT ![t] = [tasks[t] EXCEPT !.holding = TRUE, !.temp = array[p]]]
    BY <1>1, <1>2
  <2> HIDE DEF p
  <2>4. QED BY <1>1, <1>2, <2>2, <2>3
<1>6. ASSUME NEW u \in DOMAIN tasks'
      PROVE  InPart(u)'
  <2>1. InPart(u)
    BY <1>1, <1>3, PermuteFacts
  <2>2. CASE u = t
    <3>1. /\ tasks'[u].bucket = tasks[u].bucket /\ tasks'[u].head = tasks[u].head
          /\ tasks'[u].temp \in Value /\ tasks[u].head < tail[u][tasks[u].bucket]
      BY <1>1, <1>3, <1>4, <2>2, ZenonT(30)
    <3>2. QED BY <1>1, <2>1, <3>1 DEF InPart, Buckets
  <2>3. CASE u # t
    BY <1>1, <1>3, <2>1, <2>3 DEF InPart, Buckets
  <2>4. QED BY <2>2, <2>3
<1>7. OneHolder(tasks) /\ OneHolder(tasks')
  <2>1. \A u \in DOMAIN tasks' : tasks'[u].holding =>
          u \in DOMAIN tasks /\ tasks'[u].head = tasks[u].head /\ tasks[u].head < tail[u][tasks[u].bucket]
    BY <1>1, <1>3, PermuteFacts DEF InPart
  <2>2. \A u, v \in DOMAIN tasks' :
          tasks'[u].holding /\ tasks'[v].holding /\ u # v => tasks'[u].head # tasks'[v].head
    BY <1>1, <2>1, PlacesDiffer
  <2>3. QED BY <2>2, OneHolderNow DEF OneHolder
<1>8. Exchanged
  <2>1. \A u \in DOMAIN tasks : u # t /\ tasks[u].holding => tasks[u].head # p
    BY <1>1, PlacesDiffer, PermuteFacts DEF InPart
  <2>2. PICK D : D = DOMAIN array
    OBVIOUS
  <2>3. array \in [D -> Nat] /\ p \in D
    BY <1>4, <2>2, ArrayShape DEF RadixInv
  <2>4. HandStep(array, array, tasks, tasks', t, p, p)
    BY <1>1, <1>3, <2>1, ZenonT(30) DEF HandStep, AtHand
  <2>5. PICK G : G = tasks'
    OBVIOUS
  <2> HIDE DEF p
  <2>6. Fill(array, G) = Swap(Fill(array, tasks), p, p)
    BY <1>7, <2>3, <2>4, <2>5, FillStep
  <2>7. QED BY <1>1, <1>4, <2>5, <2>6, FilledIsFill DEF Exchanged, p
<1>9. QED
  <2> HIDE DEF p
  <2>1. DOMAIN tasks' \subseteq Tids
    BY <1>2, <1>3
  <2>2. QED BY <1>1, <1>5, <1>6, <1>8, <2>1, PermuteFacts, PermuteKeeps

\* What a task that holds an element may rely on: where it came from is its own, and
\* so is the head of each of its parts that has room.
LEMMA HandFacts ==
  ASSUME RadixInv, pc = "permute", NEW t \in DOMAIN tasks, tasks[t].holding
  PROVE  /\ t \in Tids /\ tasks[t].bucket \in Buckets /\ TempByte(t) \in Buckets
         /\ tasks[t].temp \in Value /\ tasks[t].temp \in Nat
         /\ tasks[t].head \in DOMAIN array
         /\ tasks[t].head \in Cut(tasks[t].bucket, t) .. PartEnd(tasks[t].bucket, t) - 1
         /\ head[t][tasks[t].bucket] <= tasks[t].head
         /\ tasks[t].head < tail[t][tasks[t].bucket]
         /\ \A c \in Buckets : head[t][c] < tail[t][c] =>
              /\ head[t][c] \in Cut(c, t) .. PartEnd(c, t) - 1
              /\ head[t][c] \in DOMAIN array
              /\ \A u \in DOMAIN tasks : u # t /\ tasks[u].holding => tasks[u].head # head[t][c]
         /\ \A u \in DOMAIN tasks : u # t /\ tasks[u].holding => tasks[u].head # tasks[t].head
<1>1. /\ tasks[t].head < tail[t][tasks[t].bucket]
      /\ \A u \in DOMAIN tasks : tasks[u].holding => tasks[u].head < tail[u][tasks[u].bucket]
  BY PermuteFacts DEF InPart
<1>2. /\ t \in Tids /\ tasks[t].bucket \in Buckets
      /\ tasks[t].head \in Cut(tasks[t].bucket, t) .. PartEnd(tasks[t].bucket, t) - 1
      /\ head[t][tasks[t].bucket] <= tasks[t].head
  BY <1>1, PlaceOfTask
<1>3. /\ tasks[t].head \in DOMAIN array /\ tasks[t].temp \in Value /\ TempByte(t) \in Buckets
      /\ tasks[t].temp \in Nat
  BY InHand, RadixAssumption
<1>4. \A u \in DOMAIN tasks : u # t /\ tasks[u].holding => tasks[u].head # tasks[t].head
  BY <1>1, PlacesDiffer
<1>5. ASSUME NEW c \in Buckets, head[t][c] < tail[t][c]
      PROVE  /\ head[t][c] \in Cut(c, t) .. PartEnd(c, t) - 1
             /\ head[t][c] \in DOMAIN array
             /\ \A u \in DOMAIN tasks : u # t /\ tasks[u].holding => tasks[u].head # head[t][c]
  <2>1. /\ Layout /\ HeadsWithin /\ head \in Rows
        /\ Cut(c, t) <= head[t][c] /\ tail[t][c] = PartEnd(c, t)
    BY <1>2, PermuteFacts
  <2>2. head[t][c] \in Nat
    BY <1>2, <2>1 DEF Rows
  <2>3. Cut(c, t) \in Int /\ PartEnd(c, t) \in Int
    BY <1>2, <2>1, BucketFacts, PartInBucket
  <2>4. head[t][c] \in Cut(c, t) .. PartEnd(c, t) - 1
    BY <1>5, <2>1, <2>2, <2>3
  <2>5. head[t][c] \in DOMAIN array
    BY <1>2, <2>1, <2>4, PartsDoNotMeet
  <2>6. ASSUME NEW u \in DOMAIN tasks, u # t, tasks[u].holding
        PROVE  tasks[u].head # head[t][c]
    <3>1. /\ u \in Tids /\ tasks[u].bucket \in Buckets
          /\ tasks[u].head \in Cut(tasks[u].bucket, u) .. PartEnd(tasks[u].bucket, u) - 1
      BY <1>1, <2>6, PlaceOfTask
    <3>2. <<tasks[u].bucket, u>> # <<c, t>>
      BY <2>6
    <3>3. QED BY <1>2, <2>1, <2>4, <3>1, <3>2, PartsDoNotMeet
  <2>7. QED BY <2>4, <2>5, <2>6
<1>6. QED BY <1>1, <1>2, <1>3, <1>4, <1>5

\* A step of a task that changes only what is in its hand, and whether anything is.
LEMMA HandSteps ==
  ASSUME RadixInv, pc = "permute", NEW t \in DOMAIN tasks, tasks[t].holding,
         DOMAIN tasks' = DOMAIN tasks,
         \A u \in DOMAIN tasks : u # t => tasks'[u] = tasks[u],
         tasks'[t].holding => tasks'[t].head = tasks[t].head,
         NEW q \in DOMAIN array,
         \A u \in DOMAIN tasks : u # t /\ tasks[u].holding => tasks[u].head # q,
         array' \in [DOMAIN array -> Value],
         \A x \in DOMAIN array : x # tasks[t].head /\ x # q => array'[x] = array[x],
         NEW new, new = IF tasks'[t].holding THEN tasks'[t].temp ELSE array'[tasks[t].head],
         IF tasks[t].head = q THEN new = tasks[t].temp
                              ELSE new = array[q] /\ array'[q] = tasks[t].temp
  PROVE  Exchanged
<1> DEFINE p == tasks[t].head
<1>1. PICK D, a, b, H, G : D = DOMAIN array /\ a = array /\ b = array' /\ H = tasks /\ G = tasks'
  OBVIOUS
<1>2. p \in DOMAIN array /\ \A u \in DOMAIN tasks : u # t /\ tasks[u].holding => tasks[u].head # p
  BY HandFacts
<1>3. a \in [D -> Nat] /\ b \in [D -> Nat] /\ p \in D /\ q \in D
  BY <1>1, <1>2, ArrayShape, RadixAssumption DEF RadixInv
<1>4. OneHolder(H) /\ OneHolder(G)
  <2>1. \A u \in DOMAIN tasks' : tasks'[u].holding =>
          u \in DOMAIN tasks /\ tasks'[u].head = tasks[u].head /\ tasks[u].holding
    OBVIOUS
  <2>2. QED BY <1>1, <2>1, OneHolderNow DEF OneHolder
<1>5. HandStep(a, b, H, G, t, p, q)
  BY <1>1, <1>2 DEF HandStep, AtHand
<1> HIDE DEF p
<1>6. Fill(b, G) = Swap(Fill(a, H), p, q)
  BY <1>3, <1>4, <1>5, FillStep
<1>7. Filled' = Swap(Filled, p, q)
  BY <1>1, <1>6, FilledIsFill
<1>8. QED BY <1>1, <1>3, <1>7 DEF Exchanged

LEMMA SwapOutKeeps ==
  ASSUME RadixInv, NEW t \in Tids, SwapOut(t)
  PROVE  RadixInv' /\ Exchanged
<1> DEFINE p == tasks[t].head
           b == tasks[t].bucket
           c == TempByte(t)
           q == head[t][c]
<1>1. /\ pc = "permute" /\ t \in DOMAIN tasks /\ tasks[t].holding /\ c # b /\ q < tail[t][c]
      /\ tasks' = [tasks EXCEPT ![t].temp = array[q]]
      /\ array' = [array EXCEPT ![q] = tasks[t].temp]
      /\ head' = [head EXCEPT ![t][c] = @ + 1]
      /\ UNCHANGED <<gh, gt, tail, repairing, i, pc>>
  BY DEF SwapOut, Permuting, PermuteRest
<1>2. /\ b \in Buckets /\ c \in Buckets /\ p \in DOMAIN array /\ q \in DOMAIN array
      /\ tasks[t].temp \in Value /\ tasks[t].temp \in Nat
      /\ p \in Cut(b, t) .. PartEnd(b, t) - 1 /\ q \in Cut(c, t) .. PartEnd(c, t) - 1
      /\ head[t][b] <= p /\ p < tail[t][b]
      /\ \A u \in DOMAIN tasks : u # t /\ tasks[u].holding => tasks[u].head # q
  BY <1>1, HandFacts
<1>3. /\ array \in [DOMAIN array -> Value] /\ array \in [DOMAIN array -> Nat] /\ head \in Rows
      /\ tasks \in [DOMAIN tasks -> TaskRecords] /\ DOMAIN tasks \subseteq Tids
  BY <1>1, PermuteFacts, ArrayShape DEF RadixInv
<1>4. p # q
  <2>1. <<b, t>> # <<c, t>>
    BY <1>1
  <2>2. QED BY <1>1, <1>2, <2>1, PermuteFacts, PartsDoNotMeet
<1>5. /\ array' \in [DOMAIN array -> Value] /\ array' \in [DOMAIN array -> Nat]
      /\ array'[q] = tasks[t].temp
      /\ \A x \in DOMAIN array : x # q => array'[x] = array[x]
  BY <1>1, <1>2, <1>3
<1>6. /\ head' \in Rows /\ head'[t][c] = q + 1
      /\ \A u \in Tids, d \in Buckets : <<d, u>> # <<c, t>> => head'[u][d] = head[u][d]
  BY <1>1, <1>2, <1>3 DEF Rows
<1>7. /\ DOMAIN tasks' = DOMAIN tasks
      /\ \A u \in DOMAIN tasks : u # t => tasks'[u] = tasks[u]
      /\ tasks'[t] = [bucket |-> b, head |-> p, holding |-> TRUE, temp |-> array[q]]
      /\ tasks' \in [DOMAIN tasks' -> TaskRecords]
  BY <1>1, <1>2, <1>3 DEF TaskRecords
<1>8. get_byte_at(array'[q]) = c
  BY <1>5 DEF TempByte
<1>9. /\ \A u \in Tids, d \in Buckets :
           \A x \in Cut(d, u) .. head'[u][d] - 1 : get_byte_at(array'[x]) = d
      /\ \A d \in Buckets : \A x \in Lo(d) .. gh[d] - 1 : get_byte_at(array'[x]) = d
      /\ \A u \in Tids, d \in Buckets :
           Cut(d, u) <= head'[u][d] /\ head'[u][d] <= tail[u][d]
  <2>1. PICK new, heads : new = array' /\ heads = head'
    OBVIOUS
  <2>2. heads[t][b] <= p
    BY <1>1, <1>2, <1>6, <2>1
  <2>3. /\ new \in [DOMAIN array -> Nat] /\ heads \in Rows
        /\ \A x \in DOMAIN array : x # p /\ x # q => new[x] = array[x]
        /\ \A u \in Tids, d \in Buckets : <<d, u>> # <<c, t>> => heads[u][d] = head[u][d]
        /\ heads[t][c] = head[t][c] + 1 /\ head[t][c] = q /\ get_byte_at(new[q]) = c
    BY <1>5, <1>6, <1>8, <2>1
  <2>4. \/ heads[t][c] = head[t][c] /\ head[t][c] <= q
        \/ heads[t][c] = head[t][c] + 1 /\ head[t][c] = q /\ get_byte_at(new[q]) = c
    BY <2>3
  <2>5. p = q \/ heads[t][b] <= p
    BY <2>2
  <2>6. /\ pc = "permute" /\ b \in Buckets /\ c \in Buckets
        /\ p \in Cut(b, t) .. PartEnd(b, t) - 1 /\ q \in Cut(c, t) .. PartEnd(c, t) - 1
    BY <1>1, <1>2
  <2>7. /\ new \in [DOMAIN array -> Nat] /\ heads \in Rows
        /\ \A x \in DOMAIN array : x # p /\ x # q => new[x] = array[x]
        /\ \A u \in Tids, d \in Buckets : <<d, u>> # <<c, t>> => heads[u][d] = head[u][d]
    BY <2>3
  <2> HIDE DEF p, q, b, c
  <2>8. QED BY <2>1, <2>4, <2>5, <2>6, <2>7, FillsPart, SMTT(30)
<1>10. ASSUME NEW u \in DOMAIN tasks'
       PROVE  InPart(u)'
  <2>1. InPart(u) /\ u \in Tids /\ u \in DOMAIN tasks
    BY <1>1, <1>3, <1>7, PermuteFacts
  <2>2. tasks'[u].bucket = tasks[u].bucket /\ tasks'[u].head = tasks[u].head /\ tasks'[u].holding = tasks[u].holding
    BY <1>1, <1>7, <2>1, ZenonT(30)
  <2>3. tasks'[u].holding => tasks'[u].temp \in Value
    BY <1>2, <1>3, <1>7, <2>1 DEF InPart
  <2>4. head'[u][tasks[u].bucket] = head[u][tasks[u].bucket]
    BY <1>1, <1>6, <2>1 DEF InPart
  <2>5. QED BY <1>1, <2>1, <2>2, <2>3, <2>4 DEF InPart, Buckets
<1>11. Exchanged
  <2>1. PICK new : new = array[q]
    OBVIOUS
  <2>2. /\ new = IF tasks'[t].holding THEN tasks'[t].temp ELSE array'[tasks[t].head]
        /\ tasks'[t].holding => tasks'[t].head = tasks[t].head
        /\ IF tasks[t].head = q THEN new = tasks[t].temp
                                ELSE new = array[q] /\ array'[q] = tasks[t].temp
        /\ \A x \in DOMAIN array : x # tasks[t].head /\ x # q => array'[x] = array[x]
    BY <1>4, <1>5, <1>7, <2>1
  <2> HIDE DEF p, q, b, c
  <2>3. QED BY <1>1, <1>2, <1>5, <1>7, <2>2, HandSteps
<1>12. QED
  <2> HIDE DEF p, q, b, c
  <2>1. DOMAIN tasks' \subseteq Tids
    BY <1>3, <1>7
  <2>2. QED BY <1>1, <1>5, <1>6, <1>7, <1>9, <1>10, <1>11, <2>1, PermuteKeeps

LEMMA PutHomeKeeps ==
  ASSUME RadixInv, NEW t \in Tids, PutHome(t)
  PROVE  RadixInv' /\ Exchanged
<1> DEFINE p == tasks[t].head
           b == tasks[t].bucket
           q == head[t][b]
<1>1. /\ pc = "permute" /\ t \in DOMAIN tasks /\ tasks[t].holding /\ TempByte(t) = b
      /\ tasks' = [tasks EXCEPT ![t].holding = FALSE, ![t].head = @ + 1]
      /\ array' = Home(t, q)
      /\ head' = [head EXCEPT ![t][b] = @ + 1]
      /\ UNCHANGED <<gh, gt, tail, repairing, i, pc>>
  BY DEF PutHome, Permuting, PermuteRest
<1>2. /\ b \in Buckets /\ p \in DOMAIN array
      /\ tasks[t].temp \in Value /\ tasks[t].temp \in Nat
      /\ p \in Cut(b, t) .. PartEnd(b, t) - 1
      /\ q <= p /\ p < tail[t][b]
  BY <1>1, HandFacts
<1>3. /\ array \in [DOMAIN array -> Value] /\ array \in [DOMAIN array -> Nat] /\ head \in Rows
      /\ tail \in Rows
      /\ tasks \in [DOMAIN tasks -> TaskRecords] /\ DOMAIN tasks \subseteq Tids
  BY <1>1, PermuteFacts, ArrayShape DEF RadixInv
<1>4. /\ p \in Nat /\ q \in Nat /\ q < tail[t][b] /\ q \in DOMAIN array
      /\ q \in Cut(b, t) .. PartEnd(b, t) - 1
      /\ \A u \in DOMAIN tasks : u # t /\ tasks[u].holding => tasks[u].head # q
  <2>1. p \in Nat /\ q \in Nat /\ tail[t][b] \in Nat
    BY <1>1, <1>2, <1>3 DEF Rows, TaskRecords
  <2>2. q < tail[t][b]
    BY <1>2, <2>1
  <2>3. QED BY <1>1, <1>2, <2>1, <2>2, HandFacts
<1>5. /\ array' \in [DOMAIN array -> Value] /\ array' \in [DOMAIN array -> Nat]
      /\ array'[q] = tasks[t].temp
      /\ p # q => array'[p] = array[q]
      /\ \A x \in DOMAIN array : x # p /\ x # q => array'[x] = array[x]
  BY <1>1, <1>2, <1>3, <1>4 DEF Home
<1>6. /\ head' \in Rows /\ head'[t][b] = q + 1
      /\ \A u \in Tids, d \in Buckets : <<d, u>> # <<b, t>> => head'[u][d] = head[u][d]
  BY <1>1, <1>2, <1>3 DEF Rows
<1>7. /\ DOMAIN tasks' = DOMAIN tasks
      /\ \A u \in DOMAIN tasks : u # t => tasks'[u] = tasks[u]
      /\ tasks'[t].bucket = b /\ tasks'[t].head = p + 1 /\ tasks'[t].holding = FALSE
      /\ tasks' \in [DOMAIN tasks' -> TaskRecords]
  <2>1. tasks[t] \in TaskRecords /\ tasks[t].temp \in Nat /\ b \in Nat /\ p \in Nat
    BY <1>1, <1>3 DEF TaskRecords
  <2>2. tasks'[t] = [bucket |-> b, head |-> p + 1, holding |-> FALSE, temp |-> tasks[t].temp]
    BY <1>1, <1>3, <2>1 DEF TaskRecords
  <2>3. tasks'[t] \in TaskRecords
    BY <2>1, <2>2 DEF TaskRecords
  <2>4. /\ DOMAIN tasks' = DOMAIN tasks /\ tasks' = [u \in DOMAIN tasks |-> tasks'[u]]
        /\ \A u \in DOMAIN tasks : u # t => tasks'[u] = tasks[u]
    BY <1>1, <1>3
  <2>5. \A u \in DOMAIN tasks : tasks'[u] \in TaskRecords
    BY <1>3, <2>3, <2>4
  <2>6. QED BY <2>2, <2>4, <2>5
<1>8. get_byte_at(array'[q]) = b
  BY <1>1, <1>5 DEF TempByte
<1>9. /\ \A u \in Tids, d \in Buckets :
           \A x \in Cut(d, u) .. head'[u][d] - 1 : get_byte_at(array'[x]) = d
      /\ \A d \in Buckets : \A x \in Lo(d) .. gh[d] - 1 : get_byte_at(array'[x]) = d
      /\ \A u \in Tids, d \in Buckets :
           Cut(d, u) <= head'[u][d] /\ head'[u][d] <= tail[u][d]
  <2>1. PICK new, heads : new = array' /\ heads = head'
    OBVIOUS
  <2>2. \/ heads[t][b] = head[t][b] /\ head[t][b] <= q
        \/ heads[t][b] = head[t][b] + 1 /\ head[t][b] = q /\ get_byte_at(new[q]) = b
    BY <1>6, <1>8, <2>1
  <2>3. p = q \/ heads[t][b] <= p
    BY <1>2, <1>4, <1>6, <2>1
  <2>4. /\ pc = "permute" /\ b \in Buckets
        /\ p \in Cut(b, t) .. PartEnd(b, t) - 1 /\ q \in Cut(b, t) .. PartEnd(b, t) - 1
    BY <1>1, <1>2, <1>4
  <2>5. /\ new \in [DOMAIN array -> Nat] /\ heads \in Rows
        /\ \A x \in DOMAIN array : x # p /\ x # q => new[x] = array[x]
        /\ \A u \in Tids, d \in Buckets : <<d, u>> # <<b, t>> => heads[u][d] = head[u][d]
    BY <1>5, <1>6, <2>1
  <2> HIDE DEF p, q, b
  <2>6. QED BY <2>1, <2>2, <2>3, <2>4, <2>5, FillsPart
<1>10. ASSUME NEW u \in DOMAIN tasks'
       PROVE  InPart(u)'
  <2>1. InPart(u) /\ u \in Tids /\ u \in DOMAIN tasks
    BY <1>1, <1>3, <1>7, PermuteFacts
  <2>2. CASE u = t
    <3>1. tasks'[u].head <= tail[u][b] /\ head'[u][b] <= tasks'[u].head
      <4>1. tail[t][b] \in Nat
        BY <1>2, <1>3 DEF Rows
      <4>2. QED BY <1>2, <1>4, <1>6, <1>7, <2>2, <4>1
    <3>2. QED BY <1>1, <1>2, <1>7, <2>2, <3>1 DEF InPart, Buckets
  <2>3. CASE u # t
    <3>1. tasks'[u] = tasks[u] /\ head'[u][tasks[u].bucket] = head[u][tasks[u].bucket]
      BY <1>1, <1>6, <1>7, <2>1, <2>3 DEF InPart
    <3>2. QED BY <1>1, <2>1, <3>1 DEF InPart, Buckets
  <2>4. QED BY <2>2, <2>3
<1>11. Exchanged
  <2>1. PICK new : new = array'[p]
    OBVIOUS
  <2>2. /\ new = IF tasks'[t].holding THEN tasks'[t].temp ELSE array'[tasks[t].head]
        /\ tasks'[t].holding => tasks'[t].head = tasks[t].head
        /\ IF tasks[t].head = q THEN new = tasks[t].temp
                                ELSE new = array[q] /\ array'[q] = tasks[t].temp
        /\ \A x \in DOMAIN array : x # tasks[t].head /\ x # q => array'[x] = array[x]
    BY <1>5, <1>7, <2>1
  <2> HIDE DEF p, q, b
  <2>3. QED BY <1>1, <1>4, <1>5, <1>7, <2>2, HandSteps
<1>12. QED
  <2> HIDE DEF p, q, b
  <2>1. DOMAIN tasks' \subseteq Tids
    BY <1>3, <1>7
  <2>2. QED BY <1>1, <1>5, <1>6, <1>7, <1>9, <1>10, <1>11, <2>1, PermuteKeeps

LEMMA PutBackKeeps ==
  ASSUME RadixInv, NEW t \in Tids, PutBack(t)
  PROVE  RadixInv' /\ Exchanged
<1> DEFINE p == tasks[t].head
           b == tasks[t].bucket
<1>1. /\ pc = "permute" /\ t \in DOMAIN tasks /\ tasks[t].holding
      /\ tasks' = [tasks EXCEPT ![t].holding = FALSE, ![t].head = @ + 1]
      /\ array' = [array EXCEPT ![p] = tasks[t].temp]
      /\ head' = head
      /\ UNCHANGED <<gh, gt, tail, repairing, i, pc>>
  BY DEF PutBack, Permuting, PermuteRest
<1>2. /\ b \in Buckets /\ p \in DOMAIN array
      /\ tasks[t].temp \in Value /\ tasks[t].temp \in Nat
      /\ p \in Cut(b, t) .. PartEnd(b, t) - 1
      /\ head[t][b] <= p /\ p < tail[t][b]
      /\ \A u \in DOMAIN tasks : u # t /\ tasks[u].holding => tasks[u].head # p
  BY <1>1, HandFacts
<1>3. /\ array \in [DOMAIN array -> Value] /\ array \in [DOMAIN array -> Nat] /\ head \in Rows
      /\ tail \in Rows
      /\ tasks \in [DOMAIN tasks -> TaskRecords] /\ DOMAIN tasks \subseteq Tids
  BY <1>1, PermuteFacts, ArrayShape DEF RadixInv
<1>4. p \in Nat /\ head[t][b] \in Nat /\ tail[t][b] \in Nat
  BY <1>1, <1>2, <1>3 DEF Rows, TaskRecords
<1>5. /\ array' \in [DOMAIN array -> Value] /\ array' \in [DOMAIN array -> Nat]
      /\ array'[p] = tasks[t].temp
      /\ \A x \in DOMAIN array : x # p => array'[x] = array[x]
  BY <1>1, <1>2, <1>3
<1>6. /\ DOMAIN tasks' = DOMAIN tasks
      /\ \A u \in DOMAIN tasks : u # t => tasks'[u] = tasks[u]
      /\ tasks'[t].bucket = b /\ tasks'[t].head = p + 1 /\ tasks'[t].holding = FALSE
      /\ tasks' \in [DOMAIN tasks' -> TaskRecords]
  <2>1. tasks[t] \in TaskRecords /\ tasks[t].temp \in Nat /\ b \in Nat /\ p \in Nat
    BY <1>1, <1>3 DEF TaskRecords
  <2>2. tasks'[t] = [bucket |-> b, head |-> p + 1, holding |-> FALSE, temp |-> tasks[t].temp]
    BY <1>1, <1>3, <2>1 DEF TaskRecords
  <2>3. tasks'[t] \in TaskRecords
    BY <2>1, <2>2 DEF TaskRecords
  <2>4. /\ DOMAIN tasks' = DOMAIN tasks /\ tasks' = [u \in DOMAIN tasks |-> tasks'[u]]
        /\ \A u \in DOMAIN tasks : u # t => tasks'[u] = tasks[u]
    BY <1>1, <1>3
  <2>5. \A u \in DOMAIN tasks : tasks'[u] \in TaskRecords
    BY <1>3, <2>3, <2>4
  <2>6. QED BY <2>2, <2>4, <2>5
<1>7. /\ \A u \in Tids, d \in Buckets :
           \A x \in Cut(d, u) .. head'[u][d] - 1 : get_byte_at(array'[x]) = d
      /\ \A d \in Buckets : \A x \in Lo(d) .. gh[d] - 1 : get_byte_at(array'[x]) = d
      /\ \A u \in Tids, d \in Buckets :
           Cut(d, u) <= head'[u][d] /\ head'[u][d] <= tail[u][d]
  <2>1. PICK new, heads : new = array' /\ heads = head'
    OBVIOUS
  <2>2. \/ heads[t][b] = head[t][b] /\ head[t][b] <= p
        \/ heads[t][b] = head[t][b] + 1 /\ head[t][b] = p /\ get_byte_at(new[p]) = b
    BY <1>1, <1>2, <2>1
  <2>3. p = p \/ heads[t][b] <= p
    OBVIOUS
  <2>4. pc = "permute" /\ b \in Buckets /\ p \in Cut(b, t) .. PartEnd(b, t) - 1
    BY <1>1, <1>2
  <2>5. /\ new \in [DOMAIN array -> Nat] /\ heads \in Rows
        /\ \A x \in DOMAIN array : x # p /\ x # p => new[x] = array[x]
        /\ \A u \in Tids, d \in Buckets : <<d, u>> # <<b, t>> => heads[u][d] = head[u][d]
    BY <1>1, <1>3, <1>5, <2>1
  <2> HIDE DEF p, b
  <2>6. QED BY <2>1, <2>2, <2>3, <2>4, <2>5, FillsPart
<1>8. ASSUME NEW u \in DOMAIN tasks'
      PROVE  InPart(u)'
  <2>1. InPart(u) /\ u \in Tids /\ u \in DOMAIN tasks
    BY <1>1, <1>3, <1>6, PermuteFacts
  <2>2. CASE u = t
    <3>1. tasks'[u].head <= tail[u][b] /\ head'[u][b] <= tasks'[u].head
      BY <1>1, <1>2, <1>4, <1>6, <2>2
    <3>2. QED BY <1>1, <1>2, <1>6, <2>2, <3>1 DEF InPart, Buckets
  <2>3. CASE u # t
    BY <1>1, <1>6, <2>1, <2>3 DEF InPart, Buckets
  <2>4. QED BY <2>2, <2>3
<1>9. Exchanged
  <2>1. PICK new : new = array'[p]
    OBVIOUS
  <2>2. /\ new = IF tasks'[t].holding THEN tasks'[t].temp ELSE array'[tasks[t].head]
        /\ tasks'[t].holding => tasks'[t].head = tasks[t].head
        /\ IF tasks[t].head = p THEN new = tasks[t].temp
                                ELSE new = array[p] /\ array'[p] = tasks[t].temp
        /\ \A x \in DOMAIN array : x # tasks[t].head /\ x # p => array'[x] = array[x]
    BY <1>5, <1>6, <2>1
  <2>3. PICK q \in DOMAIN array : q = p
    BY <1>2
  <2> HIDE DEF p, b
  <2>4. QED BY <1>1, <1>2, <1>5, <1>6, <2>2, <2>3, HandSteps
<1>10. QED
  <2> HIDE DEF p, b
  <2>1. DOMAIN tasks' \subseteq Tids /\ head' \in Rows
    BY <1>1, <1>3, <1>6
  <2>2. QED BY <1>1, <1>5, <1>6, <1>7, <1>8, <1>9, <2>1, PermuteKeeps

LEMMA PermuteStepKeeps ==
  ASSUME RadixInv, NEW t \in Tids, PermuteStep(t)
  PROVE  RadixInv' /\ Exchanged
BY NextBucketKeeps, PickUpKeeps, SwapOutKeeps, PutHomeKeeps, PutBackKeeps DEF PermuteStep

(***************************************************************************)
(* The thread that runs mrpip_step.                                        *)
(***************************************************************************)
LEMMA BytesAreInterval ==
  ASSUME Types
  PROVE  \E max \in 0 .. 255 : Bytes = 0 .. max /\ \A x \in DOMAIN array : Byte(x) \in 0 .. max
<1> DEFINE Bounds == {m \in Nat : \A x \in DOMAIN array : Byte(x) <= m}
<1>1. \A x \in DOMAIN array : Byte(x) \in 0 .. 255
  BY ArrayShape, ByteRange DEF Byte
<1>2. PICK max \in Bounds : \A m \in Bounds : max <= m
  <2>1. 255 \in Bounds
    BY <1>1
  <2>2. Bounds # {} /\ Bounds \subseteq Nat
    BY <2>1
  <2> HIDE DEF Bounds
  <2>3. QED BY <2>2, LeastNat
<1>3. max \in Nat /\ max <= 255
  <2>1. 255 \in Bounds
    BY <1>1
  <2>2. QED BY <1>2, <2>1
<1>4. \E x \in DOMAIN array : max <= Byte(x)
  <2>1. CASE max = 0
    <3>1. PICK x \in DOMAIN array : TRUE
      BY ArrayShape
    <3>2. QED BY <1>1, <2>1, <3>1
  <2>2. CASE max # 0
    <3>1. max - 1 \in Nat /\ max - 1 \notin Bounds
      BY <1>2, <1>3, <2>2
    <3>2. PICK x \in DOMAIN array : ~(Byte(x) <= max - 1)
      BY <3>1
    <3>3. QED BY <1>1, <1>3, <3>2
  <2>3. QED BY <2>1, <2>2
<1>5. Bytes = 0 .. max
  <2>1. ASSUME NEW b \in 0 .. max
        PROVE  b \in Bytes
    BY <1>1, <1>3, <1>4 DEF Bytes
  <2>2. ASSUME NEW b \in Bytes
        PROVE  b \in 0 .. max
    BY <1>1, <1>2, <1>3, SMTT(30) DEF Bytes
  <2>3. QED BY <2>1, <2>2
<1>6. \A x \in DOMAIN array : Byte(x) \in 0 .. max
  <2> TAKE x \in DOMAIN array
  <2>1. Byte(x) <= max
    BY <1>2
  <2>2. QED BY <1>1, <1>3, <2>1
<1>7. max \in 0 .. 255
  BY <1>3
<1> HIDE DEF Bounds
<1>8. QED BY <1>5, <1>6, <1>7

LEMMA TopFacts ==
  ASSUME Layout
  PROVE  \E max \in 0 .. 255 : Buckets = 0 .. max /\ Top = max + 1
<1>1. PICK max \in 0 .. 255 : Buckets = 0 .. max
  BY DEF Layout
<1>2. Cardinality(0 .. max) = max + 1
  BY FS_Interval
<1>3. QED BY <1>1, <1>2 DEF Top

\* No task has anything in hand.
LEMMA NothingInHand ==
  ASSUME RadixInv, pc \notin {"permute", "sort_and_swap"}
  PROVE  Filled = array
<1>1. DOMAIN tasks = {}
  BY DEF RadixInv, Phases
<1>2. array \in [DOMAIN array -> Nat]
  BY ArrayShape DEF RadixInv
<1>3. QED BY <1>1, <1>2, FillNothing, FilledIsFill

LEMMA StartKeeps ==
  ASSUME RadixInv, Start
  PROVE  RadixInv' /\ Exchanged
<1>1. /\ pc = "start" /\ Types /\ DOMAIN tasks = {} /\ DOMAIN repairing = {}
      /\ array' = array /\ repairing' = repairing /\ i' = i /\ i \in 0 .. Top /\ Buckets = {}
  BY DEF Start, RadixInv, Phases, Types
<1>2. /\ gh' = [b \in Bytes |-> HeadOf(array, b)]
      /\ gt' = [b \in Bytes |-> TailOf(array, b)]
      /\ \/ tasks' = [t \in {0} |-> Task(0, 0)] /\ pc' = "sort_and_swap"
         \/ tasks' = tasks /\ pc' = "partition"
  BY DEF Start
<1>3. PICK max \in 0 .. 255 : Bytes = 0 .. max /\ \A x \in DOMAIN array : Byte(x) \in 0 .. max
  BY <1>1, BytesAreInterval
<1>4. PICK n \in Nat \ {0} : \E D : /\ D = DOMAIN array /\ n \in Sizes /\ D = 0 .. n - 1
                                    /\ array \in [D -> Nat] /\ IsFiniteSet(D) /\ Cardinality(D) = n
  BY <1>1, ArrayShape
<1>4a. PICK D : /\ D = DOMAIN array /\ n \in Sizes /\ D = 0 .. n - 1
               /\ array \in [D -> Nat] /\ IsFiniteSet(D) /\ Cardinality(D) = n
  BY <1>4
<1>5. /\ Buckets' = 0 .. max /\ DOMAIN gt' = Buckets' /\ gh' \in [Buckets' -> Nat] /\ gt' \in [Buckets' -> Nat]
      /\ \A b \in Buckets' : gh'[b] = HeadOf(array, b) /\ gt'[b] = TailOf(array, b) /\ b \in Nat
      /\ \A b \in Buckets' : HeadOf(array, b) \in 0 .. n /\ TailOf(array, b) \in 0 .. n
      /\ \A b, c \in Buckets' : b <= c => HeadOf(array, b) <= TailOf(array, c) /\ TailOf(array, b) <= TailOf(array, c)
  <2>1. \A b \in 0 .. max : b \in Nat
    OBVIOUS
  <2>2. \A b, c \in 0 .. max : b <= c => /\ HeadOf(array, b) \in 0 .. n /\ TailOf(array, b) \in 0 .. n
                                         /\ HeadOf(array, b) <= TailOf(array, c)
                                         /\ TailOf(array, b) <= TailOf(array, c)
    BY <1>4a, <2>1, CountsInOrder
  <2>3. \A b \in 0 .. max : b <= b
    OBVIOUS
  <2>4. \A b \in 0 .. max : HeadOf(array, b) \in 0 .. n /\ TailOf(array, b) \in 0 .. n
    BY <2>2, <2>3
  <2>5. Buckets' = 0 .. max
    BY <1>2, <1>3 DEF Buckets
  <2>6. QED BY <1>2, <1>3, <2>1, <2>2, <2>4, <2>5
<1>6. \A b \in Buckets' : Lo(b)' = HeadOf(array, b)
  <2> TAKE b \in Buckets'
  <2>1. CASE b = 0
    <3>1. HeadOf(array, 0) = 0
      BY <1>4a, CountsInOrder
    <3>2. QED BY <2>1, <3>1 DEF Lo
  <2>2. CASE b # 0
    <3>1. PICK c \in Nat : c = b - 1 /\ c \in Buckets' /\ b = c + 1
      BY <1>5, <2>2
    <3>2. HeadOf(array, c + 1) = TailOf(array, c)
      BY <1>4a, CountsInOrder
    <3>3. QED BY <1>5, <2>2, <3>1, <3>2 DEF Lo
  <2>3. QED BY <2>1, <2>2
<1>7. Layout'
  <2>1. \A b \in Buckets' : Lo(b)' <= gt'[b] /\ Lo(b)' .. gt'[b] - 1 \subseteq DOMAIN array'
    <3> TAKE b \in Buckets'
    <3>1. /\ b <= b /\ HeadOf(array, b) \in 0 .. n /\ TailOf(array, b) \in 0 .. n
          /\ Lo(b)' = HeadOf(array, b) /\ gt'[b] = TailOf(array, b)
      BY <1>5, <1>6
    <3>2. HeadOf(array, b) <= TailOf(array, b)
      BY <1>5, <3>1
    <3>3. DOMAIN array' = 0 .. n - 1
      BY <1>1, <1>4a
    <3>4. QED BY <3>1, <3>2, <3>3
  <2>2. \A b, c \in Buckets' : b < c => gt'[b] <= Lo(c)'
    <3> TAKE b \in Buckets', c \in Buckets'
    <3> SUFFICES ASSUME b < c
                 PROVE  gt'[b] <= Lo(c)'
      OBVIOUS
    <3>1. PICK d \in Nat : d = c - 1 /\ d \in Buckets' /\ b <= d /\ c # 0
      BY <1>5
    <3>2. Lo(c)' = TailOf(array, d)
      BY <1>5, <3>1 DEF Lo
    <3>3. QED BY <1>5, <3>1, <3>2
  <2>3. \A x \in DOMAIN array' : \E b \in Buckets' : x \in Lo(b)' .. gt'[b] - 1
    <3> TAKE x \in DOMAIN array'
    <3>1. x \in D /\ x \in Nat /\ \A y \in D : get_byte_at(array[y]) <= max
      BY <1>1, <1>3, <1>4a DEF Byte
    <3>2. PICK b \in 0 .. max : (IF b = 0 THEN 0 ELSE TailOf(array, b - 1)) <= x /\ x < TailOf(array, b)
      <4>1. PICK a, m : a = array /\ m = max /\ m \in Nat
        BY <1>3
      <4>2. a \in [D -> Nat] /\ D = 0 .. n - 1 /\ \A y \in D : get_byte_at(a[y]) <= m
        BY <1>4a, <3>1, <4>1
      <4>3. \E b \in 0 .. m : (IF b = 0 THEN 0 ELSE TailOf(a, b - 1)) <= x /\ x < TailOf(a, b)
        BY <3>1, <4>1, <4>2, EveryPlaceInBucket
      <4>4. QED BY <4>1, <4>3
    <3>3. b \in Buckets' /\ gt'[b] = TailOf(array, b) /\ (b # 0 => gt'[b - 1] = TailOf(array, b - 1))
      BY <1>5, <3>2
    <3>4. Lo(b)' <= x /\ Lo(b)' \in Nat
      <4>1. Lo(b)' = IF b = 0 THEN 0 ELSE TailOf(array, b - 1)
        BY <3>3 DEF Lo
      <4>2. Lo(b)' \in 0 .. n
        BY <1>5, <1>6, <3>3
      <4>3. QED BY <3>2, <4>1, <4>2
    <3>5. gt'[b] \in Nat
      BY <1>5, <3>3
    <3>6. QED BY <3>1, <3>2, <3>3, <3>4, <3>5
  <2>4. QED BY <1>5, <2>1, <2>2, <2>3 DEF Layout
<1>8. tasks' \in [DOMAIN tasks' -> TaskRecords] /\ \A t \in DOMAIN tasks' : ~tasks'[t].holding
  <2>1. CASE tasks' = [t \in {0} |-> Task(0, 0)]
    <3>1. Task(0, 0) \in TaskRecords /\ ~Task(0, 0).holding
      BY DEF Task, TaskRecords
    <3>2. QED BY <2>1, <3>1
  <2>2. CASE tasks' = tasks
    BY <1>1, <2>2 DEF Types
  <2>3. QED BY <1>2, <2>1, <2>2
<1>9. Filled = array /\ Filled' = array
  <2>1. Filled = array
    BY <1>1, NothingInHand
  <2>2. PICK hands : hands = tasks'
    OBVIOUS
  <2>3. Fill(array, hands) = array
    BY <1>4a, <1>8, <2>2, FillNothing
  <2>4. QED BY <1>1, <2>1, <2>2, <2>3, FilledIsFill
<1>10. Counts'
  <2>1. \A x \in DOMAIN array : get_byte_at(array[x]) \in Buckets'
    BY <1>3, <1>5 DEF Byte
  <2>2. QED BY <1>1, <1>5, <1>6, <1>9, <2>1 DEF Counts
<1>11. HeadsWithin' /\ Placed'
  <2>1. \A b \in Buckets' : b <= b /\ HeadOf(array, b) \in Nat
    BY <1>5
  <2>2. HeadsWithin'
    BY <1>5, <1>6, <2>1 DEF HeadsWithin
  <2>3. \A b \in Buckets' : Lo(b)' .. gh'[b] - 1 = {}
    BY <1>5, <1>6, <2>1
  <2>4. QED BY <2>2, <2>3 DEF Placed, InPlace
<1>12. Types'
  <2>1. i' \in 0 .. Top'
    <3>1. i = 0
      BY <1>1, FS_EmptySet DEF Top
    <3>2. Cardinality(0 .. max) = max + 1
      BY FS_Interval
    <3>3. QED BY <1>1, <1>5, <3>1, <3>2 DEF Top
  <2>2. DOMAIN repairing' = {}
    BY <1>1
  <2>3. \E m \in Sizes : array' \in [0 .. m - 1 -> Value]
    BY <1>1 DEF Types
  <2>4. QED BY <1>2, <1>5, <1>8, <2>1, <2>2, <2>3 DEF Types
<1>13. SequentialInv'
  <2>1. CASE pc' = "sort_and_swap"
    <3>1. Hand' = Task(0, 0) /\ DOMAIN tasks' = {0}
      BY <1>2, <2>1 DEF Hand
    <3>2. 0 \in Buckets' /\ \A b \in Buckets' : ~(b < 0)
      BY <1>5
    <3>3. QED BY <3>1, <3>2 DEF SequentialInv, Task
  <2>2. QED BY <2>1 DEF SequentialInv
<1>14. PermuteInv' /\ RepairInv' /\ Phases'
  BY <1>1, <1>2 DEF PermuteInv, RepairInv, Phases
<1>15. Exchanged
  BY <1>9, NothingExchanged
<1>16. QED BY <1>7, <1>10, <1>11, <1>12, <1>13, <1>14, <1>15 DEF RadixInv, BucketsInv

\* Steps that touch neither the array nor the bounds of the buckets.
LEMMA BucketsStay ==
  ASSUME RadixInv, pc \notin {"start", "permute", "sort_and_swap"}, DOMAIN tasks = {},
         \A t \in DOMAIN tasks' : ~tasks'[t].holding,
         UNCHANGED <<array, gh, gt>>
  PROVE  BucketsInv' /\ Exchanged
<1>1. Filled = array
  BY NothingInHand
<1>2. Filled' = Filled
  <2>1. PICK hands : hands = tasks'
    OBVIOUS
  <2>2. array \in [DOMAIN array -> Nat]
    BY ArrayShape DEF RadixInv
  <2>3. Fill(array, hands) = array
    BY <2>1, <2>2, FillNothing
  <2>4. QED BY <1>1, <2>1, <2>3, FilledIsFill
<1>3. Exchanged
  BY <1>2, NothingExchanged
<1>4. Layout /\ HeadsWithin /\ Placed
  BY DEF RadixInv, BucketsInv
<1>5. Layout' /\ Counts'
  BY <1>3, <1>4, LayoutStays, CountsStay
<1>6. Buckets' = Buckets /\ \A b : Lo(b)' = Lo(b)
  BY DEF Buckets, Lo
<1>7. HeadsWithin' /\ Placed'
  BY <1>4, <1>6 DEF HeadsWithin, Placed, InPlace, Byte
<1>8. QED BY <1>3, <1>5, <1>7 DEF BucketsInv

LEMMA PartitionBucketsKeeps ==
  ASSUME RadixInv, partition_buckets
  PROVE  RadixInv' /\ Exchanged
<1>1. /\ pc = "partition" /\ pc' = "permute" /\ UNCHANGED <<array, gh, gt, repairing, i>>
      /\ head' = [t \in Tids |-> [b \in Buckets |-> Cut(b, t)]]
      /\ tail' = [t \in Tids |-> [b \in Buckets |-> PartEnd(b, t)]]
      /\ tasks' = [t \in Tids |-> Task(0, Cut(0, t))]
  BY DEF partition_buckets
<1>2. /\ Types /\ Layout /\ HeadsWithin /\ DOMAIN tasks = {} /\ DOMAIN repairing = {}
  BY <1>1 DEF RadixInv, BucketsInv, Phases
<1>3. /\ Buckets' = Buckets /\ Top' = Top /\ Rows' = Rows
      /\ \A b, t : Cut(b, t)' = Cut(b, t) /\ PartEnd(b, t)' = PartEnd(b, t)
  BY <1>1 DEF Buckets, Top, Rows, Cut, PartEnd
<1>4. 0 \in Buckets
  BY <1>2 DEF Layout
<1>5. \A t \in Tids, b \in Buckets :
        Cut(b, t) \in Nat /\ PartEnd(b, t) \in Nat /\ Cut(b, t) <= PartEnd(b, t)
  <2> TAKE t \in Tids, b \in Buckets
  <2>1. gh[b] \in Nat /\ gt[b] \in Nat /\ gh[b] <= gt[b]
    BY <1>2, BucketFacts
  <2>2. QED BY <2>1, PartInBucket
<1>6. tasks' \in [DOMAIN tasks' -> TaskRecords] /\ \A t \in DOMAIN tasks' : ~tasks'[t].holding
  BY <1>1, <1>4, <1>5 DEF Task, TaskRecords
<1>7. BucketsInv' /\ Exchanged
  BY <1>1, <1>2, <1>6, BucketsStay
<1>8. head' \in Rows /\ tail' \in Rows
  BY <1>1, <1>5 DEF Rows
<1>9. ASSUME NEW t \in Tids, NEW b \in Buckets
      PROVE  PartBounds(b, t)' /\ PartFilled(b, t)'
  <2>1. head'[t][b] = Cut(b, t) /\ tail'[t][b] = PartEnd(b, t)
    BY <1>1
  <2>2. Cut(b, t) .. head'[t][b] - 1 = {}
    BY <1>5, <2>1
  <2>3. PartBounds(b, t)'
    BY <1>3, <1>5, <2>1 DEF PartBounds
  <2>4. PartFilled(b, t)'
    BY <1>3, <2>2 DEF PartFilled, InPlace
  <2>5. QED BY <2>3, <2>4
<1>10. ASSUME NEW t \in DOMAIN tasks'
       PROVE  InPart(t)'
  <2>1. t \in Tids /\ tasks'[t] = Task(0, Cut(0, t))
    BY <1>1
  <2>2. head'[t][0] = Cut(0, t) /\ tail'[t][0] = PartEnd(0, t)
    BY <1>1, <1>4, <2>1
  <2>3. Cut(0, t) \in Nat /\ Cut(0, t) <= PartEnd(0, t)
    BY <1>4, <1>5, <2>1
  <2>4. tasks'[t].bucket = 0 /\ tasks'[t].head = Cut(0, t) /\ ~tasks'[t].holding
    BY <2>1 DEF Task
  <2>5. QED BY <1>3, <1>4, <2>2, <2>3, <2>4 DEF InPart
<1>11. PermuteInv'
  BY <1>1, <1>3, <1>8, <1>9, <1>10 DEF PermuteInv
<1>12. Types'
  BY <1>1, <1>2, <1>3, <1>6 DEF Types, Rounds
<1>13. RepairInv' /\ SequentialInv' /\ Phases'
  BY <1>1, <1>2 DEF RepairInv, SequentialInv, Phases
<1>14. QED BY <1>7, <1>11, <1>12, <1>13 DEF RadixInv

LEMMA PermutedKeeps ==
  ASSUME RadixInv, Permuted
  PROVE  RadixInv' /\ Exchanged
<1>1. /\ pc = "permute" /\ DOMAIN tasks = {} /\ i' = 0 /\ pc' = "repair"
      /\ UNCHANGED <<array, gh, gt, head, tail, tasks, repairing>>
  BY DEF Permuted
<1>2. /\ Types /\ Layout /\ HeadsWithin /\ Placed /\ Counts /\ DOMAIN repairing = {}
      /\ head \in Rows /\ tail \in Rows
      /\ \A t \in Tids, b \in Buckets : PartBounds(b, t) /\ PartFilled(b, t)
  BY <1>1 DEF RadixInv, BucketsInv, PermuteInv, Phases
<1>3. /\ Buckets' = Buckets /\ Top' = Top /\ Rows' = Rows /\ Filled' = Filled
      /\ \A b : Lo(b)' = Lo(b)
      /\ \A b, t : Cut(b, t)' = Cut(b, t) /\ PartEnd(b, t)' = PartEnd(b, t)
  BY <1>1 DEF Buckets, Top, Rows, Cut, PartEnd, Lo, Filled
<1>4. Exchanged
  BY <1>3, NothingExchanged
<1>5. BucketsInv'
  <2>1. Layout' /\ Counts'
    BY <1>1, <1>2, <1>4, LayoutStays, CountsStay
  <2>2. HeadsWithin' /\ Placed'
    BY <1>1, <1>2, <1>3 DEF HeadsWithin, Placed, InPlace, Byte
  <2>3. QED BY <2>1, <2>2 DEF BucketsInv
<1>6. PICK max \in 0 .. 255 : Buckets = 0 .. max /\ Top = max + 1
  BY <1>2, TopFacts
<1>7. Types'
  <2>1. i' \in 0 .. Top'
    BY <1>1, <1>3, <1>6
  <2>2. QED BY <1>1, <1>2, <1>3, <2>1 DEF Types, Rounds
<1>8. \A t \in Tids, b \in Buckets : PartBounds(b, t)' /\ PartFilled(b, t)'
  BY <1>1, <1>2, <1>3 DEF PartBounds, PartFilled, InPlace, Byte
<1>9. \A t \in Tids, b \in Buckets :
        Lo(b) <= head[t][b] /\ head[t][b] <= tail[t][b] /\ tail[t][b] <= gt[b]
  <2> TAKE t \in Tids, b \in Buckets
  <2>1. gh[b] \in Nat /\ gt[b] \in Nat /\ gh[b] <= gt[b] /\ Lo(b) \in Nat /\ Lo(b) <= gh[b]
    BY <1>2, BucketFacts
  <2>2. head[t][b] \in Nat /\ tail[t][b] \in Nat
    BY <1>2 DEF Rows
  <2>3. QED BY <1>2, <2>1, <2>2, PartInBucket DEF PartBounds
<1>10. RepairInv'
  BY <1>1, <1>2, <1>3, <1>8, <1>9 DEF RepairInv, Unrepaired
<1>11. PermuteInv' /\ SequentialInv' /\ Phases'
  BY <1>1, <1>2 DEF PermuteInv, SequentialInv, Phases
<1>12. QED BY <1>4, <1>5, <1>7, <1>10, <1>11 DEF RadixInv

LEMMA RepairFacts ==
  ASSUME RadixInv, pc \in {"repair", "repair_next"}
  PROVE  /\ Types /\ Layout /\ HeadsWithin /\ Placed /\ Counts /\ DOMAIN tasks = {}
         /\ head \in Rows /\ tail \in Rows /\ i \in Nat
         /\ \A t \in Tids, b \in Buckets :
              Lo(b) <= head[t][b] /\ head[t][b] <= tail[t][b] /\ tail[t][b] <= gt[b]
         /\ pc = "repair_next" => i \in Buckets
         /\ \A b \in DOMAIN repairing : b \notin Unrepaired /\ b \in Buckets /\ b \in Nat
         /\ \A t \in Tids, b \in Unrepaired : PartBounds(b, t) /\ PartFilled(b, t)
         /\ i \in DOMAIN repairing => InRepair(repairing[i]) /\ pc = "repair_next" /\ i \in Buckets
         /\ \E max \in 0 .. 255 : Buckets = 0 .. max /\ Top = max + 1
<1>1. /\ Types /\ Layout /\ HeadsWithin /\ Placed /\ Counts /\ DOMAIN tasks = {} /\ RepairInv
  BY DEF RadixInv, BucketsInv, Phases
<1>2. PICK max \in 0 .. 255 : Buckets = 0 .. max /\ Top = max + 1
  BY <1>1, TopFacts
<1>3. i \in Nat /\ DOMAIN repairing \subseteq Buckets /\ \A b \in Buckets : b \in Nat
  BY <1>1, <1>2 DEF Types
<1>4. i \in DOMAIN repairing => pc = "repair_next"
  BY <1>1, <1>3 DEF RepairInv, Unrepaired
<1>5. QED BY <1>1, <1>2, <1>3, <1>4 DEF RepairInv

LEMMA CreateRepairKeeps ==
  ASSUME RadixInv, CreateRepair
  PROVE  RadixInv' /\ Exchanged
<1> DEFINE r == [tid |-> 0, head |-> head[0][i], tail |-> gt[i]]
<1>1. /\ pc = "repair" /\ i < Top /\ pc' = "repair_next"
      /\ repairing' = [b \in DOMAIN repairing \cup {i} |-> IF b = i THEN r ELSE repairing[b]]
      /\ UNCHANGED <<array, gh, gt, head, tail, tasks, i>>
  BY DEF CreateRepair
<1>2. /\ Types /\ Layout /\ HeadsWithin /\ DOMAIN tasks = {} /\ i \in Nat
      /\ head \in Rows /\ tail \in Rows
      /\ \A t \in Tids, b \in Unrepaired : PartBounds(b, t) /\ PartFilled(b, t)
      /\ \A b \in DOMAIN repairing : b \notin Unrepaired /\ b \in Buckets /\ b \in Nat
  BY <1>1, RepairFacts
<1>3. i \in Buckets /\ i \in Unrepaired
  <2>1. PICK max \in 0 .. 255 : Buckets = 0 .. max /\ Top = max + 1
    BY <1>2, TopFacts
  <2>2. QED BY <1>1, <1>2, <2>1 DEF Unrepaired
<1>4. /\ Buckets' = Buckets /\ Top' = Top /\ Rows' = Rows
      /\ \A b : Lo(b)' = Lo(b)
      /\ \A b, t : Cut(b, t)' = Cut(b, t) /\ PartEnd(b, t)' = PartEnd(b, t)
  BY <1>1 DEF Buckets, Top, Rows, Cut, PartEnd, Lo
<1>5. BucketsInv' /\ Exchanged
  BY <1>1, <1>2, BucketsStay
<1>6. Types'
  BY <1>1, <1>2, <1>3, <1>4 DEF Types, Rounds
<1>7. Unrepaired' \subseteq Unrepaired /\ i \notin Unrepaired'
  BY <1>1, <1>2, <1>4 DEF Unrepaired
<1>8. \A t \in Tids, b \in Unrepaired : PartBounds(b, t)' /\ PartFilled(b, t)'
  BY <1>1, <1>2, <1>4 DEF PartBounds, PartFilled, InPlace, Byte
<1>9. i \in DOMAIN repairing' /\ repairing'[i] = r
  BY <1>1
<1>10. InRepair(repairing[i])'
  <2>1. 0 \in Tids /\ \A t \in Tids : t \in Nat
    BY RadixAssumption DEF Tids
  <2>2. gh[i] \in Nat /\ gt[i] \in Nat /\ gh[i] <= gt[i]
    BY <1>2, <1>3, BucketFacts
  <2>3. Cut(i, 0) = gh[i]
    BY <2>1, <2>2, PartInBucket
  <2>4. head[0][i] \in Nat /\ gh[i] <= head[0][i] /\ head[0][i] <= tail[0][i]
    BY <1>2, <1>3, <2>1, <2>3 DEF PartBounds, Rows
  <2>5. r \in [tid : Tids, head : Nat, tail : Nat]
    BY <2>1, <2>2, <2>4
  <2>6. \A x \in gh[i] .. r.tail - 1 : x < r.head => Byte(x) = i
    <3>1. PartFilled(i, 0)
      BY <1>2, <1>3, <2>1
    <3>2. QED BY <2>2, <2>3, <2>4, <3>1 DEF PartFilled, InPlace
  <2>7. \A t \in Tids : \A x \in Cut(i, t) .. head[t][i] - 1 : Byte(x) = i
    BY <1>2, <1>3 DEF PartFilled, InPlace
  <2>8. \A x : Byte(x)' = Byte(x)
    BY <1>1 DEF Byte
  <2>9. \A t \in Tids : PartBounds(i, t)'
    <3>1. \A t \in Tids : PartBounds(i, t)
      BY <1>2, <1>3
    <3>2. QED BY <1>1, <1>4, <3>1 DEF PartBounds
  <2>10. i' = i /\ gh' = gh /\ gt' = gt /\ head' = head /\ tail' = tail
    BY <1>1
  <2> HIDE DEF r
  <2>11. PICK s : s = repairing'[i]
    OBVIOUS
  <2>12. s = r /\ r.tid = 0 /\ r.head = head[0][i] /\ r.tail = gt[i]
    BY <1>9, <2>11 DEF r
  <2>13. QED BY <1>4, <1>9, <2>2, <2>4, <2>5, <2>6, <2>7, <2>8, <2>9, <2>10, <2>12 DEF InRepair
<1>11. RepairInv'
  <2>1. \A b \in DOMAIN repairing' : b \notin Unrepaired'
    BY <1>1, <1>2, <1>7
  <2>2. \A t \in Tids, b \in Buckets :
          Lo(b) <= head[t][b] /\ head[t][b] <= tail[t][b] /\ tail[t][b] <= gt[b]
    BY <1>1, RepairFacts
  <2>3. InRepair(repairing[i])'
    BY <1>10
  <2> HIDE DEF r
  <2>4. QED BY <1>1, <1>2, <1>3, <1>4, <1>7, <1>8, <2>1, <2>2, <2>3 DEF RepairInv
<1>12. PermuteInv' /\ SequentialInv' /\ Phases'
  BY <1>1, <1>2 DEF PermuteInv, SequentialInv, Phases
<1>13. QED BY <1>5, <1>6, <1>11, <1>12 DEF RadixInv

LEMMA AdvanceKeeps ==
  ASSUME RadixInv, Advance
  PROVE  RadixInv' /\ Exchanged
<1>1. /\ pc = "repair_next" /\ i' = i + 1 /\ pc' = "repair"
      /\ UNCHANGED <<array, gh, gt, head, tail, tasks, repairing>>
  BY DEF Advance
<1>2. /\ Types /\ Layout /\ HeadsWithin /\ DOMAIN tasks = {} /\ i \in Nat /\ i \in Buckets
      /\ head \in Rows /\ tail \in Rows
      /\ \A t \in Tids, b \in Unrepaired : PartBounds(b, t) /\ PartFilled(b, t)
      /\ \A b \in DOMAIN repairing : b \notin Unrepaired /\ b \in Buckets /\ b \in Nat
      /\ \A t \in Tids, b \in Buckets :
           Lo(b) <= head[t][b] /\ head[t][b] <= tail[t][b] /\ tail[t][b] <= gt[b]
  BY <1>1, RepairFacts
<1>3. PICK max \in 0 .. 255 : Buckets = 0 .. max /\ Top = max + 1
  BY <1>2, TopFacts
<1>4. /\ Buckets' = Buckets /\ Top' = Top /\ Rows' = Rows
      /\ \A b : Lo(b)' = Lo(b)
      /\ \A b, t : Cut(b, t)' = Cut(b, t) /\ PartEnd(b, t)' = PartEnd(b, t)
  BY <1>1 DEF Buckets, Top, Rows, Cut, PartEnd, Lo
<1>5. BucketsInv' /\ Exchanged
  BY <1>1, <1>2, BucketsStay
<1>6. Types'
  <2>1. i' \in 0 .. Top'
    <3>1. i \in 0 .. max /\ i' = i + 1 /\ Top' = max + 1
      BY <1>1, <1>2, <1>3, <1>4
    <3>2. QED BY <3>1
  <2>2. QED BY <1>1, <1>2, <1>4, <2>1 DEF Types, Rounds
<1>7. /\ Unrepaired' \subseteq Unrepaired
      /\ \A b \in DOMAIN repairing : b \notin Unrepaired' /\ b # i'
  BY <1>1, <1>2, <1>3, <1>4 DEF Unrepaired
<1>8. \A t \in Tids, b \in Unrepaired : PartBounds(b, t)' /\ PartFilled(b, t)'
  BY <1>1, <1>2, <1>4 DEF PartBounds, PartFilled, InPlace, Byte
<1>9. RepairInv'
  BY <1>1, <1>2, <1>4, <1>7, <1>8 DEF RepairInv
<1>10. PermuteInv' /\ SequentialInv' /\ Phases'
  BY <1>1, <1>2 DEF PermuteInv, SequentialInv, Phases
<1>11. QED BY <1>5, <1>6, <1>9, <1>10 DEF RadixInv

LEMMA CheckKeeps ==
  ASSUME RadixInv, Check
  PROVE  RadixInv' /\ Exchanged
<1>1. /\ pc = "repair" /\ DOMAIN repairing = {}
      /\ pc' = (IF gh = gt THEN "return" ELSE "partition")
      /\ UNCHANGED <<array, gh, gt, head, tail, tasks, repairing, i>>
  BY DEF Check, Finished
<1>2. Types /\ DOMAIN tasks = {}
  BY <1>1, RepairFacts
<1>3. BucketsInv' /\ Exchanged
  BY <1>1, <1>2, BucketsStay
<1>4. Types'
  BY <1>1, <1>2 DEF Types, Buckets, Top
<1>5. PermuteInv' /\ RepairInv' /\ SequentialInv' /\ Phases'
  BY <1>1, <1>2 DEF PermuteInv, RepairInv, SequentialInv, Phases
<1>6. QED BY <1>3, <1>4, <1>5 DEF RadixInv

(***************************************************************************)
(* repair                                                                  *)
(***************************************************************************)
LEMMA InRepairFacts ==
  ASSUME RadixInv, NEW b, Repairing(b)
  PROVE  /\ pc = "repair_next" /\ b = i /\ b \in Buckets /\ b \in DOMAIN repairing
         /\ InRepair(repairing[b])
         /\ repairing[b].tid \in Tids /\ repairing[b].head \in Nat /\ repairing[b].tail \in Nat
         /\ gh[b] \in Nat /\ gt[b] \in Nat /\ gh[b] <= gt[b]
         /\ \A t \in Tids : head[t][b] \in Nat /\ tail[t][b] \in Nat
<1>1. b = i /\ b \in DOMAIN repairing /\ pc \in {"repair", "repair_next"}
  BY DEF Repairing, RadixInv, Phases
<1>2. InRepair(repairing[b]) /\ pc = "repair_next" /\ b \in Buckets /\ head \in Rows /\ tail \in Rows
  BY <1>1, RepairFacts
<1>3. Layout /\ HeadsWithin
  BY <1>1, RepairFacts
<1>4. QED BY <1>1, <1>2, <1>3, BucketFacts DEF InRepair, Rows

\* Exchanging elements of the bucket that is repaired disturbs no other.
LEMMA RepairKeeps ==
  ASSUME RadixInv, Repairing(i), UNCHANGED <<gh, gt, head, tail, tasks, i, pc>>,
         array' = array \/ \E x, y \in gh[i] .. gt[i] - 1 : array' = Swap(array, x, y),
         DOMAIN repairing' = DOMAIN repairing, InRepair(repairing[i])'
  PROVE  RadixInv' /\ Exchanged
<1>1. /\ pc = "repair_next" /\ i \in Buckets /\ i \in DOMAIN repairing
      /\ gh[i] \in Nat /\ gt[i] \in Nat
  BY InRepairFacts
<1>2. /\ Types /\ Layout /\ HeadsWithin /\ Placed /\ Counts /\ DOMAIN tasks = {}
      /\ head \in Rows /\ tail \in Rows /\ i \in Nat
      /\ \A t \in Tids, b \in Buckets :
           Lo(b) <= head[t][b] /\ head[t][b] <= tail[t][b] /\ tail[t][b] <= gt[b]
      /\ \A b \in DOMAIN repairing : b \notin Unrepaired /\ b \in Buckets
      /\ \A t \in Tids, b \in Unrepaired : PartBounds(b, t) /\ PartFilled(b, t)
  BY <1>1, RepairFacts
<1>3. /\ Buckets' = Buckets /\ Top' = Top /\ Rows' = Rows /\ Unrepaired' = Unrepaired
      /\ \A b : Lo(b)' = Lo(b)
      /\ \A b, t : Cut(b, t)' = Cut(b, t) /\ PartEnd(b, t)' = PartEnd(b, t)
  BY DEF Buckets, Top, Rows, Cut, PartEnd, Lo, Unrepaired
<1>4. array \in [DOMAIN array -> Value] /\ array \in [DOMAIN array -> Nat]
  BY <1>2, ArrayShape
<1>5. \A z \in gh[i] .. gt[i] - 1 : z \in DOMAIN array
  <2>1. Lo(i) .. gt[i] - 1 \subseteq DOMAIN array
    BY <1>1, <1>2 DEF Layout
  <2>2. Lo(i) \in Nat /\ Lo(i) <= gh[i]
    BY <1>1, <1>2, BucketFacts
  <2>3. QED BY <1>1, <2>1, <2>2
<1>6. /\ array' \in [DOMAIN array -> Value]
      /\ \A z \in DOMAIN array : z \notin gh[i] .. gt[i] - 1 => array'[z] = array[z]
  BY <1>4, <1>5 DEF Swap
<1>7. array' \in [DOMAIN array -> Nat]
  BY <1>6, RadixAssumption
<1>8. Exchanged
  <2>1. Filled = array
    BY <1>1, NothingInHand
  <2>2. Filled' = array'
    <3>1. PICK new, hands, D : new = array' /\ hands = tasks' /\ D = DOMAIN array
      OBVIOUS
    <3>2. new \in [D -> Nat] /\ \A t \in DOMAIN hands : ~hands[t].holding
      BY <1>2, <1>7, <3>1
    <3>3. Fill(new, hands) = new
      BY <3>2, FillNothing
    <3>4. QED BY <3>1, <3>3, FilledIsFill
  <2>3. CASE array' = array
    BY <2>1, <2>2, <2>3, NothingExchanged
  <2>4. CASE \E x, y \in gh[i] .. gt[i] - 1 : array' = Swap(array, x, y)
    <3>1. PICK x \in gh[i] .. gt[i] - 1, y \in gh[i] .. gt[i] - 1 : array' = Swap(array, x, y)
      BY <2>4
    <3>2. x \in DOMAIN array /\ y \in DOMAIN array
      BY <1>5
    <3>3. QED BY <2>1, <2>2, <3>1, <3>2 DEF Exchanged
  <2>5. QED BY <2>3, <2>4
<1>9. DOMAIN array' = DOMAIN array /\ \E n \in Sizes : array' \in [0 .. n - 1 -> Value]
  BY <1>2, <1>6, ArrayStays
<1>10. Layout' /\ Counts'
  BY <1>1, <1>2, <1>8, <1>9, LayoutStays, CountsStay
<1>11. ASSUME NEW c \in Buckets, NEW z \in Int, z < gt[c], Lo(c) <= z, c # i \/ z < gh[i]
       PROVE  Byte(z)' = Byte(z)
  <2>1. z \in DOMAIN array
    <3>1. Lo(c) .. gt[c] - 1 \subseteq DOMAIN array
      BY <1>2 DEF Layout
    <3>2. Lo(c) \in Nat /\ gt[c] \in Nat
      BY <1>2, BucketFacts
    <3>3. z \in Lo(c) .. gt[c] - 1
      BY <1>11, <3>2
    <3>4. QED BY <3>1, <3>3, Zenon
  <2>2. z \notin gh[i] .. gt[i] - 1
    <3>1. CASE c = i
      BY <1>1, <1>11, <3>1
    <3>2. CASE c # i
      <4>1. /\ c \in Nat /\ i \in Nat /\ Lo(c) \in Nat /\ gt[c] \in Nat /\ Lo(i) \in Nat
            /\ Lo(i) <= gh[i] /\ gh[i] \in Nat /\ gt[i] \in Nat
        <5>0. c \in 0 .. 255
          BY <1>2, BucketFacts
        <5>1. Lo(c) \in Nat /\ gt[c] \in Nat /\ c \in Nat
          BY <1>2, <5>0, BucketFacts
        <5>2. Lo(i) \in Nat /\ Lo(i) <= gh[i]
          BY <1>1, <1>2, BucketFacts
        <5>3. QED BY <1>1, <1>2, <5>1, <5>2
      <4>2. (c < i => gt[c] <= Lo(i)) /\ (i < c => gt[i] <= Lo(c))
        BY <1>1, <1>2 DEF Layout
      <4>3. QED BY <1>11, <3>2, <4>1, <4>2
    <3>3. QED BY <3>1, <3>2
  <2>3. QED BY <1>6, <2>1, <2>2 DEF Byte
<1>12. HeadsWithin' /\ Placed'
  <2>1. HeadsWithin'
    BY <1>2, <1>3 DEF HeadsWithin
  <2>2. ASSUME NEW c \in Buckets, NEW z \in Lo(c) .. gh[c] - 1
        PROVE  Byte(z)' = c
    <3>1. z \in Int /\ z < gt[c] /\ Lo(c) <= z /\ (c # i \/ z < gh[i])
      BY <1>2, BucketFacts
    <3>2. Byte(z)' = Byte(z)
      BY <1>11, <3>1
    <3>3. QED BY <1>2, <3>2 DEF Placed, InPlace
  <2>3. QED BY <1>3, <2>1, <2>2 DEF Placed, InPlace
<1>13. \A t \in Tids, c \in Unrepaired : PartBounds(c, t)' /\ PartFilled(c, t)'
  <2> TAKE t \in Tids, c \in Unrepaired
  <2>1. PartBounds(c, t) /\ PartFilled(c, t) /\ c \in Buckets /\ c # i
    BY <1>1, <1>2 DEF Unrepaired
  <2>2. PartBounds(c, t)'
    BY <1>3, <2>1 DEF PartBounds
  <2>3. ASSUME NEW z \in Cut(c, t) .. head[t][c] - 1
        PROVE  Byte(z)' = c
    <3>1. /\ Lo(c) \in Nat /\ gh[c] \in Nat /\ gt[c] \in Nat /\ Lo(c) <= gh[c] /\ gh[c] <= gt[c]
      BY <1>2, <2>1, BucketFacts
    <3>2. Cut(c, t) \in Nat /\ gh[c] <= Cut(c, t)
      BY <3>1, PartInBucket
    <3>3. head[t][c] \in Nat /\ tail[t][c] \in Nat /\ head[t][c] <= tail[t][c] /\ tail[t][c] <= gt[c]
      BY <1>2, <2>1 DEF Rows
    <3>4. z \in Int /\ z < gt[c] /\ Lo(c) <= z
      BY <3>1, <3>2, <3>3
    <3>5. Byte(z)' = Byte(z)
      BY <1>11, <2>1, <3>4
    <3>6. QED BY <2>1, <3>5 DEF PartFilled, InPlace
  <2>4. QED BY <1>3, <2>2, <2>3 DEF PartFilled, InPlace
<1>14. Types'
  BY <1>2, <1>3, <1>9 DEF Types
<1>15. RepairInv'
  BY <1>1, <1>2, <1>3, <1>13 DEF RepairInv
<1>16. PermuteInv' /\ SequentialInv' /\ Phases'
  BY <1>1, <1>2 DEF PermuteInv, SequentialInv, Phases
<1>17. QED BY <1>8, <1>10, <1>12, <1>14, <1>15, <1>16 DEF RadixInv, BucketsInv

LEMMA ExchangeableIs ==
  ASSUME RadixInv, NEW b, Repairing(b), Looking(b), Byte(repairing[b].head) # b
  PROVE  \/ /\ Exchangeable(b) = repairing[b].head
            /\ \A x \in repairing[b].head .. repairing[b].tail - 1 : Byte(x) # b
         \/ /\ Exchangeable(b) \in repairing[b].head + 1 .. repairing[b].tail - 1
            /\ Byte(Exchangeable(b)) = b
<1> DEFINE r == repairing[b]
           right == {x \in r.head .. r.tail - 1 : Byte(x) = b}
<1>1. r.head \in Nat /\ r.tail \in Nat /\ r.head < r.tail
  BY InRepairFacts DEF Looking
<1>2. Exchangeable(b) = IF right = {} THEN r.head ELSE CHOOSE x \in right : \A y \in right : y <= x
  BY DEF Exchangeable
<1>3. CASE right = {}
  BY <1>2, <1>3
<1>4. CASE right # {}
  <2>1. right \subseteq Nat /\ \A x \in right : x <= r.tail
    BY <1>1
  <2>2. r.head \notin right
    OBVIOUS
  <2>3. \A x \in right : x \in r.head .. r.tail - 1 /\ Byte(x) = b
    OBVIOUS
  <2>4. r.tail \in Nat
    BY <1>1
  <2> HIDE DEF r, right
  <2>5. \E x \in right : \A y \in right : y <= x
    BY <1>4, <2>1, <2>4, GreatestNat
  <2>6. Exchangeable(b) \in right
    BY <1>2, <1>4, <2>5
  <2>7. Exchangeable(b) \in r.head + 1 .. r.tail - 1 /\ Byte(Exchangeable(b)) = b
    BY <1>1, <2>2, <2>3, <2>6
  <2>8. QED BY <2>7 DEF r
<1>5. QED BY <1>3, <1>4

LEMMA LookKeeps ==
  ASSUME RadixInv, NEW b, Look(b)
  PROVE  RadixInv' /\ Exchanged
<1> DEFINE r == repairing[b]
           s == repairing'[b]
           e == Exchangeable(b)
<1>1. /\ Repairing(b) /\ Looking(b) /\ UNCHANGED <<gh, gt, head, tail, tasks, i, pc>>
      /\ \/ /\ Byte(r.head) = b /\ array' = array
            /\ repairing' = [repairing EXCEPT ![b].head = r.head + 1]
         \/ /\ Byte(r.head) # b /\ array' = Swap(array, r.head, e)
            /\ repairing' = [repairing EXCEPT ![b].head = r.head + 1, ![b].tail = e]
  BY DEF Look
<1>2. /\ b = i /\ i \in Buckets /\ i \in DOMAIN repairing /\ InRepair(r)
      /\ r.tid \in Tids /\ r.head \in Nat /\ r.tail \in Nat
      /\ gh[i] \in Nat /\ gt[i] \in Nat /\ pc = "repair_next"
      /\ \A t \in Tids : head[t][i] \in Nat /\ tail[t][i] \in Nat
  BY <1>1, InRepairFacts
<1>3. /\ gh[i] <= r.head /\ r.head < tail[r.tid][i] /\ r.head < r.tail /\ r.tail <= gt[i]
      /\ \A t \in Tids : PartBounds(i, t)
      /\ \A x \in gh[i] .. r.tail - 1 : x < r.head => Byte(x) = i
      /\ \A t \in Tids : t > r.tid =>
           \A x \in Cut(i, t) .. head[t][i] - 1 : x < r.tail => Byte(x) = i
      /\ r = [tid |-> r.tid, head |-> r.head, tail |-> r.tail]
  BY <1>1, <1>2 DEF Looking, InRepair
<1>4. DOMAIN repairing' = DOMAIN repairing
  BY <1>1
<1>5. Layout /\ HeadsWithin /\ array \in [DOMAIN array -> Nat] /\ Lo(i) \in Nat /\ Lo(i) <= gh[i]
      /\ \A z \in gh[i] .. gt[i] - 1 : z \in DOMAIN array
  <2>1. Layout /\ HeadsWithin /\ array \in [DOMAIN array -> Nat]
    BY <1>2, RepairFacts, ArrayShape
  <2>2. Lo(i) \in Nat /\ Lo(i) <= gh[i]
    BY <1>2, <2>1, BucketFacts
  <2>3. Lo(i) .. gt[i] - 1 \subseteq DOMAIN array
    BY <1>2, <2>1 DEF Layout
  <2>4. QED BY <1>2, <2>1, <2>2, <2>3
<1>6. \A t \in Tids : t > r.tid => Cut(i, t) \in Nat /\ r.head < Cut(i, t)
  <2> TAKE t \in Tids
  <2>1. gh[i] <= gt[i]
    BY <1>2, <1>3
  <2>2. r.tid < t => PartEnd(i, r.tid) <= Cut(i, t)
    BY <1>2, <2>1, PartInBucket
  <2>3. PartEnd(i, r.tid) \in Nat /\ Cut(i, t) \in Nat
    BY <1>2, <2>1, PartInBucket
  <2>4. r.head < PartEnd(i, r.tid)
    BY <1>2, <1>3 DEF PartBounds
  <2>5. t \in Int /\ r.tid \in Int
    BY <1>2 DEF Tids
  <2>6. QED BY <1>2, <2>2, <2>3, <2>4, <2>5
<1>7. /\ Tids' = Tids /\ i' = i /\ gh' = gh /\ gt' = gt /\ head' = head /\ tail' = tail
      /\ \A t : Cut(i, t)' = Cut(i, t) /\ (PartBounds(i, t)' <=> PartBounds(i, t))
  BY <1>1 DEF Tids, Cut, PartEnd, PartBounds
<1>8. CASE Byte(r.head) = b /\ array' = array /\ repairing' = [repairing EXCEPT ![b].head = r.head + 1]
  <2>1. s = [tid |-> r.tid, head |-> r.head + 1, tail |-> r.tail]
    BY <1>2, <1>3, <1>8
  <2>2. \A x : Byte(x)' = Byte(x)
    BY <1>8 DEF Byte
  <2>3. \A x \in gh[i] .. r.tail - 1 : x < r.head + 1 => Byte(x) = i
    BY <1>2, <1>3, <1>8
  <2>4. InRepair(repairing[i])'
    <3>1. s \in [tid : Tids, head : Nat, tail : Nat] /\ s.tid = r.tid /\ s.head = r.head + 1 /\ s.tail = r.tail
      BY <1>2, <2>1
    <3>2. /\ gh[i] <= r.head + 1 /\ r.head + 1 <= tail[r.tid][i]
          /\ gh[i] <= r.tail
      BY <1>2, <1>3
    <3> HIDE DEF s, r
    <3>3. s = repairing'[i]
      BY <1>2 DEF s
    <3>4. QED BY <1>3, <1>7, <2>2, <2>3, <3>1, <3>2, <3>3 DEF InRepair
  <2>5. Repairing(i)
    BY <1>1, <1>2
  <2>6. QED BY <1>1, <1>4, <1>8, <2>4, <2>5, RepairKeeps
<1>9. CASE /\ Byte(r.head) # b /\ array' = Swap(array, r.head, e)
           /\ repairing' = [repairing EXCEPT ![b].head = r.head + 1, ![b].tail = e]
  <2>1. s = [tid |-> r.tid, head |-> r.head + 1, tail |-> e]
    BY <1>2, <1>3, <1>9
  <2>2. \/ e = r.head
        \/ e \in r.head + 1 .. r.tail - 1 /\ Byte(e) = i
    BY <1>1, <1>2, <1>9, ExchangeableIs
  <2>3. e \in Nat /\ r.head <= e /\ e < r.tail /\ e < gt[i]
    BY <1>2, <1>3, <2>2
  <2>4. r.head \in gh[i] .. gt[i] - 1 /\ e \in gh[i] .. gt[i] - 1
    BY <1>2, <1>3, <2>3
  <2> HIDE DEF e
  <2>5. \A x \in DOMAIN array : array'[x] = IF x = e THEN array[r.head] ELSE IF x = r.head THEN array[e] ELSE array[x]
    BY <1>5, <1>9, <2>4 DEF Swap
  <2>6. \A x \in gh[i] .. e - 1 : x < r.head + 1 => Byte(x)' = i
    <3> SUFFICES ASSUME NEW x \in gh[i] .. e - 1, x < r.head + 1
                 PROVE  Byte(x)' = i
      OBVIOUS
    <3>1. x \in DOMAIN array /\ e \in DOMAIN array /\ x # e
      BY <1>2, <1>5, <2>3, <2>4
    <3>2. CASE x = r.head
      <4>1. array'[x] = array[e] /\ Byte(e) = i
        BY <2>2, <2>5, <3>1, <3>2
      <4>2. QED BY <4>1 DEF Byte
    <3>3. CASE x # r.head
      <4>1. array'[x] = array[x]
        BY <2>5, <3>1, <3>3
      <4>2. Byte(x) = i
        BY <1>2, <1>3, <2>3, <3>3
      <4>3. QED BY <4>1, <4>2 DEF Byte
    <3>4. QED BY <3>2, <3>3
  <2>7. ASSUME NEW t \in Tids, t > r.tid, NEW x \in Cut(i, t) .. head[t][i] - 1, x < e
        PROVE  Byte(x)' = i
    <3>1. Cut(i, t) \in Nat /\ r.head < Cut(i, t)
      BY <1>6, <2>7
    <3>2. head[t][i] \in Nat
      BY <1>2
    <3>3. x \in Int /\ r.head < x /\ x < r.tail /\ gh[i] <= x /\ x < gt[i]
      BY <1>2, <1>3, <2>3, <2>7, <3>1, <3>2
    <3>4. array'[x] = array[x]
      BY <1>2, <1>5, <2>3, <2>5, <2>7, <3>3
    <3>5. Byte(x) = i
      BY <1>3, <2>7, <3>3
    <3>6. QED BY <3>4, <3>5 DEF Byte
  <2>8. InRepair(repairing[i])'
    <3>1. s \in [tid : Tids, head : Nat, tail : Nat] /\ s.tid = r.tid /\ s.head = r.head + 1 /\ s.tail = e
      BY <1>2, <2>1, <2>3
    <3>2. /\ gh[i] <= r.head + 1 /\ r.head + 1 <= tail[r.tid][i]
          /\ gh[i] <= e /\ e <= gt[i]
      BY <1>2, <1>3, <2>3
    <3> HIDE DEF s, r
    <3>3. s = repairing'[i]
      BY <1>2 DEF s
    <3>4. QED BY <1>3, <1>7, <2>6, <2>7, <3>1, <3>2, <3>3 DEF InRepair
  <2>9. \E x, y \in gh[i] .. gt[i] - 1 : array' = Swap(array, x, y)
    BY <1>9, <2>4
  <2>10. Repairing(i)
    BY <1>1, <1>2
  <2>11. QED BY <1>1, <1>4, <2>8, <2>9, <2>10, RepairKeeps
<1>10. QED BY <1>1, <1>8, <1>9

LEMMA NextPartKeeps ==
  ASSUME RadixInv, NEW b, NextPart(b)
  PROVE  RadixInv' /\ Exchanged
<1> DEFINE r == repairing[b]
           s == repairing'[b]
           t == r.tid + 1
<1>1. /\ Repairing(b) /\ ~Looking(b) /\ UNCHANGED <<array, gh, gt, head, tail, tasks, i, pc>>
      /\ t \in Tids
      /\ repairing' = [repairing EXCEPT ![b].tid = t, ![b].head = head[t][b]]
  BY DEF NextPart
<1>2. /\ b = i /\ i \in Buckets /\ i \in DOMAIN repairing /\ InRepair(r)
      /\ r.tid \in Tids /\ r.head \in Nat /\ r.tail \in Nat
      /\ gh[i] \in Nat /\ gt[i] \in Nat /\ gh[i] <= gt[i] /\ pc = "repair_next"
      /\ \A u \in Tids : head[u][i] \in Nat /\ tail[u][i] \in Nat
  BY <1>1, InRepairFacts
<1>3. /\ gh[i] <= r.head /\ r.head <= tail[r.tid][i] /\ gh[i] <= r.tail /\ r.tail <= gt[i]
      /\ r.head >= tail[r.tid][i] \/ r.head >= r.tail
      /\ \A u \in Tids : PartBounds(i, u)
      /\ \A x \in gh[i] .. r.tail - 1 : x < r.head => Byte(x) = i
      /\ \A u \in Tids : u > r.tid =>
           \A x \in Cut(i, u) .. head[u][i] - 1 : x < r.tail => Byte(x) = i
      /\ r = [tid |-> r.tid, head |-> r.head, tail |-> r.tail]
  BY <1>1, <1>2 DEF Looking, InRepair
<1>4. /\ Tids' = Tids /\ i' = i /\ gh' = gh /\ gt' = gt /\ head' = head /\ tail' = tail
      /\ \A u : Cut(i, u)' = Cut(i, u) /\ (PartBounds(i, u)' <=> PartBounds(i, u))
      /\ \A x : Byte(x)' = Byte(x)
  BY <1>1 DEF Tids, Cut, PartEnd, PartBounds, Byte
<1>5. s = [tid |-> t, head |-> head[t][i], tail |-> r.tail]
  BY <1>1, <1>2, <1>3
<1>6. /\ r.tid \in Nat /\ t \in Nat /\ t > r.tid /\ \A u \in Tids : u \in Nat /\ (u > t => u > r.tid)
  BY <1>2 DEF Tids
<1>7. /\ tail[r.tid][i] = Cut(i, t) /\ Cut(i, t) \in Nat /\ gh[i] <= Cut(i, t)
      /\ Cut(i, t) <= head[t][i] /\ head[t][i] <= tail[t][i]
  <2>1. PartEnd(i, r.tid) = Cut(i, t)
    BY <1>2, PartInBucket
  <2>2. Cut(i, t) \in gh[i] .. gt[i]
    BY <1>1, <1>2, PartInBucket
  <2>3. QED BY <1>1, <1>2, <1>3, <2>1, <2>2 DEF PartBounds
<1>8. ASSUME NEW x \in gh[i] .. r.tail - 1, x < head[t][i]
      PROVE  Byte(x) = i
  <2>1. CASE x < r.head
    BY <1>3, <2>1
  <2>2. CASE ~(x < r.head)
    <3>1. x \in Cut(i, t) .. head[t][i] - 1 /\ x < r.tail
      BY <1>1, <1>2, <1>3, <1>7, <1>8, <2>2
    <3>2. QED BY <1>1, <1>3, <1>6, <3>1
  <2>3. QED BY <2>1, <2>2
<1>9. InRepair(repairing[i])'
  <2>0. head[t][i] \in Nat /\ t \in Tids /\ r.tail \in Nat
    BY <1>1, <1>2
  <2>1. s \in [tid : Tids, head : Nat, tail : Nat] /\ s.tid = t /\ s.head = head[t][i] /\ s.tail = r.tail
    <3> HIDE DEF s, r, t
    <3>1. QED BY <1>5, <2>0
  <2>2. gh[i] <= head[t][i]
    BY <1>1, <1>2, <1>7
  <2> HIDE DEF s, r, t
  <2>3. s = repairing'[i]
    BY <1>2 DEF s
  <2>4. QED BY <1>3, <1>4, <1>6, <1>7, <1>8, <2>1, <2>2, <2>3 DEF InRepair
<1>10. Repairing(i) /\ DOMAIN repairing' = DOMAIN repairing
  BY <1>1, <1>2
<1>11. QED BY <1>1, <1>9, <1>10, RepairKeeps

LEMMA FinishRepairKeeps ==
  ASSUME RadixInv, NEW b, FinishRepair(b)
  PROVE  RadixInv' /\ Exchanged
<1> DEFINE r == repairing[b]
<1>1. /\ Repairing(b) /\ ~Looking(b) /\ UNCHANGED <<array, gt, head, tail, tasks, i, pc>>
      /\ r.tid + 1 \notin Tids
      /\ gh' = [gh EXCEPT ![b] = r.tail]
      /\ repairing' = [c \in DOMAIN repairing \ {b} |-> repairing[c]]
  BY DEF FinishRepair, PlacedUpTo
<1>2. /\ b = i /\ i \in Buckets /\ i \in DOMAIN repairing /\ InRepair(r)
      /\ r.tid \in Tids /\ r.head \in Nat /\ r.tail \in Nat
      /\ gh[i] \in Nat /\ gt[i] \in Nat /\ gh[i] <= gt[i] /\ pc = "repair_next"
  BY <1>1, InRepairFacts
<1>3. /\ gh[i] <= r.tail /\ r.tail <= gt[i]
      /\ r.head >= tail[r.tid][i] \/ r.head >= r.tail
      /\ PartBounds(i, r.tid)
      /\ \A x \in gh[i] .. r.tail - 1 : x < r.head => Byte(x) = i
  <2>1. tail[r.tid][i] \in Nat
    BY <1>1, <1>2, InRepairFacts
  <2>2. /\ gh[i] <= r.tail /\ r.tail <= gt[i] /\ PartBounds(i, r.tid)
        /\ \A x \in gh[i] .. r.tail - 1 : x < r.head => Byte(x) = i
    BY <1>2 DEF InRepair
  <2>3. ~ (r.head < tail[r.tid][i] /\ r.head < r.tail)
    BY <1>1, <1>2 DEF Looking
  <2>4. QED BY <1>2, <2>1, <2>2, <2>3
<1>4. r.tail <= r.head
  <2>1. PartEnd(i, r.tid) = gt[i]
    BY <1>1, <1>2, PartInBucket
  <2>2. QED BY <1>2, <1>3, <2>1 DEF PartBounds
<1>5. /\ Types /\ Layout /\ HeadsWithin /\ Placed /\ Counts /\ DOMAIN tasks = {}
      /\ head \in Rows /\ tail \in Rows
      /\ \A t \in Tids, c \in Buckets :
           Lo(c) <= head[t][c] /\ head[t][c] <= tail[t][c] /\ tail[t][c] <= gt[c]
      /\ \A c \in DOMAIN repairing : c \notin Unrepaired
      /\ \A t \in Tids, c \in Unrepaired : PartBounds(c, t) /\ PartFilled(c, t)
  BY <1>2, RepairFacts
<1>6. /\ DOMAIN gh' = DOMAIN gh /\ Buckets' = Buckets /\ Top' = Top /\ Rows' = Rows
      /\ Unrepaired' = Unrepaired /\ i \notin Unrepaired
      /\ \A c : Lo(c)' = Lo(c) /\ Byte(c)' = Byte(c)
  BY <1>1, <1>2, <1>5 DEF Buckets, Top, Rows, Lo, Unrepaired, Byte
<1>7. gh'[i] = r.tail /\ \A c \in Buckets : c # i => gh'[c] = gh[c]
  BY <1>1, <1>2 DEF Buckets
<1>8. Exchanged /\ DOMAIN array' = DOMAIN array
  <2>1. Filled' = Filled
    BY <1>1 DEF Filled
  <2>2. QED BY <1>1, <2>1, NothingExchanged
<1>9. Layout' /\ Counts'
  BY <1>1, <1>2, <1>5, <1>6, <1>8, LayoutStays, CountsStay
<1>10. \A c \in Buckets : Lo(c) \in Nat /\ gh[c] \in Nat /\ gt[c] \in Nat /\ Lo(c) <= gh[c] /\ gh[c] <= gt[c]
  BY <1>5, BucketFacts
<1>11. HeadsWithin'
  <2>1. gh' \in [Buckets -> Nat]
    BY <1>1, <1>2, <1>5 DEF HeadsWithin
  <2>2. \A c \in Buckets : Lo(c) <= gh'[c] /\ gh'[c] <= gt[c]
    <3> TAKE c \in Buckets
    <3>1. CASE c = i
      BY <1>2, <1>3, <1>7, <1>10, <3>1
    <3>2. CASE c # i
      BY <1>7, <1>10, <3>2
    <3>3. QED BY <3>1, <3>2
  <2>3. QED BY <1>1, <1>6, <2>1, <2>2 DEF HeadsWithin
<1>12. Placed'
  <2>1. ASSUME NEW c \in Buckets, NEW x \in Lo(c) .. gh'[c] - 1
        PROVE  Byte(x) = c
    <3>1. CASE c = i /\ ~(x < gh[i])
      <4>1. x \in gh[i] .. r.tail - 1 /\ x < r.head
        BY <1>2, <1>4, <1>7, <1>10, <2>1, <3>1
      <4>2. QED BY <1>3, <3>1, <4>1
    <3>2. CASE c # i \/ x < gh[i]
      <4>1. x \in Lo(c) .. gh[c] - 1
        BY <1>2, <1>7, <1>10, <2>1, <3>2
      <4>2. QED BY <1>5, <4>1 DEF Placed, InPlace
    <3>3. QED BY <3>1, <3>2
  <2>2. QED BY <1>6, <2>1 DEF Placed, InPlace
<1>13. \A t \in Tids, c \in Unrepaired : PartBounds(c, t)' /\ PartFilled(c, t)'
  <2> TAKE t \in Tids, c \in Unrepaired
  <2>1. PartBounds(c, t) /\ PartFilled(c, t) /\ gh'[c] = gh[c]
    BY <1>5, <1>6, <1>7 DEF Unrepaired
  <2>2. Cut(c, t)' = Cut(c, t) /\ PartEnd(c, t)' = PartEnd(c, t)
    BY <1>1, <2>1 DEF Cut, PartEnd
  <2>3. QED BY <1>1, <1>6, <2>1, <2>2 DEF PartBounds, PartFilled, InPlace
<1>14. RepairInv'
  <2>1. DOMAIN repairing' \subseteq DOMAIN repairing /\ i \notin DOMAIN repairing'
    BY <1>1, <1>2
  <2>2. QED BY <1>1, <1>2, <1>5, <1>6, <1>13, <2>1 DEF RepairInv
<1>15. Types'
  BY <1>1, <1>2, <1>5, <1>6 DEF Types
<1>16. PermuteInv' /\ SequentialInv' /\ Phases'
  BY <1>1, <1>2, <1>5 DEF PermuteInv, SequentialInv, Phases
<1>17. QED BY <1>8, <1>9, <1>11, <1>12, <1>14, <1>15, <1>16 DEF RadixInv, BucketsInv

LEMMA RaceKeeps ==
  ASSUME RadixInv, NEW b, Race(b)
  PROVE  RadixInv' /\ Exchanged
<1>1. /\ pc \in {"repair", "repair_next"} /\ pc' = "raced"
      /\ UNCHANGED <<array, gh, gt, head, tail, tasks, repairing, i>>
  BY DEF Race, RadixInv, Phases
<1>2. DOMAIN tasks = {} /\ Types
  BY <1>1, RepairFacts
<1>3. BucketsInv' /\ Exchanged
  BY <1>1, <1>2, BucketsStay
<1>4. Types'
  BY <1>1, <1>2 DEF Types, Buckets, Top
<1>5. PermuteInv' /\ RepairInv' /\ SequentialInv' /\ Phases'
  BY <1>1, <1>2 DEF PermuteInv, RepairInv, SequentialInv, Phases
<1>6. QED BY <1>3, <1>4, <1>5 DEF RadixInv

LEMMA RepairStepKeeps ==
  ASSUME RadixInv, NEW b, RepairStep(b)
  PROVE  RadixInv' /\ Exchanged
BY LookKeeps, NextPartKeeps, FinishRepairKeeps, RaceKeeps DEF RepairStep

(***************************************************************************)
(* sort_and_swap: it never looks whether a bucket has room.  There is      *)
(* room, for otherwise the element in hand would be one more than there    *)
(* are of its byte.                                                        *)
(***************************************************************************)
LEMMA BucketIsFull ==
  ASSUME NEW D, IsFiniteSet(D), NEW a \in [D -> Nat], NEW b \in Nat, NEW lo \in Nat, NEW hi \in Nat,
         lo <= hi, HeadOf(a, b) = lo, TailOf(a, b) = hi,
         lo .. hi - 1 \subseteq D, \A x \in lo .. hi - 1 : get_byte_at(a[x]) = b,
         NEW h \in D, get_byte_at(a[h]) = b
  PROVE  h \in lo .. hi - 1
<1> DEFINE below == {x \in D : get_byte_at(a[x]) < b}
           upto == {x \in D : get_byte_at(a[x]) <= b}
           K == (lo .. hi - 1) \cup {h}
<1>1. DOMAIN a = D /\ \A x \in D : get_byte_at(a[x]) \in Nat
  BY ByteRange
<1>2. Cardinality(below) = lo /\ Cardinality(upto) = hi /\ IsFiniteSet(below) /\ IsFiniteSet(upto)
  BY <1>1, FS_Subset DEF HeadOf, TailOf
<1> SUFFICES ASSUME h \notin lo .. hi - 1
             PROVE  FALSE
  OBVIOUS
<1>3. IsFiniteSet(lo .. hi - 1) /\ Cardinality(lo .. hi - 1) = hi - lo
  <2>1. CASE lo <= hi - 1
    <3>1. PICK m \in Int : m = hi - 1
      OBVIOUS
    <3>2. IsFiniteSet(lo .. m) /\ Cardinality(lo .. m) = IF lo > m THEN 0 ELSE m - lo + 1
      <4>1. lo \in Int /\ m \in Int
        BY <3>1
      <4>2. QED BY <4>1, FS_Interval, Zenon
    <3>3. QED BY <2>1, <3>1, <3>2
  <2>2. CASE lo = hi
    <3>1. lo .. hi - 1 = {}
      BY <2>2
    <3>2. QED BY <2>2, <3>1, FS_EmptySet
  <2>3. QED BY <2>1, <2>2
<1>4. IsFiniteSet(K) /\ Cardinality(K) = hi - lo + 1
  <2>1. PICK I : I = lo .. hi - 1
    OBVIOUS
  <2>2. IsFiniteSet(I \cup {h}) /\ Cardinality(I \cup {h}) = Cardinality(I) + 1
    BY <1>3, <2>1, FS_AddElement
  <2>3. QED BY <1>3, <2>1, <2>2
<1>5. below \cap K = {} /\ below \cup K \subseteq upto
  BY <1>1
<1> HIDE DEF below, upto, K
<1>6. Cardinality(below \cup K) = lo + (hi - lo + 1)
  <2>1. Cardinality(below \cup K) = Cardinality(below) + Cardinality(K) - Cardinality(below \cap K)
    BY <1>2, <1>4, FS_Union
  <2>2. Cardinality(below \cap K) = 0
    BY <1>5, FS_EmptySet
  <2>3. QED BY <1>2, <1>4, <2>1, <2>2
<1>7. Cardinality(below \cup K) <= hi
  BY <1>2, <1>5, FS_Subset
<1>8. QED BY <1>6, <1>7

LEMMA SequentialFacts ==
  ASSUME RadixInv, pc = "sort_and_swap"
  PROVE  /\ Types /\ Layout /\ HeadsWithin /\ Placed /\ Counts
         /\ DOMAIN tasks = {0} /\ DOMAIN repairing = {} /\ Hand \in TaskRecords
         /\ Hand.bucket \in Buckets
         /\ Hand.holding => /\ Hand.head = gh[Hand.bucket] /\ gh[Hand.bucket] < gt[Hand.bucket]
                            /\ Hand.temp \in Value
         /\ \A b \in Buckets : b < Hand.bucket => gh[b] = gt[b]
         /\ array \in [DOMAIN array -> Value] /\ array \in [DOMAIN array -> Nat]
         /\ \A b \in Buckets : /\ b \in Nat /\ Lo(b) \in Nat /\ gh[b] \in Nat /\ gt[b] \in Nat
                               /\ Lo(b) <= gh[b] /\ gh[b] <= gt[b]
<1>1. /\ Types /\ Layout /\ HeadsWithin /\ Placed /\ Counts /\ SequentialInv /\ DOMAIN repairing = {}
  BY DEF RadixInv, BucketsInv, Phases
<1>2. DOMAIN tasks = {0} /\ Hand \in TaskRecords
  BY <1>1 DEF SequentialInv, Types, Hand
<1>3. \A b \in Buckets : /\ b \in Nat /\ Lo(b) \in Nat /\ gh[b] \in Nat /\ gt[b] \in Nat
                         /\ Lo(b) <= gh[b] /\ gh[b] <= gt[b]
  <2> TAKE b \in Buckets
  <2>1. b \in 0 .. 255
    BY <1>1, BucketFacts
  <2>2. QED BY <1>1, <2>1, BucketFacts
<1>4. array \in [DOMAIN array -> Value] /\ array \in [DOMAIN array -> Nat]
  BY <1>1, ArrayShape
<1>5. QED BY <1>1, <1>2, <1>3, <1>4 DEF SequentialInv

LEMMA RoomForHand ==
  ASSUME RadixInv, pc = "sort_and_swap", Hand.holding, NEW b, b = TempByte(0)
  PROVE  b \in Buckets /\ gh[b] < gt[b]
<1> DEFINE h == Hand.head
<1>1. /\ Layout /\ HeadsWithin /\ Placed /\ Counts /\ DOMAIN tasks = {0} /\ Hand.bucket \in Buckets
      /\ h = gh[Hand.bucket] /\ gh[Hand.bucket] < gt[Hand.bucket]
      /\ \A c \in Buckets : /\ c \in Nat /\ Lo(c) \in Nat /\ gh[c] \in Nat /\ gt[c] \in Nat
                            /\ Lo(c) <= gh[c] /\ gh[c] <= gt[c]
  BY SequentialFacts
<1>2. h \in DOMAIN array /\ Filled[h] = Hand.temp /\ b \in Buckets
  BY <1>1, InHand DEF Hand
<1>3. ASSUME gh[b] = gt[b]
      PROVE  FALSE
  <2>1. PICK F, D : F = Filled /\ D = DOMAIN array
    OBVIOUS
  <2>2. F \in [D -> Nat] /\ IsFiniteSet(D) /\ h \in D
    BY <1>2, <2>1, FilledShape, ArrayShape DEF RadixInv
  <2>3. HeadOf(F, b) = Lo(b) /\ TailOf(F, b) = gt[b] /\ Lo(b) .. gt[b] - 1 \subseteq D
    BY <1>1, <1>2, <2>1 DEF Counts, Layout
  <2>4. h \notin Lo(b) .. gt[b] - 1
    <3>1. CASE b = Hand.bucket
      BY <1>1, <1>3, <3>1
    <3>2. CASE b # Hand.bucket
      <4>1. (b < Hand.bucket => gt[b] <= Lo(Hand.bucket)) /\ (Hand.bucket < b => gt[Hand.bucket] <= Lo(b))
        BY <1>1, <1>2 DEF Layout
      <4>2. QED BY <1>1, <1>2, <3>2, <4>1
    <3>3. QED BY <3>1, <3>2
  <2>5. ASSUME NEW x \in Lo(b) .. gt[b] - 1
        PROVE  get_byte_at(F[x]) = b
    <3>1. x \in DOMAIN array /\ x # h
      BY <2>1, <2>3, <2>4, <2>5, Zenon
    <3>2. \A t \in DOMAIN tasks : ~ (tasks[t].holding /\ tasks[t].head = x)
      BY <1>1, <3>1 DEF Hand
    <3>3. Filled[x] = array[x]
      BY <3>1, <3>2, OneHolderNow, FillAt, FilledIsFill
    <3>4. Byte(x) = b
      BY <1>2, <1>1, <1>3 DEF Placed, InPlace
    <3>5. QED BY <2>1, <3>3, <3>4 DEF Byte
  <2>6. get_byte_at(F[h]) = b
    BY <1>2, <2>1 DEF TempByte, Hand
  <2>7. PICK lo, hi : lo = Lo(b) /\ hi = gt[b]
    OBVIOUS
  <2>8. /\ lo \in Nat /\ hi \in Nat /\ lo <= hi /\ b \in Nat
        /\ HeadOf(F, b) = lo /\ TailOf(F, b) = hi /\ lo .. hi - 1 \subseteq D
        /\ \A x \in lo .. hi - 1 : get_byte_at(F[x]) = b
    BY <1>1, <1>2, <2>3, <2>5, <2>7
  <2>9. h \in lo .. hi - 1
    <3> HIDE DEF h
    <3>1. QED BY <2>2, <2>6, <2>8, BucketIsFull
  <2>10. QED BY <2>4, <2>7, <2>9
<1>4. QED BY <1>1, <1>2, <1>3

LEMMA SequentialHand ==
  ASSUME RadixInv, pc = "sort_and_swap",
         NEW p \in DOMAIN array, NEW q \in DOMAIN array,
         DOMAIN tasks' = {0}, Hand.holding => Hand.head = p,
         tasks'[0].holding => tasks'[0].head = p,
         array' \in [DOMAIN array -> Value],
         \A x \in DOMAIN array : x # p /\ x # q => array'[x] = array[x],
         NEW old, old = IF Hand.holding THEN Hand.temp ELSE array[p],
         NEW new, new = IF tasks'[0].holding THEN tasks'[0].temp ELSE array'[p],
         p = q => new = old,
         p # q => new = array[q] /\ array'[q] = old
  PROVE  Exchanged
<1>1. PICK D, a, b, H, G : D = DOMAIN array /\ a = array /\ b = array' /\ H = tasks /\ G = tasks'
  OBVIOUS
<1>2. DOMAIN tasks = {0}
  BY SequentialFacts
<1>3. a \in [D -> Nat] /\ b \in [D -> Nat] /\ p \in D /\ q \in D
  BY <1>1, ArrayShape, RadixAssumption DEF RadixInv
<1>4. OneHolder(H) /\ OneHolder(G)
  BY <1>1, <1>2 DEF OneHolder
<1>5. HandStep(a, b, H, G, 0, p, q)
  BY <1>1, <1>2 DEF HandStep, AtHand, Hand
<1>6. Fill(b, G) = Swap(Fill(a, H), p, q)
  BY <1>3, <1>4, <1>5, FillStep
<1>7. Filled' = Swap(Filled, p, q)
  BY <1>1, <1>6, FilledIsFill
<1>8. QED BY <1>1, <1>3, <1>7 DEF Exchanged

LEMMA SequentialKeeps ==
  ASSUME RadixInv, pc = "sort_and_swap", UNCHANGED <<gt, head, tail, repairing, i, pc>>, Exchanged,
         array' \in [DOMAIN array -> Value], DOMAIN gh' = DOMAIN gh,
         HeadsWithin', Placed', tasks' \in [{0} -> TaskRecords], SequentialInv'
  PROVE  RadixInv'
<1>1. Types /\ Layout /\ DOMAIN repairing = {}
  BY SequentialFacts
<1>2. DOMAIN array' = DOMAIN array /\ \E n \in Sizes : array' \in [0 .. n - 1 -> Value]
  BY <1>1, ArrayStays
<1>3. Layout' /\ Counts'
  BY <1>1, <1>2, LayoutStays, CountsStay
<1>4. Types'
  BY <1>1, <1>2 DEF Types, Buckets, Top
<1>5. PermuteInv' /\ RepairInv' /\ Phases'
  BY <1>1 DEF PermuteInv, RepairInv, Phases
<1>6. QED BY <1>3, <1>4, <1>5 DEF RadixInv, BucketsInv

\* An element of byte b joins those that are in place.
Joins(b, q, v) ==
  /\ b \in Buckets /\ q = gh[b] /\ q < gt[b]
  /\ v \in Value /\ get_byte_at(v) = b
  /\ array' = [array EXCEPT ![q] = v] /\ gh' = [gh EXCEPT ![b] = @ + 1] /\ gt' = gt

LEMMA JoinsPlaced ==
  ASSUME RadixInv, pc = "sort_and_swap", NEW b, NEW q, NEW v, Joins(b, q, v)
  PROVE  /\ q \in DOMAIN array
         /\ array' \in [DOMAIN array -> Value] /\ array'[q] = v
         /\ \A x \in DOMAIN array : x # q => array'[x] = array[x]
         /\ DOMAIN gh' = DOMAIN gh /\ HeadsWithin' /\ Placed'
         /\ gh'[b] = q + 1 /\ \A c \in Buckets : c # b => gh'[c] = gh[c]
<1> USE DEF Joins
<1>1. /\ Layout /\ HeadsWithin /\ Placed /\ array \in [DOMAIN array -> Value]
      /\ \A c \in Buckets : /\ c \in Nat /\ Lo(c) \in Nat /\ gh[c] \in Nat /\ gt[c] \in Nat
                            /\ Lo(c) <= gh[c] /\ gh[c] <= gt[c]
  BY SequentialFacts
<1>2. \A c \in Buckets : \A x \in Lo(c) .. gt[c] - 1 : x \in DOMAIN array
  BY <1>1 DEF Layout
<1>3. q \in DOMAIN array
  <2>1. q \in Lo(b) .. gt[b] - 1
    BY <1>1
  <2>2. QED BY <1>2, <2>1, Zenon
<1>4. /\ array' \in [DOMAIN array -> Value] /\ array'[q] = v
      /\ \A x \in DOMAIN array : x # q => array'[x] = array[x]
  BY <1>1, <1>3
<1>5. gh'[b] = q + 1 /\ \A c \in Buckets : c # b => gh'[c] = gh[c]
  BY DEF Buckets
<1>6. gh' \in [Buckets -> Nat] /\ DOMAIN gh' = DOMAIN gh
  BY <1>1 DEF HeadsWithin
<1>7. Buckets' = Buckets /\ \A c : Lo(c)' = Lo(c)
  BY DEF Buckets, Lo
<1>8. \A c \in Buckets : Lo(c) <= gh'[c] /\ gh'[c] <= gt[c]
  <2> TAKE c \in Buckets
  <2>1. CASE c = b
    BY <1>1, <1>5, <2>1
  <2>2. CASE c # b
    BY <1>1, <1>5, <2>2
  <2>3. QED BY <2>1, <2>2
<1>9. HeadsWithin'
  BY <1>6, <1>7, <1>8 DEF HeadsWithin
<1>10. ASSUME NEW c \in Buckets, NEW x \in Lo(c) .. gh'[c] - 1
       PROVE  get_byte_at(array'[x]) = c
  <2>1. CASE c = b /\ x = q
    BY <1>4, <2>1
  <2>2. CASE ~ (c = b /\ x = q)
    <3>1. x \in Lo(c) .. gh[c] - 1
      <4>1. CASE c = b
        BY <1>1, <1>5, <2>2, <4>1
      <4>2. CASE c # b
        BY <1>5, <4>2
      <4>3. QED BY <4>1, <4>2
    <3>2. x \in DOMAIN array
      <4>1. x \in Lo(c) .. gt[c] - 1
        BY <1>1, <3>1
      <4>2. QED BY <1>2, <4>1, Zenon
    <3>3. x # q
      <4>1. CASE c = b
        BY <2>2, <4>1
      <4>2. CASE c # b
        <5>1. (c < b => gt[c] <= Lo(b)) /\ (b < c => gt[b] <= Lo(c))
          BY <1>1 DEF Layout
        <5>2. QED BY <1>1, <3>1, <4>2, <5>1
      <4>3. QED BY <4>1, <4>2
    <3>4. array'[x] = array[x]
      BY <1>4, <3>2, <3>3
    <3>5. QED BY <1>1, <3>1, <3>4 DEF Placed, InPlace, Byte
  <2>3. QED BY <2>1, <2>2
<1>11. Placed'
  BY <1>7, <1>10 DEF Placed, InPlace, Byte
<1>12. QED BY <1>3, <1>4, <1>5, <1>6, <1>9, <1>11

LEMMA SeqPickUpKeeps ==
  ASSUME RadixInv, SeqPickUp
  PROVE  RadixInv' /\ Exchanged
<1> DEFINE b == Hand.bucket
           p == gh[b]
<1>1. /\ pc = "sort_and_swap" /\ ~Hand.holding /\ p < gt[b]
      /\ tasks' = [t \in {0} |-> [Hand EXCEPT !.holding = TRUE, !.head = p, !.temp = array[p]]]
      /\ UNCHANGED <<array, gh, gt, head, tail, repairing, i, pc>>
  BY DEF SeqPickUp, Sequential, SeqRest
<1>2. /\ Hand \in TaskRecords /\ b \in Buckets /\ p \in Nat /\ Lo(b) \in Nat /\ gt[b] \in Nat /\ Lo(b) <= p
      /\ Layout /\ HeadsWithin /\ Placed /\ Lo(b) .. gt[b] - 1 \subseteq DOMAIN array
      /\ array \in [DOMAIN array -> Value] /\ array \in [DOMAIN array -> Nat]
      /\ \A c \in Buckets : c < b => gh[c] = gt[c]
  BY <1>1, SequentialFacts DEF Layout
<1>3. p \in DOMAIN array
  <2>1. p \in Lo(b) .. gt[b] - 1
    BY <1>1, <1>2
  <2>2. QED BY <1>2, <2>1, Zenon
<1>4. DOMAIN tasks' = {0} /\ tasks'[0] = [bucket |-> b, head |-> p, holding |-> TRUE, temp |-> array[p]]
  BY <1>1, <1>2 DEF TaskRecords
<1>5. tasks' \in [{0} -> TaskRecords]
  <2>1. [bucket |-> b, head |-> p, holding |-> TRUE, temp |-> array[p]] \in TaskRecords
    <3>1. b \in Nat /\ array[p] \in Nat
      BY <1>2, <1>3 DEF TaskRecords
    <3>2. QED BY <1>2, <3>1 DEF TaskRecords
  <2>2. tasks' = [t \in {0} |-> tasks'[0]]
    BY <1>1
  <2>3. QED BY <1>4, <2>1, <2>2
<1>6. /\ tasks'[0].bucket = b /\ tasks'[0].head = p /\ tasks'[0].holding /\ tasks'[0].temp = array[p]
  BY <1>4
<1>7. Exchanged
  <2>1. PICK v : v = array[p]
    OBVIOUS
  <2> HIDE DEF p, b
  <2>2. v = (IF Hand.holding THEN Hand.temp ELSE array[p])
    BY <1>1, <2>1
  <2>3. v = (IF tasks'[0].holding THEN tasks'[0].temp ELSE array'[p])
    BY <1>6, <2>1
  <2>4. /\ array' \in [DOMAIN array -> Value] /\ \A x \in DOMAIN array : array'[x] = array[x]
        /\ tasks'[0].holding => tasks'[0].head = p
        /\ Hand.holding => Hand.head = p
    BY <1>1, <1>2, <1>6
  <2>5. QED BY <1>1, <1>3, <1>4, <2>2, <2>3, <2>4, SequentialHand
<1>8. Buckets' = Buckets /\ Rows' = Rows /\ \A c : Lo(c)' = Lo(c)
  BY <1>1 DEF Buckets, Rows, Lo
<1>9. HeadsWithin' /\ Placed'
  <2>1. HeadsWithin'
    BY <1>1, <1>2, <1>8 DEF HeadsWithin
  <2>2. \A x : Byte(x)' = Byte(x)
    BY <1>1 DEF Byte
  <2>3. Placed'
    BY <1>1, <1>2, <1>8, <2>2 DEF Placed, InPlace
  <2>4. QED BY <2>1, <2>3
<1>10. SequentialInv'
  <2>1. array[p] \in Value
    BY <1>2, <1>3
  <2>2. QED BY <1>1, <1>2, <1>4, <1>6, <1>8, <2>1, ZenonT(30) DEF SequentialInv, Hand
<1>11. QED BY <1>1, <1>2, <1>5, <1>7, <1>9, <1>10, SequentialKeeps

LEMMA SeqSwapOutKeeps ==
  ASSUME RadixInv, SeqSwapOut
  PROVE  RadixInv' /\ Exchanged
<1> DEFINE h == Hand.bucket
           p == gh[h]
           b == TempByte(0)
           q == gh[b]
<1>1. /\ pc = "sort_and_swap" /\ Hand.holding /\ b # h
      /\ tasks' = [t \in {0} |-> [Hand EXCEPT !.temp = array[q]]]
      /\ array' = [array EXCEPT ![q] = Hand.temp]
      /\ gh' = [gh EXCEPT ![b] = @ + 1]
      /\ UNCHANGED <<gt, head, tail, repairing, i, pc>>
  BY DEF SeqSwapOut, Sequential, SeqRest
<1>2. /\ Hand \in TaskRecords /\ h \in Buckets /\ Hand.head = p /\ p < gt[h] /\ Hand.temp \in Value
      /\ array \in [DOMAIN array -> Value] /\ array \in [DOMAIN array -> Nat] /\ DOMAIN tasks = {0}
      /\ \A c \in Buckets : c < h => gh[c] = gt[c]
      /\ \A c \in Buckets : c \in Nat /\ gh[c] \in Nat /\ gt[c] \in Nat
  BY <1>1, SequentialFacts
<1>3. b \in Buckets /\ q < gt[b] /\ get_byte_at(Hand.temp) = b
  BY <1>1, RoomForHand DEF TempByte, Hand
<1>4. /\ q \in DOMAIN array
      /\ array' \in [DOMAIN array -> Value] /\ array'[q] = Hand.temp
      /\ \A x \in DOMAIN array : x # q => array'[x] = array[x]
      /\ DOMAIN gh' = DOMAIN gh /\ HeadsWithin' /\ Placed'
      /\ gh'[b] = q + 1 /\ \A c \in Buckets : c # b => gh'[c] = gh[c]
  <2>1. PICK v : v = Hand.temp
    OBVIOUS
  <2>2. q = gh[b]
    OBVIOUS
  <2> HIDE DEF p, q, b, h
  <2>3. v \in Value /\ get_byte_at(v) = b /\ array' = [array EXCEPT ![q] = v]
    BY <1>1, <1>2, <1>3, <2>1
  <2>4. Joins(b, q, v)
    BY <1>1, <1>3, <2>2, <2>3 DEF Joins
  <2>5. QED BY <1>1, <2>1, <2>4, JoinsPlaced
<1>5. p \in DOMAIN array /\ p # q
  <2>1. p \in DOMAIN array
    BY <1>1, <1>2, InHand DEF Hand
  <2>2. (b < h => gt[b] <= Lo(h)) /\ (h < b => gt[h] <= Lo(b)) /\ Lo(h) <= p /\ Lo(b) <= q
        /\ Lo(h) \in Nat /\ Lo(b) \in Nat
    BY <1>1, <1>2, <1>3, SequentialFacts DEF Layout
  <2>3. b \in Nat /\ h \in Nat /\ p \in Nat /\ q \in Nat /\ gt[b] \in Nat /\ gt[h] \in Nat
    BY <1>2, <1>3
  <2>4. p # q
    BY <1>1, <1>2, <1>3, <2>2, <2>3
  <2>5. QED BY <2>1, <2>4
<1>6. DOMAIN tasks' = {0} /\ tasks'[0] = [bucket |-> h, head |-> p, holding |-> TRUE, temp |-> array[q]]
  BY <1>1, <1>2 DEF TaskRecords
<1>7. tasks' \in [{0} -> TaskRecords]
  <2>1. [bucket |-> h, head |-> p, holding |-> TRUE, temp |-> array[q]] \in TaskRecords
    <3>1. h \in Nat /\ p \in Nat /\ array[q] \in Nat
      BY <1>2, <1>4
    <3>2. QED BY <3>1 DEF TaskRecords
  <2>2. tasks' = [t \in {0} |-> tasks'[0]]
    BY <1>1
  <2>3. QED BY <1>6, <2>1, <2>2
<1>8. tasks'[0].bucket = h /\ tasks'[0].head = p /\ tasks'[0].holding /\ tasks'[0].temp = array[q]
  BY <1>6
<1>9. Exchanged
  <2>1. PICK old, new : old = Hand.temp /\ new = array[q]
    OBVIOUS
  <2> HIDE DEF p, q, b, h
  <2>2. old = (IF Hand.holding THEN Hand.temp ELSE array[p])
    BY <1>1, <2>1
  <2>3. new = (IF tasks'[0].holding THEN tasks'[0].temp ELSE array'[p])
    BY <1>8, <2>1
  <2>4. /\ \A x \in DOMAIN array : x # p /\ x # q => array'[x] = array[x]
        /\ tasks'[0].holding => tasks'[0].head = p
        /\ Hand.holding => Hand.head = p
    BY <1>2, <1>4, <1>8
  <2>5. (p = q => new = old) /\ (p # q => new = array[q] /\ array'[q] = old)
    BY <1>4, <1>5, <2>1
  <2>6. QED BY <1>1, <1>4, <1>5, <1>6, <2>2, <2>3, <2>4, <2>5, SequentialHand
<1>10. SequentialInv'
  <2>1. Buckets' = Buckets /\ array[q] \in Value
    BY <1>1, <1>2, <1>4 DEF Buckets
  <2>2. gh'[h] = p
    BY <1>1, <1>2, <1>4
  <2>3. \A c \in Buckets : c < h => gh'[c] = gt[c]
    <3> SUFFICES ASSUME NEW c \in Buckets, c < h
                 PROVE  gh'[c] = gt[c]
      OBVIOUS
    <3>1. gh[c] = gt[c] /\ gt[c] \in Nat
      BY <1>2
    <3>2. c # b
      BY <1>3, <3>1
    <3>3. QED BY <1>4, <3>1, <3>2
  <2> HIDE DEF p, q, b, h
  <2>4. h \in Buckets /\ p < gt[h] /\ gt' = gt
    BY <1>1, <1>2
  <2>5. QED BY <1>6, <1>8, <2>1, <2>2, <2>3, <2>4 DEF SequentialInv, Hand
<1>11. QED BY <1>1, <1>4, <1>7, <1>9, <1>10, SequentialKeeps

LEMMA SeqPutHomeKeeps ==
  ASSUME RadixInv, SeqPutHome
  PROVE  RadixInv' /\ Exchanged
<1> DEFINE b == Hand.bucket
           p == gh[b]
<1>1. /\ pc = "sort_and_swap" /\ Hand.holding /\ TempByte(0) = b
      /\ array' = [array EXCEPT ![p] = Hand.temp]
      /\ gh' = [gh EXCEPT ![b] = @ + 1]
      /\ tasks' = [t \in {0} |-> [Hand EXCEPT !.holding = FALSE]]
      /\ UNCHANGED <<gt, head, tail, repairing, i, pc>>
  BY DEF SeqPutHome, Sequential, SeqRest
<1>2. /\ Hand \in TaskRecords /\ b \in Buckets /\ Hand.head = p /\ p < gt[b] /\ Hand.temp \in Value
      /\ \A c \in Buckets : c < b => gh[c] = gt[c]
      /\ \A c \in Buckets : c \in Nat /\ gh[c] \in Nat /\ gt[c] \in Nat
  BY <1>1, SequentialFacts
<1>3. get_byte_at(Hand.temp) = b
  BY <1>1 DEF TempByte, Hand
<1>4. /\ p \in DOMAIN array
      /\ array' \in [DOMAIN array -> Value] /\ array'[p] = Hand.temp
      /\ \A x \in DOMAIN array : x # p => array'[x] = array[x]
      /\ DOMAIN gh' = DOMAIN gh /\ HeadsWithin' /\ Placed'
      /\ gh'[b] = p + 1 /\ \A c \in Buckets : c # b => gh'[c] = gh[c]
  <2>1. PICK v : v = Hand.temp
    OBVIOUS
  <2>2. p = gh[b]
    OBVIOUS
  <2> HIDE DEF p, b
  <2>3. v \in Value /\ get_byte_at(v) = b /\ array' = [array EXCEPT ![p] = v]
    BY <1>1, <1>2, <1>3, <2>1
  <2>4. Joins(b, p, v)
    BY <1>1, <1>2, <2>2, <2>3 DEF Joins
  <2>5. QED BY <1>1, <2>1, <2>4, JoinsPlaced
<1>5. DOMAIN tasks' = {0} /\ tasks'[0] = [bucket |-> b, head |-> p, holding |-> FALSE, temp |-> Hand.temp]
  BY <1>1, <1>2 DEF TaskRecords
<1>6. tasks' \in [{0} -> TaskRecords]
  <2>1. [bucket |-> b, head |-> p, holding |-> FALSE, temp |-> Hand.temp] \in TaskRecords
    BY <1>2 DEF TaskRecords
  <2>2. tasks' = [t \in {0} |-> tasks'[0]]
    BY <1>1
  <2>3. QED BY <1>5, <2>1, <2>2
<1>7. tasks'[0].bucket = b /\ ~tasks'[0].holding
  BY <1>5
<1>8. Exchanged
  <2>1. PICK v : v = Hand.temp
    OBVIOUS
  <2> HIDE DEF p, b
  <2>2. v = (IF Hand.holding THEN Hand.temp ELSE array[p])
    BY <1>1, <2>1
  <2>3. v = (IF tasks'[0].holding THEN tasks'[0].temp ELSE array'[p])
    BY <1>4, <1>7, <2>1
  <2>4. QED BY <1>1, <1>2, <1>4, <1>5, <1>7, <2>2, <2>3, SequentialHand
<1>9. SequentialInv'
  <2>1. Buckets' = Buckets
    BY <1>4 DEF Buckets
  <2>2. \A c \in Buckets : c < b => gh'[c] = gt[c]
    BY <1>2, <1>4
  <2> HIDE DEF p, b
  <2>3. b \in Buckets /\ gt' = gt
    BY <1>1, <1>2
  <2>4. QED BY <1>5, <1>7, <2>1, <2>2, <2>3 DEF SequentialInv, Hand
<1>10. QED BY <1>1, <1>4, <1>6, <1>8, <1>9, SequentialKeeps

LEMMA SeqNextBucketKeeps ==
  ASSUME RadixInv, SeqNextBucket
  PROVE  RadixInv' /\ Exchanged
<1> DEFINE b == Hand.bucket
<1>1. /\ pc = "sort_and_swap" /\ ~Hand.holding /\ gh[b] >= gt[b]
      /\ \/ b + 1 \in Buckets /\ tasks' = [t \in {0} |-> Task(b + 1, 0)] /\ pc' = pc
         \/ b + 1 \notin Buckets /\ tasks' = <<>> /\ pc' = "return"
      /\ UNCHANGED <<array, gh, gt, head, tail, repairing, i>>
  BY DEF SeqNextBucket, Sequential, SeqRest
<1>2. /\ Types /\ Layout /\ HeadsWithin /\ Placed /\ DOMAIN tasks = {0} /\ DOMAIN repairing = {}
      /\ Hand \in TaskRecords /\ b \in Buckets
      /\ array \in [DOMAIN array -> Value] /\ array \in [DOMAIN array -> Nat]
      /\ \A c \in Buckets : c < b => gh[c] = gt[c]
      /\ \A c \in Buckets : c \in Nat /\ gh[c] \in Nat /\ gt[c] \in Nat /\ gh[c] <= gt[c]
  BY <1>1, SequentialFacts
<1>3. \A t \in DOMAIN tasks' : ~tasks'[t].holding
  BY <1>1 DEF Task
<1>4. Exchanged
  <2>1. \A t \in DOMAIN tasks : ~tasks[t].holding
    BY <1>1, <1>2 DEF Hand
  <2>2. Filled = array
    BY <1>2, <2>1, FillNothing, FilledIsFill
  <2>3. PICK new, hands, D : new = array' /\ hands = tasks' /\ D = DOMAIN array
    OBVIOUS
  <2>4. new \in [D -> Nat] /\ \A t \in DOMAIN hands : ~hands[t].holding
    BY <1>1, <1>2, <1>3, <2>3
  <2>5. Fill(new, hands) = new
    BY <2>4, FillNothing
  <2>6. Filled' = array'
    BY <2>3, <2>5, FilledIsFill
  <2>7. QED BY <1>1, <2>2, <2>6, NothingExchanged
<1>5. Buckets' = Buckets /\ Rows' = Rows /\ Top' = Top /\ \A c : Lo(c)' = Lo(c)
  BY <1>1 DEF Buckets, Rows, Lo, Top
<1>6. HeadsWithin' /\ Placed'
  BY <1>1, <1>2, <1>5 DEF HeadsWithin, Placed, InPlace, Byte
<1>7. gh[b] = gt[b]
  BY <1>1, <1>2
<1>8. CASE b + 1 \in Buckets /\ tasks' = [t \in {0} |-> Task(b + 1, 0)] /\ pc' = pc
  <2>1. b \in Nat
    BY <1>2
  <2>2. Task(b + 1, 0) = [bucket |-> b + 1, head |-> 0, holding |-> FALSE, temp |-> 0]
    BY DEF Task
  <2>3. tasks'[0] = Task(b + 1, 0) /\ DOMAIN tasks' = {0} /\ tasks' \in [{0} -> TaskRecords]
    <3>1. Task(b + 1, 0) \in TaskRecords
      <4>1. PICK n \in Nat : n = b + 1
        BY <2>1
      <4>2. [bucket |-> n, head |-> 0, holding |-> FALSE, temp |-> 0] \in TaskRecords
        BY DEF TaskRecords
      <4>3. QED BY <2>2, <4>1, <4>2
    <3>2. QED BY <1>8, <3>1
  <2>4. tasks'[0].bucket = b + 1 /\ ~tasks'[0].holding
    BY <2>2, <2>3
  <2>5. \A c \in Buckets : c < b + 1 => gh[c] = gt[c]
    <3> SUFFICES ASSUME NEW c \in Buckets, c < b + 1
                 PROVE  gh[c] = gt[c]
      OBVIOUS
    <3>1. c \in Nat
      BY <1>2
    <3>2. c < b \/ c = b
      BY <2>1, <3>1
    <3>3. QED BY <1>2, <1>7, <3>2
  <2> HIDE DEF b
  <2>6. SequentialInv'
    BY <1>1, <1>5, <1>8, <2>3, <2>4, <2>5 DEF SequentialInv, Hand
  <2>7. QED BY <1>1, <1>2, <1>4, <1>6, <1>8, <2>3, <2>6, SequentialKeeps
<1>9. CASE b + 1 \notin Buckets /\ tasks' = <<>> /\ pc' = "return"
  <2>1. gh = gt
    <3>1. PICK max \in 0 .. 255 : Buckets = 0 .. max
      BY <1>2 DEF Layout
    <3>2. ASSUME NEW c \in Buckets
          PROVE  c < b \/ c = b
      <4>1. c \in 0 .. max /\ b \in 0 .. max /\ b + 1 \notin 0 .. max
        BY <1>2, <1>9, <3>1
      <4>2. QED BY <4>1
    <3>3. \A c \in Buckets : gh[c] = gt[c]
      BY <1>2, <1>7, <3>2
    <3>4. gh \in [Buckets -> Nat] /\ gt \in [Buckets -> Nat]
      BY <1>2 DEF HeadsWithin, Layout
    <3>5. QED BY <3>3, <3>4
  <2>2. DOMAIN tasks' = {} /\ tasks' \in [DOMAIN tasks' -> TaskRecords]
    BY <1>9
  <2>3. Layout' /\ Counts'
    BY <1>1, <1>2, <1>4, LayoutStays, CountsStay
  <2>4. Types'
    BY <1>1, <1>2, <1>5, <1>9, <2>2 DEF Types
  <2>5. PermuteInv' /\ RepairInv' /\ SequentialInv' /\ Phases'
    BY <1>1, <1>2, <1>9, <2>1, <2>2 DEF PermuteInv, RepairInv, SequentialInv, Phases
  <2>6. QED BY <1>4, <1>6, <2>3, <2>4, <2>5 DEF RadixInv, BucketsInv
<1>10. QED BY <1>1, <1>8, <1>9

LEMMA RadixStutters ==
  ASSUME RadixInv, UNCHANGED vars
  PROVE  RadixInv'
<1>1. UNCHANGED <<array, gh, gt, head, tail, tasks, repairing, i, pc>>
  BY DEF vars
<1>2. Buckets' = Buckets /\ Top' = Top /\ Rows' = Rows /\ Filled' = Filled
  BY <1>1 DEF Buckets, Top, Rows, Filled
<1>3. /\ \A b : Lo(b)' = Lo(b)
      /\ \A b, t : Cut(b, t)' = Cut(b, t) /\ PartEnd(b, t)' = PartEnd(b, t)
      /\ \A x : Byte(x)' = Byte(x)
  BY <1>1 DEF Lo, Cut, PartEnd, Byte
<1>4. Types'
  BY <1>1, <1>2 DEF RadixInv, Types
<1>5. BucketsInv'
  <2>1. Layout' = Layout
    BY <1>1, <1>2, <1>3 DEF Layout
  <2>2. Counts' = Counts
    BY <1>1, <1>2, <1>3 DEF Counts
  <2>3. HeadsWithin' = HeadsWithin
    BY <1>1, <1>2, <1>3 DEF HeadsWithin
  <2>4. Placed' = Placed
    BY <1>1, <1>2, <1>3 DEF Placed, InPlace
  <2>5. QED BY <1>1, <2>1, <2>2, <2>3, <2>4 DEF RadixInv, BucketsInv
<1>6. PermuteInv'
  BY <1>1, <1>2, <1>3 DEF RadixInv, PermuteInv, PartBounds, PartFilled, InPlace, InPart
<1>7. RepairInv'
  BY <1>1, <1>2, <1>3 DEF RadixInv, RepairInv, Unrepaired, InRepair, PartBounds, PartFilled, InPlace
<1>8. SequentialInv' /\ Phases'
  BY <1>1, <1>2 DEF RadixInv, SequentialInv, Hand, Phases
<1>9. QED BY <1>4, <1>5, <1>6, <1>7, <1>8 DEF RadixInv

(***************************************************************************)
(* The theorems.                                                           *)
(***************************************************************************)
LEMMA RadixInit == Init => RadixInv
<1> SUFFICES ASSUME Init
             PROVE  RadixInv
  OBVIOUS
<1> USE DEF Init
<1>1. Buckets = {} /\ DOMAIN gt = {} /\ DOMAIN tasks = {} /\ DOMAIN repairing = {}
  BY DEF Buckets
<1>2. Top = 0
  BY <1>1, FS_EmptySet DEF Top
<1>3. Types
  BY <1>1, <1>2 DEF Types
<1>4. QED BY <1>1, <1>3 DEF RadixInv, BucketsInv, PermuteInv, RepairInv, SequentialInv, Phases

LEMMA RadixNext ==
  ASSUME RadixInv, Next
  PROVE  RadixInv' /\ (Exchanged \/ UNCHANGED vars)
<1>1. CASE Master
  <2>1. CASE Start
    BY <2>1, StartKeeps
  <2>2. CASE partition_buckets
    BY <2>2, PartitionBucketsKeeps
  <2>3. CASE Permuted
    BY <2>3, PermutedKeeps
  <2>4. CASE CreateRepair
    BY <2>4, CreateRepairKeeps
  <2>5. CASE Advance
    BY <2>5, AdvanceKeeps
  <2>6. CASE Check
    BY <2>6, CheckKeeps
  <2>7. CASE SeqPickUp
    BY <2>7, SeqPickUpKeeps
  <2>8. CASE SeqSwapOut
    BY <2>8, SeqSwapOutKeeps
  <2>9. CASE SeqPutHome
    BY <2>9, SeqPutHomeKeeps
  <2>10. CASE SeqNextBucket
    BY <2>10, SeqNextBucketKeeps
  <2>11. QED BY <1>1, <2>1, <2>2, <2>3, <2>4, <2>5, <2>6, <2>7, <2>8, <2>9, <2>10 DEF Master
<1>2. CASE \E t \in Tids : PermuteStep(t)
  BY <1>2, PermuteStepKeeps
<1>3. CASE \E b \in DOMAIN repairing : RepairStep(b)
  BY <1>3, RepairStepKeeps
<1>4. CASE Stutter
  <2>1. UNCHANGED vars
    BY <1>4 DEF Stutter
  <2>2. QED BY <2>1, RadixStutters
<1>5. QED BY <1>1, <1>2, <1>3, <1>4 DEF Next

LEMMA RadixInvariant == Spec => []RadixInv
<1>1. RadixInv /\ [Next]_vars => RadixInv'
  BY RadixNext, RadixStutters
<1>2. QED BY RadixInit, <1>1, PTL DEF Spec

\* Heads stay within their parts, and parts within their buckets, also where sort_and_swap
\* writes to a bucket without a look whether it has room
\* (msb_radix_sequential_in_place.c:44-46).
THEOREM TypeCorrect == Spec => []TypeOK
<1>1. ASSUME RadixInv
      PROVE  TypeOK
  <2>1. Types /\ BucketsInv /\ (pc = "start" => Buckets = {})
    BY <1>1 DEF RadixInv, Types
  <2>2. pc # "start" => \A b \in Buckets : HeadOf(Filled, b) <= gh[b] /\ gh[b] <= gt[b]
    BY <2>1 DEF BucketsInv, Counts, HeadsWithin
  <2>3. ASSUME pc \in Rounds, NEW t \in Tids, NEW b \in Buckets
        PROVE  HeadOf(Filled, b) <= head[t][b] /\ head[t][b] <= tail[t][b] /\ tail[t][b] <= gt[b]
    <3>1. HeadOf(Filled, b) = Lo(b) /\ Layout /\ HeadsWithin
      BY <2>1, <2>3 DEF BucketsInv, Counts, Rounds
    <3>2. CASE pc = "permute"
      <4>1. /\ Cut(b, t) <= head[t][b] /\ head[t][b] <= tail[t][b] /\ tail[t][b] = PartEnd(b, t)
            /\ head[t][b] \in Nat
        BY <1>1, <3>2, PermuteFacts DEF Rows
      <4>2. Lo(b) \in Nat /\ gh[b] \in Nat /\ gt[b] \in Nat /\ Lo(b) <= gh[b] /\ gh[b] <= gt[b]
        BY <3>1, BucketFacts
      <4>3. Cut(b, t) \in gh[b] .. gt[b] /\ PartEnd(b, t) \in gh[b] .. gt[b]
        BY <4>2, PartInBucket
      <4>4. QED BY <3>1, <4>1, <4>2, <4>3
    <3>3. CASE pc \in {"repair", "repair_next"}
      BY <1>1, <3>1, <3>3, RepairFacts
    <3>4. QED BY <2>3, <3>2, <3>3 DEF Rounds
  <2>4. ASSUME NEW t \in DOMAIN tasks, tasks[t].holding
        PROVE  tasks[t].bucket \in Buckets /\ tasks[t].head \in DOMAIN array /\ tasks[t].temp \in Value
    <3>1. tasks[t].head \in DOMAIN array /\ tasks[t].temp \in Value
      BY <1>1, <2>4, InHand
    <3>2. pc = "permute" \/ pc = "sort_and_swap"
      BY <1>1, <2>4 DEF RadixInv, Phases
    <3>3. tasks[t].bucket \in Buckets
      BY <1>1, <2>4, <3>2 DEF RadixInv, PermuteInv, InPart, SequentialInv, Hand
    <3>4. QED BY <3>1, <3>3
  <2>5. QED BY <2>1, <2>2, <2>3, <2>4 DEF TypeOK, Types
<1>2. QED BY RadixInvariant, <1>1, PTL

\* No step loses an element or makes a second one of it, those in hand included
\* (msb_radix_parallel_in_place.c:87-97).
THEOREM ElementsKept == Spec => KeepsElements
<1>1. ASSUME RadixInv, [Next]_vars
      PROVE  [SameElements(Filled, Filled')]_vars
  <2>1. CASE Next /\ Exchanged
    <3>1. PICK x \in DOMAIN array, y \in DOMAIN array : Filled' = Swap(Filled, x, y)
      BY <2>1 DEF Exchanged
    <3>2. PICK F, D : F = Filled /\ D = DOMAIN array
      OBVIOUS
    <3>3. F \in [D -> Nat] /\ IsFiniteSet(D) /\ x \in D /\ y \in D
      BY <1>1, <3>2, FilledShape, ArrayShape DEF RadixInv
    <3>4. SameElements(F, Swap(F, x, y))
      BY <3>3, SwapSameElements
    <3>5. QED BY <3>1, <3>2, <3>4
  <2>2. CASE UNCHANGED vars
    BY <2>2
  <2>3. QED BY <1>1, <2>1, <2>2, RadixNext
<1>2. QED BY RadixInvariant, <1>1, PTL DEF Spec, KeepsElements

\* The places a task of permute has still to fill are its own alone
\* (msb_radix_parallel_in_place.c:39-47).
THEOREM PartsStayApart == Spec => []PartsApart
<1>1. ASSUME RadixInv, pc = "permute", NEW t \in DOMAIN tasks, NEW u \in DOMAIN tasks,
             NEW b \in Buckets, NEW c \in Buckets, <<t, b>> # <<u, c>>,
             NEW x \in head[t][b] .. tail[t][b] - 1
      PROVE  x \notin head[u][c] .. tail[u][c] - 1
  <2>1. /\ Layout /\ HeadsWithin /\ t \in Tids /\ u \in Tids
        /\ Cut(b, t) <= head[t][b] /\ tail[t][b] = PartEnd(b, t) /\ head[t][b] \in Nat
        /\ Cut(c, u) <= head[u][c] /\ tail[u][c] = PartEnd(c, u) /\ head[u][c] \in Nat
    BY <1>1, PermuteFacts DEF Rows
  <2>2. gh[b] \in Nat /\ gt[b] \in Nat /\ gh[b] <= gt[b] /\ gh[c] \in Nat /\ gt[c] \in Nat /\ gh[c] <= gt[c]
    BY <2>1, BucketFacts
  <2>3. /\ Cut(b, t) \in gh[b] .. gt[b] /\ PartEnd(b, t) \in gh[b] .. gt[b]
        /\ Cut(c, u) \in gh[c] .. gt[c] /\ PartEnd(c, u) \in gh[c] .. gt[c]
    BY <2>1, <2>2, PartInBucket
  <2>4. x \in Cut(b, t) .. PartEnd(b, t) - 1
    BY <1>1, <2>1, <2>2, <2>3
  <2>5. <<c, u>> # <<b, t>>
    BY <1>1
  <2>6. x \notin Cut(c, u) .. PartEnd(c, u) - 1
    BY <2>1, <2>4, <2>5, PartsDoNotMeet
  <2>7. QED BY <2>1, <2>2, <2>3, <2>6
<1>2. RadixInv => PartsApart
  BY <1>1 DEF PartsApart
<1>3. QED BY RadixInvariant, <1>2, PTL

\* What is behind the head of a bucket, or of a part, has the byte of its bucket
\* (msb_radix_parallel_in_place.c:134-156).
THEOREM PlacedStaysPlaced == Spec => []PlacedBehindHeads
<1>1. ASSUME RadixInv
      PROVE  PlacedBehindHeads
  <2>1. ASSUME pc # "sort_and_swap", NEW b \in Buckets, NEW x \in HeadOf(Filled, b) .. gh[b] - 1
        PROVE  Byte(x) = b
    <3>1. pc # "start"
      BY <1>1, <2>1 DEF RadixInv, Types
    <3>2. QED BY <1>1, <2>1, <3>1 DEF RadixInv, BucketsInv, Counts, Placed, InPlace
  <2>2. ASSUME pc = "permute", NEW t \in Tids, NEW b \in Buckets,
               NEW x \in (IF t = 0 THEN gh[b] ELSE tail[t - 1][b]) .. head[t][b] - 1
        PROVE  Byte(x) = b
    <3>1. /\ Layout /\ HeadsWithin
          /\ \A u \in Tids : tail[u][b] = PartEnd(b, u)
          /\ PartFilled(b, t)
      BY <1>1, <2>2 DEF RadixInv, BucketsInv, PermuteInv, PartBounds
    <3>2. gh[b] \in Nat /\ gt[b] \in Nat /\ gh[b] <= gt[b]
      BY <3>1, BucketFacts
    <3>3. Cut(b, t) = IF t = 0 THEN gh[b] ELSE tail[t - 1][b]
      <4>1. CASE t = 0
        BY <3>2, <4>1, PartInBucket
      <4>2. CASE t # 0
        <5>1. t - 1 \in Tids /\ (t - 1) + 1 = t
          BY <4>2, RadixAssumption DEF Tids
        <5>2. PartEnd(b, t - 1) = Cut(b, (t - 1) + 1)
          BY <3>2, <5>1, PartInBucket
        <5>3. QED BY <3>1, <4>2, <5>1, <5>2
      <4>3. QED BY <4>1, <4>2
    <3>4. QED BY <2>2, <3>1, <3>3 DEF PartFilled, InPlace
  <2>3. QED BY <2>1, <2>2 DEF PlacedBehindHeads
<1>2. QED BY RadixInvariant, <1>1, PTL

\* On return the elements are in the order of their bytes (two_step_sort.c:51).
THEOREM ReturnSorts == Spec => []ReturnsSorted
<1>1. ASSUME RadixInv, Returned, NEW x \in DOMAIN array, NEW y \in DOMAIN array, x < y
      PROVE  Byte(x) <= Byte(y)
  <2>1. pc = "return" /\ gh = gt /\ Layout /\ HeadsWithin /\ Placed
    BY <1>1 DEF RadixInv, BucketsInv, Phases, Returned
  <2>2. PICK b \in Buckets : x \in Lo(b) .. gt[b] - 1
    BY <2>1 DEF Layout
  <2>3. PICK c \in Buckets : y \in Lo(c) .. gt[c] - 1
    BY <2>1 DEF Layout
  <2>4. Byte(x) = b /\ Byte(y) = c
    BY <2>1, <2>2, <2>3 DEF Placed, InPlace
  <2>5. b \in 0 .. 255 /\ Lo(b) \in Nat /\ gt[b] \in Nat
    BY <2>1, BucketFacts
  <2>6. c \in 0 .. 255 /\ Lo(c) \in Nat /\ gt[c] \in Nat
    BY <2>1, BucketFacts
  <2>7. c < b => gt[c] <= Lo(b)
    BY <2>1 DEF Layout
  <2>8. QED BY <1>1, <2>2, <2>3, <2>4, <2>5, <2>6, <2>7
<1>2. RadixInv => ReturnsSorted
  BY <1>1 DEF ReturnsSorted, Sorted
<1>3. QED BY RadixInvariant, <1>2, PTL

=============================================================================
