--------------------------- MODULE Partition_proof ---------------------------
(* Facts about the partition functions and about ranges still to be sorted. *)
EXTENDS Partition, DataLemmas

Ranges == [start : Nat, end : Nat]

NatFrames == [start : Nat, end : Nat, k : Nat, j : Nat, pivot : Nat]

(***************************************************************************)
(* hoare_partition keeps its invariant, on any array that contains its     *)
(* range, and splits the range in two.                                     *)
(***************************************************************************)
LEMMA MiddleWithin ==
  ASSUME NEW r \in Ranges, r.start < r.end
  PROVE  Middle(r) \in Nat /\ Within(Middle(r), r) /\ Middle(r) < r.end
BY DEF Ranges, Middle, Within

LEMMA HoareEntry ==
  ASSUME NEW r \in Ranges, r.start < r.end,
         NEW D, r.start .. r.end \subseteq D, NEW a \in [D -> Nat]
  PROVE  /\ HoareArray(a, r) \in [D -> Nat]
         /\ HoareFrame(a, r) \in NatFrames
         /\ HoareInvariant(HoareArray(a, r), HoareFrame(a, r))
<1>1. Middle(r) \in D /\ r.end \in D /\ r.end \in Nat /\ r.start \in Nat
  BY MiddleWithin DEF Ranges, Within
<1>2. /\ HoareArray(a, r) \in [D -> Nat]
      /\ HoareArray(a, r)[r.end] = a[Middle(r)]
  BY <1>1, MiddleWithin DEF HoareArray, Swap
<1>3. HoareFrame(a, r) \in NatFrames
  BY <1>1 DEF HoareFrame, NatFrames
<1>4. HoareInvariant(HoareArray(a, r), HoareFrame(a, r))
  BY <1>1, <1>2 DEF HoareFrame, HoareInvariant, Within
<1>5. QED BY <1>2, <1>3, <1>4

LEMMA ScanUpKeeps ==
  ASSUME NEW f \in NatFrames, NEW D, f.start .. f.end \subseteq D, NEW a \in [D -> Nat],
         HoareInvariant(a, f), ScansUp(a, f)
  PROVE  AfterScanUp(f) \in NatFrames /\ HoareInvariant(a, AfterScanUp(f))
<1> DEFINE g == AfterScanUp(f)
<1>1. /\ g \in NatFrames
      /\ g.start = f.start /\ g.end = f.end /\ g.j = f.j /\ g.pivot = f.pivot /\ g.k = f.k + 1
  BY DEF AfterScanUp, NatFrames
<1>2. f.k < f.end /\ f.k <= f.j
  BY DEF HoareInvariant, ScansUp, Within, NatFrames
<1>3. \A i \in g.start .. g.k - 1 : a[i] <= g.pivot
  BY <1>1 DEF HoareInvariant, ScansUp, Within, NatFrames
<1>4. QED BY <1>1, <1>2, <1>3 DEF HoareInvariant, Within, NatFrames

LEMMA ScanDownKeeps ==
  ASSUME NEW f \in NatFrames, NEW D, f.start .. f.end \subseteq D, NEW a \in [D -> Nat],
         HoareInvariant(a, f), ScansDown(a, f)
  PROVE  AfterScanDown(f) \in NatFrames /\ HoareInvariant(a, AfterScanDown(f))
<1> DEFINE g == AfterScanDown(f)
<1>1. f.j < f.end /\ f.start < f.k /\ f.k <= f.j
  BY DEF HoareInvariant, ScansDown, Within, NatFrames
<1>2. /\ g \in NatFrames
      /\ g.start = f.start /\ g.end = f.end /\ g.k = f.k /\ g.pivot = f.pivot /\ g.j = f.j - 1
  BY <1>1 DEF AfterScanDown, Dec, NatFrames
<1>3. \A i \in g.j + 1 .. g.end : a[i] >= g.pivot
  BY <1>1, <1>2 DEF HoareInvariant, ScansDown, Within, NatFrames
<1>4. QED BY <1>1, <1>2, <1>3 DEF HoareInvariant, Within, NatFrames

LEMMA ExchangeKeeps ==
  ASSUME NEW f \in NatFrames, NEW D, f.start .. f.end \subseteq D, NEW a \in [D -> Nat],
         HoareInvariant(a, f), Exchanges(a, f)
  PROVE  /\ AfterExchange(f) \in NatFrames
         /\ HoareInvariant(Swap(a, f.k, f.j), AfterExchange(f))
<1> DEFINE g == AfterExchange(f)
           b == Swap(a, f.k, f.j)
<1>1. /\ f.k \in D /\ f.j \in D /\ f.k < f.j
      /\ a[f.k] >= f.pivot /\ a[f.j] <= f.pivot
  <2>1. f.k \in f.start .. f.end /\ f.j \in f.start .. f.end
    BY DEF HoareInvariant, Within, NatFrames
  <2>2. a[f.k] \in Nat /\ a[f.j] \in Nat /\ f.pivot \in Nat
    BY <2>1 DEF NatFrames
  <2>3. f.k < f.j /\ ~(a[f.k] < f.pivot) /\ ~(a[f.j] > f.pivot)
    BY DEF Exchanges, Stopped, ScansDown, ScansUp
  <2>4. QED BY <2>1, <2>2, <2>3
<1>2. /\ g \in NatFrames
      /\ g.start = f.start /\ g.end = f.end /\ g.pivot = f.pivot
      /\ g.k = f.k + 1 /\ g.j = f.j - 1
  <2>1. f.k \in Nat /\ f.j \in Nat /\ f.j # 0
    BY <1>1 DEF NatFrames
  <2>2. f.j - 1 \in Nat /\ Dec(f.j) = f.j - 1
    BY <2>1 DEF Dec
  <2> DEFINE m == AfterScanUp(f)
  <2>3. /\ m \in NatFrames
        /\ m.start = f.start /\ m.end = f.end /\ m.k = f.k + 1 /\ m.pivot = f.pivot
    BY <2>1 DEF AfterScanUp, NatFrames
  <2>4. g = [m EXCEPT !.j = f.j - 1]
    BY <2>2 DEF AfterExchange, AfterScanUp
  <2> HIDE DEF m, g
  <2>5. /\ g \in NatFrames
        /\ g.start = m.start /\ g.end = m.end /\ g.k = m.k /\ g.pivot = m.pivot /\ g.j = f.j - 1
    BY <2>2, <2>3, <2>4 DEF NatFrames
  <2>6. QED BY <2>3, <2>5
<1>3. \A i \in D : b[i] = IF i = f.j THEN a[f.k] ELSE IF i = f.k THEN a[f.j] ELSE a[i]
  BY <1>1 DEF Swap
<1> HIDE DEF b, g
<1>4. \A i \in g.start .. g.k - 1 : b[i] <= g.pivot
  BY <1>1, <1>2, <1>3 DEF HoareInvariant, Within, NatFrames
<1>5. \A i \in g.j + 1 .. g.end : b[i] >= g.pivot
  BY <1>1, <1>2, <1>3 DEF HoareInvariant, Within, NatFrames
<1>6. HoareInvariant(b, g)
  BY <1>1, <1>2, <1>4, <1>5 DEF HoareInvariant, Within, NatFrames
<1>7. QED BY <1>2, <1>6 DEF b, g

\* Both halves are non-empty, so the recursion shrinks and pivot - 1 cannot wrap, and no
\* element of the left half exceeds one of the right half.
LEMMA ReturnSplits ==
  ASSUME NEW f \in NatFrames, NEW D, f.start .. f.end \subseteq D, NEW a \in [D -> Nat],
         HoareInvariant(a, f), Returns(a, f)
  PROVE  /\ f.start < f.k /\ f.k <= f.end
         /\ LeftOf(f) = SortJob(f.start, f.k - 1)
         /\ \A i \in f.start .. f.k - 1, j \in f.k .. f.end : a[i] <= a[j]
<1>1. /\ f.start < f.k /\ f.k <= f.end /\ f.k \in {f.j, f.j + 1}
      /\ a[f.k] >= f.pivot
  BY DEF HoareInvariant, Returns, Stopped, ScansDown, ScansUp, Within, NatFrames
<1>2. LeftOf(f) = SortJob(f.start, f.k - 1)
  BY <1>1 DEF LeftOf, Dec, NatFrames
<1>3. \A j \in f.k .. f.end : a[j] >= f.pivot
  BY <1>1 DEF HoareInvariant, NatFrames
<1>4. \A i \in f.start .. f.k - 1 : a[i] <= f.pivot
  BY DEF HoareInvariant
<1>5. \A i \in f.start .. f.k - 1, j \in f.k .. f.end : a[i] \in Nat /\ a[j] \in Nat
  BY <1>1 DEF NatFrames
<1>6. QED BY <1>1, <1>2, <1>3, <1>4, <1>5 DEF NatFrames

\* A call depends on nothing outside its range.
LEMMA HoareIsLocal ==
  ASSUME NEW f \in NatFrames, NEW a, NEW b, HoareInvariant(a, f),
         \A i \in f.start .. f.end : b[i] = a[i]
  PROVE  HoareInvariant(b, f)
BY DEF HoareInvariant, Within, NatFrames

(***************************************************************************)
(* Ranges still to be sorted: rs gives them before a step and qs after it. *)
(***************************************************************************)

\* Ranges that move, or are dropped, stay apart, and stay as they were.
LEMMA MovedApart ==
  ASSUME NEW P, NEW Q, NEW rs \in [P -> Ranges], NEW qs \in [Q -> Ranges],
         NEW h \in [Q -> P], \A p, q \in Q : h[p] = h[q] => p = q,
         \A q \in Q : qs[q] = rs[h[q]],
         PairwiseApart(rs)
  PROVE  PairwiseApart(qs)
BY DEF PairwiseApart

\* Disorder stays covered when only ranges of one element are dropped.
LEMMA MovedCover ==
  ASSUME NEW P, NEW Q, NEW rs \in [P -> Ranges], NEW qs \in [Q -> Ranges],
         \A p \in P : rs[p].start >= rs[p].end \/ \E q \in Q : qs[q] = rs[p],
         NEW a, \A i \in DOMAIN a : i \in Nat, CoverDisorder(rs, a)
  PROVE  CoverDisorder(qs, a)
<1> SUFFICES ASSUME NEW i \in DOMAIN a, NEW j \in DOMAIN a, i < j, a[i] > a[j]
             PROVE  \E q \in Q : Within(i, qs[q]) /\ Within(j, qs[q])
  BY DEF CoverDisorder
<1>1. PICK p \in P : Within(i, rs[p]) /\ Within(j, rs[p])
  BY DEF CoverDisorder
<1>2. rs[p].start < rs[p].end
  BY <1>1 DEF Within, Ranges
<1>3. PICK q \in Q : qs[q] = rs[p]
  BY <1>2 DEF Ranges
<1>4. QED BY <1>1, <1>3

\* An exchange inside one of the ranges keeps disorder covered: whoever was out of
\* order with an element of the range before still is, with another element of it.
LEMMA SwapCover ==
  ASSUME NEW P, NEW rs \in [P -> Ranges], PairwiseApart(rs),
         NEW D \in SUBSET Nat, NEW a \in [D -> Nat], CoverDisorder(rs, a),
         NEW p \in P, NEW x \in D, NEW y \in D, Within(x, rs[p]), Within(y, rs[p])
  PROVE  CoverDisorder(rs, Swap(a, x, y))
<1> DEFINE b == Swap(a, x, y)
           from(i) == IF i = y THEN x ELSE IF i = x THEN y ELSE i
<1>1. b \in [D -> Nat] /\ \A i \in D : b[i] = a[from(i)]
  BY DEF Swap
<1> SUFFICES ASSUME NEW i \in D, NEW j \in D, i < j, b[i] > b[j]
             PROVE  \E q \in P : Within(i, rs[q]) /\ Within(j, rs[q])
  BY <1>1 DEF CoverDisorder
<1> HIDE DEF b
<1>2. rs[p].start \in Nat /\ rs[p].end \in Nat /\ i \in Nat /\ j \in Nat /\ x \in Nat /\ y \in Nat
  BY DEF Ranges
<1>3. CASE Within(i, rs[p]) /\ Within(j, rs[p])
  BY <1>3
<1>4. CASE ~Within(i, rs[p]) \/ ~Within(j, rs[p])
  <2>1. from(i) \in D /\ from(j) \in D /\ from(i) \in Nat /\ from(j) \in Nat
    BY <1>2
  <2>2. from(i) < from(j)
    BY <1>2, <1>4 DEF Within
  <2>3. a[from(i)] > a[from(j)]
    BY <1>1
  <2>4. PICK q \in P : Within(from(i), rs[q]) /\ Within(from(j), rs[q])
    BY <2>1, <2>2, <2>3 DEF CoverDisorder
  <2>5. rs[q].start \in Nat /\ rs[q].end \in Nat
    BY DEF Ranges
  <2>6. q = p => FALSE
    BY <1>2, <1>4, <2>4 DEF Within
  <2>7. Apart(rs[q], rs[p])
    BY <2>6 DEF PairwiseApart
  <2>8. from(i) = i /\ from(j) = j
    BY <1>2, <2>1, <2>4, <2>5, <2>7 DEF Within, Apart
  <2>9. QED BY <2>4, <2>8
<1>5. QED BY <1>3, <1>4

\* From rs to qs, the range at p is split at k into the ranges at l and at r, and a
\* function h tells where the others have been.
SplitsAt(rs, qs, h, p, k, l, r) ==
  /\ rs \in [DOMAIN rs -> Ranges] /\ qs \in [DOMAIN qs -> Ranges]
  /\ p \in DOMAIN rs /\ k \in Nat /\ rs[p].start < k /\ k <= rs[p].end
  /\ l \in DOMAIN qs /\ qs[l] = SortJob(rs[p].start, k - 1)
  /\ r \in DOMAIN qs /\ qs[r] = SortJob(k, rs[p].end)
  /\ \A q \in DOMAIN qs \ {l, r} : h[q] \in DOMAIN rs \ {p} /\ qs[q] = rs[h[q]]
  /\ \A q, u \in DOMAIN qs \ {l, r} : h[q] = h[u] => q = u
  /\ \A u \in DOMAIN rs \ {p} : \E q \in DOMAIN qs \ {l, r} : h[q] = u

LEMMA SplitEnds ==
  ASSUME NEW rs, NEW qs, NEW h, NEW p, NEW k, NEW l, NEW r, SplitsAt(rs, qs, h, p, k, l, r)
  PROVE  /\ rs[p].start \in Nat /\ rs[p].end \in Nat /\ rs[p].start < k /\ k <= rs[p].end
         /\ qs[l].start = rs[p].start /\ qs[l].end = k - 1 /\ l \in DOMAIN qs
         /\ qs[r].start = k /\ qs[r].end = rs[p].end /\ r \in DOMAIN qs /\ k \in Nat
BY DEF SplitsAt, SortJob, Ranges

\* The ranges are still apart, ...
LEMMA SplitApart ==
  ASSUME NEW rs, NEW qs, NEW h, NEW p, NEW k, NEW l, NEW r, SplitsAt(rs, qs, h, p, k, l, r),
         PairwiseApart(rs)
  PROVE  PairwiseApart(qs)
<1> SUFFICES ASSUME NEW q \in DOMAIN qs, NEW u \in DOMAIN qs, q # u
             PROVE  Apart(qs[q], qs[u])
  BY DEF PairwiseApart
<1>1. /\ rs[p].start \in Nat /\ rs[p].end \in Nat /\ rs[p].start < k /\ k <= rs[p].end
      /\ qs[l].start = rs[p].start /\ qs[l].end = k - 1
      /\ qs[r].start = k /\ qs[r].end = rs[p].end /\ k \in Nat
  BY SplitEnds
<1>2. Apart(qs[l], qs[r]) /\ Apart(qs[r], qs[l])
  BY <1>1 DEF Apart
<1>3. ASSUME NEW v \in DOMAIN qs \ {l, r}
      PROVE  /\ Apart(qs[v], rs[p])
             /\ qs[v].start \in Nat /\ qs[v].end \in Nat
  <2>1. h[v] \in DOMAIN rs \ {p} /\ qs[v] = rs[h[v]] /\ p \in DOMAIN rs /\ qs[v] \in Ranges
    BY <1>3 DEF SplitsAt
  <2>2. QED BY <2>1 DEF PairwiseApart, Ranges
<1>4. ASSUME NEW v \in DOMAIN qs \ {l, r}
      PROVE  /\ Apart(qs[v], qs[l]) /\ Apart(qs[l], qs[v])
             /\ Apart(qs[v], qs[r]) /\ Apart(qs[r], qs[v])
  BY <1>1, <1>3 DEF Apart
<1>5. CASE q \in {l, r} \/ u \in {l, r}
  BY <1>2, <1>4, <1>5
<1>6. CASE q \notin {l, r} /\ u \notin {l, r}
  <2>1. /\ h[q] \in DOMAIN rs /\ h[u] \in DOMAIN rs /\ h[q] # h[u]
        /\ qs[q] = rs[h[q]] /\ qs[u] = rs[h[u]]
    BY <1>6 DEF SplitsAt
  <2>2. QED BY <2>1 DEF PairwiseApart
<1>7. QED BY <1>5, <1>6

\* ... and cover the disorder, if no element of the left half exceeds one of the right.
LEMMA SplitCover ==
  ASSUME NEW rs, NEW qs, NEW h, NEW p, NEW k, NEW l, NEW r, SplitsAt(rs, qs, h, p, k, l, r),
         NEW a, \A i \in DOMAIN a : i \in Nat /\ a[i] \in Nat, CoverDisorder(rs, a),
         \A i \in rs[p].start .. k - 1, j \in k .. rs[p].end : a[i] <= a[j]
  PROVE  CoverDisorder(qs, a)
<1> SUFFICES ASSUME NEW i \in DOMAIN a, NEW j \in DOMAIN a, i < j, a[i] > a[j]
             PROVE  \E q \in DOMAIN qs : Within(i, qs[q]) /\ Within(j, qs[q])
  BY DEF CoverDisorder
<1>1. PICK u \in DOMAIN rs : Within(i, rs[u]) /\ Within(j, rs[u])
  BY DEF CoverDisorder
<1>2. CASE u # p
  <2>1. PICK q \in DOMAIN qs \ {l, r} : h[q] = u
    BY <1>2 DEF SplitsAt
  <2>2. qs[q] = rs[u]
    BY <2>1 DEF SplitsAt
  <2>3. QED BY <1>1, <2>2
<1>3. CASE u = p
  <2>1. /\ rs[p].start \in Nat /\ rs[p].end \in Nat /\ rs[p].start < k /\ k <= rs[p].end
        /\ qs[l].start = rs[p].start /\ qs[l].end = k - 1 /\ l \in DOMAIN qs
        /\ qs[r].start = k /\ qs[r].end = rs[p].end /\ r \in DOMAIN qs /\ k \in Nat
    BY SplitEnds
  <2>2. i \in Nat /\ j \in Nat /\ a[i] \in Nat /\ a[j] \in Nat
    OBVIOUS
  <2>3. j < k \/ k <= i
    BY <1>1, <1>3, <2>1, <2>2 DEF Within
  <2>4. QED BY <1>1, <1>3, <2>1, <2>2, <2>3 DEF Within
<1>4. QED BY <1>2, <1>3

=============================================================================
