------------------------------ MODULE DataLemmas -----------------------------
(***************************************************************************)
(* What the operators on sequences, numbers and arrays that the modules    *)
(* share return and preserve, for their proofs.                            *)
(***************************************************************************)
EXTENDS Sorting, SequenceTheorems, FiniteSetTheorems, FunctionTheorems, WellFoundedInduction,
        TLAPS

(***************************************************************************)
(* Sequences.                                                              *)
(***************************************************************************)

\* A non-empty sequence has a last element.
LEMMA LastElement ==
  ASSUME NEW S, NEW s \in Seq(S), s # <<>>
  PROVE  /\ Len(s) \in Nat \ {0}
         /\ s[Len(s)] \in S
<1>1. Len(s) \in Nat \ {0}
  BY EmptySeq
<1>2. Len(s) \in 1 .. Len(s)
  BY <1>1
<1>3. QED BY <1>1, <1>2, ElementOfSeq

\* work_queue_pop's Prev_items: all elements but the last, in their places.
LEMMA AllButLast ==
  ASSUME NEW S, NEW s \in Seq(S), s # <<>>,
         NEW p, p = SubSeq(s, 1, Len(s) - 1)
  PROVE  /\ p \in Seq(S)
         /\ Len(p) = Len(s) - 1
         /\ \A i \in 1 .. Len(s) - 1 : p[i] = s[i]
<1>1. Len(s) \in Nat \ {0}
  BY LastElement
<1>2. \A i \in 1 .. Len(s) - 1 : s[i] \in S
  BY <1>1, ElementOfSeq
<1>3. PICK n \in Nat : n = Len(s) - 1
  BY <1>1
<1>4. /\ SubSeq(s, 1, n) \in Seq(S)
      /\ Len(SubSeq(s, 1, n)) = IF 1 <= n THEN n - 1 + 1 ELSE 0
      /\ \A i \in 1 .. n - 1 + 1 : SubSeq(s, 1, n)[i] = s[1 + i - 1]
  <2>1. 1 \in Int /\ n \in Int /\ \A i \in 1 .. n : s[i] \in S
    BY <1>2, <1>3
  <2>2. QED BY <2>1, SubSeqProperties
<1>5. p = SubSeq(s, 1, n)
  BY <1>3
<1>6. /\ p \in Seq(S)
      /\ Len(p) = IF 1 <= n THEN n - 1 + 1 ELSE 0
      /\ \A i \in 1 .. n - 1 + 1 : p[i] = s[1 + i - 1]
  BY <1>4, <1>5
<1>7. Len(p) = Len(s) - 1
  BY <1>3, <1>6
<1>8. \A i \in 1 .. Len(s) - 1 : p[i] = s[i]
  BY <1>3, <1>6
<1>9. QED BY <1>6, <1>7, <1>8

\* work_queue_push: one element more, the others in their places.
LEMMA OneMore ==
  ASSUME NEW S, NEW s \in Seq(S), NEW e \in S,
         NEW p, p = Append(s, e)
  PROVE  /\ p \in Seq(S)
         /\ Len(p) = Len(s) + 1
         /\ \A i \in 1 .. Len(s) : p[i] = s[i]
         /\ p[Len(s) + 1] = e
BY AppendProperties

\* A thread that is done with its first range keeps the others, one place earlier.
LEMMA AllButFirst ==
  ASSUME NEW S, NEW s \in Seq(S), s # <<>>,
         NEW p, p = Tail(s)
  PROVE  /\ Head(s) \in S
         /\ Head(s) = s[1]
         /\ p \in Seq(S)
         /\ Len(p) = Len(s) - 1
         /\ \A i \in 1 .. Len(s) - 1 : p[i] = s[i + 1]
<1>1. Len(s) \in Nat \ {0}
  BY LastElement
<1>2. QED BY <1>1, HeadTailProperties

\* The two halves of a range are put in front of what the thread holds.
LEMMA TwoMoreInFront ==
  ASSUME NEW S, NEW s \in Seq(S), NEW a \in S, NEW b \in S,
         NEW p, p = <<a, b>> \o s
  PROVE  /\ p \in Seq(S)
         /\ Len(p) = Len(s) + 2
         /\ p[1] = a /\ p[2] = b
         /\ \A i \in 1 .. Len(s) : p[i + 2] = s[i]
<1>1. <<a, b>> \in Seq(S) /\ Len(<<a, b>>) = 2
  OBVIOUS
<1>2. Len(s) \in Nat
  BY LenProperties
<1>3. /\ p \in Seq(S)
      /\ Len(p) = 2 + Len(s)
      /\ \A i \in 1 .. 2 + Len(s) : p[i] = IF i <= 2 THEN <<a, b>>[i] ELSE s[i - 2]
  BY <1>1, ConcatProperties
<1>4. p[1] = a /\ p[2] = b
  BY <1>2, <1>3
<1>5. \A i \in 1 .. Len(s) : p[i + 2] = s[i]
  BY <1>2, <1>3
<1>6. QED BY <1>2, <1>3, <1>4, <1>5


(***************************************************************************)
(* Natural numbers.                                                        *)
(***************************************************************************)

LEMMA LessThanIsWellFounded ==
  \E R : /\ IsWellFoundedOn(R, Nat)
         /\ \A m, n \in Nat : m < n => <<m, n>> \in R
<1>1. \A m, n \in Nat : m < n => <<m, n>> \in OpToRel(<, Nat)
  BY DEF OpToRel
<1>2. QED BY <1>1, NatLessThanWellFounded, Zenon

\* A set of natural numbers has a least element.
LEMMA LeastNat ==
  ASSUME NEW T, T \subseteq Nat, T # {}
  PROVE  \E n \in T : \A m \in T : n <= m
<1>1. PICK R : /\ IsWellFoundedOn(R, Nat)
               /\ \A m, n \in Nat : m < n => <<m, n>> \in R
  BY LessThanIsWellFounded
<1>2. PICK n \in T : \A m \in T : <<m, n>> \notin R
  <2>1. IsWellFoundedOn(R, Nat)
    BY <1>1
  <2>2. QED BY <2>1, WFMin, Zenon
<1>3. ASSUME NEW m \in T
      PROVE  n <= m
  <2>1. m \in Nat /\ n \in Nat
    OBVIOUS
  <2>2. ~ (m < n)
    BY <1>1, <1>2, <2>1, Zenon
  <2>3. QED BY <2>1, <2>2
<1>4. QED BY <1>3

\* A bounded one has a greatest.
LEMMA GreatestNat ==
  ASSUME NEW T, T \subseteq Nat, T # {}, NEW n \in Nat, \A x \in T : x <= n
  PROVE  \E x \in T : \A y \in T : y <= x
<1> DEFINE S == {m \in Nat : \E x \in T : m = n - x}
<1>1. PICK m \in S : \A k \in S : m <= k
  <2>1. PICK x \in T : TRUE
    OBVIOUS
  <2>2. x \in Nat /\ x <= n
    BY <2>1
  <2>3. n - x \in S
    BY <2>1, <2>2
  <2>4. S \subseteq Nat /\ S # {}
    BY <2>3
  <2> HIDE DEF S
  <2>5. QED BY <2>4, LeastNat
<1>2. PICK x \in T : m = n - x
  BY <1>1
<1>3. ASSUME NEW y \in T
      PROVE  y <= x
  <2>1. x \in Nat /\ y \in Nat /\ y <= n
    BY <1>2
  <2>2. n - y \in S
    BY <2>1
  <2>3. m <= n - y
    BY <1>1, <2>2
  <2>4. QED BY <1>2, <2>1, <2>3
<1>4. QED BY <1>2, <1>3

(***************************************************************************)
(* Swap.                                                                   *)
(***************************************************************************)
LEMMA SwapType ==
  ASSUME NEW D, NEW V, NEW a \in [D -> V], NEW x \in D, NEW y \in D
  PROVE  /\ Swap(a, x, y) \in [D -> V]
         /\ \A i \in D : Swap(a, x, y)[i] = IF i = y THEN a[x] ELSE IF i = x THEN a[y] ELSE a[i]
BY DEF Swap

\* How many elements there are of a kind.
CountOf(c, D, Kind) == Cardinality({i \in D : c[i] \in Kind})

\* An exchange keeps the number of elements of any kind, ...
LEMMA SwapCounts ==
  ASSUME NEW D, IsFiniteSet(D), NEW V, NEW a \in [D -> V], NEW x \in D, NEW y \in D, NEW Kind
  PROVE  CountOf(a, D, Kind) = CountOf(Swap(a, x, y), D, Kind)
<1> DEFINE b == Swap(a, x, y)
           At(c) == {i \in D : c[i] \in Kind}
           h == [i \in At(a) |-> IF i = x THEN y ELSE IF i = y THEN x ELSE i]
<1>1. /\ b \in [D -> V]
      /\ \A i \in D : b[i] = IF i = y THEN a[x] ELSE IF i = x THEN a[y] ELSE a[i]
  BY DEF Swap
<1> HIDE DEF b
<1>2. h \in [At(a) -> At(b)]
  BY <1>1
<1>3. \A i, j \in At(a) : h[i] = h[j] => i = j
  OBVIOUS
<1>4. \A j \in At(b) : \E i \in At(a) : h[i] = j
  <2> TAKE j \in At(b)
  <2>1. CASE j = x
    BY <1>1, <2>1
  <2>2. CASE j = y
    BY <1>1, <2>2
  <2>3. CASE j # x /\ j # y
    BY <1>1, <2>3
  <2>4. QED BY <2>1, <2>2, <2>3
<1> HIDE DEF h
<1>5. ExistsBijection(At(a), At(b))
  <2>1. h \in Bijection(At(a), At(b))
    BY <1>2, <1>3, <1>4 DEF Bijection, Injection, Surjection, IsInjective
  <2>2. QED BY <2>1 DEF ExistsBijection
<1>6. IsFiniteSet(At(a))
  BY FS_Subset
<1> HIDE DEF At
<1>7. Cardinality(At(a)) = Cardinality(At(b))
  BY <1>5, <1>6, FS_Bijection
<1>8. QED BY <1>7 DEF At, b, CountOf

\* ... and so neither loses nor invents one.
LEMMA SwapSameElements ==
  ASSUME NEW D, IsFiniteSet(D), NEW V, NEW a \in [D -> V], NEW x \in D, NEW y \in D
  PROVE  SameElements(a, Swap(a, x, y))
<1> DEFINE b == Swap(a, x, y)
<1>1. DOMAIN a = D /\ DOMAIN b = D
  BY DEF Swap
<1>2. ASSUME NEW v
      PROVE  Cardinality({i \in D : a[i] = v}) = Cardinality({i \in D : b[i] = v})
  <2>1. CountOf(a, D, {v}) = CountOf(b, D, {v})
    BY SwapCounts
  <2>2. /\ {i \in D : a[i] = v} = {i \in D : a[i] \in {v}}
        /\ {i \in D : b[i] = v} = {i \in D : b[i] \in {v}}
    OBVIOUS
  <2>3. QED BY <2>1, <2>2 DEF CountOf
<1>3. QED BY <1>1, <1>2 DEF SameElements

LEMMA SameElementsReflexive == \A a : SameElements(a, a)
BY DEF SameElements

(***************************************************************************)
(* Rearranging: the elements of a, at the places of D, are those of b, at  *)
(* the places of E, in another order.                                      *)
(***************************************************************************)
OneToOne(f, D, E) ==
  /\ f \in [D -> E]
  /\ \A x, y \in D : f[x] = f[y] => x = y
  /\ \A z \in E : \E x \in D : f[x] = z

Rearranged(D, a, E, b) == \E f : OneToOne(f, D, E) /\ \A x \in D : a[x] = b[f[x]]

LEMMA OneToOneIsBijection ==
  ASSUME NEW D, NEW E
  PROVE  \A f : OneToOne(f, D, E) <=> f \in Bijection(D, E)
BY DEF OneToOne, Bijection, Injection, Surjection, IsInjective

LEMMA OneToOneCounts ==
  ASSUME NEW D, NEW E, NEW f, OneToOne(f, D, E), IsFiniteSet(D) \/ IsFiniteSet(E)
  PROVE  IsFiniteSet(D) /\ IsFiniteSet(E) /\ Cardinality(D) = Cardinality(E)
<1>1. ExistsBijection(D, E)
  BY OneToOneIsBijection DEF ExistsBijection
<1>2. ExistsBijection(E, D)
  BY <1>1, Fun_ExistsBijSymmetric
<1>3. QED BY <1>1, <1>2, FS_Bijection

\* Sets of as many elements are in one-to-one correspondence.
LEMMA AsMany ==
  ASSUME NEW D, NEW E, IsFiniteSet(D), IsFiniteSet(E), Cardinality(D) = Cardinality(E)
  PROVE  \E f : OneToOne(f, D, E)
<1>1. Bijection(D, E) # {}
  BY FS_SameCardinalityBij DEF ExistsBijection
<1>2. QED BY <1>1, OneToOneIsBijection

LEMMA RearrangedReflexive ==
  ASSUME NEW D, NEW a, NEW b, \A x \in D : a[x] = b[x]
  PROVE  Rearranged(D, a, D, b)
<1> DEFINE f == [x \in D |-> x]
<1>1. OneToOne(f, D, D) /\ \A x \in D : a[x] = b[f[x]]
  BY DEF OneToOne
<1>2. QED BY <1>1 DEF Rearranged

LEMMA RearrangedSymmetric ==
  ASSUME NEW D, NEW a, NEW E, NEW b, Rearranged(D, a, E, b)
  PROVE  Rearranged(E, b, D, a)
<1>1. PICK f : OneToOne(f, D, E) /\ \A x \in D : a[x] = b[f[x]]
  BY DEF Rearranged
<1> DEFINE g == [z \in E |-> CHOOSE x \in D : f[x] = z]
<1>2. \A z \in E : g[z] \in D /\ f[g[z]] = z
  BY <1>1 DEF OneToOne
<1>3. g \in [E -> D]
  BY <1>2
<1>4. \A x \in D : f[x] \in E /\ g[f[x]] = x
  <2> TAKE x \in D
  <2>1. f[x] \in E
    BY <1>1 DEF OneToOne
  <2>2. f[g[f[x]]] = f[x] /\ g[f[x]] \in D
    BY <1>2, <2>1
  <2> HIDE DEF g
  <2>3. QED BY <1>1, <2>1, <2>2 DEF OneToOne
<1> HIDE DEF g
<1>5. OneToOne(g, E, D)
  <2>1. \A y, z \in E : g[y] = g[z] => y = z
    BY <1>2
  <2>2. \A x \in D : \E z \in E : g[z] = x
    BY <1>4
  <2>3. QED BY <1>3, <2>1, <2>2 DEF OneToOne
<1>6. \A z \in E : b[z] = a[g[z]]
  BY <1>1, <1>2
<1>7. QED BY <1>5, <1>6 DEF Rearranged

LEMMA RearrangedTransitive ==
  ASSUME NEW D, NEW a, NEW E, NEW b, NEW F, NEW c, Rearranged(D, a, E, b), Rearranged(E, b, F, c)
  PROVE  Rearranged(D, a, F, c)
<1>1. PICK f : OneToOne(f, D, E) /\ \A x \in D : a[x] = b[f[x]]
  BY DEF Rearranged
<1>2. PICK g : OneToOne(g, E, F) /\ \A x \in E : b[x] = c[g[x]]
  BY DEF Rearranged
<1> DEFINE h == [x \in D |-> g[f[x]]]
<1>3. \A x \in D : f[x] \in E /\ g[f[x]] \in F /\ h[x] = g[f[x]]
  BY <1>1, <1>2 DEF OneToOne
<1>4. h \in [D -> F]
  BY <1>3
<1> HIDE DEF h
<1>5. \A x, y \in D : h[x] = h[y] => x = y
  <2> TAKE x, y \in D
  <2>1. h[x] = h[y] => f[x] = f[y]
    BY <1>2, <1>3 DEF OneToOne
  <2>2. QED BY <1>1, <2>1 DEF OneToOne
<1>6. \A z \in F : \E x \in D : h[x] = z
  <2> TAKE z \in F
  <2>1. PICK y \in E : g[y] = z
    BY <1>2 DEF OneToOne
  <2>2. PICK x \in D : f[x] = y
    BY <1>1 DEF OneToOne
  <2>3. QED BY <1>3, <2>1, <2>2
<1>7. OneToOne(h, D, F)
  BY <1>4, <1>5, <1>6 DEF OneToOne
<1>8. \A x \in D : a[x] = c[h[x]]
  BY <1>1, <1>2, <1>3
<1>9. QED BY <1>7, <1>8 DEF Rearranged

\* Side by side.
LEMMA RearrangedUnion ==
  ASSUME NEW D, NEW E, NEW a, NEW b, NEW F, NEW G,
         D \cap F = {}, E \cap G = {}, Rearranged(D, a, E, b), Rearranged(F, a, G, b)
  PROVE  Rearranged(D \cup F, a, E \cup G, b)
<1>1. PICK f : OneToOne(f, D, E) /\ \A x \in D : a[x] = b[f[x]]
  BY DEF Rearranged
<1>2. PICK g : OneToOne(g, F, G) /\ \A x \in F : a[x] = b[g[x]]
  BY DEF Rearranged
<1> DEFINE h == [x \in D \cup F |-> IF x \in D THEN f[x] ELSE g[x]]
<1>3. /\ \A x \in D : h[x] = f[x] /\ h[x] \in E
      /\ \A x \in F : h[x] = g[x] /\ h[x] \in G
  BY <1>1, <1>2 DEF OneToOne
<1>4. h \in [D \cup F -> E \cup G]
  BY <1>3
<1> HIDE DEF h
<1>5. \A x, y \in D \cup F : h[x] = h[y] => x = y
  <2> SUFFICES ASSUME NEW x \in D \cup F, NEW y \in D \cup F, h[x] = h[y]
               PROVE  x = y
    OBVIOUS
  <2>1. CASE x \in D /\ y \in D
    BY <1>1, <1>3, <2>1 DEF OneToOne
  <2>2. CASE x \in F /\ y \in F
    BY <1>2, <1>3, <2>2 DEF OneToOne
  <2>3. CASE x \in D /\ y \in F
    BY <1>3, <2>3
  <2>4. CASE x \in F /\ y \in D
    BY <1>3, <2>4
  <2>5. QED BY <2>1, <2>2, <2>3, <2>4
<1>6. \A z \in E \cup G : \E x \in D \cup F : h[x] = z
  <2> TAKE z \in E \cup G
  <2>1. CASE z \in E
    <3>1. PICK x \in D : f[x] = z
      BY <1>1, <2>1 DEF OneToOne
    <3>2. QED BY <1>3, <3>1
  <2>2. CASE z \in G
    <3>1. PICK x \in F : g[x] = z
      BY <1>2, <2>2 DEF OneToOne
    <3>2. QED BY <1>3, <3>1
  <2>3. QED BY <2>1, <2>2
<1>7. \A x \in D \cup F : a[x] = b[h[x]]
  BY <1>1, <1>2, <1>3
<1>8. OneToOne(h, D \cup F, E \cup G)
  BY <1>4, <1>5, <1>6 DEF OneToOne
<1>9. QED BY <1>7, <1>8 DEF Rearranged

\* Another order has as many elements of any kind, ...
LEMMA RearrangedCounts ==
  ASSUME NEW D, NEW a, NEW E, NEW b, IsFiniteSet(D), Rearranged(D, a, E, b), NEW Kind
  PROVE  /\ IsFiniteSet(E)
         /\ CountOf(a, D, Kind) = CountOf(b, E, Kind)
<1>1. PICK f : OneToOne(f, D, E) /\ \A x \in D : a[x] = b[f[x]]
  BY DEF Rearranged
<1> DEFINE A == {x \in D : a[x] \in Kind}
           B == {x \in E : b[x] \in Kind}
           g == [x \in A |-> f[x]]
<1>2. \A x \in A : x \in D /\ f[x] \in B /\ g[x] = f[x]
  BY <1>1 DEF OneToOne
<1>3. g \in [A -> B]
  BY <1>2
<1>4. \A z \in B : \E x \in A : g[x] = z
  <2> TAKE z \in B
  <2>1. PICK x \in D : f[x] = z
    BY <1>1 DEF OneToOne
  <2>2. x \in A
    BY <1>1, <2>1
  <2>3. QED BY <1>2, <2>1, <2>2
<1>5. IsFiniteSet(A) /\ IsFiniteSet(E)
  BY <1>1, FS_Subset, OneToOneCounts
<1> HIDE DEF g
<1>6. \A x, y \in A : g[x] = g[y] => x = y
  BY <1>1, <1>2 DEF OneToOne
<1> HIDE DEF A, B
<1>7. OneToOne(g, A, B)
  BY <1>3, <1>4, <1>6 DEF OneToOne
<1>8. Cardinality(A) = Cardinality(B)
  BY <1>5, <1>7, OneToOneCounts
<1>9. QED BY <1>5, <1>8 DEF A, B, CountOf

\* ... and so the same elements; and the converse.
LEMMA RearrangedSame ==
  ASSUME NEW D, IsFiniteSet(D), NEW a, NEW b, DOMAIN a = D, DOMAIN b = D
  PROVE  Rearranged(D, a, D, b) <=> SameElements(a, b)
<1>1. ASSUME Rearranged(D, a, D, b)
      PROVE  SameElements(a, b)
  <2>1. ASSUME NEW v
        PROVE  Cardinality({i \in D : a[i] = v}) = Cardinality({i \in D : b[i] = v})
    <3>1. CountOf(a, D, {v}) = CountOf(b, D, {v})
      BY <1>1, RearrangedCounts
    <3>2. /\ {i \in D : a[i] = v} = {i \in D : a[i] \in {v}}
          /\ {i \in D : b[i] = v} = {i \in D : b[i] \in {v}}
      OBVIOUS
    <3>3. QED BY <3>1, <3>2 DEF CountOf
  <2>2. QED BY <2>1 DEF SameElements
<1>2. ASSUME SameElements(a, b)
      PROVE  Rearranged(D, a, D, b)
  <2> DEFINE A(v) == {i \in D : a[i] = v}
             B(v) == {i \in D : b[i] = v}
             g(v) == CHOOSE f : OneToOne(f, A(v), B(v))
             h == [x \in D |-> g(a[x])[x]]
             Values == {a[i] : i \in D} \cup {b[i] : i \in D}
  <2>1. \A v : A(v) \subseteq D /\ B(v) \subseteq D
    OBVIOUS
  <2>2. \A v : IsFiniteSet(A(v)) /\ IsFiniteSet(B(v))
    BY <2>1, FS_Subset
  <2>3. \A v \in Values : Cardinality(A(v)) = Cardinality(B(v))
    BY <1>2 DEF SameElements
  <2>4. /\ \A x \in D : a[x] \in Values /\ b[x] \in Values /\ x \in A(a[x]) /\ x \in B(b[x])
        /\ \A v : \A x \in B(v) : x \in D /\ b[x] = v
        /\ \A v : \A x \in A(v) : x \in D /\ a[x] = v
    OBVIOUS
  <2>5. \A v \in Values : OneToOne(g(v), A(v), B(v))
    <3> TAKE v \in Values
    <3> HIDE DEF A, B
    <3>1. \E f : OneToOne(f, A(v), B(v))
      BY <2>2, <2>3, AsMany
    <3>2. QED BY <3>1
  <2>6. \A x \in D : h[x] = g(a[x])[x]
    OBVIOUS
  <2>7. DOMAIN h = D /\ h = [x \in D |-> h[x]]
    OBVIOUS
  <2> HIDE DEF A, B, g, h, Values
  <2>8. \A x \in D : h[x] \in B(a[x])
    <3> TAKE x \in D
    <3>1. OneToOne(g(a[x]), A(a[x]), B(a[x])) /\ x \in A(a[x])
      BY <2>4, <2>5
    <3>2. QED BY <2>6, <3>1 DEF OneToOne
  <2>9. \A x \in D : h[x] \in D /\ a[x] = b[h[x]]
    BY <2>4, <2>8
  <2>10. h \in [D -> D]
    BY <2>7, <2>9
  <2>11. \A x, y \in D : h[x] = h[y] => x = y
    <3> SUFFICES ASSUME NEW x \in D, NEW y \in D, h[x] = h[y]
                 PROVE  x = y
      OBVIOUS
    <3>1. PICK v : v = a[x] /\ v = a[y]
      BY <2>9
    <3>2. OneToOne(g(v), A(v), B(v)) /\ x \in A(v) /\ y \in A(v)
      BY <2>4, <2>5, <3>1
    <3>3. g(v)[x] = g(v)[y]
      BY <2>6, <3>1
    <3>4. QED BY <3>2, <3>3 DEF OneToOne
  <2>12. \A z \in D : \E x \in D : h[x] = z
    <3> TAKE z \in D
    <3>1. PICK v : v = b[z]
      OBVIOUS
    <3>2. OneToOne(g(v), A(v), B(v)) /\ z \in B(v)
      BY <2>4, <2>5, <3>1
    <3>3. PICK x \in A(v) : g(v)[x] = z
      BY <3>2 DEF OneToOne
    <3>4. x \in D /\ a[x] = v
      BY <2>4
    <3>5. QED BY <2>6, <3>3, <3>4
  <2>13. OneToOne(h, D, D)
    BY <2>10, <2>11, <2>12 DEF OneToOne
  <2>14. QED BY <2>9, <2>13 DEF Rearranged
<1>3. QED BY <1>1, <1>2

\* Two orders of the same elements that are both sorted are one.
BothSorted(D, a, b) ==
  /\ \A x \in D : a[x] \in Int /\ b[x] \in Int
  /\ \A x, y \in D : x < y => a[x] <= a[y] /\ b[x] <= b[y]

LEMMA SortedOnce ==
  ASSUME NEW D, IsFiniteSet(D), D \subseteq Int, NEW a, NEW b, BothSorted(D, a, b),
         Rearranged(D, a, D, b)
  PROVE  \A x \in D : a[x] = b[x]
<1>1. ASSUME NEW x \in D, NEW c, NEW d, \A y \in D : c[y] \in Int /\ d[y] \in Int,
             \A y, z \in D : y < z => c[y] <= c[z] /\ d[y] <= d[z],
             Rearranged(D, c, D, d), c[x] < d[x]
      PROVE  FALSE
  <2> DEFINE Kind == {v \in Int : v <= c[x]}
             A == {y \in D : c[y] \in Kind}
             B == {y \in D : d[y] \in Kind}
  <2>1. Cardinality(A) = Cardinality(B)
    <3> HIDE DEF Kind
    <3>1. CountOf(c, D, Kind) = CountOf(d, D, Kind)
      BY <1>1, RearrangedCounts
    <3>2. QED BY <3>1 DEF CountOf
  <2>2. B \subseteq A
    <3> SUFFICES ASSUME NEW y \in B
                 PROVE  y \in A
      OBVIOUS
    <3>1. y \in Int /\ x \in Int /\ d[y] <= c[x] /\ c[x] < d[x]
      BY <1>1
    <3>2. y < x
      BY <1>1, <3>1
    <3>3. QED BY <1>1, <3>2
  <2>3. x \in A /\ x \notin B
    BY <1>1
  <2>4. IsFiniteSet(A)
    BY FS_Subset
  <2> HIDE DEF A, B
  <2>5. A = B
    BY <2>1, <2>2, <2>4, FS_Subset
  <2>6. QED BY <2>3, <2>5
<1>2. Rearranged(D, b, D, a)
  BY RearrangedSymmetric
<1>3. ASSUME NEW x \in D
      PROVE  a[x] = b[x]
  <2>1. /\ \A y \in D : a[y] \in Int /\ b[y] \in Int
        /\ \A y, z \in D : y < z => a[y] <= a[z] /\ b[y] <= b[z]
    BY DEF BothSorted
  <2>2. ~(a[x] < b[x])
    BY <1>1, <2>1
  <2>3. ~(b[x] < a[x])
    BY <1>1, <1>2, <2>1
  <2>4. QED BY <2>1, <2>2, <2>3
<1>4. QED BY <1>3

(***************************************************************************)
(* Numbers.                                                                *)
(***************************************************************************)

\* A set of indices that has, with each of them, all smaller ones.
LEMMA InitialSegment ==
  ASSUME NEW n \in Nat, NEW S, S \subseteq 0 .. n - 1,
         \A x \in S : \A y \in 0 .. n - 1 : y < x => y \in S
  PROVE  /\ IsFiniteSet(S) /\ Cardinality(S) \in 0 .. n
         /\ S = 0 .. Cardinality(S) - 1
<1> DEFINE T == (0 .. n) \ S
<1>1. PICK t \in T : \A m \in T : t <= m
  <2>1. T \subseteq Nat /\ n \in T
    OBVIOUS
  <2> HIDE DEF T
  <2>2. QED BY <2>1, LeastNat
<1>2. t \in 0 .. n /\ t \notin S
  BY <1>1
<1>3. \A x \in 0 .. t - 1 : x \in S
  BY <1>1, <1>2
<1>4. \A x \in S : x \in 0 .. t - 1
  <2> TAKE x \in S
  <2>1. x \in 0 .. n - 1 /\ (t < x => t \in S)
    BY <1>2
  <2>2. QED BY <1>2, <2>1
<1>5. S = 0 .. t - 1
  BY <1>3, <1>4
<1>6. IsFiniteSet(0 .. t - 1) /\ Cardinality(0 .. t - 1) = t
  <2>1. 0 \in Int /\ t - 1 \in Int /\ t \in Nat
    BY <1>2
  <2>2. Cardinality(0 .. t - 1) = IF 0 > t - 1 THEN 0 ELSE t - 1 - 0 + 1
    BY <2>1, FS_Interval
  <2>3. QED BY <2>1, <2>2, FS_Interval
<1>7. QED BY <1>2, <1>5, <1>6

\* Division, as C rounds it.
LEMMA Quotient ==
  ASSUME NEW a \in Nat, NEW d \in Nat \ {0}
  PROVE  /\ a \div d \in Nat /\ a % d \in 0 .. d - 1
         /\ d * (a \div d) <= a /\ a < d * (a \div d) + d
         /\ a = d * (a \div d) + (a % d)
<1>1. PICK q \in Int, r \in Int : q = a \div d /\ r = a % d
  OBVIOUS
<1>2. q \in Nat /\ r \in 0 .. d - 1 /\ d * q <= a /\ a < d * q + d /\ r = a - d * q
  BY <1>1
<1>3. QED BY <1>1, <1>2

LEMMA QuotientsInOrder ==
  ASSUME NEW a \in Nat, NEW b \in Nat, NEW d \in Nat \ {0}, a <= b
  PROVE  a \div d <= b \div d
OBVIOUS

=============================================================================
