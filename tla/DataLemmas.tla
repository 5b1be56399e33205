----------------------------- MODULE DataLemmas -----------------------------
(***************************************************************************)
(* Facts about the data the models are built from: induction on the        *)
(* natural numbers and on finite sets, and sums over finite sets.          *)
(*                                                                         *)
(* An induction is a set of numbers that holds 0 and each successor: a     *)
(* number outside of it would have a least one, and that one a             *)
(* predecessor.                                                            *)
(***************************************************************************)
EXTENDS Integers, Sequences, FiniteSets, FiniteSetsExt, FiniteSetTheorems, SequenceTheorems,
        WellFoundedInduction, TLAPS

(***************************************************************************)
(* Induction                                                               *)
(***************************************************************************)
\* A set of numbers that is not empty has a least one.
LEMMA LeastNatural ==
    ASSUME NEW T, T \subseteq Nat, T # {}
    PROVE  \E n \in T : \A m \in T : n <= m
<1> DEFINE R == OpToRel(<, Nat)
<1>1. IsWellFoundedOn(R, Nat)
    BY NatLessThanWellFounded
<1>2. \A x, y \in Nat : x < y => <<x, y>> \in R
    BY DEF OpToRel
<1> HIDE DEF R
<1>3. PICK n \in T : \A m \in T : <<m, n>> \notin R
    BY <1>1, WFMin
<1>4. ASSUME NEW m \in T
      PROVE  n <= m
    <2>1. ~(m < n)
        BY <1>2, <1>3
    <2> QED
        BY <2>1
<1> QED
    BY <1>4

\* A set that holds 0 and the successor of each number in it holds every number.
LEMMA NatSetInduction ==
    ASSUME NEW T, 0 \in T, \A n \in Nat : n \in T => n + 1 \in T
    PROVE  Nat \subseteq T
<1>1. SUFFICES ASSUME Nat \ T # {}
               PROVE  FALSE
    OBVIOUS
<1>2. PICK n \in Nat \ T : \A m \in Nat \ T : n <= m
    BY <1>1, LeastNatural
<1>3. n - 1 \in Nat /\ n = (n - 1) + 1 /\ ~(n <= n - 1)
    BY <1>2
<1>4. n - 1 \in T
    BY <1>2, <1>3
<1> QED
    BY <1>2, <1>3, <1>4

\* A set of numbers that is not empty and has a bound has a largest one.
LEMMA LargestNatural ==
    ASSUME NEW T, T \subseteq Nat, T # {}, NEW b \in Nat, \A n \in T : n <= b
    PROVE  \E n \in T : \A m \in T : m <= n
<1> DEFINE D == {b - n : n \in T}
<1>0. ASSUME NEW n \in T PROVE b - n \in Nat
    BY n <= b
<1>1. D \subseteq Nat /\ D # {}
    BY <1>0
<1>2. PICK d \in D : \A e \in D : d <= e
    BY <1>1, LeastNatural
<1>3. PICK n \in T : d = b - n
    BY <1>2
<1>4. ASSUME NEW m \in T
      PROVE  m <= n
    <2>1. b - m \in D
        OBVIOUS
    <2>2. b - n <= b - m
        BY <1>2, <1>3, <2>1
    <2> QED
        BY <2>2
<1> QED
    BY <1>4

\* What is computed from 0 on, each value from the one before, exists.
Computes(f, F, v, m) == f = [n \in 0..m |-> IF n = 0 THEN v ELSE F[<<n, f[n - 1]>>]]

LEMMA Recursion ==
    ASSUME NEW V, NEW v \in V, NEW F, \A n \in Nat, u \in V : F[<<n, u>>] \in V, NEW m \in Nat
    PROVE  \E f \in [0..m -> V] : Computes(f, F, v, m)
<1> DEFINE T == {n \in Nat : \E f \in [0..n -> V] : Computes(f, F, v, n)}
<1>1. 0 \in T
    <2>1. [n \in 0..0 |-> v] \in [0..0 -> V] /\ Computes([n \in 0..0 |-> v], F, v, 0)
        BY DEF Computes
    <2> QED
        BY <2>1
<1>2. ASSUME NEW n \in Nat, n \in T
      PROVE  n + 1 \in T
    <2>1. PICK g \in [0..n -> V] : Computes(g, F, v, n)
        BY <1>2
    <2>2. PICK x : x = F[<<n + 1, g[n]>>]
        OBVIOUS
    <2>3. x \in V
        BY <2>1, <2>2
    <2> DEFINE h == [i \in 0..(n + 1) |-> IF i \in 0..n THEN g[i] ELSE x]
               k == [i \in 0..(n + 1) |-> IF i = 0 THEN v ELSE F[<<i, h[i - 1]>>]]
    <2>4. ASSUME NEW i \in 0..(n + 1)
          PROVE  h[i] = k[i]
        <3>1. CASE i = n + 1
            <4>1. i - 1 = n /\ h[i - 1] = g[n] /\ i # 0 /\ i \notin 0..n
                BY <3>1
            <4> QED
                BY <2>2, <3>1, <4>1
        <3>2. CASE i # n + 1
            <4>1. i \in 0..n /\ h[i] = g[i] /\ (i # 0 => i - 1 \in 0..(n + 1) /\ h[i - 1] = g[i - 1])
                BY <3>2
            <4>2. g[i] = IF i = 0 THEN v ELSE F[<<i, g[i - 1]>>]
                BY <2>1, <4>1 DEF Computes
            <4> QED
                BY <4>1, <4>2
        <3> QED
            BY <3>1, <3>2
    <2>5. h = k
        BY <2>4
    <2>6. h \in [0..(n + 1) -> V] /\ Computes(h, F, v, n + 1)
        BY <2>1, <2>3, <2>5 DEF Computes
    <2> HIDE DEF h
    <2> QED
        BY <2>6
<1> HIDE DEF T
<1>3. Nat \subseteq T
    BY <1>1, <1>2, NatSetInduction
<1> QED
    BY <1>3 DEF T

(***************************************************************************)
(* Sums over finite sets                                                   *)
(***************************************************************************)
SumOver(f, S) == MapThenSumSet(LAMBDA i : f[i], S)

\* The element that the sum takes first, and what a table of all partial sums satisfies.
First(s) == CHOOSE x \in s : TRUE
Sums(g, f, D) ==
    g = [s \in D |-> IF s = {} THEN 0 ELSE f[First(s)] + g[s \ {First(s)}]]

\* The sum is looked up in such a table.
LEMMA SumLookup ==
    ASSUME NEW f, NEW S
    PROVE  SumOver(f, S) = (CHOOSE g : Sums(g, f, SUBSET S))[S]
BY DEF SumOver, MapThenSumSet, MapThenFoldSet, Sums, First

LEMMA FirstInSet ==
    ASSUME NEW s, s # {}
    PROVE  First(s) \in s
BY DEF First

\* There is a table for the subsets of a finite set.
LEMMA SumsExist ==
    ASSUME NEW f, NEW S, IsFiniteSet(S)
    PROVE  \E g : Sums(g, f, SUBSET S)
<1> DEFINE D(n) == {s \in SUBSET S : Cardinality(s) <= n}
           T == {n \in Nat : \E g : Sums(g, f, D(n))}
<1>0. \A s \in SUBSET S : IsFiniteSet(s) /\ Cardinality(s) \in Nat /\ (Cardinality(s) = 0 => s = {})
    BY FS_Subset, FS_EmptySet, FS_CardinalityType
<1>1. 0 \in T
    <2>1. \A s \in D(0) : s = {}
        BY <1>0
    <2>2. Sums([s \in D(0) |-> 0], f, D(0))
        BY <2>1 DEF Sums
    <2> QED
        BY <2>2
<1>2. ASSUME NEW n \in Nat, n \in T
      PROVE  n + 1 \in T
    <2>1. PICK g : Sums(g, f, D(n))
        BY <1>2
    <2> DEFINE h == [s \in D(n + 1) |-> IF s \in D(n) THEN g[s] ELSE f[First(s)] + g[s \ {First(s)}]]
    <2>2. \A s \in D(n + 1) : s # {} =>
              /\ s \ {First(s)} \in D(n) /\ s \ {First(s)} \in D(n + 1)
        <3> TAKE s \in D(n + 1)
        <3> HAVE s # {}
        <3>1. First(s) \in s /\ IsFiniteSet(s) /\ Cardinality(s) \in Nat
            BY <1>0, FirstInSet
        <3>2. Cardinality(s \ {First(s)}) = Cardinality(s) - 1
            BY <3>1, FS_RemoveElement
        <3> QED
            BY <3>1, <3>2
    <2>3. {} \in D(n)
        BY FS_EmptySet
    <2>4. \A s \in D(n) : g[s] = IF s = {} THEN 0 ELSE f[First(s)] + g[s \ {First(s)}]
        BY <2>1 DEF Sums
    <2>5. \A s \in D(n + 1) : h[s] = IF s = {} THEN 0 ELSE f[First(s)] + h[s \ {First(s)}]
        <3> TAKE s \in D(n + 1)
        <3>1. CASE s = {}
            BY <3>1, <2>3, <2>4
        <3>2. CASE s # {}
            <4>1. h[s \ {First(s)}] = g[s \ {First(s)}]
                BY <3>2, <2>2
            <4> QED
                BY <3>2, <4>1, <2>4
        <3> QED
            BY <3>1, <3>2
    <2>6. Sums(h, f, D(n + 1))
        <3> DEFINE k == [s \in D(n + 1) |-> IF s = {} THEN 0 ELSE f[First(s)] + h[s \ {First(s)}]]
        <3>1. \A s \in D(n + 1) : h[s] = k[s]
            BY <2>5
        <3>2. DOMAIN h = D(n + 1) /\ h = [s \in D(n + 1) |-> h[s]]
            OBVIOUS
        <3>3. h = k
            BY <3>1, <3>2
        <3> HIDE DEF h, D
        <3> QED
            BY <3>3 DEF Sums
    <2> HIDE DEF h, D
    <2>7. \E k : Sums(k, f, D(n + 1))
        BY <2>6
    <2> QED
        BY <2>7
<1> HIDE DEF T
<1>3. Cardinality(S) \in T
    BY <1>1, <1>2, NatSetInduction, FS_CardinalityType
<1>4. D(Cardinality(S)) = SUBSET S
    BY FS_Subset
<1> QED
    BY <1>3, <1>4 DEF T

Agree(f1, f2, U) == \A x \in U : f1[x] = f2[x]

\* Two tables agree on a finite set that both have, if their functions agree on it.
LEMMA SumsAgree ==
    ASSUME NEW f1, NEW f2, NEW S1, NEW S2, NEW g1, NEW g2,
           Sums(g1, f1, SUBSET S1), Sums(g2, f2, SUBSET S2),
           NEW U, U \subseteq S1, U \subseteq S2, IsFiniteSet(U), Agree(f1, f2, U)
    PROVE  g1[U] = g2[U]
<1> DEFINE T == {n \in Nat : \A s \in SUBSET U : Cardinality(s) = n => g1[s] = g2[s]}
<1>0. \A s \in SUBSET U : IsFiniteSet(s) /\ Cardinality(s) \in Nat /\ (Cardinality(s) = 0 <=> s = {})
    BY FS_Subset, FS_EmptySet, FS_CardinalityType
<1>1. \A s \in SUBSET U : /\ g1[s] = IF s = {} THEN 0 ELSE f1[First(s)] + g1[s \ {First(s)}]
                          /\ g2[s] = IF s = {} THEN 0 ELSE f2[First(s)] + g2[s \ {First(s)}]
    BY DEF Sums
<1>2. 0 \in T
    BY <1>0, <1>1
<1>3. ASSUME NEW n \in Nat, n \in T
      PROVE  n + 1 \in T
    <2>1. ASSUME NEW s \in SUBSET U, Cardinality(s) = n + 1
          PROVE  g1[s] = g2[s]
        <3>1. s # {} /\ IsFiniteSet(s)
            BY <1>0, <2>1
        <3>2. First(s) \in s /\ s \ {First(s)} \in SUBSET U
            BY <3>1, FirstInSet
        <3>3. Cardinality(s \ {First(s)}) = Cardinality(s) - 1
            BY <3>1, <3>2, FS_RemoveElement
        <3>4. Cardinality(s \ {First(s)}) = n
            BY <3>3, <2>1
        <3>5. g1[s \ {First(s)}] = g2[s \ {First(s)}]
            BY <1>3, <3>2, <3>4
        <3>6. f1[First(s)] = f2[First(s)]
            BY <3>2 DEF Agree
        <3> QED
            BY <1>1, <3>1, <3>5, <3>6
    <2> QED
        BY <2>1
<1> HIDE DEF T
<1>4. Cardinality(U) \in T
    BY <1>0, <1>2, <1>3, NatSetInduction
<1> QED
    BY <1>4 DEF T

\* A sum depends on what is summed alone.
LEMMA SumCongruence ==
    ASSUME NEW S, IsFiniteSet(S), NEW f1, NEW f2, Agree(f1, f2, S)
    PROVE  SumOver(f1, S) = SumOver(f2, S)
<1>1. PICK g1 : g1 = (CHOOSE g : Sums(g, f1, SUBSET S)) /\ Sums(g1, f1, SUBSET S)
    BY SumsExist
<1>2. PICK g2 : g2 = (CHOOSE g : Sums(g, f2, SUBSET S)) /\ Sums(g2, f2, SUBSET S)
    BY SumsExist
<1>3. g1[S] = g2[S]
    BY <1>1, <1>2, SumsAgree
<1> QED
    BY <1>1, <1>2, <1>3, SumLookup

LEMMA SumEmpty ==
    ASSUME NEW f
    PROVE  SumOver(f, {}) = 0
<1>1. PICK g : g = (CHOOSE k : Sums(k, f, SUBSET {})) /\ Sums(g, f, SUBSET {})
    BY SumsExist, FS_EmptySet
<1>2. g[{}] = 0
    BY <1>1 DEF Sums
<1> QED
    BY <1>1, <1>2, SumLookup

\* A sum takes its first element, then sums the others.
LEMMA SumFirst ==
    ASSUME NEW f, NEW S, IsFiniteSet(S), S # {}
    PROVE  SumOver(f, S) = f[First(S)] + SumOver(f, S \ {First(S)})
<1> DEFINE R == S \ {First(S)}
<1>0. R \subseteq S /\ IsFiniteSet(R)
    BY FS_RemoveElement
<1>1. PICK g : g = (CHOOSE k : Sums(k, f, SUBSET S)) /\ Sums(g, f, SUBSET S)
    BY SumsExist
<1>2. PICK h : h = (CHOOSE k : Sums(k, f, SUBSET R)) /\ Sums(h, f, SUBSET R)
    BY SumsExist, <1>0
<1>3. g[S] = f[First(S)] + g[R]
    BY <1>1 DEF Sums
<1>4. g[R] = h[R]
    <2> HIDE DEF R
    <2>1. Agree(f, f, R) /\ R \subseteq R
        BY DEF Agree
    <2>2. Sums(g, f, SUBSET S) /\ Sums(h, f, SUBSET R)
        BY <1>1, <1>2
    <2> QED
        BY <1>0, <2>1, <2>2, SumsAgree
<1> QED
    BY <1>1, <1>2, <1>3, <1>4, SumLookup

Naturals(f, S) == \A x \in S : f[x] \in Nat

LEMMA SumType ==
    ASSUME NEW f, NEW S, IsFiniteSet(S), Naturals(f, S)
    PROVE  SumOver(f, S) \in Nat
<1> DEFINE T == {n \in Nat : \A s \in SUBSET S : Cardinality(s) = n => SumOver(f, s) \in Nat}
<1>0. \A s \in SUBSET S : IsFiniteSet(s) /\ Cardinality(s) \in Nat /\ (Cardinality(s) = 0 <=> s = {})
    BY FS_Subset, FS_EmptySet, FS_CardinalityType
<1>1. 0 \in T
    BY <1>0, SumEmpty
<1>2. ASSUME NEW n \in Nat, n \in T
      PROVE  n + 1 \in T
    <2>1. ASSUME NEW s \in SUBSET S, Cardinality(s) = n + 1
          PROVE  SumOver(f, s) \in Nat
        <3>1. s # {} /\ IsFiniteSet(s)
            BY <1>0, <2>1
        <3>2. PICK x \in s : SumOver(f, s) = f[x] + SumOver(f, s \ {x})
            BY <3>1, SumFirst, FirstInSet
        <3>3. Cardinality(s \ {x}) = Cardinality(s) - 1
            BY <3>1, FS_RemoveElement
        <3>4. SumOver(f, s \ {x}) \in Nat
            BY <1>2, <2>1, <3>3
        <3> QED
            BY <3>2, <3>4 DEF Naturals
    <2> QED
        BY <2>1
<1> HIDE DEF T
<1>3. Cardinality(S) \in T
    BY <1>0, <1>1, <1>2, NatSetInduction
<1> QED
    BY <1>3 DEF T

\* Any element may be taken first.
LEMMA SumTake ==
    ASSUME NEW f, NEW S, IsFiniteSet(S), Naturals(f, S), NEW y \in S
    PROVE  SumOver(f, S) = f[y] + SumOver(f, S \ {y})
<1> DEFINE T == {n \in Nat : \A s \in SUBSET S : Cardinality(s) = n =>
                     \A z \in s : SumOver(f, s) = f[z] + SumOver(f, s \ {z})}
<1>0. \A s \in SUBSET S : /\ IsFiniteSet(s) /\ Cardinality(s) \in Nat /\ (Cardinality(s) = 0 <=> s = {})
                          /\ Naturals(f, s)
    BY FS_Subset, FS_EmptySet, FS_CardinalityType DEF Naturals
<1>1. 0 \in T
    BY <1>0
<1>2. ASSUME NEW n \in Nat, n \in T
      PROVE  n + 1 \in T
    <2>1. ASSUME NEW s \in SUBSET S, Cardinality(s) = n + 1, NEW z \in s
          PROVE  SumOver(f, s) = f[z] + SumOver(f, s \ {z})
        <3>1. s # {} /\ IsFiniteSet(s)
            BY <1>0, <2>1
        <3>2. PICK x \in s : SumOver(f, s) = f[x] + SumOver(f, s \ {x})
            BY <3>1, SumFirst, FirstInSet
        <3>3. CASE x = z
            BY <3>2, <3>3
        <3>4. CASE x # z
            <4>1. Cardinality(s \ {x}) = Cardinality(s) - 1 /\ Cardinality(s \ {z}) = Cardinality(s) - 1
                BY <3>1, FS_RemoveElement
            <4>2. Cardinality(s \ {x}) = n /\ Cardinality(s \ {z}) = n
                BY <4>1, <2>1
            <4>3. z \in s \ {x} /\ x \in s \ {z} /\ s \ {x} \in SUBSET S /\ s \ {z} \in SUBSET S
                BY <3>4
            <4>4. SumOver(f, s \ {x}) = f[z] + SumOver(f, (s \ {x}) \ {z})
                BY <1>2, <4>2, <4>3
            <4>5. SumOver(f, s \ {z}) = f[x] + SumOver(f, (s \ {z}) \ {x})
                BY <1>2, <4>2, <4>3
            <4>6. (s \ {x}) \ {z} = (s \ {z}) \ {x}
                OBVIOUS
            <4>7. SumOver(f, (s \ {z}) \ {x}) \in Nat /\ f[x] \in Nat /\ f[z] \in Nat
                <5>1. (s \ {z}) \ {x} \in SUBSET S
                    OBVIOUS
                <5> QED
                    BY <1>0, <5>1, SumType DEF Naturals
            <4>8. SumOver(f, s) = f[x] + (f[z] + SumOver(f, (s \ {z}) \ {x}))
                BY <3>2, <4>4, <4>6
            <4> QED
                BY <4>5, <4>7, <4>8
        <3> QED
            BY <3>3, <3>4
    <2> QED
        BY <2>1
<1> HIDE DEF T
<1>3. Cardinality(S) \in T
    BY <1>0, <1>1, <1>2, NatSetInduction
<1> QED
    BY <1>3 DEF T

\* A sum of zeros is zero, and no sum is less than one of its terms.
LEMMA SumBounds ==
    ASSUME NEW f, NEW S, IsFiniteSet(S), Naturals(f, S)
    PROVE  /\ \A x \in S : f[x] <= SumOver(f, S)
           /\ SumOver(f, S) = 0 <=> \A x \in S : f[x] = 0
<1>1. \A x \in S : f[x] <= SumOver(f, S)
    <2> TAKE x \in S
    <2>1. IsFiniteSet(S \ {x}) /\ Naturals(f, S \ {x})
        BY FS_RemoveElement DEF Naturals
    <2>2. SumOver(f, S \ {x}) \in Nat /\ f[x] \in Nat
        BY <2>1, SumType DEF Naturals
    <2>3. SumOver(f, S) = f[x] + SumOver(f, S \ {x})
        BY SumTake
    <2> QED
        BY <2>2, <2>3
<1>2. SumOver(f, S) = 0 => \A x \in S : f[x] = 0
    BY <1>1 DEF Naturals
<1>3. ASSUME \A x \in S : f[x] = 0
      PROVE  SumOver(f, S) = 0
    <2> DEFINE T == {n \in Nat : \A s \in SUBSET S : Cardinality(s) = n => SumOver(f, s) = 0}
    <2>0. \A s \in SUBSET S : IsFiniteSet(s) /\ Cardinality(s) \in Nat /\ (Cardinality(s) = 0 <=> s = {})
        BY FS_Subset, FS_EmptySet, FS_CardinalityType
    <2>1. 0 \in T
        BY <2>0, SumEmpty
    <2>2. ASSUME NEW n \in Nat, n \in T
          PROVE  n + 1 \in T
        <3>1. ASSUME NEW s \in SUBSET S, Cardinality(s) = n + 1
              PROVE  SumOver(f, s) = 0
            <4>1. s # {} /\ IsFiniteSet(s)
                BY <2>0, <3>1
            <4>2. PICK x \in s : SumOver(f, s) = f[x] + SumOver(f, s \ {x})
                BY <4>1, SumFirst, FirstInSet
            <4>3. Cardinality(s \ {x}) = Cardinality(s) - 1
                BY <4>1, FS_RemoveElement
            <4>4. SumOver(f, s \ {x}) = 0
                BY <2>2, <3>1, <4>3
            <4> QED
                BY <1>3, <4>2, <4>4
        <3> QED
            BY <3>1
    <2> HIDE DEF T
    <2>3. Cardinality(S) \in T
        BY <2>0, <2>1, <2>2, NatSetInduction
    <2> QED
        BY <2>3 DEF T
<1> QED
    BY <1>1, <1>2, <1>3

\* One more term.
LEMMA SumAdd ==
    ASSUME NEW f, NEW S, IsFiniteSet(S), NEW x, x \notin S, Naturals(f, S \cup {x})
    PROVE  SumOver(f, S \cup {x}) = SumOver(f, S) + f[x]
<1>1. IsFiniteSet(S \cup {x}) /\ (S \cup {x}) \ {x} = S /\ x \in S \cup {x} /\ Naturals(f, S)
    BY FS_AddElement DEF Naturals
<1>2. SumOver(f, S \cup {x}) = f[x] + SumOver(f, S)
    BY <1>1, SumTake
<1>3. SumOver(f, S) \in Nat /\ f[x] \in Nat
    BY <1>1, SumType DEF Naturals
<1> QED
    BY <1>2, <1>3

(***************************************************************************)
(* Sums along sequences                                                    *)
(***************************************************************************)
\* The sum of what each item of a sequence weighs.
Along(w, s) == SumOver([i \in DOMAIN s |-> w[s[i]]], DOMAIN s)

LEMMA AlongEmpty ==
    ASSUME NEW w
    PROVE  Along(w, <<>>) = 0
<1>1. DOMAIN <<>> = {}
    OBVIOUS
<1> QED
    BY <1>1, SumEmpty DEF Along

LEMMA AlongType ==
    ASSUME NEW I, NEW w \in [I -> Nat], NEW s \in Seq(I)
    PROVE  Along(w, s) \in Nat
<1> DEFINE f == [i \in DOMAIN s |-> w[s[i]]]
<1>1. DOMAIN s = 1..Len(s) /\ Len(s) \in Nat /\ \A i \in DOMAIN s : s[i] \in I
    OBVIOUS
<1>2. IsFiniteSet(DOMAIN s)
    BY <1>1, FS_Interval
<1>3. Naturals(f, DOMAIN s)
    BY <1>1 DEF Naturals
<1> QED
    BY <1>2, <1>3, SumType DEF Along

LEMMA AlongAppend ==
    ASSUME NEW I, NEW w \in [I -> Nat], NEW s \in Seq(I), NEW x \in I
    PROVE  Along(w, Append(s, x)) = Along(w, s) + w[x]
<1> DEFINE f == [i \in DOMAIN s |-> w[s[i]]]
           t == Append(s, x)
           g == [i \in DOMAIN t |-> w[t[i]]]
           D == 1..Len(s)
           n == Len(s) + 1
<1>1. /\ DOMAIN s = D /\ Len(s) \in Nat /\ DOMAIN t = 1..n
      /\ \A i \in D : s[i] \in I /\ t[i] = s[i]
      /\ t[n] = x
    OBVIOUS
<1>2. IsFiniteSet(D)
    BY <1>1, FS_Interval
<1>3. n \notin D /\ D \cup {n} = 1..n
    BY <1>1
<1>4. Naturals(g, D \cup {n})
    BY <1>1, <1>3 DEF Naturals
<1>5. Agree(g, f, D)
    BY <1>1, <1>3 DEF Agree
<1>6. g[n] = w[x]
    BY <1>1, <1>3
<1> HIDE DEF f, g, D, n
<1>7. SumOver(g, D \cup {n}) = SumOver(g, D) + g[n]
    BY <1>2, <1>3, <1>4, SumAdd
<1>8. SumOver(g, D) = SumOver(f, D)
    BY <1>2, <1>5, SumCongruence
<1>9. Along(w, s) = SumOver(f, D) /\ Along(w, t) = SumOver(g, D \cup {n})
    BY <1>1, <1>3 DEF Along, f, g
<1> QED
    BY <1>6, <1>7, <1>8, <1>9

LEMMA AlongTail ==
    ASSUME NEW I, NEW w \in [I -> Nat], NEW s \in Seq(I), s # <<>>
    PROVE  Along(w, s) = w[Head(s)] + Along(w, Tail(s))
<1> DEFINE T == {n \in Nat : \A t \in Seq(I) : Len(t) = n /\ t # <<>> =>
                     Along(w, t) = w[Head(t)] + Along(w, Tail(t))}
<1>1. 0 \in T
    BY EmptySeq
<1>2. ASSUME NEW n \in Nat, n \in T
      PROVE  n + 1 \in T
    <2>1. ASSUME NEW t \in Seq(I), Len(t) = n + 1, t # <<>>
          PROVE  Along(w, t) = w[Head(t)] + Along(w, Tail(t))
        <3>1. PICK u \in Seq(I), x \in I : t = Append(u, x)
            BY <2>1, SequenceEmptyOrAppend
        <3>2. Len(u) = n
            BY <2>1, <3>1
        <3>3. Along(w, t) = Along(w, u) + w[x]
            BY <3>1, AlongAppend
        <3>4. w[x] \in Nat
            OBVIOUS
        <3>5. CASE u = <<>>
            <4>1. Head(t) = x /\ Tail(t) = <<>>
                BY <3>1, <3>5, HeadTailAppend
            <4>2. Along(w, u) = 0 /\ Along(w, Tail(t)) = 0
                BY <3>5, <4>1, AlongEmpty
            <4>3. w[Head(t)] = w[x]
                BY <4>1
            <4> QED
                BY <3>3, <3>4, <4>2, <4>3
        <3>6. CASE u # <<>>
            <4>1. Head(t) = Head(u) /\ Tail(t) = Append(Tail(u), x)
                BY <3>1, <3>6, HeadTailAppend
            <4>2. Tail(u) \in Seq(I) /\ Head(u) \in I
                BY <3>6, HeadTailProperties
            <4>3. Along(w, Tail(t)) = Along(w, Tail(u)) + w[x]
                BY <4>1, <4>2, AlongAppend
            <4>4. Along(w, u) = w[Head(u)] + Along(w, Tail(u))
                BY <1>2, <3>2, <3>6
            <4>5. Along(w, Tail(u)) \in Nat /\ w[Head(u)] \in Nat
                BY <4>2, AlongType
            <4>6. w[Head(t)] = w[Head(u)]
                BY <4>1
            <4>7. Along(w, t) = (w[Head(u)] + Along(w, Tail(u))) + w[x]
                BY <3>3, <4>4
            <4> QED
                BY <3>4, <4>3, <4>5, <4>6, <4>7
        <3> QED
            BY <3>5, <3>6
    <2> QED
        BY <2>1
<1> HIDE DEF T
<1>3. Nat \subseteq T
    BY <1>1, <1>2, NatSetInduction
<1>4. Len(s) \in Nat
    OBVIOUS
<1> QED
    BY <1>3, <1>4 DEF T

\* What nothing in the sequence weighs, the sequence does not weigh either; and each
\* item weighs no more than the sequence.
LEMMA AlongBounds ==
    ASSUME NEW I, NEW w \in [I -> Nat], NEW s \in Seq(I)
    PROVE  /\ Along(w, s) = 0 <=> \A i \in DOMAIN s : w[s[i]] = 0
           /\ \A i \in DOMAIN s : w[s[i]] <= Along(w, s)
<1> DEFINE f == [i \in DOMAIN s |-> w[s[i]]]
<1>1. DOMAIN s = 1..Len(s) /\ Len(s) \in Nat /\ \A i \in DOMAIN s : s[i] \in I
    OBVIOUS
<1>2. IsFiniteSet(DOMAIN s)
    BY <1>1, FS_Interval
<1>3. Naturals(f, DOMAIN s)
    BY <1>1 DEF Naturals
<1> QED
    BY <1>2, <1>3, SumBounds DEF Along

\* Lighter items make a lighter sequence.
LEMMA AlongOrder ==
    ASSUME NEW I, NEW v \in [I -> Nat], NEW w \in [I -> Nat], NEW s \in Seq(I),
           \A i \in DOMAIN s : v[s[i]] <= w[s[i]]
    PROVE  Along(v, s) <= Along(w, s)
<1> DEFINE T == {n \in Nat : \A t \in Seq(I) :
                     Len(t) = n /\ (\A i \in DOMAIN t : v[t[i]] <= w[t[i]]) => Along(v, t) <= Along(w, t)}
<1>1. 0 \in T
    BY EmptySeq, AlongEmpty
<1>2. ASSUME NEW n \in Nat, n \in T
      PROVE  n + 1 \in T
    <2>1. ASSUME NEW t \in Seq(I), Len(t) = n + 1, \A i \in DOMAIN t : v[t[i]] <= w[t[i]]
          PROVE  Along(v, t) <= Along(w, t)
        <3>0. t # <<>>
            BY <2>1, EmptySeq
        <3>1. PICK u \in Seq(I), x \in I : t = Append(u, x)
            BY <3>0, SequenceEmptyOrAppend
        <3>2. Len(u) = n /\ (\A i \in DOMAIN u : i \in DOMAIN t /\ t[i] = u[i]) /\ n + 1 \in DOMAIN t /\ t[n + 1] = x
            BY <2>1, <3>1
        <3>3. Along(v, u) <= Along(w, u)
            BY <1>2, <2>1, <3>2
        <3>4. v[x] <= w[x] /\ v[x] \in Nat /\ w[x] \in Nat
            BY <2>1, <3>2
        <3>5. Along(v, t) = Along(v, u) + v[x] /\ Along(w, t) = Along(w, u) + w[x]
            BY <3>1, AlongAppend
        <3>6. Along(v, u) \in Nat /\ Along(w, u) \in Nat
            BY AlongType
        <3> QED
            BY <3>3, <3>4, <3>5, <3>6
    <2> QED
        BY <2>1
<1> HIDE DEF T
<1>3. Nat \subseteq T
    BY <1>1, <1>2, NatSetInduction
<1>4. Len(s) \in Nat
    OBVIOUS
<1> QED
    BY <1>3, <1>4 DEF T

=============================================================================
