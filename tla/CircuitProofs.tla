--------------------------- MODULE CircuitProofs ---------------------------
(***************************************************************************)
(* What the circuits and the match guarantee about the amounts of wallets  *)
(* and notes, for any field and any sizes: the facts the proofs about the  *)
(* darkpool rest on.                                                       *)
(***************************************************************************)
EXTENDS Darkpool, FiniteSetTheorems, NaturalsInduction, WellFoundedInduction, TLAPS

-----------------------------------------------------------------------------
(* Induction and sums *)

\* A nonempty set of naturals has a least element.
LEMMA LeastExists ==
    ASSUME NEW S \in SUBSET Nat, S # {}
    PROVE  \E x \in S : \A y \in S : x <= y
  <1>1. IsWellFoundedOn(OpToRel(<, Nat), Nat)
    BY NatLessThanWellFounded, Zenon
  <1>2. PICK x \in S : \A y \in S : ~(<<y, x>> \in OpToRel(<, Nat))
    BY <1>1, WFMin, Zenon
  <1>3. ASSUME NEW y \in S, y < x PROVE FALSE
    <2>1. <<y, x>> \in OpToRel(<, Nat)
      BY <1>3 DEF OpToRel
    <2> QED
      BY <1>2, <2>1, Zenon
  <1> QED
    BY <1>3

\* Induction over the naturals, stated for a set.
LEMMA SetInduction ==
    ASSUME NEW S, 0 \in S, \A n \in Nat : n \in S => n + 1 \in S
    PROVE  Nat \subseteq S
  <1> DEFINE T == Nat \ S
  <1>1. ASSUME T # {} PROVE FALSE
    <2>1. PICK x \in T : \A y \in T : x <= y
      BY <1>1, LeastExists, Zenon
    <2>2. x - 1 \in Nat /\ x - 1 \notin T
      BY <2>1
    <2>3. (x - 1) + 1 \in S
      BY <2>2
    <2> QED
      BY <2>3
  <1> QED
    BY <1>1

\* g sums f over every set of the family D, an element at a time.
Sums(g, f, D) ==
    g = [s \in D |-> IF s = {} THEN 0
                     ELSE f[CHOOSE x \in s : TRUE] + g[s \ {CHOOSE x \in s : TRUE}]]

\* The chosen element is one, and without it the set is smaller.
LEMMA Chosen ==
    ASSUME NEW s, IsFiniteSet(s), s # {}
    PROVE  /\ (CHOOSE x \in s : TRUE) \in s
           /\ \A x \in s : /\ IsFiniteSet(s \ {x}) /\ Cardinality(s \ {x}) \in Nat
                           /\ Cardinality(s) = Cardinality(s \ {x}) + 1
  <1>1. (CHOOSE x \in s : TRUE) \in s
    BY Zenon
  <1>2. ASSUME NEW x \in s
        PROVE  /\ IsFiniteSet(s \ {x}) /\ Cardinality(s \ {x}) \in Nat
               /\ Cardinality(s) = Cardinality(s \ {x}) + 1
    <2>1. IsFiniteSet(s \ {x}) /\ Cardinality(s \ {x}) = Cardinality(s) - 1
      BY FS_RemoveElement, Zenon
    <2>2. Cardinality(s \ {x}) \in Nat /\ Cardinality(s) \in Nat
      BY <2>1, FS_CardinalityType, Zenon
    <2> QED
      BY <2>1, <2>2
  <1> QED
    BY <1>1, <1>2

\* The recursive function behind SumFunctionOnSet exists.
LEMMA SumsExist ==
    ASSUME NEW S, IsFiniteSet(S), NEW f
    PROVE  \E g : Sums(g, f, SUBSET S)
  <1> DEFINE Small(k) == {s \in SUBSET S : Cardinality(s) <= k}
             Good == {k \in Nat : \E g : Sums(g, f, Small(k))}
             ch(s) == CHOOSE x \in s : TRUE
  <1>0. \A s \in SUBSET S : IsFiniteSet(s) /\ Cardinality(s) \in Nat
    BY FS_Subset, FS_CardinalityType, Zenon
  <1>1. \A s \in SUBSET S : Cardinality(s) = 0 <=> s = {}
    BY <1>0, FS_EmptySet, Zenon
  <1>2. 0 \in Good
    <2>1. \A s \in Small(0) : s = {}
      BY <1>0, <1>1
    <2>2. Sums([s \in Small(0) |-> 0], f, Small(0))
      BY <2>1, Zenon DEF Sums
    <2> QED
      BY <2>2, Zenon
  <1>3. ASSUME NEW k \in Nat, k \in Good PROVE k + 1 \in Good
    <2>1. PICK g : Sums(g, f, Small(k))
      BY <1>3
    <2> DEFINE h == [s \in Small(k + 1) |-> IF s = {} THEN 0 ELSE f[ch(s)] + g[s \ {ch(s)}]]
    <2>2. ASSUME NEW s \in Small(k + 1), s # {} PROVE s \ {ch(s)} \in Small(k)
      <3>1. ch(s) \in s /\ Cardinality(s \ {ch(s)}) \in Nat
            /\ Cardinality(s) = Cardinality(s \ {ch(s)}) + 1
        BY <1>0, <2>2, Chosen, Zenon
      <3> QED
        BY <3>1
    <2>3. \A s \in Small(k) : s \in Small(k + 1)
      BY <1>0
    <2>4. \A s \in Small(k) : h[s] = g[s]
      BY <2>1, <2>3, Zenon DEF Sums
    <2>5. Sums(h, f, Small(k + 1))
      <3>1. \A s \in Small(k + 1) : s # {} => h[s \ {ch(s)}] = g[s \ {ch(s)}]
        BY <2>2, <2>4, Zenon
      <3>2. h = [s \in Small(k + 1) |-> IF s = {} THEN 0 ELSE f[ch(s)] + h[s \ {ch(s)}]]
        <4> DEFINE h2 == [s \in Small(k + 1) |-> IF s = {} THEN 0 ELSE f[ch(s)] + h[s \ {ch(s)}]]
        <4> HIDE DEF Small
        <4>1. \A s \in Small(k + 1) : s # {} => h[s] = f[ch(s)] + h[s \ {ch(s)}]
          <5>1. \A s \in Small(k + 1) : s # {} => h[s] = f[ch(s)] + g[s \ {ch(s)}]
            BY Zenon
          <5> HIDE DEF h
          <5> QED
            BY <3>1, <5>1, Zenon
        <4>2. \A s \in Small(k + 1) : s = {} => h[s] = 0
          BY Zenon
        <4>3. \A s \in Small(k + 1) : h[s] = h2[s]
          <5> HIDE DEF h
          <5> QED
            BY <4>1, <4>2, Zenon
        <4>4. h = [s \in Small(k + 1) |-> h[s]]
          OBVIOUS
        <4> HIDE DEF h
        <4> QED
          BY <4>3, <4>4, Zenon
      <3> QED
        BY <3>2, Zenon DEF Sums
    <2> HIDE DEF h, Small
    <2>6. k + 1 \in Nat
      OBVIOUS
    <2> QED
      BY <2>5, <2>6, Zenon
  <1>4. Cardinality(S) \in Good
    <2>1. Nat \subseteq Good
      <3> HIDE DEF Good
      <3> QED BY <1>2, <1>3, SetInduction, Zenon
    <2> QED
      BY <1>0, <2>1, Zenon
  <1>5. Small(Cardinality(S)) = SUBSET S
    <2>1. \A s \in SUBSET S : Cardinality(s) <= Cardinality(S)
      BY FS_Subset
    <2> QED
      BY <2>1
  <1> QED
    BY <1>4, <1>5, Zenon

\* SumFunctionOnSet is such a sum.
LEMMA SumFunctionIs ==
    ASSUME NEW S, IsFiniteSet(S), NEW f
    PROVE  \E g : Sums(g, f, SUBSET S) /\ SumFunctionOnSet(f, S) = g[S]
  <1> DEFINE g == CHOOSE g : Sums(g, f, SUBSET S)
  <1>1. Sums(g, f, SUBSET S)
    BY SumsExist, Zenon
  <1>2. SumFunctionOnSet(f, S) = g[S]
    BY Zenon DEF SumFunctionOnSet, FoldFunctionOnSet, MapThenFoldSet, Sums
  <1> QED
    BY <1>1, <1>2, Zenon

\* Two such functions agree where the functions they sum do.
LEMMA SumsAgree ==
    ASSUME NEW S1, NEW S2, NEW f1, NEW f2, NEW g1, NEW g2,
           Sums(g1, f1, SUBSET S1), Sums(g2, f2, SUBSET S2),
           NEW S, S \subseteq S1, S \subseteq S2, IsFiniteSet(S),
           \A x \in S : f1[x] = f2[x] /\ f1[x] \in Int
    PROVE  g1[S] = g2[S] /\ g1[S] \in Int
  <1> DEFINE ch(s) == CHOOSE x \in s : TRUE
             Good == {k \in Nat : \A s \in SUBSET S :
                        Cardinality(s) = k => g1[s] = g2[s] /\ g1[s] \in Int}
  <1>0. \A s \in SUBSET S : IsFiniteSet(s) /\ Cardinality(s) \in Nat
    BY FS_Subset, FS_CardinalityType, Zenon
  <1>1. 0 \in Good
    <2>1. \A s \in SUBSET S : Cardinality(s) = 0 => s = {}
      BY <1>0, FS_EmptySet, Zenon
    <2>2. g1[{}] = 0 /\ g2[{}] = 0
      <3>1. {} \in SUBSET S1 /\ {} \in SUBSET S2
        OBVIOUS
      <3> QED
        BY <3>1, Zenon DEF Sums
    <2>3. 0 \in Nat /\ 0 \in Int
      OBVIOUS
    <2> QED
      BY <2>1, <2>2, <2>3, Zenon
  <1>2. ASSUME NEW k \in Nat, k \in Good PROVE k + 1 \in Good
    <2>1. ASSUME NEW s \in SUBSET S, Cardinality(s) = k + 1
          PROVE  g1[s] = g2[s] /\ g1[s] \in Int
      <3>1. s # {}
        <4>1. Cardinality({}) = 0
          BY FS_EmptySet, Zenon
        <4>2. k + 1 # 0
          OBVIOUS
        <4> QED
          BY <2>1, <4>1, <4>2, Zenon
      <3>2. /\ ch(s) \in s /\ s \ {ch(s)} \in SUBSET S
            /\ Cardinality(s \ {ch(s)}) = k
        <4>1. ch(s) \in s /\ Cardinality(s \ {ch(s)}) \in Nat
              /\ Cardinality(s) = Cardinality(s \ {ch(s)}) + 1
          BY <1>0, <3>1, Chosen, Zenon
        <4> QED
          BY <2>1, <4>1
      <3>3. g1[s \ {ch(s)}] = g2[s \ {ch(s)}] /\ g1[s \ {ch(s)}] \in Int
        BY <1>2, <3>2, Zenon
      <3>4. /\ g1[s] = f1[ch(s)] + g1[s \ {ch(s)}]
            /\ g2[s] = f2[ch(s)] + g2[s \ {ch(s)}]
        <4>1. s \in SUBSET S1 /\ s \in SUBSET S2
          OBVIOUS
        <4> QED
          BY <3>1, <4>1, Zenon DEF Sums
      <3>5. f1[ch(s)] = f2[ch(s)] /\ f1[ch(s)] \in Int
        BY <3>2, Zenon
      <3> HIDE DEF ch
      <3> QED
        BY <3>3, <3>4, <3>5
    <2>2. k + 1 \in Nat
      OBVIOUS
    <2> QED
      BY <2>1, <2>2, Zenon
  <1>3. Cardinality(S) \in Good
    <2>1. Nat \subseteq Good
      <3> HIDE DEF Good
      <3> QED BY <1>1, <1>2, SetInduction, Zenon
    <2> QED
      BY <1>0, <2>1
  <1> QED
    BY <1>3

\* A sum over the subsets of S gives the sums over the subsets of a smaller set.
LEMMA SumsRestrict ==
    ASSUME NEW S, NEW R \in SUBSET S, IsFiniteSet(R), NEW f, NEW g, NEW h,
           \A x \in R : f[x] \in Int,
           Sums(g, f, SUBSET S), Sums(h, f, SUBSET R)
    PROVE  g[R] = h[R]
  <1>1. R \subseteq S /\ R \subseteq R /\ \A x \in R : f[x] = f[x] /\ f[x] \in Int
    OBVIOUS
  <1> QED
    BY <1>1, SumsAgree

\* The sum over no element.
LEMMA SumEmpty ==
    ASSUME NEW f
    PROVE  SumFunctionOnSet(f, {}) = 0
  <1>1. PICK g : Sums(g, f, SUBSET {}) /\ SumFunctionOnSet(f, {}) = g[{}]
    BY FS_EmptySet, SumFunctionIs, Zenon
  <1>2. {} \in SUBSET {}
    OBVIOUS
  <1> QED
    BY <1>1, <1>2, Zenon DEF Sums

\* Sums of functions that agree on the set are equal.
LEMMA SumSame ==
    ASSUME NEW S, IsFiniteSet(S), NEW f1, NEW f2,
           \A x \in S : f1[x] = f2[x] /\ f1[x] \in Int
    PROVE  /\ SumFunctionOnSet(f1, S) = SumFunctionOnSet(f2, S)
           /\ SumFunctionOnSet(f1, S) \in Int
  <1>1. PICK g1 : Sums(g1, f1, SUBSET S) /\ SumFunctionOnSet(f1, S) = g1[S]
    BY SumFunctionIs, Zenon
  <1>2. PICK g2 : Sums(g2, f2, SUBSET S) /\ SumFunctionOnSet(f2, S) = g2[S]
    BY SumFunctionIs, Zenon
  <1> QED
    BY <1>1, <1>2, SumsAgree

\* The sum over a set is any of its elements and the sum over the rest.
LEMMA SumRemove ==
    ASSUME NEW S, IsFiniteSet(S), NEW f, \A x \in S : f[x] \in Int, NEW x \in S
    PROVE  /\ SumFunctionOnSet(f, S) = f[x] + SumFunctionOnSet(f, S \ {x})
           /\ SumFunctionOnSet(f, S \ {x}) \in Int
  <1> DEFINE T(s) == SumFunctionOnSet(f, s)
             ch(s) == CHOOSE y \in s : TRUE
             Good == {k \in Nat : \A s \in SUBSET S : Cardinality(s) = k =>
                        \A y \in s : T(s) = f[y] + T(s \ {y})}
  <1>0. \A s \in SUBSET S : IsFiniteSet(s) /\ Cardinality(s) \in Nat
    BY FS_Subset, FS_CardinalityType, Zenon
  <1>1. \A s \in SUBSET S : T(s) \in Int
    BY <1>0, SumSame, Zenon
  <1>2. ASSUME NEW s \in SUBSET S, s # {} PROVE T(s) = f[ch(s)] + T(s \ {ch(s)})
    <2> DEFINE R == s \ {ch(s)}
    <2>1. PICK g : Sums(g, f, SUBSET s) /\ T(s) = g[s]
      BY <1>0, SumFunctionIs, Zenon
    <2>2. R \in SUBSET S /\ s \in SUBSET s /\ R \in SUBSET s
          /\ \A y \in R : f[y] \in Int
      OBVIOUS
    <2>3. g[s] = f[ch(s)] + g[R]
      BY <1>2, <2>1, <2>2, Zenon DEF Sums
    <2> HIDE DEF R
    <2>4. IsFiniteSet(R)
      BY <1>0, <2>2, Zenon
    <2>5. PICK h : Sums(h, f, SUBSET R) /\ T(R) = h[R]
      BY <2>4, SumFunctionIs, Zenon
    <2>6. g[R] = h[R]
      BY <2>1, <2>2, <2>4, <2>5, SumsRestrict
    <2>7. T(s) = f[ch(s)] + T(R)
      BY <2>1, <2>3, <2>5, <2>6, Zenon
    <2> QED
      BY <2>7, Zenon DEF R
  <1> HIDE DEF T
  <1>3. 0 \in Good
    <2>1. \A s \in SUBSET S : Cardinality(s) = 0 => s = {}
      BY <1>0, FS_EmptySet, Zenon
    <2> QED
      BY <2>1
  <1>4. ASSUME NEW k \in Nat, k \in Good PROVE k + 1 \in Good
    <2>1. ASSUME NEW s \in SUBSET S, Cardinality(s) = k + 1, NEW y \in s, y # ch(s)
          PROVE  T(s) = f[y] + T(s \ {y})
      <3> DEFINE c == ch(s)
                 A == s \ {c}
                 B == s \ {y}
      <3>1. c \in s
        BY Zenon
      <3> HIDE DEF c
      <3>2. /\ A \in SUBSET S /\ B \in SUBSET S /\ y \in A /\ c \in B /\ B # {}
            /\ A \ {y} = B \ {c} /\ A \ {y} \in SUBSET S
        BY <2>1, <3>1 DEF c
      <3>3. Cardinality(A) = k /\ Cardinality(B) = k
        <4>1. /\ Cardinality(A) \in Nat /\ Cardinality(s) = Cardinality(A) + 1
              /\ Cardinality(B) \in Nat /\ Cardinality(s) = Cardinality(B) + 1
          BY <1>0, <3>1, Chosen, Zenon
        <4> QED
          BY <2>1, <4>1
      <3> HIDE DEF A, B
      <3>4. T(A) = f[y] + T(A \ {y}) /\ T(B) = f[c] + T(B \ {c})
        BY <1>4, <3>2, <3>3, Zenon
      <3>5. T(s) = f[c] + T(A)
        BY <1>2, Zenon DEF c, A
      <3>6. f[c] \in Int /\ f[y] \in Int /\ T(A \ {y}) \in Int
        BY <1>1, <3>1, <3>2
      <3>7. T(s) = f[y] + T(B)
        <4>1. T(A \ {y}) = T(B \ {c})
          BY <3>2, Zenon
        <4> QED
          BY <3>4, <3>5, <3>6, <4>1
      <3> QED
        BY <3>7, Zenon DEF B
    <2>2. k + 1 \in Nat
      OBVIOUS
    <2> QED
      BY <1>2, <2>1, <2>2, Zenon
  <1>5. Cardinality(S) \in Good
    <2>1. Nat \subseteq Good
      <3> HIDE DEF Good
      <3> QED BY <1>3, <1>4, SetInduction, Zenon
    <2> QED
      BY <1>0, <2>1
  <1>6. T(S) = f[x] + T(S \ {x})
    BY <1>5
  <1>7. T(S \ {x}) \in Int
    BY <1>1
  <1> QED
    BY <1>6, <1>7, Zenon DEF T

\* What holds of the empty set, and of a nonempty set when it holds of the set
\* without some element, holds of every subset of a finite set.
LEMMA SubsetInduction ==
    ASSUME NEW S, IsFiniteSet(S), NEW G, {} \in G,
           \A T \in SUBSET S : \A x \in T : T \ {x} \in G => T \in G
    PROVE  \A T \in SUBSET S : T \in G
  <1> DEFINE Good == {k \in Nat : \A T \in SUBSET S : Cardinality(T) = k => T \in G}
  <1>0. \A T \in SUBSET S : IsFiniteSet(T) /\ Cardinality(T) \in Nat
    BY FS_Subset, FS_CardinalityType, Zenon
  <1>1. 0 \in Good
    <2>1. \A T \in SUBSET S : Cardinality(T) = 0 => T = {}
      BY <1>0, FS_EmptySet, Zenon
    <2>2. 0 \in Nat
      OBVIOUS
    <2> QED
      BY <2>1, <2>2, Zenon
  <1>2. ASSUME NEW k \in Nat, k \in Good PROVE k + 1 \in Good
    <2>1. ASSUME NEW T \in SUBSET S, Cardinality(T) = k + 1 PROVE T \in G
      <3>1. T # {}
        <4>1. Cardinality({}) = 0 /\ k + 1 # 0
          BY FS_EmptySet
        <4> QED
          BY <2>1, <4>1, Zenon
      <3>2. PICK x \in T : TRUE
        BY <3>1
      <3>3. Cardinality(T \ {x}) = k /\ T \ {x} \in SUBSET S
        <4>1. Cardinality(T \ {x}) \in Nat /\ Cardinality(T) = Cardinality(T \ {x}) + 1
          BY <1>0, <3>1, Chosen, Zenon
        <4> QED
          BY <2>1, <4>1
      <3> QED
        BY <1>2, <3>3
    <2>2. k + 1 \in Nat
      OBVIOUS
    <2> QED
      BY <2>1, <2>2, Zenon
  <1>3. Nat \subseteq Good
    <2> HIDE DEF Good
    <2> QED BY <1>1, <1>2, SetInduction, Zenon
  <1> QED
    BY <1>0, <1>3

\* The sum over a set with one more element.
LEMMA SumAdd ==
    ASSUME NEW S, IsFiniteSet(S), NEW x, x \notin S, NEW f, \A y \in S \cup {x} : f[y] \in Int
    PROVE  /\ SumFunctionOnSet(f, S \cup {x}) = f[x] + SumFunctionOnSet(f, S)
           /\ SumFunctionOnSet(f, S) \in Int
  <1> DEFINE T == S \cup {x}
  <1>1. IsFiniteSet(T)
    BY FS_AddElement, Zenon
  <1>2. T \ {x} = S /\ x \in T
    OBVIOUS
  <1>3. \A y \in T : f[y] \in Int
    OBVIOUS
  <1> HIDE DEF T
  <1>4. SumFunctionOnSet(f, T) = f[x] + SumFunctionOnSet(f, T \ {x})
        /\ SumFunctionOnSet(f, T \ {x}) \in Int
    BY <1>1, <1>2, <1>3, SumRemove, Zenon
  <1> QED
    BY <1>2, <1>4, Zenon DEF T

\* A sum of natural numbers is one; bits add up to at most their number.
LEMMA SumNat ==
    ASSUME NEW S, IsFiniteSet(S), NEW f, \A x \in S : f[x] \in Nat
    PROVE  SumFunctionOnSet(f, S) \in Nat
  <1> DEFINE G == {T \in SUBSET S : SumFunctionOnSet(f, T) \in Nat}
  <1>1. {} \in G
    BY SumEmpty
  <1>2. ASSUME NEW T \in SUBSET S, NEW x \in T, T \ {x} \in G PROVE T \in G
    <2>1. IsFiniteSet(T) /\ \A y \in T : f[y] \in Int
      BY FS_Subset
    <2>2. SumFunctionOnSet(f, T) = f[x] + SumFunctionOnSet(f, T \ {x})
      BY <2>1, SumRemove, Zenon
    <2>3. f[x] \in Nat /\ SumFunctionOnSet(f, T \ {x}) \in Nat
      BY <1>2
    <2>4. SumFunctionOnSet(f, T) \in Nat
      BY <2>2, <2>3
    <2> QED
      BY <2>4
  <1>3. S \in SUBSET S
    OBVIOUS
  <1>4. S \in G
    <2> HIDE DEF G
    <2> QED BY <1>1, <1>2, <1>3, SubsetInduction, Zenon
  <1> QED
    BY <1>4

\* A sum of bits is at most the number of them.
LEMMA SumBits ==
    ASSUME NEW S, IsFiniteSet(S), NEW f, \A x \in S : f[x] \in {0, 1}
    PROVE  SumFunctionOnSet(f, S) \in Nat /\ SumFunctionOnSet(f, S) <= Cardinality(S)
  <1> DEFINE G == {T \in SUBSET S : SumFunctionOnSet(f, T) <= Cardinality(T)}
  <1>0. \A x \in S : f[x] \in Nat
    OBVIOUS
  <1>1. {} \in G
    <2>1. SumFunctionOnSet(f, {}) = 0 /\ Cardinality({}) = 0
      BY SumEmpty, FS_EmptySet, Zenon
    <2> QED
      BY <2>1
  <1>2. ASSUME NEW T \in SUBSET S, NEW x \in T, T \ {x} \in G PROVE T \in G
    <2>1. IsFiniteSet(T) /\ (\A y \in T : f[y] \in Int) /\ T # {}
      BY FS_Subset
    <2>2. SumFunctionOnSet(f, T) = f[x] + SumFunctionOnSet(f, T \ {x})
          /\ SumFunctionOnSet(f, T \ {x}) \in Int
      BY <2>1, SumRemove, Zenon
    <2>3. Cardinality(T \ {x}) \in Nat /\ Cardinality(T) = Cardinality(T \ {x}) + 1
      BY <2>1, Chosen, Zenon
    <2>4. f[x] \in {0, 1} /\ SumFunctionOnSet(f, T \ {x}) <= Cardinality(T \ {x})
      BY <1>2
    <2>5. SumFunctionOnSet(f, T) <= Cardinality(T)
      BY <2>2, <2>3, <2>4
    <2> QED
      BY <2>5
  <1>3. S \in SUBSET S
    OBVIOUS
  <1>4. S \in G
    <2> HIDE DEF G
    <2> QED BY <1>1, <1>2, <1>3, SubsetInduction, Zenon
  <1> QED
    BY <1>0, <1>4, SumNat

\* A sum all of whose terms are zero but for one is that term.
LEMMA SumZero ==
    ASSUME NEW S, IsFiniteSet(S), NEW f, \A x \in S : f[x] = 0
    PROVE  SumFunctionOnSet(f, S) = 0
  <1> DEFINE G == {T \in SUBSET S : SumFunctionOnSet(f, T) = 0}
  <1>1. {} \in G
    BY SumEmpty
  <1>2. ASSUME NEW T \in SUBSET S, NEW x \in T, T \ {x} \in G PROVE T \in G
    <2>1. IsFiniteSet(T) /\ \A y \in T : f[y] \in Int
      BY FS_Subset
    <2>2. SumFunctionOnSet(f, T) = f[x] + SumFunctionOnSet(f, T \ {x})
      BY <2>1, SumRemove, Zenon
    <2> QED
      BY <1>2, <2>2
  <1>3. S \in SUBSET S
    OBVIOUS
  <1>4. S \in G
    <2> HIDE DEF G
    <2> QED BY <1>1, <1>2, <1>3, SubsetInduction, Zenon
  <1> QED
    BY <1>4

\* A sum with one term that may differ from zero is that term.
LEMMA SumOne ==
    ASSUME NEW S, IsFiniteSet(S), NEW f, NEW k \in S, f[k] \in Int, \A x \in S : x # k => f[x] = 0
    PROVE  SumFunctionOnSet(f, S) = f[k]
  <1>1. \A x \in S : f[x] \in Int
    OBVIOUS
  <1>2. SumFunctionOnSet(f, S) = f[k] + SumFunctionOnSet(f, S \ {k})
    BY <1>1, SumRemove, Zenon
  <1>3. IsFiniteSet(S \ {k}) /\ \A x \in S \ {k} : f[x] = 0
    BY FS_RemoveElement
  <1>4. SumFunctionOnSet(f, S \ {k}) = 0
    BY <1>3, SumZero, Zenon
  <1> QED
    BY <1>2, <1>4

\* A sum changes by as much as its only changed term.
LEMMA SumChange ==
    ASSUME NEW S, IsFiniteSet(S), NEW f, NEW g, NEW k \in S,
           \A x \in S : f[x] \in Int /\ g[x] \in Int /\ (x # k => f[x] = g[x])
    PROVE  /\ SumFunctionOnSet(g, S) - SumFunctionOnSet(f, S) = g[k] - f[k]
           /\ SumFunctionOnSet(f, S) \in Int /\ SumFunctionOnSet(g, S) \in Int
  <1>1. SumFunctionOnSet(f, S) = f[k] + SumFunctionOnSet(f, S \ {k})
        /\ SumFunctionOnSet(f, S \ {k}) \in Int
    BY SumRemove
  <1>2. SumFunctionOnSet(g, S) = g[k] + SumFunctionOnSet(g, S \ {k})
        /\ SumFunctionOnSet(g, S \ {k}) \in Int
    BY SumRemove
  <1>3. IsFiniteSet(S \ {k}) /\ \A x \in S \ {k} : f[x] = g[x] /\ f[x] \in Int
    BY FS_RemoveElement
  <1>4. SumFunctionOnSet(f, S \ {k}) = SumFunctionOnSet(g, S \ {k})
    BY <1>3, SumSame, Zenon
  <1> QED
    BY <1>1, <1>2, <1>4

-----------------------------------------------------------------------------
(* Integers modulo P *)

\* A remainder lies below the modulus.
LEMMA ModRange ==
    ASSUME NEW a \in Int, NEW n \in Nat \ {0}
    PROVE  a % n \in 0..(n - 1) /\ a % n \in Nat
  OBVIOUS

\* Division with remainder.
LEMMA DivMod ==
    ASSUME NEW a \in Int, NEW n \in Nat \ {0}
    PROVE  a % n = a - n * (a \div n) /\ a \div n \in Int
  BY Z3

\* A remainder differs from the number by a multiple of the modulus.
LEMMA ModQuotient ==
    ASSUME NEW a \in Int, NEW n \in Nat \ {0}
    PROVE  \E k \in Int : a % n = a + k * n
  <1> DEFINE q == a \div n
  <1>1. a % n = a - n * q /\ q \in Int /\ -q \in Int
    BY DivMod
  <1> HIDE DEF q
  <1>2. a % n = a + (-q) * n
    BY <1>1
  <1> QED
    BY <1>1, <1>2, Zenon

\* A remainder is at most the number, when that is not negative.
LEMMA ModLe ==
    ASSUME NEW a \in Nat, NEW n \in Nat \ {0}
    PROVE  a % n <= a
  <1> DEFINE q == a \div n
  <1>1. q \in Nat
    OBVIOUS
  <1>2. a % n = a - n * q
    BY DivMod
  <1> HIDE DEF q
  <1>3. n * q >= 0 /\ n * q \in Int
    BY <1>1
  <1> QED
    BY <1>2, <1>3

\* A nonzero multiple of n is at least n away from zero.
LEMMA Multiple ==
    ASSUME NEW k \in Int, NEW n \in Nat \ {0}
    PROVE  /\ k >= 1 => k * n >= n
           /\ k <= -1 => k * n <= -n
           /\ k * n \in Int
  OBVIOUS

\* The modulus of the field is above one.
LEMMA FieldPositive == P \in Nat \ {0} /\ P > 1
  BY FieldOrder

\* Congruence modulo the order of the field.
Cong(x, y) == x \in Int /\ y \in Int /\ \E k \in Int : x = y + k * P

\* Reducing modulo P keeps the residue and gives a scalar.
LEMMA CongMod ==
    ASSUME NEW a \in Int
    PROVE  Cong(a % P, a) /\ a % P \in Scalar
  <1>1. PICK k \in Int : a % P = a + k * P
    BY FieldPositive, ModQuotient, Zenon
  <1>2. a % P \in 0..(P - 1) /\ a % P \in Int
    BY FieldPositive, ModRange
  <1> QED
    BY <1>1, <1>2 DEF Cong, Scalar

\* Congruences can be added and subtracted.
LEMMA CongAdd ==
    ASSUME NEW a, NEW b, NEW c, NEW d, Cong(a, b), Cong(c, d)
    PROVE  Cong(a + c, b + d) /\ Cong(a - c, b - d)
  <1>1. PICK k \in Int : a = b + k * P
    BY DEF Cong
  <1>2. PICK l \in Int : c = d + l * P
    BY DEF Cong
  <1>3. a \in Int /\ b \in Int /\ c \in Int /\ d \in Int
    BY DEF Cong
  <1>4. a + c = (b + d) + (k + l) * P /\ k + l \in Int
    BY <1>1, <1>2, <1>3, FieldPositive
  <1>5. a - c = (b - d) + (k - l) * P /\ k - l \in Int
    BY <1>1, <1>2, <1>3, FieldPositive
  <1> QED
    BY <1>3, <1>4, <1>5 DEF Cong

\* Congruence is transitive.
LEMMA CongTrans ==
    ASSUME NEW a, NEW b, NEW c, Cong(a, b), Cong(b, c)
    PROVE  Cong(a, c)
  <1>1. PICK k \in Int : a = b + k * P
    BY DEF Cong
  <1>2. PICK l \in Int : b = c + l * P
    BY DEF Cong
  <1>3. a \in Int /\ b \in Int /\ c \in Int
    BY DEF Cong
  <1>4. a = c + (k + l) * P /\ k + l \in Int
    BY <1>1, <1>2, <1>3, FieldPositive
  <1> QED
    BY <1>3, <1>4 DEF Cong

\* Congruence is reflexive.
LEMMA CongSelf == ASSUME NEW a \in Int PROVE Cong(a, a)
  <1>1. a = a + 0 * P /\ 0 \in Int
    BY FieldPositive
  <1> QED
    BY <1>1 DEF Cong

\* A scalar is at most any natural number it is congruent to, and equal to any
\* scalar.
LEMMA CongLe ==
    ASSUME NEW x \in Scalar, NEW y \in Nat, Cong(x, y)
    PROVE  x <= y
  <1>1. PICK k \in Int : x = y + k * P
    BY DEF Cong
  <1> QED
    BY <1>1, FieldPositive, Multiple DEF Scalar

\* Congruent scalars are equal.
LEMMA CongEq ==
    ASSUME NEW x \in Scalar, NEW y \in Scalar, Cong(x, y)
    PROVE  x = y
  <1>1. PICK k \in Int : x = y + k * P
    BY DEF Cong
  <1> QED
    BY <1>1, FieldPositive, Multiple DEF Scalar

\* A scalar that represents a negative number is large.
LEMMA CongNegative ==
    ASSUME NEW x \in Scalar, NEW y \in Int, y < 0, Cong(x, y)
    PROVE  x >= y + P
  <1>1. PICK k \in Int : x = y + k * P
    BY DEF Cong
  <1>2. k >= 1
    <2>1. k <= 0 => k * P <= 0
      BY FieldPositive
    <2> QED
      BY <1>1, <2>1, FieldPositive, Multiple DEF Scalar
  <1> QED
    BY <1>1, <1>2, FieldPositive, Multiple DEF Scalar


-----------------------------------------------------------------------------
(* Powers of two *)

\* The powers of two the gadgets use are positive and grow.
LEMMA PowerPositive ==
    ASSUME NEW n \in 0..(ScalarMaxBits + 1)
    PROVE  2^n \in Nat \ {0} /\ 2^n >= n + 1
  <1> DEFINE S == {k \in Nat : k <= ScalarMaxBits + 1 => 2^k \in Nat /\ 2^k >= k + 1}
  <1>0. ScalarMaxBits \in Nat
    BY PowersOfTwo
  <1>1. 0 \in S
    BY PowersOfTwo
  <1>2. ASSUME NEW k \in Nat, k \in S PROVE k + 1 \in S
    <2> SUFFICES ASSUME k + 1 <= ScalarMaxBits + 1
                 PROVE  2^(k + 1) \in Nat /\ 2^(k + 1) >= (k + 1) + 1
      OBVIOUS
    <2>1. 2^k \in Nat /\ 2^k >= k + 1
      BY <1>0, <1>2
    <2>2. 2^(k + 1) = 2 * 2^k
      BY <1>0, PowersOfTwo
    <2> QED
      BY <2>1, <2>2
  <1>3. n \in S
    <2> HIDE DEF S
    <2> QED
      BY <1>0, <1>1, <1>2, SetInduction
  <1> QED
    BY <1>0, <1>3

\* The powers of two are monotone.
LEMMA PowerMonotone ==
    ASSUME NEW i \in 0..(ScalarMaxBits + 1), NEW j \in 0..(ScalarMaxBits + 1), i <= j
    PROVE  2^i <= 2^j
  <1> DEFINE S == {k \in Nat : i + k <= ScalarMaxBits + 1 => 2^i <= 2^(i + k)}
  <1>0. ScalarMaxBits \in Nat
    BY PowersOfTwo
  <1>1. 0 \in S
    BY <1>0, PowerPositive
  <1>2. ASSUME NEW k \in Nat, k \in S PROVE k + 1 \in S
    <2> SUFFICES ASSUME i + (k + 1) <= ScalarMaxBits + 1
                 PROVE  2^i <= 2^(i + (k + 1))
      OBVIOUS
    <2>1. 2^i <= 2^(i + k) /\ i + k \in 0..ScalarMaxBits /\ i + (k + 1) = (i + k) + 1
      BY <1>0, <1>2
    <2>2. 2^((i + k) + 1) = 2 * 2^(i + k)
      BY <2>1, PowersOfTwo
    <2>3. 2^i \in Nat /\ 2^(i + k) \in Nat
      BY <1>0, <2>1, PowerPositive
    <2> QED
      BY <2>1, <2>2, <2>3
  <1>3. j - i \in S
    <2>1. j - i \in Nat
      BY <1>0
    <2> HIDE DEF S
    <2> QED
      BY <2>1, <1>1, <1>2, SetInduction
  <1>4. i + (j - i) = j
    BY <1>0
  <1> QED
    BY <1>0, <1>3, <1>4

\* The widths of amounts and of fractions leave room in the field.
LEMMA Widths ==
    /\ 2^AmountBits \in Nat \ {0} /\ 2 * 2^AmountBits <= P
    /\ 2^Precision \in Nat \ {0} /\ 2^Precision < P
  <1> DEFINE top == ScalarMaxBits - 1
             almost == ScalarMaxBits - 2
  <1>1. /\ ScalarMaxBits \in Nat /\ P \in Nat /\ 2^top < P
        /\ AmountBits \in 1..almost /\ Precision \in 0..top
    BY PowersOfTwo, FieldOrder, WidthsFit, PrecisionFits
  <1>2. /\ top \in 0..(ScalarMaxBits + 1) /\ almost \in 0..ScalarMaxBits
        /\ almost \in 0..(ScalarMaxBits + 1)
        /\ AmountBits \in 0..(ScalarMaxBits + 1) /\ Precision \in 0..(ScalarMaxBits + 1)
        /\ AmountBits <= almost /\ Precision <= top /\ almost + 1 = top
    BY <1>1
  <1> HIDE DEF top, almost
  <1>3. 2^top = 2 * 2^almost
    BY <1>2, PowersOfTwo
  <1>4. 2^AmountBits <= 2^almost /\ 2^Precision <= 2^top
    BY <1>2, PowerMonotone
  <1>5. 2^AmountBits \in Nat \ {0} /\ 2^Precision \in Nat \ {0} /\ 2^almost \in Nat
    BY <1>2, PowerPositive
  <1> HIDE DEF top, almost
  <1> QED
    BY <1>1, <1>3, <1>4, <1>5

-----------------------------------------------------------------------------
(* Scalars *)

\* A scalar is a natural below P and its own residue.
LEMMA ScalarNat == ASSUME NEW a \in Scalar PROVE a \in Nat /\ a \in Int /\ a < P /\ a % P = a
  BY FieldPositive DEF Scalar

\* Bits are scalars.
LEMMA Bits == 0 \in Scalar /\ 1 \in Scalar
  BY FieldPositive DEF Scalar

\* The field operations return scalars.
LEMMA FieldOps ==
    ASSUME NEW a \in Int, NEW b \in Int
    PROVE  FAdd(a, b) \in Scalar /\ FSub(a, b) \in Scalar /\ FMul(a, b) \in Scalar
           /\ FNeg(a) \in Scalar
  <1>1. a + b \in Int /\ a - b \in Int /\ a * b \in Int /\ -a \in Int
    OBVIOUS
  <1> QED
    BY <1>1, CongMod, Zenon DEF FAdd, FSub, FMul, FNeg

\* The inverse is a scalar, the zero that stands for a missing inverse included.
LEMMA FInvScalar == ASSUME NEW a PROVE FInv(a) \in Scalar
  BY Bits, Zenon DEF FInv

\* The tests of the circuits return bits, and one exactly when they hold.
LEMMA FSubZero ==
    ASSUME NEW a \in Scalar, NEW b \in Scalar
    PROVE  FSub(a, b) = 0 <=> a = b
  <1>1. a \in Int /\ b \in Int /\ a - b \in Int /\ a - b > -P /\ a - b < P
    BY FieldPositive DEF Scalar
  <1>2. PICK k \in Int : (a - b) % P = (a - b) + k * P
    BY <1>1, FieldPositive, ModQuotient, Zenon
  <1>3. ASSUME (a - b) % P = 0 PROVE a = b
    BY <1>1, <1>2, <1>3, FieldPositive, Multiple
  <1>4. ASSUME a = b PROVE (a - b) % P = 0
    BY <1>1, <1>4, FieldPositive
  <1> QED
    BY <1>3, <1>4 DEF FSub

\* The equality gadgets return bits.
LEMMA EqBit ==
    ASSUME NEW a, NEW b
    PROVE  Eq(a, b).val \in {0, 1} /\ EqZero(a).val \in {0, 1}
  BY DEF Eq, EqZero

\* On scalars the equality gadgets decide equality.
LEMMA EqIs ==
    ASSUME NEW a \in Scalar, NEW b \in Scalar
    PROVE  /\ EqZero(FSub(a, b)).val = IF a = b THEN 1 ELSE 0
           /\ Eq(a, b).val = IF a = b THEN 1 ELSE 0
           /\ EqZero(a).val = IF a = 0 THEN 1 ELSE 0
           /\ NotEqual(a, b).val = IF a = b THEN 0 ELSE 1
  <1>1. EqZero(FSub(a, b)).val = IF a = b THEN 1 ELSE 0
    BY FSubZero DEF EqZero
  <1>2. FSub(1, 1) = 0 /\ FSub(1, 0) = 1
    BY FieldPositive, Bits, FSubZero, ScalarNat DEF FSub
  <1> QED
    BY <1>1, <1>2 DEF Eq, EqZero, NotEqual

-----------------------------------------------------------------------------
(* Recursive definitions over 0..n *)

\* Steps F[i] on a set T, from c, define a function on 0..n.
Iterates(f, c, F, n) == f[0] = c /\ \A i \in 1..n : f[i] = F[i][f[i - 1]]

\* A function defined by recursion over 0..n exists and stays in its range.
LEMMA IterateExists ==
    ASSUME NEW n \in Nat, NEW T, NEW c \in T, NEW F,
           \A i \in 1..n : \A t \in T : F[i][t] \in T
    PROVE  \E f \in [0..n -> T] : Iterates(f, c, F, n)
  <1> DEFINE Exists(k) == \E f \in [0..k -> T] : Iterates(f, c, F, k)
             S == {k \in Nat : k <= n => Exists(k)}
  <1>1. Exists(0)
    <2> DEFINE f == [i \in 0..0 |-> c]
    <2>1. f \in [0..0 -> T] /\ Iterates(f, c, F, 0)
      BY DEF Iterates
    <2> HIDE DEF f
    <2> QED
      BY <2>1, Zenon
  <1>2. ASSUME NEW k \in Nat, Exists(k), k + 1 <= n PROVE Exists(k + 1)
    <2>1. PICK f \in [0..k -> T] : Iterates(f, c, F, k)
      BY <1>2, Zenon
    <2> DEFINE last == F[k + 1][f[k]]
               g == [i \in 0..(k + 1) |-> IF i = k + 1 THEN last ELSE f[i]]
    <2>2. last \in T
      <3>1. k + 1 \in 1..n /\ f[k] \in T
        BY <1>2
      <3> QED
        BY <3>1, Zenon
    <2>3. /\ g \in [0..(k + 1) -> T] /\ g[0] = f[0] /\ g[k + 1] = last
          /\ \A i \in 0..k : g[i] = f[i]
      <3> HIDE DEF last
      <3> QED
        BY <2>2
    <2> HIDE DEF g, last
    <2>4. ASSUME NEW i \in 1..(k + 1) PROVE g[i] = F[i][g[i - 1]]
      <3>1. i - 1 \in 0..k /\ (i # k + 1 => i \in 1..k /\ i \in 0..k) /\ (i = k + 1 => i - 1 = k)
        OBVIOUS
      <3>2. CASE i = k + 1
        BY <2>3, <3>1, <3>2, Zenon DEF last
      <3>3. CASE i # k + 1
        BY <2>1, <2>3, <3>1, <3>3, Zenon DEF Iterates
      <3> QED
        BY <3>2, <3>3
    <2>5. Iterates(g, c, F, k + 1)
      BY <2>1, <2>3, <2>4, Zenon DEF Iterates
    <2> QED
      BY <2>3, <2>5, Zenon
  <1> HIDE DEF Exists
  <1>3. 0 \in S
    BY <1>1
  <1>4. ASSUME NEW k \in Nat, k \in S PROVE k + 1 \in S
    BY <1>2, <1>4
  <1>5. n \in S
    <2> HIDE DEF S
    <2> QED
      BY <1>3, <1>4, SetInduction, Zenon
  <1> QED
    BY <1>5 DEF Exists

\* What holds at first and is kept by every step holds throughout.
LEMMA IterateInvariant ==
    ASSUME NEW n \in Nat, NEW f, NEW T, f[0] \in T,
           \A i \in 1..n : f[i - 1] \in T => f[i] \in T
    PROVE  \A i \in 0..n : f[i] \in T
  <1> DEFINE S == {k \in Nat : k <= n => f[k] \in T}
  <1>1. 0 \in S
    OBVIOUS
  <1>2. ASSUME NEW k \in Nat, k \in S PROVE k + 1 \in S
    <2> SUFFICES ASSUME k + 1 <= n PROVE f[k + 1] \in T
      OBVIOUS
    <2>1. k + 1 \in 1..n /\ (k + 1) - 1 = k /\ f[k] \in T
      BY <1>2
    <2> QED
      BY <2>1
  <1>3. Nat \subseteq S
    <2> HIDE DEF S
    <2> QED
      BY <1>1, <1>2, SetInduction, Zenon
  <1> QED
    BY <1>3

\* A function on 1..n is a sequence of length n.
LEMMA FunSeq ==
    ASSUME NEW n \in Nat, NEW X, NEW f \in [1..n -> X]
    PROVE  f \in Seq(X) /\ Len(f) = n /\ DOMAIN f = 1..n
  OBVIOUS

-----------------------------------------------------------------------------
(* Bits *)

\* What scalar_from_bits_le computes, as a function of the bits taken.
Horner(f, bits, d) ==
    f = [i \in 0..d |-> IF i = 0 THEN 0 ELSE FAdd(FMul(f[i - 1], 2), bits[d - i + 1])]

\* The recursion behind scalar_from_bits_le has a solution.
LEMMA HornerExists ==
    ASSUME NEW bits, NEW d \in Nat, d = Len(bits), \A j \in 1..d : bits[j] \in Int
    PROVE  \E f : Horner(f, bits, d) /\ scalar_from_bits_le(bits) = f[d]
  <1> DEFINE F == [i \in 1..d |-> [t \in Scalar |-> FAdd(FMul(t, 2), bits[d - i + 1])]]
  <1>1. ASSUME NEW i \in 1..d, NEW t \in Scalar
        PROVE  F[i][t] = FAdd(FMul(t, 2), bits[d - i + 1]) /\ F[i][t] \in Scalar
    <2>1. d - i + 1 \in 1..d /\ 2 \in Int
      OBVIOUS
    <2>2. FAdd(FMul(t, 2), bits[d - i + 1]) \in Scalar
      BY <2>1, ScalarNat, FieldOps, Zenon
    <2> QED
      BY <2>2, Zenon
  <1> HIDE DEF F
  <1>2. PICK f \in [0..d -> Scalar] : Iterates(f, 0, F, d)
    BY <1>1, Bits, IterateExists, Zenon
  <1>3. ASSUME NEW i \in 0..d
        PROVE  f[i] = IF i = 0 THEN 0 ELSE FAdd(FMul(f[i - 1], 2), bits[d - i + 1])
    <2>1. i # 0 => i \in 1..d /\ i - 1 \in 0..d
      OBVIOUS
    <2> QED
      BY <1>1, <1>2, <2>1, Zenon DEF Iterates
  <1>4. f = [i \in 0..d |-> f[i]]
    BY Zenon
  <1>5. Horner(f, bits, d)
    BY <1>3, <1>4, Zenon DEF Horner
  <1> QED
    BY <1>5, Zenon DEF Horner, scalar_from_bits_le

\* The value of d bits is a scalar of d bits.
LEMMA HornerBound ==
    ASSUME NEW bits, NEW d \in 0..(ScalarMaxBits + 1), d = Len(bits),
           \A j \in 1..d : bits[j] \in {0, 1}
    PROVE  scalar_from_bits_le(bits) \in Scalar /\ scalar_from_bits_le(bits) < 2^d
  <1>0. d \in Nat /\ ScalarMaxBits \in Nat
    BY PowersOfTwo
  <1>1. PICK f : Horner(f, bits, d) /\ scalar_from_bits_le(bits) = f[d]
    BY <1>0, HornerExists
  <1> DEFINE S == {k \in Nat : k <= d => f[k] \in Scalar /\ f[k] < 2^k}
  <1>2. 0 \in S
    <2>1. 0 \in 0..d
      BY <1>0
    <2>2. f[0] = 0
      BY <1>1, <2>1, Zenon DEF Horner
    <2> QED
      BY <2>2, Bits, PowersOfTwo
  <1>3. ASSUME NEW k \in Nat, k \in S PROVE k + 1 \in S
    <2> SUFFICES ASSUME k + 1 <= d PROVE f[k + 1] \in Scalar /\ f[k + 1] < 2^(k + 1)
      OBVIOUS
    <2> DEFINE b == bits[d - (k + 1) + 1]
               v == f[k]
    <2>1. k + 1 \in 0..d /\ k + 1 # 0 /\ (k + 1) - 1 = k /\ d - (k + 1) + 1 \in 1..d
      BY <1>0
    <2>2. f[k + 1] = FAdd(FMul(v, 2), b)
      BY <1>1, <2>1, Zenon DEF Horner
    <2>3. b \in {0, 1} /\ v \in Scalar /\ v < 2^k /\ 2^(k + 1) = 2 * 2^k
          /\ 2^k \in Nat
      BY <1>0, <1>3, <2>1, PowersOfTwo, PowerPositive
    <2> HIDE DEF b, v
    <2>4. v \in Nat /\ v * 2 \in Nat /\ v * 2 \in Int /\ b \in Int
      BY <2>3, ScalarNat
    <2>5. FMul(v, 2) \in Nat /\ FMul(v, 2) <= v * 2
      BY <2>4, FieldPositive, ModLe, ModRange, Zenon DEF FMul
    <2>6. FAdd(FMul(v, 2), b) <= FMul(v, 2) + b
      BY <2>3, <2>5, FieldPositive, ModLe DEF FAdd
    <2>7. FAdd(FMul(v, 2), b) \in Scalar
      BY <2>4, <2>5, FieldOps
    <2>8. FAdd(FMul(v, 2), b) \in Nat
      BY <2>7, ScalarNat
    <2> QED
      BY <2>2, <2>3, <2>4, <2>5, <2>6, <2>7, <2>8
  <1>4. d \in S
    <2> HIDE DEF S
    <2> QED
      BY <1>0, <1>2, <1>3, SetInduction, Zenon
  <1> QED
    BY <1>1, <1>4

\* The bit decompositions return as many bits as asked for.
LEMMA BitsOf ==
    ASSUME NEW a \in Int, NEW d \in 0..(ScalarMaxBits + 1)
    PROVE  /\ scalar_to_bits_le(a, d) \in [1..d -> {0, 1}]
           /\ bigint_to_scalar_bits(a, d) \in [1..d -> {0, 1}]
  <1>1. ASSUME NEW i \in 1..d PROVE (a \div 2^(i - 1)) % 2 \in {0, 1}
    <2>0. i - 1 \in 0..(ScalarMaxBits + 1)
      BY PowersOfTwo
    <2>1. 2^(i - 1) \in Nat \ {0}
      BY <2>0, PowerPositive, Zenon
    <2>2. a \div 2^(i - 1) \in Int
      BY <2>1, DivMod, Zenon
    <2> QED
      BY <2>2
  <1> QED
    BY <1>1, Zenon DEF scalar_to_bits_le, bigint_to_scalar_bits

\* A value that passes the range check has no more bits than the check allows:
\* it does not represent a negative number.
THEOREM RangeCheck ==
    ASSUME NEW x \in Scalar, NEW d \in 0..(ScalarMaxBits + 1), constrain_greater_than_zero(x, d)
    PROVE  x < 2^d
  <1> DEFINE bits == scalar_to_bits_le(x, d)
  <1>0. d \in Nat
    BY PowersOfTwo
  <1>1. bits \in [1..d -> {0, 1}]
    BY ScalarNat, BitsOf, Zenon
  <1>2. x = scalar_from_bits_le(bits)
    BY Zenon DEF constrain_greater_than_zero, bit_decompose_reconstruct
  <1> HIDE DEF bits
  <1>3. d = Len(bits) /\ \A j \in 1..d : bits[j] \in {0, 1}
    BY <1>0, <1>1, FunSeq
  <1> QED
    BY <1>2, <1>3, HornerBound

-----------------------------------------------------------------------------
(* The gadgets of the fabric return scalars *)

\* A sum in the field is a scalar.
LEMMA FSumScalar ==
    ASSUME NEW n \in Nat, NEW s \in [1..n -> Int]
    PROVE  FSum(s) \in Scalar /\ SumFunction(s) \in Int
  <1>1. DOMAIN s = 1..n /\ \A i \in 1..n : s[i] = s[i] /\ s[i] \in Int
    OBVIOUS
  <1>2. IsFiniteSet(1..n)
    BY FS_Interval
  <1>3. SumFunctionOnSet(s, 1..n) \in Int
    BY <1>1, <1>2, SumSame, Zenon
  <1> QED
    BY <1>1, <1>3, CongMod, Zenon DEF FSum, SumFunction

\* A product in the field is a scalar.
LEMMA FProductScalar ==
    ASSUME NEW s, NEW n \in Nat, n = Len(s), \A i \in 1..n : s[i] \in Int
    PROVE  FProduct(s) \in Scalar
  <1> DEFINE F == [i \in 1..n |-> [t \in Scalar |-> FMul(t, s[i])]]
             Is(f) == f = [i \in 0..n |-> IF i = 0 THEN 1 ELSE FMul(f[i - 1], s[i])]
  <1>1. ASSUME NEW i \in 1..n, NEW t \in Scalar
        PROVE  F[i][t] = FMul(t, s[i]) /\ FMul(t, s[i]) \in Scalar
    BY ScalarNat, FieldOps, Zenon
  <1> HIDE DEF F
  <1>2. PICK f \in [0..n -> Scalar] : Iterates(f, 1, F, n)
    <2>1. \A i \in 1..n : \A t \in Scalar : F[i][t] \in Scalar
      BY <1>1, Zenon
    <2> QED
      BY <2>1, Bits, IterateExists, Zenon
  <1>3. ASSUME NEW i \in 0..n
        PROVE  f[i] = IF i = 0 THEN 1 ELSE FMul(f[i - 1], s[i])
    <2>1. i # 0 => i \in 1..n /\ i - 1 \in 0..n
      OBVIOUS
    <2> QED
      BY <1>1, <1>2, <2>1, Zenon DEF Iterates
  <1>4. f = [i \in 0..n |-> f[i]]
    BY Zenon
  <1>5. Is(f)
    BY <1>3, <1>4, Zenon
  <1>6. PICK g : Is(g) /\ FProduct(s) = g[n]
    BY <1>5, Zenon DEF FProduct
  <1>7. g[0] \in Scalar
    <2>1. 0 \in 0..n
      OBVIOUS
    <2> QED
      BY <1>6, <2>1, Bits, Zenon
  <1>8. ASSUME NEW i \in 1..n, g[i - 1] \in Scalar PROVE g[i] \in Scalar
    <2>1. i \in 0..n /\ i # 0
      OBVIOUS
    <2> QED
      BY <1>1, <1>6, <1>8, <2>1, Zenon
  <1>9. \A i \in 0..n : g[i] \in Scalar
    <2> HIDE DEF Is
    <2> QED
      BY <1>7, <1>8, IterateInvariant, Zenon
  <1>10. n \in 0..n
    OBVIOUS
  <1> QED
    BY <1>6, <1>9, <1>10, Zenon

\* bit_xor returns a scalar.
LEMMA XorScalar == ASSUME NEW a \in Int, NEW b \in Int PROVE bit_xor(a, b) \in Scalar
  <1>1. 2 \in Int
    OBVIOUS
  <1> QED
    BY <1>1, ScalarNat, FieldOps, Zenon DEF bit_xor

\* The adder returns scalars.
LEMMA BitAddScalars ==
    ASSUME NEW n \in Nat, NEW a \in [1..n -> Int], NEW b \in [1..n -> Int], NEW c \in Int
    PROVE  bit_add_impl(a, b, c).bits \in [1..n -> Scalar] /\ bit_add_impl(a, b, c).carry \in Int
  <1> DEFINE Step(i, t) == FAdd(FMul(a[i], b[i]), FMul(bit_xor(a[i], b[i]), t))
             F == [i \in 1..n |-> [t \in Int |-> Step(i, t)]]
             Is(f) == f = [i \in 0..n |-> IF i = 0 THEN c ELSE Step(i, f[i - 1])]
  <1>0. Len(a) = n
    BY FunSeq
  <1>1. ASSUME NEW i \in 1..n, NEW t \in Int
        PROVE  F[i][t] = Step(i, t) /\ Step(i, t) \in Int
    <2>1. a[i] \in Int /\ b[i] \in Int
      OBVIOUS
    <2> QED
      BY <2>1, ScalarNat, FieldOps, XorScalar, Zenon
  <1> HIDE DEF F, Step
  <1>2. PICK f \in [0..n -> Int] : Iterates(f, c, F, n)
    BY <1>1, IterateExists, Zenon
  <1>3. ASSUME NEW i \in 0..n
        PROVE  f[i] = IF i = 0 THEN c ELSE Step(i, f[i - 1])
    <2>1. i # 0 => i \in 1..n /\ i - 1 \in 0..n
      OBVIOUS
    <2> QED
      BY <1>1, <1>2, <2>1, Zenon DEF Iterates
  <1>4. f = [i \in 0..n |-> f[i]]
    BY Zenon
  <1>5. Is(f)
    BY <1>3, <1>4, Zenon
  <1>6. PICK g : /\ Is(g)
                 /\ bit_add_impl(a, b, c)
                      = [bits |-> [i \in 1..n |-> bit_xor(bit_xor(a[i], b[i]), g[i - 1])],
                         carry |-> g[n]]
    BY <1>0, <1>5, Zenon DEF bit_add_impl, Step
  <1>7. g[0] \in Int
    <2>1. 0 \in 0..n
      OBVIOUS
    <2> QED
      BY <1>6, <2>1, Zenon
  <1>8. ASSUME NEW i \in 1..n, g[i - 1] \in Int PROVE g[i] \in Int
    <2>1. i \in 0..n /\ i # 0
      OBVIOUS
    <2> QED
      BY <1>1, <1>6, <1>8, <2>1, Zenon
  <1>9. \A i \in 0..n : g[i] \in Int
    <2> HIDE DEF Is
    <2> QED
      BY <1>7, <1>8, IterateInvariant, Zenon
  <1>10. ASSUME NEW i \in 1..n PROVE bit_xor(bit_xor(a[i], b[i]), g[i - 1]) \in Scalar
    <2>1. a[i] \in Int /\ b[i] \in Int /\ i - 1 \in 0..n
      OBVIOUS
    <2> QED
      BY <1>9, <2>1, ScalarNat, XorScalar, Zenon
  <1>11. n \in 0..n
    OBVIOUS
  <1> DEFINE sums == [i \in 1..n |-> bit_xor(bit_xor(a[i], b[i]), g[i - 1])]
  <1>12. sums \in [1..n -> Scalar] /\ g[n] \in Int
    BY <1>9, <1>10, <1>11, Zenon
  <1>13. bit_add_impl(a, b, c) = [bits |-> sums, carry |-> g[n]]
    BY <1>6, Zenon
  <1> HIDE DEF sums
  <1> QED
    BY <1>12, <1>13

\* scalar_2_to_m returns a scalar.
LEMMA PowerScalar == ASSUME NEW m \in 0..(ScalarMaxBits + 1) PROVE scalar_2_to_m(m) \in Scalar
  <1>1. 2^m \in Int
    BY PowerPositive
  <1> QED
    BY <1>1, Bits, CongMod, Zenon DEF scalar_2_to_m

\* The shared random bits have the length asked for and a value.
LEMMA RandomScalars ==
    ASSUME NEW n \in 0..ScalarMaxBits
    PROVE  /\ n \in Nat /\ RandomBits(n) \in [1..n -> Int] /\ Len(RandomBits(n)) = n
           /\ scalar_from_bits_le(RandomBits(n)) \in Int
  <1>0. n \in Nat /\ n \in 0..(ScalarMaxBits + 1)
    BY PowersOfTwo
  <1>1. RandomBits(n) \in [1..n -> {0, 1}] /\ RandomBits(n) \in [1..n -> Int]
    BY DEF RandomBits, next_shared_bit
  <1>2. Len(RandomBits(n)) = n
    BY <1>0, <1>1, FunSeq, Zenon
  <1>3. scalar_from_bits_le(RandomBits(n)) \in Scalar
    <2> DEFINE r == RandomBits(n)
    <2>1. \A j \in 1..n : r[j] \in {0, 1}
      BY <1>1, Zenon
    <2> HIDE DEF r
    <2>2. scalar_from_bits_le(r) \in Scalar
      BY <1>0, <1>2, <2>1, HornerBound, Zenon DEF r
    <2> QED
      BY <2>2, Zenon DEF r
  <1> QED
    BY <1>0, <1>1, <1>2, <1>3, ScalarNat, Zenon

\* Resizing a bit vector gives the length asked for.
LEMMA ResizeScalars ==
    ASSUME NEW n \in Nat, NEW k \in Nat, NEW bits \in [1..k -> Int]
    PROVE  resize_bitvector_to_length(bits, n) \in [1..n -> Int]
  <1>0. Len(bits) = k
    BY FunSeq
  <1>1. ASSUME NEW i \in 1..n PROVE (IF i <= Len(bits) THEN bits[i] ELSE 0) \in Int
    BY <1>0
  <1> QED
    BY <1>1, Zenon DEF resize_bitvector_to_length

\* to_bits_le returns one scalar per bit.
LEMMA ToBitsScalars ==
    ASSUME NEW x \in Int, NEW d \in 0..ScalarMaxBits
    PROVE  to_bits_le(x, d) \in [1..d -> Scalar]
  <1> DEFINE random_bits == RandomBits(d)
             blinding == FAdd(FMul(next_shared_value, scalar_2_to_m(d)),
                              scalar_from_bits_le(random_bits))
             open == FAdd(FSub(x, blinding), scalar_2_to_m(d + 1))
             opened == scalar_to_bits_le(open, ScalarMaxBits)
             a == resize_bitvector_to_length(opened, d)
             b == resize_bitvector_to_length(random_bits, d)
  <1>0. /\ d \in Nat /\ d \in 0..(ScalarMaxBits + 1) /\ d + 1 \in 0..(ScalarMaxBits + 1)
        /\ ScalarMaxBits \in Nat /\ ScalarMaxBits \in 0..(ScalarMaxBits + 1) /\ 0 \in Int
    BY PowersOfTwo
  <1>1. next_shared_value \in Int
    BY DEF next_shared_value
  <1>2. open \in Int
    BY <1>0, <1>1, PowerScalar, RandomScalars, ScalarNat, FieldOps, Zenon
  <1>3. opened \in [1..ScalarMaxBits -> Int]
    <2> HIDE DEF open
    <2>1. opened \in [1..ScalarMaxBits -> {0, 1}]
      BY <1>0, <1>2, BitsOf, Zenon
    <2> HIDE DEF opened
    <2> QED
      BY <2>1
  <1>4. a \in [1..d -> Int] /\ b \in [1..d -> Int]
    <2> HIDE DEF opened
    <2> QED
      BY <1>0, <1>3, RandomScalars, ResizeScalars, Zenon
  <1>5. to_bits_le(x, d) = bit_add_impl(a, b, 0).bits
    BY Zenon DEF to_bits_le, bit_add
  <1> HIDE DEF a, b
  <1>6. bit_add_impl(a, b, 0).bits \in [1..d -> Scalar]
    BY <1>0, <1>4, BitAddScalars, Zenon
  <1> QED
    BY <1>5, <1>6, Zenon

\* bit_lt returns a scalar.
LEMMA LtScalar ==
    ASSUME NEW n \in Nat, NEW a \in [1..n -> Int], NEW b \in [1..n -> Int]
    PROVE  bit_lt(a, b) \in Scalar
  <1> DEFINE c == [i \in 1..n |-> FSub(1, b[i])]
  <1>0. Len(b) = n /\ 1 \in Int
    BY FunSeq
  <1>1. c \in [1..n -> Int]
    <2>1. ASSUME NEW i \in 1..n PROVE FSub(1, b[i]) \in Int
      BY <1>0, ScalarNat, FieldOps, Zenon
    <2> QED
      BY <2>1, Zenon
  <1>2. bit_lt(a, b) = FSub(1, bit_add_impl(a, c, 1).carry)
    BY <1>0, Zenon DEF bit_lt, carry_out
  <1> HIDE DEF c
  <1>3. bit_add_impl(a, c, 1).carry \in Int
    BY <1>0, <1>1, BitAddScalars
  <1> QED
    BY <1>0, <1>2, <1>3, FieldOps, Zenon

\* truncate returns a scalar.
LEMMA TruncateScalar ==
    ASSUME NEW a \in Int, NEW m \in 0..ScalarMaxBits
    PROVE  truncate(a, m) \in Scalar
  <1> DEFINE random_bits == RandomBits(m)
             lower == scalar_from_bits_le(random_bits)
             open == FAdd(a, FAdd(FMul(next_shared_value, scalar_2_to_m(m)), lower))
             open_mod == open % 2^m
             opened == bigint_to_scalar_bits(open_mod, m)
             shift == FMul(scalar_2_to_m(m), bit_lt(opened, random_bits))
  <1>0. m \in Nat /\ m \in 0..(ScalarMaxBits + 1)
    BY PowersOfTwo
  <1>1. next_shared_value \in Int
    BY DEF next_shared_value
  <1>2. lower \in Int /\ random_bits \in [1..m -> Int]
    BY RandomScalars, Zenon
  <1>3. open \in Int /\ scalar_2_to_m(m) \in Int
    BY <1>0, <1>1, <1>2, PowerScalar, ScalarNat, FieldOps, Zenon
  <1>4. open_mod \in Int
    <2> HIDE DEF open
    <2>1. 2^m \in Nat \ {0}
      BY <1>0, PowerPositive, Zenon
    <2> QED
      BY <1>3, <2>1, ModRange
  <1>5. opened \in [1..m -> Int]
    <2> HIDE DEF open_mod
    <2>1. opened \in [1..m -> {0, 1}]
      BY <1>0, <1>4, BitsOf, Zenon
    <2> HIDE DEF opened
    <2> QED
      BY <2>1
  <1>6. mod_2m(a, m) = FSub(FAdd(shift, bigint_to_scalar(open_mod)), lower)
    BY Zenon DEF mod_2m
  <1> HIDE DEF opened, open_mod, lower, random_bits, open
  <1>7. shift \in Int /\ bigint_to_scalar(open_mod) \in Int
    BY <1>0, <1>2, <1>3, <1>4, <1>5, LtScalar, ScalarNat, FieldOps, CongMod, Zenon
       DEF bigint_to_scalar
  <1> HIDE DEF shift
  <1>8. mod_2m(a, m) \in Int
    BY <1>2, <1>6, <1>7, ScalarNat, FieldOps, Zenon
  <1> QED
    BY <1>8, Bits, FInvScalar, ScalarNat, FieldOps, Zenon DEF truncate

\* The constant-round product returns a scalar.
LEMMA ProductScalar ==
    ASSUME NEW a, NEW n \in Nat \ {0}, n = Len(a), a \in [1..n -> Int]
    PROVE  product(a) \in Scalar
  <1> DEFINE N == Len(a)
             pair == [i \in 1..(N + 1) |-> next_shared_inverse_pair]
             opened == [i \in 1..N |-> FMul(FMul(pair[i].val, a[i]), pair[i + 1].inv)]
             pre == <<N>>
  <1>1. prefix_product_impl(a, pre)
          = [j \in 1..Len(pre) |-> FMul(FProduct(SubSeq(opened, 1, pre[j])),
                                        FMul(pair[1].inv, pair[pre[j]].val))]
    BY Zenon DEF prefix_product_impl
  <1>2. product(a) = prefix_product_impl(a, pre)[1]
    BY Zenon DEF product
  <1>3. Len(pre) = 1 /\ pre[1] = N /\ 1 \in 1..1 /\ N = n
    OBVIOUS
  <1> HIDE DEF N
  <1>4. \A i \in 1..(N + 1) : pair[i].val \in Int /\ pair[i].inv \in Int
    BY DEF next_shared_inverse_pair
  <1>5. opened \in [1..n -> Int]
    <2> HIDE DEF pair
    <2>1. ASSUME NEW i \in 1..N PROVE FMul(FMul(pair[i].val, a[i]), pair[i + 1].inv) \in Int
      <3>1. i \in 1..(N + 1) /\ i + 1 \in 1..(N + 1) /\ a[i] \in Int
        BY <1>3
      <3> QED
        BY <1>4, <3>1, ScalarNat, FieldOps, Zenon
    <2> QED
      BY <1>3, <2>1, Zenon
  <1> HIDE DEF opened, pair, pre
  <1>6. Len(SubSeq(opened, 1, n)) = n /\ \A i \in 1..n : SubSeq(opened, 1, n)[i] \in Int
    <2>1. opened \in Seq(Int) /\ Len(opened) = n
      BY <1>5, FunSeq
    <2> QED
      BY <2>1
  <1>7. product(a) = FMul(FProduct(SubSeq(opened, 1, n)), FMul(pair[1].inv, pair[n].val))
    BY <1>1, <1>2, <1>3, Zenon
  <1>8. FProduct(SubSeq(opened, 1, n)) \in Int
    BY <1>6, FProductScalar, ScalarNat, Zenon
  <1>9. 1 \in 1..(N + 1) /\ n \in 1..(N + 1)
    BY <1>3
  <1> QED
    BY <1>4, <1>7, <1>8, <1>9, ScalarNat, FieldOps, Zenon

\* The constant-round OR returns a scalar.
LEMMA OrScalar ==
    ASSUME NEW n \in Nat \ {0}, NEW a \in [1..n -> Int]
    PROVE  constant_round_or_impl(a) \in Scalar
  <1> DEFINE s == FSum(a)
             q == [x \in 1..n |-> FMul(FSub(x, s), FInv(x))]
  <1>0. Len(a) = n /\ n \in Nat /\ 1 \in Int
    BY FunSeq
  <1>1. s \in Int
    BY <1>0, FSumScalar, ScalarNat, Zenon
  <1> HIDE DEF s
  <1>2. ASSUME NEW x \in 1..n PROVE FMul(FSub(x, s), FInv(x)) \in Int
    <2>1. x \in Int
      OBVIOUS
    <2> QED
      BY <1>1, <2>1, FInvScalar, ScalarNat, FieldOps, Zenon
  <1>3. q \in [1..n -> Int]
    BY <1>2, Zenon
  <1>4. constant_round_or_impl(a) = FSub(1, product(q))
    BY <1>0, Zenon DEF constant_round_or_impl, s
  <1>5. Len(q) = n
    BY <1>0, <1>3, FunSeq, Zenon
  <1> HIDE DEF q
  <1> QED
    BY <1>0, <1>3, <1>4, <1>5, ProductScalar, ScalarNat, FieldOps, Zenon

\* The number of bits that hold a count of n
LEMMA MaxBitsExist ==
    ASSUME NEW n \in 1..ScalarMaxBits
    PROVE  \E k \in 0..n : 2^k >= n + 1 /\ (k > 0 => 2^(k - 1) < n + 1)
  <1> DEFINE K == {k \in 0..n : 2^k >= n + 1}
  <1>0. ScalarMaxBits \in Nat /\ n \in Nat /\ \A k \in 0..n : k \in 0..(ScalarMaxBits + 1)
    BY PowersOfTwo
  <1>1. n \in K
    BY <1>0, PowerPositive
  <1>2. PICK k \in K : \A j \in K : k <= j
    <2>1. K \in SUBSET Nat /\ K # {}
      BY <1>0, <1>1
    <2> HIDE DEF K
    <2> QED
      BY <2>1, LeastExists, Zenon
  <1>3. ASSUME k > 0 PROVE 2^(k - 1) < n + 1
    <2>1. k - 1 \in 0..n /\ ~(k <= k - 1)
      BY <1>0, <1>3
    <2>2. ~(2^(k - 1) >= n + 1)
      BY <1>2, <2>1
    <2>3. 2^(k - 1) \in Nat
      BY <1>0, <2>1, PowerPositive, Zenon
    <2> QED
      BY <1>0, <2>2, <2>3
  <1> QED
    BY <1>3

\* kary_or returns a scalar.
LEMMA KaryOrScalar ==
    ASSUME NEW a, NEW n \in 1..ScalarMaxBits, n = Len(a), a \in [1..n -> Int]
    PROVE  kary_or(a) \in Scalar
  <1> DEFINE N == Len(a)
             Fits(k) == 2^k >= N + 1 /\ (k > 0 => 2^(k - 1) < N + 1)
             max_bits == CHOOSE k \in 0..N : Fits(k)
             blinding == RandomBits(max_bits)
             open == FAdd(FSum(a), FAdd(scalar_from_bits_le(blinding),
                                        FMul(2^max_bits, next_shared_value)))
             bits == scalar_to_bits_le(open, max_bits)
             q == [i \in 1..max_bits |-> bit_xor(bits[i], blinding[i])]
  <1>0. n \in Nat /\ ScalarMaxBits \in Nat /\ N = n
    BY PowersOfTwo
  <1>1. kary_or(a) = constant_round_or_impl(q)
    BY Zenon DEF kary_or
  <1> HIDE DEF N
  <1>2. max_bits \in 0..N /\ Fits(max_bits)
    BY <1>0, MaxBitsExist, Zenon
  <1> HIDE DEF max_bits
  <1>3. max_bits # 0
    <2> SUFFICES ASSUME max_bits = 0 PROVE FALSE
      OBVIOUS
    <2>1. 2^0 >= N + 1
      BY <1>2, Zenon
    <2> QED
      BY <1>0, <2>1, PowersOfTwo
  <1>4. /\ max_bits \in 0..ScalarMaxBits /\ max_bits \in 0..(ScalarMaxBits + 1)
        /\ max_bits \in Nat \ {0}
    BY <1>0, <1>2, <1>3
  <1> HIDE DEF Fits
  <1>5. 2^max_bits \in Int /\ next_shared_value \in Int
    BY <1>4, PowerPositive DEF next_shared_value
  <1>6. open \in Int
    BY <1>0, <1>4, <1>5, FSumScalar, RandomScalars, ScalarNat, FieldOps, Zenon
  <1> HIDE DEF open
  <1>7. bits \in [1..max_bits -> {0, 1}]
    BY <1>4, <1>6, BitsOf, Zenon
  <1> HIDE DEF bits
  <1>8. blinding \in [1..max_bits -> Int]
    BY <1>4, RandomScalars, Zenon
  <1> HIDE DEF blinding
  <1>9. ASSUME NEW i \in 1..max_bits PROVE bit_xor(bits[i], blinding[i]) \in Int
    <2>1. bits[i] \in Int /\ blinding[i] \in Int
      BY <1>7, <1>8
    <2> QED
      BY <2>1, XorScalar, ScalarNat, Zenon
  <1>10. q \in [1..max_bits -> Int]
    BY <1>9, Zenon
  <1> HIDE DEF q
  <1> QED
    BY <1>1, <1>4, <1>10, OrScalar, Zenon

\* The comparisons return scalars.
LEMMA ComparisonScalars ==
    ASSUME NEW a \in Int, NEW b \in Int
    PROVE  /\ \A d \in 1..ScalarMaxBits : mpc_eq(a, b, d) \in Scalar /\ mpc_ne(a, b, d) \in Scalar
           /\ less_than(a, b) \in Scalar /\ less_than_equal(a, b) \in Scalar
  <1>0. 1 \in Int /\ 0 \in Int /\ 2 \in 1..ScalarMaxBits
    BY WidthsFit, PowersOfTwo
  <1>1. ASSUME NEW x \in Int, NEW y \in Int, NEW d \in 1..ScalarMaxBits
        PROVE  mpc_eq(x, y, d) \in Scalar /\ mpc_ne(x, y, d) \in Scalar
    <2> DEFINE z == FSub(x, y)
               bits == to_bits_le(z, d)
    <2>1. d \in 0..ScalarMaxBits
      OBVIOUS
    <2>2. bits \in [1..d -> Scalar]
      BY <2>1, ToBitsScalars, ScalarNat, FieldOps, Zenon
    <2>3. mpc_eq(x, y, d) = FSub(1, kary_or(bits))
      BY Zenon DEF mpc_eq, mpc_eq_zero
    <2> HIDE DEF z, bits
    <2>4. bits \in [1..d -> Int] /\ Len(bits) = d
      BY <2>1, <2>2, FunSeq DEF Scalar
    <2> QED
      BY <1>0, <2>3, <2>4, KaryOrScalar, ScalarNat, FieldOps, Zenon DEF mpc_ne
  <1>2. ASSUME NEW x \in Int, NEW y \in Int
        PROVE  less_than(x, y) \in Scalar
    <2>1. SignBits \in 0..ScalarMaxBits
      BY SignBitsFit
    <2> QED
      BY <1>0, <1>1, <2>1, TruncateScalar, ScalarNat, FieldOps, Zenon DEF less_than, less_than_zero
  <1>3. less_than_equal(a, b) \in Scalar
    BY <1>0, <1>2, ScalarNat, FieldOps, Zenon DEF less_than_equal, greater_than, less_than
  <1> QED
    BY <1>1, <1>2, <1>3, Zenon

-----------------------------------------------------------------------------
(* The match *)

OrderType == [quote_mint : Scalar, base_mint : Scalar, side : {0, 1}, price : Scalar,
              amount : Scalar, timestamp : Nat]

\* mpc_min returns scalars.
LEMMA MinScalar ==
    ASSUME NEW a \in Int, NEW b \in Int
    PROVE  mpc_min(a, b).min \in Scalar /\ mpc_min(a, b).index \in Scalar
  <1> DEFINE lt == less_than(a, b)
  <1>1. lt \in Int /\ 1 \in Int
    BY ComparisonScalars, ScalarNat
  <1>2. /\ mpc_min(a, b).min = FAdd(FMul(lt, a), FMul(FSub(1, lt), b))
        /\ mpc_min(a, b).index = FSub(1, lt)
    BY DEF mpc_min, Choose
  <1> HIDE DEF lt
  <1>3. FAdd(FMul(lt, a), FMul(FSub(1, lt), b)) \in Scalar /\ FSub(1, lt) \in Scalar
    BY <1>1, ScalarNat, FieldOps, Zenon
  <1> QED
    BY <1>2, <1>3

\* The execution price of two orders is a scalar.
LEMMA PriceScalar ==
    ASSUME NEW o1 \in OrderType, NEW o2 \in OrderType
    PROVE  ExecutionPrice(o1, o2) \in Scalar
  <1> DEFINE num == 2^(FloatBits - 1)
             floor == (num * 2^Precision) \div 2^FloatBits
             repr == floor % P
  <1>0. FloatBits - 1 \in 0..(ScalarMaxBits + 1) /\ FloatBits \in 0..(ScalarMaxBits + 1)
    BY PrecisionFits, PowersOfTwo
  <1>1. num \in Int /\ 2^FloatBits \in Nat \ {0} /\ 2^Precision \in Int
    BY <1>0, PowerPositive, Widths
  <1>2. floor \in Int
    <2> HIDE DEF num
    <2>1. num * 2^Precision \in Int
      BY <1>1
    <2> QED
      BY <1>1, <2>1, DivMod, Zenon
  <1>3. AuthFpFromPublicF32(num).repr = repr
    BY DEF AuthFpFromPublicF32, Shifted
  <1> HIDE DEF floor
  <1>4. repr \in Int
    BY <1>2, CongMod, ScalarNat, Zenon
  <1>5. o1.price \in Int /\ o2.price \in Int
    BY ScalarNat DEF OrderType
  <1> HIDE DEF repr
  <1>6. ExecutionPrice(o1, o2) = FMul(FInv(scalar_2_to_m(Precision)),
                                      FMul(FAdd(o1.price, o2.price), repr))
    BY <1>3, Zenon DEF ExecutionPrice, AuthFpMul, AuthFpAdd, TWO_TO_NEG_M, TWO_TO_M
  <1>7. FMul(FInv(scalar_2_to_m(Precision)), FMul(FAdd(o1.price, o2.price), repr)) \in Scalar
    BY <1>4, <1>5, FInvScalar, ScalarNat, FieldOps, Zenon
  <1> QED
    BY <1>6, <1>7

\* The amounts of a match are scalars.
LEMMA MatchScalars ==
    ASSUME NEW o1 \in OrderType, NEW o2 \in OrderType
    PROVE  compute_match(o1, o2).base_amount \in Scalar
           /\ compute_match(o1, o2).quote_amount \in Scalar
  <1> DEFINE e1 == mpc_eq(o1.base_mint, o2.base_mint, AmountBits)
             e2 == mpc_eq(o1.quote_mint, o2.quote_mint, AmountBits)
             e3 == price_overlap(o1, o2)
             e4 == mpc_ne(o1.side, o2.side, AmountBits)
             valid == product(<<e1, e2, e3, e4>>)
             min == mpc_min(o1.amount, o2.amount)
             price == ExecutionPrice(o1, o2)
             quote == AuthFpAsInteger(AuthFpMulScalar(price, min.min))
             diff == FSub(FAdd(o1.amount, o2.amount), FMul(2, min.min))
             A == <<o1.quote_mint, o1.base_mint, quote, min.min, o1.side, price, diff, min.index>>
             B == <<0, 0, 0, 0, 0, 0, 0, 0>>
  <1>1. /\ o1.base_mint \in Int /\ o2.base_mint \in Int /\ o1.quote_mint \in Int
        /\ o2.quote_mint \in Int /\ o1.side \in Int /\ o2.side \in Int /\ o1.amount \in Int
        /\ o2.amount \in Int /\ o1.price \in Int /\ o2.price \in Int
    BY ScalarNat DEF OrderType
  <1>2. AmountBits \in 1..ScalarMaxBits /\ 1 \in 1..ScalarMaxBits /\ 0 \in Int /\ 1 \in Int
    BY WidthsFit, PowersOfTwo
  <1>3. e1 \in Int /\ e2 \in Int /\ e3 \in Int /\ e4 \in Int
    BY <1>1, <1>2, ComparisonScalars, ScalarNat, Zenon DEF price_overlap
  <1>4. valid \in Int
    <2> HIDE DEF e1, e2, e3, e4
    <2> DEFINE v == <<e1, e2, e3, e4>>
    <2>1. 4 \in Nat \ {0} /\ 4 = Len(v) /\ v \in [1..4 -> Int]
      BY <1>3
    <2> HIDE DEF v
    <2>2. product(v) \in Int
      BY <2>1, ProductScalar, ScalarNat, Zenon
    <2> QED
      BY <2>2 DEF v
  <1>5. min.min \in Int
    BY <1>1, MinScalar, ScalarNat, Zenon
  <1>6. quote \in Int
    <2>1. Precision \in 0..ScalarMaxBits
      BY PrecisionFits, PowersOfTwo
    <2> QED
      BY <1>5, <2>1, PriceScalar, TruncateScalar, ScalarNat, FieldOps, Zenon
         DEF AuthFpAsInteger, AuthFpMulScalar, shift_right
  <1>7. compute_match(o1, o2) = ToMatch(mpc_cond_select_vec(valid, A, B))
    BY Zenon DEF compute_match, MaskedMatch
  <1>8. Len(A) = 8 /\ A[3] = quote /\ A[4] = min.min /\ B[3] = 0 /\ B[4] = 0
    <2> HIDE DEF quote, min, price, diff
    <2> QED
      OBVIOUS
  <1> HIDE DEF A, B, valid
  <1>9. /\ mpc_cond_select_vec(valid, A, B)[3] = FAdd(FMul(quote, valid), FMul(0, FSub(1, valid)))
        /\ mpc_cond_select_vec(valid, A, B)[4] = FAdd(FMul(min.min, valid), FMul(0, FSub(1, valid)))
    <2>1. 3 \in 1..8 /\ 4 \in 1..8
      OBVIOUS
    <2> QED
      BY <1>8, <2>1, Zenon DEF mpc_cond_select_vec
  <1>10. /\ compute_match(o1, o2).quote_amount = mpc_cond_select_vec(valid, A, B)[3]
         /\ compute_match(o1, o2).base_amount = mpc_cond_select_vec(valid, A, B)[4]
    BY <1>7 DEF ToMatch
  <1> HIDE DEF quote, min
  <1>11. /\ FAdd(FMul(quote, valid), FMul(0, FSub(1, valid))) \in Scalar
         /\ FAdd(FMul(min.min, valid), FMul(0, FSub(1, valid))) \in Scalar
    BY <1>2, <1>4, <1>5, <1>6, ScalarNat, FieldOps, Zenon
  <1> QED
    BY <1>9, <1>10, <1>11

\* CondSelect with a bit picks one of its arguments.
LEMMA Select ==
    ASSUME NEW a \in Int, NEW b \in Int, NEW s \in {0, 1}
    PROVE  CondSelect(a, b, s) = IF s = 1 THEN a % P ELSE b % P
  <1>1. FSub(1, 0) = 1 /\ FSub(1, 1) = 0
    BY Bits, ScalarNat, FSubZero DEF FSub
  <1>2. a % P \in Scalar /\ b % P \in Scalar
    BY CongMod
  <1>3. FMul(a, 1) = a % P /\ FMul(b, 1) = b % P /\ FMul(a, 0) = 0 /\ FMul(b, 0) = 0
    BY FieldPositive DEF FMul
  <1>4. FAdd(a % P, 0) = a % P /\ FAdd(0, b % P) = b % P
    BY <1>2, ScalarNat DEF FAdd
  <1> QED
    BY <1>1, <1>3, <1>4 DEF CondSelect

\* What a party on a side of a match gives away.
Sold(m, side) == IF side = Buy THEN [mint |-> m.quote_mint, amount |-> m.quote_amount]
                 ELSE [mint |-> m.base_mint, amount |-> m.base_amount]

\* The match is on the first order's pair and side, and each balance is in the
\* mint its party sells and in range.
Sells(o1, b1, b2, m) ==
    /\ m.quote_mint = o1.quote_mint /\ m.base_mint = o1.base_mint
    /\ m.direction = o1.side
    /\ b1.mint = Sold(m, m.direction).mint
    /\ b2.mint = Sold(m, opposite(m.direction)).mint
    /\ constrain_greater_than_eq(b1.amount, Sold(m, m.direction).amount, AmountBits)
    /\ constrain_greater_than_eq(b2.amount, Sold(m, opposite(m.direction)).amount, AmountBits)

\* A match whose constraints hold is on the first party's pair and side, and
\* both balances are in the mints sold and pass the range check.
LEMMA TraceSells ==
    ASSUME NEW o1 \in OrderType, NEW o2 \in OrderType, NEW b1, NEW b2, NEW m,
           m.base_amount \in Scalar, m.quote_amount \in Scalar,
           Satisfied(matching_engine_check_single_prover(o1, o2, b1, b2, m))
    PROVE  Sells(o1, b1, b2, m)
  <1> DEFINE trace == matching_engine_check_single_prover(o1, o2, b1, b2, m)
             left == <<m.base_mint, m.base_amount, m.quote_mint, m.quote_amount>>
             right == <<m.quote_mint, m.quote_amount, m.base_mint, m.base_amount>>
             selected == CondSelectVector(left, right, m.direction)
  <1>1. /\ Len(trace) = 17
        /\ trace[1] = (o1.quote_mint = m.quote_mint) /\ trace[2] = (o1.base_mint = m.base_mint)
        /\ trace[5] = (m.direction = o1.side)
        /\ trace[14] = (selected[1] = b1.mint) /\ trace[15] = (selected[3] = b2.mint)
        /\ trace[16] = constrain_greater_than_eq(b1.amount, selected[2], AmountBits)
        /\ trace[17] = constrain_greater_than_eq(b2.amount, selected[4], AmountBits)
    BY Zenon DEF matching_engine_check_single_prover
  <1> HIDE DEF trace
  <1>2. \A i \in 1..17 : trace[i]
    BY <1>1, Zenon DEF Satisfied, trace
  <1>3. trace[1] /\ trace[2] /\ trace[5] /\ trace[14] /\ trace[15] /\ trace[16] /\ trace[17]
    <2>1. {1, 2, 5, 14, 15, 16, 17} \subseteq 1..17
      OBVIOUS
    <2> QED
      BY <1>2, <2>1, Zenon
  <1> HIDE DEF selected
  <1>4. /\ o1.quote_mint = m.quote_mint /\ o1.base_mint = m.base_mint /\ m.direction = o1.side
        /\ selected[1] = b1.mint /\ selected[3] = b2.mint
        /\ constrain_greater_than_eq(b1.amount, selected[2], AmountBits)
        /\ constrain_greater_than_eq(b2.amount, selected[4], AmountBits)
    BY <1>1, <1>3, Zenon
  <1>5. /\ m.direction \in {0, 1}
        /\ m.base_mint \in Scalar /\ m.quote_mint \in Scalar
    BY <1>4, Zenon DEF OrderType
  <1>6. /\ selected[1] = CondSelect(m.base_mint, m.quote_mint, m.direction)
        /\ selected[2] = CondSelect(m.base_amount, m.quote_amount, m.direction)
        /\ selected[3] = CondSelect(m.quote_mint, m.base_mint, m.direction)
        /\ selected[4] = CondSelect(m.quote_amount, m.base_amount, m.direction)
    <2>1. /\ 1 \in 1..Len(left) /\ 2 \in 1..Len(left) /\ 3 \in 1..Len(left) /\ 4 \in 1..Len(left)
          /\ left[1] = m.base_mint /\ left[2] = m.base_amount
          /\ left[3] = m.quote_mint /\ left[4] = m.quote_amount
          /\ right[1] = m.quote_mint /\ right[2] = m.quote_amount
          /\ right[3] = m.base_mint /\ right[4] = m.base_amount
      OBVIOUS
    <2> HIDE DEF left, right
    <2> QED
      BY <2>1, Zenon DEF selected, CondSelectVector
  <1>7. ASSUME NEW a \in Scalar, NEW b \in Scalar
        PROVE  CondSelect(a, b, m.direction) = IF m.direction = 1 THEN a ELSE b
    <2>1. a \in Int /\ b \in Int /\ a % P = a /\ b % P = b
      BY ScalarNat
    <2> QED
      BY <1>5, <2>1, Select, Zenon
  <1>8. /\ selected[1] = Sold(m, m.direction).mint
        /\ selected[2] = Sold(m, m.direction).amount
        /\ selected[3] = Sold(m, opposite(m.direction)).mint
        /\ selected[4] = Sold(m, opposite(m.direction)).amount
    BY <1>5, <1>6, <1>7 DEF Sold, opposite, Buy
  <1> QED
    BY <1>4, <1>8, Zenon DEF Sells

-----------------------------------------------------------------------------
(* The notes of a match *)

Share(fraction, amount) == U64(FpFloor(FpMulScalar(fraction, amount)))
Net(fee) == FpSub(ScalarSubFp(1, fee.percentage_fee), PROTOCOL_FEE)

\* Dividing rounds down.
LEMMA DivLe ==
    ASSUME NEW a \in Nat, NEW n \in Nat \ {0}
    PROVE  a \div n \in Nat /\ n * (a \div n) <= a
  <1>1. a % n = a - n * (a \div n) /\ a \div n \in Int /\ a % n \in Nat
    BY DivMod, ModRange
  <1>2. a \div n \in Nat
    OBVIOUS
  <1> QED
    BY <1>1, <1>2

\* A remainder is at most the number.
LEMMA ModNat ==
    ASSUME NEW a \in Nat, NEW n \in Nat \ {0}
    PROVE  a % n \in Nat /\ a % n <= a
  <1>1. a % n <= a
    BY ModLe, Zenon
  <1> QED
    BY <1>1, ModRange

\* Multiplying by a natural is monotone.
LEMMA Scale ==
    ASSUME NEW n \in Nat, NEW a \in Nat, NEW b \in Nat, a <= b
    PROVE  n * a <= n * b /\ n * a \in Nat
  OBVIOUS

\* Truncating to 64 bits never increases a natural.
LEMMA U64Nat == ASSUME NEW a \in Nat PROVE U64(a) \in Nat /\ U64(a) <= a
  BY Widths, ModNat, Zenon DEF U64

\* A share of an amount is no more than the fraction of it: neither the field
\* nor the conversion to 64 bits can make it larger.
LEMMA ShareLe ==
    ASSUME NEW f \in Nat, NEW x \in Nat
    PROVE  /\ Share(f, x) \in Nat
           /\ 2^Precision * Share(f, x) <= f * x
           /\ 2^Precision * Share(f, x) \in Nat /\ f * x \in Nat
  <1> DEFINE T == 2^Precision
             y == FMul(f, x)
             q == y \div T
             r == q % P
  <1>0. T \in Nat \ {0}
    BY Widths
  <1>1. f * x \in Nat
    OBVIOUS
  <1>2. y \in Nat /\ y <= f * x
    BY <1>1, FieldPositive, ModNat, Zenon DEF FMul
  <1> HIDE DEF y, T
  <1>3. q \in Nat /\ T * q <= y
    BY <1>0, <1>2, DivLe, Zenon
  <1> HIDE DEF q, r
  <1>4. r \in Nat /\ r <= q
    BY <1>3, FieldPositive, ModNat, Zenon DEF r
  <1>5. Share(f, x) = U64(r)
    BY Zenon DEF Share, FpFloor, FpMulScalar, bigint_to_scalar, r, q, y, T
  <1>6. U64(r) \in Nat /\ U64(r) <= q
    BY <1>3, <1>4, U64Nat
  <1>7. T * U64(r) <= T * q /\ T * U64(r) \in Nat
    BY <1>0, <1>3, <1>6, Scale
  <1>8. T * q \in Nat
    BY <1>0, <1>3, Scale
  <1>9. T * U64(r) <= f * x
    BY <1>1, <1>2, <1>3, <1>7, <1>8
  <1> QED
    BY <1>1, <1>5, <1>6, <1>7, <1>9, Zenon DEF T

\* What is left of a party's amount after the fees is not negative.
LEMMA NetIs ==
    ASSUME NEW fee, fee.percentage_fee \in Nat, fee.percentage_fee + PROTOCOL_FEE <= 2^Precision
    PROVE  Net(fee) = 2^Precision - fee.percentage_fee - PROTOCOL_FEE
           /\ Net(fee) \in Nat /\ PROTOCOL_FEE \in Nat
  <1> DEFINE T == 2^Precision
             p == fee.percentage_fee
             net == T - p - PROTOCOL_FEE
  <1>0. T \in Nat \ {0} /\ T < P /\ P \in Nat \ {0} /\ PROTOCOL_FEE \in Nat /\ p \in Nat
    BY Widths, FieldPositive, CountsFit
  <1>1. TWO_TO_M = T
    <2>1. ~(Precision >= ScalarMaxBits)
      BY PrecisionFits, PowersOfTwo
    <2> HIDE DEF T
    <2>2. T % P = T
      BY <1>0
    <2> QED
      BY <2>1, <2>2, Zenon DEF TWO_TO_M, scalar_2_to_m, T
  <1>2. Net(fee) = FAdd(FAdd(FNeg(p), FMul(T, 1)), FNeg(PROTOCOL_FEE))
    BY <1>1, Zenon DEF Net, FpSub, ScalarSubFp, FpAdd, FpAddScalar, FpNeg
  <1> HIDE DEF T, p
  <1>3. /\ Cong(FNeg(p), -p) /\ Cong(FMul(T, 1), T) /\ Cong(FNeg(PROTOCOL_FEE), -PROTOCOL_FEE)
    <2>1. -p \in Int /\ T * 1 \in Int /\ T * 1 = T /\ -PROTOCOL_FEE \in Int
      BY <1>0
    <2> QED
      BY <2>1, CongMod DEF FNeg, FMul
  <1>4. Cong(FAdd(FNeg(p), FMul(T, 1)), -p + T)
    <2>1. Cong(FNeg(p) + FMul(T, 1), -p + T)
      BY <1>3, CongAdd, Zenon
    <2>2. Cong(FAdd(FNeg(p), FMul(T, 1)), FNeg(p) + FMul(T, 1))
      BY <2>1, CongMod, Zenon DEF FAdd, Cong
    <2> QED
      BY <2>1, <2>2, CongTrans, Zenon
  <1>5. Cong(Net(fee), (-p + T) + (-PROTOCOL_FEE))
    <2> DEFINE u == FAdd(FNeg(p), FMul(T, 1))
    <2> HIDE DEF u
    <2>1. Cong(u + FNeg(PROTOCOL_FEE), (-p + T) + (-PROTOCOL_FEE))
      BY <1>3, <1>4, CongAdd, Zenon DEF u
    <2>2. Cong(FAdd(u, FNeg(PROTOCOL_FEE)), u + FNeg(PROTOCOL_FEE))
      BY <2>1, CongMod, Zenon DEF FAdd, Cong
    <2>3. Cong(FAdd(u, FNeg(PROTOCOL_FEE)), (-p + T) + (-PROTOCOL_FEE))
      BY <2>1, <2>2, CongTrans, Zenon
    <2> QED
      BY <1>2, <2>3, Zenon DEF u
  <1>6. net = (-p + T) + (-PROTOCOL_FEE) /\ net \in Scalar /\ net \in Nat
    BY <1>0 DEF T, p, Scalar
  <1>7. Net(fee) \in Scalar
    <2>1. FAdd(FNeg(p), FMul(T, 1)) \in Int /\ FNeg(PROTOCOL_FEE) \in Int
      BY <1>3, <1>4 DEF Cong
    <2> QED
      BY <1>2, <2>1, FieldOps
  <1>8. Net(fee) = net
    <2>1. Cong(Net(fee), net)
      BY <1>5, <1>6
    <2> HIDE DEF net
    <2> QED
      BY <1>6, <1>7, <2>1, CongEq, Zenon
  <1> QED
    BY <1>0, <1>6, <1>8 DEF T, p

\* The party, its relayer and the protocol together get no more than the amount.
LEMMA SharesSum ==
    ASSUME NEW fee, fee.percentage_fee \in Nat, fee.percentage_fee + PROTOCOL_FEE <= 2^Precision,
           NEW x \in Nat
    PROVE  /\ Share(Net(fee), x) \in Nat /\ Share(fee.percentage_fee, x) \in Nat
           /\ Share(PROTOCOL_FEE, x) \in Nat
           /\ Share(Net(fee), x) + Share(fee.percentage_fee, x) + Share(PROTOCOL_FEE, x) <= x
  <1> DEFINE T == 2^Precision
             f1 == Net(fee)
             f2 == fee.percentage_fee
             f3 == PROTOCOL_FEE
             s1 == Share(f1, x)
             s2 == Share(f2, x)
             s3 == Share(f3, x)
             s == s1 + s2 + s3
  <1>0. /\ T \in Nat \ {0} /\ f1 \in Nat /\ f2 \in Nat /\ f3 \in Nat
        /\ f1 + f2 + f3 = T
    BY Widths, NetIs
  <1> HIDE DEF f1, f2, f3
  <1>1. /\ s1 \in Nat /\ s2 \in Nat /\ s3 \in Nat
        /\ T * s1 <= f1 * x /\ T * s2 <= f2 * x /\ T * s3 <= f3 * x
    BY <1>0, ShareLe, Zenon
  <1> HIDE DEF T, s1, s2, s3
  <1>2. T * s = T * s1 + T * s2 + T * s3 /\ s \in Nat
    BY <1>0, <1>1
  <1>3. T * x = f1 * x + f2 * x + f3 * x
    <2>1. (f1 + f2 + f3) * x = f1 * x + f2 * x + f3 * x
      BY <1>0
    <2> QED
      BY <1>0, <2>1
  <1>4. /\ T * s1 \in Nat /\ T * s2 \in Nat /\ T * s3 \in Nat /\ f1 * x \in Nat /\ f2 * x \in Nat
        /\ f3 * x \in Nat /\ T * s \in Nat /\ T * x \in Nat
    BY <1>0, <1>1, <1>2
  <1>5. T * s <= T * x
    BY <1>1, <1>2, <1>3, <1>4
  <1>6. s <= x
    <2> HIDE DEF s
    <2> SUFFICES ASSUME s >= x + 1 PROVE FALSE
      BY <1>2
    <2>1. T * (x + 1) <= T * s
      BY <1>0, <1>2, Scale
    <2>2. T * (x + 1) = T * x + T
      BY <1>0
    <2> QED
      BY <1>0, <1>4, <1>5, <2>1, <2>2
  <1> QED
    BY <1>1, <1>6 DEF s1, s2, s3, f1, f2, f3

NoteOK(x) ==
    /\ x.mint1 \in Scalar /\ x.mint2 \in Scalar /\ x.fee_mint \in Scalar
    /\ x.volume1 \in Nat /\ x.volume2 \in Nat /\ x.fee_volume \in Nat
    /\ x.direction1 \in {0, 1} /\ x.direction2 \in {0, 1} /\ x.fee_direction \in {0, 1}
    /\ x.type_ \in {Match, InternalTransfer}
    /\ x.type_ # Match => x.direction1 = Buy /\ x.direction2 = Buy /\ x.fee_direction = Buy

\* A note adds or takes whole amounts; only a note of a match takes any.
LEMMA NoteValueInt ==
    ASSUME NEW x, NoteOK(x), NEW c
    PROVE  NoteValue(x, c) \in Int /\ (x.type_ # Match => NoteValue(x, c) >= 0)
  BY DEF NoteOK, NoteValue, Signed, Buy

FeeOK(fee) ==
    /\ fee.gas_addr \in Scalar /\ fee.gas_token_amount \in Scalar
    /\ fee.percentage_fee \in Nat /\ fee.percentage_fee + PROTOCOL_FEE <= 2^Precision

MatchOK(m) ==
    /\ m.base_mint \in Scalar /\ m.quote_mint \in Scalar
    /\ m.base_amount \in Scalar /\ m.quote_amount \in Scalar /\ m.direction \in {0, 1}

\* The gas a match costs, and what a party gives away, per mint.
Gas(fee, c) == IF fee.gas_addr = c THEN U64(fee.gas_token_amount) ELSE 0
Given(s, c) == IF s.mint = c THEN s.amount ELSE 0

Volumes4(x, v1, d1, v2, d2) ==
    x.volume1 = v1 /\ x.direction1 = d1 /\ x.volume2 = v2 /\ x.direction2 = d2
Rest(x, m, fee, direction, type) ==
    /\ x.mint1 = m.base_mint /\ x.mint2 = m.quote_mint /\ x.fee_mint = fee.gas_addr
    /\ x.fee_volume = U64(fee.gas_token_amount) /\ x.fee_direction = direction /\ x.type_ = type

\* The notes of a match whose first party buys the base mint, and of one whose
\* first party sells it.
LEMMA NotesAre ==
    ASSUME NEW m, NEW r, NEW n, n = create_notes(m, r)
    PROVE  /\ Rest(n.party0, m, r.party0_fee, Sell, Match)
           /\ Rest(n.party1, m, r.party1_fee, Sell, Match)
           /\ Rest(n.relayer0, m, r.party0_fee, Buy, InternalTransfer)
           /\ Rest(n.relayer1, m, r.party1_fee, Buy, InternalTransfer)
           /\ Rest(n.protocol, m, ZeroFee, Buy, InternalTransfer)
           /\ Volumes4(n.protocol, Share(PROTOCOL_FEE, m.base_amount), Buy,
                       Share(PROTOCOL_FEE, m.quote_amount), Buy)
           /\ m.direction = Buy =>
                /\ Volumes4(n.party0, Share(Net(r.party0_fee), m.base_amount), m.direction,
                            U64(m.quote_amount), opposite(m.direction))
                /\ Volumes4(n.party1, U64(m.base_amount), opposite(m.direction),
                            Share(Net(r.party1_fee), m.quote_amount), m.direction)
                /\ Volumes4(n.relayer0, Share(r.party0_fee.percentage_fee, m.base_amount), Buy,
                            0, Buy)
                /\ Volumes4(n.relayer1, 0, Buy,
                            Share(r.party1_fee.percentage_fee, m.quote_amount), Buy)
           /\ m.direction # Buy =>
                /\ Volumes4(n.party0, U64(m.base_amount), m.direction,
                            Share(Net(r.party0_fee), m.quote_amount), opposite(m.direction))
                /\ Volumes4(n.party1, Share(Net(r.party1_fee), m.base_amount),
                            opposite(m.direction), U64(m.quote_amount), m.direction)
                /\ Volumes4(n.relayer0, 0, Buy,
                            Share(r.party0_fee.percentage_fee, m.quote_amount), Buy)
                /\ Volumes4(n.relayer1, Share(r.party1_fee.percentage_fee, m.base_amount), Buy,
                            0, Buy)
  BY Zenon DEF create_notes, Rest, Volumes4, Share, Net

\* The fee of a note without a fee takes no gas.
LEMMA ZeroFeeOK == ZeroFee.gas_addr = 0 /\ U64(ZeroFee.gas_token_amount) = 0
  BY Widths DEF ZeroFee, U64

\* The five notes of a match are well formed, and only the parties' are match
\* notes.
LEMMA MatchNotesOK ==
    ASSUME NEW m, NEW r, NEW n, n = create_notes(m, r),
           MatchOK(m), FeeOK(r.party0_fee), FeeOK(r.party1_fee)
    PROVE  /\ NoteOK(n.party0) /\ NoteOK(n.party1) /\ NoteOK(n.relayer0) /\ NoteOK(n.relayer1)
           /\ NoteOK(n.protocol)
           /\ n.party0.type_ = Match /\ n.party1.type_ = Match
           /\ n.relayer0.type_ # Match /\ n.relayer1.type_ # Match /\ n.protocol.type_ # Match
  <1>1. /\ U64(r.party0_fee.gas_token_amount) \in Nat /\ U64(r.party1_fee.gas_token_amount) \in Nat
        /\ U64(m.base_amount) \in Nat /\ U64(m.quote_amount) \in Nat
        /\ m.base_amount \in Nat /\ m.quote_amount \in Nat
    BY ScalarNat, U64Nat DEF FeeOK, MatchOK
  <1>2. ASSUME NEW x \in {m.base_amount, m.quote_amount},
               NEW fee \in {r.party0_fee, r.party1_fee}
        PROVE  /\ Share(Net(fee), x) \in Nat /\ Share(fee.percentage_fee, x) \in Nat
               /\ Share(PROTOCOL_FEE, x) \in Nat
    BY <1>1, SharesSum, Zenon DEF FeeOK
  <1>3. /\ opposite(m.direction) \in {0, 1} /\ m.direction \in {0, 1}
        /\ m.base_mint \in Scalar /\ m.quote_mint \in Scalar
        /\ r.party0_fee.gas_addr \in Scalar /\ r.party1_fee.gas_addr \in Scalar
        /\ ZeroFee.gas_addr \in Scalar /\ U64(ZeroFee.gas_token_amount) \in Nat
    BY ZeroFeeOK, Bits, SMTT(30) DEF opposite, MatchOK, FeeOK
  <1>4. /\ NoteOK(n.protocol) /\ n.protocol.type_ # Match
    <2>1. /\ Rest(n.protocol, m, ZeroFee, Buy, InternalTransfer)
          /\ Volumes4(n.protocol, Share(PROTOCOL_FEE, m.base_amount), Buy,
                      Share(PROTOCOL_FEE, m.quote_amount), Buy)
      BY NotesAre, Zenon
    <2> QED
      BY <1>2, <1>3, <2>1 DEF Rest, Volumes4, NoteOK, Buy, InternalTransfer, Match
  <1>5. ASSUME NEW x, NEW fee \in {r.party0_fee, r.party1_fee}, NEW v1 \in Nat, NEW v2 \in Nat,
               Volumes4(x, v1, Buy, v2, Buy), Rest(x, m, fee, Buy, InternalTransfer)
        PROVE  NoteOK(x) /\ x.type_ # Match
    BY <1>1, <1>3, <1>5 DEF Rest, Volumes4, NoteOK, Buy, InternalTransfer, Match
  <1>7. /\ Rest(n.party0, m, r.party0_fee, Sell, Match)
        /\ Rest(n.party1, m, r.party1_fee, Sell, Match)
        /\ Rest(n.relayer0, m, r.party0_fee, Buy, InternalTransfer)
        /\ Rest(n.relayer1, m, r.party1_fee, Buy, InternalTransfer)
    BY NotesAre, Zenon
  <1>8. CASE m.direction = Buy
    <2>1. /\ Volumes4(n.party0, Share(Net(r.party0_fee), m.base_amount), m.direction,
                      U64(m.quote_amount), opposite(m.direction))
          /\ Volumes4(n.party1, U64(m.base_amount), opposite(m.direction),
                      Share(Net(r.party1_fee), m.quote_amount), m.direction)
          /\ Volumes4(n.relayer0, Share(r.party0_fee.percentage_fee, m.base_amount), Buy, 0, Buy)
          /\ Volumes4(n.relayer1, 0, Buy, Share(r.party1_fee.percentage_fee, m.quote_amount), Buy)
      BY <1>8, NotesAre, Zenon
    <2>2. /\ 0 \in Nat /\ Buy \in {0, 1}
          /\ Share(Net(r.party0_fee), m.base_amount) \in Nat
          /\ Share(Net(r.party1_fee), m.quote_amount) \in Nat
          /\ Share(r.party0_fee.percentage_fee, m.base_amount) \in Nat
          /\ Share(r.party1_fee.percentage_fee, m.quote_amount) \in Nat
          /\ r.party0_fee \in {r.party0_fee, r.party1_fee}
          /\ r.party1_fee \in {r.party0_fee, r.party1_fee}
      BY <1>2 DEF Buy
    <2>3. NoteOK(n.party0) /\ n.party0.type_ = Match
      BY <1>1, <1>3, <1>7, <2>1, <2>2, Zenon DEF Rest, Volumes4, NoteOK, Sell, Match
    <2>4. NoteOK(n.party1) /\ n.party1.type_ = Match
      BY <1>1, <1>3, <1>7, <2>1, <2>2, Zenon DEF Rest, Volumes4, NoteOK, Sell, Match
    <2>5. NoteOK(n.relayer0) /\ n.relayer0.type_ # Match
      BY <1>5, <1>7, <2>1, <2>2, Zenon
    <2>6. NoteOK(n.relayer1) /\ n.relayer1.type_ # Match
      BY <1>5, <1>7, <2>1, <2>2, Zenon
    <2> QED
      BY <1>4, <2>3, <2>4, <2>5, <2>6, Zenon
  <1>9. CASE m.direction # Buy
    <2>1. /\ Volumes4(n.party0, U64(m.base_amount), m.direction,
                      Share(Net(r.party0_fee), m.quote_amount), opposite(m.direction))
          /\ Volumes4(n.party1, Share(Net(r.party1_fee), m.base_amount),
                      opposite(m.direction), U64(m.quote_amount), m.direction)
          /\ Volumes4(n.relayer0, 0, Buy, Share(r.party0_fee.percentage_fee, m.quote_amount), Buy)
          /\ Volumes4(n.relayer1, Share(r.party1_fee.percentage_fee, m.base_amount), Buy, 0, Buy)
      BY <1>9, NotesAre, Zenon
    <2>2. /\ 0 \in Nat /\ Buy \in {0, 1}
          /\ Share(Net(r.party0_fee), m.quote_amount) \in Nat
          /\ Share(Net(r.party1_fee), m.base_amount) \in Nat
          /\ Share(r.party0_fee.percentage_fee, m.quote_amount) \in Nat
          /\ Share(r.party1_fee.percentage_fee, m.base_amount) \in Nat
          /\ r.party0_fee \in {r.party0_fee, r.party1_fee}
          /\ r.party1_fee \in {r.party0_fee, r.party1_fee}
      BY <1>2 DEF Buy
    <2>3. NoteOK(n.party0) /\ n.party0.type_ = Match
      BY <1>1, <1>3, <1>7, <2>1, <2>2, Zenon DEF Rest, Volumes4, NoteOK, Sell, Match
    <2>4. NoteOK(n.party1) /\ n.party1.type_ = Match
      BY <1>1, <1>3, <1>7, <2>1, <2>2, Zenon DEF Rest, Volumes4, NoteOK, Sell, Match
    <2>5. NoteOK(n.relayer0) /\ n.relayer0.type_ # Match
      BY <1>5, <1>7, <2>1, <2>2, Zenon
    <2>6. NoteOK(n.relayer1) /\ n.relayer1.type_ # Match
      BY <1>5, <1>7, <2>1, <2>2, Zenon
    <2> QED
      BY <1>4, <2>3, <2>4, <2>5, <2>6, Zenon
  <1> QED
    BY <1>8, <1>9

\* The five notes of a match create no value, and take from a party no more
\* than what it sells and its gas.
THEOREM MatchNotesBalance ==
    ASSUME NEW m, NEW r, NEW n, n = create_notes(m, r),
           MatchOK(m), FeeOK(r.party0_fee), FeeOK(r.party1_fee),
           U64(m.base_amount) = m.base_amount, U64(m.quote_amount) = m.quote_amount, NEW c
    PROVE  /\ NoteValue(n.party0, c) + NoteValue(n.party1, c) + NoteValue(n.relayer0, c)
                + NoteValue(n.relayer1, c) + NoteValue(n.protocol, c) <= 0
           /\ NoteValue(n.party0, c) >= -Given(Sold(m, m.direction), c) - Gas(r.party0_fee, c)
           /\ NoteValue(n.party1, c)
                >= -Given(Sold(m, opposite(m.direction)), c) - Gas(r.party1_fee, c)
  <1> DEFINE x == m.base_amount
             y == m.quote_amount
             f0 == r.party0_fee
             f1 == r.party1_fee
             g0 == U64(f0.gas_token_amount)
             g1 == U64(f1.gas_token_amount)
             px == Share(PROTOCOL_FEE, x)
             py == Share(PROTOCOL_FEE, y)
  <1>1. x \in Nat /\ y \in Nat /\ g0 \in Nat /\ g1 \in Nat
    BY ScalarNat, U64Nat DEF FeeOK, MatchOK
  <1>2. /\ Rest(n.party0, m, f0, Sell, Match) /\ Rest(n.party1, m, f1, Sell, Match)
        /\ Rest(n.relayer0, m, f0, Buy, InternalTransfer)
        /\ Rest(n.relayer1, m, f1, Buy, InternalTransfer)
        /\ Rest(n.protocol, m, ZeroFee, Buy, InternalTransfer)
        /\ Volumes4(n.protocol, px, Buy, py, Buy)
    BY NotesAre, Zenon
  <1>3. Sell \in {0, 1} /\ Buy \in {0, 1}
    BY DEF Sell, Buy
  <1>4. NoteValue(n.protocol, c)
          = (IF m.base_mint = c THEN px ELSE 0) + (IF m.quote_mint = c THEN py ELSE 0)
    <2>1. px \in Nat /\ py \in Nat
      BY <1>1, SharesSum DEF FeeOK
    <2> HIDE DEF px, py
    <2>2. NoteValue(n.protocol, c)
            = (IF m.base_mint = c THEN Signed(px, Buy) ELSE 0)
              + (IF m.quote_mint = c THEN Signed(py, Buy) ELSE 0)
              + (IF ZeroFee.gas_addr = c THEN Signed(U64(ZeroFee.gas_token_amount), Buy) ELSE 0)
      BY <1>2, Zenon DEF NoteValue, Volumes4, Rest
    <2>3. Signed(px, Buy) = px /\ Signed(py, Buy) = py
          /\ Signed(U64(ZeroFee.gas_token_amount), Buy) = 0
      BY ZeroFeeOK, SMTT(30) DEF Signed
    <2> QED
      BY <2>1, <2>2, <2>3
  <1>5. CASE m.direction = Buy
    <2> DEFINE n0 == Share(Net(f0), x)
               n1 == Share(Net(f1), y)
               r0 == Share(f0.percentage_fee, x)
               r1 == Share(f1.percentage_fee, y)
    <2>1. /\ n0 \in Nat /\ r0 \in Nat /\ px \in Nat /\ n0 + r0 + px <= x
          /\ n1 \in Nat /\ r1 \in Nat /\ py \in Nat /\ n1 + r1 + py <= y
      BY <1>1, SharesSum, Zenon DEF FeeOK
    <2>2. /\ Volumes4(n.party0, n0, Buy, y, Sell) /\ Volumes4(n.party1, x, Sell, n1, Buy)
          /\ Volumes4(n.relayer0, r0, Buy, 0, Buy) /\ Volumes4(n.relayer1, 0, Buy, r1, Buy)
      <3>1. opposite(Buy) = Sell
        BY DEF opposite, Buy, Sell
      <3> QED
        BY <1>5, <3>1, NotesAre, Zenon
    <2> HIDE DEF n0, n1, r0, r1, px, py
    <2>3. /\ NoteValue(n.party0, c) = (IF m.base_mint = c THEN n0 ELSE 0)
                 - (IF m.quote_mint = c THEN y ELSE 0) - (IF f0.gas_addr = c THEN g0 ELSE 0)
          /\ NoteValue(n.party1, c) = (IF m.quote_mint = c THEN n1 ELSE 0)
                 - (IF m.base_mint = c THEN x ELSE 0) - (IF f1.gas_addr = c THEN g1 ELSE 0)
          /\ NoteValue(n.relayer0, c) = (IF m.base_mint = c THEN r0 ELSE 0)
                 + (IF f0.gas_addr = c THEN g0 ELSE 0)
          /\ NoteValue(n.relayer1, c) = (IF m.quote_mint = c THEN r1 ELSE 0)
                 + (IF f1.gas_addr = c THEN g1 ELSE 0)
      <3>1. NoteValue(n.party0, c)
                  = (IF m.base_mint = c THEN Signed(n0, Buy) ELSE 0)
                    + (IF m.quote_mint = c THEN Signed(y, Sell) ELSE 0)
                    + (IF f0.gas_addr = c THEN Signed(U64(f0.gas_token_amount), Sell) ELSE 0)
        BY <1>2, <2>2, Zenon DEF NoteValue, Volumes4, Rest
      <3>2. NoteValue(n.party1, c)
                  = (IF m.base_mint = c THEN Signed(x, Sell) ELSE 0)
                    + (IF m.quote_mint = c THEN Signed(n1, Buy) ELSE 0)
                    + (IF f1.gas_addr = c THEN Signed(U64(f1.gas_token_amount), Sell) ELSE 0)
        BY <1>2, <2>2, Zenon DEF NoteValue, Volumes4, Rest
      <3>3. NoteValue(n.relayer0, c)
                  = (IF m.base_mint = c THEN Signed(r0, Buy) ELSE 0)
                    + (IF m.quote_mint = c THEN Signed(0, Buy) ELSE 0)
                    + (IF f0.gas_addr = c THEN Signed(U64(f0.gas_token_amount), Buy) ELSE 0)
        BY <1>2, <2>2, Zenon DEF NoteValue, Volumes4, Rest
      <3>4. NoteValue(n.relayer1, c)
                  = (IF m.base_mint = c THEN Signed(0, Buy) ELSE 0)
                    + (IF m.quote_mint = c THEN Signed(r1, Buy) ELSE 0)
                    + (IF f1.gas_addr = c THEN Signed(U64(f1.gas_token_amount), Buy) ELSE 0)
        BY <1>2, <2>2, Zenon DEF NoteValue, Volumes4, Rest
      <3>5. /\ Signed(n0, Buy) = n0 /\ Signed(n1, Buy) = n1 /\ Signed(r0, Buy) = r0 /\ Signed(r1, Buy) = r1
            /\ Signed(0, Buy) = 0 /\ Signed(x, Sell) = -x /\ Signed(y, Sell) = -y
            /\ Signed(g0, Sell) = -g0 /\ Signed(g1, Sell) = -g1
            /\ Signed(g0, Buy) = g0 /\ Signed(g1, Buy) = g1
        BY SMTT(30) DEF Signed, Buy, Sell
      <3>6. NoteValue(n.party0, c) = (IF m.base_mint = c THEN n0 ELSE 0)
              - (IF m.quote_mint = c THEN y ELSE 0) - (IF f0.gas_addr = c THEN g0 ELSE 0)
        BY <1>1, <2>1, <3>1, <3>5, SMTT(30)
      <3>7. NoteValue(n.party1, c) = (IF m.quote_mint = c THEN n1 ELSE 0)
              - (IF m.base_mint = c THEN x ELSE 0) - (IF f1.gas_addr = c THEN g1 ELSE 0)
        BY <1>1, <2>1, <3>2, <3>5, SMTT(30)
      <3>8. NoteValue(n.relayer0, c) = (IF m.base_mint = c THEN r0 ELSE 0)
              + (IF f0.gas_addr = c THEN g0 ELSE 0)
        BY <1>1, <2>1, <3>3, <3>5, SMTT(30)
      <3>9. NoteValue(n.relayer1, c) = (IF m.quote_mint = c THEN r1 ELSE 0)
              + (IF f1.gas_addr = c THEN g1 ELSE 0)
        BY <1>1, <2>1, <3>4, <3>5, SMTT(30)
      <3> QED
        BY <3>6, <3>7, <3>8, <3>9, Zenon
    <2> QED
      BY <1>1, <1>4, <1>5, <2>1, <2>3 DEF Given, Gas, Sold, opposite, Buy
  <1>6. CASE m.direction # Buy
    <2> DEFINE n0 == Share(Net(f0), y)
               n1 == Share(Net(f1), x)
               r0 == Share(f0.percentage_fee, y)
               r1 == Share(f1.percentage_fee, x)
    <2>0. m.direction = Sell
      BY <1>6 DEF MatchOK, Buy, Sell
    <2>1. /\ n0 \in Nat /\ r0 \in Nat /\ py \in Nat /\ n0 + r0 + py <= y
          /\ n1 \in Nat /\ r1 \in Nat /\ px \in Nat /\ n1 + r1 + px <= x
      BY <1>1, SharesSum, Zenon DEF FeeOK
    <2>2. /\ Volumes4(n.party0, x, Sell, n0, Buy) /\ Volumes4(n.party1, n1, Buy, y, Sell)
          /\ Volumes4(n.relayer0, 0, Buy, r0, Buy) /\ Volumes4(n.relayer1, r1, Buy, 0, Buy)
      <3>1. opposite(Sell) = Buy
        BY DEF opposite, Buy, Sell
      <3> QED
        BY <1>6, <2>0, <3>1, NotesAre, Zenon
    <2> HIDE DEF n0, n1, r0, r1, px, py
    <2>3. /\ NoteValue(n.party0, c) = (IF m.quote_mint = c THEN n0 ELSE 0)
                 - (IF m.base_mint = c THEN x ELSE 0) - (IF f0.gas_addr = c THEN g0 ELSE 0)
          /\ NoteValue(n.party1, c) = (IF m.base_mint = c THEN n1 ELSE 0)
                 - (IF m.quote_mint = c THEN y ELSE 0) - (IF f1.gas_addr = c THEN g1 ELSE 0)
          /\ NoteValue(n.relayer0, c) = (IF m.quote_mint = c THEN r0 ELSE 0)
                 + (IF f0.gas_addr = c THEN g0 ELSE 0)
          /\ NoteValue(n.relayer1, c) = (IF m.base_mint = c THEN r1 ELSE 0)
                 + (IF f1.gas_addr = c THEN g1 ELSE 0)
      <3>1. NoteValue(n.party0, c)
                  = (IF m.base_mint = c THEN Signed(x, Sell) ELSE 0)
                    + (IF m.quote_mint = c THEN Signed(n0, Buy) ELSE 0)
                    + (IF f0.gas_addr = c THEN Signed(U64(f0.gas_token_amount), Sell) ELSE 0)
        BY <1>2, <2>2, Zenon DEF NoteValue, Volumes4, Rest
      <3>2. NoteValue(n.party1, c)
                  = (IF m.base_mint = c THEN Signed(n1, Buy) ELSE 0)
                    + (IF m.quote_mint = c THEN Signed(y, Sell) ELSE 0)
                    + (IF f1.gas_addr = c THEN Signed(U64(f1.gas_token_amount), Sell) ELSE 0)
        BY <1>2, <2>2, Zenon DEF NoteValue, Volumes4, Rest
      <3>3. NoteValue(n.relayer0, c)
                  = (IF m.base_mint = c THEN Signed(0, Buy) ELSE 0)
                    + (IF m.quote_mint = c THEN Signed(r0, Buy) ELSE 0)
                    + (IF f0.gas_addr = c THEN Signed(U64(f0.gas_token_amount), Buy) ELSE 0)
        BY <1>2, <2>2, Zenon DEF NoteValue, Volumes4, Rest
      <3>4. NoteValue(n.relayer1, c)
                  = (IF m.base_mint = c THEN Signed(r1, Buy) ELSE 0)
                    + (IF m.quote_mint = c THEN Signed(0, Buy) ELSE 0)
                    + (IF f1.gas_addr = c THEN Signed(U64(f1.gas_token_amount), Buy) ELSE 0)
        BY <1>2, <2>2, Zenon DEF NoteValue, Volumes4, Rest
      <3>5. /\ Signed(n0, Buy) = n0 /\ Signed(n1, Buy) = n1 /\ Signed(r0, Buy) = r0 /\ Signed(r1, Buy) = r1
            /\ Signed(0, Buy) = 0 /\ Signed(x, Sell) = -x /\ Signed(y, Sell) = -y
            /\ Signed(g0, Sell) = -g0 /\ Signed(g1, Sell) = -g1
            /\ Signed(g0, Buy) = g0 /\ Signed(g1, Buy) = g1
        BY DEF Signed, Buy, Sell
      <3>6. NoteValue(n.party0, c) = (IF m.quote_mint = c THEN n0 ELSE 0)
              - (IF m.base_mint = c THEN x ELSE 0) - (IF f0.gas_addr = c THEN g0 ELSE 0)
        BY <1>1, <2>1, <3>1, <3>5, SMTT(30)
      <3>7. NoteValue(n.party1, c) = (IF m.base_mint = c THEN n1 ELSE 0)
              - (IF m.quote_mint = c THEN y ELSE 0) - (IF f1.gas_addr = c THEN g1 ELSE 0)
        BY <1>1, <2>1, <3>2, <3>5, SMTT(30)
      <3>8. NoteValue(n.relayer0, c) = (IF m.quote_mint = c THEN r0 ELSE 0)
              + (IF f0.gas_addr = c THEN g0 ELSE 0)
        BY <1>1, <2>1, <3>3, <3>5, SMTT(30)
      <3>9. NoteValue(n.relayer1, c) = (IF m.base_mint = c THEN r1 ELSE 0)
              + (IF f1.gas_addr = c THEN g1 ELSE 0)
        BY <1>1, <2>1, <3>4, <3>5
      <3> QED
        BY <3>6, <3>7, <3>8, <3>9, Zenon
    <2> QED
      BY <1>1, <1>4, <2>0, <2>1, <2>3 DEF Given, Gas, Sold, opposite, Buy, Sell
  <1> QED
    BY <1>5, <1>6, Zenon

\* The circuit's count of the tests that hold does not wrap around: all hold
\* when it is full.
LEMMA AllHold ==
    ASSUME NEW c, Len(c) = 8, DOMAIN c = 1..8, \A i \in 1..8 : c[i] \in {0, 1}, AllOnes(c) = 1
    PROVE  \A i \in 1..8 : c[i] = 1
  <1> DEFINE s == SumFunctionOnSet(c, 1..8)
  <1>0. IsFiniteSet(1..8) /\ Cardinality(1..8) = 8
    <2>1. 1 \in Int /\ 8 \in Int
      OBVIOUS
    <2>2. IsFiniteSet(1..8) /\ Cardinality(1..8) = IF 1 > 8 THEN 0 ELSE 8 - 1 + 1
      BY <2>1, FS_Interval, Zenon
    <2> QED
      BY <2>2
  <1>1. s \in Nat /\ s <= 8
    BY <1>0, SumBits
  <1>2. s \in Scalar /\ 8 \in Scalar
    BY <1>1, CountsFit, FieldPositive DEF Scalar
  <1>3. FSum(c) = s
    <2>1. FSum(c) = s % P
      BY Zenon DEF FSum, SumFunction
    <2> HIDE DEF s
    <2> QED
      BY <1>2, <2>1, ScalarNat
  <1>4. s = 8
    <2> HIDE DEF s
    <2>1. Eq(s, 8).val = 1
      BY <1>3 DEF AllOnes
    <2> QED
      BY <1>2, <2>1, EqIs
  <1>5. ASSUME NEW k \in 1..8, c[k] = 0 PROVE FALSE
    <2> DEFINE R == (1..8) \ {k}
    <2>1. s = c[k] + SumFunctionOnSet(c, R)
      <3>1. \A i \in 1..8 : c[i] \in Int
        OBVIOUS
      <3> QED
        BY <1>0, <3>1, SumRemove, Zenon
    <2>2. IsFiniteSet(R) /\ Cardinality(R) = 7
      <3>1. IsFiniteSet(R) /\ Cardinality(R) = Cardinality(1..8) - 1
        BY <1>0, FS_RemoveElement, Zenon
      <3> QED
        BY <1>0, <3>1
    <2>3. SumFunctionOnSet(c, R) \in Nat /\ SumFunctionOnSet(c, R) <= 7
      <3>1. \A i \in R : c[i] \in {0, 1}
        OBVIOUS
      <3> HIDE DEF R
      <3> QED
        BY <2>2, <3>1, SumBits
    <2> HIDE DEF s, R
    <2> QED
      BY <1>4, <1>5, <2>1, <2>3
  <1> QED
    BY <1>5

IsAppended(c, X, u, v) ==
    c \in Seq(X) /\ Len(c) = Len(u) + Len(v) /\ \A i \in 1..Len(v) : c[Len(u) + i] = v[i]

\* Concatenation, as a fact about positions.
LEMMA Appended ==
    ASSUME NEW X, NEW u \in Seq(X), NEW v \in Seq(X)
    PROVE  IsAppended(u \o v, X, u, v)
  <1>1. Len(u) \in Nat /\ Len(v) \in Nat
    OBVIOUS
  <1>2. u \o v \in Seq(X) /\ Len(u \o v) = Len(u) + Len(v)
    OBVIOUS
  <1>3. ASSUME NEW i \in 1..Len(v) PROVE (u \o v)[Len(u) + i] = v[i]
    <2>1. Len(u) + i \in 1..(Len(u) + Len(v)) /\ ~(Len(u) + i <= Len(u))
          /\ (Len(u) + i) - Len(u) = i
      BY <1>1
    <2> QED
      BY <2>1
  <1> QED
    BY <1>2, <1>3 DEF IsAppended

\* The positions of two concatenated sequences of four.
LEMMA FourAndFour ==
    ASSUME NEW X, NEW u \in Seq(X), NEW v \in Seq(X), Len(u) = 4, Len(v) = 4
    PROVE  /\ Len(u \o v) = 8 /\ DOMAIN (u \o v) = 1..8
           /\ \A i \in 1..8 : (u \o v)[i] \in X
           /\ (u \o v)[5] = v[1] /\ (u \o v)[6] = v[2]
  <1> DEFINE c == u \o v
  <1>1. /\ c \in Seq(X) /\ Len(c) = Len(u) + Len(v)
        /\ \A i \in 1..Len(v) : c[Len(u) + i] = v[i]
    <2>1. IsAppended(c, X, u, v)
      BY Appended, Zenon
    <2> QED
      BY <2>1, Zenon DEF IsAppended
  <1> HIDE DEF c
  <1>2. Len(c) = 8 /\ c[5] = v[1] /\ c[6] = v[2]
    <2>1. Len(u) + Len(v) = 8 /\ Len(u) + 1 = 5 /\ Len(u) + 2 = 6
          /\ 1 \in 1..Len(v) /\ 2 \in 1..Len(v)
      OBVIOUS
    <2> QED
      BY <1>1, <2>1, Zenon
  <1>3. DOMAIN c = 1..8 /\ \A i \in 1..8 : c[i] \in X
    <2>1. c \in Seq(X)
      BY <1>1, Zenon
    <2>2. DOMAIN c = 1..Len(c) /\ \A i \in 1..Len(c) : c[i] \in X
      BY <2>1
    <2> QED
      BY <1>2, <2>2, Zenon
  <1> QED
    BY <1>2, <1>3, Zenon DEF c

\* When the volume constraints hold, so do the two equalities on the parties'
\* amounts.
LEMMA VolumesHold ==
    ASSUME NEW volumes, NEW shares, Len(shares) = 4, NEW e1, NEW e2, NEW e3, NEW e4,
           e1 \in {0, 1}, e2 \in {0, 1}, e3 \in {0, 1}, e4 \in {0, 1}
    PROVE  /\ VolumesMatch(volumes, shares, <<e1, e2, e3, e4>>).val \in {0, 1}
           /\ VolumesMatch(volumes, shares, <<e1, e2, e3, e4>>).val = 1 => e1 = 1 /\ e2 = 1
  <1> DEFINE first == [i \in 1..4 |-> Eq(volumes[i], shares[i].val).val]
             others == <<e1, e2, e3, e4>>
             c == first \o others
  <1>1. VolumesMatch(volumes, shares, others).val = AllOnes(c)
    BY DEF VolumesMatch
  <1>2. AllOnes(c) \in {0, 1}
    BY EqBit, Zenon DEF AllOnes
  <1>3. first \in [1..4 -> {0, 1}]
    BY EqBit, Zenon
  <1> HIDE DEF first
  <1>4. /\ first \in Seq({0, 1}) /\ Len(first) = 4 /\ others \in Seq({0, 1}) /\ Len(others) = 4
        /\ others[1] = e1 /\ others[2] = e2
    <2>1. first \in Seq({0, 1}) /\ Len(first) = 4
      <3>1. 4 \in Nat
        OBVIOUS
      <3> QED
        BY <1>3, <3>1, FunSeq, Zenon
    <2>2. others \in Seq({0, 1}) /\ Len(others) = 4 /\ others[1] = e1 /\ others[2] = e2
      OBVIOUS
    <2> QED
      BY <2>1, <2>2, Zenon
  <1> HIDE DEF others
  <1>5. /\ Len(c) = 8 /\ DOMAIN c = 1..8 /\ \A i \in 1..8 : c[i] \in {0, 1}
        /\ c[5] = e1 /\ c[6] = e2
    <2> DEFINE X == {0, 1}
    <2>1. first \in Seq(X) /\ others \in Seq(X)
      BY <1>4
    <2> HIDE DEF X
    <2>2. /\ Len(c) = 8 /\ DOMAIN c = 1..8 /\ \A i \in 1..8 : c[i] \in X
          /\ c[5] = others[1] /\ c[6] = others[2]
      BY <1>4, <2>1, FourAndFour
    <2> QED
      BY <1>4, <2>2, Zenon DEF X
  <1> HIDE DEF c
  <1>7. ASSUME AllOnes(c) = 1 PROVE e1 = 1 /\ e2 = 1
    <2>1. \A i \in 1..8 : c[i] = 1
      BY <1>5, <1>7, AllHold
    <2> QED
      BY <1>5, <2>1
  <1> QED
    BY <1>1, <1>2, <1>7, Zenon DEF others

\* A bundle the contract accepts moves whole amounts: converting them to 64 bits
\* lost nothing.
THEOREM EncryptionWhole ==
    ASSUME NEW res, NEW n, n = create_notes(res.match_, res), MatchOK(res.match_),
           NEW v, NEW s, s.protocol_fee = PROTOCOL_FEE,
           ValidMatchEncryption(EncryptionWitness(res, n, v), s)
    PROVE  /\ U64(res.match_.base_amount) = res.match_.base_amount
           /\ U64(res.match_.quote_amount) = res.match_.quote_amount
  <1> DEFINE w == EncryptionWitness(res, n, v)
             m == res.match_
             d == m.direction
             buy == party0_buy_base_constraints_satisfied(w, PROTOCOL_FEE)
             sell == party1_buy_base_constraints_satisfied(w, PROTOCOL_FEE)
  <1>1. w.match_res = m /\ w.notes = n
    BY DEF EncryptionWitness
  <1>2. VolumesValid(d, buy, sell)
    BY <1>1, Zenon DEF ValidMatchEncryption, validate_notes
  <1> HIDE DEF w
  <1>3. /\ buy.val \in {0, 1}
        /\ buy.val = 1 => /\ Eq(n.party0.volume2, m.quote_amount).val = 1
                          /\ Eq(n.party1.volume1, m.base_amount).val = 1
    <2> DEFINE shares == <<ShareVar(NetFraction(w.party0_fee, PROTOCOL_FEE), w.match_res.base_amount),
                           ShareVar(NetFraction(w.party1_fee, PROTOCOL_FEE), w.match_res.quote_amount),
                           ShareVar(w.party0_fee.percentage_fee, w.match_res.base_amount),
                           ShareVar(w.party1_fee.percentage_fee, w.match_res.quote_amount)>>
    <2>1. Len(shares) = 4
      OBVIOUS
    <2> DEFINE volumes == <<w.notes.party0.volume1, w.notes.party1.volume2,
                            w.notes.relayer0.volume1, w.notes.relayer1.volume2>>
               e1 == Eq(w.notes.party0.volume2, w.match_res.quote_amount).val
               e2 == Eq(w.notes.party1.volume1, w.match_res.base_amount).val
               e3 == Eq(w.notes.relayer0.volume2, 0).val
               e4 == Eq(w.notes.relayer1.volume1, 0).val
    <2>2. buy = VolumesMatch(volumes, shares, <<e1, e2, e3, e4>>)
      BY Zenon DEF party0_buy_base_constraints_satisfied
    <2>3. e1 \in {0, 1} /\ e2 \in {0, 1} /\ e3 \in {0, 1} /\ e4 \in {0, 1}
      BY EqBit, Zenon
    <2> HIDE DEF shares, volumes, e1, e2, e3, e4
    <2>4. buy.val \in {0, 1} /\ (buy.val = 1 => e1 = 1 /\ e2 = 1)
      BY <2>1, <2>2, <2>3, VolumesHold
    <2> QED
      BY <1>1, <2>4, Zenon DEF e1, e2
  <1>4. /\ sell.val \in {0, 1}
        /\ sell.val = 1 => /\ Eq(n.party0.volume1, m.base_amount).val = 1
                           /\ Eq(n.party1.volume2, m.quote_amount).val = 1
    <2> DEFINE shares == <<ShareVar(NetFraction(w.party0_fee, PROTOCOL_FEE), w.match_res.quote_amount),
                           ShareVar(NetFraction(w.party1_fee, PROTOCOL_FEE), w.match_res.base_amount),
                           ShareVar(w.party0_fee.percentage_fee, w.match_res.quote_amount),
                           ShareVar(w.party1_fee.percentage_fee, w.match_res.base_amount)>>
    <2>1. Len(shares) = 4
      OBVIOUS
    <2> DEFINE volumes == <<w.notes.party0.volume2, w.notes.party1.volume1,
                            w.notes.relayer0.volume2, w.notes.relayer1.volume1>>
               e1 == Eq(w.notes.party0.volume1, w.match_res.base_amount).val
               e2 == Eq(w.notes.party1.volume2, w.match_res.quote_amount).val
               e3 == Eq(w.notes.relayer0.volume1, 0).val
               e4 == Eq(w.notes.relayer1.volume2, 0).val
    <2>2. sell = VolumesMatch(volumes, shares, <<e1, e2, e3, e4>>)
      BY Zenon DEF party1_buy_base_constraints_satisfied
    <2>3. e1 \in {0, 1} /\ e2 \in {0, 1} /\ e3 \in {0, 1} /\ e4 \in {0, 1}
      BY EqBit, Zenon
    <2> HIDE DEF shares, volumes, e1, e2, e3, e4
    <2>4. sell.val \in {0, 1} /\ (sell.val = 1 => e1 = 1 /\ e2 = 1)
      BY <2>1, <2>2, <2>3, VolumesHold
    <2> QED
      BY <1>1, <2>4, Zenon DEF e1, e2
  <1> HIDE DEF buy, sell
  <1>5. d \in {0, 1} /\ IF d = 1 THEN sell.val = 1 ELSE buy.val = 1
    <2>1. d \in {0, 1} /\ CondSelect(sell.val, buy.val, d) = 1
      BY <1>2, SMTT(30) DEF VolumesValid, MatchOK
    <2>2. sell.val \in Int /\ buy.val \in Int /\ sell.val % P = sell.val /\ buy.val % P = buy.val
      BY <1>3, <1>4, Bits, ScalarNat
    <2> QED
      BY <2>1, <2>2, Select
  <1>6. ASSUME NEW a \in Scalar, Eq(U64(a), a).val = 1 PROVE U64(a) = a
    <2>1. U64(a) \in Scalar
      <3>1. a \in Nat /\ a < P
        BY ScalarNat
      <3>2. U64(a) \in Nat /\ U64(a) <= a
        BY <3>1, U64Nat, Zenon
      <3> QED
        BY <3>1, <3>2, FieldPositive DEF Scalar
    <2> QED
      BY <1>6, <2>1, EqIs
  <1>7. m.base_amount \in Scalar /\ m.quote_amount \in Scalar
    BY SMTT(30) DEF MatchOK
  <1>8. CASE d = Buy
    <2>1. n.party0.volume2 = U64(m.quote_amount) /\ n.party1.volume1 = U64(m.base_amount)
      <3>1. /\ Volumes4(n.party0, Share(Net(res.party0_fee), m.base_amount), m.direction,
                      U64(m.quote_amount), opposite(m.direction))
            /\ Volumes4(n.party1, U64(m.base_amount), opposite(m.direction),
                      Share(Net(res.party1_fee), m.quote_amount), m.direction)
        BY <1>8, NotesAre, Zenon
      <3> QED
        BY <3>1, Zenon DEF Volumes4
    <2> QED
      BY <1>3, <1>5, <1>6, <1>7, <1>8, <2>1 DEF Buy
  <1>9. CASE d # Buy
    <2>1. n.party0.volume1 = U64(m.base_amount) /\ n.party1.volume2 = U64(m.quote_amount)
      <3>1. /\ Volumes4(n.party0, U64(m.base_amount), m.direction,
                      Share(Net(res.party0_fee), m.quote_amount), opposite(m.direction))
            /\ Volumes4(n.party1, Share(Net(res.party1_fee), m.base_amount),
                      opposite(m.direction), U64(m.quote_amount), m.direction)
        BY <1>9, NotesAre, Zenon
      <3> QED
        BY <3>1, Zenon DEF Volumes4
    <2> QED
      BY <1>4, <1>5, <1>6, <1>7, <1>9, <2>1, Zenon DEF Buy
  <1> QED
    BY <1>8, <1>9

-----------------------------------------------------------------------------
(* What a wallet holds *)

BalancesOK(b) == b \in [1..MAX_BALANCES -> [mint : Scalar, amount : Scalar]]
MintsUnique(b) ==
    \A i, j \in 1..MAX_BALANCES : i # j /\ b[i].mint = b[j].mint => b[i].mint = 0

Held(b, c) == [i \in 1..MAX_BALANCES |-> IF b[i].mint = c THEN b[i].amount ELSE 0]

\* An element of a set of balances is a pair of scalars.
LEMMA BalanceScalars ==
    ASSUME NEW b, BalancesOK(b), NEW i \in 1..MAX_BALANCES
    PROVE  b[i].mint \in Scalar /\ b[i].amount \in Scalar /\ b[i].amount \in Nat
  <1>1. b[i] \in [mint : Scalar, amount : Scalar]
    BY Zenon DEF BalancesOK
  <1>2. b[i].mint \in Scalar /\ b[i].amount \in Scalar
    BY <1>1
  <1> QED
    BY <1>2, ScalarNat, Zenon

\* A wallet has MAX_BALANCES balances.
LEMMA BalanceLen ==
    ASSUME NEW b, BalancesOK(b)
    PROVE  Len(b) = MAX_BALANCES /\ MAX_BALANCES \in Nat /\ IsFiniteSet(1..MAX_BALANCES)
  <1>1. MAX_BALANCES \in Nat /\ 1 \in Int /\ MAX_BALANCES \in Int
    BY WidthsFit
  <1>2. IsFiniteSet(1..MAX_BALANCES)
    BY <1>1, FS_Interval, Zenon
  <1>3. Len(b) = MAX_BALANCES
    BY <1>1, FunSeq, Zenon DEF BalancesOK
  <1> QED
    BY <1>1, <1>2, <1>3

\* What a wallet holds of a mint is a sum of natural numbers.
LEMMA HoldingIs ==
    ASSUME NEW w, BalancesOK(w.balances), NEW c
    PROVE  /\ Holding(w, c) = SumFunctionOnSet(Held(w.balances, c), 1..MAX_BALANCES)
           /\ \A i \in 1..MAX_BALANCES : Held(w.balances, c)[i] \in Nat
           /\ Holding(w, c) \in Nat
  <1> DEFINE h == Held(w.balances, c)
             I == 1..MAX_BALANCES
  <1>1. Holding(w, c) = SumFunctionOnSet(h, I)
    <2>1. DOMAIN h = I
      BY Zenon DEF Held
    <2>2. Holding(w, c) = SumFunctionOnSet(h, DOMAIN h)
      BY Zenon DEF Holding, SumFunction, Held
    <2> QED
      BY <2>1, <2>2, Zenon
  <1>2. ASSUME NEW i \in I PROVE h[i] \in Nat
    <2>1. w.balances[i].amount \in Nat
      BY BalanceScalars, Zenon
    <2>2. h[i] = IF w.balances[i].mint = c THEN w.balances[i].amount ELSE 0
      BY Zenon DEF Held
    <2> QED
      BY <2>1, <2>2
  <1>3. IsFiniteSet(I)
    BY BalanceLen, Zenon
  <1> HIDE DEF h, I
  <1>4. SumFunctionOnSet(h, I) \in Nat
    BY <1>2, <1>3, SumNat, Zenon
  <1> QED
    BY <1>1, <1>2, <1>4, Zenon DEF h, I

\* A wallet holds at least what one of its balances has.
LEMMA HoldingAtLeast ==
    ASSUME NEW w, BalancesOK(w.balances), NEW i \in 1..MAX_BALANCES
    PROVE  Holding(w, w.balances[i].mint) >= w.balances[i].amount
  <1> DEFINE c == w.balances[i].mint
             h == Held(w.balances, c)
             I == 1..MAX_BALANCES
  <1>1. /\ Holding(w, c) = SumFunctionOnSet(h, I) /\ \A j \in I : h[j] \in Nat
    BY HoldingIs, Zenon
  <1>2. IsFiniteSet(I) /\ h[i] = w.balances[i].amount
    BY BalanceLen, Zenon DEF Held
  <1>a. w.balances[i].amount \in Nat
    BY BalanceScalars, Zenon
  <1> HIDE DEF h, I, c
  <1>3. \A j \in I : h[j] \in Int
    BY <1>1
  <1>4. SumFunctionOnSet(h, I) = h[i] + SumFunctionOnSet(h, I \ {i})
    BY <1>2, <1>3, SumRemove, Zenon DEF I
  <1>5. IsFiniteSet(I \ {i}) /\ \A j \in I \ {i} : h[j] \in Nat
    BY <1>1, <1>2, FS_RemoveElement, Zenon
  <1>6. SumFunctionOnSet(h, I \ {i}) \in Nat
    BY <1>5, SumNat, Zenon
  <1>7. Holding(w, c) >= w.balances[i].amount
    BY <1>1, <1>2, <1>4, <1>6, <1>a
  <1> QED
    BY <1>7, Zenon DEF c

\* Unique mints: a wallet holds nothing of a mint or what one balance has of it.
LEMMA HoldingUnique ==
    ASSUME NEW w, BalancesOK(w.balances), MintsUnique(w.balances), NEW c, c # 0
    PROVE  \/ Holding(w, c) = 0
           \/ \E i \in 1..MAX_BALANCES :
                 w.balances[i].mint = c /\ Holding(w, c) = w.balances[i].amount
  <1> DEFINE h == Held(w.balances, c)
             I == 1..MAX_BALANCES
  <1>1. Holding(w, c) = SumFunctionOnSet(h, I) /\ (\A j \in I : h[j] \in Nat) /\ IsFiniteSet(I)
    BY HoldingIs, BalanceLen, Zenon
  <1>2. \A j \in I : h[j] = IF w.balances[j].mint = c THEN w.balances[j].amount ELSE 0
    BY Zenon DEF Held
  <1>3. CASE \A j \in I : w.balances[j].mint # c
    <2>1. \A j \in I : h[j] = 0
      BY <1>2, <1>3, Zenon
    <2> HIDE DEF h, I
    <2>2. SumFunctionOnSet(h, I) = 0
      BY <1>1, <2>1, SumZero, Zenon
    <2> QED
      BY <1>1, <2>2, Zenon
  <1>4. CASE \E j \in I : w.balances[j].mint = c
    <2>1. PICK j \in I : w.balances[j].mint = c
      BY <1>4, Zenon
    <2>2. \A k \in I : k # j => h[k] = 0
      BY <1>2, <2>1, Zenon DEF MintsUnique
    <2>3. h[j] \in Int
      BY <1>1
    <2>4. h[j] = w.balances[j].amount
      BY <1>2, <2>1, Zenon
    <2> HIDE DEF h
    <2>5. SumFunctionOnSet(h, I) = h[j]
      BY <1>1, <2>2, <2>3, SumOne, Zenon
    <2> QED
      BY <1>1, <2>1, <2>4, <2>5, Zenon
  <1> QED
    BY <1>3, <1>4, Zenon

-----------------------------------------------------------------------------
(* The amounts the circuits expect *)

\* A bit times a scalar.
LEMMA Masked ==
    ASSUME NEW a \in Scalar
    PROVE  FMul(1, a) = a /\ FMul(0, a) = 0 /\ FMul(a, 1) = a
  <1>1. a % P = a /\ a \in Int /\ P \in Nat \ {0}
    BY ScalarNat, FieldPositive, Zenon
  <1>2. 1 * a = a /\ 0 * a = 0 /\ a * 1 = a /\ 0 % P = 0
    BY <1>1
  <1> QED
    BY <1>1, <1>2, Zenon DEF FMul

\* What a volume adds to a balance, as the circuits compute it.
LEMMA SignedTerm ==
    ASSUME NEW v \in Nat, NEW d \in {0, 1}
    PROVE  CondSelect(FNeg(v), v, d) \in Scalar /\ Cong(CondSelect(FNeg(v), v, d), Signed(v, d))
  <1>1. v \in Int /\ -v \in Int
    OBVIOUS
  <1>2. FNeg(v) \in Scalar /\ FNeg(v) \in Int /\ FNeg(v) % P = FNeg(v)
    BY <1>1, FieldOps, ScalarNat, Zenon
  <1>3. CondSelect(FNeg(v), v, d) = IF d = 1 THEN FNeg(v) % P ELSE v % P
    BY <1>1, <1>2, Select, Zenon
  <1>4. CASE d = 1
    <2>1. CondSelect(FNeg(v), v, d) = FNeg(v)
      BY <1>2, <1>3, <1>4, Zenon
    <2>2. Signed(v, d) = -v
      BY <1>4 DEF Signed, Buy
    <2>3. Cong(FNeg(v), -v)
      BY <1>1, CongMod, Zenon DEF FNeg
    <2> QED
      BY <1>2, <2>1, <2>2, <2>3, Zenon
  <1>5. CASE d = 0
    <2>1. CondSelect(FNeg(v), v, d) = v % P
      BY <1>3, <1>5
    <2>2. Signed(v, d) = v
      BY <1>5 DEF Signed, Buy
    <2>3. Cong(v % P, v) /\ v % P \in Scalar
      BY <1>1, CongMod, Zenon
    <2> QED
      BY <2>1, <2>2, <2>3, Zenon
  <1> QED
    BY <1>4, <1>5

\* A term masked by an equality test is the term or zero, modulo P.
LEMMA MaskedTerm ==
    ASSUME NEW a \in Scalar, NEW b \in Scalar, NEW t \in Scalar, NEW s, Cong(t, s)
    PROVE  /\ FMul(Eq(a, b).val, t) \in Scalar /\ FMul(EqZero(FSub(a, b)).val, t) \in Scalar
           /\ Cong(FMul(Eq(a, b).val, t), IF b = a THEN s ELSE 0)
           /\ Cong(FMul(EqZero(FSub(a, b)).val, t), IF b = a THEN s ELSE 0)
  <1>1. /\ Eq(a, b).val = IF a = b THEN 1 ELSE 0
        /\ EqZero(FSub(a, b)).val = IF a = b THEN 1 ELSE 0
    BY EqIs, Zenon
  <1>2. FMul(1, t) = t /\ FMul(0, t) = 0
    BY Masked, Zenon
  <1>3. Cong(0, 0) /\ 0 \in Scalar
    BY CongSelf, Bits
  <1>4. CASE a = b
    BY <1>1, <1>2, <1>4, Zenon
  <1>5. CASE a # b
    BY <1>1, <1>2, <1>3, <1>5, Zenon
  <1> QED
    BY <1>4, <1>5

\* The circuits find all of a mint in a wallet by a masked sum.
LEMMA OldAmount ==
    ASSUME NEW w, BalancesOK(w.balances), NEW c \in Scalar, NEW f,
           f = [i \in 1..Len(w.balances) |->
                  FMul(EqZero(FSub(c, w.balances[i].mint)).val, w.balances[i].amount)]
           \/ f = [i \in 1..Len(w.balances) |->
                  FMul(Eq(w.balances[i].mint, c).val, w.balances[i].amount)]
    PROVE  FSum(f) \in Scalar /\ Cong(FSum(f), Holding(w, c))
  <1> DEFINE I == 1..MAX_BALANCES
             h == Held(w.balances, c)
  <1>1. Len(w.balances) = MAX_BALANCES /\ IsFiniteSet(I)
    BY BalanceLen, Zenon
  <1>2. /\ Holding(w, c) = SumFunctionOnSet(h, I)
        /\ \A i \in I : h[i] \in Nat
        /\ Holding(w, c) \in Nat
    BY HoldingIs, Zenon
  <1>3. DOMAIN f = I
    BY <1>1, Zenon
  <1>4. ASSUME NEW i \in I PROVE f[i] = h[i] /\ f[i] \in Int
    <2> DEFINE x == w.balances[i].mint
               y == w.balances[i].amount
    <2>1. x \in Scalar /\ y \in Scalar /\ y \in Int
      BY BalanceScalars, ScalarNat, Zenon
    <2>2. f[i] = FMul(EqZero(FSub(c, x)).val, y) \/ f[i] = FMul(Eq(x, c).val, y)
      BY <1>1
    <2>3. h[i] = IF x = c THEN y ELSE 0
      BY Zenon DEF Held
    <2> HIDE DEF x, y
    <2>4. FMul(1, y) = y /\ FMul(0, y) = 0
      BY <2>1, Masked, Zenon
    <2>5. EqZero(FSub(c, x)).val = IF c = x THEN 1 ELSE 0
      BY <2>1, EqIs, Zenon
    <2>6. Eq(x, c).val = IF x = c THEN 1 ELSE 0
      BY <2>1, EqIs, Zenon
    <2> HIDE DEF h
    <2>7. CASE x = c
      BY <2>1, <2>2, <2>3, <2>4, <2>5, <2>6, <2>7, Zenon
    <2>8. CASE x # c
      <3>1. EqZero(FSub(c, x)).val = 0 /\ Eq(x, c).val = 0 /\ h[i] = 0
        BY <2>3, <2>5, <2>6, <2>8
      <3>2. f[i] = 0
        BY <2>2, <2>4, <3>1, Zenon
      <3> QED
        BY <3>1, <3>2
    <2> QED
      BY <2>7, <2>8
  <1> HIDE DEF I, h
  <1>5. SumFunctionOnSet(f, I) = SumFunctionOnSet(h, I)
    BY <1>1, <1>4, SumSame, Zenon
  <1>6. FSum(f) = Holding(w, c) % P
    BY <1>2, <1>3, <1>5, Zenon DEF FSum, SumFunction
  <1>7. Holding(w, c) \in Int
    BY <1>2
  <1>8. Cong(Holding(w, c) % P, Holding(w, c)) /\ Holding(w, c) % P \in Scalar
    BY <1>7, CongMod, Zenon
  <1> QED
    BY <1>6, <1>8, Zenon

\* What a wallet should hold of a mint after a transfer in or out of the pool,
\* and after an internal transfer as well.
Transferred(w, c, ext) ==
    Holding(w, c) + (IF ext.mint = c THEN Signed(ext.volume, ext.direction) ELSE 0)
Remaining(w, c, int, ext) == Transferred(w, c, ext) - (IF int.mint = c THEN int.volume ELSE 0)

\* The amount VALID WALLET UPDATE expects, up to multiples of the field's order.
LEMMA ExpectedAmount ==
    ASSUME NEW w, BalancesOK(w.balances), NEW c \in Scalar, NEW int, NEW ext,
           int.mint \in Scalar, int.volume \in Nat,
           ext.mint \in Scalar, ext.volume \in Nat, ext.direction \in {0, 1}
    PROVE  /\ expected_amount(c, w, int, ext) \in Scalar
           /\ Cong(expected_amount(c, w, int, ext), Remaining(w, c, int, ext))
  <1> DEFINE f == [i \in 1..Len(w.balances) |->
                     FMul(EqZero(FSub(c, w.balances[i].mint)).val, w.balances[i].amount)]
             t == CondSelect(FNeg(ext.volume), ext.volume, ext.direction)
             e == FMul(EqZero(FSub(c, ext.mint)).val, t)
             n == FMul(EqZero(FSub(c, int.mint)).val, int.volume)
             E == IF ext.mint = c THEN Signed(ext.volume, ext.direction) ELSE 0
             N == IF int.mint = c THEN int.volume ELSE 0
             H == Holding(w, c)
  <1>1. FSum(f) \in Scalar /\ Cong(FSum(f), H)
    BY OldAmount, Zenon
  <1>2. t \in Scalar /\ Cong(t, Signed(ext.volume, ext.direction))
    BY SignedTerm, Zenon
  <1>3. e \in Scalar /\ Cong(e, E)
    <2> HIDE DEF t
    <2> QED
      BY <1>2, MaskedTerm, Zenon
  <1>4. Cong(n, N)
    <2>1. EqZero(FSub(c, int.mint)).val = IF c = int.mint THEN 1 ELSE 0
      BY EqIs, Zenon
    <2>2. 1 * int.volume = int.volume /\ 0 * int.volume = 0 /\ int.volume \in Int /\ 0 \in Int
      OBVIOUS
    <2>3. Cong(int.volume % P, int.volume) /\ Cong(0 % P, 0)
      BY <2>2, CongMod, Zenon
    <2>4. CASE int.mint = c
      BY <2>1, <2>2, <2>3, <2>4, Zenon DEF FMul
    <2>5. CASE int.mint # c
      BY <2>1, <2>2, <2>3, <2>5, Zenon DEF FMul
    <2> QED
      BY <2>4, <2>5
  <1>5. expected_amount(c, w, int, ext) = FSub(FAdd(FSum(f), e), n)
    BY Zenon DEF expected_amount
  <1>a. Remaining(w, c, int, ext) = (H + E) - N
    BY Zenon DEF Remaining, Transferred
  <1> HIDE DEF f, t, e, n, E, N, H
  <1>6. FSum(f) + e \in Int
    BY <1>1, <1>3, ScalarNat
  <1>7. Cong(FSum(f) + e, H + E)
    BY <1>1, <1>3, CongAdd, Zenon
  <1>8. Cong(FAdd(FSum(f), e), FSum(f) + e)
    BY <1>6, CongMod, Zenon DEF FAdd
  <1>9. Cong(FAdd(FSum(f), e), H + E)
    BY <1>7, <1>8, CongTrans, Zenon
  <1>10. Cong(FAdd(FSum(f), e) - n, (H + E) - N)
    BY <1>4, <1>9, CongAdd, Zenon
  <1>11. FAdd(FSum(f), e) - n \in Int
    BY <1>10, Zenon DEF Cong
  <1>12. /\ Cong(FSub(FAdd(FSum(f), e), n), FAdd(FSum(f), e) - n)
         /\ FSub(FAdd(FSum(f), e), n) \in Scalar
    BY <1>11, CongMod, Zenon DEF FSub
  <1>13. Cong(FSub(FAdd(FSum(f), e), n), (H + E) - N)
    BY <1>10, <1>12, CongTrans, Zenon
  <1> QED
    BY <1>5, <1>12, <1>13, <1>a, Zenon

\* A sum of four terms.
LEMMA SumOfFour ==
    ASSUME NEW a \in Int, NEW b \in Int, NEW c \in Int, NEW d \in Int
    PROVE  SumFunction(<<a, b, c, d>>) = a + b + c + d
  <1> DEFINE f == <<a, b, c, d>>
  <1>1. DOMAIN f = {1, 2, 3, 4} /\ f[1] = a /\ f[2] = b /\ f[3] = c /\ f[4] = d
    OBVIOUS
  <1> HIDE DEF f
  <1>2. /\ IsFiniteSet({1, 2, 3, 4}) /\ IsFiniteSet({1, 2, 3}) /\ IsFiniteSet({1, 2})
        /\ IsFiniteSet({1})
    <2>1. IsFiniteSet({1})
      BY FS_Singleton, Zenon
    <2>2. IsFiniteSet({1} \cup {2})
      BY <2>1, FS_AddElement, Zenon
    <2>3. IsFiniteSet(({1} \cup {2}) \cup {3})
      BY <2>2, FS_AddElement, Zenon
    <2>4. IsFiniteSet((({1} \cup {2}) \cup {3}) \cup {4})
      BY <2>3, FS_AddElement, Zenon
    <2>5. /\ {1, 2} = {1} \cup {2} /\ {1, 2, 3} = ({1} \cup {2}) \cup {3}
          /\ {1, 2, 3, 4} = (({1} \cup {2}) \cup {3}) \cup {4}
      OBVIOUS
    <2> QED
      BY <2>1, <2>2, <2>3, <2>4, <2>5, Zenon
  <1>3. \A x \in {1, 2, 3, 4} : f[x] \in Int
    BY <1>1
  <1>4. /\ {1, 2, 3, 4} \ {4} = {1, 2, 3} /\ {1, 2, 3} \ {3} = {1, 2} /\ {1, 2} \ {2} = {1}
        /\ {1} \ {1} = {}
    OBVIOUS
  <1>5. SumFunctionOnSet(f, {1, 2, 3, 4}) = f[4] + SumFunctionOnSet(f, {1, 2, 3})
    <2>1. 4 \in {1, 2, 3, 4}
      OBVIOUS
    <2> QED
      BY <1>2, <1>3, <1>4, <2>1, SumRemove
  <1>6. SumFunctionOnSet(f, {1, 2, 3}) = f[3] + SumFunctionOnSet(f, {1, 2})
    <2>1. 3 \in {1, 2, 3} /\ \A x \in {1, 2, 3} : f[x] \in Int
      BY <1>3
    <2> QED
      BY <1>2, <1>4, <2>1, SumRemove
  <1>7. SumFunctionOnSet(f, {1, 2}) = f[2] + SumFunctionOnSet(f, {1})
    <2>1. 2 \in {1, 2} /\ \A x \in {1, 2} : f[x] \in Int
      BY <1>3
    <2> QED
      BY <1>2, <1>4, <2>1, SumRemove
  <1>8. SumFunctionOnSet(f, {1}) = f[1]
    <2>1. 1 \in {1} /\ \A x \in {1} : f[x] \in Int
      BY <1>3
    <2>2. SumFunctionOnSet(f, {1}) = f[1] + SumFunctionOnSet(f, {})
      BY <1>2, <1>4, <2>1, SumRemove
    <2> QED
      BY <1>1, <2>2, SumEmpty
  <1>9. SumFunction(f) = SumFunctionOnSet(f, {1, 2, 3, 4})
    BY <1>1, Zenon DEF SumFunction
  <1>10. SumFunction(f) = a + b + c + d
    BY <1>1, <1>5, <1>6, <1>7, <1>8, <1>9
  <1> QED
    BY <1>10 DEF f

\* One part of what a note adds to a wallet, and the balance VALID SETTLE expects.
Part(mint, volume, direction, c) == IF mint = c THEN Signed(volume, direction) ELSE 0

\* What one volume of a note adds to the expected balance of a mint, modulo P.
LEMMA PartTerm ==
    ASSUME NEW c \in Scalar, NEW mint \in Scalar, NEW v \in Nat, NEW d \in {0, 1}
    PROVE  /\ FMul(Eq(c, mint).val, NoteTerm(v, d)) \in Scalar
           /\ Cong(FMul(Eq(c, mint).val, NoteTerm(v, d)), Part(mint, v, d, c))
  <1>1. NoteTerm(v, d) \in Scalar /\ Cong(NoteTerm(v, d), Signed(v, d))
    BY SignedTerm, Zenon DEF NoteTerm
  <1> QED
    BY <1>1, MaskedTerm, Zenon DEF Part

\* expected_bal is the old holding plus the value of the note, modulo P.
THEOREM ExpectedBalance ==
    ASSUME NEW w, BalancesOK(w.balances), NEW c \in Scalar, NEW x, NoteOK(x)
    PROVE  /\ expected_bal(c, w, x) \in Scalar
           /\ Cong(expected_bal(c, w, x), Holding(w, c) + NoteValue(x, c))
  <1> DEFINE f == [i \in 1..Len(w.balances) |->
                     FMul(Eq(w.balances[i].mint, c).val, w.balances[i].amount)]
             t1 == FMul(Eq(c, x.mint1).val, NoteTerm(x.volume1, x.direction1))
             t2 == FMul(Eq(c, x.mint2).val, NoteTerm(x.volume2, x.direction2))
             t3 == FMul(Eq(c, x.fee_mint).val, NoteTerm(x.fee_volume, x.fee_direction))
             v1 == Part(x.mint1, x.volume1, x.direction1, c)
             v2 == Part(x.mint2, x.volume2, x.direction2, c)
             v3 == Part(x.fee_mint, x.fee_volume, x.fee_direction, c)
             H == Holding(w, c)
  <1>1. FSum(f) \in Scalar /\ Cong(FSum(f), H)
    BY OldAmount, Zenon
  <1>2. t1 \in Scalar /\ Cong(t1, v1)
    BY PartTerm, Zenon DEF NoteOK
  <1>3. t2 \in Scalar /\ Cong(t2, v2)
    BY PartTerm, Zenon DEF NoteOK
  <1>4. t3 \in Scalar /\ Cong(t3, v3)
    BY PartTerm, Zenon DEF NoteOK
  <1>5. expected_bal(c, w, x) = SumFunction(<<FSum(f), t1, t2, t3>>) % P
    BY Zenon DEF expected_bal, FSum
  <1>6. NoteValue(x, c) = v1 + v2 + v3
    BY Zenon DEF NoteValue, Part
  <1> HIDE DEF f, t1, t2, t3, v1, v2, v3, H
  <1>7. FSum(f) \in Int /\ t1 \in Int /\ t2 \in Int /\ t3 \in Int
    BY <1>1, <1>2, <1>3, <1>4, ScalarNat, Zenon
  <1>8. SumFunction(<<FSum(f), t1, t2, t3>>) = ((FSum(f) + t1) + t2) + t3
    BY <1>7, SumOfFour
  <1>9. ((FSum(f) + t1) + t2) + t3 \in Int
    BY <1>7
  <1>10. Cong(FSum(f) + t1, H + v1)
    BY <1>1, <1>2, CongAdd, Zenon
  <1>11. Cong((FSum(f) + t1) + t2, (H + v1) + v2)
    BY <1>3, <1>10, CongAdd, Zenon
  <1>12. Cong(((FSum(f) + t1) + t2) + t3, ((H + v1) + v2) + v3)
    BY <1>4, <1>11, CongAdd, Zenon
  <1>13. /\ Cong((((FSum(f) + t1) + t2) + t3) % P, ((FSum(f) + t1) + t2) + t3)
         /\ (((FSum(f) + t1) + t2) + t3) % P \in Scalar
    BY <1>9, CongMod, Zenon
  <1>14. Cong((((FSum(f) + t1) + t2) + t3) % P, ((H + v1) + v2) + v3)
    BY <1>12, <1>13, CongTrans, Zenon
  <1>15. ((H + v1) + v2) + v3 = H + (v1 + v2 + v3)
    <2>1. H \in Int /\ v1 \in Int /\ v2 \in Int /\ v3 \in Int
      BY <1>1, <1>2, <1>3, <1>4, Zenon DEF Cong
    <2> QED
      BY <2>1
  <1>16. expected_bal(c, w, x) \in Scalar /\ Cong(expected_bal(c, w, x), H + NoteValue(x, c))
    BY <1>5, <1>6, <1>8, <1>13, <1>14, <1>15, Zenon
  <1> QED
    BY <1>16, Zenon DEF H

-----------------------------------------------------------------------------
(* What the circuits allow a wallet to hold *)

\* The update circuit leaves no mint in two balances of a wallet.
LEMMA UpdateUnique ==
    ASSUME NEW w, BalancesOK(w.balances), constrain_unique_balance_mints(w)
    PROVE  MintsUnique(w.balances)
  <1> DEFINE b == w.balances
  <1>1. Len(b) = MAX_BALANCES /\ MAX_BALANCES \in Nat
    BY BalanceLen, Zenon
  <1>2. ASSUME NEW i \in 1..MAX_BALANCES, NEW j \in 1..MAX_BALANCES, i < j,
               b[i].mint = b[j].mint
        PROVE  b[i].mint = 0
    <2> DEFINE c == b[i].mint
    <2>1. c \in Scalar
      BY BalanceScalars, Zenon
    <2>2. FMul(b[i].mint, FSub(1, NotEqual(b[i].mint, b[j].mint).val)) = 0
      BY <1>1, <1>2, Zenon DEF constrain_unique_balance_mints
    <2>3. FMul(c, FSub(1, NotEqual(c, c).val)) = 0
      BY <1>2, <2>2, Zenon
    <2> HIDE DEF c
    <2>4. NotEqual(c, c).val = 0
      BY <2>1, EqIs
    <2>5. FSub(1, 0) = 1
      BY FieldPositive DEF FSub
    <2>6. FMul(c, 1) = c
      BY <2>1, Masked, Zenon
    <2>7. c = 0
      BY <2>3, <2>4, <2>5, <2>6, Zenon
    <2> QED
      BY <2>7 DEF c
  <1> SUFFICES ASSUME NEW i \in 1..MAX_BALANCES, NEW j \in 1..MAX_BALANCES, i # j,
                      b[i].mint = b[j].mint
               PROVE  b[i].mint = 0
    BY Zenon DEF MintsUnique
  <1>3. i < j \/ j < i
    BY <1>1
  <1> QED
    BY <1>2, <1>3, Zenon

\* The settle circuit leaves no mint in two balances of a wallet.
LEMMA SettleUnique ==
    ASSUME NEW w, BalancesOK(w.balances), validate_balance_mints_unique(w)
    PROVE  MintsUnique(w.balances)
  <1> DEFINE b == w.balances
  <1>1. Len(b) = MAX_BALANCES /\ MAX_BALANCES \in Nat
    BY BalanceLen, Zenon
  <1>2. ASSUME NEW i \in 1..MAX_BALANCES, NEW j \in 1..MAX_BALANCES, i < j,
               b[i].mint = b[j].mint
        PROVE  b[i].mint = 0
    <2> DEFINE c == b[i].mint
    <2>1. c \in Scalar
      BY BalanceScalars, Zenon
    <2>2. Or(NotEqual(b[i].mint, b[j].mint).val, EqZero(b[i].mint).val) = 1
      BY <1>1, <1>2, Zenon DEF validate_balance_mints_unique
    <2>3. Or(NotEqual(c, c).val, EqZero(c).val) = 1
      BY <1>2, <2>2, Zenon
    <2> HIDE DEF c
    <2>4. NotEqual(c, c).val = 0 /\ EqZero(c).val = IF c = 0 THEN 1 ELSE 0
      BY <2>1, EqIs
    <2>5. Or(0, 0) = 0
      BY FieldPositive DEF Or, FSub, FAdd, FMul
    <2>6. c = 0
      BY <2>3, <2>4, <2>5
    <2> QED
      BY <2>6 DEF c
  <1> SUFFICES ASSUME NEW i \in 1..MAX_BALANCES, NEW j \in 1..MAX_BALANCES, i # j,
                      b[i].mint = b[j].mint
               PROVE  b[i].mint = 0
    BY Zenon DEF MintsUnique
  <1>3. i < j \/ j < i
    BY <1>1
  <1> QED
    BY <1>2, <1>3, Zenon

TransferOK(x) == x.mint \in Scalar /\ x.volume \in 0..(2^AmountBits) /\ x.direction \in {0, 1}

\* A wallet update leaves no more of a mint than the external transfer explains:
\* an amount that would be negative is a scalar above the range of amounts.
LEMMA UpdateHolding ==
    ASSUME NEW old, NEW new, BalancesOK(old.balances), BalancesOK(new.balances),
           NEW int, NEW ext, TransferOK(int), TransferOK(ext),
           validate_transfers(new, old, int, ext),
           NEW c \in Scalar, c # 0, Transferred(old, c, ext) >= 0
    PROVE  Holding(new, c) <= Transferred(old, c, ext)
  <1> DEFINE y == Transferred(old, c, ext)
             z == Remaining(old, c, int, ext)
             B == 2^AmountBits
  <1>1. B \in Nat \ {0} /\ 2 * B <= P /\ P \in Nat
    BY Widths, FieldPositive
  <1>2. int.volume \in Nat /\ ext.volume \in Nat /\ int.volume <= B
    BY <1>1 DEF TransferOK
  <1>3. y \in Int
    <2>1. Holding(old, c) \in Nat
      BY HoldingIs, Zenon
    <2> QED
      BY <1>2, <2>1 DEF Transferred, Signed
  <1>4. z \in Int /\ z <= y /\ z >= -B
    BY <1>1, <1>2, <1>3 DEF Remaining
  <1>5. MintsUnique(new.balances)
    BY UpdateUnique, Zenon DEF validate_transfers
  <1>6. CASE Holding(new, c) = 0
    BY <1>3, <1>6
  <1>7. ASSUME NEW i \in 1..MAX_BALANCES,
               new.balances[i].mint = c, Holding(new, c) = new.balances[i].amount
        PROVE  Holding(new, c) <= y
    <2> DEFINE a == new.balances[i].amount
    <2>1. i \in 1..Len(new.balances)
      BY BalanceLen, Zenon
    <2>2. a = expected_amount(c, old, int, ext) /\ constrain_greater_than_zero(a, AmountBits)
      BY <1>7, <2>1, Zenon DEF validate_transfers
    <2>3. a \in Scalar /\ Cong(a, z)
      BY <1>2, <2>2, ExpectedAmount, Zenon DEF TransferOK
    <2>4. AmountBits \in 0..(ScalarMaxBits + 1)
      BY WidthsFit, PowersOfTwo
    <2>5. a < B
      BY <2>2, <2>3, <2>4, RangeCheck, Zenon
    <2> HIDE DEF a, z, y, B
    <2>6. CASE z < 0
      <3>1. a >= z + P
        BY <1>4, <2>3, <2>6, CongNegative, Zenon
      <3>2. a \in Nat
        BY <2>3, ScalarNat
      <3> QED
        BY <1>1, <1>4, <2>5, <3>1, <3>2
    <2>7. CASE z >= 0
      <3>1. z \in Nat
        BY <1>4, <2>7
      <3>2. a <= z /\ a \in Nat
        BY <2>3, <3>1, CongLe, ScalarNat, Zenon
      <3>3. a <= y
        BY <1>3, <1>4, <3>2
      <3> QED
        BY <1>7, <3>3 DEF a
    <2> QED
      BY <1>4, <2>6, <2>7
  <1> QED
    BY <1>5, <1>6, <1>7, HoldingUnique, Zenon

\* A settlement leaves no more of a mint than the wallet held and the note is
\* worth.
LEMMA SettleHolding ==
    ASSUME NEW pre, NEW post, BalancesOK(pre.balances), BalancesOK(post.balances),
           NEW x, NoteOK(x), validate_new_balances(post, pre, x),
           NEW c \in Scalar, c # 0, Holding(pre, c) + NoteValue(x, c) >= 0
    PROVE  Holding(post, c) <= Holding(pre, c) + NoteValue(x, c)
  <1> DEFINE y == Holding(pre, c) + NoteValue(x, c)
  <1>1. y \in Nat
    <2>1. Holding(pre, c) \in Nat
      BY HoldingIs, Zenon
    <2>2. NoteValue(x, c) \in Int
      BY NoteValueInt, Zenon
    <2> QED
      BY <2>1, <2>2
  <1>2. MintsUnique(post.balances)
    BY SettleUnique, Zenon DEF validate_new_balances
  <1>3. CASE Holding(post, c) = 0
    BY <1>1, <1>3
  <1>4. ASSUME NEW i \in 1..MAX_BALANCES,
               post.balances[i].mint = c, Holding(post, c) = post.balances[i].amount
        PROVE  Holding(post, c) <= y
    <2>1. i \in 1..Len(post.balances)
      BY BalanceLen, Zenon
    <2>2. Holding(post, c) = expected_bal(c, pre, x)
      BY <1>4, <2>1, Zenon DEF validate_new_balances, validate_balance_updates
    <2>3. expected_bal(c, pre, x) \in Scalar /\ Cong(expected_bal(c, pre, x), y)
      BY ExpectedBalance, Zenon
    <2> HIDE DEF y
    <2>4. expected_bal(c, pre, x) <= y
      BY <1>1, <2>3, CongLe, Zenon
    <2> QED
      BY <2>2, <2>4, Zenon
  <1> QED
    BY <1>2, <1>3, <1>4, HoldingUnique, Zenon

\* A balance that covers an amount, by the circuits' comparison, is no smaller.
LEMMA Coverage ==
    ASSUME NEW b \in Scalar, NEW s \in Scalar, U64(s) = s,
           constrain_greater_than_eq(b, s, AmountBits)
    PROVE  s <= b
  <1> DEFINE B == 2^AmountBits
             x == FSub(b, s)
  <1>1. B \in Nat \ {0} /\ 2 * B <= P /\ P \in Nat
    BY Widths, FieldPositive
  <1>2. b \in Nat /\ s \in Nat /\ b - s \in Int
    BY ScalarNat
  <1>3. s < B
    <2>1. s % B \in 0..(B - 1)
      BY <1>1, <1>2
    <2> QED
      BY <1>1, <2>1 DEF U64
  <1>4. x \in Scalar /\ Cong(x, b - s)
    BY <1>2, CongMod, Zenon DEF FSub
  <1>5. AmountBits \in 0..(ScalarMaxBits + 1)
    BY WidthsFit, PowersOfTwo
  <1>6. x < B
    BY <1>4, <1>5, RangeCheck, Zenon DEF constrain_greater_than_eq
  <1> HIDE DEF x, B
  <1>7. x \in Nat
    BY <1>4, ScalarNat
  <1>8. CASE b - s < 0
    <2>1. x >= (b - s) + P
      BY <1>2, <1>4, <1>8, CongNegative, Zenon
    <2> QED
      BY <1>1, <1>2, <1>3, <1>6, <1>7, <2>1
  <1> QED
    BY <1>2, <1>8

\* The wallet has a balance for what a match takes, and one for its gas.
Covers(w, fee, s) ==
    /\ \E i \in 1..MAX_BALANCES :
          /\ w.balances[i].mint = s.mint
          /\ constrain_greater_than_eq(w.balances[i].amount, s.amount, AmountBits)
    /\ \E i \in 1..MAX_BALANCES :
          w.balances[i].mint = fee.gas_addr /\ w.balances[i].amount >= fee.gas_token_amount
    /\ fee.gas_addr # s.mint

\* A wallet whose balances cover a sale and its gas holds both.
LEMMA CoversHolding ==
    ASSUME NEW w, BalancesOK(w.balances), NEW fee, FeeOK(fee), NEW s, s.amount \in Scalar,
           U64(s.amount) = s.amount, Covers(w, fee, s), NEW c
    PROVE  Holding(w, c) >= Given(s, c) + Gas(fee, c)
  <1>1. PICK i \in 1..MAX_BALANCES :
          /\ w.balances[i].mint = s.mint
          /\ constrain_greater_than_eq(w.balances[i].amount, s.amount, AmountBits)
    BY Zenon DEF Covers
  <1>2. PICK j \in 1..MAX_BALANCES :
          w.balances[j].mint = fee.gas_addr /\ w.balances[j].amount >= fee.gas_token_amount
    BY Zenon DEF Covers
  <1>3. /\ w.balances[i].amount \in Scalar /\ w.balances[i].amount \in Nat
        /\ w.balances[j].amount \in Nat
    BY BalanceScalars, Zenon
  <1>4. s.amount <= w.balances[i].amount
    BY <1>1, <1>3, Coverage, Zenon
  <1>5. Holding(w, s.mint) >= w.balances[i].amount
    BY <1>1, HoldingAtLeast
  <1>6. Holding(w, fee.gas_addr) >= w.balances[j].amount
    BY <1>2, HoldingAtLeast
  <1>7. fee.gas_token_amount \in Nat
    BY ScalarNat, Zenon DEF FeeOK
  <1>8. U64(fee.gas_token_amount) \in Nat /\ U64(fee.gas_token_amount) <= fee.gas_token_amount
    BY <1>7, U64Nat, Zenon
  <1>9. s.amount \in Nat
    BY ScalarNat, Zenon
  <1>10. Holding(w, c) \in Nat
    BY HoldingIs, Zenon
  <1>11. CASE c = s.mint
    <2>1. Given(s, c) = s.amount /\ Gas(fee, c) = 0
      BY <1>11, SMTT(30) DEF Given, Gas, Covers
    <2> QED
      BY <1>3, <1>4, <1>5, <1>9, <1>10, <1>11, <2>1, SMTT(30)
  <1>12. CASE c = fee.gas_addr
    <2>1. Given(s, c) = 0 /\ Gas(fee, c) = U64(fee.gas_token_amount)
      BY <1>12 DEF Given, Gas, Covers
    <2> QED
      BY <1>2, <1>3, <1>6, <1>7, <1>8, <1>10, <1>12, <2>1, SMTT(30)
  <1>13. CASE c # s.mint /\ c # fee.gas_addr
    <2>1. Given(s, c) = 0 /\ Gas(fee, c) = 0
      BY <1>13 DEF Given, Gas
    <2> QED
      BY <1>10, <2>1
  <1> QED
    BY <1>11, <1>12, <1>13

=============================================================================
