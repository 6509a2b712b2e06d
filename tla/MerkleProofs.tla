---------------------------- MODULE MerkleProofs ----------------------------
(***************************************************************************)
(* Facts about the commitment tree and the authentication path of          *)
(* ChainSync, for a tree of any depth: what the recursive definitions      *)
(* compute, which nodes an insertion changes, that the siblings of a leaf  *)
(* hash to the root, which events a block emits, what the log of the chain *)
(* is at each point, and what its node changes do to a path. They rest on  *)
(* induction, stated in terms of a set, in the first section.              *)
(***************************************************************************)
EXTENDS ChainSync, FiniteSetTheorems, NaturalsInduction, WellFoundedInduction, TLAPS

-----------------------------------------------------------------------------
(* Induction, and least and greatest elements                               *)

\* A nonempty set of natural numbers has a least element.
LEMMA LeastExists ==
    ASSUME NEW S \in SUBSET Nat, S # {}
    PROVE  \E x \in S : \A y \in S : x <= y
  <1>1. IsWellFoundedOn(OpToRel(<, Nat), Nat)
    BY NatLessThanWellFounded, Zenon
  <1>2. PICK x \in S : \A y \in S : ~(<<y, x>> \in OpToRel(<, Nat))
    BY <1>1, WFMin, Zenon
  <1>3. ASSUME NEW y \in S, y < x PROVE FALSE
    <2>1. <<y, x>> \in OpToRel(<, Nat)
      BY <1>3 DEF OpToRel
    <2> QED
      BY <1>2, <2>1, Zenon
  <1> QED
    BY <1>3

\* What holds of zero and is handed on to the next number holds of all.
LEMMA SetInduction ==
    ASSUME NEW S, 0 \in S, \A n \in Nat : n \in S => n + 1 \in S
    PROVE  Nat \subseteq S
  <1> DEFINE T == Nat \ S
  <1>1. ASSUME T # {} PROVE FALSE
    <2>1. PICK x \in T : \A y \in T : x <= y
      BY <1>1, LeastExists, Zenon
    <2>2. x - 1 \in Nat /\ x - 1 \notin T
      BY <2>1
    <2>3. (x - 1) + 1 \in S
      BY <2>2
    <2> QED
      BY <2>3
  <1> QED
    BY <1>1

\* The least element of a set, as Min gives it.
LEMMA MinIsLeast ==
    ASSUME NEW S \in SUBSET Nat, S # {}
    PROVE  Min(S) \in S /\ \A y \in S : Min(S) <= y
  BY LeastExists, Zenon DEF Min

\* The greatest element of a bounded set, as Max gives it.
LEMMA MaxIsGreatest ==
    ASSUME NEW n \in Nat, NEW S \in SUBSET (1..n), S # {}
    PROVE  Max(S) \in S /\ \A y \in S : y <= Max(S)
  <1> DEFINE T == {z \in Nat : \E x \in S : z = n - x}
  <1>1. \A x \in S : x \in Int /\ n - x \in T
    OBVIOUS
  <1>2. PICK z \in T : \A y \in T : z <= y
    BY <1>1, LeastExists, Zenon
  <1>3. PICK x \in S : z = n - x
    OBVIOUS
  <1>4. \A y \in S : x >= y
    <2> HIDE DEF T
    <2> QED BY <1>1, <1>2, <1>3
  <1>5. \E w \in S : \A y \in S : w >= y
    BY <1>4
  <1>6. Max(S) \in S /\ \A y \in S : Max(S) >= y
    <2> HIDE DEF T
    <2> QED BY <1>5, Zenon DEF Max
  <1> QED
    BY <1>6

-----------------------------------------------------------------------------
(* Concatenation                                                            *)

\* F is the first m of the sequences, one after the other: its i-th element
\* is element off[i] of sequence tx[i].
Places(F, seqs, m, tx, off) ==
    /\ \A i \in 1..Len(F) : /\ tx[i] \in 1..m
                            /\ off[i] \in 1..Len(seqs[tx[i]])
                            /\ F[i] = seqs[tx[i]][off[i]]
    /\ \A i, j \in 1..Len(F) :
         i < j => tx[i] < tx[j] \/ (tx[i] = tx[j] /\ off[i] < off[j])
    /\ \A r \in 1..m : \A o \in 1..Len(seqs[r]) : \E i \in 1..Len(F) : tx[i] = r /\ off[i] = o

\* One more sequence is appended.
LEMMA PlacesAppend ==
    ASSUME NEW X, NEW seqs \in Seq(Seq(X)), NEW m \in Nat, m + 1 <= Len(seqs),
           NEW G \in Seq(X), NEW tx, NEW off, Places(G, seqs, m, tx, off)
    PROVE  /\ G \o seqs[m + 1] \in Seq(X)
           /\ \E tx2, off2 : Places(G \o seqs[m + 1], seqs, m + 1, tx2, off2)
  <1> DEFINE s == seqs[m + 1]
             F == G \o s
             tx2 == [i \in 1..Len(F) |-> IF i <= Len(G) THEN tx[i] ELSE m + 1]
             off2 == [i \in 1..Len(F) |-> IF i <= Len(G) THEN off[i] ELSE i - Len(G)]
  <1>1. s \in Seq(X) /\ Len(s) \in Nat /\ Len(G) \in Nat
    OBVIOUS
  <1>2. F \in Seq(X) /\ Len(F) = Len(G) + Len(s)
    BY <1>1
  <1>3. \A i \in 1..Len(F) : F[i] = IF i <= Len(G) THEN G[i] ELSE s[i - Len(G)]
    BY <1>1
  <1> HIDE DEF s, F
  <1>4. ASSUME NEW i \in 1..Len(F)
        PROVE  /\ tx2[i] \in 1..(m + 1)
               /\ off2[i] \in 1..Len(seqs[tx2[i]])
               /\ F[i] = seqs[tx2[i]][off2[i]]
    BY <1>1, <1>2, <1>3, SMTT(30) DEF Places, s
  <1>5. ASSUME NEW i \in 1..Len(F), NEW j \in 1..Len(F), i < j
        PROVE  tx2[i] < tx2[j] \/ (tx2[i] = tx2[j] /\ off2[i] < off2[j])
    BY <1>1, <1>2, <1>5, SMTT(30) DEF Places
  <1>6. ASSUME NEW r \in 1..(m + 1), NEW o \in 1..Len(seqs[r])
        PROVE  \E i \in 1..Len(F) : tx2[i] = r /\ off2[i] = o
    <2>1. CASE r = m + 1
      <3>1. Len(G) + o \in 1..Len(F) /\ ~(Len(G) + o <= Len(G)) /\ (Len(G) + o) - Len(G) = o
        BY <1>2, <2>1 DEF s
      <3> QED
        BY <2>1, <3>1
    <2>2. CASE r # m + 1
      <3>1. PICK i \in 1..Len(G) : tx[i] = r /\ off[i] = o
        BY <2>2 DEF Places
      <3> QED
        BY <1>2, <3>1
    <2> QED
      BY <2>1, <2>2
  <1>7. Places(F, seqs, m + 1, tx2, off2)
    <2> HIDE DEF tx2, off2
    <2> QED
      BY <1>4, <1>5, <1>6, Zenon DEF Places
  <1> QED
    BY <1>7 DEF F, s

IsConcatenation(f, seqs, n) ==
    f = [i \in 0..n |-> IF i = 0 THEN <<>> ELSE f[i - 1] \o seqs[i]]

LaidOut(G, X, seqs, m) == G \in Seq(X) /\ \E tx, off : Places(G, seqs, m, tx, off)

\* The function that Concatenation defines exists for any number of sequences,
\* and its last value lays them out.
LEMMA ConcatenationExists ==
    ASSUME NEW X, NEW seqs \in Seq(Seq(X)), NEW n \in Nat, n <= Len(seqs)
    PROVE  \E f : IsConcatenation(f, seqs, n) /\ LaidOut(f[n], X, seqs, n)
  <1> DEFINE N == Len(seqs)
             Exists(k) == \E f : IsConcatenation(f, seqs, k) /\ LaidOut(f[k], X, seqs, k)
             S == {k \in Nat : k <= N => Exists(k)}
  <1>0. N \in Nat
    OBVIOUS
  <1>1. Exists(0)
    <2> DEFINE f == [i \in 0..0 |-> <<>>]
    <2>1. IsConcatenation(f, seqs, 0)
      BY DEF IsConcatenation
    <2>2. f[0] = <<>> /\ <<>> \in Seq(X)
      OBVIOUS
    <2>3. PICK tx, off : Places(<<>>, seqs, 0, tx, off)
      BY DEF Places
    <2>4. LaidOut(f[0], X, seqs, 0)
      <3> HIDE DEF f
      <3> QED
        BY <2>2, <2>3, Zenon DEF LaidOut
    <2> HIDE DEF f
    <2> QED
      BY <2>1, <2>4, Zenon
  <1>2. ASSUME NEW k \in Nat, Exists(k), k + 1 <= N PROVE Exists(k + 1)
    <2>1. PICK f : IsConcatenation(f, seqs, k) /\ LaidOut(f[k], X, seqs, k)
      BY <1>2, Zenon
    <2> DEFINE last == f[k] \o seqs[k + 1]
               g == [i \in 0..(k + 1) |-> IF i = k + 1 THEN last ELSE f[i]]
    <2>2. LaidOut(last, X, seqs, k + 1)
      <3>1. PICK tx, off : Places(f[k], seqs, k, tx, off)
        BY <2>1, Zenon DEF LaidOut
      <3>2. f[k] \in Seq(X)
        BY <2>1, Zenon DEF LaidOut
      <3> QED
        BY <1>2, <3>1, <3>2, PlacesAppend, Zenon DEF LaidOut
    <2>3. ASSUME NEW i \in 0..(k + 1)
          PROVE  g[i] = IF i = 0 THEN <<>> ELSE g[i - 1] \o seqs[i]
      <3>1. CASE i = k + 1
        <4>1. i - 1 = k /\ i - 1 \in 0..(k + 1) /\ i - 1 # k + 1 /\ i # 0
          BY <3>1
        <4> QED
          BY <3>1, <4>1, Zenon
      <3>2. CASE i # k + 1
        <4>1. i \in 0..k /\ g[i] = f[i]
          BY <3>2
        <4>2. i # 0 => g[i - 1] = f[i - 1]
          BY <4>1
        <4>3. f[i] = IF i = 0 THEN <<>> ELSE f[i - 1] \o seqs[i]
          BY <2>1, <4>1, Zenon DEF IsConcatenation
        <4> HIDE DEF g
        <4> QED
          BY <4>1, <4>2, <4>3, Zenon
      <3> QED
        BY <3>1, <3>2
    <2>4. g = [i \in 0..(k + 1) |-> g[i]]
      BY Zenon
    <2>5. g[k + 1] = last /\ k + 1 \in Nat
      <3>1. k + 1 \in 0..(k + 1)
        OBVIOUS
      <3> HIDE DEF last
      <3> QED
        BY <3>1
    <2> HIDE DEF g, last
    <2>6. IsConcatenation(g, seqs, k + 1)
      BY <2>3, <2>4, Zenon DEF IsConcatenation
    <2> QED
      BY <2>2, <2>5, <2>6, Zenon
  <1> HIDE DEF Exists
  <1>3. 0 \in S
    BY <1>1
  <1>4. ASSUME NEW k \in Nat, k \in S PROVE k + 1 \in S
    BY <1>0, <1>2, <1>4
  <1>5. n \in S
    <2> HIDE DEF S
    <2> QED
      BY <1>3, <1>4, SetInduction, Zenon
  <1> QED
    BY <1>5 DEF Exists

\* There is only one such function.
LEMMA ConcatenationUnique ==
    ASSUME NEW seqs, NEW N \in Nat, NEW f, NEW g,
           IsConcatenation(f, seqs, N), IsConcatenation(g, seqs, N)
    PROVE  f[N] = g[N]
  <1> DEFINE T == {k \in Nat : k <= N => f[k] = g[k]}
  <1>1. 0 \in T
    <2>1. 0 \in 0..N
      OBVIOUS
    <2>2. f[0] = <<>> /\ g[0] = <<>>
      BY <2>1, Zenon DEF IsConcatenation
    <2> QED
      BY <2>2
  <1>2. ASSUME NEW k \in Nat, k \in T PROVE k + 1 \in T
    <2> SUFFICES ASSUME k + 1 <= N PROVE f[k + 1] = g[k + 1]
      OBVIOUS
    <2>1. k + 1 \in 0..N /\ k + 1 # 0 /\ (k + 1) - 1 = k /\ k <= N
      OBVIOUS
    <2>2. f[k + 1] = f[k] \o seqs[k + 1] /\ g[k + 1] = g[k] \o seqs[k + 1]
      BY <2>1, Zenon DEF IsConcatenation
    <2> QED
      BY <1>2, <2>1, <2>2, Zenon
  <1>3. N \in T
    <2> HIDE DEF T
    <2> QED
      BY <1>1, <1>2, SetInduction, Zenon
  <1> QED
    BY <1>3

\* Concatenation lays the sequences out one after the other.
LEMMA ConcatenationPlaces ==
    ASSUME NEW X, NEW seqs \in Seq(Seq(X))
    PROVE  LaidOut(Concatenation(seqs), X, seqs, Len(seqs))
  <1> DEFINE N == Len(seqs)
  <1>0. N \in Nat /\ N <= N
    OBVIOUS
  <1>1. PICK f : IsConcatenation(f, seqs, N) /\ LaidOut(f[N], X, seqs, N)
    BY <1>0, ConcatenationExists, Zenon
  <1>2. PICK g : IsConcatenation(g, seqs, N) /\ Concatenation(seqs) = g[N]
    BY <1>1, Zenon DEF Concatenation, IsConcatenation
  <1> HIDE DEF N
  <1>3. f[N] = g[N]
    BY <1>0, <1>1, <1>2, ConcatenationUnique, Zenon
  <1> QED
    BY <1>1, <1>2, <1>3, Zenon DEF N

-----------------------------------------------------------------------------
(* The tree                                                                 *)

H == MERKLE_HEIGHT

-----------------------------------------------------------------------------
(* Right shifts                                                             *)

IsShifts(f, n) == f = [k \in 0..H |-> IF k = 0 THEN n ELSE f[k - 1] \div 2]

\* The recursion that Shifted is defined by has a solution.
LEMMA ShiftsExist ==
    ASSUME NEW n
    PROVE  \E f : IsShifts(f, n)
  <1> DEFINE IsUpTo(f, m) == f = [k \in 0..m |-> IF k = 0 THEN n ELSE f[k - 1] \div 2]
             S == {m \in Nat : \E f : IsUpTo(f, m)}
  <1>1. 0 \in S
    <2> DEFINE f == [k \in 0..0 |-> n]
    <2>1. IsUpTo(f, 0)
      OBVIOUS
    <2> QED
      BY <2>1, Zenon
  <1>2. ASSUME NEW m \in Nat, m \in S PROVE m + 1 \in S
    <2>1. PICK f : IsUpTo(f, m)
      BY <1>2
    <2> DEFINE g == [k \in 0..(m + 1) |-> IF k = m + 1 THEN f[m] \div 2 ELSE f[k]]
    <2>2. ASSUME NEW k \in 0..(m + 1) PROVE g[k] = IF k = 0 THEN n ELSE g[k - 1] \div 2
      <3>1. CASE k = m + 1
        <4>1. k # 0 /\ k - 1 = m /\ m \in 0..(m + 1) /\ m # m + 1
          BY <3>1
        <4> QED
          BY <4>1
      <3>2. CASE k # m + 1
        <4>1. k \in 0..m /\ (k # 0 => k - 1 \in 0..(m + 1) /\ k - 1 # m + 1)
          BY <3>2
        <4>2. f[k] = IF k = 0 THEN n ELSE f[k - 1] \div 2
          BY <2>1, <4>1
        <4> QED
          BY <4>2
      <3> QED
        BY <3>2
    <2>3. g = [k \in 0..(m + 1) |-> g[k]]
      OBVIOUS
    <2> HIDE DEF g
    <2>4. IsUpTo(g, m + 1)
      BY <2>2, <2>3, Zenon
    <2> QED
      BY <2>4
  <1>3. H \in S
    <2> HIDE DEF S
    <2> QED
      BY <1>1, <1>2, SetInduction, ChainParameters DEF H
  <1> QED
    BY <1>3 DEF IsShifts

\* Each shift halves the index.
LEMMA ShiftedDef ==
    ASSUME NEW n \in Nat
    PROVE  /\ Shifted(n, 0) = n
           /\ \A j \in 1..H : Shifted(n, j) = Shifted(n, j - 1) \div 2
  <1>1. PICK f : IsShifts(f, n) /\ \A j : Shifted(n, j) = f[j]
    BY ShiftsExist, Zenon DEF Shifted, IsShifts, H
  <1>2. \A j \in 0..H : f[j] = IF j = 0 THEN n ELSE f[j - 1] \div 2
    BY <1>1 DEF IsShifts
  <1>3. 0 \in 0..H /\ \A j \in 1..H : j \in 0..H /\ j # 0
    BY ChainParameters DEF H
  <1> QED
    BY <1>1, <1>2, <1>3

\* Right shifts of a leaf's index are natural numbers.
LEMMA ShiftedType ==
    ASSUME NEW n \in Nat, NEW j \in 0..H
    PROVE  Shifted(n, j) \in Nat
  <1> DEFINE S == {k \in Nat : k <= H => Shifted(n, k) \in Nat}
  <1>1. 0 \in S
    BY ShiftedDef
  <1>2. ASSUME NEW k \in Nat, k \in S PROVE k + 1 \in S
    <2> SUFFICES ASSUME k + 1 <= H PROVE Shifted(n, k + 1) \in Nat
      OBVIOUS
    <2>1. k + 1 \in 1..H /\ (k + 1) - 1 = k /\ k <= H
      BY ChainParameters DEF H
    <2>2. Shifted(n, k + 1) = Shifted(n, k) \div 2
      BY ShiftedDef
    <2> QED
      BY <1>2, <2>1, <2>2
  <1>3. j \in S
    <2> HIDE DEF S
    <2> QED
      BY <1>1, <1>2, SetInduction
  <1> QED
    BY <1>3

\* Shifting the first time or the last time is the same.
LEMMA ShiftFirst ==
    ASSUME NEW n \in Nat, NEW j \in 1..H
    PROVE  Shifted(n, j) = Shifted(n \div 2, j - 1)
  <1> DEFINE S == {k \in Nat : k + 1 <= H => Shifted(n, k + 1) = Shifted(n \div 2, k)}
  <1>0. n \div 2 \in Nat /\ H \in Nat
    BY ChainParameters DEF H
  <1>1. 0 \in S
    <2> SUFFICES ASSUME 1 <= H PROVE Shifted(n, 1) = Shifted(n \div 2, 0)
      OBVIOUS
    <2>1. 1 \in 1..H /\ 1 - 1 = 0
      BY <1>0
    <2> QED
      BY ShiftedDef
  <1>2. ASSUME NEW k \in Nat, k \in S PROVE k + 1 \in S
    <2> SUFFICES ASSUME k + 2 <= H PROVE Shifted(n, k + 2) = Shifted(n \div 2, k + 1)
      OBVIOUS
    <2>1. /\ k + 2 \in 1..H /\ (k + 2) - 1 = k + 1
          /\ k + 1 \in 1..H /\ (k + 1) - 1 = k /\ k + 1 <= H
      BY <1>0
    <2>2. Shifted(n, k + 2) = Shifted(n, k + 1) \div 2
      BY ShiftedDef
    <2>3. Shifted(n \div 2, k + 1) = Shifted(n \div 2, k) \div 2
      BY <2>1, ShiftedDef
    <2> QED
      BY <1>2, <2>1, <2>2, <2>3
  <1>3. j - 1 \in S
    <2>1. j - 1 \in Nat
      BY <1>0
    <2> HIDE DEF S
    <2> QED
      BY <1>1, <1>2, SetInduction
  <1> QED
    BY <1>3

-----------------------------------------------------------------------------
(* The capacity of the tree                                                 *)

IsPowers(f) == f = [k \in 0..H |-> IF k = 0 THEN 1 ELSE 2 * f[k - 1]]

\* The recursion that Capacity is defined by has a solution.
LEMMA PowersExist == \E f : IsPowers(f)
  <1> DEFINE IsUpTo(f, m) == f = [k \in 0..m |-> IF k = 0 THEN 1 ELSE 2 * f[k - 1]]
             S == {m \in Nat : \E f : IsUpTo(f, m)}
  <1>1. 0 \in S
    <2> DEFINE f == [k \in 0..0 |-> 1]
    <2>1. IsUpTo(f, 0)
      OBVIOUS
    <2> QED
      BY <2>1, Zenon
  <1>2. ASSUME NEW m \in Nat, m \in S PROVE m + 1 \in S
    <2>1. PICK f : IsUpTo(f, m)
      BY <1>2
    <2> DEFINE g == [k \in 0..(m + 1) |-> IF k = m + 1 THEN 2 * f[m] ELSE f[k]]
    <2>2. ASSUME NEW k \in 0..(m + 1) PROVE g[k] = IF k = 0 THEN 1 ELSE 2 * g[k - 1]
      <3>1. CASE k = m + 1
        <4>1. k # 0 /\ k - 1 = m /\ m \in 0..(m + 1) /\ m # m + 1
          BY <3>1
        <4> QED
          BY <4>1
      <3>2. CASE k # m + 1
        <4>1. k \in 0..m /\ (k # 0 => k - 1 \in 0..(m + 1) /\ k - 1 # m + 1)
          BY <3>2
        <4>2. f[k] = IF k = 0 THEN 1 ELSE 2 * f[k - 1]
          BY <2>1, <4>1
        <4> QED
          BY <4>2
      <3> QED
        BY <3>2
    <2>3. g = [k \in 0..(m + 1) |-> g[k]]
      OBVIOUS
    <2> HIDE DEF g
    <2>4. IsUpTo(g, m + 1)
      BY <2>2, <2>3, Zenon
    <2> HIDE DEF IsUpTo
    <2> QED
      BY <2>4
  <1>3. H \in S
    <2> HIDE DEF S
    <2> QED
      BY <1>1, <1>2, SetInduction, ChainParameters DEF H
  <1> QED
    BY <1>3 DEF IsPowers

\* The tree has room for a natural number of leaves.
LEMMA CapacityType == Capacity \in Nat
  <1>0. H \in Nat
    BY ChainParameters DEF H
  <1>1. PICK f : IsPowers(f) /\ Capacity = f[H]
    BY PowersExist, Zenon DEF Capacity, IsPowers, H
  <1>2. \A j \in 0..H : f[j] = IF j = 0 THEN 1 ELSE 2 * f[j - 1]
    BY <1>1, Zenon DEF IsPowers
  <1> DEFINE S == {k \in Nat : k <= H => f[k] \in Nat}
  <1>3. 0 \in S
    BY <1>2
  <1>4. ASSUME NEW k \in Nat, k \in S PROVE k + 1 \in S
    BY <1>0, <1>2, <1>4
  <1>5. H \in S
    <2> HIDE DEF S
    <2> QED
      BY <1>0, <1>3, <1>4, SetInduction
  <1> QED
    BY <1>1, <1>5

\* A leaf of the tree has nothing left of its index at the root.
LEMMA ShiftedOut ==
    ASSUME NEW n \in Nat, n < Capacity
    PROVE  Shifted(n, H) = 0
  <1>1. PICK f : IsPowers(f) /\ Capacity = f[H]
    BY PowersExist, Zenon DEF Capacity, IsPowers, H
  <1>0. H \in Nat
    BY ChainParameters DEF H
  <1>2. \A j \in 0..H : f[j] = IF j = 0 THEN 1 ELSE 2 * f[j - 1]
    BY <1>1, Zenon DEF IsPowers
  <1> DEFINE S == {k \in Nat : k <= H =>
                     f[k] \in Nat /\ \A x \in Nat : x < f[k] => Shifted(x, k) = 0}
  <1>3. 0 \in S
    <2>1. f[0] = 1
      BY <1>0, <1>2
    <2> QED
      BY <2>1, ShiftedDef
  <1>4. ASSUME NEW k \in Nat, k \in S PROVE k + 1 \in S
    <2> SUFFICES ASSUME k + 1 <= H
                 PROVE  f[k + 1] \in Nat /\ \A x \in Nat : x < f[k + 1] => Shifted(x, k + 1) = 0
      OBVIOUS
    <2>1. k + 1 \in 1..H /\ (k + 1) - 1 = k /\ k <= H /\ k + 1 \in 0..H /\ k + 1 # 0
      BY <1>0
    <2>2. f[k + 1] = 2 * f[k] /\ f[k] \in Nat
      BY <1>2, <1>4, <2>1
    <2>3. ASSUME NEW x \in Nat, x < f[k + 1] PROVE Shifted(x, k + 1) = 0
      <3>1. x \div 2 \in Nat /\ x \div 2 < f[k]
        BY <2>2, <2>3
      <3>2. Shifted(x, k + 1) = Shifted(x \div 2, k)
        BY ShiftFirst
      <3> QED
        BY <1>4, <2>1, <3>1, <3>2
    <2> QED
      BY <2>2, <2>3
  <1>5. H \in S
    <2> HIDE DEF S
    <2> QED
      BY <1>0, <1>3, <1>4, SetInduction
  <1> QED
    BY <1>1, <1>5

-----------------------------------------------------------------------------
(* Nodes                                                                    *)

LevelAbove(h, below, n) ==
    [i \in Nat |-> IF h > 0 THEN <<below[2 * i], below[2 * i + 1]>>
                   ELSE IF i < n THEN <<i + 1>> ELSE EMPTY_LEAF_VALUE]

IsLevels(f, n) ==
    f = [h \in 0..H |->
            [i \in Nat |-> IF h > 0 THEN <<f[h - 1][2 * i], f[h - 1][2 * i + 1]>>
                           ELSE IF i < n THEN <<i + 1>> ELSE EMPTY_LEAF_VALUE]]

\* The recursion that Node is defined by has a solution.
LEMMA LevelsExist ==
    ASSUME NEW n
    PROVE  \E f : IsLevels(f, n)
  <1> DEFINE IsUpTo(f, m) == f = [h \in 0..m |-> LevelAbove(h, f[h - 1], n)]
             S == {m \in Nat : \E f : IsUpTo(f, m)}
  <1>1. 0 \in S
    <2> DEFINE f == [h \in 0..0 |-> LevelAbove(0, <<>>, n)]
    <2>1. f[0] = LevelAbove(0, f[0 - 1], n)
      <3>1. f[0] = LevelAbove(0, <<>>, n)
        OBVIOUS
      <3>2. \A x, y : LevelAbove(0, x, n) = LevelAbove(0, y, n)
        BY DEF LevelAbove
      <3> QED
        OBVIOUS
    <2>2. f = [h \in 0..0 |-> f[h]]
      OBVIOUS
    <2>3. \A h \in 0..0 : h = 0
      OBVIOUS
    <2> HIDE DEF f
    <2>4. IsUpTo(f, 0)
      BY <2>1, <2>2
    <2> QED
      BY <2>4
  <1>2. ASSUME NEW m \in Nat, m \in S PROVE m + 1 \in S
    <2>1. PICK f : IsUpTo(f, m)
      BY <1>2
    <2> DEFINE g == [h \in 0..(m + 1) |-> IF h = m + 1 THEN LevelAbove(h, f[m], n) ELSE f[h]]
    <2>2. ASSUME NEW h \in 0..(m + 1) PROVE g[h] = LevelAbove(h, g[h - 1], n)
      <3>1. CASE h = m + 1
        <4>1. h - 1 = m /\ m \in 0..(m + 1) /\ m # m + 1
          BY <3>1
        <4> QED
          BY <4>1
      <3>2. CASE h # m + 1 /\ h # 0
        <4>1. h \in 0..m /\ h - 1 \in 0..(m + 1) /\ h - 1 # m + 1
          BY <3>2
        <4>2. f[h] = LevelAbove(h, f[h - 1], n)
          BY <2>1, <4>1
        <4> QED
          BY <4>1, <4>2
      <3>3. CASE h = 0
        <4>1. 0 \in 0..m /\ 0 # m + 1
          OBVIOUS
        <4>2. f[0] = LevelAbove(0, f[0 - 1], n)
          BY <2>1
        <4>3. \A x, y : LevelAbove(0, x, n) = LevelAbove(0, y, n)
          BY DEF LevelAbove
        <4>4. g[0] = f[0]
          BY <4>1
        <4> QED
          BY <3>3, <4>2, <4>3
      <3> QED
        BY <3>2, <3>3
    <2>3. g = [h \in 0..(m + 1) |-> g[h]]
      OBVIOUS
    <2> HIDE DEF g
    <2>4. IsUpTo(g, m + 1)
      BY <2>2, <2>3, Zenon
    <2> HIDE DEF IsUpTo
    <2> QED
      BY <2>4
  <1>3. H \in S
    <2> HIDE DEF S
    <2> QED
      BY <1>1, <1>2, SetInduction, ChainParameters DEF H
  <1>4. PICK f : IsUpTo(f, H)
    BY <1>3
  <1>5. IsLevels(f, n)
    BY <1>4, Zenon DEF IsLevels, LevelAbove
  <1> QED
    BY <1>5

\* The leaves below n are written, and an inner node hashes its two children.
LEMMA NodeDef ==
    ASSUME NEW n \in Nat, NEW i \in Nat
    PROVE  /\ Node(n, <<H, i>>) = IF i < n THEN <<i + 1>> ELSE EMPTY_LEAF_VALUE
           /\ \A d \in 1..H : Node(n, <<H - d, i>>)
                 = <<Node(n, <<H - d + 1, 2 * i>>), Node(n, <<H - d + 1, 2 * i + 1>>)>>
  <1>0. H \in Nat
    BY ChainParameters DEF H
  <1>1. PICK f : IsLevels(f, n) /\ \A c : Node(n, c) = f[H - c[1]][c[2]]
    <2> DEFINE f == CHOOSE f : IsLevels(f, n)
    <2>1. IsLevels(f, n)
      BY LevelsExist, Zenon
    <2>2. \A c : Node(n, c) = f[H - c[1]][c[2]]
      BY Zenon DEF Node, IsLevels, H
    <2> HIDE DEF f
    <2> QED
      BY <2>1, <2>2
  <1>2. \A h \in 0..H : \A k \in Nat :
            f[h][k] = IF h > 0 THEN <<f[h - 1][2 * k], f[h - 1][2 * k + 1]>>
                      ELSE IF k < n THEN <<k + 1>> ELSE EMPTY_LEAF_VALUE
    <2>1. \A h \in 0..H :
            f[h] = [k \in Nat |-> IF h > 0 THEN <<f[h - 1][2 * k], f[h - 1][2 * k + 1]>>
                                 ELSE IF k < n THEN <<k + 1>> ELSE EMPTY_LEAF_VALUE]
      BY <1>1, Zenon DEF IsLevels
    <2> QED
      BY <2>1, Zenon
  <1>3. \A d, k : Node(n, <<d, k>>) = f[H - d][k]
    BY <1>1
  <1>4. Node(n, <<H, i>>) = IF i < n THEN <<i + 1>> ELSE EMPTY_LEAF_VALUE
    <2>1. 0 \in 0..H /\ H - H = 0 /\ ~(0 > 0)
      BY <1>0
    <2>2. f[0][i] = IF i < n THEN <<i + 1>> ELSE EMPTY_LEAF_VALUE
      BY <1>2, <2>1, Zenon
    <2> QED
      BY <1>3, <2>1, <2>2, Zenon
  <1>5. ASSUME NEW d \in 1..H
        PROVE  Node(n, <<H - d, i>>)
                 = <<Node(n, <<H - d + 1, 2 * i>>), Node(n, <<H - d + 1, 2 * i + 1>>)>>
    <2>1. d \in 0..H /\ H - (H - d) = d /\ H - (H - d + 1) = d - 1 /\ d > 0
      BY <1>0
    <2>2. f[d][i] = <<f[d - 1][2 * i], f[d - 1][2 * i + 1]>>
      BY <1>2, <2>1, Zenon
    <2>3. Node(n, <<H - d, i>>) = f[d][i]
      BY <1>3, <2>1
    <2>4. \A k : Node(n, <<H - d + 1, k>>) = f[d - 1][k]
      BY <1>3, <2>1
    <2> QED
      BY <2>2, <2>3, <2>4
  <1> QED
    BY <1>4, <1>5

\* Two trees that agree on the leaves under a node agree on the node.
LEMMA NodeSame ==
    ASSUME NEW m \in Nat, NEW n \in Nat, NEW d \in 0..H, NEW i \in Nat,
           \A x \in Nat : Shifted(x, d) = i => (x < m <=> x < n)
    PROVE  Node(m, <<H - d, i>>) = Node(n, <<H - d, i>>)
  <1>0. H \in Nat
    BY ChainParameters DEF H
  <1> DEFINE Agree(k, y) == \A x \in Nat : Shifted(x, k) = y => (x < m <=> x < n)
             S == {k \in Nat : k <= H =>
                     \A y \in Nat : Agree(k, y) => Node(m, <<H - k, y>>) = Node(n, <<H - k,
                     y>>)}
  <1>1. 0 \in S
    <2> SUFFICES ASSUME NEW y \in Nat, Agree(0, y)
                 PROVE  Node(m, <<H - 0, y>>) = Node(n, <<H - 0, y>>)
      OBVIOUS
    <2>1. Shifted(y, 0) = y
      BY ShiftedDef
    <2>2. y < m <=> y < n
      BY <2>1
    <2>3. H - 0 = H
      BY <1>0
    <2>4. Node(m, <<H, y>>) = Node(n, <<H, y>>)
      BY <2>2, NodeDef, Zenon
    <2> QED
      BY <2>3, <2>4
  <1>2. ASSUME NEW k \in Nat, k \in S PROVE k + 1 \in S
    <2> SUFFICES ASSUME k + 1 <= H, NEW y \in Nat, Agree(k + 1, y)
                 PROVE  Node(m, <<H - (k + 1), y>>) = Node(n, <<H - (k + 1), y>>)
      OBVIOUS
    <2>1. /\ k + 1 \in 1..H /\ (k + 1) - 1 = k /\ k <= H /\ k \in 0..H
          /\ H - (k + 1) + 1 = H - k /\ 2 * y \in Nat /\ 2 * y + 1 \in Nat
      BY <1>0
    <2>2. ASSUME NEW z \in {2 * y, 2 * y + 1} PROVE Agree(k, z)
      <3> SUFFICES ASSUME NEW x \in Nat, Shifted(x, k) = z PROVE x < m <=> x < n
        OBVIOUS
      <3>1. Shifted(x, k + 1) = z \div 2
        BY ShiftedDef
      <3>2. z \div 2 = y
        OBVIOUS
      <3> QED
        BY <3>1
    <2> HIDE DEF Agree
    <2>3. \A z \in {2 * y, 2 * y + 1} : Node(m, <<H - k, z>>) = Node(n, <<H - k, z>>)
      BY <1>2, <2>1, <2>2
    <2>4. \A t \in {m, n} : Node(t, <<H - (k + 1), y>>)
                 = <<Node(t, <<H - k, 2 * y>>), Node(t, <<H - k, 2 * y + 1>>)>>
      <3> SUFFICES ASSUME NEW t \in Nat
                   PROVE  Node(t, <<H - (k + 1), y>>)
                            = <<Node(t, <<H - k, 2 * y>>), Node(t, <<H - k, 2 * y + 1>>)>>
        OBVIOUS
      <3>1. \A j \in 1..H : Node(t, <<H - j, y>>)
                 = <<Node(t, <<H - j + 1, 2 * y>>), Node(t, <<H - j + 1, 2 * y + 1>>)>>
        BY NodeDef, Zenon
      <3>2. PICK j \in 1..H : j = k + 1
        BY <2>1
      <3>3. H - j + 1 = H - k
        BY <1>0, <3>2
      <3> QED
        BY <3>1, <3>2, <3>3, Zenon
    <2> QED
      BY <2>3, <2>4
  <1>3. d \in S
    <2>1. d \in Nat
      BY <1>0
    <2> HIDE DEF S
    <2> QED
      BY <1>1, <1>2, SetInduction
  <1> QED
    BY <1>3

\* Leaves inserted elsewhere in the tree leave a node as it is.
LEMMA NodeKept ==
    ASSUME NEW m \in Nat, NEW n \in Nat, m <= n, NEW d \in 0..H, NEW i \in Nat,
           \A x \in Nat : m <= x /\ x < n => Shifted(x, d) # i
    PROVE  Node(m, <<H - d, i>>) = Node(n, <<H - d, i>>)
  <1>1. \A x \in Nat : Shifted(x, d) = i => (x < m <=> x < n)
    OBVIOUS
  <1> QED
    BY <1>1, NodeSame

\* The j-th node on the way up is j - 1 levels above the leaves.
LEMMA AncestorIs ==
    ASSUME NEW n \in Nat, NEW j \in 1..H
    PROVE  /\ j - 1 \in 0..H /\ Shifted(n, j - 1) \in Nat
           /\ Ancestor(n, j) = <<H - (j - 1), Shifted(n, j - 1)>>
           /\ Ancestor(n, j)[1] \in 1..H
  <1>1. j - 1 \in 0..H /\ H \in Nat /\ H + 1 - j = H - (j - 1) /\ H - (j - 1) \in 1..H
    BY ChainParameters DEF H
  <1>2. Shifted(n, j - 1) \in Nat
    BY <1>1, ShiftedType
  <1>3. Ancestor(n, j) = <<H - (j - 1), Shifted(n, j - 1)>>
    BY <1>1, Zenon DEF Ancestor, H
  <1> QED
    BY <1>1, <1>2, <1>3

-----------------------------------------------------------------------------
(* The authentication path                                                  *)

\* The siblings of the wallet's leaf in a tree of m leaves.
Path(m) == [j \in 1..MERKLE_HEIGHT |-> Node(m, compute_authentication_path_coords[j])]

IsHashes(f, path) ==
    f = [j \in 0..H |-> IF j = 0 THEN <<LeafIndex + 1>>
                        ELSE HashWithSibling(j, f[j - 1], path[j])]

\* The recursion that compute_root is defined by has a solution.
LEMMA HashesExist ==
    ASSUME NEW path
    PROVE  \E f : IsHashes(f, path)
  <1> DEFINE IsUpTo(f, m) == f = [j \in 0..m |-> IF j = 0 THEN <<LeafIndex + 1>>
                                                 ELSE HashWithSibling(j, f[j - 1], path[j])]
             S == {m \in Nat : \E f : IsUpTo(f, m)}
  <1>1. 0 \in S
    <2> DEFINE f == [j \in 0..0 |-> <<LeafIndex + 1>>]
    <2>1. IsUpTo(f, 0)
      OBVIOUS
    <2> QED
      BY <2>1, Zenon
  <1>2. ASSUME NEW m \in Nat, m \in S PROVE m + 1 \in S
    <2>1. PICK f : IsUpTo(f, m)
      BY <1>2
    <2> DEFINE g == [j \in 0..(m + 1) |-> IF j = m + 1 THEN HashWithSibling(j, f[m],
               path[j]) ELSE f[j]]
    <2>2. ASSUME NEW j \in 0..(m + 1)
          PROVE  g[j] = IF j = 0 THEN <<LeafIndex + 1>> ELSE HashWithSibling(j, g[j - 1],
                 path[j])
      <3>1. CASE j = m + 1
        <4>1. j # 0 /\ j - 1 = m /\ m \in 0..(m + 1) /\ m # m + 1
          BY <3>1
        <4> QED
          BY <4>1
      <3>2. CASE j # m + 1
        <4>1. j \in 0..m /\ (j # 0 => j - 1 \in 0..(m + 1) /\ j - 1 # m + 1)
          BY <3>2
        <4>2. f[j] = IF j = 0 THEN <<LeafIndex + 1>> ELSE HashWithSibling(j, f[j - 1], path[j])
          BY <2>1, <4>1
        <4> QED
          BY <4>2
      <3> QED
        BY <3>2
    <2>3. g = [j \in 0..(m + 1) |-> g[j]]
      OBVIOUS
    <2> HIDE DEF g
    <2>4. IsUpTo(g, m + 1)
      BY <2>2, <2>3, Zenon
    <2> HIDE DEF IsUpTo
    <2> QED
      BY <2>4
  <1>3. H \in S
    <2> HIDE DEF S
    <2> QED
      BY <1>1, <1>2, SetInduction, ChainParameters DEF H
  <1> QED
    BY <1>3 DEF IsHashes

\* The coordinates of the wallet's j-th sibling: on the level of its leaf's
\* j-th ancestor.
LEMMA SiblingIs ==
    ASSUME NEW j \in 1..H
    PROVE  /\ SiblingIndex(Shifted(LeafIndex, j - 1)) \in Nat /\ j - 1 \in 0..H
           /\ compute_authentication_path_coords[j]
                = <<H - (j - 1), SiblingIndex(Shifted(LeafIndex, j - 1))>>
  <1>0. H \in Nat /\ LeafIndex \in Nat /\ H = MERKLE_HEIGHT
    BY ChainParameters DEF H
  <1>1. j - 1 \in 0..H /\ H + 1 - j = H - (j - 1)
    BY <1>0
  <1>2. PICK x \in Nat : x = Shifted(LeafIndex, j - 1)
    BY <1>0, ShiftedType
  <1>3. SiblingIndex(x) \in Nat
    BY DEF SiblingIndex
  <1>4. compute_authentication_path_coords[j] = <<H + 1 - j, SiblingIndex(x)>>
    BY <1>0, <1>2, Zenon DEF compute_authentication_path_coords
  <1> QED
    BY <1>1, <1>2, <1>3, <1>4

\* compute_root on the wallet's leaf and its siblings in a tree, those at
\* compute_authentication_path_coords, gives the root of the tree.
THEOREM PathOpens ==
    ASSUME NEW m \in Nat, LeafIndex < m
    PROVE  compute_root(Path(m)) = Root(m)
  <1>0. H \in Nat /\ LeafIndex \in Nat /\ LeafIndex < Capacity
    BY ChainParameters, CapacityType DEF H
  <1>1. PICK f : IsHashes(f, Path(m)) /\ compute_root(Path(m)) = f[H]
    BY HashesExist, Zenon DEF compute_root, IsHashes, H
  <1>2. \A j \in 0..H : f[j] = IF j = 0 THEN <<LeafIndex + 1>>
                               ELSE HashWithSibling(j, f[j - 1], Path(m)[j])
    BY <1>1, Zenon DEF IsHashes
  <1> DEFINE S == {j \in Nat : j <= H => f[j] = Node(m, <<H - j, Shifted(LeafIndex, j)>>)}
  <1>3. 0 \in S
    <2>1. 0 \in 0..H /\ H - 0 = H
      BY <1>0
    <2>2. Shifted(LeafIndex, 0) = LeafIndex
      BY <1>0, ShiftedDef
    <2>3. Node(m, <<H, LeafIndex>>) = <<LeafIndex + 1>>
      BY <1>0, NodeDef, Zenon
    <2>4. f[0] = <<LeafIndex + 1>>
      BY <1>2, <2>1, Zenon
    <2> QED
      BY <2>1, <2>2, <2>3, <2>4
  <1>4. ASSUME NEW k \in Nat, k \in S PROVE k + 1 \in S
    <2> SUFFICES ASSUME k + 1 <= H
                 PROVE  f[k + 1] = Node(m, <<H - (k + 1), Shifted(LeafIndex, k + 1)>>)
      OBVIOUS
    <2>1. PICK j \in 1..H : j = k + 1
      BY <1>0
    <2>2. j - 1 = k /\ j # 0 /\ j \in 0..H /\ k <= H /\ H - j + 1 = H - k /\ k \in 0..H
      BY <1>0, <2>1
    <2>3. PICK x \in Nat : x = Shifted(LeafIndex, k)
      BY <1>0, ShiftedType
    <2>4. Shifted(LeafIndex, j) = x \div 2
      BY <1>0, <2>2, <2>3, ShiftedDef
    <2>5. f[k] = Node(m, <<H - k, x>>)
      BY <1>4, <2>2, <2>3
    <2>6. compute_authentication_path_coords[j] = <<H - k, SiblingIndex(x)>>
      BY <2>2, <2>3, SiblingIs
    <2>7. Path(m)[j] = Node(m, <<H - k, SiblingIndex(x)>>)
      BY <2>6, Zenon DEF Path, H
    <2>8. f[j] = HashWithSibling(j, f[k], Path(m)[j])
      BY <1>2, <2>2, Zenon
    <2>9. PICK y \in Nat : y = x \div 2
      OBVIOUS
    <2>10. Node(m, <<H - j, y>>) = <<Node(m, <<H - k, 2 * y>>), Node(m, <<H - k, 2 * y + 1>>)>>
      <3>1. \A i \in 1..H : Node(m, <<H - i, y>>)
                 = <<Node(m, <<H - i + 1, 2 * y>>), Node(m, <<H - i + 1, 2 * y + 1>>)>>
        BY NodeDef, Zenon
      <3> QED
        BY <2>2, <3>1, Zenon
    <2>11. f[j] = Node(m, <<H - j, y>>)
      <3>1. CASE x % 2 = 0
        <4>1. x = 2 * y /\ SiblingIndex(x) = 2 * y + 1
          BY <2>9, <3>1 DEF SiblingIndex
        <4>2. f[j] = <<f[k], Path(m)[j]>>
          BY <2>2, <2>3, <2>8, <3>1 DEF HashWithSibling, compute_poseidon_hash
        <4> QED
          BY <2>5, <2>7, <2>10, <4>1, <4>2, Zenon
      <3>2. CASE x % 2 # 0
        <4>1. x = 2 * y + 1 /\ SiblingIndex(x) = 2 * y
          BY <2>9, <3>2 DEF SiblingIndex
        <4>2. f[j] = <<Path(m)[j], f[k]>>
          BY <2>2, <2>3, <2>8, <3>2 DEF HashWithSibling, compute_poseidon_hash
        <4> QED
          BY <2>5, <2>7, <2>10, <4>1, <4>2, Zenon
      <3> QED
        BY <3>1, <3>2
    <2> QED
      BY <2>1, <2>4, <2>9, <2>11
  <1>5. H \in S
    <2> HIDE DEF S
    <2> QED
      BY <1>0, <1>3, <1>4, SetInduction
  <1>6. f[H] = Node(m, <<0, 0>>)
    <2>1. H - H = 0 /\ H <= H
      BY <1>0
    <2>2. Shifted(LeafIndex, H) = 0
      BY <1>0, ShiftedOut
    <2> QED
      BY <1>5, <2>2
  <1> QED
    BY <1>1, <1>6 DEF Root

-----------------------------------------------------------------------------
(* The events of a block                                                    *)

\* Where the elements of two sequences are in their concatenation.
LEMMA Concatenated ==
    ASSUME NEW X, NEW u \in Seq(X), NEW v \in Seq(X)
    PROVE  /\ u \o v \in Seq(X) /\ Len(u \o v) = Len(u) + Len(v)
           /\ \A i \in 1..Len(u) : (u \o v)[i] = u[i]
           /\ \A i \in 1..Len(v) : (u \o v)[Len(u) + i] = v[i]
  <1>1. Len(u) \in Nat /\ Len(v) \in Nat
    OBVIOUS
  <1>2. u \o v \in Seq(X) /\ Len(u \o v) = Len(u) + Len(v)
    OBVIOUS
  <1>3. \A i \in 1..Len(u) : (u \o v)[i] = u[i]
    BY <1>1
  <1>4. ASSUME NEW i \in 1..Len(v) PROVE (u \o v)[Len(u) + i] = v[i]
    <2>1. Len(u) + i \in 1..(Len(u) + Len(v)) /\ ~(Len(u) + i <= Len(u))
          /\ (Len(u) + i) - Len(u) = i
      BY <1>1
    <2> QED
      OBVIOUS
  <1> QED
    OBVIOUS

Values == Nullifiers \cup UNION {{Node(m, c) : c \in Nat \X Nat} : m \in Nat}
Event == [key : {"node", "root", "spent"}, block : Nat, at : Nat \X Nat, val : Values]

\* The value of every node is one an event may carry.
LEMMA NodeIsValue ==
    ASSUME NEW m \in Nat, NEW c \in Nat \X Nat
    PROVE  Node(m, c) \in Values
  <1> DEFINE Of(x) == {Node(x, a) : a \in Nat \X Nat}
  <1>1. Node(m, c) \in Of(m)
    BY Zenon
  <1>2. Of(m) \in {Of(x) : x \in Nat}
    BY Zenon
  <1>3. Values = Nullifiers \cup UNION {Of(x) : x \in Nat}
    BY Zenon DEF Values
  <1> HIDE DEF Of
  <1> QED
    BY <1>1, <1>3

\* What a transaction emits: its nullifier, if it has one, a change of each
\* ancestor of its leaf, and the new root.
TxEvents(t, n, b) == Spent(t, b) \o Inserted(n, b)
SpentLen(t) == IF t = NoNullifier THEN 0 ELSE 1
RootChanged(n, b) == [key |-> "root", block |-> b, at |-> <<0, 0>>, val |-> Root(n + 1)]

TxShape(t, n, b) ==
    /\ TxEvents(t, n, b) \in Seq(Event)
    /\ Len(TxEvents(t, n, b)) = SpentLen(t) + H + 1
    /\ t # NoNullifier => TxEvents(t, n, b)[1] =
         [key |-> "spent", block |-> b, at |-> <<0, 0>>, val |-> t]
    /\ \A j \in 1..H : TxEvents(t, n, b)[SpentLen(t) + j] = NodeChanged(n + 1, b, Ancestor(n,
         j))
    /\ TxEvents(t, n, b)[SpentLen(t) + H + 1] = RootChanged(n, b)

\* A transaction emits what TxShape says, in that order.
LEMMA TxEventsAre ==
    ASSUME NEW t \in Nullifiers \cup {NoNullifier}, NEW n \in Nat, NEW b \in Nat
    PROVE  TxShape(t, n, b)
  <1>0. H \in Nat
    BY ChainParameters DEF H
  <1>1. ASSUME NEW j \in 1..H PROVE NodeChanged(n + 1, b, Ancestor(n, j)) \in Event
    <2>1. Ancestor(n, j) \in Nat \X Nat
      <3>1. H - (j - 1) \in Nat
        BY <1>0
      <3> QED
        BY AncestorIs
    <2>2. Node(n + 1, Ancestor(n, j)) \in Values
      <3>1. n + 1 \in Nat
        OBVIOUS
      <3> QED
        BY <2>1, NodeIsValue
    <2> QED
      BY <2>1, <2>2 DEF NodeChanged, Event
  <1>2. RootChanged(n, b) \in Event
    <2>1. Root(n + 1) \in Values
      <3>1. n + 1 \in Nat /\ <<0, 0>> \in Nat \X Nat
        OBVIOUS
      <3> QED
        BY NodeIsValue DEF Root
    <2> QED
      BY <2>1 DEF RootChanged, Event
  <1> DEFINE nodes == [j \in 1..H |-> NodeChanged(n + 1, b, Ancestor(n, j))]
             last == <<RootChanged(n, b)>>
             s == Spent(t, b)
  <1>3. nodes \in Seq(Event) /\ Len(nodes) = H
        /\ \A j \in 1..H : nodes[j] = NodeChanged(n + 1, b, Ancestor(n, j))
    <2> HIDE DEF Event
    <2>1. nodes \in [1..H -> Event]
      BY <1>1
    <2> QED
      BY <1>0, <2>1
  <1>4. last \in Seq(Event) /\ Len(last) = 1 /\ last[1] = RootChanged(n, b)
    BY <1>2
  <1>5. /\ s \in Seq(Event) /\ Len(s) = SpentLen(t)
        /\ t # NoNullifier => s[1] = [key |-> "spent", block |-> b, at |-> <<0, 0>>, val |-> t]
    <2>1. CASE t = NoNullifier
      BY <2>1 DEF Spent, SpentLen
    <2>2. CASE t # NoNullifier
      <3>1. [key |-> "spent", block |-> b, at |-> <<0, 0>>, val |-> t] \in Event
        BY <2>2 DEF Event, Values
      <3> QED
        BY <3>1 DEF Spent, SpentLen
    <2> QED
      BY <2>1, <2>2
  <1>6. TxEvents(t, n, b) = s \o (nodes \o last)
    BY Zenon DEF TxEvents, Inserted, RootChanged, H
  <1>7. SpentLen(t) \in {0, 1} /\ (t # NoNullifier => SpentLen(t) = 1)
    BY DEF SpentLen
  <1> HIDE DEF nodes, last, s
  <1>14. ASSUME NEW u \in Seq(Event), NEW v \in Seq(Event)
         PROVE  /\ u \o v \in Seq(Event) /\ Len(u \o v) = Len(u) + Len(v)
                /\ \A i \in 1..Len(u) : (u \o v)[i] = u[i]
                /\ \A i \in 1..Len(v) : (u \o v)[Len(u) + i] = v[i]
    BY Concatenated
  <1>8. /\ nodes \o last \in Seq(Event) /\ Len(nodes \o last) = H + 1
        /\ \A j \in 1..H : (nodes \o last)[j] = nodes[j]
        /\ (nodes \o last)[H + 1] = last[1]
    <2>1. /\ nodes \o last \in Seq(Event) /\ Len(nodes \o last) = Len(nodes) + Len(last)
          /\ \A i \in 1..Len(nodes) : (nodes \o last)[i] = nodes[i]
          /\ \A i \in 1..Len(last) : (nodes \o last)[Len(nodes) + i] = last[i]
      BY <1>3, <1>4, <1>14, Zenon
    <2>2. Len(nodes) = H /\ Len(last) = 1 /\ 1 \in 1..1
      BY <1>3, <1>4
    <2>3. \A j \in 1..H : (nodes \o last)[j] = nodes[j]
      BY <2>1, <2>2, Zenon
    <2>4. (nodes \o last)[H + 1] = last[1]
      BY <2>1, <2>2, Zenon
    <2> QED
      BY <2>1, <2>2, <2>3, <2>4, Zenon
  <1> DEFINE r == nodes \o last
  <1> HIDE DEF r
  <1>9. /\ s \o r \in Seq(Event) /\ Len(s \o r) = SpentLen(t) + (H + 1)
        /\ t # NoNullifier => (s \o r)[1] = s[1]
        /\ \A j \in 1..(H + 1) : (s \o r)[SpentLen(t) + j] = r[j]
    <2>1. r \in Seq(Event) /\ Len(r) = H + 1
      BY <1>8 DEF r
    <2>2. t # NoNullifier => 1 \in 1..Len(s)
      BY <1>5, <1>7
    <2>3. /\ s \o r \in Seq(Event) /\ Len(s \o r) = Len(s) + Len(r)
          /\ \A i \in 1..Len(s) : (s \o r)[i] = s[i]
          /\ \A i \in 1..Len(r) : (s \o r)[Len(s) + i] = r[i]
      BY <1>5, <2>1, <1>14, Zenon
    <2> QED
      BY <1>5, <2>1, <2>2, <2>3
  <1>10. H + 1 \in 1..(H + 1) /\ SpentLen(t) + (H + 1) = SpentLen(t) + H + 1
         /\ \A j \in 1..H : j \in 1..(H + 1)
    BY <1>0, <1>7
  <1>11. TxEvents(t, n, b) = s \o r
    BY <1>6 DEF r
  <1>12. (s \o r)[SpentLen(t) + H + 1] = r[H + 1]
    <2>1. (s \o r)[SpentLen(t) + (H + 1)] = r[H + 1]
      BY <1>9, <1>10, Zenon
    <2> QED
      BY <1>10, <2>1, Zenon
  <1>13. \A j \in 1..H : (s \o r)[SpentLen(t) + j] = r[j]
    BY <1>9, <1>10, Zenon
  <1> QED
    BY <1>3, <1>4, <1>5, <1>8, <1>9, <1>10, <1>11, <1>12, <1>13, Zenon DEF r, TxShape

\* An event of a transaction is one of these.
TxKind(e, o, t, n, b) ==
    /\ e.block = b
    /\ e.key = "spent" => o = 1 /\ t # NoNullifier /\ e.val = t
    /\ e.key = "node" => \E j \in 1..H : /\ o = SpentLen(t) + j
                                         /\ e.at = Ancestor(n, j)
                                         /\ e.val = Node(n + 1, e.at)

\* Every event of a transaction is its nullifier, one of its node changes or
\* its root.
LEMMA TxEventKinds ==
    ASSUME NEW t \in Nullifiers \cup {NoNullifier}, NEW n \in Nat, NEW b \in Nat,
           NEW o \in 1..Len(TxEvents(t, n, b))
    PROVE  TxKind(TxEvents(t, n, b)[o], o, t, n, b)
  <1>0. H \in Nat /\ Len(TxEvents(t, n, b)) = SpentLen(t) + H + 1
    BY ChainParameters, TxEventsAre, Zenon DEF H, TxShape
  <1> DEFINE e == TxEvents(t, n, b)[o]
  <1>1. CASE o <= SpentLen(t)
    <2>1. t # NoNullifier /\ o = 1
      BY <1>1 DEF SpentLen
    <2>2. e = [key |-> "spent", block |-> b, at |-> <<0, 0>>, val |-> t]
      BY <2>1, TxEventsAre DEF TxShape
    <2> QED
      BY <2>1, <2>2 DEF TxKind
  <1>2. CASE o > SpentLen(t) /\ o # SpentLen(t) + H + 1
    <2>1. PICK j \in 1..H : o = SpentLen(t) + j
      <3>1. o - SpentLen(t) \in 1..H /\ o = SpentLen(t) + (o - SpentLen(t))
        BY <1>0, <1>2 DEF SpentLen
      <3> QED
        BY <3>1
    <2>2. e = NodeChanged(n + 1, b, Ancestor(n, j))
      <3>1. TxEvents(t, n, b)[SpentLen(t) + j] = NodeChanged(n + 1, b, Ancestor(n, j))
        <4>1. \A i \in 1..H : TxEvents(t, n, b)[SpentLen(t) + i]
                                 = NodeChanged(n + 1, b, Ancestor(n, i))
          <5>1. TxShape(t, n, b)
            BY TxEventsAre, Zenon
          <5> QED
            BY <5>1, Zenon DEF TxShape
        <4> QED
          BY <4>1, Zenon
      <3> QED
        BY <2>1, <3>1
    <2> QED
      BY <2>1, <2>2 DEF NodeChanged, TxKind
  <1>3. CASE o = SpentLen(t) + H + 1
    <2>1. e = RootChanged(n, b)
      <3>1. TxShape(t, n, b)
        BY TxEventsAre, Zenon
      <3> QED
        BY <1>3, <3>1, Zenon DEF TxShape
    <2> QED
      BY <2>1 DEF RootChanged, TxKind
  <1>4. SpentLen(t) \in Nat
    BY SMTT(30) DEF SpentLen
  <1> QED
    BY <1>1, <1>2, <1>3, <1>4

\* The events F of a block of transactions, the first of which inserts leaf n:
\* every ancestor of every leaf inserted changes, its last change giving its
\* value in the tree after the block, and a nullifier is spent where a
\* transaction has one.
BlockShape(F, txs, n, b) ==
    /\ F \in Seq(Event)
    /\ \A i \in DOMAIN F : F[i].block = b
    /\ \A i \in DOMAIN F : F[i].key = "spent" =>
         \E r \in DOMAIN txs : txs[r] # NoNullifier /\ F[i].val = txs[r]
    /\ (\A r, q \in DOMAIN txs : txs[r] # NoNullifier /\ txs[q] = txs[r] => q = r) =>
         \A i, l \in DOMAIN F :
             F[i].key = "spent" /\ F[l].key = "spent" /\ F[i].val = F[l].val => i = l
    /\ \A r \in DOMAIN txs : \A j \in 1..H : \E i \in DOMAIN F :
         F[i].key = "node" /\ F[i].at = Ancestor(n + r - 1, j)
    /\ \A r \in DOMAIN txs : \E i \in DOMAIN F : F[i].key = "root"
    /\ \A i \in DOMAIN F : F[i].key = "node" =>
         \E r \in DOMAIN txs : \E j \in 1..H : F[i].at = Ancestor(n + r - 1, j)
    /\ \A i \in DOMAIN F :
         F[i].key = "node"
         /\ (\A l \in DOMAIN F : F[l].key = "node" /\ F[l].at = F[i].at => l <= i)
             => F[i].val = Node(n + Len(txs), F[i].at)

\* A block's events are those of its transactions, the last change of a node
\* being its value after the block.
LEMMA BlockEventsAre ==
    ASSUME NEW txs \in Seq(Nullifiers \cup {NoNullifier}), NEW n \in Nat, NEW b \in Nat
    PROVE  BlockShape(BlockEvents(txs, n, b), txs, n, b)
  <1> DEFINE F == BlockEvents(txs, n, b)
  <1>0. H \in Nat /\ Len(txs) \in Nat /\ DOMAIN txs = 1..Len(txs)
    BY ChainParameters DEF H
  <1> DEFINE N == Len(txs)
             E(r) == TxEvents(txs[r], n + r - 1, b)
             seqs == [r \in DOMAIN txs |-> E(r)]
  <1>3. F = Concatenation(seqs)
    BY Zenon DEF BlockEvents, TxEvents
  <1> HIDE DEF F
  <1>1. ASSUME NEW r \in 1..N
        PROVE  /\ txs[r] \in Nullifiers \cup {NoNullifier} /\ n + r - 1 \in Nat
               /\ E(r) \in Seq(Event)
    <2>1. txs[r] \in Nullifiers \cup {NoNullifier} /\ n + r - 1 \in Nat
      BY <1>0
    <2> QED
      BY <2>1, TxEventsAre, Zenon DEF TxShape
  <1>2. seqs \in Seq(Seq(Event)) /\ Len(seqs) = N /\ \A r \in 1..N : seqs[r] = E(r)
    <2> HIDE DEF E
    <2> QED
      BY <1>1
  <1>4. LaidOut(F, Event, seqs, N)
    <2> HIDE DEF seqs
    <2> QED
      BY <1>2, <1>3, ConcatenationPlaces
  <1>5. F \in Seq(Event) /\ DOMAIN F = 1..Len(F)
    BY <1>4 DEF LaidOut
  <1>6. PICK tx, off : Places(F, seqs, N, tx, off)
    BY <1>4, Zenon DEF LaidOut
  <1>7. \A i \in 1..Len(F) : tx[i] \in 1..N /\ off[i] \in 1..Len(E(tx[i]))
        /\ F[i] = E(tx[i])[off[i]]
    <2> HIDE DEF E, seqs
    <2> QED
      BY <1>2, <1>6, Zenon DEF Places
  <1>8. \A i, l \in 1..Len(F) : i < l => tx[i] < tx[l] \/ (tx[i] = tx[l] /\ off[i] < off[l])
    BY <1>6 DEF Places
  <1>9. \A r \in 1..N : \A o \in 1..Len(E(r)) : \E i \in 1..Len(F) :
            tx[i] = r /\ off[i] = o /\ F[i] = E(r)[o]
    <2> HIDE DEF E, seqs
    <2> TAKE r \in 1..N
    <2> TAKE o \in 1..Len(E(r))
    <2>1. o \in 1..Len(seqs[r])
      BY <1>2
    <2>2. PICK i \in 1..Len(F) : tx[i] = r /\ off[i] = o
      BY <1>6, <2>1 DEF Places
    <2> QED
      BY <1>7, <2>2, Zenon
  <1>10. ASSUME NEW r \in 1..N
         PROVE  /\ SpentLen(txs[r]) \in Nat /\ Len(E(r)) = SpentLen(txs[r]) + H + 1
                /\ \A j \in 1..H : /\ SpentLen(txs[r]) + j \in 1..Len(E(r))
                                   /\ E(r)[SpentLen(txs[r]) + j].key = "node"
                                   /\ E(r)[SpentLen(txs[r]) + j].at = Ancestor(n + r - 1, j)
                /\ E(r)[SpentLen(txs[r]) + H + 1].key = "root"
    <2>0. PICK q \in Nat : q = n + r - 1
      BY <1>1
    <2>6. E(r) = TxEvents(txs[r], q, b) /\ txs[r] \in Nullifiers \cup {NoNullifier}
      BY <2>0
    <2>1. /\ Len(E(r)) = SpentLen(txs[r]) + H + 1
          /\ \A j \in 1..H : E(r)[SpentLen(txs[r]) + j] = NodeChanged(q + 1, b, Ancestor(q, j))
          /\ E(r)[SpentLen(txs[r]) + H + 1] = RootChanged(q, b)
      <3>1. PICK t \in Nullifiers \cup {NoNullifier} : t = txs[r]
        BY <2>6
      <3>2. /\ Len(TxEvents(t, q, b)) = SpentLen(t) + H + 1
            /\ \A j \in 1..H : TxEvents(t, q, b)[SpentLen(t) + j]
                                 = NodeChanged(q + 1, b, Ancestor(q, j))
            /\ TxEvents(t, q, b)[SpentLen(t) + H + 1] = RootChanged(q, b)
        <4>1. TxShape(t, q, b)
          BY TxEventsAre
        <4> QED
          BY <4>1 DEF TxShape
      <3> HIDE DEF E
      <3> QED
        BY <2>6, <3>1, <3>2, Zenon
    <2>2. SpentLen(txs[r]) \in Nat
      BY DEF SpentLen
    <2>3. \A j \in 1..H : SpentLen(txs[r]) + j \in 1..Len(E(r))
      BY <1>0, <2>1, <2>2
    <2>4. \A x, c : NodeChanged(x, b, c).key = "node" /\ NodeChanged(x, b, c).at = c
      BY DEF NodeChanged
    <2>5. RootChanged(q, b).key = "root"
      BY DEF RootChanged
    <2> HIDE DEF E
    <2>7. ASSUME NEW j \in 1..H
          PROVE  /\ E(r)[SpentLen(txs[r]) + j].key = "node"
                 /\ E(r)[SpentLen(txs[r]) + j].at = Ancestor(n + r - 1, j)
      <3>1. E(r)[SpentLen(txs[r]) + j] = NodeChanged(q + 1, b, Ancestor(q, j))
        BY <2>1, Zenon
      <3> QED
        BY <2>0, <2>4, <3>1
    <2> QED
      BY <2>1, <2>2, <2>3, <2>5, <2>7
  <1>11. ASSUME NEW i \in 1..Len(F)
         PROVE  /\ F[i].block = b
                /\ F[i].key = "spent" => /\ off[i] = 1 /\ txs[tx[i]] # NoNullifier
                                         /\ F[i].val = txs[tx[i]]
                /\ F[i].key = "node" => \E j \in 1..H :
                      /\ off[i] = SpentLen(txs[tx[i]]) + j
                      /\ F[i].at = Ancestor(n + tx[i] - 1, j)
                      /\ F[i].val = Node(n + tx[i], F[i].at)
    <2>0. PICK r \in 1..N : r = tx[i]
      BY <1>7
    <2>1. PICK o \in 1..Len(E(r)) : r = tx[i] /\ o = off[i] /\ F[i] = E(r)[o]
      BY <1>7, <2>0, Zenon
    <2>2. PICK q \in Nat : q = n + r - 1
      BY <1>1
    <2>3. q + 1 = n + r
      BY <2>2
    <2>4. txs[r] \in Nullifiers \cup {NoNullifier} /\ o \in 1..Len(TxEvents(txs[r], q, b))
          /\ F[i] = TxEvents(txs[r], q, b)[o]
      BY <2>1, <2>2
    <2>5. /\ F[i].block = b
          /\ F[i].key = "spent" => o = 1 /\ txs[r] # NoNullifier /\ F[i].val = txs[r]
          /\ F[i].key = "node" => \E j \in 1..H : /\ o = SpentLen(txs[r]) + j
                                                  /\ F[i].at = Ancestor(q, j)
                                                  /\ F[i].val = Node(q + 1, F[i].at)
      <3>1. PICK t \in Nullifiers \cup {NoNullifier} : t = txs[r]
        BY <2>4
      <3>2. PICK e : e = F[i]
        OBVIOUS
      <3>3. /\ e.block = b
            /\ e.key = "spent" => o = 1 /\ t # NoNullifier /\ e.val = t
            /\ e.key = "node" => \E j \in 1..H : /\ o = SpentLen(t) + j
                                                 /\ e.at = Ancestor(q, j)
                                                 /\ e.val = Node(q + 1, e.at)
        <4>1. o \in 1..Len(TxEvents(t, q, b)) /\ e = TxEvents(t, q, b)[o]
          BY <2>4, <3>1, <3>2
        <4>2. TxKind(e, o, t, q, b)
          BY <4>1, TxEventKinds, Zenon
        <4> QED
          BY <4>2 DEF TxKind
      <3> QED
        BY <3>1, <3>2, <3>3
    <2> QED
      BY <2>1, <2>2, <2>3, <2>5, Zenon
  <1> HIDE DEF E, seqs
  <1>12. \A i \in DOMAIN F : F[i].block = b
    BY <1>11
  <1>13. \A i \in DOMAIN F : F[i].key = "spent" =>
            \E r \in DOMAIN txs : txs[r] # NoNullifier /\ F[i].val = txs[r]
    BY <1>0, <1>5, <1>7, <1>11
  <1>14. ASSUME \A r, q \in DOMAIN txs : txs[r] # NoNullifier /\ txs[q] = txs[r] => q = r,
                NEW i \in DOMAIN F, NEW l \in DOMAIN F,
                F[i].key = "spent", F[l].key = "spent", F[i].val = F[l].val
         PROVE  i = l
    <2>1. off[i] = off[l] /\ tx[i] = tx[l] /\ tx[i] \in 1..N /\ off[i] \in Int
      BY <1>0, <1>5, <1>7, <1>11, <1>14
    <2>2. ~(i < l) /\ ~(l < i)
      BY <1>8, <2>1
    <2> QED
      BY <2>2
  <1>15. ASSUME NEW r \in DOMAIN txs, NEW j \in 1..H
         PROVE  \E i \in DOMAIN F : /\ tx[i] = r /\ F[i].key = "node"
                                    /\ F[i].at = Ancestor(n + r - 1, j)
    <2>1. PICK o \in 1..Len(E(r)) : E(r)[o].key = "node" /\ E(r)[o].at = Ancestor(n + r - 1, j)
      BY <1>0, <1>10, Zenon
    <2>2. PICK i \in 1..Len(F) : tx[i] = r /\ F[i] = E(r)[o]
      BY <1>0, <1>9, Zenon
    <2> QED
      BY <2>1, <2>2
  <1>16. ASSUME NEW r \in DOMAIN txs PROVE \E i \in DOMAIN F : F[i].key = "root"
    <2>1. SpentLen(txs[r]) + H + 1 \in 1..Len(E(r))
      BY <1>0, <1>10
    <2>2. PICK o \in 1..Len(E(r)) : E(r)[o].key = "root"
      BY <1>0, <1>10
    <2>3. PICK i \in 1..Len(F) : F[i] = E(r)[o]
      BY <1>9
    <2> QED
      BY <2>2, <2>3
  <1>17. ASSUME NEW i \in DOMAIN F, F[i].key = "node"
         PROVE  \E r \in DOMAIN txs : \E j \in 1..H : F[i].at = Ancestor(n + r - 1, j)
    <2>1. i \in 1..Len(F) /\ tx[i] \in DOMAIN txs
      BY <1>7
    <2>2. PICK j \in 1..H : F[i].at = Ancestor(n + tx[i] - 1, j)
      BY <1>11, <1>17
    <2> QED
      BY <2>1, <2>2
  <1>18. ASSUME NEW i \in DOMAIN F, F[i].key = "node",
                \A l \in DOMAIN F : F[l].key = "node" /\ F[l].at = F[i].at => l <= i
         PROVE  F[i].val = Node(n + Len(txs), F[i].at)
    <2>1. PICK r \in 1..N : r = tx[i]
      BY <1>7
    <2>2. PICK j \in 1..H : /\ F[i].at = Ancestor(n + r - 1, j)
                            /\ F[i].val = Node(n + r, F[i].at)
      BY <1>11, <1>18, <2>1
    <2>3. n + r - 1 \in Nat /\ n + r \in Nat /\ n + N \in Nat /\ n + r <= n + N
      BY <1>0
    <2>4. PICK d \in 0..H, y \in Nat : d = j - 1 /\ F[i].at = <<H - d, y>>
      BY <2>2, <2>3, AncestorIs
    <2>5. ASSUME NEW x \in Nat, n + r <= x, x < n + N PROVE Shifted(x, d) # y
      <3> SUFFICES ASSUME Shifted(x, d) = y PROVE FALSE
        OBVIOUS
      <3>1. PICK q \in 1..N : x = n + q - 1 /\ q > r
        <4>1. x - n + 1 \in 1..N /\ x = n + (x - n + 1) - 1 /\ x - n + 1 > r
          BY <2>5
        <4> QED
          BY <4>1
      <3>2. Ancestor(x, j) = F[i].at
        BY <2>4, AncestorIs
      <3>3. PICK l \in DOMAIN F : tx[l] = q /\ F[l].key = "node" /\ F[l].at = F[i].at
        <4>1. q \in DOMAIN txs /\ Ancestor(n + q - 1, j) = F[i].at
          BY <3>1, <3>2
        <4> QED
          BY <1>15, <4>1
      <3>4. l <= i
        BY <1>18, <3>3
      <3>5. ~(l < i) /\ l # i
        BY <1>8, <2>1, <3>1, <3>3
      <3> QED
        BY <1>5, <3>4, <3>5
    <2>6. Node(n + r, <<H - d, y>>) = Node(n + N, <<H - d, y>>)
      BY <2>5, NodeKept
    <2> QED
      BY <2>2, <2>4, <2>6, Zenon
  <1> QED
    BY <1>5, <1>12, <1>13, <1>14, <1>15, <1>16, <1>17, <1>18 DEF BlockShape, F

-----------------------------------------------------------------------------
(* The chain                                                                *)

\* The change of a leaf.
LeafNode(e) == e.key = "node" /\ e.at[1] = H

\* The events are in block order.
Sorted(ev, bl) ==
    /\ \A k \in DOMAIN ev : ev[k].block <= bl
    /\ \A k, l \in DOMAIN ev : k <= l => ev[k].block <= ev[l].block

\* No nullifier is spent twice.
SpentOnce(ev) ==
    \A k, l \in DOMAIN ev :
        ev[k].key = "spent" /\ ev[l].key = "spent" /\ ev[k].val = ev[l].val => k = l

\* Every leaf of a tree with n leaves was written.
LeavesWritten(ev, n) ==
    \A x \in 0..(n - 1) : \E k \in DOMAIN ev : LeafNode(ev[k]) /\ ev[k].at[2] = x

\* The block that writes a leaf also changes its ancestors and the root.
LeafEvents(ev, n) ==
    \A k \in DOMAIN ev : LeafNode(ev[k]) =>
        /\ ev[k].at[2] < n
        /\ \A j \in 1..H : \E l \in DOMAIN ev :
             /\ ev[l].key = "node" /\ ev[l].block = ev[k].block
             /\ ev[l].at = Ancestor(ev[k].at[2], j)
        /\ \E l \in DOMAIN ev : ev[l].key = "root" /\ ev[l].block = ev[k].block

\* The last change of a node is its value in a tree with n leaves.
LastIsCurrent(ev, n) ==
    \A k \in DOMAIN ev : ev[k].key = "node" =>
        /\ ev[k].at[1] \in 1..H
        /\ (\A l \in DOMAIN ev : ev[l].key = "node" /\ ev[l].at = ev[k].at => l <= k)
            => ev[k].val = Node(n, ev[k].at)

\* The events ev of a tree with n leaves, the last of them of block bl or before.
ChainOK(ev, n, bl) ==
    /\ ev \in Seq(Event) /\ n \in Nat /\ bl \in Nat
    /\ Sorted(ev, bl) /\ SpentOnce(ev)
    /\ LeavesWritten(ev, n) /\ LeafEvents(ev, n) /\ LastIsCurrent(ev, n)

\* The chain invariant.
ChainInv == ChainOK(events, leaves, block) /\ leaves \in InitialLeaves..Capacity

\* A chain without events.
LEMMA EmptyChain == ChainOK(<<>>, 0, 0)
  <1>1. \A x \in 0..(0 - 1) : FALSE
    OBVIOUS
  <1> QED
    BY DEF ChainOK, Sorted, SpentOnce, LeavesWritten, LeafEvents, LastIsCurrent

\* The positions of G, the concatenation of old and F, are those of old and,
\* after them, those of F.
Concatenates(G, old, F) ==
    /\ G \in Seq(Event) /\ Len(old) \in Nat
    /\ \A k \in DOMAIN old : k \in DOMAIN G /\ G[k] = old[k] /\ k \in 1..Len(old)
    /\ \A i \in DOMAIN F : /\ Len(old) + i \in DOMAIN G
                           /\ G[Len(old) + i] = F[i] /\ i \in Nat \ {0}
    /\ \A k \in DOMAIN G : k \in DOMAIN old \/ \E i \in DOMAIN F : k = Len(old) + i

\* Positions of a concatenation.
LEMMA Positions ==
    ASSUME NEW old \in Seq(Event), NEW F \in Seq(Event)
    PROVE  Concatenates(old \o F, old, F)
  <1>1. Len(old) \in Nat /\ Len(F) \in Nat /\ DOMAIN old = 1..Len(old) /\ DOMAIN F = 1..Len(F)
    OBVIOUS
  <1>2. old \o F \in Seq(Event) /\ Len(old \o F) = Len(old) + Len(F)
        /\ (\A i \in 1..Len(old) : (old \o F)[i] = old[i])
        /\ \A i \in 1..Len(F) : (old \o F)[Len(old) + i] = F[i]
    BY Concatenated
  <1>3. DOMAIN (old \o F) = 1..(Len(old) + Len(F))
    OBVIOUS
  <1>4. ASSUME NEW k \in 1..(Len(old) + Len(F)), k \notin 1..Len(old)
        PROVE  \E i \in 1..Len(F) : k = Len(old) + i
    <2>1. k - Len(old) \in 1..Len(F) /\ k = Len(old) + (k - Len(old))
      BY <1>4
    <2> QED
      BY <2>1, Zenon
  <1>5. \A i \in 1..Len(F) : Len(old) + i \in 1..(Len(old) + Len(F)) /\ i \in Nat \ {0}
    BY <1>1
  <1>6. \A k \in 1..Len(old) : k \in 1..(Len(old) + Len(F))
    BY <1>1
  <1> QED
    BY <1>1, <1>2, <1>3, <1>4, <1>5, <1>6, Zenon DEF Concatenates

\* A coordinate that a leaf's j-th ancestor can have.
LEMMA AncestorAt ==
    ASSUME NEW x \in Nat, NEW d \in 0..H, d < H, NEW y \in Nat, Shifted(x, d) = y
    PROVE  d + 1 \in 1..H /\ Ancestor(x, d + 1) = <<H - d, y>>
  <1>1. PICK j \in 1..H : j = d + 1 /\ j - 1 = d
    BY ChainParameters DEF H
  <1> QED
    BY <1>1, AncestorIs

\* An ancestor at the depth of the leaves is the leaf.
LEMMA LeafIs ==
    ASSUME NEW x \in Nat, NEW j \in 1..H
    PROVE  /\ Ancestor(x, 1) = <<H, x>> /\ 1 \in 1..H
           /\ Ancestor(x, j)[1] = H => j = 1
  <1>0. H \in Nat /\ 1 \in 1..H /\ 1 - 1 = 0 /\ H - 0 = H
    BY ChainParameters DEF H
  <1>1. Ancestor(x, 1) = <<H - (1 - 1), Shifted(x, 1 - 1)>>
    BY <1>0, AncestorIs
  <1>2. Shifted(x, 0) = x
    BY ShiftedDef
  <1>3. Ancestor(x, j)[1] = H - (j - 1)
    BY AncestorIs
  <1> QED
    BY <1>0, <1>1, <1>2, <1>3

\* A block is appended.
LEMMA AppendBlock ==
    ASSUME NEW old, NEW n, NEW bl, ChainOK(old, n, bl),
           NEW txs \in Seq(Nullifiers \cup {NoNullifier}), NEW b \in Nat, bl <= b,
           \A r \in DOMAIN txs : txs[r] # NoNullifier =>
             /\ \A k \in DOMAIN old : old[k].key = "spent" => old[k].val # txs[r]
             /\ \A q \in DOMAIN txs : txs[q] = txs[r] => q = r
    PROVE  ChainOK(old \o BlockEvents(txs, n, b), n + Len(txs), b)
  <1>0. /\ old \in Seq(Event) /\ n \in Nat /\ bl \in Nat /\ H \in Nat /\ Len(txs) \in Nat
        /\ DOMAIN txs = 1..Len(txs)
    BY ChainParameters DEF ChainOK, H
  <1> DEFINE F == BlockEvents(txs, n, b)
             G == old \o F
             L == Len(old)
             N == n + Len(txs)
  <1>1. BlockShape(F, txs, n, b)
    BY <1>0, BlockEventsAre, Zenon
  <1>2. F \in Seq(Event)
    BY <1>1, Zenon DEF BlockShape
  <1> HIDE DEF F
  <1>3. /\ G \in Seq(Event) /\ L \in Nat
        /\ \A k \in DOMAIN old : k \in DOMAIN G /\ G[k] = old[k] /\ k \in 1..L
        /\ \A i \in DOMAIN F : L + i \in DOMAIN G /\ G[L + i] = F[i] /\ i \in Nat \ {0}
        /\ \A k \in DOMAIN G : k \in DOMAIN old \/ \E i \in DOMAIN F : k = L + i
    <2>1. Concatenates(G, old, F)
      BY <1>0, <1>2, Positions, Zenon
    <2> QED
      BY <2>1, Zenon DEF Concatenates
  <1>4. \A e \in Event : e.block \in Nat /\ e.at = <<e.at[1], e.at[2]>> /\ e.at[1] \in Nat
        /\ e.at[2] \in Nat
    BY DEF Event
  <1>5. /\ \A k \in DOMAIN old : old[k] \in Event
        /\ \A k \in DOMAIN F : F[k] \in Event
    BY <1>0, <1>2
  <1> HIDE DEF G, L
  <1>6. Sorted(G, b)
    <2>1. \A k \in DOMAIN old : old[k].block \in Nat /\ old[k].block <= bl
      BY <1>4, SMTT(30) DEF ChainOK, Sorted
    <2>2. \A i \in DOMAIN F : F[i].block = b
      BY <1>1 DEF BlockShape
    <2>3. ASSUME NEW k \in DOMAIN G PROVE G[k].block <= b
      <3>1. CASE k \in DOMAIN old
        <4>1. G[k] = old[k]
          BY <1>3, <3>1, Zenon
        <4> QED
          BY <1>0, <2>1, <3>1, <4>1
      <3>2. CASE k \notin DOMAIN old
        <4>1. PICK i \in DOMAIN F : G[k] = F[i]
          BY <1>3, <3>2, Zenon
        <4> QED
          BY <1>0, <2>2, <4>1
      <3> QED
        BY <3>1, <3>2, Zenon
    <2>4. ASSUME NEW k \in DOMAIN G, NEW l \in DOMAIN G, k <= l
          PROVE  G[k].block <= G[l].block
      <3>1. CASE k \in DOMAIN old /\ l \in DOMAIN old
        BY <1>3, <2>4, <3>1 DEF ChainOK, Sorted
      <3>2. CASE l \notin DOMAIN old
        <4>1. G[l].block = b
          BY <1>3, <2>2, <3>2
        <4> QED
          BY <2>3, <4>1
      <3>3. CASE l \in DOMAIN old /\ k \notin DOMAIN old
        BY <1>3, <2>4, <3>3
      <3> QED
        BY <3>1, <3>2, <3>3
    <2> QED
      BY <2>3, <2>4 DEF Sorted
  <1>7. SpentOnce(G)
    <2>1. \A i \in DOMAIN F : F[i].key = "spent" =>
            \E r \in DOMAIN txs : txs[r] # NoNullifier /\ F[i].val = txs[r]
      BY <1>1 DEF BlockShape
    <2>2. \A i, l \in DOMAIN F :
             F[i].key = "spent" /\ F[l].key = "spent" /\ F[i].val = F[l].val => i = l
      BY <1>1, SMTT(30) DEF BlockShape
    <2>3. \A k, l \in DOMAIN old :
             old[k].key = "spent" /\ old[l].key = "spent" /\ old[k].val = old[l].val => k = l
      BY DEF ChainOK, SpentOnce
    <2> SUFFICES ASSUME NEW k \in DOMAIN G, NEW l \in DOMAIN G,
                        G[k].key = "spent", G[l].key = "spent", G[k].val = G[l].val
                 PROVE  k = l
      BY DEF SpentOnce
    <2>4. ASSUME NEW y \in DOMAIN old, NEW i \in DOMAIN F,
                 old[y].key = "spent", F[i].key = "spent"
          PROVE  old[y].val # F[i].val
      BY <2>1, <2>4
    <2>5. CASE k \in DOMAIN old /\ l \in DOMAIN old
      BY <1>3, <2>3, <2>5
    <2>6. CASE k \in DOMAIN old /\ l \notin DOMAIN old
      <3>1. PICK i \in DOMAIN F : G[l] = F[i]
        BY <1>3, <2>6
      <3> QED
        BY <1>3, <2>4, <2>6
    <2>7. CASE k \notin DOMAIN old /\ l \in DOMAIN old
      <3>1. PICK i \in DOMAIN F : G[k] = F[i]
        BY <1>3, <2>7
      <3> QED
        BY <1>3, <2>4, <2>7
    <2>8. CASE k \notin DOMAIN old /\ l \notin DOMAIN old
      <3>1. PICK i \in DOMAIN F : G[k] = F[i] /\ k = L + i
        BY <1>3, <2>8
      <3>2. PICK q \in DOMAIN F : G[l] = F[q] /\ l = L + q
        BY <1>3, <2>8
      <3> QED
        BY <2>2, <3>1, <3>2
    <2> QED
      BY <2>5, <2>6, <2>7, <2>8
  <1>8. ASSUME NEW x \in Nat, n <= x, x < N, NEW j \in 1..H
        PROVE  \E k \in DOMAIN G : /\ k > L /\ G[k].key = "node" /\ G[k].at = Ancestor(x, j)
                                   /\ G[k].block = b
    <2>1. PICK r \in DOMAIN txs : x = n + r - 1
      <3>1. x - n + 1 \in DOMAIN txs /\ x = n + (x - n + 1) - 1
        BY <1>0, <1>8
      <3> QED
        BY <3>1
    <2>2. PICK i \in DOMAIN F : F[i].key = "node" /\ F[i].at = Ancestor(n + r - 1, j)
      BY <1>1 DEF BlockShape
    <2>3. F[i].block = b
      BY <1>1 DEF BlockShape
    <2> QED
      BY <1>3, <2>1, <2>2, <2>3
  <1>9. LeavesWritten(G, N)
    <2> SUFFICES ASSUME NEW x \in 0..(N - 1)
                 PROVE  \E k \in DOMAIN G : LeafNode(G[k]) /\ G[k].at[2] = x
      BY DEF LeavesWritten
    <2>1. CASE x < n
      <3>1. x \in 0..(n - 1)
        BY <1>0, <2>1
      <3> QED
        BY <1>3, <3>1, Zenon DEF ChainOK, LeavesWritten
    <2>2. CASE ~(x < n)
      <3>1. x \in Nat /\ n <= x /\ x < N
        BY <1>0, <2>2
      <3>2. PICK k \in DOMAIN G : G[k].key = "node" /\ G[k].at = <<H, x>>
        <4>1. Ancestor(x, 1) = <<H, x>> /\ 1 \in 1..H
          BY LeafIs, ChainParameters DEF H
        <4> QED
          BY <1>8, <3>1, <4>1
      <3> QED
        BY <3>2 DEF LeafNode
    <2> QED
      BY <2>1, <2>2
  <1>10. LeafEvents(G, N)
    <2> SUFFICES ASSUME NEW k \in DOMAIN G, LeafNode(G[k])
                 PROVE  /\ G[k].at[2] < N
                        /\ \A j \in 1..H : \E l \in DOMAIN G :
                             /\ G[l].key = "node" /\ G[l].block = G[k].block
                             /\ G[l].at = Ancestor(G[k].at[2], j)
                        /\ \E l \in DOMAIN G : G[l].key = "root" /\ G[l].block = G[k].block
      BY DEF LeafEvents
    <2>1. CASE k \in DOMAIN old
      <3>1. /\ old[k].at[2] < n
            /\ \A j \in 1..H : \E l \in DOMAIN old :
                 /\ old[l].key = "node" /\ old[l].block = old[k].block
                 /\ old[l].at = Ancestor(old[k].at[2], j)
            /\ \E l \in DOMAIN old : old[l].key = "root" /\ old[l].block = old[k].block
        BY <1>3, <2>1, SMTT(30) DEF ChainOK, LeafEvents
      <3>2. old[k].at[2] \in Nat
        BY <1>4, <1>5, <2>1
      <3>3. G[k] = old[k] /\ old[k].at[2] < N
        BY <1>0, <1>3, <2>1, <3>1, <3>2, SMTT(30)
      <3> QED
        BY <1>3, <3>1, <3>3, Zenon
    <2>2. CASE k \notin DOMAIN old
      <3>1. PICK i \in DOMAIN F : k = L + i /\ G[k] = F[i]
        BY <1>3, <2>2
      <3>2. PICK r \in DOMAIN txs, j \in 1..H : F[i].at = Ancestor(n + r - 1, j)
        BY <1>1, <3>1, Zenon DEF BlockShape, LeafNode
      <3>3. PICK x \in Nat : x = n + r - 1 /\ n <= x /\ x < N
        BY <1>0
      <3>4. G[k].at[2] = x
        <4>1. Ancestor(x, j)[1] = H
          BY <3>1, <3>2, <3>3 DEF LeafNode
        <4>2. Ancestor(x, j) = <<H, x>>
          BY <4>1, LeafIs, SMTT(30)
        <4> QED
          BY <3>1, <3>2, <3>3, <4>2
      <3>5. PICK l \in DOMAIN F : F[l].key = "root"
        BY <1>1, SMTT(30) DEF BlockShape
      <3>6. F[i].block = b /\ F[l].block = b
        BY <1>1, Zenon DEF BlockShape
      <3>7. \E q \in DOMAIN G : G[q].key = "root" /\ G[q].block = G[k].block
        BY <1>3, <3>1, <3>5, <3>6, SMTT(30)
      <3>8. ASSUME NEW m \in 1..H
            PROVE  \E q \in DOMAIN G : /\ G[q].key = "node" /\ G[q].block = G[k].block
                                       /\ G[q].at = Ancestor(G[k].at[2], m)
        BY <1>8, <3>1, <3>3, <3>4, <3>6
      <3> QED
        BY <3>3, <3>4, <3>7, <3>8, SMTT(30)
    <2> QED
      BY <2>1, <2>2
  <1>11. LastIsCurrent(G, N)
    <2> SUFFICES ASSUME NEW k \in DOMAIN G, G[k].key = "node"
                 PROVE  /\ G[k].at[1] \in 1..H
                        /\ (\A l \in DOMAIN G : G[l].key = "node" /\ G[l].at = G[k].at
                             => l <= k)
                             => G[k].val = Node(N, G[k].at)
      BY DEF LastIsCurrent
    <2>1. CASE k \in DOMAIN old
      <3>1. G[k] = old[k] /\ old[k].at[1] \in 1..H
        BY <1>3, <2>1, SMTT(30) DEF ChainOK, LastIsCurrent
      <3>2. ASSUME \A l \in DOMAIN G : G[l].key = "node" /\ G[l].at = G[k].at => l <= k
            PROVE  G[k].val = Node(N, G[k].at)
        <4>1. old[k].val = Node(n, old[k].at)
          <5>1. \A l \in DOMAIN old : old[l].key = "node" /\ old[l].at = old[k].at => l <= k
            BY <1>3, <3>2
          <5> QED
            BY <2>1, <3>1, <5>1 DEF ChainOK, LastIsCurrent
        <4>2. PICK d \in 0..H, y \in Nat : d < H /\ old[k].at = <<H - d, y>>
          <5>1. old[k].at = <<old[k].at[1], old[k].at[2]>> /\ old[k].at[2] \in Nat
            BY <1>4, <1>5, <2>1
          <5>2. PICK d \in 0..H : d < H /\ old[k].at[1] = H - d
            <6>1. H - old[k].at[1] \in 0..H /\ H - old[k].at[1] < H
                  /\ old[k].at[1] = H - (H - old[k].at[1])
              BY <1>0, <3>1
            <6> QED
              BY <6>1
          <5> QED
            BY <5>1, <5>2
        <4>3. ASSUME NEW x \in Nat, n <= x, x < N, Shifted(x, d) = y PROVE FALSE
          <5>1. PICK j \in 1..H : Ancestor(x, j) = old[k].at
            BY <4>2, <4>3, AncestorAt
          <5>2. PICK l \in DOMAIN G : l > L /\ G[l].key = "node" /\ G[l].at = G[k].at
            BY <1>8, <3>1, <4>3, <5>1
          <5>3. l <= k /\ k \in 1..L
            BY <1>3, <2>1, <3>2, <5>2
          <5> QED
            BY <1>3, <5>2, <5>3
        <4>4. Node(n, <<H - d, y>>) = Node(N, <<H - d, y>>)
          <5>1. N \in Nat /\ n <= N
            BY <1>0
          <5>2. \A x \in Nat : n <= x /\ x < N => Shifted(x, d) # y
            BY <4>3
          <5> HIDE DEF N
          <5> QED
            BY <1>0, <5>1, <5>2, NodeKept
        <4> QED
          BY <3>1, <4>1, <4>2, <4>4, SMTT(30)
      <3> QED
        BY <3>1, <3>2, SMTT(30)
    <2>2. CASE k \notin DOMAIN old
      <3>1. PICK i \in DOMAIN F : k = L + i /\ G[k] = F[i]
        BY <1>3, <2>2
      <3>2. G[k].at[1] \in 1..H
        <4>1. PICK r \in DOMAIN txs, j \in 1..H : F[i].at = Ancestor(n + r - 1, j)
          BY <1>1, <3>1, SMTT(30) DEF BlockShape
        <4>2. PICK x \in Nat : x = n + r - 1
          BY <1>0
        <4> QED
          BY <3>1, <4>1, <4>2, AncestorIs, SMTT(30)
      <3>3. ASSUME \A l \in DOMAIN G : G[l].key = "node" /\ G[l].at = G[k].at => l <= k
            PROVE  G[k].val = Node(N, G[k].at)
        <4>1. \A l \in DOMAIN F : F[l].key = "node" /\ F[l].at = F[i].at => l <= i
          <5> TAKE l \in DOMAIN F
          <5>1. L + l \in DOMAIN G /\ G[L + l] = F[l] /\ l \in Nat /\ i \in Nat
            BY <1>3, Zenon
          <5> QED
            BY <1>3, <3>1, <3>3, <5>1, SMTT(30)
        <4> QED
          BY <1>1, <3>1, <4>1, Zenon DEF BlockShape
      <3> QED
        BY <3>2, <3>3, SMTT(30)
    <2> QED
      BY <2>1, <2>2
  <1> QED
    BY <1>3, <1>6, <1>7, <1>9, <1>10, <1>11 DEF ChainOK, G, F

\* The contract's part of an action: nothing, or a block.
Grown ==
    /\ leaves' \in Nat /\ block' \in Nat /\ Len(events') \in Nat
    /\ leaves <= leaves'
    /\ Len(events) <= Len(events')
    /\ \A k \in DOMAIN events : k \in DOMAIN events' /\ events'[k] = events[k]
    /\ \A k \in DOMAIN events' :
         k \in DOMAIN events \/ (events'[k].block \in Nat /\ events'[k].block > block)
    /\ block <= block'

\* What the chain invariant says of the numbers and events of the chain.
LEMMA ChainFacts ==
    ASSUME ChainInv
    PROVE  /\ events \in Seq(Event) /\ leaves \in Nat /\ block \in Nat /\ H \in Nat
           /\ InitialLeaves <= leaves /\ InitialLeaves \in Nat /\ LeafIndex < InitialLeaves
           /\ Len(events) \in Nat /\ DOMAIN events = 1..Len(events)
           /\ \A k \in DOMAIN events :
                /\ events[k].block \in Nat /\ events[k].block <= block
                /\ events[k].at = <<events[k].at[1], events[k].at[2]>>
                /\ events[k].at[1] \in Nat /\ events[k].at[2] \in Nat
                /\ events[k].val \in Values
           /\ \A k, l \in DOMAIN events : k <= l => events[k].block <= events[l].block
  <1>1. events \in Seq(Event) /\ leaves \in Nat /\ block \in Nat /\ Sorted(events, block)
    BY DEF ChainInv, ChainOK
  <1>2. \A e \in Event : /\ e.block \in Nat /\ e.at = <<e.at[1], e.at[2]>>
                         /\ e.at[1] \in Nat /\ e.at[2] \in Nat /\ e.val \in Values
    BY DEF Event
  <1>3. /\ InitialLeaves <= leaves /\ InitialLeaves \in Nat /\ LeafIndex < InitialLeaves
             /\ H \in Nat
    BY ChainParameters DEF ChainInv, H
  <1>4. Len(events) \in Nat /\ DOMAIN events = 1..Len(events)
        /\ \A k \in DOMAIN events : events[k] \in Event
    BY <1>1
  <1> QED
    BY <1>1, <1>2, <1>3 DEF Sorted

\* The events of the leaves inserted before the relayer starts.
LEMMA InitChain ==
    ASSUME Init
    PROVE  ChainInv
  <1>0. InitialLeaves \in Nat /\ InitialLeaves \in InitialLeaves..Capacity
    BY ChainParameters
  <1> DEFINE txs == [k \in 1..InitialLeaves |-> NoNullifier]
  <1>1. txs \in Seq(Nullifiers \cup {NoNullifier}) /\ Len(txs) = InitialLeaves
        /\ \A r \in DOMAIN txs : txs[r] = NoNullifier
    BY <1>0
  <1> HIDE DEF txs
  <1>2. ChainOK(<<>> \o BlockEvents(txs, 0, 0), 0 + Len(txs), 0)
    <2>1. 0 \in Nat /\ 0 <= 0
      OBVIOUS
    <2>2. \A r \in DOMAIN txs : txs[r] # NoNullifier =>
            /\ \A k \in DOMAIN <<>> : <<>>[k].key = "spent" => <<>>[k].val # txs[r]
            /\ \A q \in DOMAIN txs : txs[q] = txs[r] => q = r
      BY <1>1, Zenon
    <2> QED
      BY <1>1, <2>1, EmptyChain, AppendBlock, Zenon
  <1>3. BlockEvents(txs, 0, 0) \in Seq(Event)
    BY <1>1, BlockEventsAre DEF BlockShape
  <1>4. <<>> \o BlockEvents(txs, 0, 0) = BlockEvents(txs, 0, 0)
    BY <1>3
  <1>5. ChainOK(events, leaves, 0)
    BY <1>0, <1>1, <1>2 DEF Init
  <1>6. ChainOK(events, leaves, 1)
    <2>1. \A k \in DOMAIN events : events[k].block \in Nat
      <3>1. \A e \in Event : e.block \in Nat
        BY DEF Event
      <3> QED
        BY <1>5, <3>1 DEF ChainOK
    <2>2. Sorted(events, 1)
      <3>1. \A k \in DOMAIN events : events[k].block <= 0
        BY <1>5, Zenon DEF ChainOK, Sorted
      <3>2. \A k \in DOMAIN events : events[k].block <= 1
        BY <2>1, <3>1
      <3> QED
        BY <1>5, <3>2, Zenon DEF ChainOK, Sorted
    <2>3. 1 \in Nat
      OBVIOUS
    <2> QED
      BY <1>5, <2>2, <2>3, Zenon DEF ChainOK
  <1> QED
    BY <1>0, <1>6 DEF Init, ChainInv

\* A block keeps the chain invariant and only adds events, all of a later
\* block.
LEMMA MineChain ==
    ASSUME ChainInv, NEW txs \in Blocks, MineBlock(txs)
    PROVE  ChainInv' /\ Grown
  <1>0. txs \in Seq(Nullifiers \cup {NoNullifier}) /\ Len(txs) \in Nat
    BY ChainParameters
  <1>1. events \in Seq(Event) /\ leaves \in Nat /\ block \in Nat /\ block + 1 \in Nat
        /\ leaves \in InitialLeaves..Capacity /\ ChainOK(events, leaves, block)
    BY DEF ChainInv, ChainOK
  <1>2. ASSUME NEW r \in DOMAIN txs, txs[r] # NoNullifier
        PROVE  /\ \A k \in DOMAIN events : events[k].key = "spent" => events[k].val # txs[r]
               /\ \A q \in DOMAIN txs : txs[q] = txs[r] => q = r
    BY <1>2, Zenon DEF MineBlock, Range
  <1> DEFINE F == BlockEvents(txs, leaves, block + 1)
  <1>3. ChainOK(events \o F, leaves + Len(txs), block + 1)
    BY <1>0, <1>1, <1>2, AppendBlock
  <1>4. BlockShape(F, txs, leaves, block + 1)
    BY <1>0, <1>1, BlockEventsAre, SMTT(30)
  <1>5. events' = events \o F /\ leaves' = leaves + Len(txs) /\ block' = block + 1
        /\ leaves + Len(txs) <= Capacity
    BY DEF MineBlock
  <1> HIDE DEF F
  <1>6. ChainInv'
    <2>1. leaves' \in InitialLeaves..Capacity
      BY <1>1, <1>5, ChainParameters
    <2> QED
      BY <1>3, <1>5, <2>1 DEF ChainInv
  <1>7. Grown
    <2>1. F \in Seq(Event) /\ \A i \in DOMAIN F : F[i].block = block + 1
      BY <1>4 DEF BlockShape
    <2>2. /\ Len(events) \in Nat
          /\ \A k \in DOMAIN events : k \in DOMAIN events' /\ events'[k] = events[k]
          /\ \A i \in DOMAIN F : events'[Len(events) + i] = F[i]
          /\ \A k \in DOMAIN events' :
               k \in DOMAIN events \/ \E i \in DOMAIN F : k = Len(events) + i
      <3>1. Concatenates(events', events, F)
        BY <1>1, <1>5, <2>1, Positions
      <3> QED
        BY <3>1, Zenon DEF Concatenates
    <2>3. Len(events') \in Nat /\ Len(events) <= Len(events')
      BY <1>5
    <2>4. \A k \in DOMAIN events' :
            k \in DOMAIN events \/ (events'[k].block \in Nat /\ events'[k].block > block)
      BY <1>1, <2>1, <2>2
    <2> QED
      BY <1>1, <1>5, <2>4 DEF Grown
  <1> QED
    BY <1>6, <1>7

\* A step that leaves the contract alone keeps the chain invariant.
LEMMA ChainKept ==
    ASSUME ChainInv, UNCHANGED chain
    PROVE  ChainInv' /\ Grown
  <1>1. ChainInv'
    BY DEF ChainInv, chain
  <1>2. leaves \in Nat /\ block \in Nat /\ Len(events) \in Nat
    BY ChainFacts
  <1> QED
    BY <1>1, <1>2 DEF Grown, chain

\* The events of the blocks before b are the first Before(b) events.
LEMMA BeforeIs ==
    ASSUME ChainInv, NEW b \in Nat
    PROVE  /\ Before(b) \in 0..Len(events)
           /\ \A k \in DOMAIN events : k <= Before(b) <=> events[k].block < b
  <1> DEFINE S == {k \in DOMAIN events : events[k].block < b}
             N == Len(events)
  <1>0. /\ N \in Nat /\ DOMAIN events = 1..N
        /\ \A k \in DOMAIN events : events[k].block \in Nat
        /\ \A k, l \in DOMAIN events : k <= l => events[k].block <= events[l].block
    BY ChainFacts
  <1>1. PICK j \in 0..N : S = 1..j
    <2>1. CASE S = {}
      <3>1. S = 1..0 /\ 0 \in 0..N
        BY <2>1
      <3> QED
        BY <3>1
    <2>2. CASE S # {}
      <3>0. S \in SUBSET (1..N)
        BY <1>0
      <3>1. PICK j \in 1..N : j \in S /\ \A y \in S : y <= j
        BY <1>0, <2>2, MaxIsGreatest, Zenon
      <3>2. ASSUME NEW y \in 1..j PROVE y \in S
        <4>1. y \in DOMAIN events /\ y <= j
          OBVIOUS
        <4> QED
          BY <1>0, <3>1
      <3>3. S = 1..j /\ j \in 0..N
        <4>1. j \in 0..N /\ \A y \in S : y \in 1..j
          BY <3>1
        <4> HIDE DEF S
        <4> QED
          BY <3>2, <4>1, Zenon
      <3> QED
        BY <3>3
    <2> QED
      BY <2>2
  <1>2. Cardinality(1..j) = j
    <2>1. j \in Int /\ 1 \in Int /\ j >= 0
      BY <1>0
    <2>2. Cardinality(1..j) = IF 1 > j THEN 0 ELSE j - 1 + 1
      BY <2>1, FS_Interval, Zenon
    <2> QED
      BY <2>2
  <1>3. Before(b) = j
    BY <1>1, <1>2, Zenon DEF Before
  <1> QED
    BY <1>1, <1>3

\* Later blocks do not move the events of the blocks before b.
LEMMA BeforeKept ==
    ASSUME ChainInv, Grown, NEW b \in Nat, b <= block
    PROVE  Before(b)' = Before(b)
  <1>1. block \in Nat
    BY ChainFacts
  <1>2. ASSUME NEW k \in DOMAIN events', k \notin DOMAIN events PROVE ~(events'[k].block < b)
    BY <1>1, <1>2 DEF Grown
  <1>3. {k \in DOMAIN events' : events'[k].block < b} = {k \in DOMAIN events : events[k].block < b}
    BY <1>2, SMTT(30) DEF Grown
  <1> QED
    BY <1>3, Zenon DEF Before

-----------------------------------------------------------------------------
(* Node changes                                                             *)

\* The leaves of the blocks up to b are below m.
Covers(ev, m, b) ==
    \A k \in DOMAIN ev : LeafNode(ev[k]) /\ ev[k].block <= b => ev[k].at[2] < m

\* Every sibling of the wallet's leaf had a leaf when the relayer started.
SiblingsWritten ==
    \A j \in 1..MERKLE_HEIGHT : \E n \in 0..(InitialLeaves - 1) :
        Ancestor(n, j) = compute_authentication_path_coords[j]

\* The current version of the tree covers every block.
LEMMA CoversAll ==
    ASSUME ChainInv, NEW b
    PROVE  Covers(events, leaves, b)
  BY DEF ChainInv, ChainOK, LeafEvents, Covers

\* A version goes on covering a block that has been mined.
LEMMA CoversKept ==
    ASSUME ChainInv, Grown, NEW m, NEW b \in Nat, b <= block, Covers(events, m, b)
    PROVE  Covers(events', m, b)
  <1>1. block \in Nat
    BY ChainFacts
  <1>2. ASSUME NEW k \in DOMAIN events', k \notin DOMAIN events PROVE ~(events'[k].block <= b)
    BY <1>1, <1>2 DEF Grown
  <1> QED
    BY <1>2 DEF Grown, Covers

\* The leaves of blocks before b are covered when their roots are of blocks
\* up to lb.
LEMMA CoversMore ==
    ASSUME ChainInv, NEW m, NEW lb \in Nat, NEW b \in Nat, Covers(events, m, lb),
           \A k \in DOMAIN events : events[k].key = "root" /\ events[k].block < b
                                      => events[k].block <= lb
    PROVE  Covers(events, m, b - 1)
  <1> SUFFICES ASSUME NEW k \in DOMAIN events, LeafNode(events[k]), events[k].block <= b - 1
               PROVE  events[k].at[2] < m
    BY DEF Covers
  <1>1. PICK l \in DOMAIN events : events[l].key = "root" /\ events[l].block = events[k].block
    BY Zenon DEF ChainInv, ChainOK, LeafEvents
  <1>2. events[k].block \in Nat
    BY ChainFacts
  <1>3. events[k].block <= lb
    BY <1>1, <1>2
  <1> QED
    BY <1>3 DEF Covers

\* All the leaves are covered when all the roots are of blocks up to lb.
LEMMA CoversEvery ==
    ASSUME ChainInv, NEW m \in Nat, m <= leaves, NEW lb \in Nat, Covers(events, m, lb),
           \A k \in DOMAIN events : events[k].key = "root" => events[k].block <= lb
    PROVE  m = leaves
  <1>0. leaves \in Nat
    BY ChainFacts
  <1> SUFFICES ASSUME m < leaves PROVE FALSE
    BY <1>0
  <1>1. m \in 0..(leaves - 1)
    BY <1>0
  <1>2. PICK k \in DOMAIN events : LeafNode(events[k]) /\ events[k].at[2] = m
    BY SMTT(30) DEF ChainInv, ChainOK, LeavesWritten
  <1>3. PICK l \in DOMAIN events : events[l].key = "root" /\ events[l].block = events[k].block
    BY <1>2 DEF ChainInv, ChainOK, LeafEvents
  <1>4. m < m
    BY <1>2, <1>3 DEF Covers
  <1> QED
    BY <1>4

\* NodeChanges holds, for each node changed from block b on, its current
\* value.
LEMMA NodeChangesAre ==
    ASSUME ChainInv, NEW b \in Nat
    PROVE  /\ DOMAIN NodeChanges(b) = {events[k].at : k \in NodeEvents(b)}
           /\ \A c \in DOMAIN NodeChanges(b) : NodeChanges(b)[c] = Node(leaves, c)
  <1> DEFINE ks == NodeEvents(b)
             D == {events[k].at : k \in ks}
  <1>0. /\ Len(events) \in Nat /\ DOMAIN events = 1..Len(events)
        /\ \A k \in DOMAIN events : events[k].block \in Nat
        /\ \A k, l \in DOMAIN events : k <= l => events[k].block <= events[l].block
    BY ChainFacts
  <1>1. NodeChanges(b) = [c \in D |-> LastChange(c, ks)]
    BY DEF NodeChanges
  <1>2. ASSUME NEW c \in D PROVE LastChange(c, ks) = Node(leaves, c)
    <2>1. At(c, ks) # {} /\ At(c, ks) \in SUBSET (1..Len(events))
      BY DEF At, NodeEvents
    <2>2. PICK k \in At(c, ks) : k = Max(At(c, ks)) /\ \A l \in At(c, ks) : l <= k
      BY <1>0, <2>1, MaxIsGreatest, Zenon
    <2>3. k \in DOMAIN events /\ events[k].key = "node" /\ events[k].block >= b
          /\ events[k].at = c
      BY DEF At, NodeEvents
    <2>4. ASSUME NEW l \in DOMAIN events, events[l].key = "node", events[l].at = c PROVE l <= k
      <3>1. CASE events[l].block >= b
        BY <2>2, <2>4, <3>1 DEF At, NodeEvents
      <3>2. CASE ~(events[l].block >= b)
        <4>1. ~(k <= l)
          BY <1>0, <2>3, <3>2
        <4> QED
          BY <1>0, <2>3, <4>1
      <3> QED
        BY <3>1, <3>2
    <2>5. events[k].val = Node(leaves, c)
      BY <2>3, <2>4, Zenon DEF ChainInv, ChainOK, LastIsCurrent
    <2> QED
      BY <2>2, <2>5 DEF LastChange
  <1> HIDE DEF ks, D
  <1>3. DOMAIN NodeChanges(b) = D /\ \A c \in D : NodeChanges(b)[c] = LastChange(c, ks)
    BY <1>1
  <1> QED
    BY <1>2, <1>3 DEF D, ks

\* A path that is of a version m covering the blocks before b is brought up to
\* date by the node changes from block b on.
LEMMA UpdateIs ==
    ASSUME ChainInv, NEW b \in Nat, NEW m \in Nat, m <= leaves, Covers(events, m, b - 1)
    PROVE  update_wallet_merkle_path(Path(m), NodeChanges(b)) = Path(leaves)
  <1>0. leaves \in Nat /\ H \in Nat /\ H = MERKLE_HEIGHT
    BY ChainFacts DEF H
  <1> DEFINE U == update_wallet_merkle_path(Path(m), NodeChanges(b))
             C == compute_authentication_path_coords
  <1>1. ASSUME NEW j \in 1..MERKLE_HEIGHT PROVE U[j] = Node(leaves, C[j])
    <2>1. U[j] = IF C[j] \in DOMAIN NodeChanges(b) THEN NodeChanges(b)[C[j]] ELSE Path(m)[j]
      BY DEF update_wallet_merkle_path
    <2>2. CASE C[j] \in DOMAIN NodeChanges(b)
      BY <2>1, <2>2, NodeChangesAre, Zenon
    <2>3. CASE C[j] \notin DOMAIN NodeChanges(b)
      <3>1. U[j] = Node(m, C[j])
        BY <2>1, <2>3 DEF Path
      <3>2. PICK d \in 0..H, y \in Nat : d < H /\ C[j] = <<H - d, y>>
        <4>1. j \in 1..H /\ j - 1 < H
          BY <1>0
        <4> QED
          BY <4>1, SiblingIs
      <3>3. ASSUME NEW x \in Nat, m <= x, x < leaves, Shifted(x, d) = y PROVE FALSE
        <4>1. PICK i \in 1..H : Ancestor(x, i) = C[j]
          BY <3>2, <3>3, AncestorAt
        <4>2. x \in 0..(leaves - 1)
          BY <1>0, <3>3
        <4>3. PICK k \in DOMAIN events : LeafNode(events[k]) /\ events[k].at[2] = x
          BY <4>2 DEF ChainInv, ChainOK, LeavesWritten
        <4>4. PICK l \in DOMAIN events : /\ events[l].key = "node"
                                         /\ events[l].block = events[k].block
                                         /\ events[l].at = Ancestor(x, i)
          BY <4>3, Zenon DEF ChainInv, ChainOK, LeafEvents
        <4>5. events[k].block \in Nat
          BY ChainFacts
        <4>6. ~(events[k].block <= b - 1)
          BY <3>3, <4>3 DEF Covers
        <4>7. l \in NodeEvents(b) /\ events[l].at = C[j]
          BY <4>1, <4>4, <4>5, <4>6 DEF NodeEvents
        <4> QED
          BY <2>3, <4>7, NodeChangesAre, Zenon
      <3>4. Node(m, <<H - d, y>>) = Node(leaves, <<H - d, y>>)
        <4>1. \A x \in Nat : m <= x /\ x < leaves => Shifted(x, d) # y
          BY <3>3
        <4> QED
          BY <1>0, <4>1, NodeKept
      <3> QED
        BY <3>1, <3>2, <3>4
    <2> QED
      BY <2>2, <2>3, Zenon
  <1>2. U = [j \in 1..MERKLE_HEIGHT |-> U[j]]
    BY DEF update_wallet_merkle_path
  <1> HIDE DEF U
  <1>3. U = [j \in 1..MERKLE_HEIGHT |-> Node(leaves, C[j])]
    BY <1>1, <1>2
  <1> QED
    BY <1>3 DEF U, Path

\* The startup thread's path is that of the tree it has scanned.
LEMMA ScanIs ==
    ASSUME ChainInv, SiblingsWritten
    PROVE  build_merkle_authentication_path = Path(leaves)
  <1>0. leaves \in Nat /\ H \in Nat /\ H = MERKLE_HEIGHT /\ InitialLeaves \in Nat
        /\ InitialLeaves <= leaves
    BY ChainFacts DEF H
  <1> DEFINE U == build_merkle_authentication_path
             C == compute_authentication_path_coords
  <1>1. ASSUME NEW j \in 1..MERKLE_HEIGHT PROVE U[j] = Node(leaves, C[j])
    <2>1. PICK x \in 0..(InitialLeaves - 1) : Ancestor(x, j) = C[j]
      BY DEF SiblingsWritten
    <2>2. x \in 0..(leaves - 1)
      BY <1>0
    <2>3. PICK k \in DOMAIN events : LeafNode(events[k]) /\ events[k].at[2] = x
      BY <2>2, SMTT(30) DEF ChainInv, ChainOK, LeavesWritten
    <2>4. PICK l \in DOMAIN events : events[l].key = "node" /\ events[l].at = Ancestor(x, j)
      BY <1>0, <2>3 DEF ChainInv, ChainOK, LeafEvents
    <2>5. events[l].block >= 0
      BY ChainFacts
    <2>6. l \in NodeEvents(0)
      BY <2>4, <2>5 DEF NodeEvents
    <2>7. C[j] \in DOMAIN NodeChanges(0) /\ 0 \in Nat
      BY <2>1, <2>4, <2>6, NodeChangesAre, Zenon
    <2>8. U[j] = NodeChanges(0)[C[j]]
      BY <2>7 DEF build_merkle_authentication_path, update_wallet_merkle_path
    <2> QED
      BY <2>7, <2>8, NodeChangesAre, Zenon
  <1>2. U = [j \in 1..MERKLE_HEIGHT |-> U[j]]
    BY DEF build_merkle_authentication_path, update_wallet_merkle_path
  <1> HIDE DEF U
  <1>3. U = [j \in 1..MERKLE_HEIGHT |-> Node(leaves, C[j])]
    BY <1>1, <1>2
  <1> QED
    BY <1>3 DEF U, Path
=============================================================================
