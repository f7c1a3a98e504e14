------------------------- MODULE ProjectionsProofs -------------------------
(***************************************************************************)
(* Theorems about Projections, for any transactions, months, amounts and   *)
(* currencies.  The sums of the model are folds, and what a fold computes  *)
(* is an induction over a finite set: SubsetInduction states that with a   *)
(* set of the subsets that have the property.                              *)
(***************************************************************************)
EXTENDS Projections, FiniteSetTheorems, WellFoundedInduction, TLAPS

(* Induction over the subsets of a finite set, with a set for the predicate.     *)
LEMMA SubsetInduction ==
    ASSUME NEW U, IsFiniteSet(U), NEW P,
           \A s \in SUBSET U : (\A t \in SUBSET s : t # s => t \in P) => s \in P
    PROVE  SUBSET U \subseteq P
<1> DEFINE T == (SUBSET U) \ P
<1>1. SUFFICES ASSUME T # {} PROVE FALSE
    OBVIOUS
<1>2. IsWellFoundedOn(StrictSubsetOrdering(U), SUBSET U)
    BY FS_StrictSubsetOrderingWellFounded, FS_FiniteSubsetsOfFinite
<1>3. T \subseteq SUBSET U
    OBVIOUS
<1>4. \E s \in T : \A t \in T : ~(<<t, s>> \in StrictSubsetOrdering(U))
    <2> HIDE DEF T
    <2>1. QED BY <1>1, <1>2, <1>3, WFMin
<1>5. PICK s \in T : \A t \in T : ~(<<t, s>> \in StrictSubsetOrdering(U))
    BY <1>4
<1>6. \A t \in SUBSET s : t # s => t \in P
    BY <1>5 DEF StrictSubsetOrdering
<1>7. QED BY <1>6

LEMMA SubsetGrowth ==
    ASSUME NEW U, IsFiniteSet(U), NEW P, {} \in P,
           \A s \in SUBSET U, x \in U : s \in P /\ x \notin s => s \cup {x} \in P
    PROVE  SUBSET U \subseteq P
<1>1. ASSUME NEW s \in SUBSET U, \A t \in SUBSET s : t # s => t \in P, s # {}
      PROVE  s \in P
    <2>1. PICK x \in s : TRUE
        BY <1>1
    <2>2. s \ {x} \in P /\ (s \ {x}) \cup {x} = s
        BY <1>1, <2>1
    <2>3. (s \ {x}) \cup {x} \in P
        BY <2>2
    <2>4. QED BY <2>2, <2>3
<1>2. \A s \in SUBSET U : (\A t \in SUBSET s : t # s => t \in P) => s \in P
    BY <1>1
<1>3. QED BY <1>2, SubsetInduction

(* The least of some natural numbers, and induction over them, with a set.       *)
LEMMA LeastNat ==
    ASSUME NEW T \in SUBSET Nat, T # {}
    PROVE  \E n \in T : \A m \in T : n <= m
<1>1. \A m, n \in Nat : <<m, n>> \in OpToRel(<, Nat) <=> m < n
    BY DEF OpToRel
<1>2. PICK n \in T : \A m \in T : ~(<<m, n>> \in OpToRel(<, Nat))
    BY NatLessThanWellFounded, WFMin
<1>3. \A m \in T : m \in Nat
    OBVIOUS
<1>4. ASSUME NEW m \in T PROVE n <= m
    <2>1. ~(m < n) /\ m \in Nat /\ n \in Nat
        BY <1>1, <1>2
    <2>2. QED BY <2>1
<1>5. QED BY <1>4

LEMMA NatSetInduction ==
    ASSUME NEW P, 0 \in P, \A n \in Nat : n \in P => n + 1 \in P
    PROVE  Nat \subseteq P
<1>1. SUFFICES ASSUME Nat \ P # {} PROVE FALSE
    OBVIOUS
<1>2. PICK n \in Nat \ P : \A m \in Nat \ P : n <= m
    BY <1>1, LeastNat
<1>3. n - 1 \in Nat /\ n = (n - 1) + 1
    BY <1>2
<1>4. QED BY <1>2, <1>3

(* The function that the fold of a sum is defined by.                            *)
Pick(s) == CHOOSE x \in s : TRUE
FoldStep(g, f, s) == IF s = {} THEN 0 ELSE f[Pick(s)] + g[s \ {Pick(s)}]
IsFold(g, f, U) == g = [s \in SUBSET U |-> FoldStep(g, f, s)]

LEMMA FoldIs ==
    ASSUME NEW f, NEW U
    PROVE  SumFunctionOnSet(f, U) = (CHOOSE g : IsFold(g, f, U))[U]
BY DEF SumFunctionOnSet, FoldFunctionOnSet, MapThenFoldSet, IsFold, FoldStep, Pick

LEMMA FoldExists ==
    ASSUME NEW f, NEW U, IsFiniteSet(U), \A x \in U : f[x] \in Int
    PROVE  \E g : IsFold(g, f, U)
<1> DEFINE Below(n) == {g \in [SUBSET U -> Int] : \A s \in SUBSET U :
                            Cardinality(s) < n => g[s] = FoldStep(g, f, s)}
           P == {n \in Nat : Below(n) # {}}
<1>1. \A s \in SUBSET U : Cardinality(s) \in Nat
    BY FS_CardinalityType, FS_Subset
<1>2. \A s \in SUBSET U : s # {} =>
        Pick(s) \in s /\ s \ {Pick(s)} \in SUBSET U /\ Cardinality(s \ {Pick(s)}) = Cardinality(s) - 1
    <2>1. SUFFICES ASSUME NEW s \in SUBSET U, s # {}
                   PROVE  /\ Pick(s) \in s /\ s \ {Pick(s)} \in SUBSET U
                          /\ Cardinality(s \ {Pick(s)}) = Cardinality(s) - 1
        OBVIOUS
    <2>2. Pick(s) \in s
        BY <2>1 DEF Pick
    <2>3. IsFiniteSet(s)
        BY FS_Subset
    <2>4. QED BY <2>2, <2>3, FS_RemoveElement
<1>3. 0 \in P
    <2>1. [s \in SUBSET U |-> 0] \in Below(0)
        BY <1>1
    <2>2. QED BY <2>1
<1>4. ASSUME NEW n \in Nat, n \in P
      PROVE  n + 1 \in P
    <2>1. PICK g \in Below(n) : TRUE
        BY <1>4
    <2> DEFINE h == [s \in SUBSET U |-> IF Cardinality(s) < n + 1 THEN FoldStep(g, f, s) ELSE g[s]]
    <2>2. g \in [SUBSET U -> Int] /\ \A s \in SUBSET U : Cardinality(s) < n => g[s] = FoldStep(g, f, s)
        BY <2>1
    <2>3. \A s \in SUBSET U : FoldStep(g, f, s) \in Int
        <3>1. \A s \in SUBSET U : g[s] \in Int
            BY <2>2
        <3>2. ASSUME NEW s \in SUBSET U, s # {} PROVE FoldStep(g, f, s) \in Int
            <4>1. Pick(s) \in U /\ s \ {Pick(s)} \in SUBSET U
                BY <1>2, <3>2
            <4>2. f[Pick(s)] \in Int /\ g[s \ {Pick(s)}] \in Int
                BY <3>1, <4>1
            <4>3. QED BY <3>2, <4>2 DEF FoldStep
        <3>3. FoldStep(g, f, {}) \in Int
            BY DEF FoldStep
        <3>4. QED BY <3>2, <3>3
    <2>4. h \in [SUBSET U -> Int]
        BY <2>2, <2>3
    <2>5. \A s \in SUBSET U : Cardinality(s) < n => h[s] = g[s]
        BY <1>1, <2>2
    <2>6. ASSUME NEW s \in SUBSET U, Cardinality(s) < n + 1
          PROVE  h[s] = FoldStep(h, f, s)
        <3>1. h[s] = FoldStep(g, f, s)
            BY <2>6
        <3>2. CASE s = {}
            BY <3>1, <3>2 DEF FoldStep
        <3>3. CASE s # {}
            <4>1. /\ s \ {Pick(s)} \in SUBSET U
                  /\ Cardinality(s \ {Pick(s)}) < n
                BY <1>1, <1>2, <2>6, <3>3
            <4>2. h[s \ {Pick(s)}] = g[s \ {Pick(s)}]
                BY <2>5, <4>1
            <4> HIDE DEF h
            <4>3. QED BY <3>1, <3>3, <4>2 DEF FoldStep
        <3>4. QED BY <3>2, <3>3
    <2>7. h \in Below(n + 1)
        <3> HIDE DEF h
        <3>1. QED BY <2>4, <2>6
    <2>8. Below(n + 1) # {} /\ n + 1 \in Nat
        <3> HIDE DEF Below
        <3>1. QED BY <2>7
    <2>9. QED
        <3> HIDE DEF Below
        <3>1. QED BY <2>8
<1>5. Nat \subseteq P
    <2> HIDE DEF P
    <2>1. QED BY <1>3, <1>4, NatSetInduction
<1>6. Cardinality(U) + 1 \in P
    <2>1. Cardinality(U) \in Nat
        BY FS_CardinalityType
    <2>2. Cardinality(U) + 1 \in Nat
        BY <2>1
    <2> HIDE DEF P
    <2>3. QED BY <1>5, <2>2
<1>7. PICK g \in [SUBSET U -> Int] :
        \A s \in SUBSET U : Cardinality(s) < Cardinality(U) + 1 => g[s] = FoldStep(g, f, s)
    BY <1>6
<1>8. \A s \in SUBSET U : Cardinality(s) < Cardinality(U) + 1
    BY <1>1, FS_Subset
<1>9. QED BY <1>7, <1>8 DEF IsFold

(* Whatever element is picked, it can be taken out first.                        *)
LEMMA FoldAdds ==
    ASSUME NEW f, NEW U, IsFiniteSet(U), \A x \in U : f[x] \in Int, NEW g, IsFold(g, f, U)
    PROVE  \A s \in SUBSET U : g[s] \in Int /\ \A x \in s : g[s] = f[x] + g[s \ {x}]
<1> DEFINE P == {s \in SUBSET U : g[s] \in Int /\ \A x \in s : g[s] = f[x] + g[s \ {x}]}
<1>1. ASSUME NEW s \in SUBSET U, \A t \in SUBSET s : t # s => t \in P
      PROVE  s \in P
    <2>1. g[s] = FoldStep(g, f, s)
        BY DEF IsFold
    <2>2. CASE s = {}
        BY <2>1, <2>2 DEF FoldStep
    <2>3. CASE s # {}
        <3> DEFINE c == Pick(s)
        <3>1. c \in s
            BY <2>3 DEF Pick
        <3>2. g[s] = f[c] + g[s \ {c}]
            BY <2>1, <2>3 DEF FoldStep
        <3> HIDE DEF c
        <3>3. \A x \in s : s \ {x} \in P
            BY <1>1
        <3>4. g[s] \in Int
            BY <3>1, <3>2, <3>3
        <3>5. ASSUME NEW x \in s, x # c
              PROVE  g[s] = f[x] + g[s \ {x}]
            <4>1. g[s \ {c}] = f[x] + g[(s \ {c}) \ {x}]
                BY <3>1, <3>3, <3>5
            <4>2. g[s \ {x}] = f[c] + g[(s \ {x}) \ {c}]
                BY <3>1, <3>3, <3>5
            <4>3. (s \ {c}) \ {x} = (s \ {x}) \ {c}
                OBVIOUS
            <4>4. (s \ {c}) \ {x} \in P
                BY <1>1, <3>1
            <4>5. g[(s \ {c}) \ {x}] \in Int /\ f[x] \in Int /\ f[c] \in Int
                BY <3>1, <4>4
            <4>6. g[s] = f[c] + (f[x] + g[(s \ {c}) \ {x}])
                BY <3>2, <4>1
            <4>7. g[s \ {x}] = f[c] + g[(s \ {c}) \ {x}]
                BY <4>2, <4>3
            <4> DEFINE r == g[(s \ {c}) \ {x}]
                       a == f[c]
                       b == f[x]
            <4>8. r \in Int /\ a \in Int /\ b \in Int
                BY <4>5
            <4>9. g[s] = a + (b + r) /\ g[s \ {x}] = a + r
                BY <4>6, <4>7
            <4>10. f[x] = b
                OBVIOUS
            <4> HIDE DEF r, a, b
            <4>11. QED BY <4>8, <4>9, <4>10
        <3>6. QED BY <3>2, <3>4, <3>5
    <2>4. QED BY <2>2, <2>3
<1>2. SUBSET U \subseteq P
    <2> HIDE DEF P
    <2>1. QED BY <1>1, SubsetInduction
<1>3. QED BY <1>2

(* The fold of a part of a set is the part of the fold.                          *)
LEMMA SumFold ==
    ASSUME NEW f, NEW U, IsFiniteSet(U), \A x \in U : f[x] \in Int, NEW g, IsFold(g, f, U),
           NEW S \in SUBSET U
    PROVE  SumFunctionOnSet(f, S) = g[S]
<1>1. IsFiniteSet(S) /\ \A x \in S : f[x] \in Int
    BY FS_Subset
<1>2. \E h : IsFold(h, f, S)
    BY <1>1, FoldExists
<1> DEFINE h == CHOOSE h : IsFold(h, f, S)
<1>3. IsFold(h, f, S)
    BY <1>2
<1>4. SumFunctionOnSet(f, S) = h[S]
    BY FoldIs
<1> HIDE DEF h
<1> DEFINE P == {s \in SUBSET S : h[s] = g[s]}
<1>5. {} \in P
    BY <1>3 DEF IsFold, FoldStep
<1>6. ASSUME NEW s \in SUBSET S, NEW x \in S, s \in P, x \notin s
      PROVE  s \cup {x} \in P
    <2>1. s \cup {x} \in SUBSET S /\ x \in s \cup {x} /\ (s \cup {x}) \ {x} = s
        BY <1>6
    <2>2. h[s \cup {x}] = f[x] + h[s]
        BY <1>1, <1>3, <2>1, FoldAdds
    <2>3. g[s \cup {x}] = f[x] + g[s]
        BY <2>1, FoldAdds
    <2>4. QED BY <1>6, <2>1, <2>2, <2>3
<1>7. SUBSET S \subseteq P
    <2> HIDE DEF P
    <2>1. QED BY <1>1, <1>5, <1>6, SubsetGrowth
<1>8. QED BY <1>4, <1>7

(* Sums: of nothing, and with one element taken out or put in.                   *)
LEMMA SumEmpty == ASSUME NEW f PROVE SumFunctionOnSet(f, {}) = 0
<1>1. IsFiniteSet({})
    BY FS_EmptySet
<1>2. PICK g : IsFold(g, f, {})
    BY <1>1, FoldExists
<1>3. g[{}] = 0
    BY <1>2 DEF IsFold, FoldStep
<1>4. QED BY <1>1, <1>2, <1>3, SumFold

LEMMA SumType ==
    ASSUME NEW f, NEW S, IsFiniteSet(S), \A x \in S : f[x] \in Int
    PROVE  SumFunctionOnSet(f, S) \in Int
<1>1. PICK g : IsFold(g, f, S)
    BY FoldExists
<1>2. g[S] \in Int
    BY <1>1, FoldAdds
<1>3. QED BY <1>1, <1>2, SumFold

LEMMA SumRemove ==
    ASSUME NEW f, NEW S, IsFiniteSet(S), \A x \in S : f[x] \in Int, NEW x \in S
    PROVE  SumFunctionOnSet(f, S) = f[x] + SumFunctionOnSet(f, S \ {x})
<1>1. PICK g : IsFold(g, f, S)
    BY FoldExists
<1>2. g[S] = f[x] + g[S \ {x}]
    BY <1>1, FoldAdds
<1>3. SumFunctionOnSet(f, S) = g[S] /\ SumFunctionOnSet(f, S \ {x}) = g[S \ {x}]
    BY <1>1, SumFold
<1>4. QED BY <1>2, <1>3

LEMMA SumInsert ==
    ASSUME NEW f, NEW S, IsFiniteSet(S), NEW x, x \notin S, \A y \in S \cup {x} : f[y] \in Int
    PROVE  SumFunctionOnSet(f, S \cup {x}) = f[x] + SumFunctionOnSet(f, S)
<1>1. IsFiniteSet(S \cup {x}) /\ x \in S \cup {x} /\ (S \cup {x}) \ {x} = S
    BY FS_AddElement
<1>2. QED BY <1>1, SumRemove

LEMMA SumCongruent ==
    ASSUME NEW f, NEW g, NEW S, IsFiniteSet(S), \A x \in S : f[x] \in Int /\ f[x] = g[x]
    PROVE  SumFunctionOnSet(f, S) = SumFunctionOnSet(g, S)
<1> DEFINE P == {s \in SUBSET S : SumFunctionOnSet(f, s) = SumFunctionOnSet(g, s)}
<1>1. {} \in P
    BY SumEmpty
<1>2. ASSUME NEW s \in SUBSET S, NEW x \in S, s \in P, x \notin s
      PROVE  s \cup {x} \in P
    <2>1. IsFiniteSet(s) /\ \A y \in s \cup {x} : f[y] \in Int /\ g[y] \in Int
        BY FS_Subset
    <2>2. /\ SumFunctionOnSet(f, s \cup {x}) = f[x] + SumFunctionOnSet(f, s)
          /\ SumFunctionOnSet(g, s \cup {x}) = g[x] + SumFunctionOnSet(g, s)
        BY <1>2, <2>1, SumInsert
    <2>3. QED BY <1>2, <2>2
<1>3. SUBSET S \subseteq P
    <2> HIDE DEF P
    <2>1. QED BY <1>1, <1>2, SubsetGrowth
<1>4. QED BY <1>3

LEMMA SumUnion ==
    ASSUME NEW f, NEW A, NEW B, IsFiniteSet(A), IsFiniteSet(B), A \cap B = {},
           \A x \in A \cup B : f[x] \in Int
    PROVE  SumFunctionOnSet(f, A \cup B) = SumFunctionOnSet(f, A) + SumFunctionOnSet(f, B)
<1> DEFINE P == {s \in SUBSET B : SumFunctionOnSet(f, A \cup s) = SumFunctionOnSet(f, A) + SumFunctionOnSet(f, s)}
<1>1. {} \in P
    <2>1. A \cup {} = A /\ SumFunctionOnSet(f, {}) = 0 /\ SumFunctionOnSet(f, A) \in Int
        BY SumEmpty, SumType
    <2>2. QED BY <2>1
<1>2. ASSUME NEW s \in SUBSET B, NEW x \in B, s \in P, x \notin s
      PROVE  s \cup {x} \in P
    <2>1. IsFiniteSet(s) /\ IsFiniteSet(A \cup s) /\ x \notin A \cup s
        BY <1>2, FS_Subset, FS_Union
    <2>2. A \cup (s \cup {x}) = (A \cup s) \cup {x}
        OBVIOUS
    <2>3. /\ SumFunctionOnSet(f, (A \cup s) \cup {x}) = f[x] + SumFunctionOnSet(f, A \cup s)
          /\ SumFunctionOnSet(f, s \cup {x}) = f[x] + SumFunctionOnSet(f, s)
        BY <1>2, <2>1, SumInsert
    <2>4. SumFunctionOnSet(f, A) \in Int /\ SumFunctionOnSet(f, s) \in Int /\ f[x] \in Int
        BY <2>1, SumType
    <2>5. SumFunctionOnSet(f, A \cup s) = SumFunctionOnSet(f, A) + SumFunctionOnSet(f, s)
        BY <1>2
    <2>6. SumFunctionOnSet(f, A \cup (s \cup {x})) = SumFunctionOnSet(f, A) + SumFunctionOnSet(f, s \cup {x})
        <3> DEFINE a == SumFunctionOnSet(f, A)
                   b == SumFunctionOnSet(f, s)
                   c == f[x]
        <3>1. SumFunctionOnSet(f, A \cup (s \cup {x})) = c + (a + b)
            BY <2>2, <2>3, <2>5
        <3>2. SumFunctionOnSet(f, s \cup {x}) = c + b
            BY <2>3
        <3>3. a \in Int /\ b \in Int /\ c \in Int /\ a = SumFunctionOnSet(f, A)
            BY <2>4
        <3> HIDE DEF a, b, c
        <3>4. QED BY <3>1, <3>2, <3>3
    <2>7. s \cup {x} \in SUBSET B
        BY <1>2
    <2>8. QED BY <2>6, <2>7
<1>3. SUBSET B \subseteq P
    <2> HIDE DEF P
    <2>1. \A s \in SUBSET B, x \in B : s \in P /\ x \notin s => s \cup {x} \in P
        BY <1>2
    <2>2. IsFiniteSet(B) /\ {} \in P
        BY <1>1
    <2>3. QED BY ONLY <2>1, <2>2, SubsetGrowth
<1>4. B \in P
    BY <1>3
<1>5. QED BY <1>4

(* A sum by groups is the sum.                                                   *)
LEMMA SumGroups ==
    ASSUME NEW f, NEW S, IsFiniteSet(S), \A x \in S : f[x] \in Int, NEW key,
           NEW K, IsFiniteSet(K), \A x \in S : key[x] \in K
    PROVE  SumFunctionOnSet([k \in K |-> SumFunctionOnSet(f, {x \in S : key[x] = k})], K)
             = SumFunctionOnSet(f, S)
<1> DEFINE group(k) == {x \in S : key[x] = k}
           of(L) == {x \in S : key[x] \in L}
           totals == [k \in K |-> SumFunctionOnSet(f, group(k))]
           P == {L \in SUBSET K : SumFunctionOnSet(totals, L) = SumFunctionOnSet(f, of(L))}
<1>1. \A L : IsFiniteSet(of(L))
    BY FS_Subset
<1>2. \A k \in K : IsFiniteSet(group(k)) /\ totals[k] = SumFunctionOnSet(f, group(k)) /\ totals[k] \in Int
    <2>1. ASSUME NEW k \in K PROVE IsFiniteSet(group(k)) /\ SumFunctionOnSet(f, group(k)) \in Int
        <3>1. IsFiniteSet(group(k))
            BY FS_Subset
        <3>2. \A x \in group(k) : f[x] \in Int
            OBVIOUS
        <3> HIDE DEF group
        <3>3. QED BY <3>1, <3>2, SumType
    <2>2. QED BY <2>1
<1>3. {} \in P
    <2>1. of({}) = {}
        OBVIOUS
    <2>2. SumFunctionOnSet(totals, {}) = SumFunctionOnSet(f, of({}))
        BY <2>1, SumEmpty
    <2>3. QED BY <2>2
<1>4. ASSUME NEW L \in SUBSET K, NEW k \in K, L \in P, k \notin L
      PROVE  L \cup {k} \in P
    <2>1. /\ of(L \cup {k}) = of(L) \cup group(k) /\ of(L) \cap group(k) = {}
          /\ \A x \in of(L) \cup group(k) : f[x] \in Int
        BY <1>4
    <2>2. IsFiniteSet(L) /\ \A l \in L \cup {k} : totals[l] \in Int
        BY <1>2, FS_Subset
    <2>3. SumFunctionOnSet(totals, L) = SumFunctionOnSet(f, of(L))
        BY <1>4
    <2>4. totals[k] = SumFunctionOnSet(f, group(k)) /\ IsFiniteSet(group(k)) /\ IsFiniteSet(of(L))
        BY <1>1, <1>2
    <2>5. SumFunctionOnSet(f, of(L)) \in Int /\ totals[k] \in Int
        <3>1. \A x \in of(L) : f[x] \in Int
            OBVIOUS
        <3> HIDE DEF of, group, totals
        <3>2. QED BY <1>2, <2>4, <3>1, SumType
    <2>6. SumFunctionOnSet(totals, L \cup {k}) = SumFunctionOnSet(f, of(L \cup {k}))
        <3> HIDE DEF of, group, totals
        <3>1. SumFunctionOnSet(totals, L \cup {k}) = totals[k] + SumFunctionOnSet(totals, L)
            BY <1>4, <2>2, SumInsert
        <3>2. SumFunctionOnSet(f, of(L) \cup group(k)) = SumFunctionOnSet(f, of(L)) + SumFunctionOnSet(f, group(k))
            BY <2>1, <2>4, SumUnion
        <3> DEFINE a == SumFunctionOnSet(f, of(L))
                   b == totals[k]
        <3>3. SumFunctionOnSet(totals, L \cup {k}) = b + a
            BY <2>3, <3>1
        <3>4. SumFunctionOnSet(f, of(L \cup {k})) = a + b
            BY <2>1, <2>4, <3>2
        <3>5. a \in Int /\ b \in Int
            BY <2>5
        <3> HIDE DEF a, b
        <3>6. QED BY <3>3, <3>4, <3>5
    <2>7. QED BY <2>6
<1>5. SUBSET K \subseteq P
    <2> HIDE DEF P
    <2>1. QED BY <1>3, <1>4, SubsetGrowth
<1>6. of(K) = S
    OBVIOUS
<1>7. K \in P
    BY <1>5
<1>8. QED BY <1>6, <1>7

(* Sums of what is at least zero, and of a part.                                 *)
LEMMA SumNat ==
    ASSUME NEW f, NEW S, IsFiniteSet(S), \A x \in S : f[x] \in Nat
    PROVE  SumFunctionOnSet(f, S) \in Nat
<1> DEFINE P == {s \in SUBSET S : SumFunctionOnSet(f, s) \in Nat}
<1>1. {} \in P
    BY SumEmpty
<1>2. ASSUME NEW s \in SUBSET S, NEW x \in S, s \in P, x \notin s
      PROVE  s \cup {x} \in P
    <2>1. IsFiniteSet(s) /\ \A y \in s \cup {x} : f[y] \in Int
        BY FS_Subset
    <2>2. SumFunctionOnSet(f, s \cup {x}) = f[x] + SumFunctionOnSet(f, s)
        BY <1>2, <2>1, SumInsert
    <2>3. SumFunctionOnSet(f, s) \in Nat /\ f[x] \in Nat
        BY <1>2
    <2>4. QED BY <2>2, <2>3
<1>3. SUBSET S \subseteq P
    <2> HIDE DEF P
    <2>1. QED BY <1>1, <1>2, SubsetGrowth
<1>4. QED BY <1>3

LEMMA SumSubset ==
    ASSUME NEW f, NEW S, IsFiniteSet(S), \A x \in S : f[x] \in Nat, NEW A \in SUBSET S
    PROVE  SumFunctionOnSet(f, A) <= SumFunctionOnSet(f, S)
<1>1. IsFiniteSet(A) /\ IsFiniteSet(S \ A)
    BY FS_Subset
<1>2. SumFunctionOnSet(f, A) \in Nat /\ SumFunctionOnSet(f, S \ A) \in Nat
    BY <1>1, SumNat
<1>3. A \cup (S \ A) = S /\ A \cap (S \ A) = {} /\ \A x \in A \cup (S \ A) : f[x] \in Int
    OBVIOUS
<1>4. SumFunctionOnSet(f, A \cup (S \ A)) = SumFunctionOnSet(f, A) + SumFunctionOnSet(f, S \ A)
    BY <1>1, <1>3, SumUnion
<1> DEFINE a == SumFunctionOnSet(f, A)
           b == SumFunctionOnSet(f, S \ A)
<1>5. SumFunctionOnSet(f, S) = a + b /\ SumFunctionOnSet(f, A) = a /\ a \in Nat /\ b \in Nat
    BY <1>2, <1>3, <1>4
<1> HIDE DEF a, b
<1>6. QED BY <1>5

(* A sum with every sign turned.                                                 *)
LEMMA SumNegated ==
    ASSUME NEW f, NEW g, NEW S, IsFiniteSet(S), \A x \in S : f[x] \in Int /\ g[x] = -f[x]
    PROVE  SumFunctionOnSet(g, S) = -SumFunctionOnSet(f, S)
<1> DEFINE P == {s \in SUBSET S : SumFunctionOnSet(g, s) = -SumFunctionOnSet(f, s)}
<1>1. {} \in P
    BY SumEmpty
<1>2. ASSUME NEW s \in SUBSET S, NEW x \in S, s \in P, x \notin s
      PROVE  s \cup {x} \in P
    <2>1. IsFiniteSet(s) /\ \A y \in s \cup {x} : f[y] \in Int /\ g[y] \in Int
        BY FS_Subset
    <2>2. /\ SumFunctionOnSet(f, s \cup {x}) = f[x] + SumFunctionOnSet(f, s)
          /\ SumFunctionOnSet(g, s \cup {x}) = g[x] + SumFunctionOnSet(g, s)
        BY <1>2, <2>1, SumInsert
    <2>3. SumFunctionOnSet(f, s) \in Int /\ f[x] \in Int
        BY <2>1, SumType
    <2>4. SumFunctionOnSet(g, s) = -SumFunctionOnSet(f, s) /\ g[x] = -f[x]
        BY <1>2
    <2>5. QED BY <2>2, <2>3, <2>4
<1>3. SUBSET S \subseteq P
    <2> HIDE DEF P
    <2>1. QED BY <1>1, <1>2, SubsetGrowth
<1>4. QED BY <1>3
----------------------------------------------------------------------------
(* Finite sets: images, and the greatest of some numbers.                        *)
LEMMA FiniteImage ==
    ASSUME NEW S, IsFiniteSet(S), NEW f
    PROVE  IsFiniteSet({f[x] : x \in S})
<1> DEFINE T == {f[x] : x \in S}
           g == [x \in S |-> f[x]]
<1>1. g \in Surjection(S, T)
    BY DEF Surjection
<1>2. QED BY <1>1, FS_Surjection

LEMMA GreatestOf ==
    ASSUME NEW T \in SUBSET Int, IsFiniteSet(T), T # {}
    PROVE  Max(T) \in T /\ \A x \in T : x <= Max(T)
<1> DEFINE P == {s \in SUBSET T : s = {} \/ \E m \in s : \A y \in s : m >= y}
<1>1. {} \in P
    OBVIOUS
<1>2. ASSUME NEW s \in SUBSET T, NEW x \in T, s \in P, x \notin s
      PROVE  s \cup {x} \in P
    <2>1. CASE s = {}
        BY <2>1
    <2>2. CASE s # {}
        <3>1. PICK m \in s : \A y \in s : m >= y
            BY <1>2, <2>2
        <3>2. m \in Int /\ x \in Int /\ \A y \in s : y \in Int
            BY <3>1
        <3>3. CASE m >= x
            BY <3>1, <3>3
        <3>4. CASE x >= m
            <4>1. \A y \in s \cup {x} : x >= y
                BY <3>1, <3>2, <3>4
            <4>2. QED BY <4>1
        <3>5. QED BY <3>2, <3>3, <3>4
    <2>3. QED BY <2>1, <2>2
<1>3. SUBSET T \subseteq P
    <2> HIDE DEF P
    <2>1. QED BY <1>1, <1>2, SubsetGrowth
<1>4. PICK m \in T : \A y \in T : m >= y
    BY <1>3
<1>5. Max(T) \in T /\ \A y \in T : Max(T) >= y
    BY <1>4 DEF Max
<1>6. QED BY <1>5
----------------------------------------------------------------------------
Steps == {"idle", "income_rate", "expense_rate", "income", "extra_income", "done"}

(* The rows a query's count may be of.                                           *)
Fits(q, row) ==
    \/ q = "income_rate" /\ row.type = "income" /\ row.recurring
    \/ q = "expense_rate" /\ row.type = "expense" /\ row.recurring
    \/ q = "extra_income" /\ row.type = "income" /\ ~row.recurring
    \/ q = "extra_expense" /\ row.type = "expense" /\ ~row.recurring

(* A row that was not edited is as it was when it was counted, or was deleted    *)
(* for good; no two queries count one row.                                       *)
CountsFit ==
    /\ \A c \in counted : c = <<c[1], c[2]>>
    /\ \A i, q : <<i, q>> \in counted /\ i \notin edited =>
          IF i \in DOMAIN ledger THEN Fits(q, ledger[i]) ELSE i \in spent
    /\ \A i, p, q : <<i, p>> \in counted /\ <<i, q>> \in counted /\ i \notin edited => p = q

(* What is there, was there at the query, and does not recur was counted.        *)
ExtrasCounted ==
    /\ run.step \in {"extra_income", "done"} =>
          \A i \in Rows("income", FALSE) \ touched : <<i, "extra_income">> \in counted
    /\ run.step = "done" =>
          \A i \in Rows("expense", FALSE) \ touched : <<i, "extra_expense">> \in counted

(* What each query has returned, by the step the call has come to; `window` is a  *)
(* parameter of the call.                                                         *)
Dict(d) == IsFiniteSet(DOMAIN d) /\ DOMAIN d \subseteq Nat /\ d \in [DOMAIN d -> Int]
AfterIncome == {"income", "extra_income", "done"}

ReadsTyped ==
    /\ run.step # "idle" => /\ {"window", "incomeRate"} \subseteq DOMAIN run
                            /\ run.window \in TrendWindows /\ run.incomeRate \in Int
    /\ run.step \in AfterIncome \cup {"expense_rate"} =>
          "expenseRate" \in DOMAIN run /\ run.expenseRate \in Int
    /\ run.step \in AfterIncome => "income" \in DOMAIN run /\ Dict(run.income)
    /\ run.step \in {"extra_income", "done"} => "extraIncome" \in DOMAIN run /\ Dict(run.extraIncome)
    /\ run.step = "done" => "extraExpense" \in DOMAIN run /\ Dict(run.extraExpense)

(* While nothing was committed since the call began, that is what a query would   *)
(* return now.                                                                    *)
ReadsFresh ==
    touched = {} =>
        /\ run.step # "idle" => run.incomeRate = Sum(Latest("income"))
        /\ run.step \in AfterIncome \cup {"expense_rate"} => run.expenseRate = Sum(Latest("expense"))
        /\ run.step \in AfterIncome => run.income \in ByMonth(AllRows("income"))
        /\ run.step \in {"extra_income", "done"} => run.extraIncome \in ByMonth(TrendRows("income"))
        /\ run.step = "done" => run.extraExpense \in ByMonth(TrendRows("expense"))

Inv ==
    /\ TypeOK /\ IsFiniteSet(DOMAIN ledger)
    /\ "step" \in DOMAIN run /\ (run.step = "idle" <=> run = Idle)
    /\ CountsFit /\ ExtrasCounted /\ ReadsTyped /\ ReadsFresh

LEMMA RowForm ==
    ASSUME NEW row \in Row
    PROVE  row.type \in {"income", "expense"} /\ row.recurring \in BOOLEAN
BY KindsAssumption DEF Row

(* Rows by their type.                                                            *)
LEMMA RowsByType ==
    ASSUME TypeOK
    PROVE  /\ \A type \in {"income", "expense"} : AllRows(type) = {i \in DOMAIN ledger : ledger[i].type = type}
           /\ \A i \in DOMAIN ledger : ledger[i].type \in {"income", "expense"}
<1>1. \A i \in DOMAIN ledger : ledger[i].type \in {"income", "expense"} /\ ledger[i].recurring \in BOOLEAN
    BY RowForm DEF TypeOK
<1>2. QED BY <1>1 DEF AllRows, Rows

LEMMA IdleForm == Idle.step = "idle" /\ DOMAIN Idle = {"step"}
BY DEF Idle

LEMMA InvInit == ASSUME Init PROVE Inv
<1>1. DOMAIN ledger = {} /\ run = Idle /\ run.step = "idle" /\ counted = {}
    BY IdleForm DEF Init
<1>2. TypeOK
    BY <1>1, NumbersAssumption DEF Init, TypeOK
<1>3. "step" \in DOMAIN run
    BY <1>1, IdleForm
<1>4. CountsFit /\ ExtrasCounted
    BY <1>1 DEF CountsFit, ExtrasCounted
<1>5. IsFiniteSet(DOMAIN ledger)
    BY <1>1, FS_EmptySet
<1>6. ReadsTyped /\ ReadsFresh
    BY <1>1 DEF ReadsTyped, ReadsFresh, AfterIncome
<1>7. QED BY <1>1, <1>2, <1>3, <1>4, <1>5, <1>6 DEF Inv

(* Which rows a query's sum is of.                                               *)
LEMMA RowsRead ==
    /\ Latest("income") \subseteq Rows("income", TRUE)
    /\ Latest("expense") \subseteq Rows("expense", TRUE)
    /\ TrendRows("income") = Rows("income", FALSE)
    /\ TrendRows("expense") = Rows("expense", FALSE)
BY DEF Latest, TrendRows

LEMMA SameReads ==
    ASSUME UNCHANGED ledger
    PROVE  /\ UNCHANGED <<Sum(Latest("income")), Sum(Latest("expense"))>>
           /\ UNCHANGED <<ByMonth(AllRows("income")), ByMonth(TrendRows("income")),
                          ByMonth(TrendRows("expense"))>>
BY DEF Sum, AmountOf, Latest, Rows, AllRows, TrendRows, MonthsOf, Stream, ByMonth
----------------------------------------------------------------------------
(* What a query returns is typed: sums of rows, and dictionaries of such.        *)
LEMMA RowsFinite ==
    ASSUME TypeOK, IsFiniteSet(DOMAIN ledger), NEW S \in SUBSET DOMAIN ledger
    PROVE  /\ IsFiniteSet(S) /\ IsFiniteSet(MonthsOf(S)) /\ MonthsOf(S) \subseteq Months
           /\ \A i \in S : AmountOf[i] = ledger[i].amount /\ AmountOf[i] \in Nat \ {0}
           /\ Sum(S) \in Nat
<1>1. IsFiniteSet(S)
    BY FS_Subset
<1>2. \A i \in S : ledger[i].month \in Months /\ ledger[i].amount \in Amounts
    BY DEF TypeOK, Row
<1>3. \A i \in S : AmountOf[i] = ledger[i].amount /\ AmountOf[i] \in Nat \ {0}
    BY <1>2, NumbersAssumption DEF AmountOf
<1>4. IsFiniteSet(MonthsOf(S)) /\ MonthsOf(S) \subseteq Months
    <2> DEFINE month == [i \in S |-> ledger[i].month]
    <2>1. MonthsOf(S) = {month[i] : i \in S}
        BY DEF MonthsOf
    <2>2. IsFiniteSet(MonthsOf(S))
        <3> HIDE DEF month
        <3>1. QED BY <1>1, <2>1, FiniteImage
    <2>3. QED BY <1>2, <2>2 DEF MonthsOf
<1>5. Sum(S) \in Nat
    BY <1>1, <1>3, SumNat DEF Sum
<1>6. QED BY <1>1, <1>3, <1>4, <1>5

LEMMA DictRead ==
    ASSUME TypeOK, IsFiniteSet(DOMAIN ledger), NEW S \in SUBSET DOMAIN ledger, NEW d \in ByMonth(S)
    PROVE  Dict(d) /\ DOMAIN d = MonthsOf(S)
<1>1. PICK last \in [MonthsOf(S) -> Currencies] :
        d = [m \in MonthsOf(S) |-> Sum({i \in S : ledger[i].month = m /\ ledger[i].currency = last[m]})]
    BY DEF ByMonth
<1>2. DOMAIN d = MonthsOf(S)
    BY <1>1
<1>3. \A m \in MonthsOf(S) : d[m] \in Int
    <2>1. SUFFICES ASSUME NEW m \in MonthsOf(S) PROVE d[m] \in Int
        OBVIOUS
    <2> DEFINE rows == {i \in S : ledger[i].month = m /\ ledger[i].currency = last[m]}
    <2>2. rows \in SUBSET DOMAIN ledger
        OBVIOUS
    <2>3. Sum(rows) \in Nat
        <3> HIDE DEF rows
        <3>1. QED BY <2>2, RowsFinite
    <2>4. d[m] = Sum(rows)
        BY <1>1
    <2>5. QED BY <2>3, <2>4
<1>4. d \in [DOMAIN d -> Int]
    BY <1>1, <1>2, <1>3
<1>5. IsFiniteSet(DOMAIN d) /\ DOMAIN d \subseteq Nat
    BY <1>2, RowsFinite, NumbersAssumption
<1>6. QED BY <1>2, <1>4, <1>5 DEF Dict
----------------------------------------------------------------------------
(* Commits of other sessions.                                                    *)
LEMMA ChangeStep ==
    ASSUME Inv, NEW i \in Ids, NEW row \in Row, Record(i, row) \/ Edit(i, row) \/ Delete(i)
    PROVE  Inv'
<1>1. /\ UNCHANGED <<run, counted>>
      /\ \A j \in DOMAIN ledger' : j # i => j \in DOMAIN ledger /\ ledger'[j] = ledger[j]
      /\ \A j \in DOMAIN ledger : j # i => j \in DOMAIN ledger'
      /\ DOMAIN ledger' \subseteq DOMAIN ledger \cup {i}
      /\ spent \subseteq spent' /\ spent' \subseteq spent \cup {i}
      /\ i \in DOMAIN ledger' => i \notin spent' /\ ledger'[i] \in Row
    BY DEF Record, Edit, Delete, Changed, Inv, TypeOK
<1>2. /\ changes' \in 0 .. MaxChanges
      /\ touched' = IF run = Idle THEN {} ELSE touched \cup {i}
      /\ edited' \subseteq touched' /\ (run # Idle => edited \subseteq edited')
    BY NumbersAssumption DEF Record, Edit, Delete, Changed, Inv, TypeOK
<1>3. TypeOK'
    <2>1. \A j \in DOMAIN ledger' : ledger'[j] \in Row
        BY <1>1 DEF Inv, TypeOK
    <2>2. DOMAIN ledger' \subseteq Ids /\ spent' \subseteq Ids \ DOMAIN ledger'
        BY <1>1 DEF Inv, TypeOK
    <2>3. touched' \subseteq Ids
        BY <1>2 DEF Inv, TypeOK
    <2>4. QED BY <1>1, <1>2, <2>1, <2>2, <2>3 DEF Inv, TypeOK
<1>4. CountsFit'
    <2>1. CASE run = Idle
        <3>1. counted' = {}
            BY <1>1, <2>1 DEF Inv, TypeOK
        <3>2. QED BY <3>1 DEF CountsFit
    <2>2. CASE run # Idle
        <3>1. ASSUME NEW j, NEW q, <<j, q>> \in counted', j \notin edited'
              PROVE  IF j \in DOMAIN ledger' THEN Fits(q, ledger'[j]) ELSE j \in spent'
            <4>1. <<j, q>> \in counted /\ j \notin edited
                BY <1>1, <1>2, <2>2, <3>1
            <4>2. CASE j # i
                BY <1>1, <4>1, <4>2 DEF Inv, CountsFit
            <4>3. CASE j = i /\ Record(i, row)
                BY <4>1, <4>3 DEF Record, Inv, CountsFit
            <4>4. CASE j = i /\ Edit(i, row)
                BY <2>2, <3>1, <4>4 DEF Edit, Changed
            <4>5. CASE j = i /\ Delete(i)
                BY <4>5 DEF Delete
            <4>6. QED BY <4>2, <4>3, <4>4, <4>5
        <3>2. QED BY <1>1, <1>2, <2>2, <3>1 DEF Inv, CountsFit
    <2>3. QED BY <2>1, <2>2
<1>5. ExtrasCounted'
    <2>1. CASE run = Idle
        BY <1>1, <2>1, IdleForm DEF ExtrasCounted
    <2>2. CASE run # Idle
        BY <1>1, <1>2, <2>2 DEF Inv, ExtrasCounted, Rows
    <2>3. QED BY <2>1, <2>2
<1>6. IsFiniteSet((DOMAIN ledger)')
    <2>1. IsFiniteSet(DOMAIN ledger \cup {i})
        BY FS_AddElement DEF Inv
    <2>2. DOMAIN ledger' \in SUBSET (DOMAIN ledger \cup {i})
        BY <1>1
    <2>3. QED BY <2>1, <2>2, FS_Subset
<1>7. ReadsTyped' /\ ReadsFresh'
    <2>1. ReadsTyped'
        BY <1>1 DEF Inv, ReadsTyped
    <2>2. touched' = {} => run'.step = "idle"
        BY <1>1, <1>2 DEF Inv
    <2>3. QED BY <2>1, <2>2 DEF ReadsFresh, AfterIncome
<1>8. QED BY <1>1, <1>3, <1>4, <1>5, <1>6, <1>7 DEF Inv
----------------------------------------------------------------------------
(* Queries.                                                                      *)
LEMMA ReadsForm ==
    ASSUME Inv, NEW step \in Steps \ {"idle"}, NEW fields, Reads(step, fields)
    PROVE  /\ "step" \in DOMAIN run' /\ run'.step = step /\ run' # Idle
           /\ UNCHANGED <<ledger, spent, changes, touched, edited>>
           /\ \A f \in DOMAIN fields \ {"step"} : f \in DOMAIN run' /\ run'[f] = fields[f]
           /\ \A f \in DOMAIN run \ (DOMAIN fields \cup {"step"}) : f \in DOMAIN run' /\ run'[f] = run[f]
<1>1. "step" \in DOMAIN run' /\ run'["step"] = step
    BY DEF Inv, Reads
<1>2. run'.step = step
    BY <1>1
<1>3. QED BY <1>1, <1>2, IdleForm DEF Reads, Steps

(* A query whose rows are of its kind, and whose kind was not counted, keeps the *)
(* counts apart.                                                                 *)
LEMMA CountStep ==
    ASSUME Inv, NEW S \in SUBSET DOMAIN ledger, NEW query,
           \A i \in S : Fits(query, ledger[i]),
           Counts(S, query),
           UNCHANGED <<ledger, spent, edited>>
    PROVE  CountsFit'
<1>1. counted' = counted \cup (S \X {query})
    BY DEF Counts
<1>2. \A i, q : <<i, q>> \in counted' => <<i, q>> \in counted \/ (i \in S /\ q = query)
    BY <1>1
<1>3. \A c \in counted' : c = <<c[1], c[2]>>
    BY <1>1 DEF Inv, CountsFit
<1>4. \A i, q : <<i, q>> \in counted' /\ i \notin edited =>
         IF i \in DOMAIN ledger THEN Fits(q, ledger[i]) ELSE i \in spent
    BY <1>2 DEF Inv, CountsFit
<1>5. \A row, p, q : Fits(p, row) /\ Fits(q, row) => p = q
    BY DEF Fits
<1>6. ASSUME NEW i, NEW p, NEW q, <<i, p>> \in counted', <<i, q>> \in counted', i \notin edited
      PROVE  p = q
    <2>1. CASE i \in S
        BY <1>4, <1>5, <1>6, <2>1
    <2>2. CASE i \notin S
        BY <1>2, <1>6, <2>2 DEF Inv, CountsFit
    <2>3. QED BY <2>1, <2>2
<1>7. QED BY <1>3, <1>4, <1>6 DEF CountsFit

LEMMA QueryStep ==
    ASSUME Inv, NEW step \in Steps \ {"idle"}, NEW fields, Reads(step, fields),
           CountsFit', ExtrasCounted', ReadsTyped', ReadsFresh'
    PROVE  Inv'
<1>1. /\ "step" \in DOMAIN run' /\ run'.step = step /\ run' # Idle
      /\ UNCHANGED <<ledger, spent, changes, touched, edited>>
    BY ReadsForm
<1>2. TypeOK'
    BY <1>1 DEF Inv, TypeOK, Steps
<1>3. QED BY <1>1, <1>2 DEF Inv

LEMMA RateSteps ==
    ASSUME Inv, ReadExpenseRate \/ \E w \in TrendWindows : ReadIncomeRate(w)
    PROVE  Inv'
<1>1. ASSUME NEW w \in TrendWindows, ReadIncomeRate(w) PROVE Inv'
    <2>1. PICK fields : Reads("income_rate", fields)
        BY <1>1 DEF ReadIncomeRate
    <2>2. run'.step = "income_rate" /\ UNCHANGED <<ledger, spent, edited>>
        BY <2>1, ReadsForm DEF Steps
    <2>3. /\ Latest("income") \in SUBSET DOMAIN ledger
          /\ \A i \in Latest("income") : Fits("income_rate", ledger[i])
        BY RowsRead DEF Rows, Fits, Inv, TypeOK
    <2>4. CountsFit'
        BY <1>1, <2>2, <2>3, CountStep DEF ReadIncomeRate
    <2>5. ExtrasCounted'
        BY <2>2 DEF ExtrasCounted
    <2>6. ReadsTyped' /\ ReadsFresh'
        <3>1. Reads("income_rate", [window |-> w, incomeRate |-> Sum(Latest("income"))])
            BY <1>1 DEF ReadIncomeRate
        <3>2. /\ {"window", "incomeRate"} \subseteq DOMAIN run'
              /\ run'.window = w /\ run'.incomeRate = Sum(Latest("income"))
            BY <3>1, ReadsForm DEF Steps
        <3>3. Sum(Latest("income")) \in Int
            BY <2>3, RowsFinite DEF Inv
        <3>4. QED BY <1>1, <2>2, <3>2, <3>3, SameReads DEF ReadsTyped, ReadsFresh, AfterIncome
    <2>7. QED BY <2>1, <2>4, <2>5, <2>6, QueryStep DEF Steps
<1>2. CASE ReadExpenseRate
    <2>1. PICK fields : Reads("expense_rate", fields)
        BY <1>2 DEF ReadExpenseRate
    <2>2. run'.step = "expense_rate" /\ UNCHANGED <<ledger, spent, edited>>
        BY <2>1, ReadsForm DEF Steps
    <2>3. /\ Latest("expense") \in SUBSET DOMAIN ledger
          /\ \A i \in Latest("expense") : Fits("expense_rate", ledger[i])
        BY RowsRead DEF Rows, Fits, Inv, TypeOK
    <2>4. CountsFit'
        BY <1>2, <2>2, <2>3, CountStep DEF ReadExpenseRate
    <2>5. ExtrasCounted'
        BY <2>2 DEF ExtrasCounted
    <2>6. ReadsTyped' /\ ReadsFresh'
        <3>1. run.step = "income_rate" /\ Reads("expense_rate", [expenseRate |-> Sum(Latest("expense"))])
            BY <1>2 DEF ReadExpenseRate
        <3>2. /\ {"window", "incomeRate", "expenseRate"} \subseteq DOMAIN run'
              /\ run'.window = run.window /\ run'.incomeRate = run.incomeRate
              /\ run'.expenseRate = Sum(Latest("expense")) /\ touched' = touched
            BY <3>1, ReadsForm DEF Steps, Inv, ReadsTyped
        <3>3. Sum(Latest("expense")) \in Int
            BY <2>3, RowsFinite DEF Inv
        <3>4. QED BY <2>2, <3>1, <3>2, <3>3, SameReads DEF Inv, ReadsTyped, ReadsFresh, AfterIncome
    <2>7. QED BY <2>1, <2>4, <2>5, <2>6, QueryStep DEF Steps
<1>3. QED BY <1>1, <1>2

LEMMA IncomeStep == ASSUME Inv, ReadIncome PROVE Inv'
<1>1. PICK d \in ByMonth(AllRows("income")) : Reads("income", [income |-> d])
    BY DEF ReadIncome
<1>2. /\ run.step = "expense_rate" /\ run'.step = "income"
      /\ UNCHANGED <<ledger, spent, touched, edited, counted>>
    BY <1>1, ReadsForm DEF Steps, ReadIncome
<1>3. CountsFit' /\ ExtrasCounted'
    BY <1>2 DEF CountsFit, ExtrasCounted, Inv
<1>4. ReadsTyped' /\ ReadsFresh'
    <2>1. /\ {"window", "incomeRate", "expenseRate", "income"} \subseteq DOMAIN run'
          /\ run'.window = run.window /\ run'.incomeRate = run.incomeRate
          /\ run'.expenseRate = run.expenseRate /\ run'.income = d
        BY <1>1, <1>2, ReadsForm DEF Steps, Inv, ReadsTyped, AfterIncome
    <2>2. Dict(d)
        BY DictRead DEF Inv, AllRows, Rows
    <2>3. QED BY <1>2, <2>1, <2>2, SameReads DEF Inv, ReadsTyped, ReadsFresh, AfterIncome
<1>5. QED BY <1>1, <1>3, <1>4, QueryStep DEF Steps

LEMMA ExtraSteps == ASSUME Inv, ReadExtraIncome \/ ReadExtraExpense PROVE Inv'
<1>1. CASE ReadExtraIncome
    <2>1. PICK d \in ByMonth(TrendRows("income")) : Reads("extra_income", [extraIncome |-> d])
        BY <1>1 DEF ReadExtraIncome
    <2>2. run'.step = "extra_income" /\ UNCHANGED <<ledger, spent, edited, touched>>
        BY <2>1, ReadsForm DEF Steps
    <2>3. /\ Rows("income", FALSE) \in SUBSET DOMAIN ledger
          /\ \A i \in Rows("income", FALSE) : Fits("extra_income", ledger[i])
        BY DEF Rows, Fits
    <2>4. Counts(Rows("income", FALSE), "extra_income")
        BY <1>1, RowsRead DEF ReadExtraIncome
    <2>5. CountsFit'
        BY <2>2, <2>3, <2>4, CountStep
    <2>6. ExtrasCounted'
        BY <2>2, <2>4 DEF ExtrasCounted, Counts, Rows
    <2>7. ReadsTyped' /\ ReadsFresh'
        <3>1. run.step = "income"
            BY <1>1 DEF ReadExtraIncome
        <3>2. /\ {"window", "incomeRate", "expenseRate", "income", "extraIncome"} \subseteq DOMAIN run'
              /\ run'.window = run.window /\ run'.incomeRate = run.incomeRate
              /\ run'.expenseRate = run.expenseRate /\ run'.income = run.income
              /\ run'.extraIncome = d
            BY <2>1, <2>2, <3>1, ReadsForm DEF Steps, Inv, ReadsTyped, AfterIncome
        <3>3. Dict(d)
            BY DictRead DEF Inv, TrendRows, Rows
        <3>4. QED BY <2>1, <2>2, <3>1, <3>2, <3>3, SameReads DEF Inv, ReadsTyped, ReadsFresh, AfterIncome
    <2>8. QED BY <2>1, <2>5, <2>6, <2>7, QueryStep DEF Steps
<1>2. CASE ReadExtraExpense
    <2>1. PICK d \in ByMonth(TrendRows("expense")) : Reads("done", [extraExpense |-> d])
        BY <1>2 DEF ReadExtraExpense
    <2>2. /\ run.step = "extra_income" /\ run'.step = "done"
          /\ UNCHANGED <<ledger, spent, edited, touched>>
        BY <1>2, <2>1, ReadsForm DEF Steps, ReadExtraExpense
    <2>3. /\ Rows("expense", FALSE) \in SUBSET DOMAIN ledger
          /\ \A i \in Rows("expense", FALSE) : Fits("extra_expense", ledger[i])
        BY DEF Rows, Fits
    <2>4. Counts(Rows("expense", FALSE), "extra_expense")
        BY <1>2, RowsRead DEF ReadExtraExpense
    <2>5. CountsFit'
        BY <2>2, <2>3, <2>4, CountStep
    <2>6. ExtrasCounted'
        BY <2>2, <2>4 DEF Inv, ExtrasCounted, Counts, Rows
    <2>7. ReadsTyped' /\ ReadsFresh'
        <3>1. run.step = "extra_income"
            BY <1>2 DEF ReadExtraExpense
        <3>2. /\ {"window", "incomeRate", "expenseRate", "income", "extraIncome", "extraExpense"} \subseteq DOMAIN run'
              /\ run'.window = run.window /\ run'.incomeRate = run.incomeRate
              /\ run'.expenseRate = run.expenseRate /\ run'.income = run.income
              /\ run'.extraIncome = run.extraIncome /\ run'.extraExpense = d
            BY <2>1, <2>2, <3>1, ReadsForm DEF Steps, Inv, ReadsTyped, AfterIncome
        <3>3. Dict(d)
            BY DictRead DEF Inv, TrendRows, Rows
        <3>4. QED BY <2>1, <2>2, <3>1, <3>2, <3>3, SameReads DEF Inv, ReadsTyped, ReadsFresh, AfterIncome
    <2>8. QED BY <2>1, <2>5, <2>6, <2>7, QueryStep DEF Steps
<1>3. QED BY <1>1, <1>2

LEMMA InvStep == ASSUME Inv, [Next]_vars PROVE Inv'
<1>1. CASE Change
    <2>1. PICK i \in Ids : (\E row \in Row : Record(i, row) \/ Edit(i, row)) \/ Delete(i)
        BY <1>1 DEF Change
    <2>2. CASE \E row \in Row : Record(i, row) \/ Edit(i, row)
        BY <2>2, ChangeStep
    <2>3. CASE Delete(i)
        <3>1. ledger[i] \in Row
            BY <2>3 DEF Delete, Inv, TypeOK
        <3>2. QED BY <2>3, <3>1, ChangeStep
    <2>4. QED BY <2>1, <2>2, <2>3
<1>2. CASE Return
    <2>1. run' = Idle /\ touched' = {} /\ edited' = {} /\ counted' = {}
        BY <1>2 DEF Return
    <2>2. TypeOK'
        BY <1>2, <2>1, IdleForm DEF Return, Inv, TypeOK
    <2>3. CountsFit' /\ ExtrasCounted'
        BY <2>1, IdleForm DEF CountsFit, ExtrasCounted
    <2>4. ReadsTyped' /\ ReadsFresh' /\ UNCHANGED ledger
        BY <1>2, <2>1, IdleForm DEF Return, ReadsTyped, ReadsFresh, AfterIncome
    <2>5. QED BY <2>1, <2>2, <2>3, <2>4, IdleForm DEF Inv
<1>3. CASE UNCHANGED vars
    <2>1. UNCHANGED ledger /\ UNCHANGED <<run, touched>>
        BY <1>3 DEF vars
    <2>2. ReadsTyped' /\ ReadsFresh'
        BY <2>1, SameReads DEF Inv, ReadsTyped, ReadsFresh
    <2>3. QED BY <1>3, <2>2 DEF vars, Inv, TypeOK, CountsFit, ExtrasCounted, Rows
<1>4. CASE Read /\ ~Return
    BY <1>4, RateSteps, IncomeStep, ExtraSteps DEF Read
<1>5. QED BY <1>1, <1>2, <1>3, <1>4 DEF Next

LEMMA Always == Spec => []Inv
BY InvInit, InvStep, PTL DEF Spec

(* Types, for any constants that meet the assumptions.                           *)
THEOREM TypeCorrect == Spec => []TypeOK
<1>1. Inv => TypeOK
    BY DEF Inv
<1>2. QED BY <1>1, Always, PTL

(* For any ledger and any commits between the queries: no transaction is counted *)
(* in two of them unless it was edited meanwhile, and none of the trend's is lost *)
(* that was left alone.                                                          *)
THEOREM CountsOnce == Spec => []CountedOnce
<1>1. ASSUME Inv PROVE CountedOnce
    <2>1. ASSUME NEW c \in counted, NEW d \in counted, c[1] = d[1], c[1] \notin edited
          PROVE  c = d
        <3>1. c = <<c[1], c[2]>> /\ d = <<d[1], d[2]>>
            BY <1>1, <2>1 DEF Inv, CountsFit
        <3>2. <<c[1], c[2]>> \in counted /\ <<c[1], d[2]>> \in counted
            BY <2>1, <3>1
        <3>3. c[2] = d[2]
            BY <1>1, <2>1, <3>2 DEF Inv, CountsFit
        <3>4. QED BY <2>1, <3>1, <3>3
    <2>2. ASSUME run.step = "done", NEW i \in Others \ touched
          PROVE  \E c \in counted : c[1] = i
        <3>1. \E q : <<i, q>> \in counted
            BY <1>1, <2>2 DEF Inv, ExtrasCounted, Others
        <3>2. QED BY <3>1
    <2>3. QED BY <2>1, <2>2 DEF CountedOnce
<1>2. QED BY <1>1, Always, PTL
----------------------------------------------------------------------------
(* Sorted sets, slices, and quotients.                                           *)
LEMMA SortedForm ==
    ASSUME NEW S \in SUBSET Int, IsFiniteSet(S)
    PROVE  /\ Cardinality(S) \in Nat /\ Sorted(S) \in [1 .. Cardinality(S) -> S]
           /\ Sorted(S) \in Seq(S) /\ Len(Sorted(S)) = Cardinality(S)
           /\ \A i, j \in 1 .. Cardinality(S) : i < j => Sorted(S)[i] < Sorted(S)[j]
           /\ \A x \in S : \E i \in 1 .. Cardinality(S) : Sorted(S)[i] = x
<1> DEFINE Increasing(s) == {e \in [1 .. Cardinality(s) -> s] : \A i, j \in 1 .. Cardinality(s) : i < j => e[i] < e[j]}
           P == {s \in SUBSET S : Increasing(s) # {}}
<1>1. ASSUME NEW s \in SUBSET S, \A t \in SUBSET s : t # s => t \in P
      PROVE  s \in P
    <2>0. IsFiniteSet(s) /\ Cardinality(s) \in Nat
        BY FS_Subset, FS_CardinalityType
    <2>1. CASE s = {}
        <3>1. Cardinality(s) = 0
            BY <2>1, FS_EmptySet
        <3>2. << >> \in Increasing(s)
            BY <2>1, <3>1
        <3>3. QED BY <3>2
    <2>2. CASE s # {}
        <3> DEFINE m == Max(s)
                   t == s \ {m}
                   n == Cardinality(t)
        <3>1. m \in s /\ \A x \in s : x <= m
            BY <2>0, <2>2, GreatestOf
        <3>2. n \in Nat /\ Cardinality(s) = n + 1
            <4> HIDE DEF m
            <4>1. IsFiniteSet(t) /\ Cardinality(t) = Cardinality(s) - 1
                BY <2>0, <3>1, FS_RemoveElement
            <4>2. QED BY <2>0, <4>1, FS_CardinalityType
        <3>3. t \in P
            BY <1>1, <3>1
        <3>4. PICK e \in [1 .. n -> t] : \A i, j \in 1 .. n : i < j => e[i] < e[j]
            BY <3>3
        <3>5. \A x \in t : x \in Int /\ x < m /\ m \in Int /\ x \in s
            <4> HIDE DEF m
            <4>1. m \in Int /\ \A x \in t : x \in Int /\ x # m /\ x \in s
                BY <3>1
            <4>2. \A x \in t : x <= m
                BY <3>1
            <4> HIDE DEF t
            <4>3. QED BY <4>1, <4>2
        <3> DEFINE f == [i \in 1 .. n + 1 |-> IF i = n + 1 THEN m ELSE e[i]]
        <3> HIDE DEF m, n
        <3>6. f \in [1 .. n + 1 -> s]
            BY <3>1, <3>2, <3>4
        <3>7. ASSUME NEW i \in 1 .. n + 1, NEW j \in 1 .. n + 1, i < j PROVE f[i] < f[j]
            <4>1. i \in 1 .. n /\ f[i] = e[i] /\ e[i] \in t
                BY <3>2, <3>4, <3>7
            <4>2. CASE j = n + 1
                BY <3>5, <4>1, <4>2
            <4>3. CASE j # n + 1
                BY <3>2, <3>4, <3>7, <4>1, <4>3
            <4>4. QED BY <4>2, <4>3
        <3>8. f \in Increasing(s)
            <4> HIDE DEF f
            <4>1. QED BY <3>2, <3>6, <3>7
        <3>9. QED BY <3>8
    <2>3. QED BY <2>1, <2>2
<1>2. SUBSET S \subseteq P
    <2> HIDE DEF P
    <2>1. \A s \in SUBSET S : (\A t \in SUBSET s : t # s => t \in P) => s \in P
        BY <1>1
    <2>2. QED BY <2>1, SubsetInduction
<1>3. Increasing(S) # {} /\ Cardinality(S) \in Nat
    BY <1>2, FS_CardinalityType
<1> DEFINE n == Cardinality(S)
<1>4. \E e \in [1 .. n -> S] : \A i, j \in DOMAIN e : i < j => e[i] < e[j]
    BY <1>3
<1>5. /\ Sorted(S) \in [1 .. n -> S]
      /\ \A i, j \in DOMAIN Sorted(S) : i < j => Sorted(S)[i] < Sorted(S)[j]
    BY <1>4 DEF Sorted
<1> DEFINE e == Sorted(S)
<1>6. n \in Nat /\ e \in [1 .. n -> S] /\ \A i, j \in 1 .. n : i < j => e[i] < e[j]
    BY <1>3, <1>5
<1>7. e \in Seq(S) /\ Len(e) = n
    <2> HIDE DEF e, n
    <2>1. QED BY <1>6
<1>8. \A x \in S : \E i \in 1 .. n : e[i] = x
    <2>1. IsFiniteSet(1 .. n) /\ Cardinality(1 .. n) = n
        BY <1>6, FS_Interval
    <2> HIDE DEF e
    <2>2. e \in Injection(1 .. n, S)
        <3>1. \A i, j \in 1 .. n : e[i] = e[j] => i = j
            <4>1. SUFFICES ASSUME NEW i \in 1 .. n, NEW j \in 1 .. n, e[i] = e[j], i # j PROVE FALSE
                OBVIOUS
            <4>2. i < j \/ j < i
                BY <1>6, <4>1
            <4>3. e[i] < e[j] \/ e[j] < e[i]
                BY <1>6, <4>2
            <4>4. e[i] \in Int /\ e[j] \in Int
                BY <1>6
            <4>5. QED BY <4>1, <4>3, <4>4
        <3>2. QED BY <1>6, <3>1 DEF Injection, IsInjective
    <2>3. e \in Surjection(1 .. n, S)
        BY <2>1, <2>2, FS_Injection
    <2>4. QED BY <2>3 DEF Surjection
<1>9. QED BY <1>6, <1>7, <1>8

LEMMA TrailingForm ==
    ASSUME NEW S, NEW s \in Seq(S), NEW w \in Nat \ {0}
    PROVE  /\ Trailing(s, w) \in Seq(S)
           /\ Len(Trailing(s, w)) = IF Len(s) < w THEN Len(s) ELSE w
           /\ \A k \in 1 .. Len(Trailing(s, w)) :
                 Trailing(s, w)[k] = s[Len(s) - Len(Trailing(s, w)) + k]
<1> DEFINE a == Max({1, Len(s) - w + 1})
<1>1. a = IF Len(s) < w THEN 1 ELSE Len(s) - w + 1
    <2>1. {1, Len(s) - w + 1} \in SUBSET Int
        OBVIOUS
    <2>2. \A x \in {1, Len(s) - w + 1} : \A y \in {1, Len(s) - w + 1} : x <= y \/ y <= x
        OBVIOUS
    <2>3. CASE Len(s) < w
        BY <2>3 DEF Max
    <2>4. CASE ~(Len(s) < w)
        BY <2>4 DEF Max
    <2>5. QED BY <2>3, <2>4
<1>2. a \in 1 .. Len(s) + 1 /\ Trailing(s, w) = SubSeq(s, a, Len(s))
    BY <1>1 DEF Trailing
<1> HIDE DEF a
<1>3. QED BY <1>1, <1>2

(* Sums of sequences: of integers, and of natural numbers whose first is not 0.  *)
LEMMA SumSeqType == ASSUME NEW n \in Nat, NEW s \in [1 .. n -> Int] PROVE SumSeq(s) \in Int
<1>1. IsFiniteSet(1 .. n) /\ DOMAIN s = 1 .. n
    BY FS_Interval
<1>2. QED BY <1>1, SumType DEF SumSeq, SumFunction

LEMMA SumSeqPositive ==
    ASSUME NEW n \in Nat \ {0}, NEW s \in [1 .. n -> Nat], s[1] # 0
    PROVE  SumSeq(s) \in Nat \ {0}
<1>1. DOMAIN s = 1 .. n /\ 1 \in 1 .. n /\ (\A k \in 1 .. n : s[k] \in Nat) /\ IsFiniteSet(1 .. n)
    <2>1. 1 \in Int /\ n \in Int
        OBVIOUS
    <2>2. IsFiniteSet(1 .. n)
        BY <2>1, FS_Interval
    <2>3. QED BY <2>2
<1>2. SumFunctionOnSet(s, 1 .. n) = s[1] + SumFunctionOnSet(s, (1 .. n) \ {1})
    BY <1>1, SumRemove
<1>3. SumFunctionOnSet(s, (1 .. n) \ {1}) \in Nat
    BY <1>1, SumNat, FS_Subset
<1>4. s[1] \in Nat
    BY <1>1
<1>5. QED BY <1>1, <1>2, <1>3, <1>4 DEF SumSeq, SumFunction

Fractions == Int \X (Nat \ {0})

LEMMA PlusType == ASSUME NEW p \in Fractions, NEW q \in Fractions PROVE Plus(p, q) \in Fractions
<1>1. p[1] \in Int /\ q[1] \in Int /\ p[2] \in Nat \ {0} /\ q[2] \in Nat \ {0}
    BY DEF Fractions
<1>2. p[2] * q[2] \in Nat \ {0} /\ p[1] * q[2] + q[1] * p[2] \in Int
    BY <1>1
<1>3. QED BY <1>2 DEF Plus, Fractions

(* Division by a positive number, and rounding.                                  *)
LEMMA DivMod ==
    ASSUME NEW a \in Int, NEW b \in Nat \ {0}
    PROVE  /\ a \div b \in Int /\ a % b \in 0 .. b - 1
           /\ a = b * (a \div b) + (a % b)
OBVIOUS

LEMMA RoundedType == ASSUME NEW q \in Fractions PROVE Rounded(q) \in Int
<1>1. q[1] \in Int /\ q[2] \in Nat \ {0}
    BY DEF Fractions
<1>2. q[1] \div q[2] \in Int
    BY <1>1, DivMod
<1>3. QED BY <1>2 DEF Rounded

LEMMA MovingAverageType == ASSUME NEW s \in Seq(Int) PROVE MovingAverage(s) \in Fractions
<1>1. CASE s = << >>
    BY <1>1 DEF MovingAverage, Fractions
<1>2. CASE s # << >>
    <2>1. Len(s) \in Nat \ {0} /\ s \in [1 .. Len(s) -> Int]
        BY <1>2
    <2>2. SumSeq(s) \in Int
        BY <2>1, SumSeqType
    <2>3. QED BY <1>2, <2>1, <2>2 DEF MovingAverage, Fractions
<1>3. QED BY <1>1, <1>2

LEMMA SlopeType == ASSUME NEW s \in Seq(Int) PROVE LinearTrendSlope(s) \in Fractions
<1> DEFINE n == Len(s)
           total == SumSeq(s)
           dx == [k \in 1 .. n |-> 2 * k - n - 1]
           dy == [k \in 1 .. n |-> n * s[k] - total]
           xy == [k \in 1 .. n |-> dx[k] * dy[k]]
           xx == [k \in 1 .. n |-> dx[k] * dx[k]]
<1>1. n \in Nat /\ s \in [1 .. n -> Int] /\ total \in Int
    BY SumSeqType
<1>2. CASE n < 2
    BY <1>2 DEF LinearTrendSlope, Fractions
<1>3. CASE ~(n < 2)
    <2> HIDE DEF n, total
    <2>1. dx \in [1 .. n -> Int] /\ dy \in [1 .. n -> Int] /\ dx[1] = 1 - n
        BY <1>1, <1>3
    <2> HIDE DEF dx, dy
    <2>2. \A k \in 1 .. n : dx[k] \in Int /\ dy[k] \in Int
        BY <2>1
    <2>3. xy \in [1 .. n -> Int]
        BY <2>2
    <2>4. \A a \in Int : a * a \in Nat /\ (a # 0 => a * a # 0)
        OBVIOUS
    <2>5. xx \in [1 .. n -> Nat] /\ xx[1] # 0
        BY <1>1, <1>3, <2>1, <2>2, <2>4
    <2> HIDE DEF xy, xx
    <2>6. SumSeq(xy) \in Int /\ SumSeq(xx) \in Nat \ {0}
        <3>1. n \in Nat \ {0}
            BY <1>1, <1>3
        <3>2. SumSeq(xy) \in Int
            BY <1>1, <2>3, SumSeqType
        <3>3. SumSeq(xx) \in Nat \ {0}
            BY <3>1, <2>5, SumSeqPositive
        <3>4. QED BY <3>2, <3>3
    <2>7. n * SumSeq(xx) \in Nat \ {0} /\ 2 * SumSeq(xy) \in Int
        BY <1>1, <1>3, <2>6
    <2>8. LinearTrendSlope(s) = <<2 * SumSeq(xy), n * SumSeq(xx)>>
        BY <1>3 DEF LinearTrendSlope, n, total, dx, dy, xy, xx
    <2>9. QED BY <2>7, <2>8 DEF Fractions
<1>4. QED BY <1>2, <1>3

(* What a finished call forecasts are integers, one for each month ahead.        *)
LEMMA NetForm ==
    ASSUME Inv, run.step = "done"
    PROVE  /\ ExtraMonths = Sorted(DOMAIN run.extraIncome \cup DOMAIN run.extraExpense)
           /\ DOMAIN run.extraIncome \cup DOMAIN run.extraExpense \in SUBSET Nat
           /\ IsFiniteSet(DOMAIN run.extraIncome \cup DOMAIN run.extraExpense)
           /\ Len(ExtraMonths) \in Nat /\ HistoricalNet \in [1 .. Len(ExtraMonths) -> Int]
           /\ HistoricalNet \in Seq(Int) /\ Len(HistoricalNet) = Len(ExtraMonths)
<1>1. Dict(run.extraIncome) /\ Dict(run.extraExpense)
    BY DEF Inv, ReadsTyped
<1> DEFINE S == DOMAIN run.extraIncome \cup DOMAIN run.extraExpense
<1>2. S \in SUBSET Nat /\ IsFiniteSet(S) /\ S \in SUBSET Int
    <2>1. /\ IsFiniteSet(DOMAIN run.extraIncome) /\ IsFiniteSet(DOMAIN run.extraExpense)
          /\ DOMAIN run.extraIncome \subseteq Nat /\ DOMAIN run.extraExpense \subseteq Nat
        BY <1>1 DEF Dict
    <2>2. IsFiniteSet(S)
        BY <2>1, FS_Union
    <2>3. S \in SUBSET Nat /\ S \in SUBSET Int
        BY <2>1
    <2>4. QED BY <2>2, <2>3
<1>3. Len(ExtraMonths) \in Nat /\ ExtraMonths = Sorted(S)
    <2>1. ExtraMonths = Sorted(S)
        BY DEF ExtraMonths
    <2> HIDE DEF S
    <2>2. QED BY <1>2, <2>1, SortedForm
<1>4. \A d, m : Dict(d) => At(d, m) \in Int
    BY DEF At, Dict
<1>5. \A m : At(run.extraIncome, m) - At(run.extraExpense, m) \in Int
    <2>1. \A m : At(run.extraIncome, m) \in Int /\ At(run.extraExpense, m) \in Int
        BY <1>1, <1>4
    <2>2. QED BY <2>1
<1>6. HistoricalNet \in [1 .. Len(ExtraMonths) -> Int]
    BY <1>5 DEF HistoricalNet
<1>7. HistoricalNet \in Seq(Int) /\ Len(HistoricalNet) = Len(ExtraMonths)
    <2>1. \A n \in Nat : \A h \in [1 .. n -> Int] : h \in Seq(Int) /\ Len(h) = n
        OBVIOUS
    <2>2. QED BY <1>3, <1>6, <2>1
<1>8. QED BY <1>2, <1>3, <1>6, <1>7

LEMMA ForecastType ==
    ASSUME Inv, run.step = "done"
    PROVE  Forecast \in [1 .. MonthsAhead -> Int] /\ SumSeq(Forecast) \in Int
<1> DEFINE window == Trailing(HistoricalNet, run.window)
           base == MovingAverage(window)
           slope == LinearTrendSlope(window)
           rate == run.incomeRate - run.expenseRate
<1>1. run.window \in Nat \ {0} /\ rate \in Int
    <2>1. run.window \in TrendWindows /\ run.incomeRate \in Int /\ run.expenseRate \in Int
        BY DEF Inv, ReadsTyped, AfterIncome
    <2>2. run.window \in Nat \ {0}
        BY <2>1, NumbersAssumption
    <2>3. rate \in Int
        BY <2>1
    <2>4. QED BY <2>2, <2>3
<1>2. window \in Seq(Int)
    BY <1>1, NetForm, TrailingForm
<1>3. base \in Fractions /\ slope \in Fractions
    BY <1>2, MovingAverageType, SlopeType
<1> DEFINE value(k) == Rounded(Plus(<<rate, 1>>, Plus(base, <<k * slope[1], slope[2]>>)))
<1>4. Forecast = [k \in 1 .. MonthsAhead |-> value(k)]
    BY DEF Forecast
<1> HIDE DEF window, base, slope, rate
<1>5. ASSUME NEW k \in 1 .. MonthsAhead PROVE value(k) \in Int
    <2>1. <<k * slope[1], slope[2]>> \in Fractions /\ <<rate, 1>> \in Fractions
        BY <1>1, <1>3 DEF Fractions
    <2>2. Plus(<<rate, 1>>, Plus(base, <<k * slope[1], slope[2]>>)) \in Fractions
        BY <1>3, <2>1, PlusType
    <2>3. QED BY <2>2, RoundedType
<1>6. Forecast \in [1 .. MonthsAhead -> Int]
    <2> HIDE DEF value
    <2>1. QED BY <1>4, <1>5
<1>7. QED BY <1>6, SumSeqType, NumbersAssumption
----------------------------------------------------------------------------
LEMMA GreatestIs ==
    ASSUME NEW T \in SUBSET Int, NEW m \in T, \A x \in T : x <= m
    PROVE  Max(T) = m
<1>1. Max(T) \in T /\ \A y \in T : Max(T) >= y
    BY DEF Max
<1>2. Max(T) \in Int /\ m \in Int /\ Max(T) <= m /\ Max(T) >= m
    BY <1>1
<1>3. QED BY <1>2

(* A new recurring row, later than every row of its stream, takes their place     *)
(* among the latest.                                                              *)
LEMMA LatestAfter ==
    ASSUME Inv, NEW i \in Ids, NEW row \in Row, Record(i, row), row.recurring = TRUE,
           NEW stream,
           \A j : j \in stream <=> j \in Rows(row.type, TRUE) /\ Stream(j) = <<row.type, row.category, row.currency>>,
           \A j \in stream : ledger[j].month < row.month
    PROVE  Latest(row.type)' = (Latest(row.type) \ stream) \cup {i}
<1> DEFINE R == Rows(row.type, TRUE)
           R2 == Rows(row.type, TRUE)'
           like(k) == {j \in R : Stream(j) = Stream(k)}
           like2(k) == {j \in R2 : Stream(j)' = Stream(k)'}
           months(S) == {ledger[j].month : j \in S}
           months2(S) == {ledger'[j].month : j \in S}
<1>1. /\ DOMAIN ledger' = DOMAIN ledger \cup {i} /\ i \notin DOMAIN ledger /\ ledger'[i] = row
      /\ \A j \in DOMAIN ledger : ledger'[j] = ledger[j]
    BY DEF Record
<1>2. R2 = R \cup {i} /\ i \notin R /\ R \subseteq DOMAIN ledger /\ stream \subseteq R
    BY <1>1 DEF Rows
<1>3. \A j \in R : Stream(j)' = Stream(j) /\ ledger'[j].month = ledger[j].month
    BY <1>1, <1>2 DEF Stream
<1>4. Stream(i)' = <<row.type, row.category, row.currency>> /\ ledger'[i].month = row.month
    BY <1>1 DEF Stream
<1>5. /\ \A k : k \in Latest(row.type) <=> k \in R /\ ledger[k].month = Max(months(like(k)))
      /\ \A k : k \in Latest(row.type)' <=> k \in R2 /\ ledger'[k].month = Max(months2(like2(k)))
    BY DEF Latest, MonthsOf
<1>6. row.month \in Int /\ \A j \in R : ledger[j].month \in Int
    <2>1. \A r \in Row : r.month \in Months
        BY DEF Row
    <2>2. \A j \in DOMAIN ledger : ledger[j] \in Row
        BY DEF Inv, TypeOK
    <2> HIDE DEF R
    <2>3. \A j \in R : ledger[j].month \in Months
        BY <1>2, <2>1, <2>2
    <2>4. Months \subseteq Int
        BY NumbersAssumption
    <2>5. row.month \in Int
        BY <2>1, <2>4
    <2>6. \A j \in R : ledger[j].month \in Int
        BY <2>3, <2>4
    <2>7. QED BY <2>5, <2>6
<1>7. \A k \in stream \cup {i} : like2(k) = stream \cup {i}
    BY <1>2, <1>3, <1>4
<1>8. Max(months2(stream \cup {i})) = row.month
    <2> HIDE DEF R, R2
    <2>0. /\ \A j \in stream : ledger'[j].month = ledger[j].month /\ ledger[j].month \in Int
          /\ \A j \in stream : ledger[j].month < row.month
        BY <1>2, <1>3, <1>6
    <2>1. months2(stream \cup {i}) = months(stream) \cup {row.month}
        BY <1>4, <2>0
    <2>2. months(stream) \cup {row.month} \in SUBSET Int
        BY <1>6, <2>0
    <2>3. \A x \in months(stream) \cup {row.month} : x <= row.month
        <3>1. row.month <= row.month
            BY <1>6
        <3>2. \A j \in stream : ledger[j].month <= row.month
            <4>1. SUFFICES ASSUME NEW j \in stream PROVE ledger[j].month <= row.month
                OBVIOUS
            <4>2. ledger[j].month \in Int /\ ledger[j].month < row.month
                BY <2>0
            <4>3. QED BY <1>6, <4>2
        <3>3. QED BY <3>1, <3>2
    <2>4. Max(months(stream) \cup {row.month}) = row.month
        <3> DEFINE T == months(stream) \cup {row.month}
        <3>1. row.month \in T
            OBVIOUS
        <3> HIDE DEF T, months
        <3>2. QED BY <2>2, <2>3, <3>1, GreatestIs DEF T
    <2>5. QED BY <2>1, <2>4
<1>9. ASSUME NEW k \in R \ stream PROVE k \in Latest(row.type)' <=> k \in Latest(row.type)
    <2>1. like2(k) = like(k)
        BY <1>2, <1>3, <1>4
    <2>2. months2(like(k)) = months(like(k))
        BY <1>3
    <2>3. ledger'[k].month = ledger[k].month /\ k \in R /\ k \in R2
        BY <1>2, <1>3
    <2> HIDE DEF months, months2, like, like2
    <2>4. QED BY <1>5, <2>1, <2>2, <2>3
<1>10. ASSUME NEW k \in stream PROVE k \notin Latest(row.type)'
    <2>1. like2(k) = stream \cup {i} /\ ledger'[k].month = ledger[k].month
        BY <1>2, <1>3, <1>7
    <2>2. ledger[k].month < row.month /\ ledger[k].month \in Int
        BY <1>2, <1>6
    <2> HIDE DEF R2, months2, like2
    <2>3. k \in Latest(row.type)' => ledger'[k].month = row.month
        BY <1>5, <1>8, <2>1
    <2>4. QED BY <1>6, <2>1, <2>2, <2>3
<1>11. i \in Latest(row.type)'
    <2>1. like2(i) = stream \cup {i} /\ i \in R2
        BY <1>2, <1>7
    <2> HIDE DEF months2, like2
    <2>2. QED BY <1>4, <1>5, <1>8, <2>1
<1> HIDE DEF R, R2
<1>12. \A k : k \in Latest(row.type)' <=> k \in (Latest(row.type) \ stream) \cup {i}
    <2>1. \A k \in Latest(row.type)' : k \in R \cup {i}
        BY <1>2, <1>5
    <2>2. \A k \in Latest(row.type) : k \in R
        BY <1>5
    <2>3. QED BY <1>2, <1>9, <1>10, <1>11, <2>1, <2>2
<1>13. QED BY <1>12

(* ADR-0008, for any ledger: a later payment of a category replaces what the       *)
(* forecast's base had for it.                                                     *)
THEOREM RenewalReplaces == Spec => RenewalReplacesRate
<1>1. ASSUME Inv, [Next]_vars, NEW type \in {"income", "expense"},
             NEW i \in DOMAIN ledger' \ DOMAIN ledger, NEW stream,
             stream = {j \in Rows(type, TRUE) :
                          Stream(j) = <<type, ledger'[i].category, ledger'[i].currency>>},
             ledger'[i].type = type, ledger'[i].recurring,
             \A j \in stream : ledger[j].month < ledger'[i].month
      PROVE  Rate(type)' = Rate(type) - Sum(Latest(type) \cap stream) + ledger'[i].amount
    <2> DEFINE L == Latest(type)
               f == AmountOf
               g == AmountOf'
               row == ledger'[i]
    <2>1. PICK j \in Ids, r \in Row : Record(j, r)
        BY <1>1 DEF Next, Change, Edit, Delete, Read, Reads, Return, vars,
            ReadIncomeRate, ReadExpenseRate, ReadIncome, ReadExtraIncome, ReadExtraExpense
    <2>2. /\ Record(i, row) /\ row \in Row /\ i \in Ids
          /\ DOMAIN ledger' = DOMAIN ledger \cup {i}
          /\ \A k \in DOMAIN ledger : ledger'[k] = ledger[k]
        <3>1. j = i /\ r = row
            BY <1>1, <2>1 DEF Record
        <3>2. QED BY <2>1, <3>1 DEF Record
    <2>3. Latest(type)' = (L \ stream) \cup {i}
        <3>1. r = row /\ i = j
            BY <1>1, <2>1 DEF Record
        <3>2. r.recurring = TRUE /\ r.type = type
            BY <1>1, <3>1, RowForm
        <3>3. /\ Record(i, r) /\ i \in Ids /\ r \in Row
              /\ \A k \in stream : ledger[k].month < r.month
              /\ \A k : k \in stream <=> k \in Rows(r.type, TRUE) /\ Stream(k) = <<r.type, r.category, r.currency>>
            BY <1>1, <2>1, <3>1, <3>2
        <3>4. Latest(r.type)' = (Latest(r.type) \ stream) \cup {i}
            BY <1>1, <3>2, <3>3, LatestAfter
        <3>5. QED BY <3>2, <3>4
    <2>4. /\ L \subseteq DOMAIN ledger /\ IsFiniteSet(L \ stream) /\ IsFiniteSet(L \cap stream)
          /\ \A k \in L : f[k] \in Nat /\ g[k] = f[k]
          /\ i \notin L /\ g[i] = row.amount
        <3>1. L \in SUBSET DOMAIN ledger
            BY DEF Latest, Rows
        <3>2. IsFiniteSet(L) /\ \A k \in L : f[k] \in Nat /\ f[k] = ledger[k].amount
            BY <1>1, <3>1, RowsFinite DEF Inv
        <3>3. \A k \in DOMAIN ledger' : g[k] = ledger'[k].amount
            BY DEF AmountOf
        <3>4. QED BY <1>1, <2>2, <3>1, <3>2, <3>3, FS_Subset
    <2>5. row.amount \in Nat
        BY <2>2, NumbersAssumption DEF Row
    <2> DEFINE rest == SumFunctionOnSet(f, L \ stream)
               old == SumFunctionOnSet(f, L \cap stream)
    <2> HIDE DEF L, f, g, row
    <2>6. rest \in Nat /\ old \in Nat
        BY <2>4, SumNat
    <2>7. SumFunctionOnSet(f, L) = rest + old
        <3>1. L = (L \ stream) \cup (L \cap stream) /\ (L \ stream) \cap (L \cap stream) = {}
            OBVIOUS
        <3>2. \A k \in (L \ stream) \cup (L \cap stream) : f[k] \in Int
            BY <2>4
        <3>3. SumFunctionOnSet(f, (L \ stream) \cup (L \cap stream)) = rest + old
            BY <2>4, <3>1, <3>2, SumUnion
        <3>4. QED BY <3>1, <3>3
    <2>8. SumFunctionOnSet(g, (L \ stream) \cup {i}) = row.amount + rest
        <3>1. \A k \in L \ stream : g[k] \in Int /\ g[k] = f[k]
            BY <2>4
        <3>2. SumFunctionOnSet(g, L \ stream) = rest
            BY <2>4, <3>1, SumCongruent
        <3>3. i \notin L \ stream /\ \A k \in (L \ stream) \cup {i} : g[k] \in Int
            BY <2>4, <2>5, <3>1
        <3>4. SumFunctionOnSet(g, (L \ stream) \cup {i}) = g[i] + SumFunctionOnSet(g, L \ stream)
            BY <2>4, <3>3, SumInsert
        <3>5. QED BY <2>4, <3>2, <3>4
    <2>9. /\ Rate(type) = SumFunctionOnSet(f, L) /\ Sum(L \cap stream) = old
          /\ Rate(type)' = SumFunctionOnSet(g, (L \ stream) \cup {i})
        BY <2>3 DEF Rate, Sum, L, f, g
    <2> HIDE DEF rest, old
    <2>10. Rate(type)' = Rate(type) - Sum(L \cap stream) + row.amount
        BY <2>5, <2>6, <2>7, <2>8, <2>9
    <2>11. QED BY <2>10 DEF L, row
<1>2. ASSUME Inv, [Next]_vars
      PROVE  [\A type \in {"income", "expense"}, i \in DOMAIN ledger' \ DOMAIN ledger :
                LET row == ledger'[i]
                    stream == {j \in Rows(type, TRUE) :
                                  Stream(j) = <<type, row.category, row.currency>>}
                IN  row.type = type /\ row.recurring /\ (\A j \in stream : ledger[j].month < row.month)
                    => Rate(type)' = Rate(type) - Sum(Latest(type) \cap stream) + row.amount]_vars
    BY <1>1, <1>2
<1>3. QED BY <1>2, Always, PTL DEF Spec, RenewalReplacesRate
----------------------------------------------------------------------------
(* Sets of numbers listed in order: ranks, and the last w of them.               *)
Lists(v, n, S) ==
    /\ v \in [1 .. n -> S] /\ S \in SUBSET Int
    /\ \A i, j \in 1 .. n : i < j <=> v[i] < v[j]
    /\ \A x \in S : \E i \in 1 .. n : v[i] = x

LEMMA ListOf ==
    ASSUME NEW v, NEW n \in Nat, NEW A, Lists(v, n, A),
           NEW a \in 1 .. n + 1, NEW b \in 0 .. n, a <= b + 1,
           NEW T, \A x : x \in T <=> \E i \in a .. b : x = v[i]
    PROVE  IsFiniteSet(T) /\ Cardinality(T) = b - a + 1
<1>1. \A i \in a .. b : i \in 1 .. n
    OBVIOUS
<1>2. \A i, j \in 1 .. n : v[i] = v[j] => i = j
    <2>1. SUFFICES ASSUME NEW i \in 1 .. n, NEW j \in 1 .. n, v[i] = v[j] PROVE i = j
        OBVIOUS
    <2>2. v[i] \in Int
        BY DEF Lists
    <2>3. ~(v[i] < v[j]) /\ ~(v[j] < v[i])
        BY <2>1, <2>2
    <2>4. ~(i < j) /\ ~(j < i)
        BY <2>3 DEF Lists
    <2>5. QED BY <2>4
<1> DEFINE f == [i \in a .. b |-> v[i]]
<1>3. f \in Bijection(a .. b, T)
    BY <1>1, <1>2 DEF Bijection, Injection, Surjection, IsInjective
<1>4. IsFiniteSet(a .. b) /\ Cardinality(a .. b) = b - a + 1
    <2>1. a \in Int /\ b \in Int
        OBVIOUS
    <2>2. IsFiniteSet(a .. b) /\ Cardinality(a .. b) = IF a > b THEN 0 ELSE b - a + 1
        BY <2>1, FS_Interval
    <2>3. a > b => b - a + 1 = 0
        OBVIOUS
    <2>4. QED BY <2>2, <2>3
<1> HIDE DEF f
<1>5. QED BY <1>3, <1>4, FS_Bijection DEF ExistsBijection

LEMMA Listed ==
    ASSUME NEW v, NEW n \in Nat, NEW S, Lists(v, n, S)
    PROVE  IsFiniteSet(S) /\ Cardinality(S) = n
<1>1. \A x : x \in S <=> \E i \in 1 .. n : x = v[i]
    BY DEF Lists
<1>2. 1 \in 1 .. n + 1 /\ n \in 0 .. n /\ 1 <= n + 1 /\ n - 1 + 1 = n
    OBVIOUS
<1>3. IsFiniteSet(S) /\ Cardinality(S) = n - 1 + 1
    BY <1>1, <1>2, ListOf
<1>4. QED BY <1>2, <1>3

LEMMA RankBelow ==
    ASSUME NEW v, NEW n \in Nat, NEW S, Lists(v, n, S), NEW k \in 1 .. n,
           NEW T, \A x : x \in T <=> x \in S /\ x < v[k]
    PROVE  Cardinality(T) = k - 1
<1>1. \A x : x \in T <=> \E i \in 1 .. k - 1 : x = v[i]
    <2>1. \A i \in 1 .. k - 1 : i \in 1 .. n /\ i < k
        OBVIOUS
    <2>2. \A i \in 1 .. n : i < k => i \in 1 .. k - 1
        OBVIOUS
    <2>3. \A i \in 1 .. n : v[i] \in S /\ (i < k <=> v[i] < v[k])
        BY DEF Lists
    <2>4. \A i \in 1 .. k - 1 : v[i] \in T
        BY <2>1, <2>3
    <2>5. \A x \in T : \E i \in 1 .. n : v[i] = x
        BY DEF Lists
    <2>6. QED BY <2>2, <2>3, <2>4, <2>5
<1>2. 1 \in 1 .. n + 1 /\ k - 1 \in 0 .. n /\ 1 <= (k - 1) + 1 /\ (k - 1) - 1 + 1 = k - 1
    OBVIOUS
<1>3. Cardinality(T) = (k - 1) - 1 + 1
    BY <1>1, <1>2, ListOf
<1>4. QED BY <1>2, <1>3

LEMMA RankAbove ==
    ASSUME NEW v, NEW n \in Nat, NEW S, Lists(v, n, S), NEW k \in 1 .. n,
           NEW T, \A x : x \in T <=> x \in S /\ x > v[k]
    PROVE  Cardinality(T) = n - k
<1>1. \A x : x \in T <=> \E i \in k + 1 .. n : x = v[i]
    <2>1. \A i \in k + 1 .. n : i \in 1 .. n /\ k < i
        OBVIOUS
    <2>2. \A i \in 1 .. n : k < i => i \in k + 1 .. n
        OBVIOUS
    <2>3. /\ v[k] \in Int /\ \A x \in S : x \in Int
          /\ \A i \in 1 .. n : v[i] \in S /\ (k < i <=> v[k] < v[i])
        BY DEF Lists
    <2>4. \A x \in S : x > v[k] <=> v[k] < x
        BY <2>3
    <2>5. \A i \in k + 1 .. n : v[i] \in T
        BY <2>1, <2>3, <2>4
    <2>6. \A x \in T : v[k] < x /\ \E i \in 1 .. n : v[i] = x
        BY <2>4 DEF Lists
    <2>7. QED BY <2>2, <2>3, <2>5, <2>6
<1>2. k + 1 \in 1 .. n + 1 /\ n \in 0 .. n /\ k + 1 <= n + 1 /\ n - (k + 1) + 1 = n - k
    OBVIOUS
<1>3. Cardinality(T) = n - (k + 1) + 1
    BY <1>1, <1>2, ListOf
<1>4. QED BY <1>2, <1>3

LEMMA SortedLists ==
    ASSUME NEW S \in SUBSET Int, IsFiniteSet(S)
    PROVE  Lists(Sorted(S), Cardinality(S), S) /\ Cardinality(S) \in Nat
           /\ Len(Sorted(S)) = Cardinality(S)
<1> DEFINE v == Sorted(S)
           n == Cardinality(S)
<1>1. /\ n \in Nat /\ v \in [1 .. n -> S] /\ Len(v) = n
      /\ \A i, j \in 1 .. n : i < j => v[i] < v[j]
      /\ \A x \in S : \E i \in 1 .. n : v[i] = x
    BY SortedForm
<1> HIDE DEF v, n
<1>2. ASSUME NEW i \in 1 .. n, NEW j \in 1 .. n, v[i] < v[j] PROVE i < j
    <2>1. v[i] \in Int /\ v[j] \in Int
        BY <1>1
    <2>2. ~(j < i) /\ i # j
        BY <1>1, <1>2, <2>1
    <2>3. QED BY <2>2
<1>3. Lists(v, n, S)
    BY <1>1, <1>2 DEF Lists
<1>4. QED BY <1>1, <1>3 DEF v, n

(* The elements that fewer than w are greater than are the last ones.            *)
LastOnes(S, w) == {m \in S : Cardinality({x \in S : x > m}) < w}
TailLength(l, n, w) == l = IF n < w THEN n ELSE w
TailOf(e, n, l) == [k \in 1 .. l |-> e[n - l + k]]

LEMMA LastOf ==
    ASSUME NEW e, NEW n \in Nat, NEW S, Lists(e, n, S), NEW w \in Nat \ {0}, NEW l, TailLength(l, n, w)
    PROVE  Lists(TailOf(e, n, l), l, LastOnes(S, w)) /\ l \in Nat
<1> DEFINE W == {m \in S : Cardinality({x \in S : x > m}) < w}
           v == [k \in 1 .. l |-> e[n - l + k]]
<1>0. l = IF n < w THEN n ELSE w
    BY DEF TailLength
<1>1. l \in 0 .. n /\ \A k \in 1 .. l : n - l + k \in 1 .. n
    BY <1>0
<1>2. \A j \in 1 .. n : e[j] \in W <=> n - j < w
    <2>1. ASSUME NEW j \in 1 .. n PROVE Cardinality({x \in S : x > e[j]}) = n - j
        <3> DEFINE T == {x \in S : x > e[j]}
        <3>1. \A x : x \in T <=> x \in S /\ x > e[j]
            OBVIOUS
        <3> HIDE DEF T
        <3>2. Cardinality(T) = n - j
            BY <3>1, RankAbove
        <3>3. QED BY <3>2 DEF T
    <2>2. \A j \in 1 .. n : e[j] \in S
        BY DEF Lists
    <2>3. QED BY <2>1, <2>2
<1>3. \A k \in 1 .. l : v[k] = e[n - l + k] /\ v[k] \in W
    BY <1>0, <1>1, <1>2
<1>4. W \in SUBSET S /\ S \in SUBSET Int /\ DOMAIN v = 1 .. l
    BY DEF Lists
<1> HIDE DEF W
<1>5. v \in [1 .. l -> W]
    BY <1>3
<1>6. ASSUME NEW x \in W PROVE \E k \in 1 .. l : v[k] = x
    <2>1. PICK j \in 1 .. n : e[j] = x
        BY <1>4 DEF Lists
    <2>2. n - j < w
        BY <1>2, <2>1
    <2>3. j - (n - l) \in 1 .. l /\ n - l + (j - (n - l)) = j
        BY <1>0, <1>1, <2>2
    <2>4. QED BY <1>3, <2>1, <2>3
<1>7. \A i, j \in 1 .. l : i < j <=> v[i] < v[j]
    <2>1. SUFFICES ASSUME NEW i \in 1 .. l, NEW j \in 1 .. l PROVE i < j <=> v[i] < v[j]
        OBVIOUS
    <2>2. n - l + i < n - l + j <=> i < j
        BY <1>1
    <2>3. n - l + i \in 1 .. n /\ n - l + j \in 1 .. n /\ v[i] = e[n - l + i] /\ v[j] = e[n - l + j]
        BY <1>1
    <2> HIDE DEF v
    <2>4. QED BY <2>2, <2>3 DEF Lists
<1> HIDE DEF v
<1>8. Lists(v, l, W)
    BY <1>4, <1>5, <1>6, <1>7 DEF Lists
<1>9. QED BY <1>1, <1>8 DEF v, W, TailOf, LastOnes
----------------------------------------------------------------------------
(* Sums over 1 .. n, and over the pairs of 1 .. n.                               *)
LEMMA PrefixSum ==
    ASSUME NEW n \in Nat, NEW f, \A i \in 1 .. n + 1 : f[i] \in Int
    PROVE  /\ SumFunctionOnSet(f, 1 .. n + 1) = SumFunctionOnSet(f, 1 .. n) + f[n + 1]
           /\ SumFunctionOnSet(f, 1 .. n) \in Int /\ f[n + 1] \in Int
           /\ SumFunctionOnSet(f, 1 .. 0) = 0
<1>1. IsFiniteSet(1 .. n)
    BY FS_Interval
<1>2. 1 .. n + 1 = (1 .. n) \cup {n + 1} /\ n + 1 \notin 1 .. n /\ n + 1 \in 1 .. n + 1
    OBVIOUS
<1>3. SumFunctionOnSet(f, (1 .. n) \cup {n + 1}) = f[n + 1] + SumFunctionOnSet(f, 1 .. n)
    BY <1>1, <1>2, SumInsert
<1>4. SumFunctionOnSet(f, 1 .. n) \in Int
    BY <1>1, <1>2, SumType
<1>5. f[n + 1] \in Int
    BY <1>2
<1>6. 1 .. 0 = {}
    OBVIOUS
<1>7. SumFunctionOnSet(f, 1 .. 0) = 0
    BY <1>6, SumEmpty
<1> DEFINE a == SumFunctionOnSet(f, 1 .. n)
           b == f[n + 1]
<1>8. SumFunctionOnSet(f, 1 .. n + 1) = b + a
    BY <1>2, <1>3
<1>9. a \in Int /\ b \in Int
    BY <1>4, <1>5
<1>10. SumFunctionOnSet(f, 1 .. n + 1) = a + b
    <2> HIDE DEF a, b
    <2>1. QED BY <1>8, <1>9
<1>11. QED BY <1>4, <1>5, <1>7, <1>10

Products(h, n, a, b, c, d, s) == \A i \in 1 .. n : h[i] = (a * i + b) * (c * s[i] + d)
Weighted(u, t, n, s) == \A i \in 1 .. n : s[i] \in Int /\ t[i] = i /\ u[i] = i * s[i]

(* The sum of products of two lines, one in i and one in s[i].                   *)
LEMMA SumOfProducts ==
    ASSUME NEW n \in Nat, NEW s, NEW t, NEW u, Weighted(u, t, n, s),
           NEW a \in Int, NEW b \in Int, NEW c \in Int, NEW d \in Int,
           NEW h, Products(h, n, a, b, c, d, s)
    PROVE  /\ SumFunctionOnSet(h, 1 .. n)
                = (a * c) * SumFunctionOnSet(u, 1 .. n) + (a * d) * SumFunctionOnSet(t, 1 .. n)
                    + (b * c) * SumFunctionOnSet(s, 1 .. n) + n * (b * d)
           /\ 2 * SumFunctionOnSet(t, 1 .. n) = n * (n + 1)
           /\ SumFunctionOnSet(u, 1 .. n) \in Int /\ SumFunctionOnSet(t, 1 .. n) \in Int
           /\ SumFunctionOnSet(s, 1 .. n) \in Int
<1> DEFINE S(j) == SumFunctionOnSet(s, 1 .. j)
           T(j) == SumFunctionOnSet(t, 1 .. j)
           U(j) == SumFunctionOnSet(u, 1 .. j)
           H(j) == SumFunctionOnSet(h, 1 .. j)
           P == {j \in Nat : j <= n =>
                    /\ H(j) = (a * c) * U(j) + (a * d) * T(j) + (b * c) * S(j) + j * (b * d)
                    /\ 2 * T(j) = j * (j + 1)
                    /\ U(j) \in Int /\ T(j) \in Int /\ S(j) \in Int}
<1>1. \A i \in 1 .. n : s[i] \in Int /\ t[i] \in Int /\ u[i] \in Int /\ h[i] \in Int
    BY DEF Weighted, Products
<1>2. 0 \in P
    <2>1. 1 .. 0 = {}
        OBVIOUS
    <2>2. S(0) = 0 /\ T(0) = 0 /\ U(0) = 0 /\ H(0) = 0
        BY <2>1, SumEmpty
    <2> HIDE DEF S, T, U, H
    <2>3. QED BY <2>2
<1>3. ASSUME NEW j \in Nat, j \in P PROVE j + 1 \in P
    <2>1. SUFFICES ASSUME j + 1 <= n
                   PROVE  /\ H(j + 1) = (a * c) * U(j + 1) + (a * d) * T(j + 1)
                                          + (b * c) * S(j + 1) + (j + 1) * (b * d)
                          /\ 2 * T(j + 1) = (j + 1) * ((j + 1) + 1)
                          /\ U(j + 1) \in Int /\ T(j + 1) \in Int /\ S(j + 1) \in Int
        OBVIOUS
    <2>2. \A i \in 1 .. j + 1 : i \in 1 .. n
        BY <2>1
    <2>3. j + 1 \in 1 .. n
        BY <2>1
    <2>4. S(j + 1) = S(j) + s[j + 1] /\ S(j) \in Int
        BY <1>1, <2>2, PrefixSum
    <2>5. T(j + 1) = T(j) + t[j + 1] /\ T(j) \in Int
        BY <1>1, <2>2, PrefixSum
    <2>6. U(j + 1) = U(j) + u[j + 1] /\ U(j) \in Int
        BY <1>1, <2>2, PrefixSum
    <2>7. H(j + 1) = H(j) + h[j + 1] /\ H(j) \in Int
        BY <1>1, <2>2, PrefixSum
    <2>8. /\ H(j) = (a * c) * U(j) + (a * d) * T(j) + (b * c) * S(j) + j * (b * d)
          /\ 2 * T(j) = j * (j + 1)
        BY <1>3, <2>1
    <2>9. /\ t[j + 1] = j + 1 /\ u[j + 1] = (j + 1) * s[j + 1] /\ s[j + 1] \in Int
          /\ h[j + 1] = (a * (j + 1) + b) * (c * s[j + 1] + d)
        BY <2>3 DEF Weighted, Products
    <2> DEFINE x == s[j + 1]
               Sj == S(j)
               Tj == T(j)
               Uj == U(j)
               Hj == H(j)
    <2>10. /\ S(j + 1) = Sj + x /\ T(j + 1) = Tj + (j + 1) /\ U(j + 1) = Uj + (j + 1) * x
           /\ H(j + 1) = Hj + (a * (j + 1) + b) * (c * x + d)
           /\ Hj = (a * c) * Uj + (a * d) * Tj + (b * c) * Sj + j * (b * d)
           /\ 2 * Tj = j * (j + 1)
           /\ x \in Int /\ Sj \in Int /\ Tj \in Int /\ Uj \in Int
        BY <2>4, <2>5, <2>6, <2>7, <2>8, <2>9
    <2> HIDE DEF x, Sj, Tj, Uj, Hj, S, T, U, H
    <2>11. H(j + 1) = (a * c) * U(j + 1) + (a * d) * T(j + 1) + (b * c) * S(j + 1) + (j + 1) * (b * d)
        BY <2>10
    <2>12. 2 * T(j + 1) = (j + 1) * ((j + 1) + 1)
        BY <2>10
    <2>13. U(j + 1) \in Int /\ T(j + 1) \in Int /\ S(j + 1) \in Int
        <3>1. (j + 1) * x \in Int /\ j + 1 \in Int
            BY <2>10
        <3>2. QED BY <2>10, <3>1
    <2>14. QED BY <2>11, <2>12, <2>13
<1>4. n \in P
    <2> HIDE DEF P
    <2>1. \A j \in Nat : j \in P => j + 1 \in P
        BY <1>3
    <2>2. QED BY <1>2, <2>1, NatSetInduction
<1>5. QED BY <1>4

LEMMA SumReindexed ==
    ASSUME NEW A, IsFiniteSet(A), NEW v, NEW f, NEW g,
           NEW B, \A y : y \in B <=> \E x \in A : y = v[x],
           \A x, y \in A : v[x] = v[y] => x = y,
           \A x \in A : f[v[x]] \in Int /\ g[x] = f[v[x]]
    PROVE  SumFunctionOnSet(f, B) = SumFunctionOnSet(g, A)
<1> DEFINE image(s) == {v[x] : x \in s}
           P == {s \in SUBSET A : SumFunctionOnSet(f, image(s)) = SumFunctionOnSet(g, s)}
<1>1. {} \in P
    <2>1. image({}) = {}
        OBVIOUS
    <2>2. QED BY <2>1, SumEmpty
<1>2. ASSUME NEW s \in SUBSET A, NEW x \in A, s \in P, x \notin s
      PROVE  s \cup {x} \in P
    <2>1. IsFiniteSet(s) /\ \A y \in s \cup {x} : g[y] \in Int
        BY FS_Subset
    <2>2. image(s \cup {x}) = image(s) \cup {v[x]} /\ v[x] \notin image(s)
        BY <1>2
    <2>3. IsFiniteSet(image(s))
        BY <2>1, FiniteImage
    <2>4. \A y \in image(s) \cup {v[x]} : f[y] \in Int
        OBVIOUS
    <2>5. SumFunctionOnSet(g, s \cup {x}) = g[x] + SumFunctionOnSet(g, s)
        BY <1>2, <2>1, SumInsert
    <2>6. SumFunctionOnSet(f, image(s)) = SumFunctionOnSet(g, s)
        BY <1>2
    <2> HIDE DEF image
    <2>7. SumFunctionOnSet(f, image(s) \cup {v[x]}) = f[v[x]] + SumFunctionOnSet(f, image(s))
        BY <2>2, <2>3, <2>4, SumInsert
    <2>8. SumFunctionOnSet(f, image(s \cup {x})) = SumFunctionOnSet(g, s \cup {x})
        BY <2>2, <2>5, <2>6, <2>7
    <2>9. QED BY <2>8
<1>3. SUBSET A \subseteq P
    <2> HIDE DEF P
    <2>1. \A s \in SUBSET A, x \in A : s \in P /\ x \notin s => s \cup {x} \in P
        BY <1>2
    <2>2. QED BY ONLY <1>1, <2>1, IsFiniteSet(A), SubsetGrowth
<1>4. A \in P
    BY <1>3
<1>5. image(A) = B
    OBVIOUS
<1>6. QED BY <1>4, <1>5

PairsOf(n) == {p \in (1 .. n) \X (1 .. n) : p[1] < p[2]}

LEMMA PairsFinite == ASSUME NEW n \in Nat PROVE IsFiniteSet(PairsOf(n))
<1>1. IsFiniteSet(1 .. n)
    BY FS_Interval
<1>2. IsFiniteSet((1 .. n) \X (1 .. n))
    BY <1>1, FS_Product
<1>3. QED BY <1>2, FS_Subset DEF PairsOf

(* The pairs' gaps in i times their gaps in s, which is what least squares does:  *)
(* twice it is n times (twice the sum of i * s[i] less n + 1 times that of s).    *)
LEMMA PairIdentity ==
    ASSUME NEW n \in Nat, NEW s, NEW t, NEW u, Weighted(u, t, n, s),
           NEW h, \A p \in PairsOf(n) : h[p] = (p[2] - p[1]) * (s[p[2]] - s[p[1]])
    PROVE  /\ 2 * SumFunctionOnSet(h, PairsOf(n))
                = n * (2 * SumFunctionOnSet(u, 1 .. n) - (n + 1) * SumFunctionOnSet(s, 1 .. n))
           /\ SumFunctionOnSet(h, PairsOf(n)) \in Int
<1> DEFINE S(j) == SumFunctionOnSet(s, 1 .. j)
           U(j) == SumFunctionOnSet(u, 1 .. j)
           H(j) == SumFunctionOnSet(h, PairsOf(j))
           P == {j \in Nat : j <= n =>
                    2 * H(j) = j * (2 * U(j) - (j + 1) * S(j)) /\ H(j) \in Int}
<1>1. \A p \in PairsOf(n) : h[p] \in Int
    BY DEF PairsOf, Weighted
<1>2. 0 \in P
    <2>1. 1 .. 0 = {} /\ PairsOf(0) = {}
        BY DEF PairsOf
    <2>2. S(0) = 0 /\ U(0) = 0 /\ H(0) = 0
        BY <2>1, SumEmpty
    <2> HIDE DEF S, U, H
    <2>3. QED BY <2>2
<1>3. ASSUME NEW j \in Nat, j \in P PROVE j + 1 \in P
    <2>1. SUFFICES ASSUME j + 1 <= n
                   PROVE  2 * H(j + 1) = (j + 1) * (2 * U(j + 1) - ((j + 1) + 1) * S(j + 1)) /\ H(j + 1) \in Int
        OBVIOUS
    <2> DEFINE x == s[j + 1]
               v == [i \in 1 .. j |-> <<i, j + 1>>]
               new == {v[i] : i \in 1 .. j}
               neg == -1
               next == j + 1
               g == [i \in 1 .. j |-> (neg * i + next) * (neg * s[i] + x)]
    <2>2. \A i \in 1 .. j + 1 : i \in 1 .. n /\ s[i] \in Int /\ u[i] \in Int /\ u[i] = i * s[i]
        BY <2>1 DEF Weighted
    <2>3. x \in Int /\ u[j + 1] = (j + 1) * x /\ j + 1 \in 1 .. n
        BY <2>1 DEF Weighted
    <2>4. PairsOf(j + 1) = PairsOf(j) \cup new /\ PairsOf(j) \cap new = {}
        <3>1. \A p \in PairsOf(j + 1) : p[2] # j + 1 => p \in PairsOf(j)
            BY DEF PairsOf
        <3>2. \A p \in PairsOf(j + 1) : p[2] = j + 1 => p[1] \in 1 .. j /\ p = <<p[1], j + 1>>
            BY DEF PairsOf
        <3>3. \A p \in PairsOf(j) : p \in PairsOf(j + 1) /\ p[2] # j + 1
            BY DEF PairsOf
        <3>4. \A i \in 1 .. j : v[i] = <<i, j + 1>> /\ v[i] \in PairsOf(j + 1)
            BY DEF PairsOf
        <3> HIDE DEF v
        <3>5. \A p \in PairsOf(j + 1) : p \in PairsOf(j) \cup new
            BY <3>1, <3>2, <3>4
        <3>6. new \subseteq PairsOf(j + 1) /\ PairsOf(j) \subseteq PairsOf(j + 1)
            BY <3>3, <3>4
        <3>7. \A p \in new : p[2] = j + 1
            BY <3>4
        <3>8. QED BY <3>3, <3>5, <3>6, <3>7
    <2>5. PairsOf(j + 1) \subseteq PairsOf(n)
        BY <2>1 DEF PairsOf
    <2>6. H(j + 1) = H(j) + SumFunctionOnSet(h, new)
        <3>1. IsFiniteSet(PairsOf(j)) /\ IsFiniteSet(PairsOf(j + 1))
            BY PairsFinite
        <3>2. IsFiniteSet(new)
            BY <2>4, <3>1, FS_Subset
        <3>3. \A p \in PairsOf(j) \cup new : h[p] \in Int
            BY <1>1, <2>4, <2>5
        <3> HIDE DEF new
        <3>4. SumFunctionOnSet(h, PairsOf(j) \cup new) = H(j) + SumFunctionOnSet(h, new)
            BY <2>4, <3>1, <3>2, <3>3, SumUnion
        <3>5. QED BY <2>4, <3>4
    <2>7. SumFunctionOnSet(h, new) = SumFunctionOnSet(g, 1 .. j)
        <3>1. IsFiniteSet(1 .. j)
            BY FS_Interval
        <3>2. \A i, k \in 1 .. j : v[i] = v[k] => i = k
            OBVIOUS
        <3>3. ASSUME NEW i \in 1 .. j PROVE h[v[i]] \in Int /\ g[i] = h[v[i]]
            <4>1. <<i, j + 1>> \in PairsOf(n)
                BY <2>1 DEF PairsOf
            <4>2. h[<<i, j + 1>>] = ((j + 1) - i) * (x - s[i]) /\ h[<<i, j + 1>>] \in Int
                BY <1>1, <4>1
            <4> HIDE DEF x
            <4>3. neg * i + next = (j + 1) - i /\ neg * s[i] + x = x - s[i]
                BY <2>2, <2>3
            <4> HIDE DEF neg, next
            <4>4. g[i] = (neg * i + next) * (neg * s[i] + x)
                OBVIOUS
            <4> HIDE DEF g
            <4>5. QED BY <4>2, <4>3, <4>4
        <3>4. \A y : y \in new <=> \E i \in 1 .. j : y = v[i]
            OBVIOUS
        <3> DEFINE A == 1 .. j
        <3>5. IsFiniteSet(A) /\ (\A y : y \in new <=> \E i \in A : y = v[i])
              /\ (\A i, k \in A : v[i] = v[k] => i = k)
              /\ (\A i \in A : h[v[i]] \in Int /\ g[i] = h[v[i]])
            BY <3>1, <3>2, <3>3, <3>4
        <3> HIDE DEF v, g, new, A
        <3>6. SumFunctionOnSet(h, new) = SumFunctionOnSet(g, A)
            BY <3>5, SumReindexed
        <3>7. QED BY <3>6 DEF A
    <2>8. /\ SumFunctionOnSet(g, 1 .. j)
               = (neg * neg) * U(j) + (neg * x) * SumFunctionOnSet(t, 1 .. j)
                   + (next * neg) * S(j) + j * (next * x)
          /\ 2 * SumFunctionOnSet(t, 1 .. j) = j * (j + 1)
          /\ U(j) \in Int /\ SumFunctionOnSet(t, 1 .. j) \in Int /\ S(j) \in Int
        <3>1. Weighted(u, t, j, s)
            BY <2>2 DEF Weighted
        <3>3. neg \in Int /\ next \in Int /\ x \in Int
            BY <2>3
        <3> HIDE DEF x, neg, next
        <3>2. \A i \in 1 .. j : g[i] = (neg * i + next) * (neg * s[i] + x)
            OBVIOUS
        <3> HIDE DEF g
        <3>4. Products(g, j, neg, next, neg, x, s)
            BY <3>2 DEF Products
        <3>5. QED BY <3>1, <3>3, <3>4, SumOfProducts
    <2>9. S(j + 1) = S(j) + x
        BY <2>2, PrefixSum
    <2>10. U(j + 1) = U(j) + u[j + 1]
        BY <2>2, PrefixSum
    <2>11. 2 * H(j) = j * (2 * U(j) - (j + 1) * S(j)) /\ H(j) \in Int
        BY <1>3, <2>1
    <2> DEFINE G == SumFunctionOnSet(g, 1 .. j)
               Tj == SumFunctionOnSet(t, 1 .. j)
               Sj == S(j)
               Uj == U(j)
               Hj == H(j)
    <2>12. /\ G = (neg * neg) * Uj + (neg * x) * Tj + (next * neg) * Sj + j * (next * x)
           /\ neg = -1 /\ next = j + 1
           /\ 2 * Tj = j * (j + 1) /\ Uj \in Int /\ Tj \in Int /\ Sj \in Int /\ Hj \in Int /\ x \in Int
           /\ S(j + 1) = Sj + x /\ U(j + 1) = Uj + (j + 1) * x
           /\ 2 * Hj = j * (2 * Uj - (j + 1) * Sj)
           /\ H(j + 1) = Hj + G
        BY <2>3, <2>6, <2>7, <2>8, <2>9, <2>10, <2>11
    <2> HIDE DEF x, S, U, H, G, Tj, Sj, Uj, Hj, neg, next
    <2>13. G = Uj - x * Tj - (j + 1) * Sj + j * ((j + 1) * x) /\ G \in Int
        BY <2>12
    <2>14. 2 * (x * Tj) = x * (j * (j + 1))
        BY <2>12
    <2>15. 2 * H(j + 1) = j * (2 * Uj - (j + 1) * Sj) + 2 * Uj - x * (j * (j + 1)) - 2 * ((j + 1) * Sj)
                            + 2 * (j * ((j + 1) * x))
        BY <2>12, <2>13, <2>14
    <2>16. 2 * H(j + 1) = (j + 1) * (2 * U(j + 1) - ((j + 1) + 1) * S(j + 1))
        BY <2>12, <2>15
    <2>17. H(j + 1) \in Int
        BY <2>12, <2>13
    <2>18. QED BY <2>16, <2>17
<1>4. n \in P
    <2> HIDE DEF P
    <2>1. \A j \in Nat : j \in P => j + 1 \in P
        BY <1>3
    <2>2. QED BY <1>2, <2>1, NatSetInduction
<1>5. QED BY <1>4

(* Quotients: one fact determines them, and a common factor changes nothing.     *)
LEMMA Quotient ==
    ASSUME NEW a \in Int, NEW b \in Nat \ {0}, NEW q \in Int, NEW r \in 0 .. b - 1, a = b * q + r
    PROVE  a \div b = q /\ a % b = r
<1> DEFINE p == a \div b
           t == a % b
<1>1. p \in Int /\ t \in 0 .. b - 1 /\ a = b * p + t
    BY DivMod
<1> HIDE DEF p, t
<1>2. \A x, y \in Int : x < y => b * x + b <= b * y
    <2>1. SUFFICES ASSUME NEW x \in Int, NEW y \in Int, x < y PROVE b * x + b <= b * y
        OBVIOUS
    <2> DEFINE d == y - x - 1
    <2>2. d \in Nat /\ y = x + 1 + d
        BY <2>1
    <2> HIDE DEF d
    <2>3. b * y = b * x + b + b * d /\ b * d \in Nat
        BY <2>2
    <2>4. QED BY <2>3
<1>3. ~(p < q)
    <2>1. SUFFICES ASSUME p < q PROVE FALSE
        OBVIOUS
    <2>2. b * p + b <= b * q /\ b * p \in Int /\ b * q \in Int
        BY <1>1, <1>2, <2>1
    <2>3. QED BY <1>1, <2>2
<1>4. ~(q < p)
    <2>1. SUFFICES ASSUME q < p PROVE FALSE
        OBVIOUS
    <2>2. b * q + b <= b * p /\ b * p \in Int /\ b * q \in Int
        BY <1>1, <1>2, <2>1
    <2>3. QED BY <1>1, <2>2
<1>5. p = q
    BY <1>1, <1>3, <1>4
<1>6. t = r
    <2>1. b * q \in Int /\ a = b * q + t
        BY <1>1, <1>5
    <2>2. QED BY <1>1, <2>1
<1>7. QED BY <1>5, <1>6 DEF p, t

LEMMA RoundedScaled ==
    ASSUME NEW x \in Int, NEW y \in Nat \ {0}
    PROVE  Rounded(<<4 * x, 4 * y>>) = Rounded(<<x, y>>)
<1> DEFINE q == x \div y
           r == x % y
<1>1. q \in Int /\ r \in 0 .. y - 1 /\ x = y * q + r
    BY DivMod
<1>2. Rounded(<<x, y>>) = IF 2 * r - y < 0 \/ (2 * r - y = 0 /\ q % 2 = 0) THEN q ELSE q + 1
    BY DEF Rounded
<1> HIDE DEF q, r
<1>3. (4 * x) \div (4 * y) = q /\ (4 * x) % (4 * y) = 4 * r
    <2> DEFINE a == 4 * x
               b == 4 * y
               t == 4 * r
    <2>1. a = b * q + t
        BY <1>1
    <2>2. a \in Int /\ b \in Nat \ {0} /\ t \in 0 .. b - 1
        BY <1>1
    <2> HIDE DEF a, b, t
    <2>3. a \div b = q /\ a % b = t
        BY <1>1, <2>1, <2>2, Quotient
    <2>4. QED BY <2>3 DEF a, b, t
<1>4. Rounded(<<4 * x, 4 * y>>)
        = IF 2 * (4 * r) - 4 * y < 0 \/ (2 * (4 * r) - 4 * y = 0 /\ q % 2 = 0) THEN q ELSE q + 1
    BY <1>3 DEF Rounded
<1>5. /\ 2 * (4 * r) - 4 * y < 0 <=> 2 * r - y < 0
      /\ 2 * (4 * r) - 4 * y = 0 <=> 2 * r - y = 0
    BY <1>1
<1>6. QED BY <1>2, <1>4, <1>5

(* Least squares, which the code does by deviations from the means, is the        *)
(* weighted mean of the slopes between two points.                                *)
RisesOf(h, n, s) == \A p \in PairsOf(n) : h[p] = (p[2] - p[1]) * (s[p[2]] - s[p[1]])
SquaresOf(g, n) == \A p \in PairsOf(n) : g[p] = (p[2] - p[1]) * (p[2] - p[1])

LEMMA LineFit ==
    ASSUME NEW n \in Nat \ {0, 1}, NEW s \in Seq(Int), Len(s) = n,
           NEW h, RisesOf(h, n, s), NEW g, SquaresOf(g, n)
    PROVE  /\ LinearTrendSlope(s) = <<4 * SumFunctionOnSet(h, PairsOf(n)),
                                      4 * SumFunctionOnSet(g, PairsOf(n))>>
           /\ SumFunctionOnSet(h, PairsOf(n)) \in Int
           /\ SumFunctionOnSet(g, PairsOf(n)) \in Nat \ {0}
<1> DEFINE t == [i \in 1 .. n |-> i]
           u == [i \in 1 .. n |-> i * s[i]]
           tt == [i \in 1 .. n |-> i * t[i]]
           S == SumFunctionOnSet(s, 1 .. n)
           T == SumFunctionOnSet(t, 1 .. n)
           U == SumFunctionOnSet(u, 1 .. n)
           V == SumFunctionOnSet(tt, 1 .. n)
           A == SumFunctionOnSet(h, PairsOf(n))
           B == SumFunctionOnSet(g, PairsOf(n))
           two == 2
           minus == -(n + 1)
           less == -S
           dx == [k \in 1 .. n |-> 2 * k - n - 1]
           dy == [k \in 1 .. n |-> n * s[k] - S]
           xy == [k \in 1 .. n |-> dx[k] * dy[k]]
           xx == [k \in 1 .. n |-> dx[k] * dx[k]]
<1>1. n \in Nat /\ n >= 2 /\ DOMAIN s = 1 .. n /\ \A i \in 1 .. n : s[i] \in Int
    OBVIOUS
<1>2. Weighted(u, t, n, s) /\ Weighted(tt, t, n, t)
    <2>1. \A i \in 1 .. n : s[i] \in Int /\ t[i] = i /\ u[i] = i * s[i] /\ tt[i] = i * t[i] /\ t[i] \in Int
        BY <1>1
    <2> HIDE DEF t, u, tt
    <2>2. QED BY <2>1 DEF Weighted
<1>3. S \in Int
    <2>1. IsFiniteSet(1 .. n)
        BY <1>1, FS_Interval
    <2>2. QED BY <1>1, <2>1, SumType
<1>4. /\ SumSeq(s) = S /\ SumSeq(xy) = SumFunctionOnSet(xy, 1 .. n)
      /\ SumSeq(xx) = SumFunctionOnSet(xx, 1 .. n)
    BY <1>1 DEF SumSeq, SumFunction
<1>5. LinearTrendSlope(s) = <<2 * SumFunctionOnSet(xy, 1 .. n), n * SumFunctionOnSet(xx, 1 .. n)>>
    BY <1>1, <1>4 DEF LinearTrendSlope
<1>6. 2 * A = n * (2 * U - (n + 1) * S) /\ A \in Int
    <2> HIDE DEF t, u
    <2>1. QED BY <1>1, <1>2, PairIdentity DEF RisesOf
<1>7. 2 * B = n * (2 * V - (n + 1) * T) /\ B \in Int
    <2>1. \A p \in PairsOf(n) : g[p] = (p[2] - p[1]) * (t[p[2]] - t[p[1]])
        BY DEF PairsOf, SquaresOf
    <2> HIDE DEF t, tt
    <2>2. QED BY <1>1, <1>2, <2>1, PairIdentity
<1> HIDE DEF t, u, tt
<1>8. Products(xy, n, two, minus, n, less, s)
    <2> HIDE DEF S
    <2>1. \A k \in 1 .. n : xy[k] = (2 * k - n - 1) * (n * s[k] - S)
        OBVIOUS
    <2>2. \A k \in 1 .. n : 2 * k - n - 1 = two * k + minus /\ n * s[k] - S = n * s[k] + less
        BY <1>1, <1>3
    <2> HIDE DEF xy, two, minus, less
    <2>3. QED BY <2>1, <2>2 DEF Products
<1>9. Products(xx, n, two, minus, two, minus, t)
    <2>1. \A k \in 1 .. n : xx[k] = (2 * k - n - 1) * (2 * k - n - 1)
        OBVIOUS
    <2>2. \A k \in 1 .. n : 2 * k - n - 1 = two * k + minus
        BY <1>1
    <2> HIDE DEF xx, two, minus
    <2>3. QED BY <1>2, <2>1, <2>2 DEF Products, Weighted
<1>10. two = 2 /\ minus = -(n + 1) /\ less = -S
    OBVIOUS
<1>19. two \in Int /\ minus \in Int /\ less \in Int /\ n \in Int /\ n \in Nat
    BY <1>1, <1>3
<1> DEFINE XY == SumFunctionOnSet(xy, 1 .. n)
           XX == SumFunctionOnSet(xx, 1 .. n)
<1> HIDE DEF xy, xx, two, minus, less
<1>11. /\ XY = (two * n) * U + (two * less) * T + (minus * n) * S + n * (minus * less)
       /\ 2 * T = n * (n + 1) /\ U \in Int /\ T \in Int
    BY <1>2, <1>8, <1>19, SumOfProducts
<1>12. /\ XX = (two * two) * V + (two * minus) * T + (minus * two) * T + n * (minus * minus)
       /\ V \in Int
    BY <1>2, <1>9, <1>19, SumOfProducts
<1>13. LinearTrendSlope(s) = <<2 * XY, n * XX>>
    BY <1>5
<1> HIDE DEF S, T, U, V, A, B, XY, XX
<1>14. 2 * XY = 4 * A
    <2>1. XY = 2 * (n * U) - 2 * (S * T) - (n + 1) * (n * S) + n * ((n + 1) * S)
        BY <1>3, <1>10, <1>11
    <2>2. 2 * (S * T) = S * (n * (n + 1))
        BY <1>3, <1>11
    <2>3. /\ S * (n * (n + 1)) = n * ((n + 1) * S) /\ (n + 1) * (n * S) = n * ((n + 1) * S)
          /\ n * (2 * U - (n + 1) * S) = 2 * (n * U) - n * ((n + 1) * S)
          /\ n * ((n + 1) * S) \in Int /\ n * U \in Int /\ S * T \in Int
        BY <1>3, <1>11
    <2>5. XY = n * (2 * U - (n + 1) * S)
        BY <2>1, <2>2, <2>3
    <2>6. QED BY <1>6, <2>5
<1>15. n * XX = 4 * B
    <2>1. XX = 4 * V - 4 * ((n + 1) * T) + (n + 1) * (n * (n + 1))
        BY <1>10, <1>11, <1>12
    <2>2. (n + 1) * (n * (n + 1)) = (n + 1) * (2 * T)
        BY <1>11
    <2>3. XX = 2 * (2 * V - (n + 1) * T)
        <3> DEFINE z == (n + 1) * T
        <3>1. z \in Int /\ (n + 1) * (2 * T) = 2 * z
            BY <1>11
        <3>2. XX = 4 * V - 4 * z + 2 * z
            BY <2>1, <2>2, <3>1
        <3> HIDE DEF z
        <3>3. XX = 2 * (2 * V - z)
            BY <1>12, <3>1, <3>2
        <3>4. QED BY <3>3 DEF z
    <2> DEFINE d == 2 * V - (n + 1) * T
    <2>4. d \in Int
        <3>1. (n + 1) * T \in Int /\ 2 * V \in Int
            BY <1>11, <1>12
        <3>2. QED BY <3>1
    <2>5. XX = 2 * d /\ 2 * B = n * d
        BY <1>7, <2>3
    <2> HIDE DEF d
    <2>6. n * XX = 2 * (n * d) /\ n * d \in Int
        BY <2>4, <2>5
    <2>7. QED BY <1>7, <2>5, <2>6
<1>16. B \in Nat \ {0}
    <2>1. <<2 * XY, n * XX>> \in Fractions
        BY <1>13, SlopeType
    <2>2. 4 * B \in Nat \ {0}
        BY <1>15, <2>1 DEF Fractions
    <2>3. QED BY <1>7, <2>2
<1>17. LinearTrendSlope(s) = <<4 * A, 4 * B>>
    BY <1>13, <1>14, <1>15
<1>18. QED BY <1>6, <1>16, <1>17 DEF A, B
----------------------------------------------------------------------------
(* Rows of income count with their amount, rows of expense against it.           *)
LEMMA SignedSum ==
    ASSUME Inv, NEW S \in SUBSET DOMAIN ledger, NEW I, NEW E,
           \A i : i \in S <=> i \in I \/ i \in E,
           \A i \in I : ledger[i].type = "income",
           \A i \in E : ledger[i].type = "expense"
    PROVE  /\ SumFunctionOnSet(Signed, S) = Sum(I) - Sum(E)
           /\ Sum(I) \in Nat /\ Sum(E) \in Nat
<1>1. I \cup E = S /\ I \cap E = {} /\ I \in SUBSET DOMAIN ledger /\ E \in SUBSET DOMAIN ledger
    <2>1. \A i \in I : i \notin E
        OBVIOUS
    <2>2. QED BY <2>1
<1>2. /\ \A i \in I : Signed[i] = ledger[i].amount
      /\ \A i \in E : Signed[i] = -ledger[i].amount
    BY <1>1 DEF Signed
<1>3. /\ IsFiniteSet(I) /\ IsFiniteSet(E) /\ Sum(I) \in Nat /\ Sum(E) \in Nat
      /\ \A i \in I \cup E : AmountOf[i] = ledger[i].amount /\ AmountOf[i] \in Nat
    BY <1>1, RowsFinite DEF Inv
<1>4. SumFunctionOnSet(Signed, I) = Sum(I)
    <2>1. \A i \in I : Signed[i] \in Int /\ Signed[i] = AmountOf[i]
        BY <1>2, <1>3
    <2>2. QED BY <1>3, <2>1, SumCongruent DEF Sum
<1>5. SumFunctionOnSet(Signed, E) = -Sum(E)
    <2>1. \A i \in E : AmountOf[i] \in Int /\ Signed[i] = -AmountOf[i]
        BY <1>2, <1>3
    <2>2. QED BY <1>3, <2>1, SumNegated DEF Sum
<1>6. SumFunctionOnSet(Signed, S) = Sum(I) + (-Sum(E))
    <2>1. \A i \in I \cup E : Signed[i] \in Int
        BY <1>2, <1>3
    <2>2. SumFunctionOnSet(Signed, I \cup E) = SumFunctionOnSet(Signed, I) + SumFunctionOnSet(Signed, E)
        BY <1>1, <1>3, <2>1, SumUnion
    <2>3. QED BY <1>1, <1>4, <1>5, <2>2
<1>7. QED BY <1>3, <1>6

(* The rows of each stream's latest month are those no later row of it follows.  *)
LEMMA LatestIsCurrent ==
    ASSUME Inv, NEW type, NEW i \in Rows(type, TRUE)
    PROVE  i \in Latest(type) <=> Current(i)
<1> DEFINE like == {j \in Rows(type, TRUE) : Stream(j) = Stream(i)}
<1>1. \A j : j \in like <=> j \in DOMAIN ledger /\ ledger[j].recurring = TRUE /\ Stream(j) = Stream(i)
    <2>1. ledger[i].type = type
        BY DEF Rows
    <2>2. \A j : Stream(j) = Stream(i) => ledger[j].type = ledger[i].type
        BY DEF Stream
    <2>3. QED BY <2>1, <2>2 DEF Rows
<1>2. i \in like /\ like \in SUBSET DOMAIN ledger /\ ledger[i].recurring = TRUE
    BY DEF Rows
<1>3. i \in Latest(type) <=> ledger[i].month = Max(MonthsOf(like))
    BY DEF Latest
<1>4. \A j \in DOMAIN ledger : ledger[j].recurring \in BOOLEAN
    BY RowForm DEF Inv, TypeOK
<1>5. Current(i) <=> \A j \in like : ledger[j].month <= ledger[i].month
    BY <1>1, <1>2, <1>4 DEF Current
<1> HIDE DEF like
<1>6. MonthsOf(like) \in SUBSET Int /\ IsFiniteSet(MonthsOf(like)) /\ ledger[i].month \in MonthsOf(like)
    <2>1. IsFiniteSet(MonthsOf(like)) /\ MonthsOf(like) \subseteq Months
        BY <1>2, RowsFinite DEF Inv
    <2>2. ledger[i].month \in MonthsOf(like)
        BY <1>2 DEF MonthsOf
    <2>3. Months \subseteq Int
        BY NumbersAssumption
    <2> HIDE DEF MonthsOf
    <2>4. MonthsOf(like) \in SUBSET Int
        BY <2>1, <2>3
    <2>5. QED BY <2>1, <2>2, <2>4
<1>7. (\A j \in like : ledger[j].month <= ledger[i].month) <=> \A m \in MonthsOf(like) : m <= ledger[i].month
    BY DEF MonthsOf
<1> DEFINE T == MonthsOf(like)
           m == ledger[i].month
<1>8. (\A x \in T : x <= m) <=> m = Max(T)
    <2>1. T \in SUBSET Int /\ IsFiniteSet(T) /\ m \in T
        BY <1>6
    <2> HIDE DEF T, m
    <2>2. \A x \in T : x <= Max(T)
        BY <2>1, GreatestOf
    <2>3. (\A x \in T : x <= m) => Max(T) = m
        BY <2>1, GreatestIs
    <2>4. QED BY <2>2, <2>3
<1>9. QED BY <1>3, <1>5, <1>7, <1>8

LEMMA RateIs ==
    ASSUME Inv
    PROVE  /\ SumFunctionOnSet(Signed, {i \in DOMAIN ledger : Current(i)})
                = Sum(Latest("income")) - Sum(Latest("expense"))
           /\ Sum(Latest("income")) \in Nat /\ Sum(Latest("expense")) \in Nat
<1> DEFINE S == {i \in DOMAIN ledger : Current(i)}
           I == Latest("income")
           E == Latest("expense")
<1>1. \A i \in DOMAIN ledger : ledger[i].type \in {"income", "expense"} /\ ledger[i].recurring \in BOOLEAN
    BY RowForm DEF Inv, TypeOK
<1>2. ASSUME NEW i \in S PROVE i \in I \/ i \in E
    <2>1. ledger[i].recurring = TRUE
        BY <1>1 DEF Current
    <2>2. i \in Rows("income", TRUE) \/ i \in Rows("expense", TRUE)
        BY <1>1, <2>1 DEF Rows
    <2>3. QED BY <2>2, LatestIsCurrent
<1>3. \A i \in I : i \in Rows("income", TRUE) /\ i \in S
    <2>1. SUFFICES ASSUME NEW i \in I PROVE i \in Rows("income", TRUE) /\ i \in S
        OBVIOUS
    <2>2. i \in Rows("income", TRUE) /\ i \in DOMAIN ledger
        BY DEF Latest, Rows
    <2>3. QED BY <2>2, LatestIsCurrent
<1>4. \A i \in E : i \in Rows("expense", TRUE) /\ i \in S
    <2>1. SUFFICES ASSUME NEW i \in E PROVE i \in Rows("expense", TRUE) /\ i \in S
        OBVIOUS
    <2>2. i \in Rows("expense", TRUE) /\ i \in DOMAIN ledger
        BY DEF Latest, Rows
    <2>3. QED BY <2>2, LatestIsCurrent
<1>5. /\ \A i \in I : ledger[i].type = "income"
      /\ \A i \in E : ledger[i].type = "expense"
    BY <1>3, <1>4 DEF Rows
<1>6. S \in SUBSET DOMAIN ledger
    OBVIOUS
<1> HIDE DEF S, I, E
<1>7. SumFunctionOnSet(Signed, S) = Sum(I) - Sum(E) /\ Sum(I) \in Nat /\ Sum(E) \in Nat
    BY <1>2, <1>3, <1>4, <1>5, <1>6, SignedSum
<1>8. QED BY <1>7 DEF S, I, E

(* With one currency, the dictionary by month has every month's rows in it.      *)
LEMMA MonthRead ==
    ASSUME Inv, OneCurrency, NEW S \in SUBSET DOMAIN ledger, NEW d \in ByMonth(S), NEW m
    PROVE  At(d, m) = Sum({i \in S : ledger[i].month = m})
<1>1. PICK last \in [MonthsOf(S) -> Currencies] :
        /\ \A x \in MonthsOf(S) : \E i \in S : ledger[i].month = x /\ ledger[i].currency = last[x]
        /\ d = [x \in MonthsOf(S) |-> Sum({i \in S : ledger[i].month = x /\ ledger[i].currency = last[x]})]
    BY DEF ByMonth
<1>2. CASE m \in MonthsOf(S)
    <2>1. \A i \in S : ledger[i].currency = last[m]
        <3>1. PICK j \in S : ledger[j].currency = last[m]
            BY <1>1, <1>2
        <3>2. QED BY <3>1 DEF OneCurrency
    <2>2. {i \in S : ledger[i].month = m /\ ledger[i].currency = last[m]} = {i \in S : ledger[i].month = m}
        BY <2>1
    <2>3. At(d, m) = Sum({i \in S : ledger[i].month = m /\ ledger[i].currency = last[m]})
        BY <1>1, <1>2 DEF At
    <2>4. QED BY <2>2, <2>3
<1>3. CASE m \notin MonthsOf(S)
    <2>1. {i \in S : ledger[i].month = m} = {}
        BY <1>3 DEF MonthsOf
    <2>2. At(d, m) = 0
        BY <1>1, <1>3 DEF At
    <2>3. QED BY <2>1, <2>2, SumEmpty DEF Sum
<1>4. QED BY <1>2, <1>3

MonthNet(m) == SumFunctionOnSet(Signed, {i \in Others : ledger[i].month = m})

LEMMA HistoryIs ==
    ASSUME Inv, run.step = "done", touched = {}, OneCurrency
    PROVE  /\ DOMAIN run.extraIncome \cup DOMAIN run.extraExpense = MonthsOf(Others)
           /\ \A m : At(run.extraIncome, m) - At(run.extraExpense, m) = MonthNet(m) /\ MonthNet(m) \in Int
<1> DEFINE I == Rows("income", FALSE)
           E == Rows("expense", FALSE)
<1>1. run.extraIncome \in ByMonth(I) /\ run.extraExpense \in ByMonth(E)
    BY RowsRead DEF Inv, ReadsFresh
<1>2. /\ I \in SUBSET DOMAIN ledger /\ E \in SUBSET DOMAIN ledger /\ Others = I \cup E
      /\ \A i \in I : ledger[i].type = "income"
      /\ \A i \in E : ledger[i].type = "expense"
    BY DEF Rows, Others
<1> HIDE DEF I, E
<1>3. DOMAIN run.extraIncome = MonthsOf(I) /\ DOMAIN run.extraExpense = MonthsOf(E)
    BY <1>1, <1>2, DictRead DEF Inv
<1>4. MonthsOf(Others) = MonthsOf(I) \cup MonthsOf(E)
    BY <1>2 DEF MonthsOf
<1>5. ASSUME NEW m
      PROVE  At(run.extraIncome, m) - At(run.extraExpense, m) = MonthNet(m) /\ MonthNet(m) \in Int
    <2> DEFINE S == {i \in Others : ledger[i].month = m}
               P == {i \in I : ledger[i].month = m}
               Q == {i \in E : ledger[i].month = m}
    <2>1. At(run.extraIncome, m) = Sum(P) /\ At(run.extraExpense, m) = Sum(Q)
        BY <1>1, <1>2, MonthRead
    <2>2. /\ S \in SUBSET DOMAIN ledger /\ \A i : i \in S <=> i \in P \/ i \in Q
          /\ \A i \in P : ledger[i].type = "income"
          /\ \A i \in Q : ledger[i].type = "expense"
        BY <1>2
    <2>3. MonthNet(m) = SumFunctionOnSet(Signed, S)
        BY DEF MonthNet
    <2> HIDE DEF S, P, Q
    <2>4. SumFunctionOnSet(Signed, S) = Sum(P) - Sum(Q) /\ Sum(P) \in Nat /\ Sum(Q) \in Nat
        BY <2>2, SignedSum
    <2>5. QED BY <2>1, <2>3, <2>4
<1>6. QED BY <1>3, <1>4, <1>5
----------------------------------------------------------------------------
(* The window of the history is that of the months with rows, in their order.    *)
LEMMA WindowIs ==
    ASSUME Inv, run.step = "done", touched = {}, OneCurrency
    PROVE  \E v, n : /\ n \in Nat /\ Lists(v, n, Window(run.window))
                     /\ Trailing(HistoricalNet, run.window) \in Seq(Int)
                     /\ Len(Trailing(HistoricalNet, run.window)) = n
                     /\ \A k \in 1 .. n : Trailing(HistoricalNet, run.window)[k] = MonthNet(v[k])
<1> DEFINE w == run.window
           M == MonthsOf(Others)
           e == ExtraMonths
           c == Cardinality(M)
           n == IF c < w THEN c ELSE w
           v == [k \in 1 .. n |-> e[c - n + k]]
           h == HistoricalNet
           t == Trailing(h, w)
<1>1. w \in Nat \ {0}
    <2>1. run.window \in TrendWindows
        BY DEF Inv, ReadsTyped
    <2>2. QED BY <2>1, NumbersAssumption
<1>2. /\ M \in SUBSET Int /\ IsFiniteSet(M) /\ e = Sorted(M)
      /\ h \in Seq(Int) /\ Len(h) = Len(e) /\ h \in [1 .. Len(e) -> Int]
    <2>1. DOMAIN run.extraIncome \cup DOMAIN run.extraExpense = M
        BY HistoryIs
    <2>2. /\ e = Sorted(M) /\ M \in SUBSET Nat /\ IsFiniteSet(M)
          /\ h \in Seq(Int) /\ Len(h) = Len(e) /\ h \in [1 .. Len(e) -> Int]
        BY <2>1, NetForm
    <2> HIDE DEF M
    <2>3. M \in SUBSET Int
        BY <2>2
    <2>4. QED BY <2>2, <2>3
<1>3. Lists(e, c, M) /\ c \in Nat /\ Len(e) = c
    <2> HIDE DEF M, e
    <2>1. QED BY <1>2, SortedLists
<1>4. \A k \in 1 .. c : h[k] = MonthNet(e[k])
    <2>1. \A k \in 1 .. c : h[k] = At(run.extraIncome, e[k]) - At(run.extraExpense, e[k])
        BY <1>3 DEF HistoricalNet
    <2>2. QED BY <2>1, HistoryIs
<1>5. Lists(v, n, Window(w)) /\ n \in Nat
    <2>1. Window(w) = LastOnes(M, w)
        BY DEF Window, LastOnes
    <2>2. TailLength(n, c, w) /\ v = TailOf(e, c, n)
        BY DEF TailLength, TailOf
    <2> HIDE DEF M, c, e, w, n, v
    <2>3. Lists(TailOf(e, c, n), n, LastOnes(M, w)) /\ n \in Nat
        BY <1>1, <1>3, <2>2, LastOf
    <2>4. QED BY <2>1, <2>2, <2>3
<1>6. /\ t \in Seq(Int) /\ Len(t) = n
      /\ \A k \in 1 .. n : t[k] = h[c - n + k]
    <2> HIDE DEF h, w
    <2>1. /\ t \in Seq(Int) /\ Len(t) = IF Len(h) < w THEN Len(h) ELSE w
          /\ \A k \in 1 .. Len(t) : t[k] = h[Len(h) - Len(t) + k]
        BY <1>1, <1>2, TrailingForm
    <2>2. Len(h) = c
        BY <1>2, <1>3
    <2>3. QED BY <2>1, <2>2
<1>7. \A k \in 1 .. n : t[k] = MonthNet(v[k])
    <2>1. \A k \in 1 .. n : c - n + k \in 1 .. c /\ v[k] = e[c - n + k]
        <3> HIDE DEF c, w, e
        <3>1. QED BY <1>1, <1>3
    <2> HIDE DEF t, v, n, c, e, h
    <2>2. QED BY <1>4, <1>6, <2>1
<1> HIDE DEF v, n
<1>8. QED BY <1>5, <1>6, <1>7 DEF t, h, w

(* A sum over a set is one over its list, and one over its pairs is one over the  *)
(* pairs of places.                                                              *)
Along(f, v, n, s) == \A k \in 1 .. n : s[k] \in Int /\ f[v[k]] = s[k]

LEMMA SumListed ==
    ASSUME NEW v, NEW n \in Nat, NEW S, Lists(v, n, S), NEW f, NEW s, Along(f, v, n, s)
    PROVE  SumFunctionOnSet(f, S) = SumFunctionOnSet(s, 1 .. n)
<1> DEFINE A == 1 .. n
<1>1. \A i, j \in A : v[i] = v[j] => i = j
    <2>1. SUFFICES ASSUME NEW i \in A, NEW j \in A, v[i] = v[j] PROVE i = j
        OBVIOUS
    <2>2. v[i] \in Int
        BY DEF Lists
    <2>3. ~(v[i] < v[j]) /\ ~(v[j] < v[i])
        BY <2>1, <2>2
    <2>4. ~(i < j) /\ ~(j < i)
        BY <2>3 DEF Lists
    <2>5. QED BY <2>4
<1>2. \A x : x \in S <=> \E k \in A : x = v[k]
    BY DEF Lists
<1>3. \A k \in A : f[v[k]] \in Int /\ s[k] = f[v[k]]
    BY DEF Along
<1>4. IsFiniteSet(A)
    <2>1. 1 \in Int /\ n \in Int
        OBVIOUS
    <2>2. QED BY <2>1, FS_Interval
<1> HIDE DEF A
<1>5. SumFunctionOnSet(f, S) = SumFunctionOnSet(s, A)
    BY <1>1, <1>2, <1>3, <1>4, SumReindexed
<1>6. QED BY <1>5 DEF A

OrderedPairs(S) == {p \in S \X S : p[1] < p[2]}

LEMMA SumOfPairs ==
    ASSUME NEW v, NEW n \in Nat, NEW S, Lists(v, n, S), NEW f, NEW h,
           \A q \in PairsOf(n) : h[q] \in Int /\ f[<<v[q[1]], v[q[2]]>>] = h[q]
    PROVE  SumFunctionOnSet(f, OrderedPairs(S)) = SumFunctionOnSet(h, PairsOf(n))
<1> DEFINE A == PairsOf(n)
           at == [q \in A |-> <<v[q[1]], v[q[2]]>>]
           B == OrderedPairs(S)
<1>1. \A q \in A : q[1] \in 1 .. n /\ q[2] \in 1 .. n /\ q[1] < q[2] /\ q = <<q[1], q[2]>>
    BY DEF PairsOf
<1>2. \A i, j \in 1 .. n : v[i] = v[j] => i = j
    <2>1. SUFFICES ASSUME NEW i \in 1 .. n, NEW j \in 1 .. n, v[i] = v[j] PROVE i = j
        OBVIOUS
    <2>2. v[i] \in Int
        BY DEF Lists
    <2>3. ~(v[i] < v[j]) /\ ~(v[j] < v[i])
        BY <2>1, <2>2
    <2>4. ~(i < j) /\ ~(j < i)
        BY <2>3 DEF Lists
    <2>5. QED BY <2>4
<1>3. \A q, r \in A : at[q] = at[r] => q = r
    BY <1>1, <1>2
<1>4. \A p : p \in B <=> \E q \in A : p = at[q]
    <2>1. ASSUME NEW p \in B PROVE \E q \in A : p = at[q]
        <3>1. p[1] \in S /\ p[2] \in S /\ p[1] < p[2] /\ p = <<p[1], p[2]>>
            BY DEF OrderedPairs
        <3>2. PICK i \in 1 .. n, j \in 1 .. n : v[i] = p[1] /\ v[j] = p[2]
            BY <3>1 DEF Lists
        <3>3. i < j
            BY <3>1, <3>2 DEF Lists
        <3>4. <<i, j>> \in A
            BY <3>3 DEF PairsOf
        <3>5. at[<<i, j>>] = p
            BY <3>1, <3>2, <3>4
        <3>6. QED BY <3>4, <3>5
    <2>2. ASSUME NEW q \in A PROVE at[q] \in B
        <3>1. v[q[1]] \in S /\ v[q[2]] \in S /\ v[q[1]] < v[q[2]]
            BY <1>1 DEF Lists
        <3>2. <<v[q[1]], v[q[2]]>> \in B
            BY <3>1 DEF OrderedPairs
        <3>3. QED BY <3>2
    <2>3. QED BY <2>1, <2>2
<1>5. IsFiniteSet(A)
    BY PairsFinite
<1>6. \A q \in A : f[at[q]] \in Int /\ h[q] = f[at[q]]
    OBVIOUS
<1> HIDE DEF A, at, B
<1>7. SumFunctionOnSet(f, B) = SumFunctionOnSet(h, A)
    BY <1>3, <1>4, <1>5, <1>6, SumReindexed
<1>8. QED BY <1>7 DEF A, B

(* A forecast is a rate and the mean and slope of the months in the window; the  *)
(* code's slope is 4 / 4 of that of the pairs.                                   *)
Rank(S, m) == Cardinality({x \in S : x < m})
Gap(S, p) == Rank(S, p[2]) - Rank(S, p[1])
Rises(S, net) == [p \in OrderedPairs(S) |-> Gap(S, p) * (net[p[2]] - net[p[1]])]
Squares(S) == [p \in OrderedPairs(S) |-> Gap(S, p) * Gap(S, p)]

LEMMA RankIs ==
    ASSUME NEW v, NEW n \in Nat, NEW S, Lists(v, n, S), NEW k \in 1 .. n
    PROVE  Rank(S, v[k]) = k - 1
<1> DEFINE T == {x \in S : x < v[k]}
<1>1. \A x : x \in T <=> x \in S /\ x < v[k]
    OBVIOUS
<1> HIDE DEF T
<1>2. Cardinality(T) = k - 1
    BY <1>1, RankBelow
<1>3. QED BY <1>2 DEF T, Rank

LEMMA PairsIn ==
    ASSUME NEW v, NEW n \in Nat, NEW S, Lists(v, n, S), NEW q \in PairsOf(n)
    PROVE  LET p == <<v[q[1]], v[q[2]]>>
           IN  p \in OrderedPairs(S) /\ Gap(S, p) = q[2] - q[1] /\ q[1] \in 1 .. n /\ q[2] \in 1 .. n
<1> DEFINE p == <<v[q[1]], v[q[2]]>>
<1>1. q[1] \in 1 .. n /\ q[2] \in 1 .. n /\ q[1] < q[2]
    BY DEF PairsOf
<1>2. v[q[1]] \in S /\ v[q[2]] \in S /\ v[q[1]] < v[q[2]]
    BY <1>1 DEF Lists
<1>3. p \in OrderedPairs(S)
    BY <1>2 DEF OrderedPairs
<1>4. Rank(S, v[q[1]]) = q[1] - 1 /\ Rank(S, v[q[2]]) = q[2] - 1
    BY <1>1, RankIs
<1>5. Gap(S, p) = q[2] - q[1]
    <2>1. Gap(S, p) = (q[2] - 1) - (q[1] - 1)
        BY <1>4 DEF Gap
    <2>2. QED BY <1>1, <2>1
<1>6. QED BY <1>1, <1>3, <1>5

LEMMA SlopeIs ==
    ASSUME NEW v, NEW n \in Nat \ {0, 1}, NEW S, Lists(v, n, S), NEW net,
           NEW s \in Seq(Int), Len(s) = n, Along(net, v, n, s)
    PROVE  /\ LinearTrendSlope(s) = <<4 * SumFunction(Rises(S, net)), 4 * SumFunction(Squares(S))>>
           /\ SumFunction(Rises(S, net)) \in Int /\ SumFunction(Squares(S)) \in Nat \ {0}
<1> DEFINE x == SumFunction(Rises(S, net))
           y == SumFunction(Squares(S))
           h == [q \in PairsOf(n) |-> (q[2] - q[1]) * (s[q[2]] - s[q[1]])]
           g == [q \in PairsOf(n) |-> (q[2] - q[1]) * (q[2] - q[1])]
           f == Rises(S, net)
           e == Squares(S)
<1>1. n \in Nat /\ \A k \in 1 .. n : s[k] \in Int
    OBVIOUS
<1>2. ASSUME NEW q \in PairsOf(n)
      PROVE  /\ h[q] \in Int /\ f[<<v[q[1]], v[q[2]]>>] = h[q]
             /\ g[q] \in Int /\ e[<<v[q[1]], v[q[2]]>>] = g[q]
    <2> DEFINE p == <<v[q[1]], v[q[2]]>>
    <2>1. p \in OrderedPairs(S) /\ Gap(S, p) = q[2] - q[1] /\ q[1] \in 1 .. n /\ q[2] \in 1 .. n
        BY <1>1, PairsIn
    <2>2. p[1] = v[q[1]] /\ p[2] = v[q[2]] /\ net[v[q[1]]] = s[q[1]] /\ net[v[q[2]]] = s[q[2]]
        BY <2>1 DEF Along
    <2>3. h[q] = (q[2] - q[1]) * (s[q[2]] - s[q[1]]) /\ g[q] = (q[2] - q[1]) * (q[2] - q[1])
        OBVIOUS
    <2>4. s[q[1]] \in Int /\ s[q[2]] \in Int /\ q[1] \in Int /\ q[2] \in Int
        BY <1>1, <2>1
    <2>5. h[q] \in Int /\ g[q] \in Int
        <3>1. q[2] - q[1] \in Int /\ s[q[2]] - s[q[1]] \in Int
            BY <2>4
        <3>2. \A a, b \in Int : a * b \in Int
            OBVIOUS
        <3> HIDE DEF h, g
        <3>3. QED BY <2>3, <3>1, <3>2
    <2>6. f[p] = Gap(S, p) * (net[p[2]] - net[p[1]]) /\ e[p] = Gap(S, p) * Gap(S, p)
        BY <2>1 DEF Rises, Squares
    <2> HIDE DEF p, f, e, h, g
    <2>7. f[p] = h[q] /\ e[p] = g[q]
        BY <2>1, <2>2, <2>3, <2>6
    <2>8. QED BY <2>5, <2>7 DEF p
<1>3. x = SumFunctionOnSet(f, OrderedPairs(S)) /\ y = SumFunctionOnSet(e, OrderedPairs(S))
    BY DEF SumFunction, Rises, Squares
<1>4. RisesOf(h, n, s) /\ SquaresOf(g, n)
    BY DEF RisesOf, SquaresOf
<1> HIDE DEF f, e, h, g
<1>5. /\ SumFunctionOnSet(f, OrderedPairs(S)) = SumFunctionOnSet(h, PairsOf(n))
      /\ SumFunctionOnSet(e, OrderedPairs(S)) = SumFunctionOnSet(g, PairsOf(n))
    <2>1. \A q \in PairsOf(n) : h[q] \in Int /\ f[<<v[q[1]], v[q[2]]>>] = h[q]
        BY <1>2
    <2>2. \A q \in PairsOf(n) : g[q] \in Int /\ e[<<v[q[1]], v[q[2]]>>] = g[q]
        BY <1>2
    <2>3. SumFunctionOnSet(f, OrderedPairs(S)) = SumFunctionOnSet(h, PairsOf(n))
        BY <1>1, <2>1, SumOfPairs
    <2>4. SumFunctionOnSet(e, OrderedPairs(S)) = SumFunctionOnSet(g, PairsOf(n))
        BY <1>1, <2>2, SumOfPairs
    <2>5. QED BY <2>3, <2>4
<1>6. /\ LinearTrendSlope(s) = <<4 * SumFunctionOnSet(h, PairsOf(n)), 4 * SumFunctionOnSet(g, PairsOf(n))>>
      /\ SumFunctionOnSet(h, PairsOf(n)) \in Int /\ SumFunctionOnSet(g, PairsOf(n)) \in Nat \ {0}
    BY <1>4, LineFit
<1>7. QED BY <1>3, <1>5, <1>6

(* A forecast is of the rate r, the sum a of n months, and the slope x / y.      *)
Sloped(r, a, n, k, x, y) == Plus(<<r, 1>>, Plus(<<a, n>>, <<k * x, y>>))

LEMMA Flat ==
    ASSUME NEW r \in Int, NEW a \in Int, NEW n \in Nat \ {0}, NEW k \in Nat
    PROVE  Sloped(r, a, n, k, 0, 1) = Plus(<<r, 1>>, <<a, n>>)
BY DEF Sloped, Plus

LEMMA Empty == ASSUME NEW r \in Int, NEW k \in Nat PROVE Sloped(r, 0, 1, k, 0, 1) = <<r, 1>>
BY DEF Sloped, Plus

LEMMA SameQuotient ==
    ASSUME NEW r \in Int, NEW a \in Int, NEW n \in Nat \ {0}, NEW k \in Nat,
           NEW x \in Int, NEW y \in Nat \ {0}
    PROVE  Rounded(Sloped(r, a, n, k, 4 * x, 4 * y)) = Rounded(Sloped(r, a, n, k, x, y))
<1> DEFINE b == r * (n * y) + (a * y + (k * x) * n)
           d == n * y
<1>1. b \in Int /\ d \in Nat \ {0}
    <2>1. n * y \in Nat \ {0} /\ r * (n * y) \in Int /\ a * y \in Int /\ k * x \in Int
        OBVIOUS
    <2>2. (k * x) * n \in Int
        BY <2>1
    <2>3. QED BY <2>1, <2>2
<1>2. Sloped(r, a, n, k, x, y) = <<b, d>>
    <2>1. Sloped(r, a, n, k, x, y)
            = <<r * (n * y) + (a * y + (k * x) * n) * 1, 1 * (n * y)>>
        BY DEF Sloped, Plus
    <2>2. a * y + (k * x) * n \in Int /\ n * y \in Int
        <3>1. a * y \in Int /\ k * x \in Int /\ n * y \in Int
            OBVIOUS
        <3>2. (k * x) * n \in Int
            BY <3>1
        <3>3. QED BY <3>1, <3>2
    <2>3. (a * y + (k * x) * n) * 1 = a * y + (k * x) * n /\ 1 * (n * y) = n * y
        BY <2>2
    <2>4. QED BY <2>1, <2>3
<1>3. Sloped(r, a, n, k, 4 * x, 4 * y) = <<4 * b, 4 * d>>
    <2>1. Sloped(r, a, n, k, 4 * x, 4 * y)
            = <<r * (n * (4 * y)) + (a * (4 * y) + (k * (4 * x)) * n) * 1, 1 * (n * (4 * y))>>
        BY DEF Sloped, Plus
    <2>2. /\ n * (4 * y) = 4 * (n * y) /\ a * (4 * y) = 4 * (a * y) /\ k * (4 * x) = 4 * (k * x)
          /\ n * y \in Int /\ a * y \in Int /\ k * x \in Int
        OBVIOUS
    <2>3. (k * (4 * x)) * n = 4 * ((k * x) * n) /\ r * (n * (4 * y)) = 4 * (r * (n * y))
          /\ (k * x) * n \in Int /\ r * (n * y) \in Int
        BY <2>2
    <2>4. QED BY <2>1, <2>2, <2>3
<1> HIDE DEF b, d
<1>4. Rounded(<<4 * b, 4 * d>>) = Rounded(<<b, d>>)
    BY <1>1, RoundedScaled
<1>5. QED BY <1>2, <1>3, <1>4

LEMMA ForecastIs ==
    ASSUME Inv, run.step = "done", touched = {}, OneCurrency, NEW k \in 1 .. MonthsAhead
    PROVE  Forecast[k] = Rounded(Expected(k, run.window))
<1> DEFINE w == run.window
           W == Window(w)
           s == Trailing(HistoricalNet, w)
           r == run.incomeRate - run.expenseRate
           base == MovingAverage(s)
           slope == LinearTrendSlope(s)
           net == [m \in W |-> SumFunctionOnSet(Signed, {i \in Others : ledger[i].month = m})]
           pairs == {p \in W \X W : p[1] < p[2]}
           x == SumFunction(Rises(W, net))
           y == SumFunction(Squares(W))
           a == SumFunction(net)
           q == SumFunctionOnSet(Signed, {i \in DOMAIN ledger : Current(i)})
<1>1. Forecast[k] = Rounded(Plus(<<r, 1>>, Plus(base, <<k * slope[1], slope[2]>>)))
    BY DEF Forecast
<1>2. r \in Int /\ q = r
    <2>1. run.incomeRate = Sum(Latest("income")) /\ run.expenseRate = Sum(Latest("expense"))
        BY DEF Inv, ReadsFresh, AfterIncome
    <2>2. /\ q = Sum(Latest("income")) - Sum(Latest("expense"))
          /\ Sum(Latest("income")) \in Nat /\ Sum(Latest("expense")) \in Nat
        BY RateIs
    <2>3. QED BY <2>1, <2>2
<1>3. Expected(k, w)
        = IF W = {} THEN <<q, 1>>
          ELSE IF pairs = {} THEN Plus(<<q, 1>>, <<a, Cardinality(W)>>)
          ELSE Sloped(q, a, Cardinality(W), k, x, y)
    BY DEF Sloped, Expected, Rises, Squares, OrderedPairs, Gap, Rank
<1>4. PICK v, n : /\ n \in Nat /\ Lists(v, n, W) /\ s \in Seq(Int) /\ Len(s) = n
                  /\ \A j \in 1 .. n : s[j] = MonthNet(v[j])
    BY WindowIs
<1>5. \A j \in 1 .. n : v[j] \in W /\ net[v[j]] = s[j] /\ s[j] \in Int
    <2>1. \A j \in 1 .. n : v[j] \in W
        BY <1>4 DEF Lists
    <2>2. \A m \in W : net[m] = MonthNet(m)
        BY DEF MonthNet
    <2>3. \A j \in 1 .. n : s[j] \in Int
        BY <1>4
    <2> HIDE DEF W, net, s
    <2>4. QED BY <1>4, <2>1, <2>2, <2>3
<1>13. Along(net, v, n, s)
    BY <1>5 DEF Along
<1>6. Cardinality(W) = n
    BY <1>4, Listed
<1>7. pairs = OrderedPairs(W) /\ k \in Nat /\ DOMAIN net = W
    BY DEF OrderedPairs
<1> HIDE DEF W, s, r, net, q, w
<1>8. a = SumSeq(s) /\ a \in Int
    <2>1. SumFunctionOnSet(net, W) = SumFunctionOnSet(s, 1 .. n)
        BY <1>4, <1>13, SumListed
    <2>2. DOMAIN s = 1 .. n /\ s \in [1 .. n -> Int]
        BY <1>4
    <2>3. SumSeq(s) = SumFunctionOnSet(s, 1 .. n) /\ SumSeq(s) \in Int
        BY <1>4, <2>2, SumSeqType DEF SumSeq, SumFunction
    <2>4. a = SumFunctionOnSet(net, W)
        BY <1>7 DEF SumFunction
    <2>5. QED BY <2>1, <2>3, <2>4
<1> HIDE DEF a
<1>9. CASE n = 0
    <2>1. s = << >> /\ W = {}
        <3>1. s = << >>
            BY <1>4, <1>9
        <3>2. W = {}
            BY <1>4, <1>9 DEF Lists
        <3>3. QED BY <3>1, <3>2
    <2>2. base = <<0, 1>> /\ slope = <<0, 1>>
        BY <1>4, <1>9, <2>1 DEF MovingAverage, LinearTrendSlope
    <2>3. Expected(k, w) = <<r, 1>>
        BY <1>2, <1>3, <2>1
    <2>4. slope[1] = 0 /\ slope[2] = 1
        BY <2>2
    <2> HIDE DEF base, slope
    <2>5. Forecast[k] = Rounded(Sloped(r, 0, 1, k, 0, 1))
        BY <1>1, <2>2, <2>4 DEF Sloped
    <2>6. Forecast[k] = Rounded(<<r, 1>>)
        BY <1>2, <1>7, <2>5, Empty
    <2>7. QED BY <2>3, <2>6 DEF w
<1>10. CASE n = 1
    <2>0. 1 .. n = {1}
        BY <1>10
    <2>1. s # << >> /\ W # {} /\ v[1] \in Int /\ \A m \in W : m = v[1]
        <3>1. \A j : j \in 1 .. n <=> j = 1
            BY <2>0
        <3>2. v[1] \in W
            BY <1>5, <3>1
        <3>3. v[1] \in Int /\ \A m \in W : m = v[1]
            BY <1>4, <3>1, <3>2 DEF Lists
        <3>4. s # << >>
            <4>1. Len(s) = 1 /\ Len(<< >>) = 0
                BY <1>4, <1>10
            <4>2. QED BY <4>1
        <3>5. QED BY <3>2, <3>3, <3>4
    <2>2. base = <<a, 1>> /\ slope = <<0, 1>>
        BY <1>4, <1>8, <1>10, <2>1 DEF MovingAverage, LinearTrendSlope
    <2>3. pairs = {}
        <3>1. SUFFICES ASSUME NEW p \in pairs PROVE FALSE
            OBVIOUS
        <3>2. p[1] \in W /\ p[2] \in W /\ p[1] < p[2]
            OBVIOUS
        <3>3. QED BY <2>1, <3>2
    <2>4. Expected(k, w) = Plus(<<r, 1>>, <<a, 1>>)
        BY <1>2, <1>3, <1>6, <1>10, <2>1, <2>3
    <2>5. slope[1] = 0 /\ slope[2] = 1
        BY <2>2
    <2> HIDE DEF base, slope
    <2>6. Forecast[k] = Rounded(Sloped(r, a, 1, k, 0, 1))
        BY <1>1, <2>2, <2>5 DEF Sloped
    <2>7. Forecast[k] = Rounded(Plus(<<r, 1>>, <<a, 1>>))
        BY <1>2, <1>7, <1>8, <2>6, Flat
    <2>8. QED BY <2>4, <2>7 DEF w
<1>11. CASE n \in Nat \ {0, 1}
    <2>1. s # << >> /\ W # {} /\ n \in Nat \ {0}
        BY <1>4, <1>5, <1>11
    <2>2. base = <<a, n>>
        BY <1>4, <1>8, <2>1 DEF MovingAverage
    <2>3. slope = <<4 * x, 4 * y>> /\ x \in Int /\ y \in Nat \ {0}
        BY <1>4, <1>11, <1>13, SlopeIs
    <2>4. pairs # {}
        <3>1. <<1, 2>> \in PairsOf(n)
            BY <1>11 DEF PairsOf
        <3>2. <<v[1], v[2]>> \in OrderedPairs(W)
            BY <1>4, <3>1, PairsIn
        <3>3. QED BY <1>7, <3>2
    <2>5. Expected(k, w) = Sloped(r, a, n, k, x, y)
        BY <1>2, <1>3, <1>6, <2>1, <2>4
    <2>6. slope[1] = 4 * x /\ slope[2] = 4 * y
        BY <2>3
    <2> HIDE DEF base, slope, x, y
    <2>7. Forecast[k] = Rounded(Sloped(r, a, n, k, 4 * x, 4 * y))
        BY <1>1, <2>2, <2>6 DEF Sloped
    <2>8. Rounded(Sloped(r, a, n, k, 4 * x, 4 * y)) = Rounded(Sloped(r, a, n, k, x, y))
        <3>1. r \in Int /\ a \in Int /\ n \in Nat \ {0} /\ k \in Nat /\ x \in Int /\ y \in Nat \ {0}
            BY <1>2, <1>7, <1>8, <2>1, <2>3
        <3>2. QED BY ONLY <3>1, SameQuotient
    <2>9. QED BY <2>5, <2>7, <2>8 DEF w
<1>12. QED BY <1>4, <1>9, <1>10, <1>11
----------------------------------------------------------------------------
(* The months of a list by how many are later: one is the last, one the last but  *)
(* one.                                                                           *)
Later(S, m) == Cardinality({x \in S : x > m})

LEMMA LaterIs ==
    ASSUME NEW v, NEW n \in Nat, NEW S, Lists(v, n, S)
    PROVE  /\ \A k \in 1 .. n : Later(S, v[k]) = n - k
           /\ \A x \in S, i \in Nat : Later(S, x) = i <=> i < n /\ x = v[n - i]
<1>1. ASSUME NEW k \in 1 .. n PROVE Later(S, v[k]) = n - k
    <2> DEFINE T == {x \in S : x > v[k]}
    <2>1. \A x : x \in T <=> x \in S /\ x > v[k]
        OBVIOUS
    <2> HIDE DEF T
    <2>2. Cardinality(T) = n - k
        BY <2>1, RankAbove
    <2>3. QED BY <2>2 DEF T, Later
<1>2. ASSUME NEW x \in S, NEW i \in Nat PROVE Later(S, x) = i <=> i < n /\ x = v[n - i]
    <2>1. PICK k \in 1 .. n : v[k] = x
        BY DEF Lists
    <2>2. Later(S, x) = n - k
        BY <1>1, <2>1
    <2>3. n - k = i => n - i = k /\ i < n
        OBVIOUS
    <2>4. ASSUME i < n, x = v[n - i] PROVE n - k = i
        <3>1. n - i \in 1 .. n /\ Later(S, v[n - i]) = n - (n - i)
            <4>1. n - i \in 1 .. n
                BY <2>4
            <4>2. QED BY <1>1, <4>1
        <3>2. QED BY <2>2, <2>4, <3>1
    <2>5. QED BY <2>1, <2>2, <2>3, <2>4
<1>3. QED BY <1>1, <1>2

LEMMA Earned ==
    ASSUME Inv, NEW S \in SUBSET DOMAIN ledger, NEW m \in MonthsOf(S)
    PROVE  Sum({i \in S : ledger[i].month = m}) \in Nat \ {0}
<1> DEFINE T == {i \in S : ledger[i].month = m}
<1>1. PICK i \in T : TRUE
    BY DEF MonthsOf
<1>2. T \in SUBSET DOMAIN ledger
    OBVIOUS
<1> HIDE DEF T
<1>3. IsFiniteSet(T) /\ IsFiniteSet(T \ {i}) /\ \A j \in T : AmountOf[j] \in Nat \ {0}
    BY <1>2, RowsFinite, FS_Subset DEF Inv
<1>4. SumFunctionOnSet(AmountOf, T) = AmountOf[i] + SumFunctionOnSet(AmountOf, T \ {i})
    BY <1>1, <1>3, SumRemove
<1>5. SumFunctionOnSet(AmountOf, T \ {i}) \in Nat
    BY <1>3, SumNat
<1>6. AmountOf[i] \in Nat \ {0}
    BY <1>1, <1>3
<1>7. Sum(T) \in Nat \ {0}
    BY <1>4, <1>5, <1>6 DEF Sum
<1>8. QED BY <1>7 DEF T

LEMMA GrowthIs ==
    ASSUME Inv, run.step = "done", touched = {}, OneCurrency
    PROVE  Growth = IF ExpectedGrowth = {} THEN <<>> ELSE CHOOSE g \in ExpectedGrowth : TRUE
<1> DEFINE S == AllRows("income")
           M == MonthsOf(S)
           d == run.income
           e == Sorted(M)
           c == Cardinality(M)
           earned(m) == Sum({i \in S : ledger[i].month = m})
           first == {m \in M : Later(M, m) = 0}
           second == {m \in M : Later(M, m) = 1}
           G == {<<earned(m) - earned(n), earned(n)>> : m \in first, n \in second}
<1>1. S \in SUBSET DOMAIN ledger /\ d \in ByMonth(S)
    BY DEF AllRows, Rows, Inv, ReadsFresh, AfterIncome
<1>2. DOMAIN d = M /\ IsFiniteSet(M) /\ M \in SUBSET Int
    <2>1. Dict(d) /\ DOMAIN d = M
        BY <1>1, DictRead DEF Inv
    <2> HIDE DEF M
    <2>2. IsFiniteSet(M) /\ M \subseteq Nat
        BY <2>1 DEF Dict
    <2>3. QED BY <2>1, <2>2
<1>3. \A m \in M : d[m] = earned(m) /\ earned(m) \in Nat \ {0}
    <2>1. \A m \in M : At(d, m) = d[m]
        BY <1>2 DEF At
    <2>2. \A m \in M : At(d, m) = earned(m)
        BY <1>1, MonthRead
    <2>3. \A m \in M : earned(m) \in Nat \ {0}
        BY <1>1, Earned
    <2>4. QED BY <2>1, <2>2, <2>3
<1>4. ExpectedGrowth = G
    BY DEF ExpectedGrowth, Later
<1>5. Growth = IF Len(e) < 2 \/ d[e[Len(e) - 1]] = 0 THEN << >>
               ELSE <<d[e[Len(e)]] - d[e[Len(e) - 1]], d[e[Len(e) - 1]]>>
    BY <1>2 DEF Growth
<1>6. Lists(e, c, M) /\ c \in Nat /\ Len(e) = c
    <2> HIDE DEF M
    <2>1. QED BY <1>2, SortedLists
<1> HIDE DEF S, M, d, e, c, earned
<1>7. \A x \in M, i \in Nat : Later(M, x) = i <=> i < c /\ x = e[c - i]
    BY <1>6, LaterIs
<1>8. CASE c < 2
    <2>1. second = {}
        BY <1>6, <1>7, <1>8
    <2>2. G = {}
        BY <2>1
    <2>3. QED BY <1>4, <1>5, <1>6, <1>8, <2>2
<1>9. CASE ~(c < 2)
    <2>1. e[c] \in M /\ e[c - 1] \in M
        BY <1>6, <1>9 DEF Lists
    <2>2. c - 0 = c /\ 0 < c /\ 1 < c
        BY <1>6, <1>9
    <2>3. first = {e[c]} /\ second = {e[c - 1]}
        <3>1. \A m \in M : Later(M, m) = 0 <=> m = e[c]
            BY <1>7, <2>2
        <3>2. \A m \in M : Later(M, m) = 1 <=> m = e[c - 1]
            BY <1>7, <2>2
        <3>3. QED BY <2>1, <3>1, <3>2
    <2> DEFINE g == <<earned(e[c]) - earned(e[c - 1]), earned(e[c - 1])>>
    <2>4. G = {g}
        BY <2>3
    <2>5. Growth = g
        <3>1. /\ d[e[c]] = earned(e[c]) /\ d[e[c - 1]] = earned(e[c - 1])
              /\ earned(e[c - 1]) # 0
            BY <1>3, <2>1
        <3>2. QED BY <1>5, <1>6, <1>9, <3>1
    <2>6. (CHOOSE h \in {g} : TRUE) = g /\ {g} # {}
        OBVIOUS
    <2> HIDE DEF g, G
    <2>7. QED BY <1>4, <2>4, <2>5, <2>6
<1>10. QED BY <1>8, <1>9

(* For any ledger of one currency, any window and number of months: a projection *)
(* that nothing was committed beside is what its rows mean.                      *)
THEOREM QuietIsExact == Spec => []QuietProjectionIsExact
<1>1. ASSUME Inv PROVE QuietProjectionIsExact
    BY <1>1, ForecastIs, GrowthIs DEF QuietProjectionIsExact
<1>2. QED BY <1>1, Always, PTL
=============================================================================
