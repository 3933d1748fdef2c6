------------------------------ MODULE SumProofs ------------------------------
(***************************************************************************)
(* Lemmas about sums over finite sets, which every book of the clearing    *)
(* canister is checked with, and about the powers of ten of its prices.    *)
(* The models sum with MapThenSumSet; its fold is unfolded here once, for  *)
(* a sum of the values of a function, and what follows is proved by        *)
(* induction on the set: a nonempty set of counterexamples would have a    *)
(* smallest one.                                                           *)
(***************************************************************************)
EXTENDS Integers, FiniteSetsExt, FiniteSetTheorems, WellFoundedInduction, TLAPS

(* The sum of f[x] over the x of S. *)
SumOver(f, S) == MapThenSumSet(LAMBDA x : f[x], S)

Pick(s) == CHOOSE x \in s : TRUE

(* g maps every subset of S to its sum, element by element. *)
IsFold(g, f, S) ==
    g = [s \in SUBSET S |-> IF s = {} THEN 0 ELSE f[Pick(s)] + g[s \ {Pick(s)}]]

LEMMA PickIn == ASSUME NEW s, s # {} PROVE Pick(s) \in s
BY DEF Pick

(* Every set of finite sets with a member has a smallest one. *)
LEMMA SmallestSet ==
    ASSUME NEW S, NEW T \in SUBSET SUBSET S, T # {}, IsFiniteSet(S)
    PROVE  \E x \in T : \A y \in T : ~(y \subseteq x /\ y # x)
<1>1. IsWellFoundedOn(StrictSubsetOrdering(S), SUBSET S)
    BY FS_StrictSubsetOrderingWellFounded, FS_FiniteSubsetsOfFinite
<1>2. PICK x \in T : \A y \in T : ~(<<y, x>> \in StrictSubsetOrdering(S))
    BY <1>1, WFMin
<1>3. ASSUME NEW y \in T, y \subseteq x, y # x PROVE FALSE
    BY <1>2, <1>3 DEF StrictSubsetOrdering
<1> QED BY <1>2, <1>3

(* A nonempty set of naturals has a least member. *)
LEMMA Least ==
    ASSUME NEW S \in SUBSET Nat, S # {}
    PROVE  \E m \in S : \A k \in S : m <= k
<1>1. PICK n \in S : TRUE
    OBVIOUS
<1> DEFINE U == 0..n
           Below == {0..i : i \in S \cap U}
<1>2. IsFiniteSet(U)
    BY FS_Interval
<1>3. Below \in SUBSET SUBSET U
    OBVIOUS
<1>4. Below # {}
    <2>1. 0..n \in Below
        OBVIOUS
    <2> QED BY <2>1
<1> HIDE DEF U, Below
<1>5. PICK x \in Below : \A y \in Below : ~(y \subseteq x /\ y # x)
    BY <1>2, <1>3, <1>4, SmallestSet
<1> USE DEF U, Below
<1>6. PICK m \in S \cap 0..n : x = 0..m
    BY <1>5
<1>7. ASSUME NEW k \in S, k < m PROVE FALSE
    <2>1. 0..k \in Below
        BY <1>6, <1>7
    <2>2. 0..k \subseteq 0..m /\ m \notin 0..k /\ m \in 0..m
        BY <1>6, <1>7
    <2> QED BY <1>5, <1>6, <2>1, <2>2
<1> QED BY <1>6, <1>7

-----------------------------------------------------------------------------
(* The fold exists, and unfolds. *)

LEMMA SumIsFold ==
    ASSUME NEW f, NEW S
    PROVE  SumOver(f, S) = (CHOOSE g : IsFold(g, f, S))[S]
BY DEF SumOver, MapThenSumSet, MapThenFoldSet, IsFold, Pick

(* Two folds of a set agree on its subsets, even as folds of other sets. *)
LEMMA FoldUnique ==
    ASSUME NEW f, NEW S, NEW T \in SUBSET S, IsFiniteSet(S),
           NEW g, IsFold(g, f, S), NEW h, IsFold(h, f, T)
    PROVE  g[T] = h[T]
<1> DEFINE Wrong == {s \in SUBSET T : g[s] # h[s]}
<1>1. SUFFICES ASSUME Wrong # {} PROVE FALSE
    OBVIOUS
<1>2. IsFiniteSet(T)
    BY FS_Subset
<1>3. PICK s \in Wrong : \A y \in Wrong : ~(y \subseteq s /\ y # s)
    <2>1. Wrong \in SUBSET SUBSET T
        OBVIOUS
    <2> HIDE DEF Wrong
    <2> QED BY <1>1, <1>2, <2>1, SmallestSet
<1>4. s \in SUBSET S /\ s \in SUBSET T
    OBVIOUS
<1>5. s # {}
    BY <1>4 DEF IsFold
<1>6. Pick(s) \in s
    BY <1>5, PickIn
<1>7. g[s] = f[Pick(s)] + g[s \ {Pick(s)}] /\ h[s] = f[Pick(s)] + h[s \ {Pick(s)}]
    BY <1>4, <1>5 DEF IsFold
<1>8. g[s \ {Pick(s)}] = h[s \ {Pick(s)}]
    BY <1>3, <1>4, <1>6
<1> QED BY <1>7, <1>8

(* Every finite set has a fold. *)
LEMMA FoldExists ==
    ASSUME NEW f, NEW S, IsFiniteSet(S)
    PROVE  \E g : IsFold(g, f, S)
<1> DEFINE Without == {s \in SUBSET S : ~ \E g : IsFold(g, f, s)}
<1>1. SUFFICES ASSUME Without # {} PROVE FALSE
    OBVIOUS
<1>2. PICK T \in Without : \A y \in Without : ~(y \subseteq T /\ y # T)
    <2>1. Without \in SUBSET SUBSET S
        OBVIOUS
    <2> HIDE DEF Without
    <2> QED BY <1>1, <2>1, SmallestSet
<1> DEFINE fold(s) == CHOOSE q : IsFold(q, f, s)
           whole == f[Pick(T)] + fold(T \ {Pick(T)})[T \ {Pick(T)}]
           all == [s \in SUBSET T |-> IF s = {} THEN 0 ELSE IF s = T THEN whole ELSE fold(s)[s]]
<1>3. ASSUME NEW s \in SUBSET T, s # T PROVE IsFold(fold(s), f, s)
    BY <1>2, <1>3
<1>4. ASSUME NEW s \in SUBSET T, s # {}
      PROVE  all[s] = f[Pick(s)] + all[s \ {Pick(s)}]
    <2> DEFINE r == s \ {Pick(s)}
    <2>1. Pick(s) \in s /\ r \in SUBSET T /\ r # T /\ r # s
        BY <1>4, PickIn
    <2>2. IsFold(fold(r), f, r)
        BY <1>3, <2>1
    <2>3. r = {} => fold(r)[r] = 0
        BY <2>2 DEF IsFold
    <2>4. all[r] = fold(r)[r]
        BY <2>1, <2>3
    <2>5. CASE s = T
        BY <1>4, <2>4, <2>5
    <2>6. CASE s # T
        <3>1. IsFold(fold(s), f, s)
            BY <1>3, <2>6
        <3>2. fold(s)[s] = f[Pick(s)] + fold(s)[r]
            BY <1>4, <3>1 DEF IsFold
        <3>3. IsFiniteSet(s)
            BY FS_Subset, s \in SUBSET S
        <3>4. fold(s)[r] = fold(r)[r]
            BY <2>1, <2>2, <3>1, <3>3, FoldUnique
        <3> QED BY <1>4, <2>4, <2>6, <3>2, <3>4
    <2> QED BY <2>5, <2>6
<1>5. IsFold(all, f, T)
    <2> DEFINE unfolded == [s \in SUBSET T |-> IF s = {} THEN 0
                                              ELSE f[Pick(s)] + all[s \ {Pick(s)}]]
    <2>1. \A s \in SUBSET T : all[s] = unfolded[s]
        BY <1>4
    <2>2. all = unfolded
        BY <2>1
    <2> QED BY <2>2 DEF IsFold
<1> QED BY <1>2, <1>5

(* A sum is one of its terms and the sum of the others. *)
LEMMA SumUnfold ==
    ASSUME NEW f, NEW S, IsFiniteSet(S)
    PROVE  /\ S = {} => SumOver(f, S) = 0
           /\ S # {} => SumOver(f, S) = f[Pick(S)] + SumOver(f, S \ {Pick(S)})
<1> DEFINE g == CHOOSE q : IsFold(q, f, S)
           r == S \ {Pick(S)}
           h == CHOOSE q : IsFold(q, f, r)
<1>1. IsFold(g, f, S)
    BY FoldExists
<1>2. IsFold(h, f, r)
    BY FoldExists, FS_Subset, r \in SUBSET S
<1>3. g[r] = h[r]
    BY <1>1, <1>2, FoldUnique, r \in SUBSET S
<1>4. SumOver(f, S) = g[S] /\ SumOver(f, r) = h[r]
    BY SumIsFold
<1>5. /\ S = {} => g[S] = 0
      /\ S # {} => g[S] = f[Pick(S)] + g[r]
    BY <1>1 DEF IsFold
<1> QED BY <1>3, <1>4, <1>5

LEMMA SumEmpty == ASSUME NEW f PROVE SumOver(f, {}) = 0
BY SumUnfold, FS_EmptySet

(* A sum of integers is one, and of naturals is one. *)
LEMMA SumType ==
    ASSUME NEW f, NEW S, IsFiniteSet(S), \A x \in S : f[x] \in Int
    PROVE  SumOver(f, S) \in Int
<1> DEFINE Wrong == {s \in SUBSET S : SumOver(f, s) \notin Int}
<1>1. SUFFICES ASSUME Wrong # {} PROVE FALSE
    OBVIOUS
<1>2. PICK s \in Wrong : \A y \in Wrong : ~(y \subseteq s /\ y # s)
    <2>1. Wrong \in SUBSET SUBSET S
        OBVIOUS
    <2> HIDE DEF Wrong
    <2> QED BY <1>1, <2>1, SmallestSet
<1>3. IsFiniteSet(s)
    BY FS_Subset
<1>4. s # {}
    BY SumEmpty
<1>5. Pick(s) \in s
    BY <1>4, PickIn
<1>6. SumOver(f, s) = f[Pick(s)] + SumOver(f, s \ {Pick(s)})
    BY <1>3, <1>4, SumUnfold
<1>7. SumOver(f, s \ {Pick(s)}) \in Int /\ f[Pick(s)] \in Int
    BY <1>2, <1>5
<1> QED BY <1>6, <1>7

(* ... and any term may be taken out, whichever the fold picks first. *)
LEMMA SumRemove ==
    ASSUME NEW f, NEW S, IsFiniteSet(S), \A x \in S : f[x] \in Int, NEW x \in S
    PROVE  SumOver(f, S) = f[x] + SumOver(f, S \ {x})
<1> DEFINE Wrong == {s \in SUBSET S :
                       \E e \in s : SumOver(f, s) # f[e] + SumOver(f, s \ {e})}
<1>1. SUFFICES ASSUME Wrong # {} PROVE FALSE
    OBVIOUS
<1>2. PICK s \in Wrong : \A y \in Wrong : ~(y \subseteq s /\ y # s)
    <2>1. Wrong \in SUBSET SUBSET S
        OBVIOUS
    <2> HIDE DEF Wrong
    <2> QED BY <1>1, <2>1, SmallestSet
<1>3. PICK e \in s : SumOver(f, s) # f[e] + SumOver(f, s \ {e})
    OBVIOUS
<1> DEFINE p == Pick(s)
           both == (s \ {p}) \ {e}
<1>4. p \in s
    BY PickIn
<1>5. IsFiniteSet(s) /\ IsFiniteSet(s \ {e}) /\ IsFiniteSet(s \ {p}) /\ IsFiniteSet(both)
    BY FS_Subset, FS_RemoveElement
<1>6. SumOver(f, s) = f[p] + SumOver(f, s \ {p})
    BY <1>5, SumUnfold
<1>7. e # p
    BY <1>3, <1>6
<1>8. SumOver(f, s \ {p}) = f[e] + SumOver(f, both)
    <2> DEFINE r == s \ {p}
    <2>1. r \in SUBSET S /\ r \subseteq s /\ r # s /\ e \in r
        BY <1>4, <1>7
    <2>2. r \notin Wrong
        BY <1>2, <2>1
    <2> QED BY <2>1, <2>2
<1>9. SumOver(f, s \ {e}) = f[p] + SumOver(f, both)
    <2>1. (s \ {e}) \ {p} = both
        OBVIOUS
    <2> QED BY <1>2, <1>4, <1>7, <2>1
<1>10. f[p] \in Int /\ f[e] \in Int /\ SumOver(f, both) \in Int
    BY <1>4, <1>5, SumType
<1> QED BY <1>3, <1>6, <1>8, <1>9, <1>10

LEMMA SumAdd ==
    ASSUME NEW f, NEW S, IsFiniteSet(S), NEW x, x \notin S, f[x] \in Int,
           \A y \in S : f[y] \in Int
    PROVE  SumOver(f, S \cup {x}) = f[x] + SumOver(f, S)
<1>1. IsFiniteSet(S \cup {x})
    BY FS_AddElement
<1>2. (S \cup {x}) \ {x} = S
    OBVIOUS
<1> QED BY <1>1, <1>2, SumRemove

-----------------------------------------------------------------------------
(* Sums compared. *)

(* A sum depends only on the terms it adds up. *)
LEMMA SumSame ==
    ASSUME NEW f, NEW g, NEW S, IsFiniteSet(S), \A x \in S : f[x] = g[x]
    PROVE  SumOver(f, S) = SumOver(g, S)
<1> DEFINE Wrong == {s \in SUBSET S : SumOver(f, s) # SumOver(g, s)}
<1>1. SUFFICES ASSUME Wrong # {} PROVE FALSE
    OBVIOUS
<1>2. PICK s \in Wrong : \A y \in Wrong : ~(y \subseteq s /\ y # s)
    <2>1. Wrong \in SUBSET SUBSET S
        OBVIOUS
    <2> HIDE DEF Wrong
    <2> QED BY <1>1, <2>1, SmallestSet
<1>3. IsFiniteSet(s)
    BY FS_Subset
<1>4. s # {}
    BY SumEmpty
<1>5. Pick(s) \in s
    BY <1>4, PickIn
<1>6. /\ SumOver(f, s) = f[Pick(s)] + SumOver(f, s \ {Pick(s)})
      /\ SumOver(g, s) = g[Pick(s)] + SumOver(g, s \ {Pick(s)})
    BY <1>3, <1>4, SumUnfold
<1>7. SumOver(f, s \ {Pick(s)}) = SumOver(g, s \ {Pick(s)}) /\ f[Pick(s)] = g[Pick(s)]
    BY <1>2, <1>5
<1> QED BY <1>6, <1>7

(* The sum of two books is the book of the sums. *)
LEMMA SumPlus ==
    ASSUME NEW f, NEW g, NEW h, NEW S, IsFiniteSet(S),
           \A x \in S : f[x] \in Int /\ g[x] \in Int /\ h[x] = f[x] + g[x]
    PROVE  SumOver(h, S) = SumOver(f, S) + SumOver(g, S)
<1> DEFINE Wrong == {s \in SUBSET S : SumOver(h, s) # SumOver(f, s) + SumOver(g, s)}
<1>1. SUFFICES ASSUME Wrong # {} PROVE FALSE
    OBVIOUS
<1>2. PICK s \in Wrong : \A y \in Wrong : ~(y \subseteq s /\ y # s)
    <2>1. Wrong \in SUBSET SUBSET S
        OBVIOUS
    <2> HIDE DEF Wrong
    <2> QED BY <1>1, <2>1, SmallestSet
<1> DEFINE r == s \ {Pick(s)}
<1>3. IsFiniteSet(s) /\ IsFiniteSet(r)
    BY FS_Subset, FS_RemoveElement
<1>4. s # {}
    <2>1. SumOver(h, {}) = SumOver(f, {}) + SumOver(g, {})
        BY SumEmpty
    <2> QED BY <2>1
<1>5. Pick(s) \in s
    BY <1>4, PickIn
<1>6. /\ SumOver(f, s) = f[Pick(s)] + SumOver(f, r)
      /\ SumOver(g, s) = g[Pick(s)] + SumOver(g, r)
      /\ SumOver(h, s) = h[Pick(s)] + SumOver(h, r)
    BY <1>3, <1>4, SumUnfold
<1>7. SumOver(h, r) = SumOver(f, r) + SumOver(g, r)
    BY <1>2, <1>5
<1>8. SumOver(f, r) \in Int /\ SumOver(g, r) \in Int
    BY <1>3, SumType
<1>9. f[Pick(s)] \in Int /\ g[Pick(s)] \in Int /\ h[Pick(s)] = f[Pick(s)] + g[Pick(s)]
    BY <1>5
<1> QED BY <1>6, <1>7, <1>8, <1>9

(* Terms that are no smaller have a sum that is no smaller. *)
LEMMA SumMonotone ==
    ASSUME NEW f, NEW g, NEW S, IsFiniteSet(S),
           \A x \in S : f[x] \in Int /\ g[x] \in Int /\ f[x] <= g[x]
    PROVE  SumOver(f, S) <= SumOver(g, S)
<1> DEFINE Wrong == {s \in SUBSET S : ~(SumOver(f, s) <= SumOver(g, s))}
<1>1. SUFFICES ASSUME Wrong # {} PROVE FALSE
    OBVIOUS
<1>2. PICK s \in Wrong : \A y \in Wrong : ~(y \subseteq s /\ y # s)
    <2>1. Wrong \in SUBSET SUBSET S
        OBVIOUS
    <2> HIDE DEF Wrong
    <2> QED BY <1>1, <2>1, SmallestSet
<1> DEFINE r == s \ {Pick(s)}
<1>3. IsFiniteSet(s) /\ IsFiniteSet(r)
    BY FS_Subset, FS_RemoveElement
<1>4. s # {}
    BY SumEmpty
<1>5. Pick(s) \in s
    BY <1>4, PickIn
<1>6. /\ SumOver(f, s) = f[Pick(s)] + SumOver(f, r)
      /\ SumOver(g, s) = g[Pick(s)] + SumOver(g, r)
    BY <1>3, <1>4, SumUnfold
<1>7. SumOver(f, r) <= SumOver(g, r)
    BY <1>2, <1>5
<1>8. SumOver(f, r) \in Int /\ SumOver(g, r) \in Int
    BY <1>3, SumType
<1>9. f[Pick(s)] \in Int /\ g[Pick(s)] \in Int /\ f[Pick(s)] <= g[Pick(s)]
    BY <1>5
<1> QED BY <1>6, <1>7, <1>8, <1>9

LEMMA SumZero ==
    ASSUME NEW f, NEW S, IsFiniteSet(S), \A x \in S : f[x] = 0
    PROVE  SumOver(f, S) = 0
<1>1. SumOver(f, S) = SumOver(f, S) + SumOver(f, S)
    BY SumPlus
<1> QED BY <1>1, SumType

LEMMA SumNat ==
    ASSUME NEW f, NEW S, IsFiniteSet(S), \A x \in S : f[x] \in Nat
    PROVE  SumOver(f, S) \in Nat
<1> DEFINE zero == [x \in S |-> 0]
<1>1. SumOver(zero, S) <= SumOver(f, S)
    BY SumMonotone
<1>2. SumOver(zero, S) = 0 /\ SumOver(f, S) \in Int
    BY SumZero, SumType
<1> QED BY <1>1, <1>2

(* Changing one term changes the sum by as much. *)
LEMMA SumUpdate ==
    ASSUME NEW f, NEW g, NEW S, IsFiniteSet(S), \A x \in S : f[x] \in Int,
           NEW k \in S, g[k] \in Int, \A x \in S \ {k} : g[x] = f[x]
    PROVE  SumOver(g, S) = SumOver(f, S) - f[k] + g[k]
<1> DEFINE rest == S \ {k}
<1>1. IsFiniteSet(rest)
    BY FS_RemoveElement
<1>2. SumOver(f, rest) = SumOver(g, rest)
    BY <1>1, SumSame
<1>3. SumOver(f, S) = f[k] + SumOver(f, rest) /\ SumOver(g, S) = g[k] + SumOver(g, rest)
    BY SumRemove
<1>4. f[k] \in Int /\ g[k] \in Int /\ SumOver(f, rest) \in Int
    BY <1>1, SumType
<1> QED BY <1>2, <1>3, <1>4

(* Terms that are zero may be left out. *)
LEMMA SumFilter ==
    ASSUME NEW f, NEW S, IsFiniteSet(S), \A x \in S : f[x] \in Int,
           NEW T \in SUBSET S, \A x \in S \ T : f[x] = 0
    PROVE  SumOver(f, T) = SumOver(f, S)
<1> DEFINE Wrong == {s \in SUBSET S : T \subseteq s /\ SumOver(f, s) # SumOver(f, T)}
<1>1. SUFFICES ASSUME Wrong # {} PROVE FALSE
    OBVIOUS
<1>2. PICK s \in Wrong : \A y \in Wrong : ~(y \subseteq s /\ y # s)
    <2>1. Wrong \in SUBSET SUBSET S
        OBVIOUS
    <2> HIDE DEF Wrong
    <2> QED BY <1>1, <2>1, SmallestSet
<1>3. PICK x \in s : x \notin T
    OBVIOUS
<1>4. IsFiniteSet(s) /\ IsFiniteSet(s \ {x})
    BY FS_Subset, FS_RemoveElement
<1>5. SumOver(f, s) = f[x] + SumOver(f, s \ {x})
    BY <1>4, SumRemove
<1>6. SumOver(f, s \ {x}) = SumOver(f, T)
    BY <1>2, <1>3
<1>7. SumOver(f, s \ {x}) \in Int /\ f[x] = 0
    BY <1>3, <1>4, SumType
<1> QED BY <1>5, <1>6, <1>7

-----------------------------------------------------------------------------
(* Sums over sets that change, term by term; what is outside of a set counts
   as nothing. *)
Term(f, S, x) == IF x \in S THEN f[x] ELSE 0

LEMMA SumOfTerms ==
    ASSUME NEW f, NEW S, NEW D, IsFiniteSet(D), S \subseteq D, \A x \in S : f[x] \in Int
    PROVE  SumOver(f, S) = SumOver([x \in D |-> Term(f, S, x)], D)
<1> DEFINE g == [x \in D |-> Term(f, S, x)]
<1>1. IsFiniteSet(S)
    BY FS_Subset
<1>2. \A x \in S : f[x] = g[x]
    BY DEF Term
<1>3. SumOver(f, S) = SumOver(g, S)
    BY <1>1, <1>2, SumSame
<1>4. (\A x \in D : g[x] \in Int) /\ \A x \in D \ S : g[x] = 0
    BY DEF Term
<1> HIDE DEF g
<1>5. SumOver(g, S) = SumOver(g, D)
    BY <1>4, SumFilter
<1> QED BY <1>3, <1>5 DEF g

(* The sum over T is those over R and S when every term is. *)
LEMMA SumSplit ==
    ASSUME NEW f, NEW R, NEW g, NEW S, NEW h, NEW T,
           IsFiniteSet(R), IsFiniteSet(S), IsFiniteSet(T),
           \A x \in R : f[x] \in Int, \A x \in S : g[x] \in Int, \A x \in T : h[x] \in Int,
           \A x \in R \cup S \cup T : Term(h, T, x) = Term(f, R, x) + Term(g, S, x)
    PROVE  SumOver(h, T) = SumOver(f, R) + SumOver(g, S)
<1> DEFINE D == (R \cup S) \cup T
           a == [x \in D |-> Term(f, R, x)]
           b == [x \in D |-> Term(g, S, x)]
           c == [x \in D |-> Term(h, T, x)]
<1>1. IsFiniteSet(D) /\ R \subseteq D /\ S \subseteq D /\ T \subseteq D
    BY FS_Union
<1>2. \A x \in D : a[x] \in Int /\ b[x] \in Int /\ c[x] = a[x] + b[x]
    BY DEF Term
<1>3. SumOver(f, R) = SumOver(a, D)
    <2> HIDE DEF D
    <2> QED BY <1>1, SumOfTerms
<1>4. SumOver(g, S) = SumOver(b, D)
    <2> HIDE DEF D
    <2> QED BY <1>1, SumOfTerms
<1>5. SumOver(h, T) = SumOver(c, D)
    <2> HIDE DEF D
    <2> QED BY <1>1, SumOfTerms
<1> HIDE DEF D, a, b, c
<1>6. SumOver(c, D) = SumOver(a, D) + SumOver(b, D)
    BY <1>1, <1>2, SumPlus
<1> QED BY <1>3, <1>4, <1>5, <1>6

LEMMA SumBelow ==
    ASSUME NEW f, NEW R, NEW h, NEW T, IsFiniteSet(R), IsFiniteSet(T),
           \A x \in R : f[x] \in Int, \A x \in T : h[x] \in Int,
           \A x \in R \cup T : Term(h, T, x) <= Term(f, R, x)
    PROVE  SumOver(h, T) <= SumOver(f, R)
<1> DEFINE D == R \cup T
           a == [x \in D |-> Term(f, R, x)]
           c == [x \in D |-> Term(h, T, x)]
<1>1. IsFiniteSet(D) /\ R \subseteq D /\ T \subseteq D
    BY FS_Union
<1>2. \A x \in D : a[x] \in Int /\ c[x] \in Int /\ c[x] <= a[x]
    BY DEF Term
<1>3. SumOver(f, R) = SumOver(a, D)
    <2> HIDE DEF D
    <2> QED BY <1>1, SumOfTerms
<1>4. SumOver(h, T) = SumOver(c, D)
    <2> HIDE DEF D
    <2> QED BY <1>1, SumOfTerms
<1> HIDE DEF D, a, c
<1>5. SumOver(c, D) <= SumOver(a, D)
    BY <1>1, <1>2, SumMonotone
<1> QED BY <1>3, <1>4, <1>5

(* One term changes. *)
LEMMA SumMoves ==
    ASSUME NEW f, NEW R, NEW h, NEW T, IsFiniteSet(R), IsFiniteSet(T),
           \A x \in R : f[x] \in Int, \A x \in T : h[x] \in Int,
           NEW k, \A x \in (R \cup T) \ {k} : Term(h, T, x) = Term(f, R, x)
    PROVE  SumOver(h, T) = SumOver(f, R) + (Term(h, T, k) - Term(f, R, k))
<1> DEFINE d == Term(h, T, k) - Term(f, R, k)
           S == {k}
           g == [x \in S |-> d]
<1>1. Term(f, R, k) \in Int /\ Term(h, T, k) \in Int /\ d \in Int
    BY DEF Term
<1>2. d = Term(h, T, k) - Term(f, R, k)
    OBVIOUS
<1> HIDE DEF d
<1>3. IsFiniteSet(S)
    BY FS_Singleton
<1>4. (\A x \in S : g[x] \in Int) /\ g[k] = d
    BY <1>1
<1>5. k \in S /\ S \ {k} = {} /\ \A x \in S : x = k
    OBVIOUS
<1> HIDE DEF S, g
<1>6. ASSUME NEW x \in R \cup S \cup T
      PROVE  Term(h, T, x) = Term(f, R, x) + Term(g, S, x)
    <2>1. CASE x = k
        BY <1>1, <1>2, <1>4, <1>5, <2>1 DEF Term
    <2>2. CASE x # k
        <3>1. Term(g, S, x) = 0 /\ Term(h, T, x) = Term(f, R, x) /\ Term(f, R, x) \in Int
            BY <1>5, <2>2 DEF Term
        <3> QED BY <3>1
    <2> QED BY <2>1, <2>2
<1>7. SumOver(g, S) = d
    <2>1. SumOver(g, S) = g[k] + SumOver(g, S \ {k})
        BY <1>3, <1>4, <1>5, SumRemove
    <2>2. SumOver(g, {}) = 0
        BY SumEmpty
    <2> QED BY <1>1, <1>4, <1>5, <2>1, <2>2
<1>8. SumOver(h, T) = SumOver(f, R) + SumOver(g, S)
    BY <1>3, <1>4, <1>6, SumSplit
<1> QED BY <1>2, <1>7, <1>8

-----------------------------------------------------------------------------
(* Equal terms, and terms under other names. *)

LEMMA SumConst ==
    ASSUME NEW f, NEW S, IsFiniteSet(S), NEW c \in Int, \A x \in S : f[x] = c
    PROVE  SumOver(f, S) = Cardinality(S) * c
<1> DEFINE Wrong == {s \in SUBSET S : SumOver(f, s) # Cardinality(s) * c}
<1>1. SUFFICES ASSUME Wrong # {} PROVE FALSE
    OBVIOUS
<1>2. PICK s \in Wrong : \A y \in Wrong : ~(y \subseteq s /\ y # s)
    <2>1. Wrong \in SUBSET SUBSET S
        OBVIOUS
    <2> HIDE DEF Wrong
    <2> QED BY <1>1, <2>1, SmallestSet
<1> DEFINE r == s \ {Pick(s)}
<1>3. IsFiniteSet(s)
    BY FS_Subset
<1>4. s # {}
    <2>1. SumOver(f, {}) = 0 /\ Cardinality({}) = 0
        BY SumEmpty, FS_EmptySet
    <2> QED BY <2>1
<1>5. Pick(s) \in s
    BY <1>4, PickIn
<1>6. SumOver(f, s) = f[Pick(s)] + SumOver(f, r)
    BY <1>3, <1>4, SumUnfold
<1>7. SumOver(f, r) = Cardinality(r) * c
    BY <1>2, <1>5
<1>8. IsFiniteSet(r) /\ Cardinality(r) = Cardinality(s) - 1 /\ Cardinality(s) \in Nat
    BY <1>3, <1>5, FS_RemoveElement, FS_CardinalityType
<1>9. f[Pick(s)] = c
    BY <1>5
<1>10. SumOver(f, s) # Cardinality(s) * c
    BY <1>2
<1> HIDE DEF r, Wrong
<1>11. \A n \in Nat : c + (n - 1) * c = n * c
    OBVIOUS
<1> QED BY <1>6, <1>7, <1>8, <1>9, <1>10, <1>11

(* b renames the terms of f over S to those of g over T. *)
Renames(b, f, S, g, T) ==
    /\ \A x \in S : b[x] \in T /\ g[b[x]] = f[x]
    /\ \A x \in S, y \in S : b[x] = b[y] => x = y
    /\ \A y \in T : \E x \in S : b[x] = y

LEMMA SumRenamed ==
    ASSUME NEW f, NEW S, IsFiniteSet(S), \A x \in S : f[x] \in Int,
           NEW b, NEW g, NEW T, Renames(b, f, S, g, T)
    PROVE  SumOver(f, S) = SumOver(g, T)
<1> DEFINE Named(s) == {b[x] : x \in s}
           Wrong == {s \in SUBSET S : ~(/\ IsFiniteSet(Named(s))
                                        /\ SumOver(f, s) = SumOver(g, Named(s)))}
<1>0. /\ \A x \in S : b[x] \in T /\ g[b[x]] = f[x]
      /\ \A x \in S, y \in S : b[x] = b[y] => x = y
      /\ \A y \in T : \E x \in S : b[x] = y
    BY DEF Renames
<1>1. SUFFICES ASSUME Wrong # {} PROVE FALSE
    <2>1. Named(S) = T
        BY <1>0
    <2>2. S \notin Wrong <=> IsFiniteSet(Named(S)) /\ SumOver(f, S) = SumOver(g, Named(S))
        OBVIOUS
    <2> HIDE DEF Wrong, Named
    <2> QED BY <2>1, <2>2
<1>2. PICK s \in Wrong : \A y \in Wrong : ~(y \subseteq s /\ y # s)
    <2>1. Wrong \in SUBSET SUBSET S
        OBVIOUS
    <2> HIDE DEF Wrong
    <2> QED BY <1>1, <2>1, SmallestSet
<1>3. IsFiniteSet(s) /\ s \in SUBSET S
    BY FS_Subset
<1>4. s # {}
    <2>1. Named({}) = {}
        OBVIOUS
    <2>2. SumOver(f, {}) = 0 /\ SumOver(g, {}) = 0
        BY SumEmpty
    <2> QED BY <2>1, <2>2, FS_EmptySet
<1>5. PICK x \in s : TRUE
    BY <1>4
<1> DEFINE r == s \ {x}
<1>6. SumOver(f, s) = f[x] + SumOver(f, r)
    BY <1>3, SumRemove
<1>7. IsFiniteSet(Named(r)) /\ SumOver(f, r) = SumOver(g, Named(r))
    <2>1. r \in SUBSET S /\ r \subseteq s /\ r # s
        BY <1>3
    <2>2. r \in Wrong <=> ~(/\ IsFiniteSet(Named(r)) /\ SumOver(f, r) = SumOver(g, Named(r)))
        BY <2>1
    <2>3. r \notin Wrong
        <3> HIDE DEF Wrong, r
        <3> QED BY <1>2, <2>1
    <2> HIDE DEF Wrong, r, Named
    <2> QED BY <2>2, <2>3
<1>8. Named(r) = Named(s) \ {b[x]}
    BY <1>0, <1>3
<1>9. IsFiniteSet(Named(s))
    <2>1. Named(s) = Named(r) \cup {b[x]}
        OBVIOUS
    <2> HIDE DEF Named, r
    <2> QED BY SMTT(30), <1>7, <2>1, FS_AddElement
<1>10. b[x] \in Named(s) /\ \A y \in Named(s) : g[y] \in Int
    BY <1>0, <1>3
<1>11. g[b[x]] = f[x] /\ SumOver(f, s) # SumOver(g, Named(s))
    BY <1>0, <1>2, <1>3, <1>9
<1> HIDE DEF Wrong, Named, r
<1>12. SumOver(g, Named(s)) = g[b[x]] + SumOver(g, Named(s) \ {b[x]})
    BY <1>9, <1>10, SumRemove
<1> QED BY <1>6, <1>7, <1>8, <1>11, <1>12

(* A sum by classes, then over the classes. *)
InClass(s, class, c) == {x \in s : class[x] = c}
ClassSums(f, s, class, C) == [c \in C |-> SumOver(f, InClass(s, class, c))]

LEMMA SumByClass ==
    ASSUME NEW f, NEW S, IsFiniteSet(S), \A x \in S : f[x] \in Int,
           NEW class, NEW C, IsFiniteSet(C), \A x \in S : class[x] \in C
    PROVE  SumOver(ClassSums(f, S, class, C), C) = SumOver(f, S)
<1> DEFINE Wrong == {s \in SUBSET S :
                        SumOver(ClassSums(f, s, class, C), C) # SumOver(f, s)}
<1>1. SUFFICES ASSUME Wrong # {} PROVE FALSE
    OBVIOUS
<1>2. PICK s \in Wrong : \A y \in Wrong : ~(y \subseteq s /\ y # s)
    <2>1. Wrong \in SUBSET SUBSET S
        OBVIOUS
    <2> HIDE DEF Wrong
    <2> QED BY <1>1, <2>1, SmallestSet
<1>3. ASSUME NEW t \in SUBSET S
      PROVE  /\ IsFiniteSet(t)
             /\ \A c : IsFiniteSet(InClass(t, class, c)) /\ InClass(t, class, c) \subseteq t
             /\ \A c \in C : /\ ClassSums(f, t, class, C)[c] = SumOver(f, InClass(t, class, c))
                             /\ ClassSums(f, t, class, C)[c] \in Int
    <2>1. IsFiniteSet(t)
        BY FS_Subset
    <2>2. \A c : InClass(t, class, c) \subseteq t
        BY DEF InClass
    <2>3. \A c : IsFiniteSet(InClass(t, class, c))
        BY <2>1, <2>2, FS_Subset
    <2>4. \A c : SumOver(f, InClass(t, class, c)) \in Int
        BY <2>2, <2>3, SumType
    <2>5. \A c \in C : ClassSums(f, t, class, C)[c] = SumOver(f, InClass(t, class, c))
        BY DEF ClassSums
    <2> QED BY <2>1, <2>2, <2>3, <2>4, <2>5
<1>4. s \in SUBSET S /\ SumOver(ClassSums(f, s, class, C), C) # SumOver(f, s)
    BY <1>2
<1>5. s # {}
    <2> SUFFICES ASSUME s = {} PROVE FALSE
        OBVIOUS
    <2>1. \A c \in C : InClass(s, class, c) = {}
        BY DEF InClass
    <2>2. \A c \in C : ClassSums(f, s, class, C)[c] = 0
        BY <2>1, SumEmpty DEF ClassSums
    <2>3. SumOver(ClassSums(f, s, class, C), C) = 0
        BY <2>2, SumZero
    <2> QED BY <1>4, <2>3, SumEmpty
<1>6. PICK x \in s : TRUE
    BY <1>5
<1> DEFINE r == s \ {x}
           k == class[x]
           old == ClassSums(f, r, class, C)
           new == ClassSums(f, s, class, C)
<1>7. x \in S /\ k \in C /\ r \in SUBSET S /\ r \subseteq s /\ r # s /\ f[x] \in Int
    BY <1>4, <1>6
<1>8. SumOver(old, C) = SumOver(f, r)
    <2>1. r \notin Wrong
        <3> HIDE DEF Wrong, r
        <3> QED BY <1>2, <1>7
    <2> QED BY <1>7, <2>1
<1> HIDE DEF Wrong
<1>9. new[k] = f[x] + old[k]
    <2>1. InClass(s, class, k) \ {x} = InClass(r, class, k) /\ x \in InClass(s, class, k)
        BY <1>6 DEF InClass
    <2>2. IsFiniteSet(InClass(s, class, k)) /\ \A y \in InClass(s, class, k) : f[y] \in Int
        BY <1>3, <1>4
    <2> HIDE DEF r, k
    <2>3. SumOver(f, InClass(s, class, k)) = f[x] + SumOver(f, InClass(s, class, k) \ {x})
        BY <2>1, <2>2, SumRemove
    <2> QED BY <2>1, <1>3, <1>4, <1>7, <2>3
<1>10. \A c \in C \ {k} : new[c] = old[c]
    <2>1. \A c \in C \ {k} : InClass(s, class, c) = InClass(r, class, c)
        BY DEF InClass
    <2> HIDE DEF r, k
    <2> QED BY <1>3, <1>4, <1>7, <2>1
<1>11. \A c \in C : old[c] \in Int /\ new[c] \in Int
    <2> HIDE DEF r
    <2> QED BY <1>3, <1>4, <1>7
<1>12. SumOver(f, s) = f[x] + SumOver(f, r) /\ SumOver(f, r) \in Int
    <2>1. \A y \in s : f[y] \in Int
        BY <1>4
    <2>2. IsFiniteSet(r) /\ \A y \in r : f[y] \in Int
        <3> HIDE DEF r
        <3> QED BY <1>3, <1>7
    <2>3. IsFiniteSet(s)
        BY <1>3, <1>4
    <2>4. SumOver(f, s) = f[x] + SumOver(f, s \ {x})
        BY <1>6, <2>1, <2>3, SumRemove
    <2> HIDE DEF r
    <2>5. SumOver(f, r) \in Int
        BY <2>2, SumType
    <2> QED BY <2>4, <2>5 DEF r
<1> HIDE DEF r, k, old, new
<1>13. SumOver(new, C) = SumOver(old, C) - old[k] + new[k]
    BY <1>7, <1>10, <1>11, SumUpdate
<1>14. SumOver(new, C) # SumOver(f, s)
    BY <1>4 DEF new
<1>15. old[k] \in Int /\ f[x] \in Int
    BY <1>7, <1>11
<1> QED BY <1>8, <1>9, <1>12, <1>13, <1>14, <1>15
-----------------------------------------------------------------------------
(* Powers of ten, up to n. *)
IsPower(g, n) == g = [i \in 0..n |-> IF i = 0 THEN 1 ELSE 10 * g[i - 1]]

LEMMA PowersExist == \A n \in Nat : \E g : IsPower(g, n)
<1> DEFINE Wrong == {n \in Nat : ~ \E g : IsPower(g, n)}
<1>1. SUFFICES ASSUME Wrong # {} PROVE FALSE
    OBVIOUS
<1>2. PICK n \in Wrong : \A k \in Wrong : n <= k
    BY <1>1, Least
<1>3. CASE n = 0
    <2> DEFINE g == [i \in 0..0 |-> 1]
    <2>1. IsPower(g, 0)
        BY DEF IsPower
    <2> QED BY <1>2, <1>3, <2>1
<1>4. CASE n # 0
    <2>1. n - 1 \in Nat /\ n - 1 \notin Wrong
        BY <1>2, <1>4
    <2>2. PICK h : IsPower(h, n - 1)
        BY <2>1
    <2> DEFINE g == [i \in 0..n |-> IF i = n THEN 10 * h[n - 1] ELSE h[i]]
    <2>3. ASSUME NEW i \in 0..n
          PROVE  g[i] = IF i = 0 THEN 1 ELSE 10 * g[i - 1]
        <3>1. CASE i = n
            BY <1>2, <1>4, <3>1
        <3>2. CASE i # n
            <4>1. i \in 0..(n - 1) /\ (i # 0 => i - 1 \in 0..(n - 1) /\ i - 1 # n)
                BY <1>2, <3>2
            <4>2. h[i] = IF i = 0 THEN 1 ELSE 10 * h[i - 1]
                BY <2>2, <4>1 DEF IsPower
            <4> QED BY <3>2, <4>1, <4>2
        <3> QED BY <3>1, <3>2
    <2>4. IsPower(g, n)
        BY <2>3 DEF IsPower
    <2> QED BY <1>2, <2>4
<1> QED BY <1>3, <1>4

LEMMA PowersAgree ==
    ASSUME NEW n \in Nat, NEW m \in Nat, NEW g, NEW h, IsPower(g, n), IsPower(h, m)
    PROVE  \A i \in Nat : i <= n /\ i <= m => g[i] = h[i]
<1> DEFINE Wrong == {i \in Nat : i <= n /\ i <= m /\ g[i] # h[i]}
<1>1. SUFFICES ASSUME Wrong # {} PROVE FALSE
    OBVIOUS
<1>2. PICK i \in Wrong : \A k \in Wrong : i <= k
    BY <1>1, Least
<1>3. /\ g[i] = IF i = 0 THEN 1 ELSE 10 * g[i - 1]
      /\ h[i] = IF i = 0 THEN 1 ELSE 10 * h[i - 1]
    BY <1>2 DEF IsPower
<1>4. i # 0 => g[i - 1] = h[i - 1]
    BY <1>2
<1> QED BY <1>2, <1>3, <1>4

(* There is a function of all powers of ten, so that a recursive definition of
   it is one. *)
LEMMA PowersOfTen == \E f : f = [i \in Nat |-> IF i = 0 THEN 1 ELSE 10 * f[i - 1]]
<1> DEFINE P(i) == CHOOSE g : IsPower(g, i)
           f == [i \in Nat |-> P(i)[i]]
<1>1. \A i \in Nat : IsPower(P(i), i)
    BY PowersExist
<1> HIDE DEF P
<1>2. ASSUME NEW i \in Nat PROVE f[i] = IF i = 0 THEN 1 ELSE 10 * f[i - 1]
    <2>1. P(i)[i] = IF i = 0 THEN 1 ELSE 10 * P(i)[i - 1]
        BY <1>1 DEF IsPower
    <2>2. CASE i # 0
        <3>1. P(i)[i - 1] = P(i - 1)[i - 1]
            BY <1>1, <2>2, PowersAgree
        <3> QED BY <2>1, <2>2, <3>1
    <2> QED BY <2>1, <2>2
<1>3. f = [i \in Nat |-> IF i = 0 THEN 1 ELSE 10 * f[i - 1]]
    BY <1>2
<1> HIDE DEF f
<1> QED BY <1>3

LEMMA PowersPositive ==
    ASSUME NEW f, f = [i \in Nat |-> IF i = 0 THEN 1 ELSE 10 * f[i - 1]]
    PROVE  \A n \in Nat : f[n] \in Nat \ {0}
<1> DEFINE Wrong == {n \in Nat : f[n] \notin Nat \ {0}}
<1>1. SUFFICES ASSUME Wrong # {} PROVE FALSE
    OBVIOUS
<1>2. PICK n \in Wrong : \A k \in Wrong : n <= k
    BY <1>1, Least
<1>3. n # 0 => n - 1 \in Nat /\ f[n - 1] \in Nat \ {0}
    BY <1>2
<1>4. f[n] = IF n = 0 THEN 1 ELSE 10 * f[n - 1]
    BY <1>2
<1> QED BY <1>2, <1>3, <1>4

LEMMA ProductType ==
    ASSUME NEW x \in Nat, NEW y \in Nat
    PROVE  x * y \in Nat
OBVIOUS

LEMMA QuotientType ==
    ASSUME NEW x \in Nat, NEW y \in Nat \ {0}
    PROVE  x \div y \in Nat
OBVIOUS
=============================================================================
