---------------------------- MODULE CountsProofs ----------------------------
(***************************************************************************)
(* Proofs about numbers: those that the SDKs send (Senders), and those     *)
(* that are answered (Query).                                              *)
(*                                                                         *)
(* Both add up over finite sets, so first come the facts about sums.       *)
(*                                                                         *)
(* Query, for any rows, organizations, periods, goals and sockets: no      *)
(* answer depends on a row of another organization, no shared dashboard or *)
(* tile on one of another project, and none on the copies of a row; what   *)
(* is broken down adds up; no goal has a rate above 100 %, and nobody      *)
(* watches a live map that nobody attends to.                              *)
(*                                                                         *)
(* Senders, for any routes, addresses and posts under way: no row claims   *)
(* more than was made, nothing counts twice, and until something fails     *)
(* nothing is lost.  Rows alone do not tell: what makes this inductive is  *)
(* the account of what rows, window and posts hold together, by route and, *)
(* without what is marked as overflow, by address.                         *)
(***************************************************************************)
EXTENDS Query, Senders, FiniteSetTheorems, FunctionTheorems, WellFoundedInduction, TLAPS

-----------------------------------------------------------------------------
(* Sums.  A sum over a finite set is a fold, in an order that is not known; *)
(* that it is well defined, and does not depend on the order, is proved by  *)
(* looking at a smallest set for which it would not.                        *)

Pick(s)         == CHOOSE x \in s : TRUE
Solves(f, S, g) == g = [s \in SUBSET S |-> IF s = {} THEN 0 ELSE f[Pick(s)] + g[s \ {Pick(s)}]]
Fold(f, S)      == CHOOSE g : Solves(f, S, g)

\* The sum, as its definition has it.
LEMMA TotalIs == ASSUME NEW f, NEW S PROVE Total(f, S) = Fold(f, S)[S]
BY Zenon DEF Total, SumFunctionOnSet, FoldFunctionOnSet, MapThenFoldSet, Fold, Solves, Pick

\* Of subsets of a finite set there is a smallest one.
LEMMA Smallest ==
    ASSUME NEW S, IsFiniteSet(S), NEW T, T \subseteq SUBSET S, T # {}
    PROVE  \E s \in T : /\ s \subseteq S /\ IsFiniteSet(s)
                        /\ \A u \in T : u \subseteq s => u = s
<1>1. IsWellFoundedOn(StrictSubsetOrdering(S), FiniteSubsetsOf(S))
    BY FS_StrictSubsetOrderingWellFounded
<1>2. \A s \in SUBSET S : IsFiniteSet(s)
    BY FS_Subset
<1>3. T \subseteq FiniteSubsetsOf(S)
    BY <1>2 DEF FiniteSubsetsOf
<1>4. PICK s \in T : \A u \in T : <<u, s>> \notin StrictSubsetOrdering(S)
    BY <1>1, <1>3, WFMin
<1>5. \A u \in T : u \subseteq s => u = s
    BY <1>4 DEF StrictSubsetOrdering
<1> QED
    BY <1>2, <1>5

\* What is chosen of a set is in it.
LEMMA PickIs == ASSUME NEW s, s # {} PROVE Pick(s) \in s
BY DEF Pick

\* Two solutions agree where both are defined.
LEMMA SolutionsAgree ==
    ASSUME NEW f, NEW S, NEW U, IsFiniteSet(S), U \subseteq S, NEW g, NEW h,
           Solves(f, S, g), Solves(f, U, h)
    PROVE  g[U] = h[U]
<1> DEFINE T == {s \in SUBSET U : g[s] # h[s]}
<1>1. SUFFICES ASSUME T # {} PROVE FALSE
    OBVIOUS
<1>2. IsFiniteSet(U) /\ T \subseteq SUBSET U
    BY FS_Subset
<1> HIDE DEF T
<1>3. PICK s \in T : s \subseteq U /\ \A u \in T : u \subseteq s => u = s
    BY <1>1, <1>2, Smallest
<1> USE DEF T
<1>4. /\ g[s] = IF s = {} THEN 0 ELSE f[Pick(s)] + g[s \ {Pick(s)}]
      /\ h[s] = IF s = {} THEN 0 ELSE f[Pick(s)] + h[s \ {Pick(s)}]
    BY <1>3 DEF Solves
<1>5. s # {}
    BY <1>3, <1>4
<1>6. s \ {Pick(s)} \subseteq s /\ s \ {Pick(s)} # s
    BY <1>5, PickIs
<1>7. s \ {Pick(s)} \notin T
    BY <1>3, <1>6
<1>8. g[s \ {Pick(s)}] = h[s \ {Pick(s)}]
    BY <1>3, <1>6, <1>7
<1> QED
    BY <1>3, <1>4, <1>8

\* There is a solution.
LEMMA FoldSolves == ASSUME NEW f, NEW S, IsFiniteSet(S) PROVE Solves(f, S, Fold(f, S))
<1> DEFINE T == {U \in SUBSET S : ~(\E g : Solves(f, U, g))}
           V(s) == Fold(f, s)[s]
<1>1. SUFFICES ASSUME T # {} PROVE FALSE
    BY Zenon DEF Fold
<1>2. PICK U \in T : U \subseteq S /\ IsFiniteSet(U) /\ \A u \in T : u \subseteq U => u = U
    <2>1. T \subseteq SUBSET S
        OBVIOUS
    <2> HIDE DEF T
    <2> QED
        BY <1>1, <2>1, Smallest
<1>3. ASSUME NEW s \in SUBSET U, s # U
      PROVE  V(s) = IF s = {} THEN 0 ELSE f[Pick(s)] + V(s \ {Pick(s)})
    <2>1. \A u \in SUBSET s : \E g : Solves(f, u, g)
        BY <1>2, <1>3
    <2>2. \A u \in SUBSET s : Solves(f, u, Fold(f, u))
        BY <2>1, Zenon DEF Fold
    <2>3. Fold(f, s)[s] = IF s = {} THEN 0 ELSE f[Pick(s)] + Fold(f, s)[s \ {Pick(s)}]
        BY <2>2, Zenon DEF Solves
    <2>4. IsFiniteSet(s) /\ s \ {Pick(s)} \in SUBSET s
        BY <1>2, FS_Subset
    <2>5. Fold(f, s)[s \ {Pick(s)}] = Fold(f, s \ {Pick(s)})[s \ {Pick(s)}]
        BY <2>2, <2>4, SolutionsAgree
    <2> QED
        BY <2>3, <2>5
<1> DEFINE g == [s \in SUBSET U |-> IF s = U THEN IF U = {} THEN 0 ELSE f[Pick(U)] + V(U \ {Pick(U)})
                                             ELSE V(s)]
<1>4. Solves(f, U, g)
    <2> HIDE DEF V
    <2> SUFFICES ASSUME NEW s \in SUBSET U
                 PROVE  g[s] = IF s = {} THEN 0 ELSE f[Pick(s)] + g[s \ {Pick(s)}]
        BY DEF Solves
    <2>1. CASE s = {} /\ s = U
        BY <2>1
    <2>2. CASE s = {} /\ s # U
        BY <1>3, <2>2
    <2>3. CASE s # {}
        <3>1. s \ {Pick(s)} \in SUBSET U /\ s \ {Pick(s)} # U
            BY <2>3, PickIs
        <3>2. g[s \ {Pick(s)}] = V(s \ {Pick(s)})
            BY <3>1
        <3>3. g[s] = f[Pick(s)] + V(s \ {Pick(s)})
            BY <1>3, <2>3
        <3> QED
            BY <2>3, <3>2, <3>3
    <2> QED
        BY <2>1, <2>2, <2>3
<1> QED
    BY <1>2, <1>4

\* The sum is one term and the sum of the others.
LEMMA TotalStep ==
    ASSUME NEW f, NEW S, IsFiniteSet(S)
    PROVE  Total(f, S) = IF S = {} THEN 0 ELSE f[Pick(S)] + Total(f, S \ {Pick(S)})
<1>1. IsFiniteSet(S \ {Pick(S)})
    BY FS_Subset
<1>2. Solves(f, S, Fold(f, S)) /\ Solves(f, S \ {Pick(S)}, Fold(f, S \ {Pick(S)}))
    BY <1>1, FoldSolves
<1>3. Fold(f, S)[S] = IF S = {} THEN 0 ELSE f[Pick(S)] + Fold(f, S)[S \ {Pick(S)}]
    BY <1>2, Zenon DEF Solves
<1>4. Fold(f, S)[S \ {Pick(S)}] = Fold(f, S \ {Pick(S)})[S \ {Pick(S)}]
    BY <1>2, SolutionsAgree
<1> QED
    BY <1>3, <1>4, TotalIs

\* The sum of nothing.
LEMMA TotalOfNone == ASSUME NEW f PROVE Total(f, {}) = 0
BY TotalStep, FS_EmptySet

\* Naturals have a natural for their sum.
LEMMA TotalNat ==
    ASSUME NEW f, NEW S, IsFiniteSet(S), \A x \in S : f[x] \in Nat
    PROVE  Total(f, S) \in Nat
<1> DEFINE T == {s \in SUBSET S : Total(f, s) \notin Nat}
<1>1. SUFFICES ASSUME T # {} PROVE FALSE
    OBVIOUS
<1>2. T \subseteq SUBSET S
    OBVIOUS
<1> HIDE DEF T
<1>3. PICK s \in T : s \subseteq S /\ IsFiniteSet(s) /\ \A u \in T : u \subseteq s => u = s
    BY <1>1, <1>2, Smallest
<1> USE DEF T
<1> DEFINE c == Pick(s)
<1>4. Total(f, s) = IF s = {} THEN 0 ELSE f[c] + Total(f, s \ {c})
    BY <1>3, TotalStep
<1>5. s # {}
    BY <1>3, <1>4
<1>6. c \in s /\ s \ {c} \subseteq s /\ s \ {c} # s
    BY <1>5, PickIs
<1> HIDE DEF c
<1>7. Total(f, s \ {c}) \in Nat
    BY <1>3, <1>6
<1>8. f[c] \in Nat
    BY <1>3, <1>6
<1>9. f[c] + Total(f, s \ {c}) \in Nat
    BY <1>7, <1>8
<1> QED
    BY <1>3, <1>4, <1>5, <1>9

\* Integers have an integer for their sum.
LEMMA TotalInt ==
    ASSUME NEW f, NEW S, IsFiniteSet(S), \A x \in S : f[x] \in Int
    PROVE  Total(f, S) \in Int
<1> DEFINE T == {s \in SUBSET S : Total(f, s) \notin Int}
<1>1. SUFFICES ASSUME T # {} PROVE FALSE
    OBVIOUS
<1>2. T \subseteq SUBSET S
    OBVIOUS
<1> HIDE DEF T
<1>3. PICK s \in T : s \subseteq S /\ IsFiniteSet(s) /\ \A u \in T : u \subseteq s => u = s
    BY <1>1, <1>2, Smallest
<1> USE DEF T
<1> DEFINE c == Pick(s)
<1>4. Total(f, s) = IF s = {} THEN 0 ELSE f[c] + Total(f, s \ {c})
    BY <1>3, TotalStep
<1>5. s # {}
    BY <1>3, <1>4
<1>6. c \in s /\ s \ {c} \subseteq s /\ s \ {c} # s
    BY <1>5, PickIs
<1> HIDE DEF c
<1>7. Total(f, s \ {c}) \in Int
    BY <1>3, <1>6
<1>8. f[c] \in Int
    BY <1>3, <1>6
<1>9. f[c] + Total(f, s \ {c}) \in Int
    BY <1>7, <1>8
<1> QED
    BY <1>3, <1>4, <1>5, <1>9

\* Any term may be the one.
LEMMA TotalSplit ==
    ASSUME NEW f, NEW S, IsFiniteSet(S), \A x \in S : f[x] \in Int, NEW x \in S
    PROVE  Total(f, S) = f[x] + Total(f, S \ {x})
<1> DEFINE T == {s \in SUBSET S : \E y \in s : Total(f, s) # f[y] + Total(f, s \ {y})}
<1>1. SUFFICES ASSUME T # {} PROVE FALSE
    OBVIOUS
<1>2. T \subseteq SUBSET S
    OBVIOUS
<1> HIDE DEF T
<1>3. PICK s \in T : s \subseteq S /\ IsFiniteSet(s) /\ \A u \in T : u \subseteq s => u = s
    BY <1>1, <1>2, Smallest
<1>4. PICK y \in s : Total(f, s) # f[y] + Total(f, s \ {y})
    BY <1>3 DEF T
<1> DEFINE c == Pick(s)
<1>5. c \in s /\ Total(f, s) = f[c] + Total(f, s \ {c})
    BY <1>3, TotalStep, PickIs
<1> HIDE DEF c
<1>6. c # y
    BY <1>4, <1>5
<1> DEFINE u == s \ {c}
           v == s \ {y}
           w == (s \ {c}) \ {y}
<1>7. Total(f, u) = f[y] + Total(f, w)
    <2>1. u \notin T /\ u \in SUBSET S /\ y \in u /\ w = u \ {y}
        BY <1>3, <1>4, <1>5, <1>6
    <2> QED
        BY <2>1 DEF T
<1>8. Total(f, v) = f[c] + Total(f, w)
    <2>1. v \notin T /\ v \in SUBSET S /\ c \in v /\ w = v \ {c}
        BY <1>3, <1>4, <1>5, <1>6
    <2> QED
        BY <2>1 DEF T
<1>9. f[c] \in Int /\ f[y] \in Int /\ Total(f, w) \in Int
    <2>1. IsFiniteSet(w) /\ \A z \in w : f[z] \in Int
        BY <1>3, FS_Subset
    <2> QED
        BY <1>3, <1>4, <1>5, <2>1, TotalInt
<1>10. f[c] + (f[y] + Total(f, w)) = f[y] + (f[c] + Total(f, w))
    BY <1>9
<1> QED
    BY <1>4, <1>5, <1>7, <1>8, <1>10

\* The sum depends on the terms only.
LEMMA TotalSame ==
    ASSUME NEW f, NEW g, NEW S, IsFiniteSet(S), \A x \in S : f[x] = g[x]
    PROVE  Total(f, S) = Total(g, S)
<1> DEFINE T == {s \in SUBSET S : Total(f, s) # Total(g, s)}
<1>1. SUFFICES ASSUME T # {} PROVE FALSE
    OBVIOUS
<1>2. T \subseteq SUBSET S
    OBVIOUS
<1> HIDE DEF T
<1>3. PICK s \in T : s \subseteq S /\ IsFiniteSet(s) /\ \A u \in T : u \subseteq s => u = s
    BY <1>1, <1>2, Smallest
<1> USE DEF T
<1>4. /\ Total(f, s) = IF s = {} THEN 0 ELSE f[Pick(s)] + Total(f, s \ {Pick(s)})
      /\ Total(g, s) = IF s = {} THEN 0 ELSE g[Pick(s)] + Total(g, s \ {Pick(s)})
    BY <1>3, TotalStep
<1>5. s # {}
    BY <1>3, <1>4
<1>6. Pick(s) \in s /\ s \ {Pick(s)} \subseteq s /\ s \ {Pick(s)} # s
    BY <1>5, PickIs
<1>7. Total(f, s \ {Pick(s)}) = Total(g, s \ {Pick(s)})
    BY <1>3, <1>6
<1> QED
    BY <1>3, <1>4, <1>6, <1>7

\* No term is more than the sum.
LEMMA TotalBounds ==
    ASSUME NEW f, NEW S, IsFiniteSet(S), \A x \in S : f[x] \in Nat, NEW x \in S
    PROVE  f[x] <= Total(f, S)
<1>1. IsFiniteSet(S \ {x}) /\ \A y \in S \ {x} : f[y] \in Nat
    BY FS_Subset
<1>2. Total(f, S \ {x}) \in Nat
    BY <1>1, TotalNat
<1>3. Total(f, S) = f[x] + Total(f, S \ {x}) /\ f[x] \in Nat
    BY TotalSplit
<1> DEFINE a == f[x]
           b == Total(f, S \ {x})
<1> HIDE DEF a, b
<1>4. a <= a + b
    BY <1>2, <1>3 DEF a, b
<1> QED
    BY <1>3, <1>4 DEF a, b

\* The sum of nothing but zeros.
LEMMA TotalZero ==
    ASSUME NEW f, NEW S, IsFiniteSet(S), \A x \in S : f[x] = 0
    PROVE  Total(f, S) = 0
<1> DEFINE T == {s \in SUBSET S : Total(f, s) # 0}
<1>1. SUFFICES ASSUME T # {} PROVE FALSE
    OBVIOUS
<1>2. T \subseteq SUBSET S
    OBVIOUS
<1> HIDE DEF T
<1>3. PICK s \in T : s \subseteq S /\ IsFiniteSet(s) /\ \A u \in T : u \subseteq s => u = s
    BY <1>1, <1>2, Smallest
<1> USE DEF T
<1>4. Total(f, s) = IF s = {} THEN 0 ELSE f[Pick(s)] + Total(f, s \ {Pick(s)})
    BY <1>3, TotalStep
<1>5. s # {}
    BY <1>3, <1>4
<1>6. Pick(s) \in s /\ s \ {Pick(s)} \subseteq s /\ s \ {Pick(s)} # s
    BY <1>5, PickIs
<1>7. Total(f, s \ {Pick(s)}) = 0 /\ f[Pick(s)] = 0
    BY <1>3, <1>6
<1> QED
    BY <1>3, <1>4, <1>5, <1>7

\* A sum over two sets.
LEMMA TotalUnion ==
    ASSUME NEW f, NEW S, NEW R, IsFiniteSet(S), IsFiniteSet(R), S \cap R = {},
           \A x \in S \cup R : f[x] \in Int
    PROVE  Total(f, S \cup R) = Total(f, S) + Total(f, R)
<1> DEFINE T == {s \in SUBSET S : Total(f, s \cup R) # Total(f, s) + Total(f, R)}
<1>1. SUFFICES ASSUME T # {} PROVE FALSE
    OBVIOUS
<1>2. T \subseteq SUBSET S
    OBVIOUS
<1> HIDE DEF T
<1>3. PICK s \in T : s \subseteq S /\ IsFiniteSet(s) /\ \A u \in T : u \subseteq s => u = s
    BY <1>1, <1>2, Smallest
<1>4. Total(f, R) \in Int
    BY TotalInt
<1>5. s # {}
    <2>1. {} \cup R = R /\ Total(f, {}) = 0
        BY TotalOfNone
    <2>2. Total(f, {} \cup R) = Total(f, R)
        BY <2>1
    <2>3. Total(f, R) = 0 + Total(f, R)
        BY <1>4
    <2>4. {} \notin T
        BY <2>1, <2>2, <2>3 DEF T
    <2> QED
        BY <1>3, <2>4
<1>6. PICK c : c \in s
    BY <1>5
<1> DEFINE u == s \ {c}
<1>7. u \notin T /\ u \in SUBSET S /\ (s \cup R) \ {c} = u \cup R
    BY <1>3, <1>6
<1>8. IsFiniteSet(u) /\ IsFiniteSet(s \cup R) /\ IsFiniteSet(u \cup R)
    BY <1>3, FS_Subset, FS_Union
<1>9. Total(f, u \cup R) = Total(f, u) + Total(f, R)
    BY <1>7 DEF T
<1>10. Total(f, s) = f[c] + Total(f, u)
    BY <1>3, <1>6, TotalSplit
<1>11. Total(f, s \cup R) = f[c] + Total(f, u \cup R)
    <2>1. \A x \in s \cup R : f[x] \in Int
        BY <1>3
    <2> QED
        BY <1>6, <1>7, <1>8, <2>1, TotalSplit
<1>12. f[c] \in Int /\ Total(f, u) \in Int
    BY <1>3, <1>6, <1>8, TotalInt
<1>13. f[c] + (Total(f, u) + Total(f, R)) = (f[c] + Total(f, u)) + Total(f, R)
    BY <1>4, <1>12
<1> QED
    BY <1>3, <1>9, <1>10, <1>11, <1>13 DEF T

\* Part of the terms, and those that are zero left out.
LEMMA TotalPart ==
    ASSUME NEW f, NEW U, IsFiniteSet(U), \A x \in U : f[x] \in Nat, NEW S, S \subseteq U
    PROVE  /\ Total(f, S) <= Total(f, U)
           /\ (\A x \in U \ S : f[x] = 0) => Total(f, S) = Total(f, U)
<1> DEFINE R == U \ S
           a == Total(f, S)
           b == Total(f, R)
<1>1. IsFiniteSet(S) /\ IsFiniteSet(R) /\ S \cap R = {} /\ S \cup R = U
    BY FS_Subset
<1>2. Total(f, U) = a + b
    BY <1>1, TotalUnion
<1>3. a \in Nat /\ b \in Nat
    BY <1>1, TotalNat
<1>4. (\A x \in U \ S : f[x] = 0) => b = 0
    BY <1>1, TotalZero
<1> HIDE DEF a, b
<1>5. a <= a + b /\ (b = 0 => a = a + b)
    BY <1>3
<1> QED
    BY <1>2, <1>4, <1>5 DEF a

\* The sum of two functions.
LEMMA TotalAdd ==
    ASSUME NEW f, NEW g, NEW h, NEW S, IsFiniteSet(S),
           \A x \in S : f[x] \in Int /\ g[x] \in Int /\ h[x] = f[x] + g[x]
    PROVE  Total(h, S) = Total(f, S) + Total(g, S)
<1> DEFINE T == {s \in SUBSET S : Total(h, s) # Total(f, s) + Total(g, s)}
<1>1. SUFFICES ASSUME T # {} PROVE FALSE
    OBVIOUS
<1>2. T \subseteq SUBSET S
    OBVIOUS
<1> HIDE DEF T
<1>3. PICK s \in T : s \subseteq S /\ IsFiniteSet(s) /\ \A u \in T : u \subseteq s => u = s
    BY <1>1, <1>2, Smallest
<1>4. s # {}
    <2>1. Total(h, {}) = 0 /\ Total(f, {}) = 0 /\ Total(g, {}) = 0
        BY TotalOfNone
    <2>2. {} \notin T
        BY <2>1 DEF T
    <2> QED
        BY <1>3, <2>2
<1>5. PICK c : c \in s
    BY <1>4
<1> DEFINE u == s \ {c}
<1>6. u \notin T /\ u \in SUBSET S /\ IsFiniteSet(u)
    BY <1>3, <1>5, FS_Subset
<1>7. Total(h, u) = Total(f, u) + Total(g, u)
    BY <1>6 DEF T
<1>8. \A x \in s : f[x] \in Int /\ g[x] \in Int /\ h[x] \in Int
    BY <1>3
<1>9. /\ Total(f, s) = f[c] + Total(f, u) /\ Total(g, s) = g[c] + Total(g, u)
      /\ Total(h, s) = h[c] + Total(h, u)
    BY <1>3, <1>5, <1>8, TotalSplit
<1>10. Total(f, u) \in Int /\ Total(g, u) \in Int
    BY <1>3, <1>6, <1>8, TotalInt
<1>11. h[c] = f[c] + g[c] /\ f[c] \in Int /\ g[c] \in Int
    BY <1>3, <1>5
<1>12. (f[c] + g[c]) + (Total(f, u) + Total(g, u)) = (f[c] + Total(f, u)) + (g[c] + Total(g, u))
    BY <1>10, <1>11
<1> QED
    BY <1>3, <1>7, <1>9, <1>11, <1>12 DEF T

\* Smaller terms have a smaller sum.
LEMMA TotalLess ==
    ASSUME NEW f, NEW g, NEW S, IsFiniteSet(S),
           \A x \in S : f[x] \in Nat /\ g[x] \in Nat /\ f[x] <= g[x]
    PROVE  Total(f, S) <= Total(g, S)
<1> DEFINE d == [x \in S |-> g[x] - f[x]]
<1>1. \A x \in S : f[x] \in Nat /\ d[x] \in Nat /\ g[x] = f[x] + d[x]
    OBVIOUS
<1> HIDE DEF d
<1>2. Total(g, S) = Total(f, S) + Total(d, S)
    BY <1>1, TotalAdd
<1>3. Total(f, S) \in Nat /\ Total(d, S) \in Nat
    BY <1>1, TotalNat
<1> DEFINE a == Total(f, S)
           b == Total(d, S)
<1> HIDE DEF a, b
<1>4. a <= a + b
    BY <1>3 DEF a, b
<1> QED
    BY <1>2, <1>4 DEF a, b

\* One term is replaced.
LEMMA TotalChange ==
    ASSUME NEW f, NEW g, NEW S, IsFiniteSet(S), \A x \in S : f[x] \in Nat /\ g[x] \in Nat,
           NEW c \in S, \A x \in S \ {c} : g[x] = f[x]
    PROVE  \E rest \in Nat : Total(f, S) = f[c] + rest /\ Total(g, S) = g[c] + rest
<1>1. Total(f, S) = f[c] + Total(f, S \ {c}) /\ Total(g, S) = g[c] + Total(g, S \ {c})
    BY TotalSplit
<1>2. IsFiniteSet(S \ {c})
    BY FS_Subset
<1>3. Total(f, S \ {c}) = Total(g, S \ {c}) /\ Total(f, S \ {c}) \in Nat
    BY <1>2, TotalSame, TotalNat
<1> QED
    BY <1>1, <1>3

WithKey(key, C, X) == {c \in C : key[c] \in X}
ByKey(by, n, key, C, X) == \A x \in X : by[x] = Total(n, WithKey(key, C, {x}))

\* Terms are added up by a key of theirs.
LEMMA TotalByKey ==
    ASSUME NEW n, NEW C, IsFiniteSet(C), \A c \in C : n[c] \in Int,
           NEW X, IsFiniteSet(X), NEW key, NEW by,
           ByKey(by, n, key, C, X)
    PROVE  Total(by, X) = Total(n, WithKey(key, C, X))
<1> DEFINE Of(D, x)  == {c \in D : key[c] = x}
           By(D)     == [x \in X |-> Total(n, Of(D, x))]
           Keyed(D)  == {c \in D : key[c] \in X}
           T         == {D \in SUBSET C : Total(By(D), X) # Total(n, Keyed(D))}
<1>1. SUFFICES ASSUME T # {} PROVE FALSE
    <2>1. T = {} => Total(By(C), X) = Total(n, WithKey(key, C, X))
        BY DEF WithKey
    <2>2. \A x \in X : by[x] = By(C)[x]
        <3>1. \A x \in X : WithKey(key, C, {x}) = Of(C, x)
            BY DEF WithKey
        <3> QED
            BY <3>1 DEF ByKey
    <2>3. Total(by, X) = Total(By(C), X)
        <3> HIDE DEF By
        <3> QED
            BY <2>2, TotalSame
    <2> QED
        BY <2>1, <2>3
<1>2. T \subseteq SUBSET C /\ IsFiniteSet(C)
    OBVIOUS
<1> HIDE DEF T
<1>3. PICK D \in T : D \subseteq C /\ IsFiniteSet(D) /\ \A E \in T : E \subseteq D => E = D
    BY ONLY <1>1, <1>2, Smallest
<1>4. D # {}
    <2> SUFFICES ASSUME D = {} PROVE FALSE
        OBVIOUS
    <2>1. Keyed(D) = {} /\ \A x \in X : Of(D, x) = {}
        OBVIOUS
    <2>2. Total(n, Keyed(D)) = 0 /\ \A x \in X : By(D)[x] = 0
        BY <2>1, TotalOfNone
    <2> HIDE DEF By, Keyed
    <2>3. Total(By(D), X) = 0
        BY <2>2, TotalZero
    <2> QED
        BY <1>3, <2>2, <2>3 DEF T
<1>5. PICK c : c \in D
    BY <1>4
<1> DEFINE E == D \ {c}
<1>6. E \notin T /\ E \in SUBSET C
    BY <1>3, <1>5
<1>7. Total(By(E), X) = Total(n, Keyed(E))
    BY <1>6 DEF T
<1>8. n[c] \in Int /\ \A x \in D : n[x] \in Int
    BY <1>3, <1>5
<1>9. \A F \in SUBSET D : IsFiniteSet(F) /\ Total(n, F) \in Int
    BY <1>3, <1>8, FS_Subset, TotalInt
<1>10. \A F \in SUBSET D : c \in F => Total(n, F) = n[c] + Total(n, F \ {c})
    BY <1>8, <1>9, TotalSplit
<1>11. \A x \in X : /\ Of(D, x) \in SUBSET D /\ Of(E, x) \in SUBSET D
                    /\ x = key[c] => c \in Of(D, x) /\ Of(E, x) = Of(D, x) \ {c}
                    /\ x # key[c] => Of(E, x) = Of(D, x)
    BY <1>5
<1>12. \A x \in X : By(D)[x] \in Int /\ By(E)[x] \in Int /\ (x # key[c] => By(D)[x] = By(E)[x])
    BY <1>9, <1>11
<1>13. ASSUME key[c] \in X PROVE By(D)[key[c]] = n[c] + By(E)[key[c]]
    <2>1. By(D)[key[c]] = Total(n, Of(D, key[c])) /\ By(E)[key[c]] = Total(n, Of(E, key[c]))
        BY <1>13
    <2>2. /\ Of(D, key[c]) \in SUBSET D /\ c \in Of(D, key[c])
          /\ Of(E, key[c]) = Of(D, key[c]) \ {c}
        BY <1>5, Zenon
    <2> HIDE DEF By, Of, E
    <2>3. Total(n, Of(D, key[c])) = n[c] + Total(n, Of(D, key[c]) \ {c})
        BY <1>10, <2>2
    <2> QED
        BY <2>1, <2>2, <2>3
<1>14. /\ Keyed(D) \in SUBSET D
       /\ key[c] \in X => c \in Keyed(D) /\ Keyed(E) = Keyed(D) \ {c}
       /\ key[c] \notin X => Keyed(E) = Keyed(D)
    BY <1>5
<1> HIDE DEF By, Keyed, Of, E
<1>15. CASE key[c] \notin X
    <2>1. Total(By(D), X) = Total(By(E), X)
        BY <1>12, <1>15, TotalSame
    <2> QED
        BY <1>3, <1>7, <1>14, <1>15, <2>1 DEF T
<1>16. CASE key[c] \in X
    <2>1. PICK rest \in Int : /\ Total(By(D), X) = By(D)[key[c]] + rest
                              /\ Total(By(E), X) = By(E)[key[c]] + rest
        <3> DEFINE Y == X \ {key[c]}
        <3>1. IsFiniteSet(Y) /\ \A x \in Y : By(D)[x] \in Int /\ By(D)[x] = By(E)[x]
            BY <1>12, FS_Subset
        <3>2. /\ Total(By(D), X) = By(D)[key[c]] + Total(By(D), Y)
              /\ Total(By(E), X) = By(E)[key[c]] + Total(By(E), Y)
            BY <1>12, <1>16, TotalSplit
        <3> HIDE DEF Y
        <3>3. Total(By(D), Y) = Total(By(E), Y) /\ Total(By(D), Y) \in Int
            BY <3>1, TotalSame, TotalInt
        <3> QED
            BY <3>2, <3>3
    <2>2. By(E)[key[c]] \in Int
        BY <1>12, <1>16
    <2>3. (n[c] + By(E)[key[c]]) + rest = n[c] + (By(E)[key[c]] + rest)
        BY <1>8, <2>2
    <2>4. Total(By(D), X) = n[c] + Total(By(E), X)
        BY <1>13, <1>16, <2>1, <2>3
    <2>5. Total(n, Keyed(D)) = n[c] + Total(n, Keyed(E))
        BY <1>10, <1>14, <1>16
    <2> QED
        BY <1>3, <1>7, <2>4, <2>5 DEF T
<1> QED
    BY <1>15, <1>16

\* The sum of one term.
LEMMA TotalOne == ASSUME NEW f, NEW x, f[x] \in Int PROVE Total(f, {x}) = f[x]
<1>1. IsFiniteSet({x}) /\ {x} \ {x} = {} /\ x \in {x} /\ \A y \in {x} : f[y] \in Int
    BY FS_Singleton
<1>2. Total(f, {x}) = f[x] + Total(f, {})
    BY <1>1, TotalSplit
<1> DEFINE k == f[x]
<1> HIDE DEF k
<1>3. k + 0 = k
    BY DEF k
<1> QED
    BY <1>2, <1>3, TotalOfNone DEF k

\* Ones add up to how many there are.
LEMMA TotalOnes ==
    ASSUME NEW f, NEW S, IsFiniteSet(S), \A x \in S : f[x] = 1
    PROVE  Total(f, S) = Cardinality(S)
<1> DEFINE T == {s \in SUBSET S : Total(f, s) # Cardinality(s)}
<1>1. SUFFICES ASSUME T # {} PROVE FALSE
    OBVIOUS
<1>2. T \subseteq SUBSET S
    OBVIOUS
<1> HIDE DEF T
<1>3. PICK s \in T : s \subseteq S /\ IsFiniteSet(s) /\ \A u \in T : u \subseteq s => u = s
    BY <1>1, <1>2, Smallest
<1>4. s # {}
    <2>1. {} \notin T
        BY TotalOfNone, FS_EmptySet DEF T
    <2> QED
        BY <1>3, <2>1
<1>5. PICK c : c \in s
    BY <1>4
<1> DEFINE u == s \ {c}
<1>6. u \notin T /\ u \in SUBSET S /\ IsFiniteSet(u)
    BY <1>3, <1>5, FS_Subset
<1>7. Total(f, u) = Cardinality(u)
    BY <1>6 DEF T
<1>8. Total(f, s) = f[c] + Total(f, u) /\ f[c] = 1
    <2>1. \A x \in s : f[x] \in Int
        BY <1>3
    <2> QED
        BY <1>3, <1>5, <2>1, TotalSplit
<1>9. Cardinality(u) = Cardinality(s) - 1 /\ Cardinality(s) \in Nat
    BY <1>3, <1>5, FS_RemoveElement, FS_CardinalityType
<1> QED
    BY <1>3, <1>7, <1>8, <1>9 DEF T

\* Terms that are renamed, each to a name of its own, add up to the same.
LEMMA TotalRenamed ==
    ASSUME NEW n, NEW C, IsFiniteSet(C), \A c \in C : n[c] \in Int,
           NEW key, \A c, d \in C : key[c] = key[d] => c = d,
           NEW X, IsFiniteSet(X), X = {key[c] : c \in C},
           NEW by, \A c \in C : by[key[c]] = n[c]
    PROVE  Total(by, X) = Total(n, C)
<1>1. ASSUME NEW x \in X PROVE by[x] = Total(n, WithKey(key, C, {x}))
    <2>1. PICK c \in C : x = key[c]
        OBVIOUS
    <2>2. WithKey(key, C, {x}) = {c}
        BY <2>1 DEF WithKey
    <2>3. n[c] \in Int
        OBVIOUS
    <2>4. Total(n, {c}) = n[c]
        BY ONLY <2>3, TotalOne
    <2> QED
        BY <2>1, <2>2, <2>4
<1>2. ByKey(by, n, key, C, X)
    BY <1>1 DEF ByKey
<1>3. WithKey(key, C, X) = C
    BY DEF WithKey
<1>4. IsFiniteSet(C) /\ IsFiniteSet(X) /\ \A c \in C : n[c] \in Int
    OBVIOUS
<1>5. Total(by, X) = Total(n, WithKey(key, C, X))
    BY ONLY <1>2, <1>4, TotalByKey
<1> QED
    BY <1>3, <1>5

\* A finite set of integers that is not empty has a largest and a smallest.
LEMMA Extremes ==
    ASSUME NEW S, IsFiniteSet(S), S \subseteq Int, S # {}
    PROVE  /\ Max(S) \in S /\ \A x \in S : x <= Max(S)
           /\ Min(S) \in S /\ \A x \in S : Min(S) <= x
<1> DEFINE Extreme(s) == /\ \E x \in s : \A y \in s : y <= x
                         /\ \E x \in s : \A y \in s : x <= y
           T == {s \in SUBSET S : s # {} /\ ~Extreme(s)}
<1>1. T = {}
    <2> SUFFICES ASSUME T # {} PROVE FALSE
        OBVIOUS
    <2>1. T \subseteq SUBSET S /\ IsFiniteSet(S) /\ T # {}
        OBVIOUS
    <2> HIDE DEF T
    <2>2. PICK s \in T : s \subseteq S /\ IsFiniteSet(s) /\ \A u \in T : u \subseteq s => u = s
        BY ONLY <2>1, Smallest
    <2>3. s # {} /\ ~Extreme(s)
        BY DEF T
    <2>4. PICK c : c \in s
        BY <2>3
    <2> DEFINE u == s \ {c}
    <2>5. u \notin T /\ u \subseteq S
        BY <2>2, <2>4
    <2>6. CASE u = {}
        <3>1. s = {c} /\ c \in Int
            BY <2>2, <2>4, <2>6
        <3> QED
            BY <2>3, <3>1
    <2>7. CASE u # {}
        <3>1. Extreme(u)
            BY <2>5, <2>7 DEF T
        <3>2. PICK a \in u : \A y \in u : y <= a
            BY <3>1
        <3>3. PICK b \in u : \A y \in u : b <= y
            BY <3>1
        <3>4. a \in Int /\ b \in Int /\ c \in Int /\ \A y \in s : y = c \/ y \in u
            BY <2>2, <2>4
        <3>5. \E x \in s : \A y \in s : y <= x
            <4>1. CASE a <= c
                <5>1. \A y \in u : y <= c
                    BY <2>2, <3>2, <3>4, <4>1
                <5> QED
                    BY <2>4, <3>4, <5>1
            <4>2. CASE c <= a
                BY <3>2, <3>4, <4>2
            <4> QED
                BY <3>4, <4>1, <4>2
        <3>6. \E x \in s : \A y \in s : x <= y
            <4>1. CASE c <= b
                <5>1. \A y \in u : c <= y
                    BY <2>2, <3>3, <3>4, <4>1
                <5> QED
                    BY <2>4, <3>4, <5>1
            <4>2. CASE b <= c
                BY <3>3, <3>4, <4>2
            <4> QED
                BY <3>4, <4>1, <4>2
        <3> QED
            BY <2>3, <3>5, <3>6
    <2> QED
        BY <2>6, <2>7
<1>2. Extreme(S)
    BY <1>1
<1>3. (\E x \in S : \A y \in S : y <= x) /\ (\E x \in S : \A y \in S : x <= y)
    BY <1>2
<1>4. \A x, y \in S : x >= y <=> y <= x
    OBVIOUS
<1> QED
    BY <1>3, <1>4 DEF Max, Min

-----------------------------------------------------------------------------
(* Query: scopes.                                                           *)

\* Rows that are left out were not stored.
LEMMA FinalOnly ==
    ASSUME NEW t, NEW S
    PROVE  Final(Only(t, S)) = Final(t) \cap S
<1>1. \A r \in Rows : Only(t, S)[r] > 0 <=> (r \in S /\ t[r] > 0)
    BY DEF Only
<1> QED
    BY <1>1 DEF Final

\* What is read of the rows of an organization is read of all.
LEMMA ReadsOrg ==
    ASSUME NEW t, NEW q, NEW o
    PROVE  Read(q, o, t) = Read(q, o, Only(t, {x \in Rows : x.org = o}))
<1>1. \A r \in Rows : Where(q, o, r) => r \in {x \in Rows : x.org = o}
    BY DEF Where
<1>2. Final(t) \subseteq Rows
    BY DEF Final
<1> QED
    BY <1>1, <1>2, FinalOnly DEF Read

\* A filter on the project lets rows of the project pass.
LEMMA MatchesProject ==
    ASSUME NEW p, NEW r, Matches(OfProject(p), r)
    PROVE  r.project = p
<1>1. OfProject(p).dimension = "project_id" /\ OfProject(p).op = "eq" /\ OfProject(p).value = {p}
    BY DEF OfProject
<1>2. DIMENSIONS["project_id"].sql = "project"
    BY DEF DIMENSIONS
<1>3. r["project"] \in {p}
    BY <1>1, <1>2, Zenon DEF Matches
<1> QED
    BY <1>3

\* What is read of the rows of a project is read of all, if the project is filtered on.
LEMMA ReadsProject ==
    ASSUME NEW t, NEW q, NEW o, NEW p, OfProject(p) \in q.filters
    PROVE  Read(q, o, t) = Read(q, o, Only(t, {x \in Rows : x.project = p}))
<1>1. \A r \in Rows : Where(q, o, r) => r \in {x \in Rows : x.project = p}
    BY MatchesProject DEF Where
<1>2. Final(t) \subseteq Rows
    BY DEF Final
<1> QED
    BY <1>1, <1>2, FinalOnly DEF Read

\* A share answers from the rows of its project.
LEMMA PublicIsScoped ==
    ASSUME NEW t, NEW q \in Requests, NEW o, NEW p
    PROVE  PublicQuery(q, o, p, t) =
               PublicQuery(q, o, p, Only(t, {r \in Rows : r.project = p}))
<1> DEFINE f == [q EXCEPT !.filters = @ \cup {OfProject(p)}]
<1>1. OfProject(p) \in f.filters
    BY DEF Requests
<1> HIDE DEF f
<1>2. Read(f, o, t) = Read(f, o, Only(t, {x \in Rows : x.project = p}))
    BY <1>1, ReadsProject
<1>3. Result(f, o, t) = Result(f, o, Only(t, {r \in Rows : r.project = p}))
    BY <1>2, Zenon DEF Result
<1> QED
    BY <1>3 DEF PublicQuery, f

\* And so does every tile.
LEMMA ScalarIsScoped ==
    ASSUME NEW t, NEW m, NEW period, NEW o, NEW p
    PROVE  Scalar(m, {OfProject(p)}, period, o, t) =
               Scalar(m, {OfProject(p)}, period, o, Only(t, {r \in Rows : r.project = p}))
<1> DEFINE q == [metric |-> m, dimensions |-> {}, filters |-> {OfProject(p)},
                 granularity |-> None, period |-> period]
<1>1. OfProject(p) \in q.filters
    OBVIOUS
<1>2. \A x : Scalar(m, {OfProject(p)}, period, o, x) =
               Value(METRICS[m].sql, Aggregated(q, Read(q, o, x)))
    BY DEF Scalar
<1> HIDE DEF q
<1>3. Read(q, o, t) = Read(q, o, Only(t, {x \in Rows : x.project = p}))
    BY <1>1, ReadsProject
<1> QED
    BY <1>2, <1>3, Zenon

\* Every table answers by the scopes.
LEMMA AnyTable == ScopesHold
<1>1. ASSUME NEW q \in Requests, NEW o \in Orgs
      PROVE  Result(q, o, table) = Result(q, o, Only(table, {r \in Rows : r.org = o}))
    <2>1. Read(q, o, table) = Read(q, o, Only(table, {x \in Rows : x.org = o}))
        BY ReadsOrg
    <2> QED
        BY <2>1, Zenon DEF Result
<1>2. ASSUME NEW p \in Periods, NEW s \in Shares
      PROVE  LET own == Only(table, {r \in Rows : r.project = s.project})
             IN  /\ Overview(s.org, s.project, p, table) = Overview(s.org, s.project, p, own)
                 /\ ApiHealth(s.org, s.project, p, table) = ApiHealth(s.org, s.project, p, own)
    <2> DEFINE own == Only(table, {r \in Rows : r.project = s.project})
               f   == [metric |-> "api_requests", dimensions |-> {"endpoint"},
                       filters |-> {OfProject(s.project)}, granularity |-> None, period |-> p]
    <2>1. \A m : Scalar(m, {OfProject(s.project)}, p, s.org, table) =
                     Scalar(m, {OfProject(s.project)}, p, s.org, own)
        BY ScalarIsScoped
    <2>2. OfProject(s.project) \in f.filters
        OBVIOUS
    <2>3. \A x : ApiHealth(s.org, s.project, p, x) =
                     [requests  |-> Scalar("api_requests", {OfProject(s.project)}, p, s.org, x),
                      endpoints |-> Lines(f, Read(f, s.org, x))]
        BY DEF ApiHealth, Result
    <2> HIDE DEF f
    <2>4. Read(f, s.org, table) = Read(f, s.org, own)
        BY <2>2, ReadsProject
    <2> HIDE DEF own
    <2>5. Overview(s.org, s.project, p, table) = Overview(s.org, s.project, p, own)
        BY <2>1, Zenon DEF Overview
    <2>6. ApiHealth(s.org, s.project, p, table) = ApiHealth(s.org, s.project, p, own)
        BY <2>1, <2>3, <2>4, Zenon
    <2> QED
        BY <2>5, <2>6, Zenon DEF own
<1> QED
    BY <1>1, <1>2, PublicIsScoped DEF ScopesHold

-----------------------------------------------------------------------------
(* Query: copies.                                                           *)

\* Merged, a table has the same rows.
LEMMA FinalOnce ==
    ASSUME NEW t
    PROVE  Final(Once(t)) = Final(t)
<1>1. \A r \in Rows : Once(t)[r] > 0 <=> t[r] > 0
    BY DEF Once
<1> QED
    BY <1>1 DEF Final

\* The copies that a funnel reads, and those of a session or a user.
Copies(f, o, t) ==
    {x \in Rows \X (1..MaxCopies) :
        /\ x[2] <= t[x[1]] /\ x[1].table = "events" /\ x[1].org = o
        /\ In(f.period, x[1]) /\ Key(f, x[1]) # None
        /\ \E i \in 1..Len(f.steps) : Meets(f.steps[i], x[1])}
OfKey(f, X, k) == {x \in X : Key(f, x[1]) = k}
Keys(f, X) == {Key(f, x[1]) : x \in X}

\* Are there copies that meet the first n steps in a row?
Reach(f, X, n) ==
    n = 0 \/ \E c \in [1..n -> X] :
                /\ \A i, j \in 1..n : i < j => c[i] # c[j] /\ c[i][1].at <= c[j][1].at
                /\ \A i \in 1..n : Meets(f.steps[i], c[i][1])
                /\ c[n][1].at - c[1][1].at <= f.window

\* A merged table has the first copy of each row, and no other.
LEMMA FirstCopies ==
    ASSUME NEW t \in [Rows -> 0..MaxCopies], NEW f, NEW o
    PROVE  /\ Copies(f, o, Once(t)) \subseteq Copies(f, o, t)
           /\ \A x \in Copies(f, o, t) : <<x[1], 1>> \in Copies(f, o, Once(t))
<1>0. MaxCopies \in Nat
    BY QueryAssumption
<1>1. \A r \in Rows : t[r] \in Nat /\ Once(t)[r] = IF t[r] > 0 THEN 1 ELSE 0
    BY <1>0 DEF Once
<1>2. ASSUME NEW r \in Rows, NEW k \in 1..MaxCopies
      PROVE  /\ k <= Once(t)[r] => k <= t[r]
             /\ k <= t[r] => 1 \in 1..MaxCopies /\ 1 <= Once(t)[r]
    BY <1>0, <1>1
<1>3. ASSUME NEW x \in Rows \X (1..MaxCopies)
      PROVE  /\ x[2] <= Once(t)[x[1]] => x[2] <= t[x[1]]
             /\ x[2] <= t[x[1]] =>
                    /\ <<x[1], 1>> \in Rows \X (1..MaxCopies)
                    /\ <<x[1], 1>>[2] <= Once(t)[<<x[1], 1>>[1]] /\ <<x[1], 1>>[1] = x[1]
    BY <1>2
<1> QED
    BY <1>3, Zenon DEF Copies

\* When no row meets two steps, copies reach no further than their rows do.
LEMMA RowsReachAsFar ==
    ASSUME NEW f \in Funnels, Apart(f), NEW n \in 0..Len(f.steps),
           NEW X \in SUBSET (Rows \X (1..MaxCopies)), NEW Y \in SUBSET X,
           \A x \in X : <<x[1], 1>> \in Y
    PROVE  Reach(f, X, n) <=> Reach(f, Y, n)
<1>0. Len(f.steps) \in Nat /\ 1..n \subseteq 1..Len(f.steps)
    BY QueryAssumption
<1>1. Reach(f, Y, n) => Reach(f, X, n)
    BY DEF Reach
<1>2. ASSUME Reach(f, X, n), n # 0 PROVE Reach(f, Y, n)
    <2>1. PICK c \in [1..n -> X] :
              /\ \A i, j \in 1..n : i < j => c[i] # c[j] /\ c[i][1].at <= c[j][1].at
              /\ \A i \in 1..n : Meets(f.steps[i], c[i][1])
              /\ c[n][1].at - c[1][1].at <= f.window
        BY <1>2 DEF Reach
    <2> DEFINE d == [i \in 1..n |-> <<c[i][1], 1>>]
    <2>2. d \in [1..n -> Y] /\ \A i \in 1..n : d[i][1] = c[i][1]
        OBVIOUS
    <2>3. 1 \in 1..n /\ n \in 1..n
        BY <1>0, <1>2
    <2>4. ASSUME NEW i \in 1..n, NEW j \in 1..n, i < j
          PROVE  d[i] # d[j] /\ d[i][1].at <= d[j][1].at
        <3>1. c[i][1] \in Rows /\ Meets(f.steps[i], c[i][1]) /\ Meets(f.steps[j], c[j][1])
            BY <2>1
        <3>2. i # j /\ i \in 1..Len(f.steps) /\ j \in 1..Len(f.steps)
            BY <1>0, <2>4
        <3>3. c[i][1] # c[j][1]
            BY <3>1, <3>2 DEF Apart
        <3> QED
            BY <2>1, <2>2, <2>4, <3>3
    <2> HIDE DEF d
    <2>5. \A i \in 1..n : Meets(f.steps[i], d[i][1])
        BY <2>1, <2>2, Zenon
    <2>6. d[n][1].at - d[1][1].at <= f.window
        BY <2>1, <2>2, <2>3
    <2> QED
        BY <2>2, <2>4, <2>5, <2>6 DEF Reach
<1> QED
    BY <1>1, <1>2 DEF Reach

\* So a funnel counts the same.
LEMMA FunnelOnce ==
    ASSUME NEW t \in [Rows -> 0..MaxCopies], NEW f \in Funnels, NEW o, Apart(f)
    PROVE  Funnel(f, o, t) = Funnel(f, o, Once(t))
<1> DEFINE X == Copies(f, o, t)
           Y == Copies(f, o, Once(t))
<1>1. \A u : Funnel(f, o, u) =
          [i \in 1..Len(f.steps) |->
              Cardinality({k \in Keys(f, Copies(f, o, u)) :
                               Level(f, OfKey(f, Copies(f, o, u), k)) >= i})]
    BY DEF Funnel, Copies, OfKey, Keys
<1>2. /\ X \in SUBSET (Rows \X (1..MaxCopies)) /\ Y \in SUBSET X
      /\ \A x \in X : <<x[1], 1>> \in Y
    <2>1. X \in SUBSET (Rows \X (1..MaxCopies))
        BY DEF Copies
    <2> QED
        BY <2>1, FirstCopies
<1> HIDE DEF X, Y
<1>3. Keys(f, X) = Keys(f, Y)
    <2>1. \A x \in X : \E y \in Y : Key(f, x[1]) = Key(f, y[1])
        <3> SUFFICES ASSUME NEW x \in X PROVE \E y \in Y : Key(f, x[1]) = Key(f, y[1])
            OBVIOUS
        <3>1. <<x[1], 1>> \in Y /\ <<x[1], 1>>[1] = x[1]
            BY <1>2
        <3> QED
            BY <3>1, Zenon
    <2> QED
        BY <1>2, <2>1 DEF Keys
<1>4. ASSUME NEW k PROVE Level(f, OfKey(f, X, k)) = Level(f, OfKey(f, Y, k))
    <2>1. \A Z : Level(f, Z) = Max({n \in 0..Len(f.steps) : Reach(f, Z, n)})
        BY DEF Level, Reach
    <2>2. /\ OfKey(f, X, k) \in SUBSET (Rows \X (1..MaxCopies))
          /\ OfKey(f, Y, k) \in SUBSET OfKey(f, X, k)
        BY <1>2 DEF OfKey
    <2>3. ASSUME NEW x \in OfKey(f, X, k) PROVE <<x[1], 1>> \in OfKey(f, Y, k)
        <3>1. x \in X /\ Key(f, x[1]) = k
            BY DEF OfKey
        <3>2. <<x[1], 1>> \in Y /\ <<x[1], 1>>[1] = x[1]
            BY <1>2, <3>1
        <3> QED
            BY <3>1, <3>2, Zenon DEF OfKey
    <2>4. \A n \in 0..Len(f.steps) : Reach(f, OfKey(f, X, k), n) <=> Reach(f, OfKey(f, Y, k), n)
        BY <2>2, <2>3, RowsReachAsFar
    <2>5. {n \in 0..Len(f.steps) : Reach(f, OfKey(f, X, k), n)} =
              {n \in 0..Len(f.steps) : Reach(f, OfKey(f, Y, k), n)}
        BY <2>4
    <2> QED
        BY <2>1, <2>5, Zenon
<1>5. \A i : {k \in Keys(f, X) : Level(f, OfKey(f, X, k)) >= i} =
                 {k \in Keys(f, Y) : Level(f, OfKey(f, Y, k)) >= i}
    <2> TAKE i
    <2>1. \A k : Level(f, OfKey(f, X, k)) >= i <=> Level(f, OfKey(f, Y, k)) >= i
        BY <1>4
    <2> QED
        BY <1>3, <2>1
<1> QED
    BY <1>1, <1>5, Zenon DEF X, Y

\* A table that counts its copies answers as a merged one.
LEMMA AnyCopies == TypeOK => CopiesDoNotCount
<1>1. ASSUME NEW q, NEW o PROVE Result(q, o, table) = Result(q, o, Once(table))
    BY FinalOnce, Zenon DEF Result, Read
<1> QED
    BY <1>1, FunnelOnce DEF CopiesDoNotCount, TypeOK

-----------------------------------------------------------------------------
(* Query: rates.                                                            *)

\* A table reads finitely many rows.
LEMMA ReadFinite ==
    ASSUME NEW t, NEW q, NEW o
    PROVE  IsFiniteSet(Read(q, o, t))
<1>1. Read(q, o, t) \subseteq Rows
    BY DEF Read, Final
<1> QED
    BY <1>1, FS_Subset, QueryAssumption

\* The image of a finite set is finite.
LEMMA ImageFinite ==
    ASSUME NEW S, IsFiniteSet(S), NEW f, DOMAIN f = S, f \in [S -> {f[x] : x \in S}]
    PROVE  IsFiniteSet({f[x] : x \in S})
<1>1. f \in Surjection(S, {f[x] : x \in S})
    BY DEF Surjection
<1> QED
    BY <1>1, FS_Surjection

\* Distinct visitors are a number.
LEMMA VisitorsAreCounted ==
    ASSUME NEW m \in {"visitors", "custom_event_visitors"},
           NEW filters, NEW p, NEW o, NEW t
    PROVE  Scalar(m, filters, p, o, t) \in Nat
<1> DEFINE q    == [metric |-> m, dimensions |-> {}, filters |-> filters,
                    granularity |-> None, period |-> p]
           rows == Read(q, o, t)
           xs   == Aggregated(q, rows)
           who  == [r \in rows |-> r.visitor]
<1>1. METRICS[m].sql = "uniq" /\ METRICS[m].shape = "event"
    BY DEF METRICS
<1>2. Scalar(m, filters, p, o, t) = Value("uniq", xs)
    BY <1>1, Zenon DEF Scalar
<1>3. METRICS[q.metric].shape # "session"
    BY <1>1
<1>4. IsFiniteSet(rows)
    BY ReadFinite
<1> HIDE DEF q, rows
<1>5. xs = {[at |-> r.at, by |-> Columns(q, r), visitor |-> r.visitor, value |-> r.value,
             id |-> r] : r \in rows}
    BY <1>3, Zenon DEF Aggregated
<1> HIDE DEF xs
<1>6. {x.visitor : x \in xs} = {who[r] : r \in rows}
    <2>1. \A r \in rows : who[r] = r.visitor
        OBVIOUS
    <2>2. \A x \in xs : \E r \in rows : x.visitor = r.visitor
        BY <1>5
    <2>3. ASSUME NEW r \in rows PROVE \E x \in xs : x.visitor = r.visitor
        <3> DEFINE x == [at |-> r.at, by |-> Columns(q, r), visitor |-> r.visitor,
                         value |-> r.value, id |-> r]
        <3>1. x \in xs
            BY <1>5, Zenon
        <3>2. x.visitor = r.visitor
            OBVIOUS
        <3> QED
            BY <3>1, <3>2
    <2> HIDE DEF who
    <2> QED
        BY <2>1, <2>2, <2>3
<1>7. IsFiniteSet({who[r] : r \in rows})
    BY <1>4, ImageFinite
<1>8. Value("uniq", xs) = Cardinality({x.visitor : x \in xs})
    BY Zenon DEF Value
<1> QED
    BY <1>2, <1>6, <1>7, <1>8, FS_CardinalityType


\* A rate is a percentage, however many convert.
LEMMA PercentIsBounded ==
    ASSUME NEW c \in Nat, NEW v \in Nat
    PROVE  Percent(c, v) \in 0..100
<1>1. CASE v = 0
    BY <1>1 DEF Percent
<1>2. CASE v # 0
    <2> DEFINE n == IF c < v THEN c ELSE v
    <2>1. n \in Nat /\ n <= v /\ v > 0
        BY <1>2
    <2>2. Percent(c, v) = (100 * n) \div v
        BY <1>2 DEF Percent
    <2> HIDE DEF n
    <2>3. (100 * n) \div v \in Int /\ (100 * n) \div v >= 0 /\ (100 * n) \div v <= 100
        BY <2>1
    <2> QED
        BY <2>2, <2>3
<1> QED
    BY <1>1, <1>2

\* Numbers of visitors and percentages; a broadcaster sends to sockets only.
IInv ==
    /\ TypeOK
    /\ rate.visitors \in Nat
    /\ SocketsAreServed
    /\ sockets \subseteq Sockets

-----------------------------------------------------------------------------
(* Query: steps.                                                            *)

\* The empty table, and nobody at the map.
LEMMA InvInit == Init => IInv
<1> SUFFICES ASSUME Init PROVE IInv
    OBVIOUS
<1>1. table \in [Rows -> 0..MaxCopies]
    BY QueryAssumption DEF Init
<1>2. rate.visitors \in Nat /\ rate.percent \in 0..100
    BY DEF Init, NoRate
<1>3. hub.to = {} /\ sockets = {}
    BY DEF Init
<1> QED
    BY <1>1, <1>2, <1>3 DEF IInv, TypeOK, SocketsAreServed

\* The table and the rate, when the map is left alone.
LEMMA InvTable ==
    ASSUME IInv, UNCHANGED live,
           \/ \E r \in Rows : Store(r) \/ Merge(r)
           \/ \E g \in Goals, p \in Periods : ReadVisitors(g, p)
           \/ ReadConverting \/ Reset
    PROVE  IInv'
<1>1. UNCHANGED <<sockets, hub>>
    BY DEF live
<1>2. ASSUME NEW r \in Rows, Store(r) \/ Merge(r)
      PROVE  table' \in [Rows -> 0..MaxCopies] /\ UNCHANGED rate
    <2>1. table \in [Rows -> 0..MaxCopies] /\ MaxCopies \in Nat
        BY QueryAssumption DEF IInv, TypeOK
    <2>2. CASE Store(r)
        BY <2>1, <2>2 DEF Store
    <2>3. CASE Merge(r)
        <3>1. table[r] \in 0..MaxCopies /\ table[r] > 1
            BY <2>1, <2>3 DEF Merge
        <3> QED
            BY <2>1, <2>3, <3>1 DEF Merge
    <2> QED
        BY <1>2, <2>2, <2>3
<1>3. ASSUME NEW g \in Goals, NEW p \in Periods, ReadVisitors(g, p)
      PROVE  rate'.visitors \in Nat /\ rate'.percent \in 0..100 /\ UNCHANGED table
    <2>1. Scalar("visitors", {OfProject(g.project)}, p, g.org, table) \in Nat
        BY VisitorsAreCounted
    <2> QED
        BY <1>3, <2>1 DEF ReadVisitors
<1>4. ASSUME ReadConverting
      PROVE  rate'.visitors \in Nat /\ rate'.percent \in 0..100 /\ UNCHANGED table
    <2> DEFINE c == Converting(rate.goal.of, rate.goal.period, table)
    <2>1. c \in Nat
        BY VisitorsAreCounted DEF Converting
    <2>2. rate' = [NoRate EXCEPT !.percent = Percent(c, rate.visitors)] /\ UNCHANGED table
        BY <1>4 DEF ReadConverting
    <2> HIDE DEF c
    <2>3. Percent(c, rate.visitors) \in 0..100
        BY <2>1, PercentIsBounded DEF IInv
    <2> QED
        BY <2>2, <2>3 DEF NoRate
<1>5. ASSUME Reset
      PROVE  rate'.visitors \in Nat /\ rate'.percent \in 0..100 /\ UNCHANGED table
    BY <1>5 DEF Reset, NoRate
<1> QED
    BY <1>1, <1>2, <1>3, <1>4, <1>5 DEF IInv, TypeOK, SocketsAreServed

\* The broadcaster goes on, or ends when nobody is there.
LEMMA InvLive == ASSUME IInv, Live PROVE IInv'
<1>1. ASSUME NEW w \in Sockets, Connect(w) PROVE IInv'
    BY <1>1 DEF IInv, TypeOK, SocketsAreServed, Connect, Hub, Unattended
<1>2. ASSUME NEW w \in Sockets, Disconnect(w) PROVE IInv'
    BY <1>2 DEF IInv, TypeOK, SocketsAreServed, Disconnect, Hub
<1>3. ASSUME NEW w \in Sockets, BroadcastSends(w) PROVE IInv'
    BY <1>3 DEF IInv, TypeOK, SocketsAreServed, BroadcastSends, Hub
<1>4. CASE BroadcastStarts
    BY <1>4 DEF IInv, TypeOK, SocketsAreServed, BroadcastStarts, Hub, Loop
<1>5. CASE BroadcastReads
    BY <1>5 DEF IInv, TypeOK, SocketsAreServed, BroadcastReads, Hub
<1>6. CASE BroadcastSleeps
    BY <1>6 DEF IInv, TypeOK, SocketsAreServed, BroadcastSleeps, Hub
<1>7. CASE BroadcastWakes
    BY <1>7 DEF IInv, TypeOK, SocketsAreServed, BroadcastWakes, Hub, Loop
<1> QED
    BY <1>1, <1>2, <1>3, <1>4, <1>5, <1>6, <1>7 DEF Live

\* Every step keeps it.
LEMMA InvNext == IInv /\ [Next]_vars => IInv'
<1>1. ASSUME IInv, UNCHANGED vars PROVE IInv'
    BY <1>1 DEF IInv, TypeOK, SocketsAreServed, vars, live
<1>2. ASSUME IInv, Next PROVE IInv'
    BY <1>2, InvTable, InvLive DEF Next, Store, Merge, ReadVisitors, ReadConverting, Reset
<1> QED
    BY <1>1, <1>2

-----------------------------------------------------------------------------
(* Query: sums.                                                             *)

Summed == Additive \cup {"sessions"}

\* What a thing aggregated, or a row, counts for.
Weights(m, xs) == [x \in xs |-> IF METRICS[m].sql = "count" THEN 1 ELSE x.value]

\* The metrics that add up are counts and sums.
LEMMA SummedAre ==
    ASSUME NEW m \in Summed
    PROVE  /\ METRICS[m].sql \in {"count", "sum"}
           /\ METRICS[m].shape = "session" <=> m = "sessions"
           /\ m = "sessions" => METRICS[m].sql = "count"
BY DEF Summed, Additive, METRICS

\* They are the sums of what each thing counts for.
LEMMA ValueIsTotal ==
    ASSUME NEW m \in Summed, NEW xs, IsFiniteSet(xs)
    PROVE  Value(METRICS[m].sql, xs) = Total(Weights(m, xs), xs)
<1>1. CASE METRICS[m].sql = "count"
    <2>1. \A x \in xs : Weights(m, xs)[x] = 1
        BY <1>1 DEF Weights
    <2>2. Total(Weights(m, xs), xs) = Cardinality(xs)
        BY <2>1, TotalOnes
    <2>3. Value("count", xs) = Cardinality(xs)
        BY Zenon DEF Value
    <2> QED
        BY <1>1, <2>2, <2>3
<1>2. CASE METRICS[m].sql = "sum"
    <2>1. Weights(m, xs) = [x \in xs |-> x.value]
        BY <1>2 DEF Weights
    <2>2. Value("sum", xs) = SumFunctionOnSet([x \in xs |-> x.value], xs)
        BY DEF Value
    <2> QED
        BY <1>2, <2>1, <2>2 DEF Total
<1> QED
    BY <1>1, <1>2, SummedAre

\* The groups of the lines.
Groups(q, xs) ==
    IF q.granularity = None /\ q.dimensions = {}
    THEN {[bucket |-> None, by |-> <<>>]}
    ELSE {Group(q, x) : x \in xs}

\* A line is the sum of what counts in it, and each thing counts in one.
LEMMA LinesAddUp ==
    ASSUME NEW q, q.metric \in Summed, NEW rows, NEW xs, xs = Aggregated(q, rows),
           IsFiniteSet(xs), \A x \in xs : Weights(q.metric, xs)[x] \in Int,
           \A x \in xs : q.dimensions = {} => x.by = <<>>
    PROVE  Sum(Lines(q, rows)) = Total(Weights(q.metric, xs), xs)
<1> DEFINE gs    == Groups(q, xs)
           lines == Lines(q, rows)
           n     == Weights(q.metric, xs)
           key   == [x \in xs |-> Group(q, x)]
           In1(g) == {x \in xs : Group(q, x) = g}
<1>1. lines = [g \in gs |-> Value(METRICS[q.metric].sql, In1(g))]
    BY Zenon DEF Lines, Groups
<1>2. IsFiniteSet(gs)
    <2>1. IsFiniteSet({[bucket |-> None, by |-> <<>>]})
        BY FS_Singleton
    <2>2. IsFiniteSet({key[x] : x \in xs})
        <3>1. DOMAIN key = xs /\ key \in [xs -> {key[x] : x \in xs}]
            OBVIOUS
        <3> HIDE DEF key
        <3> QED
            BY <3>1, ImageFinite
    <2>3. {key[x] : x \in xs} = {Group(q, x) : x \in xs}
        OBVIOUS
    <2> QED
        BY <2>1, <2>2, <2>3 DEF Groups
<1>3. \A x \in xs : Group(q, x) \in gs
    <2>1. CASE q.granularity = None /\ q.dimensions = {}
        BY <2>1 DEF Group, Groups
    <2>2. CASE ~(q.granularity = None /\ q.dimensions = {})
        BY <2>2 DEF Groups
    <2> QED
        BY <2>1, <2>2
<1>4. ASSUME NEW g \in gs PROVE lines[g] = Total(n, WithKey(key, xs, {g}))
    <2>1. IsFiniteSet(In1(g)) /\ In1(g) \subseteq xs
        BY FS_Subset
    <2>2. lines[g] = Total(Weights(q.metric, In1(g)), In1(g))
        <3>1. lines[g] = Value(METRICS[q.metric].sql, In1(g))
            BY <1>1
        <3> HIDE DEF In1, lines
        <3> QED
            BY <2>1, <3>1, ValueIsTotal
    <2>3. \A x \in In1(g) : Weights(q.metric, In1(g))[x] = n[x]
        BY DEF Weights
    <2>4. Total(Weights(q.metric, In1(g)), In1(g)) = Total(n, In1(g))
        <3> HIDE DEF In1, n
        <3> QED
            BY <2>1, <2>3, TotalSame
    <2>5. WithKey(key, xs, {g}) = In1(g)
        BY DEF WithKey
    <2> QED
        BY <2>2, <2>4, <2>5
<1>5. WithKey(key, xs, gs) = xs
    BY <1>3 DEF WithKey
<1>6. ByKey(lines, n, key, xs, gs)
    BY <1>4 DEF ByKey
<1>7. DOMAIN lines = gs
    BY <1>1
<1>8. IsFiniteSet(xs) /\ \A x \in xs : n[x] \in Int
    OBVIOUS
<1> HIDE DEF gs, lines, n, key, In1
<1>9. Total(lines, gs) = Total(n, WithKey(key, xs, gs))
    BY ONLY <1>2, <1>6, <1>8, TotalByKey
<1> QED
    BY <1>5, <1>7, <1>9 DEF Sum, Total, lines, n

\* What a row counts for.
RowWeights(m) == [r \in Rows |-> IF METRICS[m].sql = "count" THEN 1 ELSE r.value]

\* Without dimensions there is nothing to group by.
LEMMA NoColumns == ASSUME NEW q, q.dimensions = {}, NEW r PROVE Columns(q, r) = <<>>
BY DEF Columns

\* However a request groups its rows, its lines add up to what the rows count for.
LEMMA RowsAddUp ==
    ASSUME NEW q, q.metric \in Additive, NEW rows, rows \subseteq Rows
    PROVE  Sum(Lines(q, rows)) = Total(RowWeights(q.metric), rows)
<1> DEFINE m   == q.metric
           key == [r \in rows |-> [at |-> r.at, by |-> Columns(q, r), visitor |-> r.visitor,
                                   value |-> r.value, id |-> r]]
           xs  == {key[r] : r \in rows}
<1>1. IsFiniteSet(rows) /\ \A r \in rows : r \in Rows /\ r.value \in Int
    BY QueryAssumption, FS_Subset
<1>2. m \in Summed /\ METRICS[m].shape # "session" /\ METRICS[m].sql \in {"count", "sum"}
    <2>1. m \in Summed /\ m # "sessions"
        BY DEF Summed, Additive
    <2> QED
        BY <2>1, SummedAre
<1>3. xs = Aggregated(q, rows)
    <2>1. Aggregated(q, rows) = {[at |-> r.at, by |-> Columns(q, r), visitor |-> r.visitor,
                                  value |-> r.value, id |-> r] : r \in rows}
        BY <1>2, Zenon DEF Aggregated
    <2>2. \A r \in rows : key[r] = [at |-> r.at, by |-> Columns(q, r), visitor |-> r.visitor,
                                    value |-> r.value, id |-> r]
        OBVIOUS
    <2> HIDE DEF key
    <2> QED
        BY <2>1, <2>2
<1>4. \A r \in rows : key[r].by = Columns(q, r) /\ key[r].value = r.value /\ key[r].id = r
    OBVIOUS
<1>5. IsFiniteSet(xs)
    <2>1. DOMAIN key = rows /\ key \in [rows -> {key[r] : r \in rows}]
        OBVIOUS
    <2> HIDE DEF key
    <2> QED
        BY <1>1, <2>1, ImageFinite
<1> HIDE DEF key
<1>6. \A r \in rows : Weights(m, xs)[key[r]] = RowWeights(m)[r] /\ RowWeights(m)[r] \in Int
    BY <1>1, <1>4 DEF Weights, RowWeights
<1>7. \A x \in xs : Weights(m, xs)[x] \in Int
    BY <1>6
<1>8. \A x \in xs : q.dimensions = {} => x.by = <<>>
    BY <1>4, NoColumns
<1>9. Total(Weights(m, xs), xs) = Total(RowWeights(m), rows)
    <2>1. \A r, s \in rows : key[r] = key[s] => r = s
        BY <1>4
    <2> DEFINE w == Weights(m, xs)
               n == RowWeights(m)
    <2>2. IsFiniteSet(rows) /\ IsFiniteSet(xs) /\ xs = {key[r] : r \in rows}
        BY <1>1, <1>5
    <2>3. (\A r \in rows : n[r] \in Int) /\ \A r \in rows : w[key[r]] = n[r]
        BY <1>6
    <2> HIDE DEF w, n, xs
    <2>4. Total(w, xs) = Total(n, rows)
        BY ONLY <2>1, <2>2, <2>3, TotalRenamed
    <2> QED
        BY <2>4 DEF w, n
<1> HIDE DEF xs
<1>10. Sum(Lines(q, rows)) = Total(Weights(m, xs), xs)
    BY <1>2, <1>3, <1>5, <1>7, <1>8, LinesAddUp
<1> QED
    BY <1>9, <1>10

\* However a request groups sessions, its lines add up to their number: each is placed
\* at its first row, whatever its other rows are.
LEMMA SessionsAddUp ==
    ASSUME NEW q, q.metric = "sessions", NEW rows, rows \subseteq Rows
    PROVE  Sum(Lines(q, rows)) = Cardinality({r.session : r \in rows} \ {None})
<1> DEFINE S   == {r.session : r \in rows} \ {None}
           Of(s) == {r \in rows : r.session = s}
           key == [s \in S |-> Session(q, Of(s))]
           xs  == {key[s] : s \in S}
           one == [s \in S |-> 1]
<1>1. IsFiniteSet(S)
    <2> DEFINE f == [r \in rows |-> r.session]
    <2>1. IsFiniteSet(rows)
        BY QueryAssumption, FS_Subset
    <2>2. DOMAIN f = rows /\ f \in [rows -> {f[r] : r \in rows}] /\ S \subseteq {f[r] : r \in rows}
        OBVIOUS
    <2> HIDE DEF f
    <2>3. IsFiniteSet({f[r] : r \in rows})
        BY <2>1, <2>2, ImageFinite
    <2> QED
        BY <2>2, <2>3, FS_Subset
<1>2. q.metric \in Summed /\ METRICS[q.metric].shape = "session" /\ METRICS[q.metric].sql = "count"
    <2>1. q.metric \in Summed
        BY DEF Summed
    <2> QED
        BY <2>1, SummedAre
<1>3. xs = Aggregated(q, rows)
    <2>1. Aggregated(q, rows) = {Session(q, {r \in rows : r.session = s}) : s \in S}
        BY <1>2, Zenon DEF Aggregated
    <2>2. \A s \in S : key[s] = Session(q, {r \in rows : r.session = s})
        OBVIOUS
    <2> HIDE DEF key, S
    <2> QED
        BY <2>1, <2>2
<1>4. ASSUME NEW s \in S
      PROVE  key[s].id = s /\ (q.dimensions = {} => key[s].by = <<>>)
    <2> DEFINE r0 == CHOOSE r \in Of(s) : TRUE
    <2>1. r0 \in Of(s)
        OBVIOUS
    <2>2. key[s].id = r0.session /\ key[s].by = Columns(q, r0)
        BY DEF Session
    <2> QED
        BY <2>1, <2>2, NoColumns
<1>5. IsFiniteSet(xs)
    <2>1. DOMAIN key = S /\ key \in [S -> {key[r] : r \in S}]
        OBVIOUS
    <2> HIDE DEF key
    <2> QED
        BY <1>1, <2>1, ImageFinite
<1> HIDE DEF key, S
<1>6. \A x \in xs : Weights(q.metric, xs)[x] = 1
    BY <1>2 DEF Weights
<1>7. \A x \in xs : q.dimensions = {} => x.by = <<>>
    BY <1>4
<1>8. Total(Weights(q.metric, xs), xs) = Total(one, S)
    <2>1. \A r, s \in S : key[r] = key[s] => r = s
        BY <1>4
    <2> DEFINE w == Weights(q.metric, xs)
    <2>2. IsFiniteSet(S) /\ IsFiniteSet(xs) /\ xs = {key[r] : r \in S}
        BY <1>1, <1>5
    <2>3. (\A s \in S : one[s] \in Int) /\ \A s \in S : w[key[s]] = one[s]
        BY <1>6
    <2> HIDE DEF w, one, xs
    <2>4. Total(w, xs) = Total(one, S)
        BY ONLY <2>1, <2>2, <2>3, TotalRenamed
    <2> QED
        BY <2>4 DEF w
<1>9. Total(one, S) = Cardinality(S)
    <2>1. \A s \in S : one[s] = 1
        OBVIOUS
    <2> HIDE DEF one
    <2> QED
        BY <1>1, <2>1, TotalOnes
<1> HIDE DEF xs
<1>10. Sum(Lines(q, rows)) = Total(Weights(q.metric, xs), xs)
    <2>1. \A x \in xs : Weights(q.metric, xs)[x] \in Int
        BY <1>6
    <2> QED
        BY <1>2, <1>3, <1>5, <1>7, <2>1, LinesAddUp
<1> QED
    BY <1>8, <1>9, <1>10 DEF S

\* The lines of a request add up to those of the same without groups.
LEMMA PartsAddUp ==
    ASSUME NEW q \in Requests, q.metric \in Summed, NEW o, NEW t
    PROVE  Sum(Result(q, o, t)) = Sum(Result(Whole(q), o, t))
<1> DEFINE w == Whole(q)
<1>1. w.metric = q.metric /\ w.filters = q.filters /\ w.period = q.period
    BY DEF Requests, Whole
<1>2. Read(w, o, t) = Read(q, o, t) /\ Read(q, o, t) \subseteq Rows
    BY <1>1 DEF Read, Where, Final
<1> HIDE DEF w
<1>3. CASE q.metric \in Additive
    <2>1. Sum(Lines(q, Read(q, o, t))) = Total(RowWeights(q.metric), Read(q, o, t))
        BY <1>2, <1>3, RowsAddUp
    <2>2. Sum(Lines(w, Read(w, o, t))) = Total(RowWeights(w.metric), Read(w, o, t))
        BY <1>1, <1>2, <1>3, RowsAddUp
    <2> QED
        BY <1>1, <1>2, <2>1, <2>2 DEF Result, w
<1>4. CASE q.metric = "sessions"
    <2> DEFINE n(rows) == Cardinality({r.session : r \in rows} \ {None})
    <2>1. Sum(Lines(q, Read(q, o, t))) = n(Read(q, o, t))
        BY <1>2, <1>4, SessionsAddUp
    <2>2. Sum(Lines(w, Read(w, o, t))) = n(Read(w, o, t))
        BY <1>1, <1>2, <1>4, SessionsAddUp
    <2> HIDE DEF n
    <2> QED
        BY <1>2, <2>1, <2>2 DEF Result, w
<1> QED
    BY <1>3, <1>4 DEF Summed

\* A row of the longer period is of one of the two, and of one only.
LEMMA PeriodsAddUp ==
    ASSUME NEW q \in Requests, q.metric \in Additive, NEW o, NEW t
    PROVE  LET both == Compared(q, o, t)
               from == PreviousPeriod(q.period).start
           IN  Sum(both.results) + Sum(both.comparison) =
                   Sum(Result([q EXCEPT !.period.start = from], o, t))
<1> DEFINE p    == q.period
           from == PreviousPeriod(q.period).start
           a    == [q EXCEPT !.period = PreviousPeriod(@)]
           b    == [q EXCEPT !.period.start = from]
           n    == RowWeights(q.metric)
<1>1. /\ p \in [start : Nat, end : Nat] /\ p.start \in Nat /\ p.end \in Nat
      /\ p.start < p.end /\ p \in Periods
    BY QueryAssumption DEF Requests
<1>2. from = p.start - (p.end - p.start) /\ from \in Int /\ from < p.start
    BY <1>1 DEF PreviousPeriod
<1>3. /\ a.metric = q.metric /\ a.filters = q.filters
      /\ a.period.start = from /\ a.period.end = p.start
    BY DEF Requests, PreviousPeriod
<1>4. /\ b.metric = q.metric /\ b.filters = q.filters
      /\ b.period = [q.period EXCEPT !.start = from]
    BY DEF Requests
<1> DEFINE A == Read(a, o, t)
           B == Read(b, o, t)
           Q == Read(q, o, t)
<1>5. A \subseteq Rows /\ B \subseteq Rows /\ Q \subseteq Rows
    BY DEF Read, Final
<1>6. Q \cup A = B /\ Q \cap A = {}
    <2>1. ASSUME NEW r \in Rows
          PROVE  /\ In(b.period, r) <=> In(p, r) \/ In(a.period, r)
                 /\ ~(In(p, r) /\ In(a.period, r))
        <3>1. r.at \in Nat
            BY QueryAssumption
        <3>2. In(b.period, r) <=> from <= r.at /\ r.at < p.end
            <4>1. b.period.end = p.end /\ b.period.start = from
                BY <1>1, <1>4
            <4> QED
                BY <4>1 DEF In
        <3>3. In(a.period, r) <=> from <= r.at /\ r.at < p.start
            BY <1>3 DEF In
        <3>4. In(p, r) <=> p.start <= r.at /\ r.at < p.end
            BY DEF In
        <3> DEFINE x == r.at
                   s == p.start
                   e == p.end
        <3> HIDE DEF x, s, e, from
        <3>5. /\ (from <= x /\ x < e) <=> (s <= x /\ x < e) \/ (from <= x /\ x < s)
              /\ ~(s <= x /\ x < e /\ from <= x /\ x < s)
            BY <1>1, <1>2, <3>1 DEF x, s, e
        <3> QED
            BY <3>2, <3>3, <3>4, <3>5 DEF x, s, e
    <2>2. \A r \in Rows : /\ Where(b, o, r) <=> Where(q, o, r) \/ Where(a, o, r)
                          /\ ~(Where(q, o, r) /\ Where(a, o, r))
        <3> HIDE DEF a, b
        <3> QED
            BY <1>3, <1>4, <2>1 DEF Where
    <2> HIDE DEF a, b
    <2> QED
        BY <2>2 DEF Read, Final
<1> HIDE DEF a, b, from
<1>7. /\ Sum(Lines(q, Q)) = Total(n, Q) /\ Sum(Lines(a, A)) = Total(n, A)
      /\ Sum(Lines(b, B)) = Total(n, B)
    <2> HIDE DEF A, B, Q
    <2>1. Sum(Lines(q, Q)) = Total(RowWeights(q.metric), Q)
        BY <1>5, RowsAddUp
    <2>2. Sum(Lines(a, A)) = Total(RowWeights(a.metric), A)
        BY <1>3, <1>5, RowsAddUp
    <2>3. Sum(Lines(b, B)) = Total(RowWeights(b.metric), B)
        BY <1>4, <1>5, RowsAddUp
    <2> QED
        BY <1>3, <1>4, <2>1, <2>2, <2>3
<1>8. Total(n, B) = Total(n, Q) + Total(n, A)
    <2>1. IsFiniteSet(Q) /\ IsFiniteSet(A)
        BY <1>5, QueryAssumption, FS_Subset
    <2>2. \A r \in Q \cup A : n[r] \in Int
        BY <1>5, QueryAssumption DEF RowWeights
    <2> HIDE DEF A, B, Q, n
    <2>3. Total(n, Q \cup A) = Total(n, Q) + Total(n, A)
        BY <1>6, <2>1, <2>2, TotalUnion
    <2> QED
        BY <1>6, <2>3
<1>9. Compared(q, o, t).results = Lines(q, Q) /\ Compared(q, o, t).comparison = Lines(a, A)
    BY DEF Compared, Result, a
<1>10. Result(b, o, t) = Lines(b, B)
    BY DEF Result
<1> HIDE DEF A, B, Q, n
<1>11. Sum(Lines(q, Q)) + Sum(Lines(a, A)) = Sum(Lines(b, B))
    BY <1>7, <1>8
<1> QED
    BY <1>9, <1>10, <1>11 DEF b, from

\* Those activated are each of one cohort, which they are of from its first week on.
LEMMA CohortsAddUp ==
    ASSUME NEW a, NEW p, NEW o, NEW t
    PROVE  LET cohorts == Retention(a, p, o, t)
           IN  SumFunctionOnSet(cohorts, {x \in DOMAIN cohorts : x[2] = 0}) =
               Cardinality({r.user : r \in {x \in Final(t) :
                   x.table = "events" /\ x.org = o /\ In(p, x) /\ x.user # None /\ x.name = a}})
<1> DEFINE rows    == {r \in Final(t) : r.table = "events" /\ r.org = o /\ In(p, r) /\ r.user # None}
           U       == {r.user : r \in {x \in rows : x.name = a}}
           of(u)   == {Week(r) : r \in {x \in rows : x.user = u /\ x.name = a}}
           first   == [u \in U |-> Min(of(u))]
           weeks   == {0} \cup {Week(r) : r \in rows}
           D       == {first[u] : u \in U} \X (0..Max(weeks))
           back(c, n) == {u \in U : first[u] = c /\ \E r \in rows : r.user = u /\ Week(r) = c + n}
           cohorts == [x \in D |-> Cardinality(back(x[1], x[2]))]
           X       == {x \in D : x[2] = 0}
           key     == [u \in U |-> <<first[u], 0>>]
           one     == [u \in U |-> 1]
<1>1. Retention(a, p, o, t) = cohorts
    BY Zenon DEF Retention
<1>2. U = {r.user : r \in {x \in Final(t) :
               x.table = "events" /\ x.org = o /\ In(p, x) /\ x.user # None /\ x.name = a}}
    OBVIOUS
<1>3. IsFiniteSet(rows) /\ rows \subseteq Rows
    BY QueryAssumption, FS_Subset DEF Final
<1>4. \A r \in rows : Week(r) \in Nat
    <2>1. ASSUME NEW r \in rows PROVE r.at \div WeekLen \in Nat
        <3>1. r.at \in Nat /\ WeekLen \in Nat \ {0}
            BY <1>3, QueryAssumption
        <3> DEFINE n == r.at
        <3> HIDE DEF n
        <3> QED
            BY <3>1 DEF n
    <2> QED
        BY <2>1 DEF Week
<1>5. IsFiniteSet({Week(r) : r \in rows})
    <2> DEFINE f == [r \in rows |-> Week(r)]
    <2>1. DOMAIN f = rows /\ f \in [rows -> {f[r] : r \in rows}]
        OBVIOUS
    <2>2. {f[r] : r \in rows} = {Week(r) : r \in rows}
        OBVIOUS
    <2> HIDE DEF f, rows
    <2>3. IsFiniteSet({f[r] : r \in rows})
        BY <1>3, <2>1, ImageFinite
    <2> QED
        BY <2>2, <2>3
<1>6. IsFiniteSet(U)
    <2> DEFINE s == {x \in rows : x.name = a}
               f == [r \in s |-> r.user]
    <2>1. DOMAIN f = s /\ f \in [s -> {f[r] : r \in s}] /\ U = {f[r] : r \in s}
        OBVIOUS
    <2>2. IsFiniteSet(s)
        BY <1>3, FS_Subset
    <2> HIDE DEF f, s, U
    <2>3. IsFiniteSet({f[r] : r \in s})
        BY <2>1, <2>2, ImageFinite
    <2> QED
        BY <2>1, <2>3
<1>7. ASSUME NEW u \in U PROVE first[u] \in of(u) /\ first[u] \in Nat
    <2>1. of(u) \subseteq {Week(r) : r \in rows} /\ of(u) # {}
        OBVIOUS
    <2>2. {Week(r) : r \in rows} \subseteq Nat
        BY <1>4
    <2>3. first[u] = Min(of(u))
        OBVIOUS
    <2> DEFINE W == of(u)
    <2> HIDE DEF rows, W
    <2>4. IsFiniteSet(W) /\ W \subseteq Int /\ W # {} /\ W \subseteq Nat
        BY <1>5, <2>1, <2>2, FS_Subset DEF W
    <2>5. Min(W) \in W
        BY ONLY <2>4, Extremes
    <2> QED
        BY <2>3, <2>4, <2>5 DEF W
<1>8. Max(weeks) \in Nat
    <2>1. IsFiniteSet({0})
        BY FS_Singleton
    <2>2. IsFiniteSet(weeks)
        BY <1>5, <2>1, FS_Union
    <2>3. weeks \subseteq Nat /\ weeks # {}
        BY <1>4
    <2> HIDE DEF weeks
    <2>4. weeks \subseteq Int
        BY <2>3
    <2>5. Max(weeks) \in weeks
        BY ONLY <2>2, <2>3, <2>4, Extremes
    <2> QED
        BY <2>3, <2>5
<1>9. \A u \in U : key[u] \in X
    <2> DEFINE top == Max(weeks)
               first0(u) == first[u]
    <2>1. \A u \in U : first[u] \in {first[v] : v \in U}
        OBVIOUS
    <2>2. 0 \in 0..Max(weeks)
        <3> HIDE DEF weeks
        <3> QED
            BY <1>8
    <2> HIDE DEF first, weeks
    <2> QED
        BY <2>1, <2>2
<1>10. X = {<<c, 0>> : c \in {first[u] : u \in U}}
    <2>1. 0 \in 0..Max(weeks)
        <3> HIDE DEF weeks
        <3> QED
            BY <1>8
    <2> HIDE DEF first, weeks
    <2> QED
        BY <2>1
<1>11. IsFiniteSet(X)
    <2>1. DOMAIN key = U /\ key \in [U -> {key[u] : u \in U}] /\ {key[u] : u \in U} = X
        <3> HIDE DEF first, X
        <3> QED
            BY <1>10
    <2> HIDE DEF key, U, X
    <2> QED
        BY <1>6, <2>1, ImageFinite
<1>12. \A x \in X : WithKey(key, U, {x}) = back(x[1], x[2])
    <2> SUFFICES ASSUME NEW x \in X PROVE WithKey(key, U, {x}) = back(x[1], x[2])
        OBVIOUS
    <2>1. PICK v \in U : x = <<first[v], 0>>
        <3> HIDE DEF first, X, U
        <3> QED
            BY <1>10
    <2>2. x[1] = first[v] /\ x[2] = 0
        BY <2>1
    <2>3. ASSUME NEW u \in U, first[u] = first[v]
          PROVE  \E r \in rows : r.user = u /\ Week(r) = first[v] + 0
        <3>1. first[u] \in of(u) /\ first[u] \in Nat
            BY <1>7
        <3>2. PICK r \in rows : r.user = u /\ Week(r) = first[u]
            BY <3>1
        <3>3. first[v] + 0 = first[v]
            <4> DEFINE k == first[v]
            <4>1. k \in Nat
                BY <1>7
            <4> HIDE DEF k
            <4> QED
                BY <4>1 DEF k
        <3> HIDE DEF rows, first
        <3> QED
            BY <2>3, <3>2, <3>3
    <2>4. back(first[v], 0) = {u \in U : first[u] = first[v]}
        <3> HIDE DEF first, U, rows
        <3> QED
            BY <2>3
    <2>5. WithKey(key, U, {x}) = {u \in U : first[u] = first[v]}
        <3> HIDE DEF first, U, rows
        <3> QED
            BY <2>1 DEF WithKey
    <2> HIDE DEF first, U, rows
    <2> QED
        BY <2>2, <2>4, <2>5
<1>13. \A u \in U : one[u] = 1 /\ one[u] \in Int
    OBVIOUS
<1> DEFINE W(x) == WithKey(key, U, {x})
<1>14. ByKey(cohorts, one, key, U, X)
    <2>1. \A x \in X : cohorts[x] = Cardinality(W(x))
        BY <1>12
    <2>2. ASSUME NEW x \in X PROVE Total(one, W(x)) = Cardinality(W(x))
        <3>1. W(x) \subseteq U
            BY DEF WithKey
        <3> HIDE DEF W, one, U
        <3>2. IsFiniteSet(W(x)) /\ \A u \in W(x) : one[u] = 1
            BY <1>6, <1>13, <3>1, FS_Subset
        <3> QED
            BY <3>2, TotalOnes
    <2> HIDE DEF cohorts, one, key, X, U
    <2> QED
        BY <2>1, <2>2 DEF ByKey
<1>15. Total(cohorts, X) = Cardinality(U)
    <2>1. WithKey(key, U, X) = U
        <3> HIDE DEF key, X, U
        <3> QED
            BY <1>9 DEF WithKey
    <2> HIDE DEF cohorts, one, key, X, U
    <2>2. \A u \in U : one[u] \in Int
        BY <1>13
    <2>3. Total(cohorts, X) = Total(one, WithKey(key, U, X))
        BY <1>6, <1>11, <1>14, <2>2, TotalByKey
    <2>4. Total(one, U) = Cardinality(U)
        BY <1>6, <1>13, TotalOnes
    <2> QED
        BY <2>1, <2>3, <2>4
<1>16. X = {x \in DOMAIN cohorts : x[2] = 0}
    <2>1. DOMAIN cohorts = D
        OBVIOUS
    <2> HIDE DEF cohorts, D
    <2> QED
        BY <2>1
<1> HIDE DEF cohorts, X, U
<1> QED
    BY <1>1, <1>2, <1>15, <1>16 DEF Total

\* Any table adds up: the users of a retention are those of the custom events it is of.
LEMMA AnyAnswer == AnswersAddUp
<1> SUFFICES ASSUME NEW q \in Requests, NEW o \in Orgs
             PROVE  /\ q.metric \in Additive \cup {"sessions"} =>
                           Sum(Result(q, o, table)) = Sum(Result(Whole(q), o, table))
                    /\ q.metric \in Additive /\ q = Whole(q) =>
                           LET both == Compared(q, o, table)
                               from == PreviousPeriod(q.period).start
                           IN  Sum(both.results) + Sum(both.comparison) =
                               Sum(Result([q EXCEPT !.period.start = from], o, table))
                    /\ q = Whole(q) /\ q.metric = "custom_events" /\ q.filters = {} =>
                           LET cohorts == Retention("signup", q.period, o, table)
                           IN  SumFunctionOnSet(cohorts, {x \in DOMAIN cohorts : x[2] = 0}) =
                               Cardinality({r.user : r \in {x \in Read(q, o, table) : x.name = "signup"}}
                                               \ {None})
    BY DEF AnswersAddUp
<1>1. q.metric \in Additive \cup {"sessions"} =>
          Sum(Result(q, o, table)) = Sum(Result(Whole(q), o, table))
    BY PartsAddUp DEF Summed
<1>2. q.metric \in Additive =>
          LET both == Compared(q, o, table)
              from == PreviousPeriod(q.period).start
          IN  Sum(both.results) + Sum(both.comparison) =
              Sum(Result([q EXCEPT !.period.start = from], o, table))
    BY PeriodsAddUp
<1>3. ASSUME q.metric = "custom_events", q.filters = {}
      PROVE  LET cohorts == Retention("signup", q.period, o, table)
             IN  SumFunctionOnSet(cohorts, {x \in DOMAIN cohorts : x[2] = 0}) =
                 Cardinality({r.user : r \in {x \in Read(q, o, table) : x.name = "signup"}} \ {None})
    <2> DEFINE A == {x \in Final(table) : /\ x.table = "events" /\ x.org = o /\ In(q.period, x)
                                          /\ x.user # None /\ x.name = "signup"}
               B == {x \in Read(q, o, table) : x.name = "signup"}
    <2>1. Source(q.metric) = "events" /\ METRICS[q.metric].of = "others"
        BY <1>3 DEF Source, METRICS
    <2>2. \A x \in Final(table) : x.name = "signup" =>
              (Where(q, o, x) <=> x.table = "events" /\ x.org = o /\ In(q.period, x))
        BY <1>3, <2>1 DEF Where, EventFilter
    <2>3. A = {x \in B : x.user # None}
        BY <2>2 DEF Read
    <2> HIDE DEF A, B
    <2>4. {r.user : r \in A} = {r.user : r \in B} \ {None}
        BY <2>3
    <2>5. LET cohorts == Retention("signup", q.period, o, table)
          IN  SumFunctionOnSet(cohorts, {x \in DOMAIN cohorts : x[2] = 0}) =
              Cardinality({r.user : r \in A})
        BY CohortsAddUp DEF A
    <2> QED
        BY <2>4, <2>5 DEF B
<1> QED
    BY <1>1, <1>2, <1>3

-----------------------------------------------------------------------------
(* Query: theorems.                                                         *)

\* The state keeps its shape, and no goal has a rate above 100 %, whatever is stored
\* between the counts of its visitors and of those who convert (list_goals).
THEOREM RatesAreRates == Spec => []TypeOK
<1>1. IInv => TypeOK
    BY DEF IInv
<1> QED
    BY <1>1, InvInit, InvNext, PTL DEF Spec

\* No table, of any rows, makes an answer depend on another organization's row, or a
\* shared dashboard or a tile on another project's (engine.py, public.py, tools.py).
THEOREM TenantsAreApart == Spec => []ScopesHold
<1> QED
    BY AnyTable, PTL DEF Spec

\* Rows stored twice, merged or not, change no answer of the registry, and no funnel of
\* which no row meets two steps (funnel.py reads without FINAL).
THEOREM DuplicatesAreHarmless == Spec => []CopiesDoNotCount
<1>1. IInv => CopiesDoNotCount
    BY AnyCopies DEF IInv
<1> QED
    BY <1>1, InvInit, InvNext, PTL DEF Spec

\* A breakdown and a series, of any rows, add up to the whole, a period and the one it is
\* compared with to both, and the cohorts of a retention to its users (engine.py,
\* retention.py).
THEOREM NumbersAddUp == Spec => []AnswersAddUp
<1>1. AnswersAddUp
    BY AnyAnswer
<1> QED
    BY <1>1, PTL

\* Whoever watches the live map of an organization has a broadcaster, or one that died
\* before its loop, for any number of sockets (LiveHub).
THEOREM WatchersAreServed == Spec => []SocketsAreServed
<1>1. IInv => SocketsAreServed
    BY DEF IInv
<1> QED
    BY <1>1, InvInit, InvNext, PTL DEF Spec

\* The year before a period of a leap year is a period if that lasts two days (the day
\* of 28 February has none: _comparison_period moves both its ends to one midnight).
LEMMA YearBefore ==
    ASSUME NEW p \in [start : Nat, end : Nat], NEW yearLen \in Nat, NEW leapDay \in Nat,
           p.end >= p.start + 2
    PROVE  PreviousYear(p, yearLen, leapDay).start < PreviousYear(p, yearLen, leapDay).end
<1> QED
    BY DEF PreviousYear, YearBack

-----------------------------------------------------------------------------
(* Senders: the accounts.                                                   *)

\* The address of the cells of what does not fit.
OverAddress == IF sdk = "python" THEN NoIp ELSE Over

\* Cells marked as overflow have the address of overflow, and those of the address
\* that stands for nothing else are marked.
Marked(count, marks) ==
    /\ marks \subseteq Used(count)
    /\ \A c \in marks : c[2] = OverAddress
    /\ \A c \in Used(count) : c[2] = Over => c \in marks

\* What a cell says of callers from its address.
Plain(count, marks, c) == IF c \in marks THEN 0 ELSE count[c]
PlainPosts(c) == [p \in Posts |-> Plain(sending[p].count, sending[p].marks, c)]

\* The state keeps its shape, and what was made its bound.
Shape ==
    /\ sdk \in {"python", "node"}
    /\ made \in [Routes \X Ips -> Nat] /\ Total(made, DOMAIN made) <= MaxMade
    /\ window \in [Cells -> Nat] /\ overflow \subseteq Cells
    /\ sending \in [Posts -> [count : [Cells -> Nat], marks : SUBSET Cells]]
    /\ failures \in 0..(Threshold - 1) /\ open \in BOOLEAN /\ cut \in BOOLEAN
    /\ stored \in [Routes \X Countries -> Nat]
    /\ owed \subseteq Charges /\ deliveries \in Nat
    /\ revenue \subseteq Charges \X (1..deliveries)
    /\ faults \in 0..MaxFaults

\* Marks stay with the cells they are of, from the window to the post.
MarksInv ==
    /\ Marked(window, overflow)
    /\ \A p \in Posts : Marked(sending[p].count, sending[p].marks)

\* What is not marked keeps to the limit of the window.
KeysInv == Cardinality(Used(window) \ overflow) <= MaxKeys

\* What a country's row says, or will say if every post is stored.
Claimed(c) == stored[c] + Plain(window, overflow, c) + Total(PlainPosts(c), Posts)
HonestInv == \A c \in Routes \X Ips : Claimed(c) <= made[c]

\* What is known of a route, by the rows, the window and the posts.
Held(r) == InRoute(stored, r) + Pending(r)
HeldInv == \A r \in Routes : Held(r) <= InRoute(made, r)

\* Until something fails or is cut, that is all there was.
LossInv == faults = 0 /\ ~cut => \A r \in Routes : Held(r) = InRoute(made, r)

\* The breaker counts failures that were.
BreakerInv == open \/ failures > 0 => faults > 0 \/ cut

Counts == MarksInv /\ KeysInv /\ HonestInv /\ HeldInv

SendersIInv == Shape /\ Counts /\ LossInv /\ BreakerInv

-----------------------------------------------------------------------------
(* Senders: cells, addresses and sums by route.                             *)

\* Cells and rows are finite, as routes and addresses are.
LEMMA SendersFinite ==
    /\ IsFiniteSet(Ips) /\ IsFiniteSet(Cells) /\ IsFiniteSet(Routes \X Ips)
    /\ IsFiniteSet(Routes \X Countries)
<1>1. IsFiniteSet(Ips)
    BY SendersAssumption, FS_Union, FS_Singleton DEF Ips
<1>2. IsFiniteSet(Ips \cup {Over}) /\ IsFiniteSet(Countries)
    BY <1>1, FS_Union, FS_Singleton DEF Countries
<1> QED
    BY <1>1, <1>2, SendersAssumption, FS_Product DEF Cells

\* How addresses, countries, cells and rows are related.
LEMMA Addresses ==
    /\ NoIp \in Ips /\ Over \notin Countries /\ Unresolved \notin Ips /\ Ips \subseteq Countries
    /\ Routes \X Ips \subseteq Cells /\ Routes \X Ips \subseteq Routes \X Countries
BY SendersAssumption DEF Ips, Countries, Cells

\* The cell of what does not fit is of the same route.
LEMMA OverflowCellIs ==
    ASSUME NEW r \in Routes, NEW ip \in Ips
    PROVE  /\ OverflowCell(r, ip) \in Cells
           /\ OverflowCell(r, ip)[1] = r /\ OverflowCell(r, ip)[2] = OverAddress
BY Addresses DEF OverflowCell, OverAddress, Cells

\* A window and a post without requests.
LEMMA EmptyIs ==
    /\ Empty \in [Cells -> Nat] /\ Used(Empty) = {}
    /\ Nothing \in [count : [Cells -> Nat], marks : SUBSET Cells]
    /\ \A c \in Cells : Empty[c] = 0 /\ Nothing.count[c] = 0
    /\ Nothing.marks = {} /\ Nothing.count = Empty
BY DEF Empty, Used, Nothing

\* A route's requests are some of all requests.
LEMMA InRouteNat ==
    ASSUME NEW D, IsFiniteSet(D), NEW n \in [D -> Nat], NEW r
    PROVE  InRoute(n, r) \in Nat /\ InRoute(n, r) <= Total(n, D)
<1>1. {x \in D : x[1] = r} \subseteq D /\ IsFiniteSet({x \in D : x[1] = r}) /\ DOMAIN n = D
    BY FS_Subset
<1>2. \A x \in D : n[x] \in Nat
    OBVIOUS
<1>3. Total(n, {x \in D : x[1] = r}) <= Total(n, D)
    BY <1>1, <1>2, TotalPart
<1>4. Total(n, {x \in D : x[1] = r}) \in Nat
    BY <1>1, <1>2, TotalNat
<1> QED
    BY <1>1, <1>3, <1>4 DEF InRoute

\* Where nothing is counted, no route has a request.
LEMMA InRouteZero ==
    ASSUME NEW D, IsFiniteSet(D), NEW n, DOMAIN n = D, \A x \in D : n[x] = 0, NEW r
    PROVE  InRoute(n, r) = 0
<1>1. IsFiniteSet({x \in D : x[1] = r})
    BY FS_Subset
<1> QED
    BY <1>1, TotalZero DEF InRoute

\* A cell's requests are some of its route's.
LEMMA OneOfRoute ==
    ASSUME NEW D, IsFiniteSet(D), NEW n \in [D -> Nat], NEW c \in D
    PROVE  n[c] <= InRoute(n, c[1])
<1> DEFINE S == {x \in D : x[1] = c[1]}
<1>1. IsFiniteSet(S) /\ c \in S /\ \A x \in S : n[x] \in Nat
    BY FS_Subset
<1>2. InRoute(n, c[1]) = Total(n, S)
    BY DEF InRoute
<1> HIDE DEF S
<1> QED
    BY <1>1, <1>2, TotalBounds

OneMoreIn(m, n, c) == m = [n EXCEPT ![c] = @ + 1]

\* One more in a cell is one more in its route, and in the sum.
LEMMA OneMore ==
    ASSUME NEW D, IsFiniteSet(D), NEW n \in [D -> Nat], NEW c \in D, NEW m,
           OneMoreIn(m, n, c)
    PROVE  /\ m \in [D -> Nat]
           /\ Total(m, D) = Total(n, D) + 1
           /\ \A r : InRoute(m, r) = IF r = c[1] THEN InRoute(n, r) + 1 ELSE InRoute(n, r)
<1>1. m \in [D -> Nat] /\ m[c] = n[c] + 1 /\ \A x \in D \ {c} : m[x] = n[x]
    BY DEF OneMoreIn
<1>2. ASSUME NEW S \in SUBSET D
      PROVE  Total(m, S) = IF c \in S THEN Total(n, S) + 1 ELSE Total(n, S)
    <2>1. IsFiniteSet(S) /\ \A x \in S : n[x] \in Nat /\ m[x] \in Nat
        BY <1>1, FS_Subset
    <2>2. CASE c \in S
        <3>1. PICK rest \in Nat : Total(n, S) = n[c] + rest /\ Total(m, S) = m[c] + rest
            <4>1. \A x \in S \ {c} : m[x] = n[x]
                BY <1>1
            <4> QED
                BY ONLY <2>1, <2>2, <4>1, TotalChange
        <3>2. n[c] \in Nat
            OBVIOUS
        <3> DEFINE k == n[c]
        <3> HIDE DEF k
        <3>3. (k + 1) + rest = (k + rest) + 1
            BY <3>2 DEF k
        <3>4. Total(m, S) = Total(n, S) + 1
            BY <1>1, <3>1, <3>3 DEF k
        <3> QED
            BY <2>2, <3>4
    <2>3. CASE c \notin S
        <3>1. \A x \in S : m[x] = n[x]
            BY <1>1, <2>3
        <3> QED
            BY <2>1, <2>3, <3>1, TotalSame
    <2> QED
        BY <2>2, <2>3
<1>3. ASSUME NEW r
      PROVE  InRoute(m, r) = IF r = c[1] THEN InRoute(n, r) + 1 ELSE InRoute(n, r)
    <2> DEFINE S == {x \in D : x[1] = r}
    <2>1. S \in SUBSET D /\ (c \in S <=> r = c[1])
        OBVIOUS
    <2>2. InRoute(m, r) = Total(m, S) /\ InRoute(n, r) = Total(n, S)
        BY <1>1 DEF InRoute
    <2> HIDE DEF S
    <2> QED
        BY <1>2, <2>1, <2>2
<1> QED
    BY <1>1, <1>2, <1>3

-----------------------------------------------------------------------------
(* Senders: rows.                                                           *)

Post == [count : [Cells -> Nat], marks : SUBSET Cells]

\* Cells in use that are not marked are of a country.
LEMMA CountriesOfCells ==
    ASSUME Shape, MarksInv, NEW p \in Posts, NEW c \in Posted(p)
    PROVE  /\ c \in Cells /\ c[1] \in Routes
           /\ Country(p, c) \in Countries
           /\ Country(p, c) \in Ips <=> c \notin sending[p].marks
           /\ c \notin sending[p].marks => Country(p, c) = c[2]
<1>1. c \in Cells /\ c[1] \in Routes /\ c[2] \in Ips \cup {Over}
    BY DEF Posted, Used, Cells
<1>2. c[2] = Over => c \in sending[p].marks
    BY DEF MarksInv, Marked, Posted
<1> QED
    BY <1>1, <1>2, Addresses DEF Country, Countries

\* Storing a post adds to the rows of a route what the post counts in it, and to
\* those of a country what its callers' cell plainly says.
LEMMA StoreAdds ==
    ASSUME Shape, MarksInv, NEW p \in Posts, StoreRows(p)
    PROVE  /\ stored' \in [Routes \X Countries -> Nat]
           /\ \A r \in Routes : InRoute(stored', r) = InRoute(stored, r) + InRoute(sending[p].count, r)
           /\ \A x \in Routes \X Ips :
                  stored'[x] = stored[x] + Plain(sending[p].count, sending[p].marks, x)
<1> DEFINE n      == sending[p].count
           K      == Posted(p)
           D      == Routes \X Countries
           Of(x)  == {c \in K : c[1] = x[1] /\ Country(p, c) = x[2]}
           add    == [x \in D |-> Total(n, Of(x))]
<1>1. /\ n \in [Cells -> Nat] /\ K \subseteq Cells /\ IsFiniteSet(K) /\ IsFiniteSet(D)
      /\ IsFiniteSet(Cells) /\ DOMAIN stored = D /\ stored \in [D -> Nat]
    <2>1. K \subseteq Cells /\ IsFiniteSet(Cells)
        BY SendersFinite DEF Posted, Used
    <2>2. IsFiniteSet(K)
        BY <2>1, FS_Subset
    <2> QED
        BY <2>1, <2>2, SendersFinite DEF Shape
<1>2. \A c \in K : n[c] \in Nat
    BY <1>1
<1>3. \A S \in SUBSET K : IsFiniteSet(S) /\ Total(n, S) \in Nat
    BY <1>1, <1>2, FS_Subset, TotalNat
<1>4. \A x \in D : add[x] = Total(n, Of(x)) /\ add[x] \in Nat
    BY <1>3
<1>5. stored' = [x \in D |-> stored[x] + add[x]]
    BY <1>1 DEF StoreRows
<1>6. stored' \in [D -> Nat] /\ \A x \in D : stored'[x] = stored[x] + add[x]
    BY <1>1, <1>4, <1>5
<1>7. ASSUME NEW r \in Routes
      PROVE  InRoute(stored', r) = InRoute(stored, r) + InRoute(n, r)
    <2> DEFINE X   == {x \in D : x[1] = r}
               key == [c \in K |-> <<c[1], Country(p, c)>>]
    <2>1. IsFiniteSet(X) /\ X \subseteq D
        BY <1>1, FS_Subset
    <2>2. Total(stored', X) = Total(stored, X) + Total(add, X)
        <3>1. \A x \in X : stored[x] \in Nat /\ add[x] \in Nat /\ stored'[x] = stored[x] + add[x]
            BY <1>1, <1>4, <1>6, <2>1
        <3> HIDE DEF add, X
        <3> QED
            BY ONLY <2>1, <3>1, TotalAdd
    <2>4. \A x \in X : add[x] = Total(n, WithKey(key, K, {x}))
        <3>1. \A x \in X : WithKey(key, K, {x}) = Of(x)
            BY DEF WithKey
        <3> QED
            BY <1>4, <2>1, <3>1
    <2>5. Total(add, X) = Total(n, WithKey(key, K, X))
        <3> HIDE DEF add, X, key, K, n
        <3>1. IsFiniteSet(K) /\ IsFiniteSet(X)
            BY <1>1, <2>1
        <3>2. ByKey(add, n, key, K, X)
            BY <2>4 DEF ByKey
        <3> QED
            BY <1>2, <3>1, <3>2, TotalByKey
    <2>6. WithKey(key, K, X) = {c \in K : c[1] = r}
        BY CountriesOfCells DEF WithKey
    <2>7. Total(n, {c \in K : c[1] = r}) = Total(n, {c \in Cells : c[1] = r})
        <3> DEFINE U == {c \in Cells : c[1] = r}
                   S == {c \in K : c[1] = r}
        <3>1. IsFiniteSet(U) /\ S \subseteq U /\ \A c \in U : n[c] \in Nat
            BY <1>1, FS_Subset
        <3>2. \A c \in U \ S : n[c] = 0
            BY <1>1 DEF Posted, Used
        <3> HIDE DEF U, S, n
        <3> QED
            BY <3>1, <3>2, TotalPart DEF U, S
    <2>8. /\ InRoute(stored', r) = Total(stored', X) /\ InRoute(stored, r) = Total(stored, X)
          /\ InRoute(n, r) = Total(n, {c \in Cells : c[1] = r})
        <3>1. DOMAIN stored' = D /\ DOMAIN stored = D /\ DOMAIN n = Cells
            BY <1>1, <1>6
        <3> QED
            BY <3>1 DEF InRoute
    <2> QED
        BY <2>2, <2>5, <2>6, <2>7, <2>8
<1>8. ASSUME NEW x \in Routes \X Ips
      PROVE  stored'[x] = stored[x] + Plain(n, sending[p].marks, x)
    <2>1. x \in D /\ x \in Cells /\ x[2] \in Ips
        BY Addresses
    <2>2. Of(x) = IF x \in K /\ x \notin sending[p].marks THEN {x} ELSE {}
        <3>1. \A c \in Of(x) : c = x /\ x \notin sending[p].marks
            <4> SUFFICES ASSUME NEW c \in Of(x) PROVE c = x /\ x \notin sending[p].marks
                OBVIOUS
            <4>1. c \in Cells /\ c \notin sending[p].marks /\ c[1] = x[1] /\ c[2] = x[2]
                BY <2>1, CountriesOfCells
            <4> QED
                BY <2>1, <4>1 DEF Cells
        <3>2. x \in K /\ x \notin sending[p].marks => x \in Of(x)
            BY DEF Country
        <3> QED
            BY <3>1, <3>2
    <2>3. Total(n, {x}) = n[x]
        <3>1. n[x] \in Nat /\ {x} \ {x} = {} /\ IsFiniteSet({x})
            BY <1>1, <2>1, FS_Singleton
        <3>2. Total(n, {x}) = n[x] + Total(n, {})
            BY <3>1, TotalSplit
        <3> HIDE DEF n
        <3> QED
            BY <3>1, <3>2, TotalOfNone
    <2>4. Total(n, Of(x)) = IF x \in K /\ x \notin sending[p].marks THEN n[x] ELSE 0
        BY <2>2, <2>3, TotalOfNone
    <2>5. x \notin K => n[x] = 0
        BY <1>1, <2>1 DEF Posted, Used
    <2>6. add[x] = Plain(n, sending[p].marks, x)
        BY <1>4, <2>1, <2>4, <2>5 DEF Plain
    <2> QED
        BY <1>6, <2>1, <2>6
<1> QED
    BY <1>6, <1>7, <1>8

-----------------------------------------------------------------------------
(* Senders: what posts carry.                                               *)

RoutePosts(r) == [p \in Posts |-> InRoute(sending[p].count, r)]

\* Whatever is counted is a natural number.
LEMMA HeldTypes ==
    ASSUME Shape
    PROVE  /\ \A r \in Routes :
                  /\ {InRoute(stored, r), InRoute(window, r), InRoute(made, r)} \subseteq Nat
                  /\ Total(RoutePosts(r), Posts) \in Nat
                  /\ Held(r) = InRoute(stored, r) + (InRoute(window, r) + Total(RoutePosts(r), Posts))
                  /\ \A p \in Posts : InRoute(sending[p].count, r) \in Nat
           /\ \A c \in Routes \X Ips :
                  /\ {stored[c], made[c], Plain(window, overflow, c)} \subseteq Nat
                  /\ Total(PlainPosts(c), Posts) \in Nat
           /\ \A c \in Cells, p \in Posts : Plain(sending[p].count, sending[p].marks, c) \in Nat
<1>1. \A p \in Posts : sending[p].count \in [Cells -> Nat]
    BY DEF Shape
<1>2. ASSUME NEW r \in Routes
      PROVE  /\ {InRoute(stored, r), InRoute(window, r), InRoute(made, r)} \subseteq Nat
             /\ Total(RoutePosts(r), Posts) \in Nat
             /\ Held(r) = InRoute(stored, r) + (InRoute(window, r) + Total(RoutePosts(r), Posts))
             /\ \A p \in Posts : InRoute(sending[p].count, r) \in Nat
    <2>1. \A p \in Posts : InRoute(sending[p].count, r) \in Nat
        BY <1>1, SendersFinite, InRouteNat
    <2>2. InRoute(stored, r) \in Nat /\ InRoute(window, r) \in Nat /\ InRoute(made, r) \in Nat
        BY SendersFinite, InRouteNat DEF Shape
    <2>3. \A p \in Posts : RoutePosts(r)[p] \in Nat
        BY <2>1 DEF RoutePosts
    <2>4. Total(RoutePosts(r), Posts) \in Nat
        BY <2>3, SendersAssumption, TotalNat
    <2> QED
        BY <2>1, <2>2, <2>4 DEF Held, Pending, RoutePosts
<1>3. \A c \in Cells, p \in Posts : Plain(sending[p].count, sending[p].marks, c) \in Nat
    BY <1>1 DEF Plain
<1>4. ASSUME NEW c \in Routes \X Ips
      PROVE  /\ {stored[c], made[c], Plain(window, overflow, c)} \subseteq Nat
             /\ Total(PlainPosts(c), Posts) \in Nat
    <2>1. c \in Cells /\ c \in Routes \X Countries
        BY Addresses
    <2>2. \A p \in Posts : PlainPosts(c)[p] \in Nat
        BY <1>3, <2>1 DEF PlainPosts
    <2>3. Total(PlainPosts(c), Posts) \in Nat
        BY <2>2, SendersAssumption, TotalNat
    <2> QED
        BY <2>1, <2>3 DEF Shape, Plain
<1> QED
    BY <1>2, <1>3, <1>4

\* t, of which a is part, becomes u, of which b is part.
Swapped(t, a, u, b) == \E rest \in Nat : t = a + rest /\ u = b + rest

\* A post takes the place of another.
LEMMA PostChanges ==
    ASSUME Shape, NEW p \in Posts, NEW new \in Post, sending' = [sending EXCEPT ![p] = new]
    PROVE  /\ sending' \in [Posts -> Post] /\ sending'[p] = new
           /\ \A r \in Routes : Swapped(Total(RoutePosts(r), Posts), InRoute(sending[p].count, r),
                      Total(RoutePosts(r), Posts)', InRoute(new.count, r))
           /\ \A c \in Cells :
                  Swapped(Total(PlainPosts(c), Posts),
                          Plain(sending[p].count, sending[p].marks, c),
                          Total(PlainPosts(c), Posts)', Plain(new.count, new.marks, c))
<1>1. /\ sending' \in [Posts -> Post] /\ sending'[p] = new
      /\ \A q \in Posts \ {p} : sending'[q] = sending[q]
    BY DEF Shape, Post
<1>2. \A q \in Posts : sending[q].count \in [Cells -> Nat] /\ sending'[q].count \in [Cells -> Nat]
    BY <1>1 DEF Shape, Post
<1>3. ASSUME NEW r \in Routes
      PROVE  Swapped(Total(RoutePosts(r), Posts), InRoute(sending[p].count, r),
                     Total(RoutePosts(r), Posts)', InRoute(new.count, r))
    <2> DEFINE f == RoutePosts(r)
               g == RoutePosts(r)'
    <2>1. \A q \in Posts : /\ f[q] = InRoute(sending[q].count, r) /\ f[q] \in Nat
                           /\ g[q] = InRoute(sending'[q].count, r) /\ g[q] \in Nat
        BY <1>2, SendersFinite, InRouteNat DEF RoutePosts
    <2>2. \A q \in Posts \ {p} : g[q] = f[q]
        BY <1>1, <2>1
    <2>3. f[p] = InRoute(sending[p].count, r) /\ g[p] = InRoute(new.count, r)
        BY <1>1, <2>1
    <2>4. Total(RoutePosts(r), Posts)' = Total(g, Posts)
        OBVIOUS
    <2> HIDE DEF f, g
    <2>5. \E rest \in Nat : Total(f, Posts) = f[p] + rest /\ Total(g, Posts) = g[p] + rest
        BY <2>1, <2>2, SendersAssumption, TotalChange
    <2> QED
        BY <2>3, <2>4, <2>5 DEF f, Swapped
<1>4. ASSUME NEW c \in Cells
      PROVE  Swapped(Total(PlainPosts(c), Posts),
                     Plain(sending[p].count, sending[p].marks, c),
                     Total(PlainPosts(c), Posts)', Plain(new.count, new.marks, c))
    <2> DEFINE f == PlainPosts(c)
               g == PlainPosts(c)'
    <2>1. \A q \in Posts : /\ f[q] = Plain(sending[q].count, sending[q].marks, c) /\ f[q] \in Nat
                           /\ g[q] = Plain(sending'[q].count, sending'[q].marks, c) /\ g[q] \in Nat
        BY <1>2 DEF PlainPosts, Plain
    <2>2. \A q \in Posts \ {p} : g[q] = f[q]
        BY <1>1, <2>1
    <2>3. /\ f[p] = Plain(sending[p].count, sending[p].marks, c)
          /\ g[p] = Plain(new.count, new.marks, c)
        BY <1>1, <2>1
    <2>4. Total(PlainPosts(c), Posts)' = Total(g, Posts)
        OBVIOUS
    <2> HIDE DEF f, g
    <2>5. \E rest \in Nat : Total(f, Posts) = f[p] + rest /\ Total(g, Posts) = g[p] + rest
        BY <2>1, <2>2, SendersAssumption, TotalChange
    <2> QED
        BY <2>3, <2>4, <2>5 DEF f, Swapped
<1> QED
    BY <1>1, <1>3, <1>4

-----------------------------------------------------------------------------
(* Senders: steps, as far as the counts are concerned.                      *)

\* The accounts after a step, written out.
LEMMA Primes ==
    /\ \A r : Held(r)' = InRoute(stored', r) + (InRoute(window', r) + Total(RoutePosts(r), Posts)')
    /\ \A c : Claimed(c)' = stored'[c] + Plain(window', overflow', c) + Total(PlainPosts(c), Posts)'
BY DEF Held, Pending, RoutePosts, Claimed

\* What a post said is in the rows now.
LEMMA StoreKeeps ==
    ASSUME Shape, MarksInv, NEW p \in Posts, StoreRows(p), End(p), UNCHANGED <<window, overflow>>
    PROVE  /\ \A r \in Routes : Held(r)' = Held(r)
           /\ \A c \in Routes \X Ips : Claimed(c)' = Claimed(c)
<1>1. Nothing \in Post /\ sending' = [sending EXCEPT ![p] = Nothing]
    BY EmptyIs DEF Post, End
<1>2. ASSUME NEW r \in Routes PROVE Held(r)' = Held(r)
    <2>1. PICK rest \in Nat :
              /\ Total(RoutePosts(r), Posts) = InRoute(sending[p].count, r) + rest
              /\ Total(RoutePosts(r), Posts)' = InRoute(Nothing.count, r) + rest
        <3>1. Swapped(Total(RoutePosts(r), Posts), InRoute(sending[p].count, r),
                      Total(RoutePosts(r), Posts)', InRoute(Nothing.count, r))
            BY <1>1, PostChanges
        <3> QED
            BY <3>1 DEF Swapped
    <2>2. InRoute(Nothing.count, r) = 0
        BY SendersFinite, EmptyIs, InRouteZero DEF Empty
    <2>3. InRoute(stored', r) = InRoute(stored, r) + InRoute(sending[p].count, r)
        BY StoreAdds
    <2>4. InRoute(window', r) = InRoute(window, r)
        OBVIOUS
    <2> DEFINE a == InRoute(stored, r)
               b == InRoute(window, r)
               d == InRoute(sending[p].count, r)
    <2>5. a \in Nat /\ b \in Nat /\ d \in Nat
        BY HeldTypes
    <2>6. Held(r) = a + (b + (d + rest))
        BY <2>1, HeldTypes
    <2>7. Held(r)' = (a + d) + (b + (0 + rest))
        BY <2>1, <2>2, <2>3, <2>4, Primes
    <2> HIDE DEF a, b, d
    <2>8. (a + d) + (b + (0 + rest)) = a + (b + (d + rest))
        BY <2>5
    <2> QED
        BY <2>6, <2>7, <2>8
<1>3. ASSUME NEW c \in Routes \X Ips PROVE Claimed(c)' = Claimed(c)
    <2>1. c \in Cells
        BY Addresses
    <2>2. PICK rest \in Nat :
              /\ Total(PlainPosts(c), Posts) = Plain(sending[p].count, sending[p].marks, c) + rest
              /\ Total(PlainPosts(c), Posts)' = Plain(Nothing.count, Nothing.marks, c) + rest
        <3>1. Swapped(Total(PlainPosts(c), Posts), Plain(sending[p].count, sending[p].marks, c),
                      Total(PlainPosts(c), Posts)', Plain(Nothing.count, Nothing.marks, c))
            BY <1>1, <2>1, PostChanges
        <3> QED
            BY <3>1 DEF Swapped
    <2>3. Plain(Nothing.count, Nothing.marks, c) = 0
        BY <2>1, EmptyIs DEF Plain
    <2>4. stored'[c] = stored[c] + Plain(sending[p].count, sending[p].marks, c)
        BY StoreAdds
    <2>5. Plain(window', overflow', c) = Plain(window, overflow, c)
        OBVIOUS
    <2> DEFINE a == stored[c]
               b == Plain(window, overflow, c)
               d == Plain(sending[p].count, sending[p].marks, c)
    <2>6. a \in Nat /\ b \in Nat /\ d \in Nat
        BY <2>1, HeldTypes
    <2>7. Claimed(c) = (a + b) + (d + rest)
        BY <2>2 DEF Claimed
    <2>8. Claimed(c)' = ((a + d) + b) + (0 + rest)
        BY <2>2, <2>3, <2>4, <2>5, Primes
    <2> HIDE DEF a, b, d
    <2>9. ((a + d) + b) + (0 + rest) = (a + b) + (d + rest)
        BY <2>6
    <2> QED
        BY <2>7, <2>8, <2>9
<1> QED
    BY <1>2, <1>3

\* A post takes the place of one that carried no less; what is in the window stays,
\* or is what the new post carries and more.
LEMMA PostKeeps ==
    ASSUME Shape, NEW p \in Posts, NEW new \in Post, sending' = [sending EXCEPT ![p] = new],
           window' \in [Cells -> Nat], UNCHANGED stored,
           \A r \in Routes : InRoute(window', r) + InRoute(new.count, r)
                                 <= InRoute(window, r) + InRoute(sending[p].count, r),
           \A c \in Routes \X Ips : Plain(window', overflow', c) + Plain(new.count, new.marks, c)
                <= Plain(window, overflow, c) + Plain(sending[p].count, sending[p].marks, c)
    PROVE  /\ \A r \in Routes : Held(r)' <= Held(r)
           /\ \A r \in Routes : InRoute(window', r) + InRoute(new.count, r)
                                 = InRoute(window, r) + InRoute(sending[p].count, r)
                                => Held(r)' = Held(r)
           /\ \A c \in Routes \X Ips : Claimed(c)' <= Claimed(c)
<1>1. new.count \in [Cells -> Nat]
    BY DEF Post
<1>2. ASSUME NEW r \in Routes
      PROVE  /\ Held(r)' <= Held(r)
             /\ InRoute(window', r) + InRoute(new.count, r)
                    = InRoute(window, r) + InRoute(sending[p].count, r) => Held(r)' = Held(r)
    <2>1. PICK rest \in Nat :
              /\ Total(RoutePosts(r), Posts) = InRoute(sending[p].count, r) + rest
              /\ Total(RoutePosts(r), Posts)' = InRoute(new.count, r) + rest
        <3>1. Swapped(Total(RoutePosts(r), Posts), InRoute(sending[p].count, r),
                      Total(RoutePosts(r), Posts)', InRoute(new.count, r))
            BY PostChanges
        <3> QED
            BY <3>1 DEF Swapped
    <2> DEFINE a == InRoute(stored, r)
               b == InRoute(window, r)
               d == InRoute(sending[p].count, r)
               k == InRoute(window', r)
               l == InRoute(new.count, r)
    <2>2. a \in Nat /\ b \in Nat /\ d \in Nat
        BY HeldTypes
    <2>3. k \in Nat /\ l \in Nat
        BY <1>1, SendersFinite, InRouteNat
    <2>4. Held(r) = a + (b + (d + rest))
        BY <2>1, HeldTypes
    <2>5. Held(r)' = a + (k + (l + rest))
        BY <2>1, Primes
    <2>6. k + l <= b + d
        OBVIOUS
    <2> HIDE DEF a, b, d, k, l
    <2>7. /\ a + (k + (l + rest)) <= a + (b + (d + rest))
          /\ k + l = b + d => a + (k + (l + rest)) = a + (b + (d + rest))
        BY <2>2, <2>3, <2>6
    <2>8. Held(r)' <= Held(r) /\ (k + l = b + d => Held(r)' = Held(r))
        BY <2>4, <2>5, <2>7
    <2> QED
        BY <2>8 DEF a, b, d, k, l
<1>3. ASSUME NEW c \in Routes \X Ips PROVE Claimed(c)' <= Claimed(c)
    <2>1. c \in Cells
        BY Addresses
    <2>2. PICK rest \in Nat :
              /\ Total(PlainPosts(c), Posts) = Plain(sending[p].count, sending[p].marks, c) + rest
              /\ Total(PlainPosts(c), Posts)' = Plain(new.count, new.marks, c) + rest
        <3>1. Swapped(Total(PlainPosts(c), Posts), Plain(sending[p].count, sending[p].marks, c),
                      Total(PlainPosts(c), Posts)', Plain(new.count, new.marks, c))
            BY <2>1, PostChanges
        <3> QED
            BY <3>1 DEF Swapped
    <2> DEFINE a == stored[c]
               b == Plain(window, overflow, c)
               d == Plain(sending[p].count, sending[p].marks, c)
               k == Plain(window', overflow', c)
               l == Plain(new.count, new.marks, c)
    <2>3. a \in Nat /\ b \in Nat /\ d \in Nat
        BY <2>1, HeldTypes
    <2>4. k \in Nat /\ l \in Nat
        BY <1>1, <2>1 DEF Plain
    <2>5. Claimed(c) = (a + b) + (d + rest)
        BY <2>2 DEF Claimed
    <2>6. Claimed(c)' = (a + k) + (l + rest)
        BY <2>2, Primes
    <2>7. k + l <= b + d
        OBVIOUS
    <2> HIDE DEF a, b, d, k, l
    <2>8. (a + k) + (l + rest) <= (a + b) + (d + rest)
        BY <2>3, <2>4, <2>7
    <2> QED
        BY <2>5, <2>6, <2>8
<1> QED
    BY <1>2, <1>3

\* A request is counted in a cell of its route: its own, or a marked one.
LEMMA RecordIs ==
    ASSUME NEW r \in Routes, NEW ip \in Ips, Record(r, ip)
    PROVE  /\ <<r, ip>> \in Routes \X Ips /\ <<r, ip>>[1] = r
           /\ \E cell \in Cells :
                  /\ cell[1] = r
                  /\ window' = [window EXCEPT ![cell] = @ + 1]
                  /\ \/ overflow' = overflow \cup {cell} /\ cell[2] = OverAddress
                     \/ /\ overflow' = overflow /\ cell = <<r, ip>>
                        /\ window[cell] # 0 \/ ~(Cardinality(Used(window)) >= MaxKeys)
<1>1. OverflowCell(r, ip) \in Cells /\ OverflowCell(r, ip)[1] = r /\ OverflowCell(r, ip)[2] = OverAddress
    BY OverflowCellIs
<1>2. <<r, ip>> \in Cells
    BY DEF Cells
<1>3. CASE window[<<r, ip>>] = 0 /\ Cardinality(Used(window)) >= MaxKeys
    BY <1>1, <1>3 DEF Record
<1>4. CASE ~(window[<<r, ip>>] = 0 /\ Cardinality(Used(window)) >= MaxKeys)
    BY <1>2, <1>4 DEF Record
<1> QED
    BY <1>3, <1>4

\* The cell that is counted in is in use.
LEMMA UsedOneMore ==
    ASSUME NEW n \in [Cells -> Nat], NEW c \in Cells, NEW m, m = [n EXCEPT ![c] = @ + 1]
    PROVE  Used(m) = Used(n) \cup {c}
BY DEF Used

\* A request counted keeps the accounts: one more made, one more held.
LEMMA RecordKeeps ==
    ASSUME Shape, MarksInv, KeysInv, HonestInv, HeldInv, LossInv,
           NEW r \in Routes, NEW ip \in Ips, Record(r, ip)
    PROVE  Shape' /\ MarksInv' /\ KeysInv' /\ HonestInv' /\ HeldInv' /\ LossInv'
<1>1. /\ Total(made, DOMAIN made) < MaxMade /\ made' = [made EXCEPT ![<<r, ip>>] = @ + 1]
      /\ UNCHANGED <<sdk, sending, failures, open, cut, stored, owed, revenue, deliveries, faults>>
    BY DEF Record, breaker, money
<1>2. PICK cell \in Cells :
          /\ cell[1] = r
          /\ window' = [window EXCEPT ![cell] = @ + 1]
          /\ \/ overflow' = overflow \cup {cell} /\ cell[2] = OverAddress
             \/ /\ overflow' = overflow /\ cell = <<r, ip>>
                /\ window[cell] # 0 \/ ~(Cardinality(Used(window)) >= MaxKeys)
    BY RecordIs
<1>3. <<r, ip>> \in Routes \X Ips /\ <<r, ip>>[1] = r /\ <<r, ip>>[2] = ip
    OBVIOUS
<1>4. made \in [Routes \X Ips -> Nat] /\ window \in [Cells -> Nat] /\ MaxMade \in Nat
    BY SendersAssumption DEF Shape
<1>5. /\ made' \in [Routes \X Ips -> Nat]
      /\ Total(made', Routes \X Ips) = Total(made, Routes \X Ips) + 1
      /\ \A q : InRoute(made', q) = IF q = r THEN InRoute(made, q) + 1 ELSE InRoute(made, q)
    <2>1. OneMoreIn(made', made, <<r, ip>>)
        BY <1>1 DEF OneMoreIn
    <2> QED
        BY <1>3, <1>4, <2>1, SendersFinite, OneMore
<1>6. /\ window' \in [Cells -> Nat]
      /\ \A q : InRoute(window', q) = IF q = r THEN InRoute(window, q) + 1 ELSE InRoute(window, q)
    <2>1. OneMoreIn(window', window, cell)
        BY <1>2 DEF OneMoreIn
    <2>2. IsFiniteSet(Cells)
        BY SendersFinite
    <2> QED
        BY <1>2, <1>4, <2>1, <2>2, OneMore
<1>7. Used(window') = Used(window) \cup {cell}
    BY <1>2, <1>4, UsedOneMore
<1>8. Shape'
    <2>1. DOMAIN made = Routes \X Ips /\ DOMAIN made' = Routes \X Ips
        BY <1>4, <1>5
    <2>2. Total(made, Routes \X Ips) \in Nat
        BY <1>4, SendersFinite, TotalNat
    <2>3. Total(made', DOMAIN made') <= MaxMade
        BY <1>1, <1>4, <1>5, <2>1, <2>2
    <2>4. overflow' \subseteq Cells
        BY <1>2 DEF Shape
    <2> QED
        BY <1>1, <1>5, <1>6, <2>3, <2>4 DEF Shape
<1>9. MarksInv'
    <2>1. OverAddress' = OverAddress
        BY <1>1 DEF OverAddress
    <2>2. Marked(window, overflow)'
        <3>1. cell[2] = Over => cell \in overflow'
            BY <1>2, <1>3, Addresses
        <3> QED
            BY <1>2, <1>7, <2>1, <3>1 DEF MarksInv, Marked
    <2>3. \A p \in Posts : Marked(sending[p].count, sending[p].marks)'
        BY <1>1, <2>1 DEF MarksInv, Marked, Used
    <2> QED
        BY <2>2, <2>3 DEF MarksInv
<1>10. KeysInv'
    <2>1. MaxKeys \in Nat
        BY SendersAssumption
    <2>2. Used(window) \subseteq Cells /\ IsFiniteSet(Cells)
        BY SendersFinite DEF Used
    <2>3. IsFiniteSet(Used(window)) /\ IsFiniteSet(Used(window) \ overflow)
        BY <2>2, FS_Subset
    <2>4. CASE Used(window') \ overflow' \subseteq Used(window) \ overflow
        <3>1. Cardinality(Used(window') \ overflow') <= Cardinality(Used(window) \ overflow)
            BY <2>3, <2>4, FS_Subset
        <3>2. IsFiniteSet(Used(window') \ overflow')
            BY <2>3, <2>4, FS_Subset
        <3>3. /\ Cardinality(Used(window') \ overflow') \in Nat
              /\ Cardinality(Used(window) \ overflow) \in Nat
            BY <2>3, <3>2, FS_CardinalityType
        <3> QED
            BY <2>1, <3>1, <3>3 DEF KeysInv
    <2>5. CASE ~(Cardinality(Used(window)) >= MaxKeys) /\ overflow' = overflow
        <3> DEFINE U == Used(window) \cup {cell}
        <3>1. IsFiniteSet(U) /\ Cardinality(U) <= Cardinality(Used(window)) + 1
            <4>1. Cardinality(Used(window)) \in Nat
                BY <2>3, FS_CardinalityType
            <4>2. /\ IsFiniteSet(U)
                  /\ Cardinality(U) = IF cell \in Used(window) THEN Cardinality(Used(window))
                                                               ELSE Cardinality(Used(window)) + 1
                BY ONLY <2>3, FS_AddElement
            <4> HIDE DEF U
            <4> QED
                BY <4>1, <4>2
        <3>2. Used(window') \ overflow' \subseteq U
            BY <1>7
        <3>3. Cardinality(Used(window') \ overflow') <= Cardinality(U)
            BY <3>1, <3>2, FS_Subset
        <3>4. IsFiniteSet(Used(window') \ overflow')
            BY <3>1, <3>2, FS_Subset
        <3>5. /\ Cardinality(Used(window') \ overflow') \in Nat /\ Cardinality(U) \in Nat
              /\ Cardinality(Used(window)) \in Nat
            BY <2>3, <3>1, <3>4, FS_CardinalityType
        <3> HIDE DEF U
        <3> QED
            BY <2>1, <2>5, <3>1, <3>3, <3>5 DEF KeysInv
    <2>6. window[cell] # 0 => cell \in Used(window)
        BY <1>4 DEF Used
    <2> QED
        BY <1>2, <1>7, <2>4, <2>5, <2>6
<1>11. HonestInv'
    <2> SUFFICES ASSUME NEW c \in Routes \X Ips PROVE Claimed(c)' <= made'[c]
        BY DEF HonestInv
    <2>1. c \in Cells
        BY Addresses
    <2> DEFINE a == stored[c]
               b == Plain(window, overflow, c)
               d == Total(PlainPosts(c), Posts)
               k == Plain(window', overflow', c)
    <2>2. a \in Nat /\ b \in Nat /\ d \in Nat /\ made[c] \in Nat
        BY HeldTypes
    <2>3. k \in Nat /\ made'[c] \in Nat
        BY <1>5, <1>6, <2>1 DEF Plain
    <2>4. Claimed(c) = a + b + d /\ Claimed(c)' = a + k + d /\ a + b + d <= made[c]
        BY <1>1, Primes DEF Claimed, PlainPosts, HonestInv
    <2>5. \/ k <= b /\ made[c] <= made'[c]
          \/ k = b + 1 /\ made'[c] = made[c] + 1
        <3>1. CASE c # cell \/ c \in overflow'
            <4>1. k <= b
                BY <1>2, <1>4, <2>1, <3>1 DEF Plain
            <4>2. made[c] <= made'[c]
                BY <1>1, <1>3, <1>4
            <4> QED
                BY <4>1, <4>2
        <3>2. CASE c = cell /\ c \notin overflow'
            <4>1. c = <<r, ip>> /\ overflow' = overflow
                BY <1>2, <3>2
            <4>2. k = b + 1
                BY <1>2, <1>4, <2>1, <3>2, <4>1 DEF Plain
            <4>3. made'[c] = made[c] + 1
                BY <1>1, <1>3, <1>4, <4>1
            <4> QED
                BY <4>2, <4>3
        <3> QED
            BY <3>1, <3>2
    <2> DEFINE m == made[c]
               w == made'[c]
    <2> HIDE DEF a, b, d, k, m, w
    <2>6. m \in Nat /\ w \in Nat /\ a + b + d <= m
        BY <2>2, <2>3, <2>4 DEF m, w
    <2>7. a + k + d <= w
        <3>1. \/ k <= b /\ m <= w
              \/ k = b + 1 /\ w = m + 1
            BY <2>5 DEF m, w
        <3> QED
            BY <2>2, <2>3, <2>6, <3>1
    <2> QED
        BY <2>4, <2>7 DEF w
<1>12. ASSUME NEW q \in Routes
       PROVE  /\ Held(q) <= InRoute(made, q) => Held(q)' <= InRoute(made', q)
              /\ Held(q) = InRoute(made, q) => Held(q)' = InRoute(made', q)
    <2> DEFINE a == InRoute(stored, q)
               b == InRoute(window, q)
               d == Total(RoutePosts(q), Posts)
               m == InRoute(made, q)
               k == InRoute(window', q)
               w == InRoute(made', q)
    <2>1. a \in Nat /\ b \in Nat /\ d \in Nat /\ m \in Nat
        BY HeldTypes
    <2>2. Held(q) = a + (b + d) /\ Held(q)' = a + (k + d)
        BY <1>1, HeldTypes, Primes DEF RoutePosts
    <2>3. \/ k = b /\ w = m
          \/ k = b + 1 /\ w = m + 1
        BY <1>5, <1>6
    <2> HIDE DEF a, b, d, m, k, w
    <2>4. /\ a + (b + d) <= m => a + (k + d) <= w
          /\ a + (b + d) = m => a + (k + d) = w
        BY <2>1, <2>3
    <2> QED
        BY <2>2, <2>4 DEF m, w
<1>13. HeldInv'
    BY <1>12 DEF HeldInv
<1>14. LossInv'
    BY <1>1, <1>12 DEF LossInv
<1> QED
    BY <1>8, <1>9, <1>10, <1>11, <1>13, <1>14

CountsAreNat ==
    /\ \A r \in Routes : Held(r) \in Nat
    /\ \A c \in Routes \X Ips : Claimed(c) \in Nat

\* The accounts of a state are natural numbers.
LEMMA CountsNat == Shape => CountsAreNat
BY HeldTypes DEF Claimed, CountsAreNat

\* And those of the next one.
LEMMA CountsNatNext == Shape' => CountsAreNat'
BY CountsNat, PTL

\* Nothing that is counted comes to more than it did.
LEMMA CountsKeep ==
    ASSUME Counts, Shape, UNCHANGED made,
           \A r \in Routes : Held(r)' <= Held(r), CountsAreNat',
           \A c \in Routes \X Ips : Claimed(c)' <= Claimed(c)
    PROVE  HonestInv' /\ HeldInv'
<1>1. ASSUME NEW r \in Routes PROVE (Held(r) <= InRoute(made, r))'
    <2> DEFINE a == Held(r)
               b == Held(r)'
               m == InRoute(made, r)
    <2>1. a \in Nat /\ m \in Nat /\ b \in Nat /\ b <= a /\ a <= m
        BY HeldTypes DEF Counts, HeldInv, CountsAreNat
    <2> HIDE DEF a, b, m
    <2>2. b <= m
        BY <2>1
    <2>3. InRoute(made, r)' = InRoute(made, r)
        OBVIOUS
    <2> QED
        BY <2>2, <2>3 DEF b, m
<1>2. ASSUME NEW c \in Routes \X Ips PROVE (Claimed(c) <= made[c])'
    <2> DEFINE a == Claimed(c)
               b == Claimed(c)'
               m == made[c]
    <2>1. a \in Nat /\ m \in Nat /\ b \in Nat /\ b <= a /\ a <= m
        BY HeldTypes DEF Counts, HonestInv, Claimed, CountsAreNat
    <2> HIDE DEF a, b, m
    <2>2. b <= m
        BY <2>1
    <2> QED
        BY <2>2 DEF b, m
<1> QED
    BY <1>1, <1>2 DEF HeldInv, HonestInv

\* What is left of the window when it is drained.
LEMMA DrainedIs ==
    ASSUME Shape, Drained
    PROVE  /\ window' \in [Cells -> Nat] /\ overflow' \subseteq Cells
           /\ Used(window') = {} /\ Cardinality(Used(window') \ overflow') <= MaxKeys
           /\ \A r : InRoute(window', r) = 0
           /\ \A c \in Cells : Plain(window', overflow', c) = 0
<1>1. window' = Empty /\ overflow' = {}
    BY DEF Drained
<1>2. \A r : InRoute(Empty, r) = 0
    BY SendersFinite, InRouteZero DEF Empty
<1>3. MaxKeys \in Nat /\ Cardinality({}) = 0
    BY SendersAssumption, FS_EmptySet
<1> QED
    BY <1>1, <1>2, <1>3, EmptyIs DEF Plain

\* The window is dropped.
LEMMA DrainKeeps ==
    ASSUME Shape, Counts, Shape', Drained, UNCHANGED <<sdk, made, sending, stored>>
    PROVE  Counts'
<1>1. MarksInv'
    BY DrainedIs DEF Counts, MarksInv, Marked, OverAddress, Used, Drained
<1>2. KeysInv'
    BY DrainedIs DEF KeysInv
<1>3. ASSUME NEW r \in Routes PROVE Held(r)' <= Held(r)
    <2> DEFINE a == InRoute(stored, r)
               b == InRoute(window, r)
               d == Total(RoutePosts(r), Posts)
    <2>1. a \in Nat /\ b \in Nat /\ d \in Nat
        BY HeldTypes
    <2>2. Held(r) = a + (b + d) /\ Held(r)' = a + (0 + d)
        BY HeldTypes, Primes, DrainedIs DEF RoutePosts
    <2> HIDE DEF a, b, d
    <2> QED
        BY <2>1, <2>2
<1>4. ASSUME NEW c \in Routes \X Ips PROVE Claimed(c)' <= Claimed(c)
    <2> DEFINE a == stored[c]
               b == Plain(window, overflow, c)
               d == Total(PlainPosts(c), Posts)
    <2>1. a \in Nat /\ b \in Nat /\ d \in Nat
        BY HeldTypes
    <2>2. Claimed(c) = (a + b) + d /\ Claimed(c)' = (a + 0) + d
        BY Addresses, Primes, DrainedIs DEF Claimed, PlainPosts
    <2> HIDE DEF a, b, d
    <2> QED
        BY <2>1, <2>2
<1>5. HonestInv' /\ HeldInv'
    BY <1>3, <1>4, CountsKeep, CountsNatNext
<1> QED
    BY <1>1, <1>2, <1>5 DEF Counts

\* The window is sent, or what fits of it.
LEMMA FlushKeeps ==
    ASSUME Shape, Counts, NEW p \in Posts, Flush(p)
    PROVE  /\ Shape' /\ Counts'
           /\ ~cut' => ~cut /\ \A r \in Routes : Held(r)' = Held(r)
<1>1. PICK cells \in Sent :
          /\ sending' = [sending EXCEPT ![p] =
                 [count |-> [c \in Cells |-> IF c \in cells THEN window[c] ELSE 0],
                  marks |-> overflow \cap cells]]
          /\ cut' = (cut \/ cells # Used(window))
    BY DEF Flush
<1> DEFINE n   == [c \in Cells |-> IF c \in cells THEN window[c] ELSE 0]
           new == [count |-> n, marks |-> overflow \cap cells]
<1>2. cells \subseteq Used(window) /\ window \in [Cells -> Nat] /\ overflow \subseteq Used(window)
    BY DEF Sent, kSubset, Shape, Counts, MarksInv, Marked
<1>3. /\ n \in [Cells -> Nat] /\ Used(n) = cells /\ \A c \in Cells : n[c] <= window[c]
      /\ cells = Used(window) => n = window
    BY <1>2 DEF Used
<1>4. new \in Post /\ new.count = n /\ new.marks = overflow \cap cells
    BY <1>2, <1>3 DEF Post, Used
<1>5. sending[p] = Nothing /\ Drained /\ UNCHANGED <<sdk, made, failures, open, stored, owed,
                                                      revenue, deliveries, faults>>
    BY DEF Flush, IsIdle, breaker, money
<1> HIDE DEF n
<1>6. sending' = [sending EXCEPT ![p] = new] /\ cut' \in BOOLEAN
    BY <1>1 DEF n
<1> HIDE DEF new
<1>7. /\ sending' \in [Posts -> Post] /\ sending'[p] = new
      /\ \A q \in Posts \ {p} : sending'[q] = sending[q]
    BY <1>4, <1>6 DEF Shape, Post
<1>8. window' \in [Cells -> Nat] /\ overflow' \subseteq Cells
    BY <1>5, DrainedIs
<1>9. Shape'
    BY <1>5, <1>6, <1>7, <1>8 DEF Shape, Post
<1>10. MarksInv'
    <2>1. OverAddress' = OverAddress
        BY <1>5 DEF OverAddress
    <2>2. Marked(window, overflow)'
        BY <1>5, DrainedIs DEF Marked, Drained
    <2>3. Marked(new.count, new.marks)
        BY <1>2, <1>3, <1>4 DEF Counts, MarksInv, Marked
    <2>4. \A q \in Posts : Marked(sending[q].count, sending[q].marks)'
        BY <1>7, <2>1, <2>3 DEF Counts, MarksInv, Marked, Used
    <2> QED
        BY <2>2, <2>4 DEF MarksInv
<1>11. KeysInv'
    BY <1>5, DrainedIs DEF KeysInv
<1>12. ASSUME NEW r \in Routes
       PROVE  /\ InRoute(window', r) + InRoute(new.count, r)
                     <= InRoute(window, r) + InRoute(sending[p].count, r)
              /\ cells = Used(window) => InRoute(window', r) + InRoute(new.count, r)
                     = InRoute(window, r) + InRoute(sending[p].count, r)
    <2>1. InRoute(window', r) = 0 /\ InRoute(sending[p].count, r) = 0
        <3>1. InRoute(Empty, r) = 0
            BY SendersFinite, InRouteZero DEF Empty
        <3> QED
            BY <1>5, <3>1, DrainedIs, EmptyIs
    <2>2. InRoute(new.count, r) <= InRoute(window, r)
        <3> DEFINE S == {c \in Cells : c[1] = r}
        <3>1. IsFiniteSet(S) /\ \A c \in S : n[c] \in Nat /\ window[c] \in Nat /\ n[c] <= window[c]
            BY <1>2, <1>3, SendersFinite, FS_Subset
        <3>2. InRoute(n, r) = Total(n, S) /\ InRoute(window, r) = Total(window, S)
            BY <1>2, <1>3 DEF InRoute
        <3> HIDE DEF S
        <3> QED
            BY <1>4, <3>1, <3>2, TotalLess
    <2>3. InRoute(new.count, r) \in Nat /\ InRoute(window, r) \in Nat
        BY <1>2, <1>3, <1>4, SendersFinite, InRouteNat
    <2>4. cells = Used(window) => InRoute(new.count, r) = InRoute(window, r)
        BY <1>3, <1>4
    <2> QED
        BY <2>1, <2>2, <2>3, <2>4
<1>13. ASSUME NEW c \in Routes \X Ips
       PROVE  Plain(window', overflow', c) + Plain(new.count, new.marks, c)
                  <= Plain(window, overflow, c) + Plain(sending[p].count, sending[p].marks, c)
    <2>1. c \in Cells
        BY Addresses
    <2>2. Plain(window', overflow', c) = 0 /\ Plain(sending[p].count, sending[p].marks, c) = 0
        BY <1>5, <2>1, DrainedIs, EmptyIs DEF Plain
    <2>3. /\ Plain(new.count, new.marks, c) <= Plain(window, overflow, c)
          /\ Plain(new.count, new.marks, c) \in Nat /\ Plain(window, overflow, c) \in Nat
        <3>1. CASE c \in overflow
            <4>1. c \in cells => c \in new.marks
                BY <1>4, <3>1
            <4>2. c \notin cells => n[c] = 0
                BY <2>1 DEF n
            <4> QED
                BY <1>2, <1>3, <1>4, <2>1, <3>1, <4>1, <4>2 DEF Plain
        <3>2. CASE c \notin overflow
            BY <1>2, <1>3, <1>4, <2>1, <3>2 DEF Plain
        <3> QED
            BY <3>1, <3>2
    <2> QED
        BY <2>2, <2>3
<1>14. /\ \A r \in Routes : Held(r)' <= Held(r)
       /\ \A r \in Routes : InRoute(window', r) + InRoute(new.count, r)
                                 = InRoute(window, r) + InRoute(sending[p].count, r)
                                => Held(r)' = Held(r)
       /\ \A c \in Routes \X Ips : Claimed(c)' <= Claimed(c)
    BY <1>4, <1>5, <1>6, <1>8, <1>12, <1>13, PostKeeps
<1>15. HonestInv' /\ HeldInv'
    BY <1>5, <1>9, <1>14, CountsKeep, CountsNatNext
<1>16. ~cut' => ~cut /\ \A r \in Routes : Held(r)' = Held(r)
    BY <1>1, <1>12, <1>14
<1> QED
    BY <1>9, <1>10, <1>11, <1>15, <1>16 DEF Counts

\* A post is over, and its rows are stored or not.
LEMMA EndKeeps ==
    ASSUME Shape, Counts, NEW p \in Posts, End(p), StoreRows(p) \/ UNCHANGED stored,
           UNCHANGED <<sdk, made, window, overflow>>
    PROVE  /\ sending' \in [Posts -> Post] /\ stored' \in [Routes \X Countries -> Nat]
           /\ Shape' => Counts'
           /\ StoreRows(p) => \A r \in Routes : Held(r)' = Held(r)
<1>1. Nothing \in Post /\ sending' = [sending EXCEPT ![p] = Nothing] /\ MarksInv
    BY EmptyIs DEF Post, End, Counts
<1>2. /\ sending' \in [Posts -> Post] /\ sending'[p] = Nothing
      /\ \A q \in Posts \ {p} : sending'[q] = sending[q]
    BY <1>1 DEF Shape, Post
<1>3. stored' \in [Routes \X Countries -> Nat]
    BY <1>1, StoreAdds DEF Shape
<1>4. MarksInv' /\ KeysInv'
    <2>1. OverAddress' = OverAddress /\ Used(window)' = Used(window)
        BY DEF OverAddress, Used
    <2>2. Marked(window, overflow)' /\ KeysInv'
        BY <2>1 DEF Counts, MarksInv, Marked, KeysInv
    <2>3. ASSUME NEW q \in Posts PROVE Marked(sending[q].count, sending[q].marks)'
        <3>1. CASE q = p
            BY <1>2, <3>1, EmptyIs DEF Marked, Used
        <3>2. CASE q # p
            BY <1>1, <1>2, <2>1, <3>2 DEF MarksInv, Marked, Used
        <3> QED
            BY <3>1, <3>2
    <2> QED
        BY <2>2, <2>3 DEF MarksInv
<1>5. /\ \A r \in Routes : Held(r)' <= Held(r)
      /\ \A c \in Routes \X Ips : Claimed(c)' <= Claimed(c)
      /\ StoreRows(p) => \A r \in Routes : Held(r)' = Held(r)
    <2>1. CASE StoreRows(p)
        <3>1. /\ \A r \in Routes : Held(r)' = Held(r)
              /\ \A c \in Routes \X Ips : Claimed(c)' = Claimed(c)
            BY <1>1, <2>1, StoreKeeps
        <3>2. /\ \A r \in Routes : Held(r) \in Nat
              /\ \A c \in Routes \X Ips : Claimed(c) \in Nat
            BY CountsNat DEF CountsAreNat
        <3> QED
            BY <3>1, <3>2
    <2>2. CASE ~StoreRows(p)
        <3>1. UNCHANGED stored /\ window' \in [Cells -> Nat]
            BY <2>2 DEF Shape
        <3>2. ASSUME NEW r \in Routes
              PROVE  InRoute(window', r) + InRoute(Nothing.count, r)
                         <= InRoute(window, r) + InRoute(sending[p].count, r)
            <4>1. InRoute(Nothing.count, r) = 0
                BY SendersFinite, EmptyIs, InRouteZero DEF Empty
            <4>2. InRoute(window, r) \in Nat /\ InRoute(sending[p].count, r) \in Nat
                BY HeldTypes
            <4> QED
                BY <4>1, <4>2
        <3>3. ASSUME NEW c \in Routes \X Ips
              PROVE  Plain(window', overflow', c) + Plain(Nothing.count, Nothing.marks, c)
                         <= Plain(window, overflow, c) + Plain(sending[p].count, sending[p].marks, c)
            <4>1. c \in Cells /\ Plain(Nothing.count, Nothing.marks, c) = 0
                BY Addresses, EmptyIs DEF Plain
            <4>2. /\ Plain(window, overflow, c) \in Nat
                  /\ Plain(sending[p].count, sending[p].marks, c) \in Nat
                BY <4>1, HeldTypes
            <4> QED
                BY <4>1, <4>2
        <3> QED
            BY <1>1, <2>2, <3>1, <3>2, <3>3, PostKeeps
    <2> QED
        BY <2>1, <2>2
<1>6. Shape' => HonestInv' /\ HeldInv'
    BY <1>5, CountsKeep, CountsNatNext
<1> QED
    BY <1>2, <1>3, <1>4, <1>5, <1>6 DEF Counts

-----------------------------------------------------------------------------
(* Senders: the invariant.                                                  *)

\* At first nothing is counted anywhere.
LEMMA SendersInvInit == SendersInit => SendersIInv
<1> SUFFICES ASSUME SendersInit PROVE SendersIInv
    OBVIOUS
<1>1. /\ sdk \in {"python", "node"} /\ made = [x \in Routes \X Ips |-> 0]
      /\ window = Empty /\ overflow = {} /\ sending = [p \in Posts |-> Nothing]
      /\ failures = 0 /\ open = FALSE /\ cut = FALSE
      /\ stored = [x \in Routes \X Countries |-> 0]
      /\ owed = Charges /\ revenue = {} /\ deliveries = 0 /\ faults = 0
    BY DEF SendersInit
<1>2. Threshold \in Nat \ {0} /\ MaxMade \in Nat /\ MaxFaults \in Nat /\ MaxKeys \in Nat
    BY SendersAssumption
<1>3. Total(made, DOMAIN made) = 0
    <2>1. DOMAIN made = Routes \X Ips /\ \A x \in Routes \X Ips : made[x] = 0
        BY <1>1
    <2> QED
        BY <2>1, SendersFinite, TotalZero
<1>4. Shape
    <2>1. 0 \in 0..(Threshold - 1) /\ 0 \in 0..MaxFaults /\ 0 <= MaxMade
        BY <1>2
    <2>2. /\ made \in [Routes \X Ips -> Nat] /\ window \in [Cells -> Nat]
          /\ stored \in [Routes \X Countries -> Nat]
        BY <1>1, EmptyIs
    <2>3. sending \in [Posts -> [count : [Cells -> Nat], marks : SUBSET Cells]]
        BY <1>1, EmptyIs
    <2>4. Total(made, DOMAIN made) <= MaxMade
        BY <1>3, <2>1
    <2>5. revenue \subseteq Charges \X (1..deliveries)
        BY <1>1
    <2> QED
        BY <1>1, <2>1, <2>2, <2>3, <2>4, <2>5 DEF Shape
<1>5. MarksInv
    BY <1>1, EmptyIs DEF MarksInv, Marked
<1>6. KeysInv
    <2>1. Used(window) \ overflow = {}
        BY <1>1, EmptyIs
    <2> QED
        BY <1>2, <2>1, FS_EmptySet DEF KeysInv
<1>7. ASSUME NEW r \in Routes PROVE Held(r) = 0 /\ InRoute(made, r) = 0
    <2>1. InRoute(Empty, r) = 0
        BY SendersFinite, InRouteZero DEF Empty
    <2>2. InRoute(stored, r) = 0 /\ InRoute(made, r) = 0
        <3>1. /\ DOMAIN stored = Routes \X Countries /\ DOMAIN made = Routes \X Ips
              /\ \A x \in Routes \X Countries : stored[x] = 0
              /\ \A x \in Routes \X Ips : made[x] = 0
            BY <1>1
        <3> QED
            BY <3>1, SendersFinite, InRouteZero
    <2>3. Total(RoutePosts(r), Posts) = 0
        <3>1. \A p \in Posts : RoutePosts(r)[p] = 0
            BY <1>1, <2>1, EmptyIs DEF RoutePosts
        <3> QED
            BY <3>1, SendersAssumption, TotalZero
    <2> QED
        BY <1>1, <1>4, <2>1, <2>2, <2>3, HeldTypes
<1>8. ASSUME NEW c \in Routes \X Ips PROVE Claimed(c) = 0
    <2>1. Total(PlainPosts(c), Posts) = 0
        <3>1. \A p \in Posts : PlainPosts(c)[p] = 0
            BY <1>1, Addresses, EmptyIs DEF PlainPosts, Plain
        <3> QED
            BY <3>1, SendersAssumption, TotalZero
    <2>2. stored[c] = 0 /\ Plain(window, overflow, c) = 0
        BY <1>1, Addresses, EmptyIs DEF Plain
    <2> QED
        BY <2>1, <2>2 DEF Claimed
<1>9. HonestInv
    BY <1>1, <1>8 DEF HonestInv
<1> QED
    BY <1>1, <1>4, <1>5, <1>6, <1>7, <1>9 DEF SendersIInv, Counts, HeldInv, LossInv, BreakerInv

\* An answer or a failure leaves the breaker below its threshold.
LEMMA BreakerTypes ==
    ASSUME Shape, Success \/ Failure
    PROVE  failures' \in 0..(Threshold - 1) /\ open' \in BOOLEAN
<1>1. Threshold \in Nat \ {0} /\ failures \in 0..(Threshold - 1) /\ open \in BOOLEAN
    BY SendersAssumption DEF Shape
<1>2. Threshold \in Nat /\ Threshold >= 1 /\ failures \in Nat /\ failures <= Threshold - 1
    BY <1>1
<1>3. CASE Success
    BY <1>1, <1>2, <1>3 DEF Success
<1>4. CASE Failure
    <2>1. CASE failures + 1 >= Threshold
        BY <1>1, <1>2, <1>4, <2>1 DEF Failure
    <2>2. CASE ~(failures + 1 >= Threshold)
        <3>1. failures' = failures + 1 /\ open' = open
            BY <1>4, <2>2 DEF Failure
        <3>2. failures + 1 \in 0..(Threshold - 1)
            BY <1>2, <2>2
        <3> QED
            BY <1>1, <3>1, <3>2
    <2> QED
        BY <2>1, <2>2
<1> QED
    BY <1>3, <1>4

\* A fault is on record.
LEMMA FaultIs ==
    ASSUME Shape, Fault
    PROVE  faults' \in 0..MaxFaults /\ faults' # 0 /\ faults' > 0
<1>1. MaxFaults \in Nat /\ faults \in 0..MaxFaults
    BY SendersAssumption DEF Shape
<1> QED
    BY <1>1 DEF Fault

\* Every step keeps the accounts.
LEMMA SendersInvNext == SendersIInv /\ [SendersNext]_sendersVars => SendersIInv'
<1> SUFFICES ASSUME SendersIInv, [SendersNext]_sendersVars PROVE SendersIInv'
    OBVIOUS
<1> USE DEF SendersIInv
<1>1. CASE UNCHANGED sendersVars
    BY <1>1 DEF sendersVars, memory, breaker, money, Shape, Counts, LossInv, BreakerInv, MarksInv,
                Marked, OverAddress, Used, KeysInv, HonestInv, HeldInv, Claimed, Plain, PlainPosts,
                Held, Pending, InRoute, Total
<1>2. ASSUME NEW r \in Routes, NEW ip \in Ips, Record(r, ip) PROVE SendersIInv'
    <2>1. Shape' /\ Counts' /\ LossInv'
        BY <1>2, RecordKeeps DEF Counts
    <2>2. BreakerInv'
        BY <1>2 DEF Record, breaker, BreakerInv
    <2> QED
        BY <2>1, <2>2
<1>3. ASSUME NEW p \in Posts, Flush(p) PROVE SendersIInv'
    <2>1. Shape' /\ Counts' /\ (~cut' => ~cut /\ \A r \in Routes : Held(r)' = Held(r))
        BY <1>3, FlushKeeps
    <2>2. LossInv'
        BY <1>3, <2>1 DEF LossInv, Flush, InRoute
    <2>3. cut \in BOOLEAN /\ (cut => cut')
        BY <1>3 DEF Flush, Shape
    <2>4. BreakerInv'
        BY <1>3, <2>3 DEF Flush, breaker, BreakerInv
    <2> QED
        BY <2>1, <2>2, <2>4
<1>4. CASE Skip
    <2>1. /\ open /\ Drained
          /\ UNCHANGED <<sdk, made, sending, failures, open, cut, stored, owed, revenue, deliveries, faults>>
        BY <1>4 DEF Skip, breaker, money
    <2>2. Shape'
        BY <2>1, DrainedIs DEF Shape
    <2>3. Counts'
        BY <2>1, <2>2, DrainKeeps
    <2>4. LossInv' /\ BreakerInv'
        BY <2>1 DEF BreakerInv, LossInv, Shape
    <2> QED
        BY <2>2, <2>3, <2>4
<1>5. CASE Cooldown
    <2>1. /\ open' = FALSE
          /\ UNCHANGED <<sdk, made, window, overflow, sending, failures, cut, stored, owed, revenue,
                         deliveries, faults>>
        BY <1>5 DEF Cooldown, memory, money
    <2> QED
        BY <2>1 DEF Shape, Counts, LossInv, BreakerInv, MarksInv, Marked, OverAddress, Used, KeysInv,
                    HonestInv, HeldInv, Claimed, Plain, PlainPosts, Held, Pending, InRoute, Total
<1>6. CASE Restart
    <2>1. /\ Fault /\ Drained /\ failures' = 0 /\ open' = FALSE
          /\ UNCHANGED <<sdk, made, sending, cut, stored, owed, revenue, deliveries>>
        BY <1>6 DEF Restart, money
    <2>2. faults' \in 0..MaxFaults /\ faults' # 0 /\ 0 \in 0..(Threshold - 1)
        BY <2>1, FaultIs, SendersAssumption
    <2>3. Shape'
        BY <2>1, <2>2, DrainedIs DEF Shape
    <2>4. Counts'
        BY <2>1, <2>3, DrainKeeps
    <2>5. LossInv' /\ BreakerInv'
        BY <2>1, <2>2 DEF BreakerInv, LossInv
    <2> QED
        BY <2>3, <2>4, <2>5
<1>7. ASSUME NEW p \in Posts, Accept(p) PROVE SendersIInv'
    <2>1. /\ StoreRows(p) /\ Success /\ End(p)
          /\ UNCHANGED <<sdk, made, window, overflow, cut, owed, revenue, deliveries, faults>>
        BY <1>7 DEF Accept, memory, money
    <2>2. /\ sending' \in [Posts -> Post] /\ stored' \in [Routes \X Countries -> Nat]
          /\ Shape' => Counts'
          /\ \A r \in Routes : Held(r)' = Held(r)
        BY <2>1, EndKeeps
    <2>3. Shape'
        BY <2>1, <2>2, BreakerTypes DEF Shape, Post
    <2>4. LossInv'
        BY <2>1, <2>2 DEF LossInv
    <2>5. BreakerInv'
        BY <2>1 DEF BreakerInv, Success, Shape
    <2> QED
        BY <2>2, <2>3, <2>4, <2>5
<1>8. ASSUME NEW p \in Posts, Refuse(p) PROVE SendersIInv'
    <2>1. /\ End(p)
          /\ Success \/ Failure
          /\ UNCHANGED <<sdk, made, window, overflow, stored, owed, revenue, deliveries>>
          /\ \/ cut' = TRUE /\ UNCHANGED faults
             \/ Fault /\ UNCHANGED cut
        BY <1>8 DEF Refuse, memory, money
    <2>2. /\ sending' \in [Posts -> Post] /\ stored' \in [Routes \X Countries -> Nat]
          /\ Shape' => Counts'
        BY <2>1, EndKeeps
    <2>3. faults' \in 0..MaxFaults /\ cut' \in BOOLEAN /\ (cut' \/ faults' # 0) /\ (cut' \/ faults' > 0)
        BY <2>1, FaultIs DEF Shape
    <2>4. Shape'
        BY <2>1, <2>2, <2>3, BreakerTypes DEF Shape, Post
    <2>5. LossInv' /\ BreakerInv'
        BY <2>3 DEF LossInv, BreakerInv
    <2> QED
        BY <2>2, <2>4, <2>5
<1>9. ASSUME NEW p \in Posts, Fail(p) PROVE SendersIInv'
    <2>1. /\ End(p) /\ Failure /\ Fault
          /\ StoreRows(p) \/ UNCHANGED stored
          /\ UNCHANGED <<sdk, made, window, overflow, cut, owed, revenue, deliveries>>
        BY <1>9 DEF Fail, memory, money
    <2>2. /\ sending' \in [Posts -> Post] /\ stored' \in [Routes \X Countries -> Nat]
          /\ Shape' => Counts'
        BY <2>1, EndKeeps
    <2>3. faults' \in 0..MaxFaults /\ faults' # 0 /\ faults' > 0
        BY <2>1, FaultIs
    <2>4. Shape'
        BY <2>1, <2>2, <2>3, BreakerTypes DEF Shape, Post
    <2>5. LossInv' /\ BreakerInv'
        BY <2>3 DEF LossInv, BreakerInv
    <2> QED
        BY <2>2, <2>4, <2>5
<1>10. ASSUME NEW c \in Charges, Charge(c) PROVE SendersIInv'
    <2>1. /\ deliveries' = deliveries + 1
          /\ owed' \in {owed, owed \ {c}}
          /\ revenue' \in {revenue, revenue \cup {<<c, deliveries'>>}}
          /\ Fault \/ UNCHANGED faults
          /\ UNCHANGED <<sdk, made, window, overflow, sending, failures, open, cut, stored>>
        BY <1>10 DEF Charge, memory, breaker
    <2>2. deliveries' \in Nat /\ revenue' \subseteq Charges \X (1..deliveries')
        <3>1. deliveries \in Nat /\ revenue \subseteq Charges \X (1..deliveries)
            BY DEF Shape
        <3>2. 1..deliveries \subseteq 1..deliveries' /\ deliveries' \in 1..deliveries'
            BY <2>1, <3>1
        <3>3. <<c, deliveries'>> \in Charges \X (1..deliveries')
            BY <3>2
        <3>4. revenue \subseteq Charges \X (1..deliveries')
            BY <3>1, <3>2
        <3> QED
            BY <2>1, <3>1, <3>3, <3>4
    <2>3. /\ faults' \in 0..MaxFaults /\ (faults' = 0 => faults = 0)
          /\ faults > 0 => faults' > 0
        BY <2>1, FaultIs DEF Shape
    <2>4. Shape'
        BY <2>1, <2>2, <2>3 DEF Shape
    <2>5. Counts'
        BY <2>1 DEF Counts, MarksInv, Marked, OverAddress, Used, KeysInv, HonestInv, HeldInv,
                    Claimed, Plain, PlainPosts, Held, Pending, InRoute, Total
    <2>6. \A r \in Routes : Held(r)' = Held(r) /\ InRoute(made, r)' = InRoute(made, r)
        BY <2>1 DEF Held, Pending, InRoute, Total
    <2>7. LossInv' /\ BreakerInv'
        BY <2>1, <2>3, <2>6 DEF LossInv, BreakerInv
    <2> QED
        BY <2>4, <2>5, <2>7
<1> QED
    BY <1>1, <1>2, <1>3, <1>4, <1>5, <1>6, <1>7, <1>8, <1>9, <1>10 DEF SendersNext, Ends

-----------------------------------------------------------------------------
(* Senders: theorems.                                                       *)

\* The accounts are always kept.
LEMMA SendersInvariant == SendersSpec => []SendersIInv
<1>1. SendersInit => SendersIInv
    BY SendersInvInit
<1>2. SendersIInv /\ [SendersNext]_sendersVars => SendersIInv'
    BY SendersInvNext
<1> QED
    BY <1>1, <1>2, PTL DEF SendersSpec

\* What is held of a route is bounded by what was made, and that by its bound.
LEMMA TypesFollow == SendersIInv => SendersTypeOK
<1> SUFFICES ASSUME SendersIInv PROVE SendersTypeOK
    OBVIOUS
<1>1. Shape /\ MarksInv /\ KeysInv /\ HeldInv
    BY DEF SendersIInv, Counts
<1>2. MaxMade \in Nat /\ Total(made, Routes \X Ips) <= MaxMade
    BY <1>1, SendersAssumption DEF Shape
<1>3. ASSUME NEW r \in Routes
      PROVE  InRoute(made, r) \in Nat /\ InRoute(made, r) <= MaxMade
    <2>1. /\ InRoute(made, r) \in Nat /\ InRoute(made, r) <= Total(made, Routes \X Ips)
          /\ Total(made, Routes \X Ips) \in Nat
        <3>1. made \in [Routes \X Ips -> Nat] /\ IsFiniteSet(Routes \X Ips)
            BY <1>1, SendersFinite DEF Shape
        <3>2. \A x \in Routes \X Ips : made[x] \in Nat
            BY <3>1
        <3> QED
            BY <3>1, <3>2, InRouteNat, TotalNat
    <2> QED
        BY <1>2, <2>1
<1>4. ASSUME NEW r \in Routes
      PROVE  InRoute(stored, r) <= MaxMade /\ InRoute(window, r) <= MaxMade
    <2> DEFINE a == InRoute(stored, r)
               b == InRoute(window, r)
               d == Total(RoutePosts(r), Posts)
               m == InRoute(made, r)
    <2>1. a \in Nat /\ b \in Nat /\ d \in Nat /\ m \in Nat /\ m <= MaxMade /\ Held(r) = a + (b + d)
        BY <1>1, <1>3, HeldTypes
    <2>2. Held(r) <= m
        BY <1>1 DEF HeldInv
    <2> HIDE DEF a, b, d, m
    <2>3. a <= MaxMade /\ b <= MaxMade
        BY <1>2, <2>1, <2>2
    <2> QED
        BY <2>3 DEF a, b
<1>5. ASSUME NEW D, IsFiniteSet(D), NEW n \in [D -> Nat],
             \A x \in D : x[1] \in Routes, \A r \in Routes : InRoute(n, r) <= MaxMade
      PROVE  n \in [D -> 0..MaxMade]
    <2>1. ASSUME NEW x \in D PROVE n[x] \in 0..MaxMade
        <3>1. n[x] <= InRoute(n, x[1]) /\ InRoute(n, x[1]) \in Nat /\ n[x] \in Nat
            BY <1>5, OneOfRoute, InRouteNat
        <3>2. InRoute(n, x[1]) <= MaxMade
            BY <1>5
        <3> DEFINE k == n[x]
                   l == InRoute(n, x[1])
        <3> HIDE DEF k, l
        <3>3. k \in 0..MaxMade
            BY <1>2, <3>1, <3>2 DEF k, l
        <3> QED
            BY <3>3 DEF k
    <2> QED
        BY <2>1
<1>6. /\ made \in [Routes \X Ips -> 0..MaxMade] /\ window \in [Cells -> 0..MaxMade]
      /\ stored \in [Routes \X Countries -> 0..MaxMade]
    <2>1. /\ \A x \in Routes \X Ips : x[1] \in Routes
          /\ \A x \in Cells : x[1] \in Routes
          /\ \A x \in Routes \X Countries : x[1] \in Routes
        BY DEF Cells
    <2>2. /\ made \in [Routes \X Ips -> Nat] /\ window \in [Cells -> Nat]
          /\ stored \in [Routes \X Countries -> Nat]
        BY <1>1 DEF Shape
    <2>3. made \in [Routes \X Ips -> 0..MaxMade]
        BY <1>3, <1>5, <2>1, <2>2, SendersFinite
    <2>4. window \in [Cells -> 0..MaxMade]
        BY <1>4, <1>5, <2>1, <2>2, SendersFinite
    <2>5. stored \in [Routes \X Countries -> 0..MaxMade]
        BY <1>4, <1>5, <2>1, <2>2, SendersFinite
    <2> QED
        BY <2>3, <2>4, <2>5
<1>7. \A c, d \in overflow : c[1] = d[1] => c = d
    <2>1. \A c \in overflow : c \in Routes \X (Ips \cup {Over}) /\ c[2] = OverAddress
        BY <1>1 DEF Shape, MarksInv, Marked, Cells
    <2> QED
        BY <2>1
<1> QED
    BY <1>1, <1>6, <1>7 DEF Shape, MarksInv, Marked, KeysInv, SendersTypeOK

\* The cells that an SDK holds are bounded, and rows, window and marks are well formed,
\* whatever becomes of its posts.
THEOREM SendersTypeCorrect == SendersSpec => []SendersTypeOK
<1>1. SendersSpec => []SendersIInv
    BY SendersInvariant
<1>2. SendersIInv => SendersTypeOK
    BY TypesFollow
<1> QED
    BY <1>1, <1>2, PTL

\* No row claims more requests from a country than its callers made.
THEOREM OverflowClaimsNothing == SendersSpec => []RowsAreHonest
<1>1. SendersSpec => []SendersIInv
    BY SendersInvariant
<1>2. SendersIInv => RowsAreHonest
    <2> SUFFICES ASSUME SendersIInv, NEW r \in Routes, NEW ip \in Ips
                 PROVE  stored[<<r, ip>>] <= made[<<r, ip>>]
        BY DEF RowsAreHonest
    <2> DEFINE c == <<r, ip>>
               a == stored[c]
               b == Plain(window, overflow, c)
               d == Total(PlainPosts(c), Posts)
               m == made[c]
    <2>1. c \in Routes \X Ips
        OBVIOUS
    <2> HIDE DEF c
    <2>2. a \in Nat /\ b \in Nat /\ d \in Nat /\ m \in Nat
        BY <2>1, HeldTypes DEF SendersIInv
    <2>3. a + b + d <= m
        BY <2>1 DEF SendersIInv, Counts, HonestInv, Claimed
    <2> HIDE DEF a, b, d, m
    <2>4. a <= m
        BY <2>2, <2>3
    <2> QED
        BY <2>4 DEF a, m, c
<1> QED
    BY <1>1, <1>2, PTL

\* Rows, posts and window together count no request twice.
THEOREM LostPostsDoNotCountTwice == SendersSpec => []NothingCountsTwice
<1>1. SendersSpec => []SendersIInv
    BY SendersInvariant
<1>2. SendersIInv => NothingCountsTwice
    BY DEF SendersIInv, Counts, HeldInv, Held, NothingCountsTwice
<1> QED
    BY <1>1, <1>2, PTL

\* Until something fails or is cut, every request is in the window, under way or in a row.
THEOREM OnlyFaultsLose == SendersSpec => []NothingIsLostUnasked
<1>1. SendersSpec => []SendersIInv
    BY SendersInvariant
<1>2. SendersIInv => NothingIsLostUnasked
    BY DEF SendersIInv, LossInv, Held, NothingIsLostUnasked
<1> QED
    BY <1>1, <1>2, PTL

=============================================================================
