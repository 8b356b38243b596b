----------------------------- MODULE SumLemmas -----------------------------
(***************************************************************************)
(* What SumFunctionOnSet, the fold the amounts of an invoice are added     *)
(* with, computes for any finite set.  Its definition chooses the function *)
(* on the subsets of the set that solves the recursive equation of the     *)
(* sum; here such a function is shown to exist and to be the only one, and *)
(* from it that the sum loses exactly the value of a removed element, only *)
(* depends on the values over the set, and is at least that of any part.   *)
(* Each fact is proved from a smallest subset for which it would fail.     *)
(***************************************************************************)
EXTENDS Functions, FiniteSetTheorems, TLAPS

(* Among some subsets of a finite set one contains none of the others: the *)
(* smallest counterexample every proof of this module starts from.         *)
LEMMA MinimalSubset ==
    ASSUME NEW S, IsFiniteSet(S), NEW T \in SUBSET SUBSET S, T # {}
    PROVE  \E x \in T : \A y \in T : y \subseteq x => y = x
<1>1. FiniteSubsetsOf(S) = SUBSET S
  BY FS_FiniteSubsetsOfFinite
<1>2. IsWellFoundedOn(StrictSubsetOrdering(S), SUBSET S)
  BY <1>1, FS_StrictSubsetOrderingWellFounded
<1>3. PICK x \in T : \A y \in T : ~(<<y, x>> \in StrictSubsetOrdering(S))
  BY <1>2, WFMin
<1> QED
  BY <1>3 DEF StrictSubsetOrdering

(* What the fold of SumFunctionOnSet computes of every subset of S.        *)
Chosen(s) == CHOOSE x \in s : TRUE

Solves(g, f, S) ==
    g = [s \in SUBSET S |-> IF s = {} THEN 0 ELSE f[Chosen(s)] + g[s \ {Chosen(s)}]]

(* The sum is the chosen solution, read at the whole set.                  *)
LEMMA SumIsSolution ==
    ASSUME NEW f, NEW S
    PROVE  SumFunctionOnSet(f, S) = (CHOOSE g : Solves(g, f, S))[S]
BY DEF SumFunctionOnSet, FoldFunctionOnSet, MapThenFoldSet, Solves, Chosen

(* A solution at one subset, by the equation.                              *)
LEMMA SolutionValue ==
    ASSUME NEW f, NEW S, NEW g, Solves(g, f, S), NEW s \in SUBSET S
    PROVE  g[s] = IF s = {} THEN 0 ELSE f[Chosen(s)] + g[s \ {Chosen(s)}]
BY DEF Solves

(* A set that is not empty holds the element the equation takes out of it. *)
LEMMA ChosenIn == ASSUME NEW s, s # {} PROVE Chosen(s) \in s
BY DEF Chosen

(* Two solutions agree wherever both are defined.                          *)
LEMMA SolutionsAgree ==
    ASSUME NEW f, NEW S, IsFiniteSet(S), NEW T, NEW g, NEW h,
           Solves(g, f, S), Solves(h, f, T),
           NEW s \in SUBSET S, s \in SUBSET T
    PROVE  g[s] = h[s]
<1> DEFINE Bad == {r \in SUBSET S : r \in SUBSET T /\ g[r] # h[r]}
<1>1. SUFFICES ASSUME Bad # {} PROVE FALSE
  OBVIOUS
<1>a. Bad \in SUBSET SUBSET S
  OBVIOUS
<1>2. PICK r \in Bad : \A q \in Bad : q \subseteq r => q = r
  <2> HIDE DEF Bad
  <2> QED
    BY <1>1, <1>a, MinimalSubset
<1>3. r # {}
  <2>1. {} \in SUBSET S /\ {} \in SUBSET T
    OBVIOUS
  <2>2. g[{}] = 0
    BY <2>1, SolutionValue
  <2>3. h[{}] = 0
    BY <2>1, SolutionValue
  <2> QED
    BY <2>2, <2>3
<1>4. Chosen(r) \in r /\ r \ {Chosen(r)} \notin Bad
  BY <1>2, <1>3, ChosenIn
<1>5. r \in SUBSET S /\ r \in SUBSET T /\ r \ {Chosen(r)} \in SUBSET S /\ r \ {Chosen(r)} \in SUBSET T
  OBVIOUS
<1>6. g[r] = f[Chosen(r)] + g[r \ {Chosen(r)}]
  <2> HIDE DEF Bad
  <2>1. \A q \in SUBSET S :
            g[q] = IF q = {} THEN 0 ELSE f[Chosen(q)] + g[q \ {Chosen(q)}]
    BY SolutionValue
  <2> QED
    BY <1>3, <1>5, <2>1
<1>7. h[r] = f[Chosen(r)] + h[r \ {Chosen(r)}]
  <2> HIDE DEF Bad
  <2>1. \A q \in SUBSET T :
            h[q] = IF q = {} THEN 0 ELSE f[Chosen(q)] + h[q \ {Chosen(q)}]
    BY SolutionValue
  <2> QED
    BY <1>3, <1>5, <2>1
<1> QED
  BY <1>4, <1>5, <1>6, <1>7

(* There is one: it takes each value from a solution of a smaller set.     *)
LEMMA SolutionExists ==
    ASSUME NEW f, NEW S, IsFiniteSet(S)
    PROVE  \E g : Solves(g, f, S)
<1> DEFINE Bad == {s \in SUBSET S : ~\E g : Solves(g, f, s)}
<1>1. SUFFICES ASSUME Bad # {} PROVE FALSE
  OBVIOUS
<1>b. Bad \in SUBSET SUBSET S
  OBVIOUS
<1>2. PICK T \in Bad : \A q \in Bad : q \subseteq T => q = T
  <2> HIDE DEF Bad
  <2> QED
    BY <1>1, <1>b, MinimalSubset
<1>a. IsFiniteSet(T) /\ T \in SUBSET S
  BY FS_Subset
<1> DEFINE G(s) == CHOOSE g : Solves(g, f, s)
           h == [s \in SUBSET T |->
                   IF s = {} THEN 0
                   ELSE f[Chosen(s)] + G(s \ {Chosen(s)})[s \ {Chosen(s)}]]
<1>3. ASSUME NEW s \in SUBSET T, s # T PROVE Solves(G(s), f, s)
  <2>1. s \notin Bad /\ s \in SUBSET S
    BY <1>2, <1>3
  <2> QED
    BY <2>1
<1>4. ASSUME NEW s \in SUBSET T, s # T PROVE h[s] = G(s)[s]
  <2> DEFINE r == s \ {Chosen(s)}
  <2>1. CASE s = {}
    BY <2>1, <1>3, <1>4, SolutionValue
  <2>2. CASE s # {}
    <3>1. Chosen(s) \in s
      BY <2>2, ChosenIn
    <3>2. r \in SUBSET T /\ r # T /\ r \in SUBSET s /\ r \in SUBSET r /\ s \in SUBSET s
      BY <1>4
    <3>3. Solves(G(s), f, s) /\ Solves(G(r), f, r)
      BY <1>3, <1>4, <3>1, <3>2
    <3>4. IsFiniteSet(s)
      BY <1>a, FS_Subset
    <3>5. G(s)[r] = G(r)[r]
      BY <3>2, <3>3, <3>4, SolutionsAgree
    <3>6. G(s)[s] = f[Chosen(s)] + G(s)[r]
      BY <2>2, <3>2, <3>3, SolutionValue
    <3> QED
      BY <2>2, <3>5, <3>6
  <2> QED
    BY <2>1, <2>2
<1>5. ASSUME NEW s \in SUBSET T, s # {}
      PROVE  h[s] = f[Chosen(s)] + h[s \ {Chosen(s)}]
  <2> DEFINE r == s \ {Chosen(s)}
  <2>1. Chosen(s) \in s
    BY <1>5, ChosenIn
  <2>2. r \in SUBSET T /\ r # T
    BY <2>1
  <2>3. h[r] = G(r)[r]
    BY <1>4, <2>2
  <2>4. h[s] = f[Chosen(s)] + G(r)[r]
    BY <1>5
  <2> HIDE DEF h, G
  <2> QED
    BY <2>3, <2>4
<1>6. Solves(h, f, T)
  <2>1. h = [s \in SUBSET T |-> h[s]]
    OBVIOUS
  <2>3. h[{}] = 0
    OBVIOUS
  <2>2. \A s \in SUBSET T : h[s] = IF s = {} THEN 0 ELSE f[Chosen(s)] + h[s \ {Chosen(s)}]
    <3> HIDE DEF h
    <3> QED
      BY <1>5, <2>3
  <2> HIDE DEF h
  <2> QED
    BY <2>1, <2>2 DEF Solves
<1> QED
  BY <1>6

(* The sum over a finite set is one of its values and the sum of the rest. *)
LEMMA SumUnfolds ==
    ASSUME NEW f, NEW S, IsFiniteSet(S)
    PROVE  /\ S = {} => SumFunctionOnSet(f, S) = 0
           /\ S # {} => /\ Chosen(S) \in S
                        /\ SumFunctionOnSet(f, S) =
                              f[Chosen(S)] + SumFunctionOnSet(f, S \ {Chosen(S)})
<1> DEFINE G(s) == CHOOSE g : Solves(g, f, s)
           r == S \ {Chosen(S)}
<1>1. IsFiniteSet(r)
  BY FS_RemoveElement
<1>2. Solves(G(S), f, S) /\ Solves(G(r), f, r)
  BY <1>1, SolutionExists
<1>3. SumFunctionOnSet(f, S) = G(S)[S] /\ SumFunctionOnSet(f, r) = G(r)[r]
  BY SumIsSolution
<1>4. r \in SUBSET S /\ r \in SUBSET r /\ S \in SUBSET S
  OBVIOUS
<1>5. G(S)[r] = G(r)[r]
  <2> HIDE DEF G, r
  <2> QED
    BY <1>2, <1>4, SolutionsAgree
<1>6. G(S)[S] = IF S = {} THEN 0 ELSE f[Chosen(S)] + G(S)[r]
  BY <1>2, <1>4, SolutionValue
<1> QED
  BY <1>3, <1>5, <1>6, ChosenIn

(* Nothing adds up to nothing.                                             *)
LEMMA SumEmpty == \A f : SumFunctionOnSet(f, {}) = 0
BY FS_EmptySet, SumUnfolds

-----------------------------------------------------------------------------
(* The sum of integers is an integer.                                      *)
LEMMA SumIsInt ==
    ASSUME NEW f, NEW S, IsFiniteSet(S), \A x \in S : f[x] \in Int
    PROVE  SumFunctionOnSet(f, S) \in Int
<1> DEFINE Bad == {s \in SUBSET S : SumFunctionOnSet(f, s) \notin Int}
<1>1. SUFFICES ASSUME Bad # {} PROVE FALSE
  OBVIOUS
<1>2. Bad \in SUBSET SUBSET S
  OBVIOUS
<1>3. PICK T \in Bad : \A q \in Bad : q \subseteq T => q = T
  <2> HIDE DEF Bad
  <2> QED
    BY <1>1, <1>2, MinimalSubset
<1>4. IsFiniteSet(T)
  BY FS_Subset
<1>5. T # {}
  BY SumEmpty
<1>6. Chosen(T) \in T
  BY <1>4, <1>5, SumUnfolds
<1>7. SumFunctionOnSet(f, T \ {Chosen(T)}) \in Int
  BY <1>3, <1>6
<1>8. SumFunctionOnSet(f, T) = f[Chosen(T)] + SumFunctionOnSet(f, T \ {Chosen(T)})
  BY <1>4, <1>5, SumUnfolds
<1> QED
  BY <1>6, <1>7, <1>8

(* The sum over a set is any of its values and the sum of the rest.        *)
LEMMA SumRemove ==
    ASSUME NEW f, NEW S, IsFiniteSet(S), \A x \in S : f[x] \in Int, NEW a \in S
    PROVE  SumFunctionOnSet(f, S) = f[a] + SumFunctionOnSet(f, S \ {a})
<1> DEFINE Splits(s, b) == SumFunctionOnSet(f, s) = f[b] + SumFunctionOnSet(f, s \ {b})
           Bad == {s \in SUBSET S : \E b \in s : ~Splits(s, b)}
<1>1. SUFFICES ASSUME Bad # {} PROVE FALSE
  OBVIOUS
<1>2. Bad \in SUBSET SUBSET S
  OBVIOUS
<1>3. PICK T \in Bad : \A q \in Bad : q \subseteq T => q = T
  <2> HIDE DEF Bad
  <2> QED
    BY <1>1, <1>2, MinimalSubset
<1>4. PICK b \in T : ~Splits(T, b)
  OBVIOUS
<1> DEFINE c == Chosen(T)
<1>5. T \in SUBSET S /\ IsFiniteSet(T) /\ T # {}
  BY FS_Subset
<1>6. c \in T /\ Splits(T, c)
  BY <1>5, SumUnfolds
<1>7. b # c
  BY <1>4, <1>6
<1>8. Splits(T \ {c}, b) /\ Splits(T \ {b}, c)
  BY <1>3, <1>5, <1>6, <1>7
<1>9. (T \ {c}) \ {b} = (T \ {b}) \ {c}
  OBVIOUS
<1>10. f[b] \in Int /\ f[c] \in Int
  BY <1>5, <1>6
<1>11. SumFunctionOnSet(f, (T \ {b}) \ {c}) \in Int
  <2>1. IsFiniteSet((T \ {b}) \ {c})
    BY <1>5, FS_Subset
  <2> QED
    BY <2>1, <1>5, SumIsInt
<1>12. SumFunctionOnSet(f, T) = f[b] + SumFunctionOnSet(f, T \ {b})
  <2> DEFINE rest == SumFunctionOnSet(f, (T \ {b}) \ {c})
  <2>1. SumFunctionOnSet(f, T) = f[c] + SumFunctionOnSet(f, T \ {c})
    BY <1>6
  <2>2. SumFunctionOnSet(f, T \ {c}) = f[b] + rest
    BY <1>8, <1>9
  <2>3. SumFunctionOnSet(f, T \ {b}) = f[c] + rest
    BY <1>8
  <2>4. rest \in Int
    BY <1>11
  <2> HIDE DEF c, Bad, rest
  <2> QED
    BY <2>1, <2>2, <2>3, <2>4, <1>10
<1> QED
  BY <1>4, <1>12

(* The sum depends on the values over the set only.                        *)
LEMMA SumSame ==
    ASSUME NEW f, NEW g, NEW S, IsFiniteSet(S), \A x \in S : f[x] = g[x]
    PROVE  SumFunctionOnSet(f, S) = SumFunctionOnSet(g, S)
<1> DEFINE Bad == {s \in SUBSET S : SumFunctionOnSet(f, s) # SumFunctionOnSet(g, s)}
<1>1. SUFFICES ASSUME Bad # {} PROVE FALSE
  OBVIOUS
<1>2. Bad \in SUBSET SUBSET S
  OBVIOUS
<1>3. PICK T \in Bad : \A q \in Bad : q \subseteq T => q = T
  <2> HIDE DEF Bad
  <2> QED
    BY <1>1, <1>2, MinimalSubset
<1>4. IsFiniteSet(T)
  BY FS_Subset
<1>5. T # {}
  BY SumEmpty
<1>6. Chosen(T) \in T
  BY <1>4, <1>5, SumUnfolds
<1>7. SumFunctionOnSet(f, T \ {Chosen(T)}) = SumFunctionOnSet(g, T \ {Chosen(T)})
  BY <1>3, <1>6
<1>8. SumFunctionOnSet(f, T) = f[Chosen(T)] + SumFunctionOnSet(f, T \ {Chosen(T)})
  BY <1>4, <1>5, SumUnfolds
<1>9. SumFunctionOnSet(g, T) = g[Chosen(T)] + SumFunctionOnSet(g, T \ {Chosen(T)})
  BY <1>4, <1>5, SumUnfolds
<1> QED
  BY <1>6, <1>7, <1>8, <1>9

(* Values that are not negative add up to at least any part of them.       *)
LEMMA SumAtLeastPart ==
    ASSUME NEW f, NEW S, IsFiniteSet(S), \A x \in S : f[x] \in Nat, NEW R \in SUBSET S
    PROVE  SumFunctionOnSet(f, R) <= SumFunctionOnSet(f, S)
<1> DEFINE Bad == {s \in SUBSET S :
                     R \subseteq s /\ ~(SumFunctionOnSet(f, R) <= SumFunctionOnSet(f, s))}
<1>1. SUFFICES ASSUME Bad # {} PROVE FALSE
  OBVIOUS
<1>2. Bad \in SUBSET SUBSET S
  OBVIOUS
<1>3. PICK T \in Bad : \A q \in Bad : q \subseteq T => q = T
  <2> HIDE DEF Bad
  <2> QED
    BY <1>1, <1>2, MinimalSubset
<1>4. IsFiniteSet(T) /\ IsFiniteSet(R) /\ T \in SUBSET S
  BY FS_Subset
<1>5. SumFunctionOnSet(f, T) \in Int /\ SumFunctionOnSet(f, R) \in Int
  BY <1>4, SumIsInt
<1>6. PICK a \in T : a \notin R
  BY <1>5
<1>7. SumFunctionOnSet(f, T) = f[a] + SumFunctionOnSet(f, T \ {a})
  BY <1>4, SumRemove
<1>8. SumFunctionOnSet(f, R) <= SumFunctionOnSet(f, T \ {a})
  BY <1>3, <1>4, <1>6
<1>9. IsFiniteSet(T \ {a})
  BY <1>4, FS_RemoveElement
<1>10. SumFunctionOnSet(f, T \ {a}) \in Int
  BY <1>4, <1>9, SumIsInt
<1> QED
  BY <1>4, <1>5, <1>7, <1>8, <1>10
=============================================================================
