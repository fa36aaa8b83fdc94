-------------------------------- MODULE Sums --------------------------------
(***************************************************************************)
(* Lemmas about SumFunctionOnSet, the sum of a function's values over a    *)
(* finite set.  It is defined by a recursive function on the subsets of    *)
(* the set; that this function exists, and what it computes, is shown by   *)
(* looking at a smallest subset for which it fails.                        *)
(***************************************************************************)
EXTENDS Integers, Functions, FiniteSetTheorems, WellFoundedInduction, TLAPS

-----------------------------------------------------------------------------
\* A family of subsets of a finite set has a smallest member.
LEMMA MinimalSubset ==
  ASSUME NEW S, IsFiniteSet(S), NEW F \in SUBSET SUBSET S, F # {}
  PROVE  \E T \in F : \A U \in F : U \subseteq T => U = T
<1>1. IsWellFoundedOn(StrictSubsetOrdering(S), SUBSET S)
  BY FS_StrictSubsetOrderingWellFounded, FS_FiniteSubsetsOfFinite
<1>2. PICK T \in F : \A U \in F : ~ (<<U, T>> \in StrictSubsetOrdering(S))
  BY <1>1, WFMin
<1>3. ASSUME NEW U \in F, U \subseteq T, U # T PROVE FALSE
  <2>1. <<U, T>> \in (SUBSET S) \X (SUBSET S)
    OBVIOUS
  <2>2. <<U, T>> \in StrictSubsetOrdering(S)
    BY <1>3, <2>1 DEF StrictSubsetOrdering
  <2> QED  BY <1>2, <2>2
<1> QED  BY <1>3

\* The element that the sum takes first.
Pick(s) == CHOOSE x \in s : TRUE

LEMMA PickIn ==
  ASSUME NEW s, s # {}
  PROVE  Pick(s) \in s
BY DEF Pick

\* The sums of f over the subsets of S.
IsIter(f, S, g) ==
  g = [s \in SUBSET S |-> IF s = {} THEN 0 ELSE f[Pick(s)] + g[s \ {Pick(s)}]]

LEMMA SumIsIter ==
  ASSUME NEW f, NEW S
  PROVE  SumFunctionOnSet(f, S) = (CHOOSE g : IsIter(f, S, g))[S]
BY DEF SumFunctionOnSet, FoldFunctionOnSet, MapThenFoldSet, IsIter, Pick

LEMMA IterStep ==
  ASSUME NEW f, NEW S, NEW g, IsIter(f, S, g), NEW s \in SUBSET S
  PROVE  g[s] = IF s = {} THEN 0 ELSE f[Pick(s)] + g[s \ {Pick(s)}]
BY DEF IsIter

\* Two of them agree where both are defined.
LEMMA IterAgree ==
  ASSUME NEW f, NEW S, NEW T, IsFiniteSet(S), NEW g, NEW h, IsIter(f, S, g), IsIter(f, T, h),
         NEW u \in (SUBSET S) \cap (SUBSET T)
  PROVE  g[u] = h[u]
<1> SUFFICES ASSUME g[u] # h[u] PROVE FALSE
  OBVIOUS
<1> DEFINE F == {s \in (SUBSET S) \cap (SUBSET T) : g[s] # h[s]}
<1>1. F \in SUBSET SUBSET S /\ F # {}
  OBVIOUS
<1>2. PICK s \in F : \A t \in F : t \subseteq s => t = s
  <2> HIDE DEF F
  <2> QED  BY <1>1, MinimalSubset
<1>3. s \in SUBSET S /\ s \in SUBSET T /\ g[s] # h[s]
  OBVIOUS
<1>4. s # {}
  <2>1. s = {} => g[s] = 0
    BY <1>3, IterStep
  <2>2. s = {} => h[s] = 0
    BY <1>3, IterStep
  <2> QED  BY <1>3, <2>1, <2>2
<1>5. Pick(s) \in s /\ s \ {Pick(s)} \in (SUBSET S) \cap (SUBSET T) /\ s \ {Pick(s)} # s
      /\ s \ {Pick(s)} \subseteq s
  BY <1>3, <1>4, PickIn
<1>6. g[s \ {Pick(s)}] = h[s \ {Pick(s)}]
  BY <1>2, <1>5
<1>7. g[s] = f[Pick(s)] + g[s \ {Pick(s)}]
  BY <1>3, <1>4, IterStep
<1>8. h[s] = f[Pick(s)] + h[s \ {Pick(s)}]
  BY <1>3, <1>4, IterStep
<1> QED  BY <1>3, <1>6, <1>7, <1>8

LEMMA IterRestricted ==
  ASSUME NEW f, NEW S, NEW g, IsIter(f, S, g), NEW T \in SUBSET S
  PROVE  IsIter(f, T, [s \in SUBSET T |-> g[s]])
<1> DEFINE h == [s \in SUBSET T |-> g[s]]
<1>1. ASSUME NEW s \in SUBSET T
      PROVE  g[s] = IF s = {} THEN 0 ELSE f[Pick(s)] + h[s \ {Pick(s)}]
  <2>1. s \in SUBSET S /\ s \ {Pick(s)} \in SUBSET T
    OBVIOUS
  <2>2. h[s \ {Pick(s)}] = g[s \ {Pick(s)}]
    BY <2>1
  <2> QED  BY <2>1, <2>2, IterStep
<1>2. h = [s \in SUBSET T |-> IF s = {} THEN 0 ELSE f[Pick(s)] + h[s \ {Pick(s)}]]
  BY <1>1
<1> QED  BY <1>2 DEF IsIter

LEMMA IterExists ==
  ASSUME NEW f, NEW S, IsFiniteSet(S)
  PROVE  \E g : IsIter(f, S, g)
<1> SUFFICES ASSUME ~ \E g : IsIter(f, S, g) PROVE FALSE
  OBVIOUS
<1> DEFINE F == {T \in SUBSET S : ~ \E g : IsIter(f, T, g)}
<1>1. F \in SUBSET SUBSET S /\ F # {}
  OBVIOUS
<1>2. PICK T \in F : \A U \in F : U \subseteq T => U = T
  <2> HIDE DEF F
  <2> QED  BY <1>1, MinimalSubset
<1>3. T \in SUBSET S /\ ~ \E g : IsIter(f, T, g)
  OBVIOUS
<1> DEFINE Iter(s) == CHOOSE g : IsIter(f, s, g)
           Rest(s) == s \ {Pick(s)}
           total == [s \in SUBSET T |-> IF s = {} THEN 0 ELSE f[Pick(s)] + Iter(Rest(s))[Rest(s)]]
<1>4. ASSUME NEW s \in SUBSET T, s # T PROVE IsIter(f, s, Iter(s))
  <2>1. s \in SUBSET S /\ s \notin F
    BY <1>2, <1>4
  <2>2. \E g : IsIter(f, s, g)
    BY <2>1
  <2> QED  BY <2>2
<1> HIDE DEF Iter, F
<1>5. ASSUME NEW s \in SUBSET T, s # T PROVE total[s] = Iter(s)[s]
  <2>1. IsIter(f, s, Iter(s))
    BY <1>4, <1>5
  <2>2. CASE s = {}
    <3>1. Iter(s)[s] = 0
      BY <2>1, <2>2, IterStep
    <3> QED  BY <2>2, <3>1
  <2>3. CASE s # {}
    <3>1. Rest(s) \in SUBSET s /\ Rest(s) \in SUBSET T /\ Rest(s) # s /\ Rest(s) # T
      BY <1>5, <2>3, PickIn
    <3>2. IsIter(f, Rest(s), Iter(Rest(s)))
      BY <1>4, <3>1
    <3>3. IsFiniteSet(s)
      BY <1>3, FS_Subset
    <3>4. Iter(s)[Rest(s)] = Iter(Rest(s))[Rest(s)]
      BY <2>1, <3>1, <3>2, <3>3, IterAgree
    <3>5. s \in SUBSET s
      OBVIOUS
    <3>6. Iter(s)[s] = f[Pick(s)] + Iter(s)[Rest(s)]
      BY <2>1, <2>3, <3>5, IterStep
    <3>7. total[s] = f[Pick(s)] + Iter(Rest(s))[Rest(s)]
      BY <2>3
    <3> QED  BY <3>4, <3>6, <3>7
  <2> QED  BY <2>2, <2>3
<1>6. ASSUME NEW s \in SUBSET T
      PROVE  (IF s = {} THEN 0 ELSE f[Pick(s)] + Iter(Rest(s))[Rest(s)])
             = (IF s = {} THEN 0 ELSE f[Pick(s)] + total[Rest(s)])
  <2>1. s # {} => Rest(s) \in SUBSET T /\ Rest(s) # T
    BY PickIn
  <2> QED  BY <1>5, <2>1
<1>7. IsIter(f, T, total)
  BY <1>6 DEF IsIter
<1> QED  BY <1>3, <1>7

-----------------------------------------------------------------------------
(* The sum *)

LEMMA SumIter ==
  ASSUME NEW f, NEW S, IsFiniteSet(S)
  PROVE  \E g : IsIter(f, S, g) /\ \A s \in SUBSET S : g[s] = SumFunctionOnSet(f, s)
<1>1. PICK g : IsIter(f, S, g)
  BY IterExists
<1>2. ASSUME NEW s \in SUBSET S PROVE g[s] = SumFunctionOnSet(f, s)
  <2> DEFINE h == CHOOSE h : IsIter(f, s, h)
  <2>1. IsFiniteSet(s)
    BY FS_Subset
  <2>2. \E k : IsIter(f, s, k)
    BY <2>1, IterExists
  <2>3. IsIter(f, s, h)
    BY <2>2
  <2>4. SumFunctionOnSet(f, s) = h[s]
    BY SumIsIter
  <2> HIDE DEF h
  <2>5. s \in (SUBSET S) \cap (SUBSET s)
    OBVIOUS
  <2>6. g[s] = h[s]
    BY <1>1, <2>3, <2>5, IterAgree
  <2> QED  BY <2>4, <2>6
<1> QED  BY <1>1, <1>2

LEMMA SumOfNone ==
  ASSUME NEW f
  PROVE  SumFunctionOnSet(f, {}) = 0
<1>1. IsFiniteSet({})
  BY FS_EmptySet
<1>2. PICK g : IsIter(f, {}, g) /\ \A s \in SUBSET {} : g[s] = SumFunctionOnSet(f, s)
  BY <1>1, SumIter
<1>3. {} \in SUBSET {}
  OBVIOUS
<1>4. g[{}] = 0
  BY <1>2, <1>3, IterStep
<1> QED  BY <1>2, <1>3, <1>4

LEMMA SumTakesOne ==
  ASSUME NEW f, NEW S, IsFiniteSet(S), S # {}
  PROVE  SumFunctionOnSet(f, S) = f[Pick(S)] + SumFunctionOnSet(f, S \ {Pick(S)})
<1>1. PICK g : IsIter(f, S, g) /\ \A s \in SUBSET S : g[s] = SumFunctionOnSet(f, s)
  BY SumIter
<1>2. S \in SUBSET S /\ S \ {Pick(S)} \in SUBSET S
  OBVIOUS
<1>3. g[S] = f[Pick(S)] + g[S \ {Pick(S)}]
  BY <1>1, <1>2, IterStep
<1> QED  BY <1>1, <1>2, <1>3

\* The sum of integers is one.
LEMMA SumType ==
  ASSUME NEW S, IsFiniteSet(S), NEW f, \A x \in S : f[x] \in Int
  PROVE  SumFunctionOnSet(f, S) \in Int
<1> SUFFICES ASSUME SumFunctionOnSet(f, S) \notin Int PROVE FALSE
  OBVIOUS
<1> DEFINE F == {s \in SUBSET S : SumFunctionOnSet(f, s) \notin Int}
<1>1. F \in SUBSET SUBSET S /\ F # {}
  OBVIOUS
<1>2. PICK s \in F : \A t \in F : t \subseteq s => t = s
  <2> HIDE DEF F
  <2> QED  BY <1>1, MinimalSubset
<1>3. s \in SUBSET S /\ SumFunctionOnSet(f, s) \notin Int /\ IsFiniteSet(s)
  BY FS_Subset
<1>4. s # {}
  BY <1>3, SumOfNone
<1>5. Pick(s) \in s /\ s \ {Pick(s)} \in SUBSET S /\ s \ {Pick(s)} # s
      /\ s \ {Pick(s)} \subseteq s
  BY <1>3, <1>4, PickIn
<1>6. SumFunctionOnSet(f, s \ {Pick(s)}) \in Int
  BY <1>2, <1>5
<1>7. SumFunctionOnSet(f, s) = f[Pick(s)] + SumFunctionOnSet(f, s \ {Pick(s)})
  BY <1>3, <1>4, SumTakesOne
<1> QED  BY <1>3, <1>5, <1>6, <1>7

\* Any element may be taken first.
LEMMA SumTakesAny ==
  ASSUME NEW S, IsFiniteSet(S), NEW f, \A x \in S : f[x] \in Int, NEW e \in S
  PROVE  SumFunctionOnSet(f, S) = f[e] + SumFunctionOnSet(f, S \ {e})
<1> DEFINE F == {s \in SUBSET S :
                   \E d \in s : SumFunctionOnSet(f, s) # f[d] + SumFunctionOnSet(f, s \ {d})}
<1> SUFFICES ASSUME F # {} PROVE FALSE
  OBVIOUS
<1>1. F \in SUBSET SUBSET S
  OBVIOUS
<1>2. PICK s \in F : \A t \in F : t \subseteq s => t = s
  <2> HIDE DEF F
  <2> QED  BY <1>1, MinimalSubset
<1>3. PICK d \in s : SumFunctionOnSet(f, s) # f[d] + SumFunctionOnSet(f, s \ {d})
  OBVIOUS
<1>4. s \in SUBSET S /\ IsFiniteSet(s) /\ s # {}
  BY FS_Subset
<1> DEFINE p == Pick(s)
           rest == s \ {p}
<1>5. p \in s /\ rest \in SUBSET S /\ rest # s /\ rest \subseteq s
  BY <1>4, PickIn
<1>6. SumFunctionOnSet(f, s) = f[p] + SumFunctionOnSet(f, rest)
  BY <1>4, SumTakesOne
<1>7. d # p
  BY <1>3, <1>6
<1>8. SumFunctionOnSet(f, rest) = f[d] + SumFunctionOnSet(f, rest \ {d})
  <2>1. rest \notin F
    BY <1>2, <1>5
  <2>2. d \in rest
    BY <1>7
  <2> QED  BY <1>5, <2>1, <2>2
<1>9. SumFunctionOnSet(f, s \ {d}) = f[p] + SumFunctionOnSet(f, (s \ {d}) \ {p})
  <2>1. s \ {d} \in SUBSET S /\ s \ {d} # s /\ s \ {d} \subseteq s
    BY <1>4
  <2>2. s \ {d} \notin F
    BY <1>2, <2>1
  <2>3. p \in s \ {d}
    BY <1>5, <1>7
  <2> QED  BY <2>1, <2>2, <2>3
<1>10. (s \ {d}) \ {p} = rest \ {d}
  OBVIOUS
<1>11. f[p] \in Int /\ f[d] \in Int /\ SumFunctionOnSet(f, rest \ {d}) \in Int
  <2>1. rest \ {d} \in SUBSET S
    BY <1>5
  <2>2. IsFiniteSet(rest \ {d})
    BY <2>1, FS_Subset
  <2> QED  BY <1>3, <1>4, <1>5, <2>1, <2>2, SumType
<1> HIDE DEF F, p, rest
<1>12. SumFunctionOnSet(f, s) = f[p] + (f[d] + SumFunctionOnSet(f, rest \ {d}))
  BY <1>6, <1>8
<1>13. f[d] + SumFunctionOnSet(f, s \ {d}) = f[d] + (f[p] + SumFunctionOnSet(f, rest \ {d}))
  BY <1>9, <1>10
<1>14. SumFunctionOnSet(f, s) = f[d] + SumFunctionOnSet(f, s \ {d})
  BY <1>11, <1>12, <1>13
<1> QED  BY <1>3, <1>14

\* Induction over the subsets of a finite set: F is the set of those for which
\* the claim holds.
LEMMA SubsetInduction ==
  ASSUME NEW S, IsFiniteSet(S), NEW F, {} \in F,
         \A s \in SUBSET S : \A e \in s : s \ {e} \in F => s \in F
  PROVE  S \in F
<1> SUFFICES ASSUME S \notin F PROVE FALSE
  OBVIOUS
<1> DEFINE G == {s \in SUBSET S : s \notin F}
<1>1. G \in SUBSET SUBSET S /\ G # {}
  OBVIOUS
<1>2. PICK s \in G : \A t \in G : t \subseteq s => t = s
  <2> HIDE DEF G
  <2> QED  BY <1>1, MinimalSubset
<1>3. PICK e \in s : TRUE
  OBVIOUS
<1>4. s \ {e} \in SUBSET S /\ s \ {e} # s /\ s \ {e} \subseteq s
  BY <1>3
<1>5. s \ {e} \in F
  BY <1>2, <1>4
<1> QED  BY <1>3, <1>5

\* The sum of bits counts those that are set.
LEMMA SumCounts ==
  ASSUME NEW S, IsFiniteSet(S), NEW f, \A x \in S : f[x] \in 0..1
  PROVE  SumFunctionOnSet(f, S) = Cardinality({x \in S : f[x] = 1})
<1> DEFINE one(s) == {x \in s : f[x] = 1}
           F == {s \in SUBSET S : SumFunctionOnSet(f, s) = Cardinality(one(s))}
<1>1. {} \in F
  <2>1. one({}) = {}
    OBVIOUS
  <2> QED  BY <2>1, SumOfNone, FS_EmptySet
<1>2. ASSUME NEW s \in SUBSET S, NEW e \in s, s \ {e} \in F PROVE s \in F
  <2>1. IsFiniteSet(s) /\ \A x \in s : f[x] \in Int
    BY FS_Subset
  <2>2. SumFunctionOnSet(f, s) = f[e] + SumFunctionOnSet(f, s \ {e})
    BY <2>1, SumTakesAny
  <2>3. PICK o : o = one(s \ {e})
    OBVIOUS
  <2>4. SumFunctionOnSet(f, s \ {e}) = Cardinality(o)
    BY <1>2, <2>3
  <2>5. IsFiniteSet(o) /\ e \notin o /\ Cardinality(o) \in Nat
    <3>1. o \subseteq s /\ e \notin o
      BY <2>3
    <3> QED  BY <3>1, <2>1, FS_Subset, FS_CardinalityType
  <2>6. CASE f[e] = 1
    <3>1. one(s) = o \cup {e}
      BY <2>3, <2>6
    <3>2. Cardinality(o \cup {e}) = Cardinality(o) + 1
      BY <2>5, FS_AddElement
    <3>3. SumFunctionOnSet(f, s) = 1 + Cardinality(o)
      BY <2>2, <2>4, <2>6
    <3> QED  BY <3>1, <3>2, <3>3, <2>5
  <2>7. CASE f[e] # 1
    <3>1. one(s) = o /\ f[e] = 0
      BY <2>3, <2>7
    <3>2. SumFunctionOnSet(f, s) = Cardinality(o)
      BY <2>2, <2>4, <2>5, <3>1
    <3>3. SumFunctionOnSet(f, s) = Cardinality(one(s))
      BY <3>1, <3>2
    <3> QED  BY <3>3
  <2> QED  BY <2>6, <2>7
<1>3. S \in F
  <2> HIDE DEF F
  <2> QED  BY <1>1, <1>2, SubsetInduction
<1> QED  BY <1>3

\* The sum of natural numbers is one, positive if one of them is.
LEMMA SumOfNaturals ==
  ASSUME NEW S, IsFiniteSet(S), NEW f, \A x \in S : f[x] \in Nat
  PROVE  /\ SumFunctionOnSet(f, S) \in Nat
         /\ \A x \in S : f[x] <= SumFunctionOnSet(f, S)
<1> DEFINE F == {s \in SUBSET S : SumFunctionOnSet(f, s) \in Nat}
<1>1. {} \in F
  BY SumOfNone
<1>2. ASSUME NEW s \in SUBSET S, NEW e \in s, s \ {e} \in F PROVE s \in F
  <2>1. IsFiniteSet(s) /\ \A x \in s : f[x] \in Int
    BY FS_Subset
  <2>2. SumFunctionOnSet(f, s) = f[e] + SumFunctionOnSet(f, s \ {e})
    BY <2>1, SumTakesAny
  <2>3. SumFunctionOnSet(f, s \ {e}) \in Nat /\ f[e] \in Nat
    BY <1>2
  <2>4. SumFunctionOnSet(f, s) \in Nat
    BY <2>2, <2>3
  <2> QED  BY <2>4
<1> HIDE DEF F
<1>3. \A T \in SUBSET S : T \in F
  <2> TAKE T \in SUBSET S
  <2>1. IsFiniteSet(T)
    BY FS_Subset
  <2>2. \A s \in SUBSET T : \A e \in s : s \ {e} \in F => s \in F
    BY <1>2
  <2> QED  BY <1>1, <2>1, <2>2, SubsetInduction
<1> USE DEF F
<1>4. ASSUME NEW x \in S PROVE f[x] <= SumFunctionOnSet(f, S)
  <2>1. \A y \in S : f[y] \in Int
    OBVIOUS
  <2>2. SumFunctionOnSet(f, S) = f[x] + SumFunctionOnSet(f, S \ {x})
    BY <2>1, SumTakesAny
  <2>3. SumFunctionOnSet(f, S \ {x}) \in Nat /\ f[x] \in Nat
    BY <1>3
  <2> QED  BY <2>2, <2>3
<1>5. SumFunctionOnSet(f, S) \in Nat
  BY <1>3
<1> QED  BY <1>4, <1>5

\* A sum with at most one term that is not zero.
LEMMA SumOfOne ==
  ASSUME NEW S, IsFiniteSet(S), NEW f, NEW e \in S, f[e] \in Int,
         \A x \in S : x # e => f[x] = 0
  PROVE  SumFunctionOnSet(f, S) = f[e]
<1> DEFINE F == {s \in SUBSET S : SumFunctionOnSet(f, s) = IF e \in s THEN f[e] ELSE 0}
<1>1. {} \in F
  BY SumOfNone
<1>2. ASSUME NEW s \in SUBSET S, NEW d \in s, s \ {d} \in F PROVE s \in F
  <2>1. IsFiniteSet(s) /\ \A x \in s : f[x] \in Int
    BY FS_Subset
  <2>2. SumFunctionOnSet(f, s) = f[d] + SumFunctionOnSet(f, s \ {d})
    BY <2>1, SumTakesAny
  <2>3. SumFunctionOnSet(f, s \ {d}) = IF e \in s \ {d} THEN f[e] ELSE 0
    BY <1>2
  <2>4. SumFunctionOnSet(f, s) = IF e \in s THEN f[e] ELSE 0
    <3>1. CASE d = e
      BY <2>2, <2>3, <3>1
    <3>2. CASE d # e
      BY <2>2, <2>3, <3>2
    <3> QED  BY <3>1, <3>2
  <2> QED  BY <2>4
<1>3. S \in F
  <2> HIDE DEF F
  <2> QED  BY <1>1, <1>2, SubsetInduction
<1> QED  BY <1>3
=============================================================================
